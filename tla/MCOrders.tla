------------------------------ MODULE MCOrders ------------------------------
(***************************************************************************)
(* Instances of OrderLifecycle for TLC.                                    *)
(***************************************************************************)
EXTENDS OrderLifecycle, TLC

CONSTANTS o1, o2, sheets, mugs, banners, r1, r2, c1

MCLines == (o1 :> (sheets :> 2)) @@ (o2 :> (sheets :> 1))
MCOpening == sheets :> 2
MCDeltas == {-1, 1}

\* A product, a variant and a product that is tracked only from time to time;
\* one order mixes all three.
MixedLines ==
  (o1 :> (sheets :> 1 @@ mugs :> 1 @@ banners :> 1))
    @@ (o2 :> (sheets :> 1 @@ mugs :> 0 @@ banners :> 0))
MixedOpening == (sheets :> 2) @@ (mugs :> 1) @@ (banners :> 1)

\* Requests are interchangeable; only invariants are checked with it.
RequestSymmetry == Permutations(Requests)
=============================================================================
