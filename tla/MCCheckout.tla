----------------------------- MODULE MCCheckout -----------------------------
(***************************************************************************)
(* Instances of Checkout for TLC.                                          *)
(***************************************************************************)
EXTENDS Checkout, TLC

CONSTANTS ann, north, cards, b1, b2, l1, l2, o1, o2, t1, t2

MCBranchesOf == ann :> {north}
\* Cards are sold from 2 in steps of 2, so a line of 1 is ordered as 2.
MCMoq == cards :> 2
MCMultiple == cards :> 2
MCPrice == cards :> 1
\* Room for one order of 2, and not for a second or for one of two lines.
MCCap == north :> 3

CheckoutSymmetry ==
  Permutations(Baskets) \cup Permutations(Lines) \cup Permutations(Orders)
    \cup Permutations(Requests)
=============================================================================
