----------------------------- MODULE MCBilling -----------------------------
(***************************************************************************)
(* Instances of Billing for TLC.                                           *)
(***************************************************************************)
EXTENDS Billing, TLC

CONSTANTS o1, o2, o3, april, may, i1, i2, i3, p1, p2

OneMonth == (o1 :> april) @@ (o2 :> april)
TwoMonths == (o1 :> april) @@ (o2 :> april) @@ (o3 :> may)

\* Row ids and requests are interchangeable; only for invariants.
BillingSymmetry == Permutations(Invoices) \cup Permutations(Operators)
=============================================================================
