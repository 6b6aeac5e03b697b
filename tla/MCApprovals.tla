---------------------------- MODULE MCApprovals ----------------------------
(***************************************************************************)
(* Instances of Approvals for TLC: one order of one shelf, a buyer, a      *)
(* head-office manager, an administrator and a clerk.                      *)
(***************************************************************************)
EXTENDS Approvals, TLC

CONSTANTS o1, sheets, r1, c1, buyer, manager, admin, d1, d2

MCLines == o1 :> (sheets :> 1)
MCOpening == sheets :> 1
MCDeltas == {1}

MCRoleOf ==
  (buyer :> "SITE_USER") @@ (manager :> "HEAD_OFFICE") @@ (admin :> "ADMIN")
MCPlacedBy == o1 :> buyer
MCFacts ==
  o1 :> [total |-> 5, site |-> "north", requesterRole |-> "SITE_USER",
         categories |-> {"signage"}]

RuleFor(id, tier, minTotal, category, approver) ==
  [id |-> id, tier |-> tier, minTotal |-> minTotal, site |-> "ANY",
   requesterRole |-> "ANY", category |-> category, approver |-> approver]

\* Two signatures in the first tier and one in the second.
TwoTiers ==
  { RuleFor(1, 1, 0, "ANY", [role |-> "HEAD_OFFICE"]),
    RuleFor(2, 1, 5, "ANY", [user |-> admin]),
    RuleFor(3, 2, 0, "signage", [role |-> "ADMIN"]) }

\* And one in a third, with a rule the order does not trip.
ThreeTiers ==
  TwoTiers \cup
  { RuleFor(4, 3, 1, "ANY", [user |-> manager]),
    RuleFor(5, 1, 6, "ANY", [user |-> manager]) }

\* The warehouse works before an approval and after it; its steps among those
\* of a decision are looked at in MCApprovalsSerial.
ClerkAlone ==
  (\E c \in Clerks : clerk[c] # Idle) =>
    /\ \A d \in Deciders : decision[d] = Idle
    /\ \A r \in Requests : request[r] = Idle
    /\ \A o \in Orders : approval[o] = NoRequest \/ approval[o].status # "PENDING"

DeciderSymmetry == Permutations(Deciders)
=============================================================================
