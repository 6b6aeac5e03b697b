---------------------------- MODULE OrderStatus ----------------------------
(***************************************************************************)
(* The order state machine as data: the transition table that              *)
(* orders.service.ts, the status DTOs and the reports all read, and the    *)
(* classes of status derived from it.                                      *)
(***************************************************************************)
EXTENDS Integers

Status ==
  {"DRAFT", "PENDING_APPROVAL", "CHANGES_REQUESTED", "APPROVED", "PROCESSING",
   "DISPATCHED", "DELIVERED", "REJECTED", "CANCELLED"}

\* TRANSITIONS as a set of <<from, to>> pairs.
TRANSITIONS ==
  ({"DRAFT"} \X {"PENDING_APPROVAL", "APPROVED", "CANCELLED"})
    \cup ({"PENDING_APPROVAL"} \X
            {"APPROVED", "CHANGES_REQUESTED", "REJECTED", "CANCELLED"})
    \cup ({"CHANGES_REQUESTED"} \X {"PENDING_APPROVAL", "REJECTED", "CANCELLED"})
    \cup ({"APPROVED"} \X {"PROCESSING", "CANCELLED"})
    \cup ({"PROCESSING"} \X {"DISPATCHED", "CHANGES_REQUESTED", "CANCELLED"})
    \cup ({"DISPATCHED"} \X {"DELIVERED"})

canTransition(from, to) == <<from, to>> \in TRANSITIONS

isTerminal(s) == \A to \in Status : ~canTransition(s, to)

\* Statuses whose spend counts against a branch's monthly budget.
COMMITTED_STATUSES ==
  {"PENDING_APPROVAL", "CHANGES_REQUESTED", "APPROVED", "PROCESSING",
   "DISPATCHED", "DELIVERED"}

TERMINAL_STATUSES == {"DELIVERED", "REJECTED", "CANCELLED"}

\* Over the account threshold: strictly, and never when there is none.
requiresApproval(total, threshold, NoThreshold) ==
  threshold # NoThreshold /\ total > threshold
=============================================================================
