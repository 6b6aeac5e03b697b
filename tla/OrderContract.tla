--------------------------- MODULE OrderContract ---------------------------
(***************************************************************************)
(* What the order lifecycle promises the people who read it: an order is   *)
(* placed once, moves only along the transition table, and its reservation *)
(* is settled exactly once, in the step that ships, refuses or cancels it. *)
(***************************************************************************)
EXTENDS OrderStatus

CONSTANT Orders

VARIABLES status, stockState

vars == <<status, stockState>>

Init ==
  /\ status = [o \in Orders |-> "UNPLACED"]
  /\ stockState = [o \in Orders |-> "NONE"]

Place(o) ==
  /\ status[o] = "UNPLACED"
  /\ \E s \in {"PENDING_APPROVAL", "APPROVED"} : status' = [status EXCEPT ![o] = s]
  /\ \E h \in {"NONE", "RESERVED"} : stockState' = [stockState EXCEPT ![o] = h]

\* What is left of a hold once an order has moved to a status.
HoldAfter(hold, to) ==
  IF hold # "RESERVED" THEN hold
  ELSE CASE to = "DISPATCHED" -> "CONSUMED"
         [] to \in {"REJECTED", "CANCELLED"} -> "RELEASED"
         [] OTHER -> "RESERVED"

Move(o, to) ==
  /\ canTransition(status[o], to)
  /\ status' = [status EXCEPT ![o] = to]
  /\ stockState' = [stockState EXCEPT ![o] = HoldAfter(stockState[o], to)]

Next == \E o \in Orders : Place(o) \/ \E to \in Status : Move(o, to)

Spec == Init /\ [][Next]_vars
=============================================================================
