----------------------------- MODULE OrderProofs -----------------------------
(***************************************************************************)
(* What orders, the shelves they draw on and their approval requests keep  *)
(* together, for every set of orders, shelves, people and rules, every     *)
(* number of requests and decisions in flight, and every content of the    *)
(* baskets.                                                                *)
(***************************************************************************)
EXTENDS Approvals, ApprovalRules, Sums

USE LinesAssumption, StockAssumption, ShelfAssumption

\* GREATEST(0, n) of an integer is a natural number.
LEMMA FloorIsNat ==
  ASSUME NEW n \in Int
  PROVE  Floor(n) \in Nat
BY DEF Floor

\* What an order moves on a shelf is a natural number.
LEMMA MovedIsNat ==
  ASSUME TypeOK, NEW o \in Orders, NEW s \in Shelves
  PROVE  Moved(o, s) \in Nat
BY DEF TypeOK, Moved

\* Both counts come down by the same amount, each floored at zero: what was
\* within the shelf stays within it.
LEMMA FlooredTogether ==
  ASSUME NEW h \in Nat, NEW r \in Nat, NEW q \in Nat, r <= h
  PROVE  /\ Floor(r - q) <= Floor(h - q)
         /\ Floor(r - q) <= h
BY DEF Floor

-----------------------------------------------------------------------------
\* MoveStock, for any order and status, leaves counts of the right type and
\* the order's stockState among the four there are.
LEMMA MoveStockType ==
  ASSUME TypeOK, NEW o \in Orders, NEW to \in Status, NEW held \in BOOLEAN,
         MoveStock(o, to, held)
  PROVE  /\ onHand' \in [Shelves -> Nat]
         /\ reserved' \in [Shelves -> Nat]
         /\ stockState' \in [Orders -> StockState]
<1>1. \A s \in Shelves : /\ Floor(reserved[s] - Moved(o, s)) \in Nat
                         /\ Floor(onHand[s] - Moved(o, s)) \in Nat
  BY MovedIsNat, FloorIsNat DEF TypeOK
<1>2. CASE Consume(o) /\ stockState' = [stockState EXCEPT ![o] = "CONSUMED"]
  BY <1>1, <1>2 DEF Consume, TypeOK, StockState
<1>3. CASE Release(o) /\ stockState' = [stockState EXCEPT ![o] = "RELEASED"]
  BY <1>1, <1>3 DEF Release, TypeOK, StockState
<1>4. CASE UNCHANGED <<onHand, reserved, stockState>>
  BY <1>4 DEF TypeOK
<1>5. QED
  BY <1>2, <1>3, <1>4 DEF MoveStock

\* MoveStock never leaves a shelf promising more than it holds.
LEMMA MoveStockSound ==
  ASSUME TypeOK, ShelfNeverOversold,
         NEW o \in Orders, NEW to \in Status, NEW held \in BOOLEAN,
         MoveStock(o, to, held)
  PROVE  ShelfNeverOversold'
<1> SUFFICES ASSUME NEW s \in Shelves PROVE reserved'[s] <= onHand'[s]
  BY DEF ShelfNeverOversold
<1>1. Floor(reserved[s] - Moved(o, s)) <= Floor(onHand[s] - Moved(o, s))
      /\ Floor(reserved[s] - Moved(o, s)) <= onHand[s]
  BY MovedIsNat, FlooredTogether DEF TypeOK, ShelfNeverOversold
<1>2. QED
  BY <1>1 DEF MoveStock, Consume, Release, TypeOK, ShelfNeverOversold

-----------------------------------------------------------------------------
\* Every step keeps the types.
LEMMA TypeStep == TypeOK /\ [Next]_vars => TypeOK'
<1> SUFFICES ASSUME TypeOK, [Next]_vars PROVE TypeOK'
  OBVIOUS
<1> USE DEF orderVars, shelfVars
<1>1. ASSUME NEW o \in Orders, NEW needsApproval \in BOOLEAN, Place(o, needsApproval)
      PROVE  TypeOK'
  <2>1. reserved' \in [Shelves -> Nat]
    BY <1>1, MovedIsNat DEF Place, Reserve, TypeOK
  <2>2. QED
    BY <1>1, <2>1 DEF Place, Reserve, TypeOK, StockState, Status
<1>2. ASSUME NEW r \in Requests, NEW o \in Orders, NEW to \in Status,
             ReadForChange(r, o, to)
      PROVE  TypeOK'
  <2>1. status[o] \in Status
    BY <1>2 DEF ReadForChange, TypeOK, Unplaced
  <2>2. [op |-> "change", order |-> o, from |-> status[o], to |-> to,
         held |-> stockState[o] = "RESERVED"] \in ChangeRequest
    BY <2>1 DEF ChangeRequest
  <2>3. QED
    BY <1>2, <2>2 DEF ReadForChange, TypeOK
<1>3. ASSUME NEW r \in Requests, CommitChange(r)
      PROVE  TypeOK'
  <2>1. request[r] \in ChangeRequest
    BY <1>3 DEF CommitChange, TypeOK
  <2>2. /\ request[r].order \in Orders
        /\ request[r].to \in Status
        /\ request[r].held \in BOOLEAN
    BY <2>1 DEF ChangeRequest
  <2>3. /\ onHand' \in [Shelves -> Nat]
        /\ reserved' \in [Shelves -> Nat]
        /\ stockState' \in [Orders -> StockState]
    BY <1>3, <2>2, MoveStockType DEF CommitChange
  <2>4. QED
    BY <1>3, <2>2, <2>3 DEF CommitChange, TypeOK
<1>4. ASSUME NEW r \in Requests, AbandonChange(r)
      PROVE  TypeOK'
  BY <1>4 DEF AbandonChange, TypeOK
<1>5. ASSUME NEW c \in Clerks, NEW s \in Shelves, NEW d \in Deltas, BeginAdjust(c, s, d)
      PROVE  TypeOK'
  BY <1>5 DEF BeginAdjust, TypeOK, AdjustRequest
<1>6. ASSUME NEW c \in Clerks, CommitAdjust(c)
      PROVE  TypeOK'
  <2>1. clerk[c] \in AdjustRequest
    BY <1>6 DEF CommitAdjust, TypeOK, StocktakeRequest, Idle
  <2>2. /\ clerk[c].shelf \in Shelves
        /\ clerk[c].delta \in Int
    BY <2>1 DEF AdjustRequest
  <2>3. onHand' \in [Shelves -> Nat]
    BY <1>6, <2>2 DEF CommitAdjust, CheckConstraintHolds, TypeOK
  <2>4. QED
    BY <1>6, <2>3 DEF CommitAdjust, TypeOK
<1>7. ASSUME NEW c \in Clerks, NEW rows \in SUBSET (Shelves \ Variants) \ {{}},
             NEW counted \in [Shelves -> 0..MaxOnHand], BeginStocktake(c, rows, counted)
      PROVE  TypeOK'
  <2>1. [op |-> "stocktake", rows |-> rows, counted |-> counted,
         seenOnHand |-> onHand, seenReserved |-> reserved, seenTracked |-> tracked]
           \in StocktakeRequest
    BY DEF StocktakeRequest, TypeOK
  <2>2. QED
    BY <1>7, <2>1 DEF BeginStocktake, TypeOK
<1>8. ASSUME NEW c \in Clerks, NEW s \in Shelves, CountRow(c, s)
      PROVE  TypeOK'
  <2>1. clerk[c] \in StocktakeRequest
    BY <1>8 DEF CountRow, TypeOK, AdjustRequest, Idle
  <2>2. /\ clerk[c].counted[s] \in Nat
        /\ [clerk[c] EXCEPT !.rows = @ \ {s}] \in StocktakeRequest
    BY <2>1 DEF StocktakeRequest
  <2>3. AfterRow(clerk[c], s) \in StocktakeRequest \cup {Idle}
    BY <2>2 DEF AfterRow
  <2>4. onHand' \in [Shelves -> Nat]
    BY <1>8, <2>2 DEF CountRow, TypeOK
  <2>5. clerk' \in [Clerks -> AdjustRequest \cup StocktakeRequest \cup {Idle}]
    BY <1>8, <2>3 DEF CountRow, TypeOK
  <2>6. QED
    BY <1>8, <2>4, <2>5 DEF CountRow, TypeOK
<1>9. ASSUME NEW c \in Clerks, AbandonClerk(c)
      PROVE  TypeOK'
  BY <1>9 DEF AbandonClerk, TypeOK
<1>10. ASSUME NEW s \in Shelves, SetTracking(s)
       PROVE  TypeOK'
  BY <1>10 DEF SetTracking, TypeOK
<1>11. CASE UNCHANGED vars
  BY <1>11 DEF vars, TypeOK
<1>12. QED
  BY <1>1, <1>2, <1>3, <1>4, <1>5, <1>6, <1>7, <1>8, <1>9, <1>10, <1>11
     DEF Next, OrderStep, WarehouseStep

\* Type correctness, for every instance: no interleaving drives a count below
\* zero or writes a status, a stock state or a request of another shape.
THEOREM TypeCorrect == Spec => []TypeOK
<1>1. Init => TypeOK
  BY DEF Init, TypeOK, StockState, Status, Unplaced, Idle
<1>2. TypeOK /\ [Next]_vars => TypeOK'
  BY TypeStep
<1>3. QED
  BY <1>1, <1>2, PTL DEF Spec

-----------------------------------------------------------------------------
\* Every step keeps each shelf's promise within what it holds.
LEMMA ShelfStep == TypeOK /\ ShelfNeverOversold /\ [Next]_vars => ShelfNeverOversold'
<1> SUFFICES ASSUME TypeOK, ShelfNeverOversold, [Next]_vars
             PROVE  ShelfNeverOversold'
  OBVIOUS
<1> USE DEF orderVars, shelfVars
<1>1. ASSUME NEW o \in Orders, NEW needsApproval \in BOOLEAN, Place(o, needsApproval)
      PROVE  ShelfNeverOversold'
  <2> SUFFICES ASSUME NEW s \in Shelves PROVE reserved'[s] <= onHand'[s]
    BY DEF ShelfNeverOversold
  <2>1. Moved(o, s) \in Nat
    BY MovedIsNat
  <2>2. reserved'[s] = reserved[s] + Moved(o, s) /\ onHand'[s] = onHand[s]
    BY <1>1 DEF Place, Reserve
  <2>3. CASE Moved(o, s) = 0
    BY <2>2, <2>3 DEF TypeOK, ShelfNeverOversold
  <2>4. CASE Moved(o, s) > 0
    BY <1>1, <2>1, <2>2, <2>4 DEF Place, Reserve, CanReserve, TypeOK
  <2>5. QED
    BY <2>1, <2>3, <2>4
<1>2. ASSUME NEW r \in Requests, CommitChange(r)
      PROVE  ShelfNeverOversold'
  <2>1. request[r] \in ChangeRequest
    BY <1>2 DEF CommitChange, TypeOK
  <2>2. QED
    BY <1>2, <2>1, MoveStockSound DEF CommitChange, ChangeRequest
<1>3. ASSUME NEW c \in Clerks, CommitAdjust(c)
      PROVE  ShelfNeverOversold'
  BY <1>3 DEF CommitAdjust, CheckConstraintHolds, TypeOK, ShelfNeverOversold
<1>4. ASSUME NEW c \in Clerks, NEW s \in Shelves, CountRow(c, s)
      PROVE  ShelfNeverOversold'
  BY <1>4 DEF CountRow, CheckConstraintHolds, TypeOK, ShelfNeverOversold
<1>5. CASE UNCHANGED <<onHand, reserved>>
  BY <1>5 DEF ShelfNeverOversold
<1>6. QED
  BY <1>1, <1>2, <1>3, <1>4, <1>5
     DEF Next, OrderStep, WarehouseStep, ReadForChange, AbandonChange, BeginAdjust,
         BeginStocktake, AbandonClerk, SetTracking, vars

\* No shelf is ever oversold, whatever requests and clerks are in flight: the
\* guards that read early are not what keeps it.
THEOREM ShelfSafe == Spec => []ShelfNeverOversold
<1>1. Init => ShelfNeverOversold
  BY DEF Init, ShelfNeverOversold
<1>2. TypeOK /\ ShelfNeverOversold /\ [Next]_vars => ShelfNeverOversold'
  BY ShelfStep
<1>3. QED
  BY <1>1, <1>2, TypeCorrect, PTL DEF Spec

-----------------------------------------------------------------------------
(***************************************************************************)
(* NoStrandedHold is not inductive by itself: a request writes a status it *)
(* decided on long ago.  What it remembers has to be tied to the order as  *)
(* it is now.  A hold is never retaken, so an order read without one has   *)
(* none when the request commits; and a request that read a settled order  *)
(* read it without one.                                                    *)
(***************************************************************************)
ReadsStayTrue ==
  \A r \in Requests :
    request[r] # Idle =>
      /\ status[request[r].order] # Unplaced
      /\ ~request[r].held => stockState[request[r].order] # "RESERVED"
      /\ request[r].from \in Settled => ~request[r].held
      /\ canTransition(request[r].from, request[r].to)

UnplacedHoldsNothing ==
  \A o \in Orders : status[o] = Unplaced => stockState[o] # "RESERVED"

HoldInv == NoStrandedHold /\ ReadsStayTrue /\ UnplacedHoldsNothing

\* Only an order already dispatched can move to DELIVERED.
LEMMA DeliveredFromDispatched ==
  ASSUME NEW from, canTransition(from, "DELIVERED")
  PROVE  from = "DISPATCHED"
BY DEF canTransition, TRANSITIONS

\* After MoveStock an order that was read with a hold keeps it only if it has
\* moved to a status in which it may.
LEMMA MoveStockHold ==
  ASSUME TypeOK, NEW o \in Orders, NEW to \in Status, NEW held \in BOOLEAN,
         MoveStock(o, to, held)
  PROVE  /\ \A p \in Orders : p # o => stockState'[p] = stockState[p]
         /\ stockState[o] # "RESERVED" => stockState'[o] # "RESERVED"
         /\ held /\ to \in {"DISPATCHED", "REJECTED", "CANCELLED"}
              => stockState'[o] # "RESERVED"
         /\ stockState'[o] # "RESERVED" \/ stockState'[o] = stockState[o]
BY DEF MoveStock, TypeOK

\* The requests that have read an order with a hold, and the orders they read.
LEMMA HoldAlways == Spec => []HoldInv
<1>1. Init => HoldInv
  BY DEF Init, HoldInv, NoStrandedHold, ReadsStayTrue, UnplacedHoldsNothing, Settled,
         Unplaced
<1>2. TypeOK /\ HoldInv /\ [Next]_vars => HoldInv'
  <2> SUFFICES ASSUME TypeOK, HoldInv, [Next]_vars PROVE HoldInv'
    OBVIOUS
  <2> USE DEF orderVars, shelfVars
  <2>1. ASSUME NEW o \in Orders, NEW needsApproval \in BOOLEAN, Place(o, needsApproval)
        PROVE  HoldInv'
    <3>1. /\ status[o] = Unplaced
          /\ status' = [status EXCEPT ![o] =
                          IF needsApproval THEN "PENDING_APPROVAL" ELSE "APPROVED"]
          /\ \A p \in Orders : p # o => stockState'[p] = stockState[p]
          /\ request' = request
      BY <2>1 DEF Place, TypeOK
    <3>2. \A r \in Requests : request[r] # Idle =>
             request[r].order \in Orders /\ request[r].order # o
      BY <3>1 DEF HoldInv, ReadsStayTrue, TypeOK, ChangeRequest
    <3>3. NoStrandedHold'
      BY <3>1 DEF HoldInv, NoStrandedHold, Settled, TypeOK
    <3>4. ReadsStayTrue'
      BY <3>1, <3>2 DEF HoldInv, ReadsStayTrue, TypeOK
    <3>5. UnplacedHoldsNothing'
      BY <3>1 DEF HoldInv, UnplacedHoldsNothing, Unplaced, TypeOK
    <3>6. QED
      BY <3>3, <3>4, <3>5 DEF HoldInv
  <2>2. ASSUME NEW r \in Requests, NEW o \in Orders, NEW to \in Status,
               ReadForChange(r, o, to)
        PROVE  HoldInv'
    <3>1. \A q \in Requests : q # r => request'[q] = request[q]
      BY <2>2 DEF ReadForChange, TypeOK
    <3>2. request'[r] = [op |-> "change", order |-> o, from |-> status[o], to |-> to,
                         held |-> stockState[o] = "RESERVED"]
      BY <2>2 DEF ReadForChange, TypeOK
    <3>3. /\ status' = status /\ stockState' = stockState
          /\ status[o] # Unplaced /\ canTransition(status[o], to)
      BY <2>2 DEF ReadForChange
    <3>4. ReadsStayTrue'
      <4> SUFFICES ASSUME NEW q \in Requests, request'[q] # Idle
                   PROVE  /\ status[request'[q].order] # Unplaced
                          /\ ~request'[q].held =>
                               stockState[request'[q].order] # "RESERVED"
                          /\ request'[q].from \in Settled => ~request'[q].held
                          /\ canTransition(request'[q].from, request'[q].to)
        BY <3>3 DEF ReadsStayTrue
      <4>1. CASE q = r
        <5>1. /\ request'[r].order = o /\ request'[r].to = to
              /\ request'[r].from = status[o]
              /\ request'[r].held = (stockState[o] = "RESERVED")
          BY <3>2
        <5>2. status[o] \in Settled => stockState[o] # "RESERVED"
          BY DEF HoldInv, NoStrandedHold
        <5>3. QED
          BY <4>1, <5>1, <5>2, <3>3, Zenon
      <4>2. CASE q # r
        BY <4>2, <3>1 DEF HoldInv, ReadsStayTrue
      <4>3. QED
        BY <4>1, <4>2
    <3>5. QED
      BY <3>3, <3>4 DEF HoldInv, NoStrandedHold, UnplacedHoldsNothing
  <2>3. ASSUME NEW r \in Requests, CommitChange(r)
        PROVE  HoldInv'
    <3> DEFINE o == request[r].order
               to == request[r].to
               held == request[r].held
    <3>1. request[r] \in ChangeRequest /\ request[r] # Idle
      BY <2>3 DEF CommitChange, TypeOK
    <3>2. o \in Orders /\ to \in Status /\ held \in BOOLEAN
      BY <3>1 DEF ChangeRequest
    <3>3. /\ status' = [status EXCEPT ![o] = to]
          /\ MoveStock(o, to, held)
          /\ request' = [request EXCEPT ![r] = Idle]
      BY <2>3 DEF CommitChange
    <3>4. /\ \A p \in Orders : p # o => stockState'[p] = stockState[p]
          /\ stockState[o] # "RESERVED" => stockState'[o] # "RESERVED"
          /\ held /\ to \in {"DISPATCHED", "REJECTED", "CANCELLED"}
               => stockState'[o] # "RESERVED"
      BY <3>2, <3>3, MoveStockHold
    <3>5. /\ ~held => stockState[o] # "RESERVED"
          /\ to = "DELIVERED" => ~held
      <4>1. to = "DELIVERED" => request[r].from = "DISPATCHED"
        BY <3>1, DeliveredFromDispatched DEF HoldInv, ReadsStayTrue
      <4>2. QED
        BY <3>1, <4>1 DEF HoldInv, ReadsStayTrue, Settled
    <3>6. to \in Settled => stockState'[o] # "RESERVED"
      BY <3>2, <3>4, <3>5 DEF Settled
    <3>7. to # Unplaced
      BY <3>2 DEF Status, Unplaced
    <3>8. NoStrandedHold'
      <4> SUFFICES ASSUME NEW p \in Orders, status'[p] \in Settled
                   PROVE  stockState'[p] # "RESERVED"
        BY DEF NoStrandedHold
      <4>1. CASE p = o
        BY <4>1, <3>2, <3>3, <3>6 DEF TypeOK
      <4>2. CASE p # o
        BY <4>2, <3>2, <3>3, <3>4 DEF TypeOK, HoldInv, NoStrandedHold
      <4>3. QED
        BY <4>1, <4>2
    <3>9. UnplacedHoldsNothing'
      <4> SUFFICES ASSUME NEW p \in Orders, status'[p] = Unplaced
                   PROVE  stockState'[p] # "RESERVED"
        BY DEF UnplacedHoldsNothing
      <4>1. p # o
        BY <3>2, <3>3, <3>7 DEF TypeOK
      <4>2. QED
        BY <4>1, <3>2, <3>3, <3>4 DEF TypeOK, HoldInv, UnplacedHoldsNothing
    <3>10. ReadsStayTrue'
      <4> SUFFICES ASSUME NEW q \in Requests, request'[q] # Idle
                   PROVE  /\ status'[request'[q].order] # Unplaced
                          /\ ~request'[q].held =>
                               stockState'[request'[q].order] # "RESERVED"
                          /\ request'[q].from \in Settled => ~request'[q].held
                          /\ canTransition(request'[q].from, request'[q].to)
        BY DEF ReadsStayTrue
      <4>1. request'[q] = request[q] /\ request[q] # Idle
        BY <3>3 DEF TypeOK
      <4>2. request[q].order \in Orders
        BY <4>1 DEF TypeOK, ChangeRequest
      <4>3. status'[request[q].order] # Unplaced
        BY <4>1, <4>2, <3>2, <3>3, <3>7 DEF HoldInv, ReadsStayTrue, TypeOK
      <4>4. stockState[request[q].order] # "RESERVED" =>
              stockState'[request[q].order] # "RESERVED"
        BY <4>2, <3>4
      <4>5. QED
        BY <4>1, <4>3, <4>4 DEF HoldInv, ReadsStayTrue
    <3>11. QED
      BY <3>8, <3>9, <3>10 DEF HoldInv
  <2>4. ASSUME NEW r \in Requests, AbandonChange(r)
        PROVE  HoldInv'
    BY <2>4 DEF AbandonChange, TypeOK, HoldInv, NoStrandedHold, ReadsStayTrue,
                UnplacedHoldsNothing
  <2>5. CASE UNCHANGED <<status, stockState, request>>
    BY <2>5 DEF HoldInv, NoStrandedHold, ReadsStayTrue, UnplacedHoldsNothing
  <2>6. QED
    BY <2>1, <2>2, <2>3, <2>4, <2>5
       DEF Next, OrderStep, WarehouseStep, BeginAdjust, CommitAdjust, BeginStocktake,
           CountRow, AbandonClerk, SetTracking, vars
<1>3. QED
  BY <1>1, <1>2, TypeCorrect, PTL DEF Spec

\* Whatever order requests interleave in, an order that has shipped, been
\* refused or been cancelled through changeStatus holds no stock.
THEOREM HoldSafe == Spec => []NoStrandedHold
<1>1. HoldInv => NoStrandedHold
  BY DEF HoldInv
<1>2. QED
  BY <1>1, HoldAlways, PTL

-----------------------------------------------------------------------------
(***************************************************************************)
(* When status changes are made one at a time, what a request read is      *)
(* still true when it commits, and every step is one the contract allows.  *)
(***************************************************************************)
OneAtATime == \A q, r \in Requests : q = r

ReadsAreCurrent ==
  \A r \in Requests :
    request[r] # Idle =>
      /\ status[request[r].order] = request[r].from
      /\ request[r].from # Unplaced
      /\ request[r].held <=> stockState[request[r].order] = "RESERVED"
      /\ canTransition(request[r].from, request[r].to)

\* With one request at a time, no order is written over a state nobody read.
LEMMA OneAtATimeReads ==
  ASSUME OneAtATime
  PROVE  Spec => []ReadsAreCurrent
<1>1. Init => ReadsAreCurrent
  BY DEF Init, ReadsAreCurrent
<1>2. TypeOK /\ ReadsAreCurrent /\ [Next]_vars => ReadsAreCurrent'
  <2> SUFFICES ASSUME TypeOK, ReadsAreCurrent, [Next]_vars,
                      NEW q \in Requests, request'[q] # Idle
               PROVE  /\ status'[request'[q].order] = request'[q].from
                      /\ request'[q].from # Unplaced
                      /\ request'[q].held <=> stockState'[request'[q].order] = "RESERVED"
                      /\ canTransition(request'[q].from, request'[q].to)
    BY DEF ReadsAreCurrent
  <2> USE DEF orderVars, shelfVars
  <2>1. ASSUME NEW o \in Orders, NEW needsApproval \in BOOLEAN, Place(o, needsApproval)
        PROVE  /\ request'[q] = request[q]
               /\ status'[request[q].order] = status[request[q].order]
               /\ stockState'[request[q].order] = stockState[request[q].order]
    <3>1. request'[q] = request[q] /\ status[o] = Unplaced
      BY <2>1 DEF Place
    <3>2. request[q].order \in Orders /\ request[q].order # o
      BY <3>1 DEF ReadsAreCurrent, TypeOK, ChangeRequest
    <3>3. QED
      BY <2>1, <3>1, <3>2 DEF Place, TypeOK
  <2>2. ASSUME NEW r \in Requests, NEW o \in Orders, NEW to \in Status,
               ReadForChange(r, o, to)
        PROVE  /\ request'[q].order = o /\ request'[q].to = to
               /\ request'[q].from = status[o] /\ status[o] # Unplaced
               /\ request'[q].held = (stockState[o] = "RESERVED")
               /\ canTransition(status[o], to)
               /\ status' = status /\ stockState' = stockState
    <3>1. q = r
      BY DEF OneAtATime
    <3>2. request'[q] = [op |-> "change", order |-> o, from |-> status[o], to |-> to,
                         held |-> stockState[o] = "RESERVED"]
      BY <2>2, <3>1 DEF ReadForChange, TypeOK
    <3>3. QED
      BY <2>2, <3>2 DEF ReadForChange
  <2>3. ASSUME NEW r \in Requests, CommitChange(r) \/ AbandonChange(r)
        PROVE  FALSE
    BY <2>3 DEF CommitChange, AbandonChange, OneAtATime, TypeOK
  <2>4. CASE UNCHANGED <<status, stockState, request>>
    BY <2>4 DEF ReadsAreCurrent
  <2>5. CASE \E o \in Orders, needsApproval \in BOOLEAN : Place(o, needsApproval)
    BY <2>1, <2>5 DEF ReadsAreCurrent
  <2>6. CASE \E r \in Requests, o \in Orders, to \in Status : ReadForChange(r, o, to)
    <3>1. PICK r \in Requests, o \in Orders, to \in Status : ReadForChange(r, o, to)
      BY <2>6
    <3>2. QED
      BY <3>1, <2>2, Zenon
  <2>7. QED
    BY <2>3, <2>4, <2>5, <2>6
       DEF Next, OrderStep, WarehouseStep, BeginAdjust, CommitAdjust, BeginStocktake,
           CountRow, AbandonClerk, SetTracking, vars
<1>3. QED
  BY <1>1, <1>2, TypeCorrect, PTL DEF Spec

\* With one request at a time the code implements the contract: whatever the
\* warehouse does meanwhile, an order is placed once, moves along the table,
\* and settles its reservation once.
THEOREM SerialKeepsContract ==
  ASSUME OneAtATime
  PROVE  Spec => KeepsContract
<1>1. Init => Contract!Init
  BY DEF Init, Contract!Init, Unplaced
<1>2. TypeOK /\ ReadsAreCurrent /\ [Next]_vars => [Contract!Next]_(Contract!vars)
  <2> SUFFICES ASSUME TypeOK, ReadsAreCurrent, [Next]_vars
               PROVE  Contract!Next \/ UNCHANGED <<status, stockState>>
    BY DEF Contract!vars
  <2> USE DEF orderVars, shelfVars
  <2>1. ASSUME NEW o \in Orders, NEW needsApproval \in BOOLEAN, Place(o, needsApproval)
        PROVE  Contract!Next
    <3>1. Contract!Place(o)
      BY <2>1 DEF Place, Contract!Place, Unplaced
    <3>2. QED
      BY <3>1 DEF Contract!Next
  <2>2. ASSUME NEW r \in Requests, CommitChange(r)
        PROVE  Contract!Next
    <3> DEFINE o == request[r].order
               to == request[r].to
               held == request[r].held
    <3>1. request[r] \in ChangeRequest /\ request[r] # Idle
      BY <2>2 DEF CommitChange, TypeOK
    <3>2. o \in Orders /\ to \in Status /\ held \in BOOLEAN
      BY <3>1 DEF ChangeRequest
    <3>3. /\ canTransition(status[o], to)
          /\ held <=> stockState[o] = "RESERVED"
      BY <3>1, Zenon DEF ReadsAreCurrent
    <3>4. /\ status' = [status EXCEPT ![o] = to]
          /\ MoveStock(o, to, held)
      BY <2>2 DEF CommitChange
    <3>5. stockState' = [stockState EXCEPT ![o] = Contract!HoldAfter(stockState[o], to)]
      <4>1. CASE held /\ to = "DISPATCHED"
        BY <4>1, <3>3, <3>4 DEF MoveStock, Contract!HoldAfter
      <4>2. CASE held /\ to \in {"REJECTED", "CANCELLED"}
        BY <4>2, <3>3, <3>4 DEF MoveStock, Contract!HoldAfter
      <4>3. CASE ~(held /\ to \in {"DISPATCHED", "REJECTED", "CANCELLED"})
        <5>1. stockState' = stockState
          BY <4>3, <3>4 DEF MoveStock
        <5>2. Contract!HoldAfter(stockState[o], to) = stockState[o]
          BY <4>3, <3>3 DEF Contract!HoldAfter
        <5>3. QED
          BY <5>1, <5>2, <3>2 DEF TypeOK
      <4>4. QED
        BY <4>1, <4>2, <4>3
    <3>6. Contract!Move(o, to)
      BY <3>3, <3>4, <3>5 DEF Contract!Move, Contract!canTransition, canTransition,
                              Contract!TRANSITIONS, TRANSITIONS
    <3>7. QED
      BY <3>2, <3>6 DEF Contract!Next, Contract!Status, Status
  <2>3. CASE UNCHANGED <<status, stockState>>
    BY <2>3
  <2>4. QED
    BY <2>1, <2>2, <2>3
       DEF Next, OrderStep, WarehouseStep, ReadForChange, AbandonChange, BeginAdjust,
           CommitAdjust, BeginStocktake, CountRow, AbandonClerk, SetTracking, vars
<1>3. QED
  BY <1>1, <1>2, TypeCorrect, OneAtATimeReads, PTL DEF Spec, KeepsContract, Contract!Spec

\* With one request at a time, a finished order stays finished.
THEOREM SerialTerminalIsFinal ==
  ASSUME OneAtATime
  PROVE  Spec => TerminalIsFinal
<1>1. TypeOK /\ ReadsAreCurrent /\ [Next]_vars =>
        [\A o \in Orders : status[o] \in TERMINAL_STATUSES => status'[o] = status[o]]_vars
  <2> SUFFICES ASSUME TypeOK, ReadsAreCurrent, [Next]_vars,
                      NEW o \in Orders, status[o] \in TERMINAL_STATUSES
               PROVE  status'[o] = status[o]
    OBVIOUS
  <2> USE DEF orderVars, shelfVars
  <2>1. ASSUME NEW p \in Orders, NEW needsApproval \in BOOLEAN, Place(p, needsApproval)
        PROVE  status'[o] = status[o]
    BY <2>1 DEF Place, TypeOK, TERMINAL_STATUSES, Unplaced
  <2>2. ASSUME NEW r \in Requests, CommitChange(r)
        PROVE  status'[o] = status[o]
    <3>1. /\ status' = [status EXCEPT ![request[r].order] = request[r].to]
          /\ canTransition(status[request[r].order], request[r].to)
      BY <2>2 DEF CommitChange, ReadsAreCurrent
    <3>2. request[r].order # o
      BY <3>1 DEF canTransition, TRANSITIONS, TERMINAL_STATUSES
    <3>3. QED
      BY <3>1, <3>2 DEF TypeOK
  <2>3. CASE UNCHANGED status
    BY <2>3
  <2>4. QED
    BY <2>1, <2>2, <2>3
       DEF Next, OrderStep, WarehouseStep, ReadForChange, AbandonChange, BeginAdjust,
           CommitAdjust, BeginStocktake, CountRow, AbandonClerk, SetTracking, vars
<1>2. QED
  BY <1>1, TypeCorrect, OneAtATimeReads, PTL DEF Spec, TerminalIsFinal

-----------------------------------------------------------------------------
(***************************************************************************)
(* What a shelf keeps back against what orders are owed.  Only finitely    *)
(* many orders ever hold anything, so what they are owed is a sum; each    *)
(* step gives a hold to one order or takes it from one.                    *)
(***************************************************************************)
Holding == {o \in Orders : stockState[o] = "RESERVED"}

\* What an order is owed on a shelf whose tracking never changes.
Due(o, s) == IF s \in Untracked THEN 0 ELSE Lines[o][s]

ShelfInv ==
  /\ IsFiniteSet(Holding)
  /\ \A s \in SteadyShelves : tracked[s] <=> s \notin Untracked

\* What an order moves on such a shelf is what it is owed there.
LEMMA MovedIsDue ==
  ASSUME TypeOK, ShelfInv, NEW o \in Orders, NEW s \in SteadyShelves
  PROVE  Moved(o, s) = Due(o, s) /\ Due(o, s) \in Nat
BY DEF ShelfInv, Moved, Due, SteadyShelves, TypeOK

\* What all of a finite set of orders are owed on a shelf.
TotalDue(S, s) == IF s \in Untracked THEN 0 ELSE SumFunction([o \in S |-> Lines[o][s]])

LEMMA OwedIsTotalDue ==
  ASSUME NEW s \in Shelves
  PROVE  Owed(s) = TotalDue(Holding, s) /\ Owed(s)' = TotalDue(Holding', s)
BY DEF Owed, TotalDue, Holding

LEMMA TotalDueType ==
  ASSUME NEW S \in SUBSET Orders, IsFiniteSet(S), NEW s \in Shelves
  PROVE  TotalDue(S, s) \in Nat
<1>1. [o \in S |-> Lines[o][s]] \in [S -> Nat]
  OBVIOUS
<1>2. SumFunction([o \in S |-> Lines[o][s]]) \in Nat
  BY <1>1, SumType
<1>3. QED
  BY <1>2 DEF TotalDue

LEMMA TotalDueOfOneMore ==
  ASSUME NEW S \in SUBSET Orders, IsFiniteSet(S), NEW o \in Orders \ S, NEW s \in Shelves
  PROVE  TotalDue(S \cup {o}, s) = TotalDue(S, s) + Due(o, s)
<1> DEFINE few == [p \in S |-> Lines[p][s]]
           more == [p \in S \cup {o} |-> Lines[p][s]]
<1>1. /\ few \in [S -> Int] /\ more \in [S \cup {o} -> Int]
      /\ \A p \in S : more[p] = few[p]
      /\ more[o] = Lines[o][s]
  OBVIOUS
<1> HIDE DEF few, more
<1>2. IsFiniteSet(S) /\ o \notin S
  OBVIOUS
<1>3. SumFunction(more) = SumFunction(few) + more[o]
  BY ONLY <1>1, <1>2, SumOfOneMore
<1>4. QED
  BY <1>1, <1>3 DEF TotalDue, Due, few, more

\* A step that leaves holds and counts alone.
LEMMA ShelvesUntouched ==
  ASSUME ShelfInv, UNCHANGED <<stockState, reserved>>,
         \A s \in SteadyShelves : tracked'[s] = tracked[s]
  PROVE  ShelfInv' /\ \A s \in SteadyShelves : reserved'[s] = reserved[s] /\ Owed(s)' = Owed(s)
BY DEF ShelfInv, Holding, Owed

\* A placement sets aside what the order is owed, and nothing when it moves
\* nothing.
LEMMA PlacingHolds ==
  ASSUME TypeOK, UnplacedHoldsNothing, ShelfInv,
         NEW o \in Orders, NEW needsApproval \in BOOLEAN, Place(o, needsApproval)
  PROVE  /\ ShelfInv'
         /\ \A s \in SteadyShelves :
              /\ reserved'[s] = reserved[s] + Due(o, s)
              /\ Owed(s)' = Owed(s) + Due(o, s)
<1>1. /\ stockState' = [stockState EXCEPT ![o] = IF Holds(o) THEN "RESERVED" ELSE "NONE"]
      /\ reserved' = [s \in Shelves |-> reserved[s] + Moved(o, s)]
      /\ tracked' = tracked
      /\ o \notin Holding
  BY DEF Place, Reserve, UnplacedHoldsNothing, Holding
<1>2. Holding' = IF Holds(o) THEN Holding \cup {o} ELSE Holding
  BY <1>1 DEF Holding, TypeOK
<1>3. IsFiniteSet(Holding')
  BY <1>2, FS_AddElement DEF ShelfInv
<1>4. ASSUME NEW s \in SteadyShelves
      PROVE  reserved'[s] = reserved[s] + Due(o, s) /\ Owed(s)' = Owed(s) + Due(o, s)
  <2>1. s \in Shelves /\ Moved(o, s) = Due(o, s) /\ Due(o, s) \in Nat
    BY MovedIsDue DEF SteadyShelves
  <2>2. reserved'[s] = reserved[s] + Due(o, s)
    BY <1>1, <2>1
  <2>3. Holding \in SUBSET Orders /\ IsFiniteSet(Holding)
    BY DEF Holding, ShelfInv
  <2>4. CASE Holds(o)
    <3>1. TotalDue(Holding \cup {o}, s) = TotalDue(Holding, s) + Due(o, s)
      BY <1>1, <2>1, <2>3, TotalDueOfOneMore
    <3>2. QED
      BY <1>2, <2>1, <2>2, <2>4, <3>1, OwedIsTotalDue
  <2>5. CASE ~Holds(o)
    <3>1. Due(o, s) = 0
      BY <2>1, <2>5 DEF Holds
    <3>2. TotalDue(Holding, s) \in Nat
      BY <2>1, <2>3, TotalDueType
    <3>3. QED
      BY <1>2, <2>1, <2>2, <2>5, <3>1, <3>2, OwedIsTotalDue
  <2>6. QED
    BY <2>4, <2>5
<1>5. QED
  BY <1>1, <1>3, <1>4 DEF ShelfInv

\* Settling a hold gives back what the order was owed, as far as the shelf
\* keeps that much, whether or not the order still held it.
LEMMA SettlingReturns ==
  ASSUME TypeOK, ShelfInv,
         NEW o \in Orders, NEW to \in Status, NEW held \in BOOLEAN, MoveStock(o, to, held),
         UNCHANGED tracked
  PROVE  /\ ShelfInv'
         /\ \/ UNCHANGED <<stockState, reserved>>
            \/ /\ held
               /\ \A s \in SteadyShelves :
                    /\ reserved'[s] = Floor(reserved[s] - Due(o, s))
                    /\ Due(o, s) \in Nat /\ Owed(s)' \in Nat
                    /\ Owed(s) = Owed(s)' + (IF o \in Holding THEN Due(o, s) ELSE 0)
<1>1. CASE UNCHANGED <<stockState, reserved>>
  BY <1>1 DEF ShelfInv, Holding
<1>2. CASE ~ UNCHANGED <<stockState, reserved>>
  <2>1. /\ held
        /\ reserved' = [s \in Shelves |-> Floor(reserved[s] - Moved(o, s))]
        /\ \E state \in {"CONSUMED", "RELEASED"} : stockState' = [stockState EXCEPT ![o] = state]
    BY <1>2 DEF MoveStock, Consume, Release
  <2>2. Holding' = Holding \ {o}
    BY <2>1 DEF Holding, TypeOK
  <2>3. IsFiniteSet(Holding') /\ Holding' \in SUBSET Orders /\ o \notin Holding'
    <3>1. IsFiniteSet(Holding \ {o})
      BY FS_RemoveElement DEF ShelfInv
    <3>2. Holding \in SUBSET Orders
      BY DEF Holding
    <3>3. QED
      BY <2>2, <3>1, <3>2
  <2>4. ASSUME NEW s \in SteadyShelves
        PROVE  /\ reserved'[s] = Floor(reserved[s] - Due(o, s))
               /\ Due(o, s) \in Nat /\ Owed(s)' \in Nat
               /\ Owed(s) = Owed(s)' + (IF o \in Holding THEN Due(o, s) ELSE 0)
    <3>1. s \in Shelves /\ Moved(o, s) = Due(o, s) /\ Due(o, s) \in Nat
      BY MovedIsDue DEF SteadyShelves
    <3>2. reserved'[s] = Floor(reserved[s] - Due(o, s))
      BY <2>1, <3>1
    <3>3. TotalDue(Holding', s) \in Nat
      BY <2>3, <3>1, TotalDueType
    <3>4. TotalDue(Holding' \cup {o}, s) = TotalDue(Holding', s) + Due(o, s)
      BY <2>3, <3>1, TotalDueOfOneMore
    <3>5. Holding = IF o \in Holding THEN Holding' \cup {o} ELSE Holding'
      BY <2>2
    <3>6. Owed(s) = TotalDue(Holding, s) /\ Owed(s)' = TotalDue(Holding', s)
      BY <3>1, OwedIsTotalDue
    <3>7. CASE o \in Holding
      BY <3>1, <3>2, <3>3, <3>4, <3>5, <3>6, <3>7
    <3>8. CASE o \notin Holding
      BY <3>1, <3>2, <3>3, <3>5, <3>6, <3>8
    <3>9. QED
      BY <3>7, <3>8
  <2>5. QED
    BY <2>1, <2>3, <2>4 DEF ShelfInv
<1>3. QED
  BY <1>1, <1>2

\* What a step can do to the shelves whose tracking never changes.
LEMMA ShelfChange ==
  ASSUME TypeOK, UnplacedHoldsNothing, ShelfInv, [Next]_vars
  PROVE  /\ ShelfInv'
         /\ \/ \A s \in SteadyShelves : reserved'[s] = reserved[s] /\ Owed(s)' = Owed(s)
            \/ \E o \in Orders : \A s \in SteadyShelves :
                 /\ reserved'[s] = reserved[s] + Due(o, s)
                 /\ Owed(s)' = Owed(s) + Due(o, s)
                 /\ Due(o, s) \in Nat
            \/ \E r \in Requests : \A s \in SteadyShelves :
                 LET o == request[r].order IN
                 /\ request[r] # Idle /\ request[r].held
                 /\ reserved'[s] = Floor(reserved[s] - Due(o, s))
                 /\ Due(o, s) \in Nat /\ Owed(s)' \in Nat
                 /\ Owed(s) = Owed(s)' + (IF o \in Holding THEN Due(o, s) ELSE 0)
<1> USE DEF orderVars, shelfVars
<1>1. CASE \E o \in Orders, needsApproval \in BOOLEAN : Place(o, needsApproval)
  BY <1>1, PlacingHolds, MovedIsDue
<1>2. ASSUME NEW r \in Requests, CommitChange(r)
      PROVE  /\ ShelfInv'
             /\ \/ \A s \in SteadyShelves : reserved'[s] = reserved[s] /\ Owed(s)' = Owed(s)
                \/ \A s \in SteadyShelves :
                     LET o == request[r].order IN
                     /\ request[r] # Idle /\ request[r].held
                     /\ reserved'[s] = Floor(reserved[s] - Due(o, s))
                     /\ Due(o, s) \in Nat /\ Owed(s)' \in Nat
                     /\ Owed(s) = Owed(s)' + (IF o \in Holding THEN Due(o, s) ELSE 0)
  <2>1. request[r] \in ChangeRequest /\ request[r] # Idle
    BY <1>2 DEF CommitChange, TypeOK
  <2>2. /\ request[r].order \in Orders /\ request[r].to \in Status /\ request[r].held \in BOOLEAN
        /\ MoveStock(request[r].order, request[r].to, request[r].held)
        /\ UNCHANGED tracked
    BY <1>2, <2>1 DEF CommitChange, ChangeRequest
  <2>3. CASE UNCHANGED <<stockState, reserved>>
    BY <2>2, <2>3, ShelvesUntouched
  <2>4. CASE ~ UNCHANGED <<stockState, reserved>>
    BY <2>1, <2>2, <2>4, SettlingReturns
  <2>5. QED
    BY <2>3, <2>4
<1>3. CASE /\ UNCHANGED <<stockState, reserved>>
           /\ \A s \in SteadyShelves : tracked'[s] = tracked[s]
  BY <1>3, ShelvesUntouched
<1>4. ASSUME NEW s \in Shelves, SetTracking(s)
      PROVE  /\ UNCHANGED <<stockState, reserved>>
             /\ \A t \in SteadyShelves : tracked'[t] = tracked[t]
  BY <1>4 DEF SetTracking, SteadyShelves, TypeOK
<1>5. QED
  BY <1>1, <1>2, <1>3, <1>4
     DEF Next, OrderStep, WarehouseStep, ReadForChange, AbandonChange, BeginAdjust,
         CommitAdjust, BeginStocktake, CountRow, AbandonClerk, vars

\* At the start nobody holds anything and the settings are the given ones.
LEMMA ShelfInvInit == Init => ShelfInv
<1>1. Init => Holding = {}
  BY DEF Init, Holding
<1>2. QED
  BY <1>1, FS_EmptySet DEF Init, ShelfInv, SteadyShelves

\* With nobody holding anything nobody is owed anything.
LEMMA NothingOwedAtFirst == Init => \A s \in SteadyShelves : Owed(s) = 0 /\ reserved[s] = 0
<1> SUFFICES ASSUME Init, NEW s \in SteadyShelves PROVE Owed(s) = 0 /\ reserved[s] = 0
  OBVIOUS
<1>1. Holding = {}
  BY DEF Init, Holding
<1>2. SumFunction([o \in {} |-> Lines[o][s]]) = 0
  BY SumOfNone
<1>3. QED
  BY <1>1, <1>2 DEF Init, Owed, Holding, SteadyShelves

\* What a shelf keeps back stays within what orders are owed there.
LEMMA NothingKeptBackStep ==
  ASSUME TypeOK, UnplacedHoldsNothing, ShelfInv, NothingHeldForNobody, [Next]_vars
  PROVE  ShelfInv' /\ NothingHeldForNobody'
<1>1. \A s \in SteadyShelves :
        s \in Shelves /\ reserved[s] \in Nat /\ Owed(s) \in Nat /\ reserved[s] <= Owed(s)
  <2>1. Holding \in SUBSET Orders /\ IsFiniteSet(Holding)
    BY DEF Holding, ShelfInv
  <2>2. QED
    BY <2>1, TotalDueType, OwedIsTotalDue DEF NothingHeldForNobody, SteadyShelves, TypeOK
<1>2. ShelfInv' /\ \A s \in SteadyShelves : reserved'[s] <= Owed(s)'
  BY <1>1, ShelfChange DEF Floor
<1>3. QED
  BY <1>2 DEF NothingHeldForNobody

\* Nothing is set aside that no order is owed, for any number of orders,
\* shelves and stale requests: what a second release or shipment takes off is
\* never put back, and what an order is owed goes with its hold.
THEOREM NothingKeptBackForNobody == Spec => []NothingHeldForNobody
<1>1. Init => ShelfInv /\ NothingHeldForNobody
  BY ShelfInvInit, NothingOwedAtFirst DEF NothingHeldForNobody
<1>2. TypeOK /\ HoldInv /\ ShelfInv /\ NothingHeldForNobody /\ [Next]_vars
        => (ShelfInv /\ NothingHeldForNobody)'
  BY NothingKeptBackStep DEF HoldInv
<1>3. QED
  BY <1>1, <1>2, TypeCorrect, HoldAlways, PTL DEF Spec

\* Whether an order was read with a hold is still so when the request commits.
HoldsReadAreCurrent ==
  \A r \in Requests :
    request[r] # Idle =>
      /\ status[request[r].order] # Unplaced
      /\ request[r].held <=> stockState[request[r].order] = "RESERVED"

\* While it is, a shelf keeps back exactly what orders are owed there.
LEMMA ShelvesMatchStep ==
  ASSUME TypeOK, UnplacedHoldsNothing, HoldsReadAreCurrent, ShelfInv, ReservedMatchesOrders,
         [Next]_vars
  PROVE  ShelfInv' /\ ReservedMatchesOrders'
<1>1. \A s \in SteadyShelves : reserved[s] = Owed(s)
  BY DEF ReservedMatchesOrders
<1>2. \A r \in Requests : request[r] # Idle /\ request[r].held => request[r].order \in Holding
  BY DEF HoldsReadAreCurrent, Holding, TypeOK, ChangeRequest
<1>3. ShelfInv' /\ \A s \in SteadyShelves : reserved'[s] = Owed(s)'
  BY <1>1, <1>2, ShelfChange DEF Floor
<1>4. QED
  BY <1>3 DEF ReservedMatchesOrders

\* With one request at a time a shelf keeps back exactly what orders with a
\* live reservation are owed: a hold is settled by the request that read it,
\* so release and consumption undo what the placement took, once.
THEOREM SerialShelvesMatch ==
  ASSUME OneAtATime
  PROVE  Spec => []ReservedMatchesOrders
<1>1. Init => ShelfInv /\ ReservedMatchesOrders
  BY ShelfInvInit, NothingOwedAtFirst DEF ReservedMatchesOrders
<1>2. ReadsAreCurrent => HoldsReadAreCurrent
  BY DEF ReadsAreCurrent, HoldsReadAreCurrent
<1>3. TypeOK /\ HoldInv /\ ReadsAreCurrent /\ ShelfInv /\ ReservedMatchesOrders /\ [Next]_vars
        => (ShelfInv /\ ReservedMatchesOrders)'
  BY <1>2, ShelvesMatchStep DEF HoldInv
<1>4. QED
  BY <1>1, <1>3, TypeCorrect, HoldAlways, OneAtATimeReads, PTL DEF Spec

-----------------------------------------------------------------------------
(***************************************************************************)
(* Orders and their approval requests together.                            *)
(***************************************************************************)
USE RulesAssumption

ProgressRecord == [outcome : Outcome, currentTier : Nat, skipTiersAbove : Nat]

\* The engine's answer about any steps is an outcome and two tiers.
LEMMA ProgressType ==
  ASSUME NEW st \in [Rules -> StepStatus \cup {Absent}],
         NEW p \in evaluateProgress(st)
  PROVE  p \in ProgressRecord
<1>1. \A rule \in Rules : rule.tier \in Nat
  OBVIOUS
<1>2. Planned(st) \subseteq Rules
  BY DEF Planned
<1>3. UnsettledTiers(st) \subseteq Nat
  BY <1>1, <1>2 DEF UnsettledTiers
<1>4. {r.tier : r \in Planned(st)} \subseteq Nat
  BY <1>1, <1>2
<1>5. QED
  BY <1>1, <1>2, <1>3, <1>4
     DEF evaluateProgress, Progress, ProgressRecord, Outcome, Decision, NoSkip,
         Lowest, Highest

\* While the engine answers PENDING, nobody below the tier it names is still
\* to be asked.
LEMMA ProgressClosesLowerTiers ==
  ASSUME NEW st \in [Rules -> StepStatus \cup {Absent}],
         NEW p \in evaluateProgress(st), p.outcome = "PENDING",
         NEW rule \in Rules, rule.tier < p.currentTier
  PROVE  st[rule] # "PENDING"
<1>1. p.currentTier \in Lowest(UnsettledTiers(st))
  <2>1. \A o \in Decision : \A t, k : Progress(o, t, k).outcome # "PENDING"
    BY DEF Progress, Decision
  <2>2. ~ \E r \in Planned(st) : st[r] = "REJECTED"
    BY <2>1 DEF evaluateProgress, Decision
  <2>3. ~ \E r \in Planned(st) : st[r] = "CHANGES_REQUESTED"
    BY <2>1, <2>2 DEF evaluateProgress, Decision
  <2>4. Planned(st) # {} /\ UnsettledTiers(st) # {}
    BY <2>1, <2>2, <2>3 DEF evaluateProgress, Decision
  <2>5. p \in {Progress("PENDING", t, NoSkip) : t \in Lowest(UnsettledTiers(st))}
    BY <2>2, <2>3, <2>4 DEF evaluateProgress
  <2>6. QED
    BY <2>5 DEF Progress
<1>2. SUFFICES ASSUME st[rule] = "PENDING" PROVE FALSE
  OBVIOUS
<1>3. rule.tier \in UnsettledTiers(st)
  BY <1>2 DEF UnsettledTiers, Planned, Absent
<1>4. p.currentTier \in Nat /\ p.currentTier <= rule.tier
  BY <1>1, <1>3, ProgressType DEF Lowest, ProgressRecord
<1>5. QED
  BY <1>4

\* The steps raiseFor copies come from the rules it was given.
LEMMA PlanIsFromRules ==
  ASSUME NEW active \in SUBSET Rules, NEW facts
  PROVE  planApproval(active, facts) \subseteq Rules
BY DEF planApproval

-----------------------------------------------------------------------------
ApprovalState ==
  /\ approval \in [Orders -> [status : Outcome \cup {Absent}, currentTier : Nat]]
  /\ step \in [Orders -> [Rules -> StepStatus \cup {Absent}]]
  /\ decision \in [Deciders -> CheckedDecision \cup StagedDecision \cup {Idle}]

\* The steps of ApprovalsNext that are the order lifecycle's own.
LEMMA LifecycleStep ==
  ASSUME \/ \E o \in Orders, active \in SUBSET Rules : PlaceRouted(o, active)
         \/ \E user \in Users, r \in Requests, o \in Orders, to \in Status :
              ReadForChangeBy(user, r, o, to)
         \/ \E r \in Requests : CommitChangeBy(r)
         \/ \E r \in Requests : AbandonChangeBy(r)
         \/ WarehouseStep /\ UNCHANGED approvalVars
  PROVE  Next
<1>1. ASSUME NEW o \in Orders, NEW active \in SUBSET Rules, PlaceRouted(o, active)
      PROVE  Next
  <2>1. PICK b \in BOOLEAN : Place(o, b)
    BY <1>1 DEF PlaceRouted
  <2>2. QED
    BY <2>1 DEF Next, OrderStep
<1>2. QED
  BY <1>1 DEF ReadForChangeBy, CommitChangeBy, AbandonChangeBy, Next, OrderStep

\* The warehouse writes counts and settings, never an order.
LEMMA WarehouseLeavesOrders ==
  ASSUME WarehouseStep
  PROVE  UNCHANGED <<status, stockState, request>>
BY DEF WarehouseStep, BeginAdjust, CommitAdjust, BeginStocktake, CountRow, AbandonClerk,
       SetTracking, orderVars, shelfVars

\* Before its placement an order has no request, and nobody deciding it.
UnplacedIsUnrouted ==
  \A o \in Orders : status[o] = Unplaced =>
    /\ approval[o] = NoRequest
    /\ \A d \in Deciders : decision[d] # Idle => decision[d].order # o

\* raiseFor writes a request and steps of the right kind, for this order only.
LEMMA RaiseForType ==
  ASSUME ApprovalState, NEW o \in Orders, NEW plan \in SUBSET Rules, raiseFor(o, plan)
  PROVE  /\ approval' \in [Orders -> [status : Outcome \cup {Absent}, currentTier : Nat]]
         /\ step' \in [Orders -> [Rules -> StepStatus \cup {Absent}]]
         /\ \A other \in Orders \ {o} : approval'[other] = approval[other]
<1>1. CASE plan = {}
  BY <1>1 DEF raiseFor, ApprovalState
<1>2. CASE plan # {}
  <2>1. {rule.tier : rule \in plan} \subseteq Nat
    OBVIOUS
  <2>2. PICK tier \in Nat :
          approval' = [approval EXCEPT ![o] = [status |-> "PENDING", currentTier |-> tier]]
    BY <1>2, <2>1 DEF raiseFor, Lowest
  <2>3. [rule \in Rules |-> IF rule \in plan THEN "PENDING" ELSE Absent]
          \in [Rules -> StepStatus \cup {Absent}]
    BY DEF StepStatus
  <2>4. step' = [step EXCEPT ![o] =
                   [rule \in Rules |-> IF rule \in plan THEN "PENDING" ELSE Absent]]
    BY <1>2 DEF raiseFor
  <2>5. QED
    BY <2>2, <2>3, <2>4 DEF ApprovalState, Outcome
<1>3. QED
  BY <1>1, <1>2

\* Type correctness alone is not inductive: a decision may only copy the status
\* of an order that has been placed.
TypedInv == ApprovalsTypeOK /\ UnplacedIsUnrouted

\* At the start every variable has its type and no order a request.
LEMMA TypedInit == ApprovalsInit => TypedInv
<1>1. Init => TypeOK
  BY DEF Init, TypeOK, StockState, Status, Unplaced, Idle
<1>2. QED
  BY <1>1 DEF ApprovalsInit, TypedInv, ApprovalsTypeOK, UnplacedIsUnrouted,
              NoRequest, Absent

\* No step of anybody disturbs the types, or decides an order not placed.
LEMMA TypedStep == TypedInv /\ [ApprovalsNext]_allVars => TypedInv'
<1> USE DEF orderVars, shelfVars
<1> SUFFICES ASSUME TypedInv, [ApprovalsNext]_allVars
             PROVE  TypeOK' /\ ApprovalState' /\ UnplacedIsUnrouted'
  BY DEF TypedInv, ApprovalsTypeOK, ApprovalState
<1>0. TypeOK /\ ApprovalState /\ UnplacedIsUnrouted
  BY DEF TypedInv, ApprovalsTypeOK, ApprovalState
<1>1. ASSUME NEW o \in Orders, NEW active \in SUBSET Rules, PlaceRouted(o, active)
      PROVE  TypeOK' /\ ApprovalState' /\ UnplacedIsUnrouted'
  <2>1. TypeOK'
    BY <1>0, <1>1, LifecycleStep, TypeStep
  <2> DEFINE plan == planApproval(active, Facts[o])
  <2>2. plan \in SUBSET Rules
    BY PlanIsFromRules
  <2>3. raiseFor(o, plan) /\ UNCHANGED decision
    BY <1>1 DEF PlaceRouted
  <2>4. PICK b \in BOOLEAN : Place(o, b)
    BY <1>1 DEF PlaceRouted
  <2> HIDE DEF plan
  <2>5. ApprovalState'
    BY <1>0, <2>2, <2>3, RaiseForType DEF ApprovalState
  <2>6. status'[o] # Unplaced /\ \A other \in Orders \ {o} : status'[other] = status[other]
    BY <1>0, <2>4 DEF Place, TypeOK, Unplaced
  <2>7. UnplacedIsUnrouted'
    BY <1>0, <2>2, <2>3, <2>6, RaiseForType DEF UnplacedIsUnrouted
  <2>8. QED
    BY <2>1, <2>5, <2>7
<1>2. ASSUME NEW user \in Users, NEW r \in Requests, NEW o \in Orders,
             NEW to \in Status, ReadForChangeBy(user, r, o, to)
      PROVE  TypeOK' /\ ApprovalState' /\ UnplacedIsUnrouted'
  <2>1. TypeOK'
    BY <1>0, <1>2, LifecycleStep, TypeStep
  <2>2. QED
    BY <1>0, <1>2, <2>1
       DEF ReadForChangeBy, ReadForChange, approvalVars, ApprovalState, UnplacedIsUnrouted
<1>3. ASSUME NEW r \in Requests, CommitChangeBy(r)
      PROVE  TypeOK' /\ ApprovalState' /\ UnplacedIsUnrouted'
  <2>1. TypeOK'
    BY <1>0, <1>3, LifecycleStep, TypeStep
  <2>2. ApprovalState' /\ UNCHANGED <<approval, decision>>
    BY <1>0, <1>3 DEF CommitChangeBy, approvalVars, ApprovalState
  <2>3. \A o \in Orders : status'[o] = Unplaced => status[o] = Unplaced
    <3>1. request[r] \in ChangeRequest
      BY <1>0, <1>3 DEF CommitChangeBy, CommitChange, TypeOK
    <3>2. request[r].to # Unplaced
      BY <3>1 DEF ChangeRequest, Status, Unplaced
    <3>3. QED
      BY <1>0, <1>3, <3>2 DEF CommitChangeBy, CommitChange, TypeOK
  <2>4. QED
    BY <1>0, <2>1, <2>2, <2>3 DEF UnplacedIsUnrouted
<1>4. ASSUME NEW r \in Requests, AbandonChangeBy(r)
      PROVE  TypeOK' /\ ApprovalState' /\ UnplacedIsUnrouted'
  <2>1. TypeOK'
    BY <1>0, <1>4, LifecycleStep, TypeStep
  <2>2. QED
    BY <1>0, <1>4, <2>1
       DEF AbandonChangeBy, AbandonChange, approvalVars, ApprovalState, UnplacedIsUnrouted
<1>5. ASSUME NEW d \in Deciders, NEW user \in Users, NEW o \in Orders,
             NEW rule \in Rules, NEW v \in Decision, CheckDecision(d, user, o, rule, v)
      PROVE  TypeOK' /\ ApprovalState' /\ UnplacedIsUnrouted'
  <2>1. status[o] \in Status
    <3>1. approval[o] # NoRequest
      BY <1>5 DEF CheckDecision, NoRequest, Absent
    <3>2. QED
      BY <1>0, <3>1 DEF UnplacedIsUnrouted, TypeOK
  <2>2. [op |-> "checked", order |-> o, step |-> rule, verdict |-> v, seen |-> status[o]]
          \in CheckedDecision
    BY <2>1 DEF CheckedDecision
  <2>3. /\ decision' = [decision EXCEPT ![d] = [op |-> "checked", order |-> o,
              step |-> rule, verdict |-> v, seen |-> status[o]]]
        /\ UNCHANGED <<vars, approval, step>>
    BY <1>5 DEF CheckDecision
  <2>4. TypeOK' /\ ApprovalState'
    BY <1>0, <2>2, <2>3 DEF vars, TypeOK, ApprovalState
  <2>5. UnplacedIsUnrouted'
    <3>1. decision'[d].order = o /\ status[o] # Unplaced
      BY <1>0, <2>1, <2>3 DEF ApprovalState, Status, Unplaced
    <3>2. \A e \in Deciders \ {d} : decision'[e] = decision[e]
      BY <1>0, <2>3 DEF ApprovalState
    <3>3. QED
      BY <1>0, <2>3, <3>1, <3>2 DEF UnplacedIsUnrouted, vars
  <2>6. QED
    BY <2>4, <2>5
<1>6. ASSUME NEW d \in Deciders, StageDecision(d)
      PROVE  TypeOK' /\ ApprovalState' /\ UnplacedIsUnrouted'
  <2> DEFINE k == decision[d]
  <2>1. k \in CheckedDecision
    BY <1>0, <1>6 DEF StageDecision, ApprovalState, StagedDecision, Idle
  <2>2. /\ k.order \in Orders /\ k.step \in Rules /\ k.verdict \in Decision
        /\ k.seen \in Status
    BY <2>1 DEF CheckedDecision
  <2>3. [step[k.order] EXCEPT ![k.step] = k.verdict] \in [Rules -> StepStatus \cup {Absent}]
    BY <1>0, <2>2 DEF ApprovalState, StepStatus, Decision
  <2>4. PICK p \in evaluateProgress([step[k.order] EXCEPT ![k.step] = k.verdict]) :
          decision' = [decision EXCEPT ![d] =
            [op |-> "staged", order |-> k.order, step |-> k.step, verdict |-> k.verdict,
             seen |-> k.seen, progress |-> p]]
    BY <1>6 DEF StageDecision
  <2>5. p \in ProgressRecord
    BY <2>3, <2>4, ProgressType
  <2>6. [op |-> "staged", order |-> k.order, step |-> k.step, verdict |-> k.verdict,
         seen |-> k.seen, progress |-> p] \in StagedDecision
    BY <2>2, <2>5 DEF StagedDecision, ProgressRecord
  <2>7. UNCHANGED <<vars, approval, step>>
    BY <1>6 DEF StageDecision
  <2>8. k # Idle
    BY <2>1 DEF CheckedDecision, Idle
  <2>9. UnplacedIsUnrouted'
    <3>1. decision'[d].order = k.order
      BY <1>0, <2>4 DEF ApprovalState
    <3>2. \A e \in Deciders \ {d} : decision'[e] = decision[e]
      BY <1>0, <2>4 DEF ApprovalState
    <3>3. QED
      BY <1>0, <2>7, <2>8, <3>1, <3>2 DEF UnplacedIsUnrouted, vars
  <2> HIDE DEF k
  <2>10. QED
    BY <1>0, <2>4, <2>6, <2>7, <2>9 DEF vars, TypeOK, ApprovalState
<1>7. ASSUME NEW d \in Deciders, CommitDecision(d)
      PROVE  TypeOK' /\ ApprovalState' /\ UnplacedIsUnrouted'
  <2> DEFINE k == decision[d]
  <2>1. k \in StagedDecision
    BY <1>0, <1>7 DEF CommitDecision, ApprovalState, CheckedDecision, Idle
  <2>2. /\ k.order \in Orders /\ k.step \in Rules /\ k.verdict \in Decision
        /\ k.progress.outcome \in Outcome /\ k.progress.currentTier \in Nat
    BY <2>1 DEF StagedDecision
  <2>3. step' \in [Orders -> [Rules -> StepStatus \cup {Absent}]]
    <3>1. PICK after \in [Rules -> StepStatus \cup {Absent}] :
            step' = [step EXCEPT ![k.order] = after]
      BY <1>0, <1>7, <2>2 DEF CommitDecision, ApprovalState, StepStatus, Decision
    <3>2. QED
      BY <1>0, <3>1 DEF ApprovalState
  <2>4. approval' = [approval EXCEPT ![k.order] =
           [status |-> k.progress.outcome, currentTier |-> k.progress.currentTier]]
    BY <1>7 DEF CommitDecision
  <2>5. decision' = [decision EXCEPT ![d] = Idle]
    BY <1>7 DEF CommitDecision
  <2>6. ApprovalState'
    BY <1>0, <2>2, <2>3, <2>4, <2>5 DEF ApprovalState
  <2>7. status' = status \/ /\ status' = [status EXCEPT ![k.order] = k.progress.outcome]
                            /\ k.progress.outcome \in Decision
    BY <1>7, <2>2 DEF CommitDecision, MovesOrder, Outcome
  <2>8. \A o \in Orders : status'[o] = Unplaced => status[o] = Unplaced
    BY <1>0, <2>2, <2>7 DEF TypeOK, Decision, Unplaced
  <2>9. TypeOK'
    BY <1>0, <1>7, <2>2, <2>7 DEF CommitDecision, TypeOK, Decision, Status
  <2>10. UnplacedIsUnrouted'
    <3> SUFFICES ASSUME NEW o \in Orders, status'[o] = Unplaced
                 PROVE  /\ approval'[o] = NoRequest
                        /\ \A e \in Deciders : decision'[e] # Idle => decision'[e].order # o
      BY DEF UnplacedIsUnrouted
    <3>1. status[o] = Unplaced /\ o # k.order
      BY <1>0, <2>1, <2>8 DEF UnplacedIsUnrouted, StagedDecision, Idle
    <3>2. \A e \in Deciders : decision'[e] # Idle => decision'[e] = decision[e]
      BY <1>0, <2>5 DEF ApprovalState
    <3>3. QED
      BY <1>0, <2>2, <2>4, <3>1, <3>2 DEF UnplacedIsUnrouted, ApprovalState
  <2>11. QED
    BY <2>6, <2>9, <2>10
<1>8. ASSUME NEW d \in Deciders, AbandonDecision(d)
      PROVE  TypeOK' /\ ApprovalState' /\ UnplacedIsUnrouted'
  BY <1>0, <1>8 DEF AbandonDecision, vars, TypeOK, ApprovalState, UnplacedIsUnrouted
<1>9. CASE WarehouseStep /\ UNCHANGED approvalVars
  <2>1. TypeOK'
    BY <1>0, <1>9, LifecycleStep, TypeStep
  <2>2. QED
    BY <1>0, <1>9, <2>1, WarehouseLeavesOrders
       DEF approvalVars, ApprovalState, UnplacedIsUnrouted
<1>10. CASE UNCHANGED allVars
  BY <1>0, <1>10
     DEF allVars, vars, approvalVars, TypeOK, ApprovalState, UnplacedIsUnrouted
<1>11. QED
  BY <1>1, <1>2, <1>3, <1>4, <1>5, <1>6, <1>7, <1>8, <1>9, <1>10 DEF ApprovalsNext

\* Type correctness of orders, shelves and approvals together: whatever a
\* stale decision writes is a status, a tier and a step of the right kind.
THEOREM ApprovalsTypeCorrect == ApprovalsSpec => []ApprovalsTypeOK
<1>1. TypedInv => ApprovalsTypeOK
  BY DEF TypedInv
<1>2. QED
  BY <1>1, TypedInit, TypedStep, PTL DEF ApprovalsSpec

-----------------------------------------------------------------------------
(***************************************************************************)
(* NoSignatureAheadOfTier rests on two facts that each survive the steps   *)
(* of others: below the open tier of a pending request, and below the step *)
(* of a decision already checked, nobody is still to be asked.  A decision *)
(* written late can move the open tier back, never open one early, because *)
(* the reading it was computed from can only have missed steps closing.    *)
(***************************************************************************)
ClosedBelow(o, tier) ==
  \A rule \in Rules : rule.tier < tier => step[o][rule] # "PENDING"

LowerTiersClosed ==
  \A o \in Orders : approval[o].status = "PENDING" => ClosedBelow(o, approval[o].currentTier)

\* The tier a decision will open, leaving out the step it is about to write.
DecisionInOrder(k) ==
  /\ ClosedBelow(k.order, k.step.tier)
  /\ k.op = "staged" /\ k.progress.outcome = "PENDING" =>
       \A rule \in Rules \ {k.step} :
         rule.tier < k.progress.currentTier => step[k.order][rule] # "PENDING"

DecisionsInOrder == \A d \in Deciders : decision[d] # Idle => DecisionInOrder(decision[d])

WalkInv == NoSignatureAheadOfTier /\ LowerTiersClosed /\ DecisionsInOrder

\* A step of a placed order that is closed stays closed.
StepsOnlyClose ==
  \A o \in Orders : status[o] # Unplaced =>
    \A rule \in Rules : step[o][rule] # "PENDING" => step'[o][rule] # "PENDING"

\* When steps only close, a decision that has not moved keeps its order.
LEMMA DecisionStaysInOrder ==
  ASSUME TypedInv, TypedInv', StepsOnlyClose, DecisionsInOrder,
         NEW d \in Deciders, decision'[d] = decision[d], decision[d] # Idle
  PROVE  DecisionInOrder(decision[d])'
<1>1. decision[d].order \in Orders
  BY DEF TypedInv, ApprovalsTypeOK, CheckedDecision, StagedDecision
<1>2. status[decision[d].order] # Unplaced
  BY <1>1 DEF TypedInv, UnplacedIsUnrouted
<1>3. \A rule \in Rules : step[decision[d].order][rule] # "PENDING"
                            => step'[decision[d].order][rule] # "PENDING"
  BY <1>1, <1>2 DEF StepsOnlyClose
<1>4. DecisionInOrder(decision[d])
  BY DEF DecisionsInOrder
<1>5. QED
  BY <1>3, <1>4 DEF DecisionInOrder, ClosedBelow

\* Before any order nothing is signed, pending or being decided.
LEMMA WalkInit == ApprovalsInit => WalkInv
BY DEF ApprovalsInit, WalkInv, NoSignatureAheadOfTier, TierOrdered, LowerTiersClosed,
       ClosedBelow, DecisionsInOrder, NoRequest, Absent, Decision

\* Steps that leave the requests, their steps and the decisions alone.
LEMMA WalkUntouched ==
  ASSUME WalkInv, UNCHANGED approvalVars
  PROVE  WalkInv'
BY DEF WalkInv, approvalVars, NoSignatureAheadOfTier, TierOrdered, LowerTiersClosed,
       ClosedBelow, DecisionsInOrder, DecisionInOrder

\* Every step keeps the walk through the tiers in order.
LEMMA WalkStep == TypedInv /\ TypedInv' /\ WalkInv /\ [ApprovalsNext]_allVars => WalkInv'
<1> SUFFICES ASSUME TypedInv, TypedInv', WalkInv, [ApprovalsNext]_allVars
             PROVE  WalkInv'
  OBVIOUS
<1> USE DEF WalkInv
<1>0. ApprovalState /\ TypeOK /\ UnplacedIsUnrouted
  BY DEF TypedInv, ApprovalsTypeOK, ApprovalState
<1>1. ASSUME NEW o \in Orders, NEW active \in SUBSET Rules, PlaceRouted(o, active)
      PROVE  WalkInv'
  <2> DEFINE plan == planApproval(active, Facts[o])
  <2>1. plan \in SUBSET Rules
    BY PlanIsFromRules
  <2>2. raiseFor(o, plan) /\ UNCHANGED decision
    BY <1>1 DEF PlaceRouted
  <2>3. status[o] = Unplaced
    BY <1>1 DEF PlaceRouted, Place
  <2> HIDE DEF plan
  <2>4. CASE plan = {}
    BY <2>2, <2>4, WalkUntouched DEF raiseFor, approvalVars
  <2>5. CASE plan # {}
    <3>1. PICK tier \in Lowest({rule.tier : rule \in plan}) :
            approval' = [approval EXCEPT ![o] = [status |-> "PENDING", currentTier |-> tier]]
      BY <2>2, <2>5 DEF raiseFor
    <3>2. step' = [step EXCEPT ![o] =
                     [rule \in Rules |-> IF rule \in plan THEN "PENDING" ELSE Absent]]
      BY <2>2, <2>5 DEF raiseFor
    <3>3. \A rule \in Rules : step'[o][rule] = IF rule \in plan THEN "PENDING" ELSE Absent
      BY <1>0, <3>2 DEF ApprovalState
    <3>4. \A other \in Orders \ {o} : step'[other] = step[other] /\ approval'[other] = approval[other]
      BY <1>0, <3>1, <3>2 DEF ApprovalState
    <3>5. NoSignatureAheadOfTier'
      BY <3>3, <3>4 DEF NoSignatureAheadOfTier, TierOrdered, Decision, Absent
    <3>6. LowerTiersClosed'
      <4>1. approval'[o].currentTier = tier
        BY <1>0, <3>1 DEF ApprovalState
      <4>2. \A rule \in plan : tier <= rule.tier
        BY <3>1 DEF Lowest
      <4>3. tier \in Nat
        BY <2>1, <3>1 DEF Lowest
      <4>4. ClosedBelow(o, approval[o].currentTier)'
        BY <2>1, <3>3, <4>1, <4>2, <4>3 DEF ClosedBelow, Absent
      <4>5. QED
        BY <3>4, <4>4 DEF LowerTiersClosed, ClosedBelow
    <3>7. DecisionsInOrder'
      <4>1. \A d \in Deciders : decision[d] # Idle =>
              decision[d].order \in Orders \ {o}
        BY <1>0, <2>3 DEF ApprovalState, CheckedDecision, StagedDecision, UnplacedIsUnrouted
      <4>2. QED
        BY <2>2, <3>4, <4>1 DEF DecisionsInOrder, DecisionInOrder, ClosedBelow
    <3>8. QED
      BY <3>5, <3>6, <3>7
  <2>6. QED
    BY <2>4, <2>5
<1>2. ASSUME NEW d \in Deciders, NEW user \in Users, NEW o \in Orders,
             NEW rule \in Rules, NEW v \in Decision, CheckDecision(d, user, o, rule, v)
      PROVE  WalkInv'
  <2> DEFINE k == [op |-> "checked", order |-> o, step |-> rule, verdict |-> v,
                   seen |-> status[o]]
  <2>1. decision' = [decision EXCEPT ![d] = k] /\ UNCHANGED <<approval, step>>
    BY <1>2 DEF CheckDecision
  <2>2. NoSignatureAheadOfTier' /\ LowerTiersClosed'
    BY <2>1 DEF NoSignatureAheadOfTier, TierOrdered, LowerTiersClosed, ClosedBelow
  <2>3. DecisionInOrder(k)
    BY <1>2 DEF CheckDecision, stepIsOpen, LowerTiersClosed, DecisionInOrder
  <2> HIDE DEF k
  <2>4. DecisionsInOrder'
    BY <1>0, <2>1, <2>3
       DEF ApprovalState, DecisionsInOrder, DecisionInOrder, ClosedBelow
  <2>5. QED
    BY <2>2, <2>4
<1>3. ASSUME NEW d \in Deciders, StageDecision(d)
      PROVE  WalkInv'
  <2> DEFINE k == decision[d]
             st == [step[k.order] EXCEPT ![k.step] = k.verdict]
  <2>1. k \in CheckedDecision /\ k # Idle
    BY <1>0, <1>3 DEF StageDecision, ApprovalState, StagedDecision, CheckedDecision, Idle
  <2>2. k.order \in Orders /\ k.step \in Rules /\ k.verdict \in Decision
    BY <2>1 DEF CheckedDecision
  <2>3. st \in [Rules -> StepStatus \cup {Absent}]
    BY <1>0, <2>2 DEF ApprovalState, StepStatus, Decision
  <2>4. PICK p \in evaluateProgress(st) :
          decision' = [decision EXCEPT ![d] =
            [op |-> "staged", order |-> k.order, step |-> k.step, verdict |-> k.verdict,
             seen |-> k.seen, progress |-> p]]
    BY <1>3 DEF StageDecision
  <2>5. UNCHANGED <<approval, step>>
    BY <1>3 DEF StageDecision
  <2>6. NoSignatureAheadOfTier' /\ LowerTiersClosed'
    BY <2>5 DEF NoSignatureAheadOfTier, TierOrdered, LowerTiersClosed, ClosedBelow
  <2>7. ASSUME p.outcome = "PENDING", NEW rule \in Rules \ {k.step},
               rule.tier < p.currentTier
        PROVE  step[k.order][rule] # "PENDING"
    <3>1. st[rule] # "PENDING"
      BY <2>3, <2>4, <2>7, ProgressClosesLowerTiers
    <3>2. st[rule] = step[k.order][rule]
      BY <1>0, <2>2, <2>7 DEF ApprovalState
    <3>3. QED
      BY <3>1, <3>2
  <2>8. ClosedBelow(k.order, k.step.tier)
    BY <2>1 DEF DecisionsInOrder, DecisionInOrder
  <2>9. DecisionInOrder([op |-> "staged", order |-> k.order, step |-> k.step,
           verdict |-> k.verdict, seen |-> k.seen, progress |-> p])
    BY <2>7, <2>8 DEF DecisionInOrder
  <2> HIDE DEF k
  <2>10. DecisionsInOrder'
    BY <1>0, <2>4, <2>5, <2>9
       DEF ApprovalState, DecisionsInOrder, DecisionInOrder, ClosedBelow
  <2>11. QED
    BY <2>6, <2>10
<1>4. ASSUME NEW d \in Deciders, CommitDecision(d)
      PROVE  WalkInv'
  <2> DEFINE k == decision[d]
             o == k.order
  <2>1. k \in StagedDecision /\ k # Idle /\ k.op = "staged"
    BY <1>0, <1>4 DEF CommitDecision, ApprovalState, CheckedDecision, StagedDecision, Idle
  <2>2. o \in Orders /\ k.step \in Rules /\ k.verdict \in Decision
    BY <2>1 DEF StagedDecision
  <2>3. DecisionInOrder(k)
    BY <2>1 DEF DecisionsInOrder
  <2>4. /\ step'[o][k.step] = k.verdict
        /\ \A rule \in Rules \ {k.step} : step'[o][rule] \in {"SKIPPED", step[o][rule]}
        /\ \A other \in Orders \ {o} : step'[other] = step[other]
    BY <1>0, <1>4, <2>2 DEF CommitDecision, ApprovalState
  <2>5. approval' = [approval EXCEPT ![o] =
           [status |-> k.progress.outcome, currentTier |-> k.progress.currentTier]]
    BY <1>4 DEF CommitDecision
  <2>6. decision' = [decision EXCEPT ![d] = Idle]
    BY <1>4 DEF CommitDecision
  <2>7. k.verdict # "PENDING"
    BY <2>2 DEF Decision
  <2> HIDE DEF k, o
  <2>8. StepsOnlyClose
    BY <2>2, <2>4, <2>7 DEF StepsOnlyClose
  <2>9. NoSignatureAheadOfTier'
    <3> SUFFICES ASSUME NEW q \in Orders, NEW lower \in Rules, NEW upper \in Rules,
                        lower.tier < upper.tier, step'[q][upper] \in Decision
                 PROVE  step'[q][lower] # "PENDING"
      BY DEF NoSignatureAheadOfTier, TierOrdered
    <3>1. CASE q # o
      BY <2>4, <3>1 DEF NoSignatureAheadOfTier, TierOrdered
    <3>2. CASE q = o /\ upper = k.step
      BY <2>2, <2>3, <2>4, <2>7, <3>2 DEF DecisionInOrder, ClosedBelow, o
    <3>3. CASE q = o /\ upper # k.step
      <4>1. step[o][upper] \in Decision
        BY <2>4, <3>3 DEF Decision
      <4>2. step[o][lower] # "PENDING"
        BY <2>2, <4>1 DEF NoSignatureAheadOfTier, TierOrdered
      <4>3. QED
        BY <2>4, <2>7, <3>3, <4>2
    <3>4. QED
      BY <3>1, <3>2, <3>3
  <2>10. LowerTiersClosed'
    <3> SUFFICES ASSUME NEW q \in Orders, approval'[q].status = "PENDING", NEW rule \in Rules,
                        rule.tier < approval'[q].currentTier
                 PROVE  step'[q][rule] # "PENDING"
      BY DEF LowerTiersClosed, ClosedBelow
    <3>1. CASE q # o
      BY <1>0, <2>4, <2>5, <3>1 DEF LowerTiersClosed, ClosedBelow, ApprovalState
    <3>2. CASE q = o
      <4>1. k.progress.outcome = "PENDING" /\ rule.tier < k.progress.currentTier
        BY <1>0, <2>2, <2>5, <3>2 DEF ApprovalState
      <4>2. QED
        BY <2>1, <2>3, <2>4, <2>7, <3>2, <4>1 DEF DecisionInOrder, o
    <3>3. QED
      BY <3>1, <3>2
  <2>11. DecisionsInOrder'
    <3> SUFFICES ASSUME NEW e \in Deciders, decision'[e] # Idle
                 PROVE  DecisionInOrder(decision[e])'
      BY DEF DecisionsInOrder
    <3>1. decision'[e] = decision[e]
      BY <1>0, <2>6 DEF ApprovalState
    <3>2. QED
      BY <2>8, <3>1, DecisionStaysInOrder
  <2>12. QED
    BY <2>9, <2>10, <2>11
<1>5. ASSUME NEW d \in Deciders, AbandonDecision(d)
      PROVE  WalkInv'
  BY <1>0, <1>5
     DEF AbandonDecision, ApprovalState, NoSignatureAheadOfTier, TierOrdered,
         LowerTiersClosed, ClosedBelow, DecisionsInOrder, DecisionInOrder
<1>6. CASE UNCHANGED approvalVars
  BY <1>6, WalkUntouched
<1>7. QED
  BY <1>1, <1>2, <1>3, <1>4, <1>5, <1>6
     DEF ApprovalsNext, ReadForChangeBy, CommitChangeBy, AbandonChangeBy, allVars

\* No tier is signed while one below it is still to be asked, for any number
\* of people deciding the same order at the same moment.
THEOREM TiersInOrder == ApprovalsSpec => []NoSignatureAheadOfTier
<1>1. WalkInv => NoSignatureAheadOfTier
  BY DEF WalkInv
<1>2. QED
  BY <1>1, TypedInit, TypedStep, WalkInit, WalkStep, PTL DEF ApprovalsSpec

-----------------------------------------------------------------------------
(***************************************************************************)
(* Orders, shelves, warehouse and approvals together.  A decision moves no *)
(* stock and no request, and writes the status of placed orders only: what *)
(* the lifecycle's own steps keep of the shelves is kept.                  *)
(***************************************************************************)
LEMMA RoutedStep ==
  ASSUME TypedInv, [ApprovalsNext]_allVars
  PROVE  \/ [Next]_vars
         \/ /\ UNCHANGED <<stockState, onHand, reserved, tracked, request>>
            /\ \A o \in Orders : status'[o] = Unplaced => status[o] = Unplaced
<1>1. ASSUME NEW d \in Deciders, CommitDecision(d)
      PROVE  /\ UNCHANGED <<stockState, onHand, reserved, tracked, request>>
             /\ \A o \in Orders : status'[o] = Unplaced => status[o] = Unplaced
  <2> DEFINE k == decision[d]
  <2>1. k \in StagedDecision
    BY <1>1 DEF CommitDecision, TypedInv, ApprovalsTypeOK, CheckedDecision, Idle
  <2>2. k.progress.outcome \in Outcome
    BY <2>1 DEF StagedDecision
  <2>3. \/ status' = status
        \/ /\ status' = [status EXCEPT ![k.order] = k.progress.outcome]
           /\ k.progress.outcome \in Decision
    BY <1>1, <2>2 DEF CommitDecision, MovesOrder, Outcome
  <2>4. status \in [Orders -> Status \cup {Unplaced}]
    BY DEF TypedInv, ApprovalsTypeOK, TypeOK
  <2>5. \A o \in Orders : status'[o] = Unplaced => status[o] = Unplaced
    BY <2>3, <2>4 DEF Decision, Unplaced
  <2>6. QED
    BY <1>1, <2>5 DEF CommitDecision, shelfVars
<1>2. QED
  BY <1>1, LifecycleStep
     DEF ApprovalsNext, CheckDecision, StageDecision, AbandonDecision, allVars, vars

\* An order that is not yet placed holds nothing, whatever is written late.
LEMMA UnplacedStep ==
  ASSUME TypeOK, UnplacedHoldsNothing, [Next]_vars
  PROVE  UnplacedHoldsNothing'
<1>1. ASSUME NEW o \in Orders, NEW needsApproval \in BOOLEAN, Place(o, needsApproval)
      PROVE  UnplacedHoldsNothing'
  BY <1>1 DEF Place, TypeOK, UnplacedHoldsNothing, Unplaced
<1>2. ASSUME NEW r \in Requests, CommitChange(r)
      PROVE  UnplacedHoldsNothing'
  <2>1. request[r] \in ChangeRequest
    BY <1>2 DEF CommitChange, TypeOK
  <2>2. /\ request[r].order \in Orders /\ request[r].to \in Status /\ request[r].held \in BOOLEAN
        /\ request[r].to # Unplaced
    BY <2>1 DEF ChangeRequest, Status, Unplaced
  <2>3. \A p \in Orders : p # request[r].order => stockState'[p] = stockState[p]
    BY <1>2, <2>2, MoveStockHold DEF CommitChange
  <2>4. QED
    BY <1>2, <2>2, <2>3 DEF CommitChange, TypeOK, UnplacedHoldsNothing
<1>3. CASE UNCHANGED <<status, stockState>>
  BY <1>3 DEF UnplacedHoldsNothing
<1>4. QED
  BY <1>1, <1>2, <1>3, WarehouseLeavesOrders
     DEF Next, OrderStep, ReadForChange, AbandonChange, orderVars, vars

ShelfTruth == TypedInv /\ UnplacedHoldsNothing /\ ShelfInv

\* At the start no order is placed and no shelf keeps anything back.
LEMMA RoutedShelvesInit ==
  ApprovalsInit => ShelfTruth /\ ShelfNeverOversold /\ NothingHeldForNobody
                              /\ ReservedMatchesOrders /\ HoldsReadAreCurrent
<1>1. ApprovalsInit => Init /\ TypedInv /\ ShelfInv
  BY TypedInit, ShelfInvInit DEF ApprovalsInit
<1>2. Init => UnplacedHoldsNothing /\ ShelfNeverOversold /\ HoldsReadAreCurrent
  BY DEF Init, UnplacedHoldsNothing, ShelfNeverOversold, HoldsReadAreCurrent
<1>3. Init => NothingHeldForNobody /\ ReservedMatchesOrders
  BY NothingOwedAtFirst DEF NothingHeldForNobody, ReservedMatchesOrders
<1>4. QED
  BY <1>1, <1>2, <1>3 DEF ShelfTruth

\* The sums over orders stay defined, whoever steps.
LEMMA ShelfTruthStep == ShelfTruth /\ [ApprovalsNext]_allVars => ShelfTruth'
<1> SUFFICES ASSUME ShelfTruth, [ApprovalsNext]_allVars PROVE ShelfTruth'
  OBVIOUS
<1>1. TypedInv' /\ TypeOK
  BY TypedStep DEF ShelfTruth, TypedInv, ApprovalsTypeOK
<1>2. CASE [Next]_vars
  BY <1>1, <1>2, UnplacedStep, ShelfChange DEF ShelfTruth
<1>3. CASE /\ UNCHANGED <<stockState, onHand, reserved, tracked, request>>
           /\ \A o \in Orders : status'[o] = Unplaced => status[o] = Unplaced
  BY <1>1, <1>3, ShelvesUntouched DEF ShelfTruth, UnplacedHoldsNothing
<1>4. QED
  BY <1>2, <1>3, RoutedStep DEF ShelfTruth

\* Approvals and warehouse add no way to oversell a shelf.
THEOREM RoutedShelfSafe == ApprovalsSpec => []ShelfNeverOversold
<1>1. TypedInv /\ ShelfNeverOversold /\ [ApprovalsNext]_allVars => ShelfNeverOversold'
  <2> SUFFICES ASSUME TypedInv, ShelfNeverOversold, [ApprovalsNext]_allVars
               PROVE  ShelfNeverOversold'
    OBVIOUS
  <2>1. [Next]_vars \/ UNCHANGED <<onHand, reserved>>
    BY RoutedStep
  <2>2. QED
    BY <2>1, ShelfStep DEF TypedInv, ApprovalsTypeOK, ShelfNeverOversold
<1>2. QED
  BY <1>1, RoutedShelvesInit, TypedInit, TypedStep, PTL DEF ApprovalsSpec

\* No shelf keeps units back for an order that no longer holds them, for any
\* number of people deciding, requests and clerks: the order a decision moves
\* keeps its hold, and the shelf with it.
THEOREM RoutedNothingKeptBack == ApprovalsSpec => []NothingHeldForNobody
<1>1. ShelfTruth /\ NothingHeldForNobody /\ [ApprovalsNext]_allVars => NothingHeldForNobody'
  <2> SUFFICES ASSUME ShelfTruth, NothingHeldForNobody, [ApprovalsNext]_allVars
               PROVE  NothingHeldForNobody'
    OBVIOUS
  <2>1. [Next]_vars \/ UNCHANGED <<stockState, onHand, reserved, tracked, request>>
    BY RoutedStep DEF ShelfTruth
  <2>2. CASE UNCHANGED <<stockState, onHand, reserved, tracked, request>>
    BY <2>2, ShelvesUntouched DEF ShelfTruth, NothingHeldForNobody
  <2>3. QED
    BY <2>1, <2>2, NothingKeptBackStep DEF ShelfTruth, TypedInv, ApprovalsTypeOK
<1>2. QED
  BY <1>1, RoutedShelvesInit, ShelfTruthStep, PTL DEF ApprovalsSpec

\* With one status change at a time, whether an order was read with a hold
\* stays so while others decide on it.
LEMMA RoutedHoldsStep ==
  ASSUME OneAtATime, TypedInv, HoldsReadAreCurrent, [ApprovalsNext]_allVars
  PROVE  HoldsReadAreCurrent'
<1>0. TypeOK
  BY DEF TypedInv, ApprovalsTypeOK
<1>1. ASSUME NEW o \in Orders, NEW needsApproval \in BOOLEAN, Place(o, needsApproval)
      PROVE  HoldsReadAreCurrent'
  <2> SUFFICES ASSUME NEW q \in Requests, request[q] # Idle
               PROVE  /\ status'[request[q].order] = status[request[q].order]
                      /\ stockState'[request[q].order] = stockState[request[q].order]
    BY <1>1 DEF Place, HoldsReadAreCurrent
  <2>1. request[q].order \in Orders /\ request[q].order # o
    BY <1>0, <1>1 DEF Place, HoldsReadAreCurrent, TypeOK, ChangeRequest
  <2>2. QED
    BY <1>0, <1>1, <2>1 DEF Place, TypeOK
<1>2. ASSUME NEW r \in Requests, NEW o \in Orders, NEW to \in Status, ReadForChange(r, o, to)
      PROVE  HoldsReadAreCurrent'
  <2> SUFFICES ASSUME NEW q \in Requests
               PROVE  /\ status'[request'[q].order] # Unplaced
                      /\ request'[q].held <=> stockState'[request'[q].order] = "RESERVED"
    BY DEF HoldsReadAreCurrent
  <2>1. q = r
    BY DEF OneAtATime
  <2>2. request'[q] = [op |-> "change", order |-> o, from |-> status[o], to |-> to,
                       held |-> stockState[o] = "RESERVED"]
    BY <1>0, <1>2, <2>1 DEF ReadForChange, TypeOK
  <2>3. request'[q].order = o /\ request'[q].held = (stockState[o] = "RESERVED")
    BY <2>2
  <2>4. status[o] # Unplaced /\ status' = status /\ stockState' = stockState
    BY <1>2 DEF ReadForChange, orderVars
  <2>5. QED
    BY <2>3, <2>4, Zenon
<1>3. ASSUME NEW r \in Requests, CommitChange(r) \/ AbandonChange(r)
      PROVE  HoldsReadAreCurrent'
  <2>1. request'[r] = Idle
    BY <1>0, <1>3 DEF CommitChange, AbandonChange, TypeOK
  <2>2. QED
    BY <2>1 DEF OneAtATime, HoldsReadAreCurrent
<1>4. CASE UNCHANGED <<status, stockState, request>>
  BY <1>4 DEF HoldsReadAreCurrent
<1>5. CASE /\ UNCHANGED <<stockState, onHand, reserved, tracked, request>>
           /\ \A o \in Orders : status'[o] = Unplaced => status[o] = Unplaced
  <2>1. \A r \in Requests : request[r] # Idle => request[r].order \in Orders
    BY <1>0 DEF TypeOK, ChangeRequest
  <2>2. QED
    BY <1>5, <2>1 DEF HoldsReadAreCurrent
<1>6. CASE [Next]_vars
  BY <1>1, <1>2, <1>3, <1>4, <1>6, WarehouseLeavesOrders DEF Next, OrderStep, vars
<1>7. QED
  BY <1>5, <1>6, RoutedStep

\* With one status change at a time, and any number of people deciding and of
\* clerks at work, a shelf keeps back exactly what its orders are owed: decide
\* may move an order under the request's eyes, but not its hold.
THEOREM RoutedShelvesMatch ==
  ASSUME OneAtATime
  PROVE  ApprovalsSpec => []ReservedMatchesOrders
<1>1. ShelfTruth /\ HoldsReadAreCurrent /\ [ApprovalsNext]_allVars => HoldsReadAreCurrent'
  BY RoutedHoldsStep DEF ShelfTruth
<1>2. ShelfTruth /\ HoldsReadAreCurrent /\ ReservedMatchesOrders /\ [ApprovalsNext]_allVars
        => ReservedMatchesOrders'
  <2> SUFFICES ASSUME ShelfTruth, HoldsReadAreCurrent, ReservedMatchesOrders,
                      [ApprovalsNext]_allVars
               PROVE  ReservedMatchesOrders'
    OBVIOUS
  <2>1. [Next]_vars \/ UNCHANGED <<stockState, onHand, reserved, tracked, request>>
    BY RoutedStep DEF ShelfTruth
  <2>2. CASE UNCHANGED <<stockState, onHand, reserved, tracked, request>>
    BY <2>2, ShelvesUntouched DEF ShelfTruth, ReservedMatchesOrders
  <2>3. QED
    BY <2>1, <2>2, ShelvesMatchStep DEF ShelfTruth, TypedInv, ApprovalsTypeOK
<1>3. QED
  BY <1>1, <1>2, RoutedShelvesInit, ShelfTruthStep, PTL DEF ApprovalsSpec

-----------------------------------------------------------------------------
(***************************************************************************)
(* NothingAwaitsAfterRefusal: the engine names one tier twice when it      *)
(* refuses, as the tier reached and as the tier to skip above, and what    *)
(* the commit skips is decided on the steps as they are then.              *)
(***************************************************************************)
RefusalSkipsAbove(p) ==
  p.outcome = "REJECTED" => p.skipTiersAbove = p.currentTier /\ p.skipTiersAbove # NoSkip

\* A refusal's two tiers are the tier of a step, so never the absent one.
LEMMA RefusalNamesOneTier ==
  ASSUME NEW st \in [Rules -> StepStatus \cup {Absent}],
         NEW p \in evaluateProgress(st)
  PROVE  RefusalSkipsAbove(p)
<1>1. Planned(st) \subseteq Rules
  BY DEF Planned
<1>2. \A t, k : Progress("APPROVED", t, k).outcome # "REJECTED"
             /\ Progress("PENDING", t, k).outcome # "REJECTED"
             /\ Progress("CHANGES_REQUESTED", t, k).outcome # "REJECTED"
  BY DEF Progress
<1>3. CASE p.outcome = "REJECTED"
  <2>1. PICK rule \in Planned(st) : p = Progress("REJECTED", rule.tier, rule.tier)
    BY <1>2, <1>3 DEF evaluateProgress
  <2>2. rule.tier \in Nat \ {0}
    BY <1>1
  <2>3. QED
    BY <2>1, <2>2 DEF Progress, RefusalSkipsAbove, NoSkip
<1>4. QED
  BY <1>3 DEF RefusalSkipsAbove

StagedRefusals ==
  \A d \in Deciders : decision[d].op = "staged" => RefusalSkipsAbove(decision[d].progress)

RefusalInv == NothingAwaitsAfterRefusal /\ StagedRefusals

\* Every step keeps both, whatever order decisions are written in.
LEMMA RefusalStep == TypedInv /\ RefusalInv /\ [ApprovalsNext]_allVars => RefusalInv'
<1> SUFFICES ASSUME TypedInv, RefusalInv, [ApprovalsNext]_allVars
             PROVE  RefusalInv'
  OBVIOUS
<1> USE DEF RefusalInv
<1>0. ApprovalState /\ UnplacedIsUnrouted
  BY DEF TypedInv, ApprovalsTypeOK, ApprovalState
<1>1. ASSUME NEW o \in Orders, NEW active \in SUBSET Rules, PlaceRouted(o, active)
      PROVE  RefusalInv'
  <2>1. PICK plan \in SUBSET Rules : raiseFor(o, plan) /\ UNCHANGED decision
    BY <1>1, PlanIsFromRules DEF PlaceRouted
  <2>2. \A other \in Orders \ {o} : approval'[other] = approval[other] /\ step'[other] = step[other]
    BY <1>0, <2>1 DEF raiseFor, ApprovalState
  <2>3. approval[o] = NoRequest
    BY <1>0, <1>1 DEF PlaceRouted, Place, UnplacedIsUnrouted
  <2>4. approval'[o].status # "REJECTED"
    <3>1. CASE plan = {}
      BY <2>1, <2>3, <3>1 DEF raiseFor, NoRequest, Absent
    <3>2. CASE plan # {}
      <4>1. PICK tier : approval' = [approval EXCEPT ![o] =
                                       [status |-> "PENDING", currentTier |-> tier]]
        BY <2>1, <3>2 DEF raiseFor
      <4>2. approval'[o] = [status |-> "PENDING", currentTier |-> tier]
        BY <1>0, <4>1 DEF ApprovalState
      <4>3. QED
        BY <4>2
    <3>3. QED
      BY <3>1, <3>2
  <2>5. QED
    BY <2>1, <2>2, <2>4 DEF NothingAwaitsAfterRefusal, StagedRefusals
<1>2. ASSUME NEW d \in Deciders, NEW user \in Users, NEW o \in Orders,
             NEW rule \in Rules, NEW v \in Decision, CheckDecision(d, user, o, rule, v)
      PROVE  RefusalInv'
  <2>1. UNCHANGED <<approval, step>>
    BY <1>2 DEF CheckDecision
  <2>2. /\ decision'[d].op = "checked"
        /\ \A e \in Deciders \ {d} : decision'[e] = decision[e]
    BY <1>0, <1>2 DEF CheckDecision, ApprovalState
  <2>3. QED
    BY <2>1, <2>2 DEF NothingAwaitsAfterRefusal, StagedRefusals
<1>3. ASSUME NEW d \in Deciders, StageDecision(d)
      PROVE  RefusalInv'
  <2>1. decision[d] \in CheckedDecision
    BY <1>0, <1>3 DEF StageDecision, ApprovalState, StagedDecision, Idle
  <2> DEFINE st == [step[decision[d].order] EXCEPT ![decision[d].step] = decision[d].verdict]
  <2>2. st \in [Rules -> StepStatus \cup {Absent}]
    BY <1>0, <2>1 DEF ApprovalState, CheckedDecision, Decision, StepStatus
  <2>3. PICK p \in evaluateProgress(st) :
          decision' = [decision EXCEPT ![d] =
            [op |-> "staged", order |-> decision[d].order, step |-> decision[d].step,
             verdict |-> decision[d].verdict, seen |-> decision[d].seen, progress |-> p]]
    BY <1>3 DEF StageDecision
  <2> HIDE DEF st
  <2>4. RefusalSkipsAbove(p)
    BY <2>2, RefusalNamesOneTier
  <2>5. UNCHANGED <<approval, step>>
    BY <1>3 DEF StageDecision
  <2>6. decision'[d].progress = p /\ \A e \in Deciders \ {d} : decision'[e] = decision[e]
    BY <1>0, <2>3 DEF ApprovalState
  <2>7. QED
    BY <2>4, <2>5, <2>6 DEF NothingAwaitsAfterRefusal, StagedRefusals
<1>4. ASSUME NEW d \in Deciders, CommitDecision(d)
      PROVE  RefusalInv'
  <2> DEFINE k == decision[d]
             o == k.order
             p == k.progress
  <2>1. k \in StagedDecision /\ k.op = "staged"
    BY <1>0, <1>4 DEF CommitDecision, ApprovalState, CheckedDecision, StagedDecision, Idle
  <2>2. o \in Orders /\ k.step \in Rules /\ k.verdict # "PENDING" /\ RefusalSkipsAbove(p)
    BY <2>1 DEF StagedDecision, Decision, StagedRefusals
  <2>3. /\ approval' = [approval EXCEPT ![o] =
             [status |-> p.outcome, currentTier |-> p.currentTier]]
        /\ step' = [step EXCEPT ![o] =
             [rule \in Rules |-> CASE rule = k.step -> k.verdict
                                   [] rule # k.step /\ rule \in Skipped(o, p) -> "SKIPPED"
                                   [] OTHER -> step[o][rule]]]
        /\ decision' = [decision EXCEPT ![d] = Idle]
    BY <1>4 DEF CommitDecision
  <2> HIDE DEF k, o, p
  <2>4. ASSUME NEW rule \in Rules, p.outcome = "REJECTED", rule.tier > p.currentTier
        PROVE  step'[o][rule] # "PENDING"
    <3>1. step'[o][rule] = CASE rule = k.step -> k.verdict
                             [] rule # k.step /\ rule \in Skipped(o, p) -> "SKIPPED"
                             [] OTHER -> step[o][rule]
      BY <1>0, <2>2, <2>3 DEF ApprovalState
    <3>2. rule \notin Skipped(o, p) => step[o][rule] # "PENDING"
      BY <2>2, <2>4 DEF Skipped, RefusalSkipsAbove
    <3>3. QED
      BY <2>2, <3>1, <3>2
  <2>5. /\ approval'[o] = [status |-> p.outcome, currentTier |-> p.currentTier]
        /\ \A other \in Orders \ {o} : approval'[other] = approval[other] /\ step'[other] = step[other]
    BY <1>0, <2>2, <2>3 DEF ApprovalState
  <2>6. NothingAwaitsAfterRefusal'
    BY <2>4, <2>5 DEF NothingAwaitsAfterRefusal
  <2>7. StagedRefusals'
    BY <1>0, <2>3 DEF StagedRefusals, ApprovalState, Idle
  <2>8. QED
    BY <2>6, <2>7
<1>5. ASSUME NEW d \in Deciders, AbandonDecision(d)
      PROVE  RefusalInv'
  BY <1>0, <1>5 DEF AbandonDecision, ApprovalState, Idle, NothingAwaitsAfterRefusal, StagedRefusals
<1>6. CASE UNCHANGED approvalVars
  BY <1>6 DEF approvalVars, NothingAwaitsAfterRefusal, StagedRefusals
<1>7. QED
  BY <1>1, <1>2, <1>3, <1>4, <1>5, <1>6
     DEF ApprovalsNext, ReadForChangeBy, CommitChangeBy, AbandonChangeBy, allVars

\* A refused request leaves nothing awaiting a decision above the tier that
\* refused it, for any rules and any number of people deciding at once.
THEOREM RefusalEmptiesQueues == ApprovalsSpec => []NothingAwaitsAfterRefusal
<1>1. ApprovalsInit => RefusalInv
  BY DEF ApprovalsInit, RefusalInv, NothingAwaitsAfterRefusal, StagedRefusals, NoRequest,
         Absent, Idle
<1>2. RefusalInv => NothingAwaitsAfterRefusal
  BY DEF RefusalInv
<1>3. QED
  BY <1>1, <1>2, TypedInit, TypedStep, RefusalStep, PTL DEF ApprovalsSpec

-----------------------------------------------------------------------------
(***************************************************************************)
(* RequestMatchesSteps and DecisionIsFinal, while one decision is made at  *)
(* a time: what a decision read is then still so when it writes, so the    *)
(* reading it stages is of the steps it leaves behind.  What a refusal     *)
(* skips besides does not change the engine's answer, because the refused  *)
(* step stays refused.                                                     *)
(***************************************************************************)
OneDecision == \A d, e \in Deciders : d = e

\* What a decision in flight has read still is so.
DecisionReadsTrue(d) ==
  LET k == decision[d]
      st == step[k.order]
  IN  k # Idle =>
        /\ approval[k.order].status = "PENDING"
        /\ st[k.step] = "PENDING"
        /\ k.op = "staged" => k.progress \in evaluateProgress([st EXCEPT ![k.step] = k.verdict])

UnroutedHasNoSteps ==
  \A o \in Orders : approval[o] = NoRequest => \A rule \in Rules : step[o][rule] = Absent

OneDecisionInv ==
  /\ RequestMatchesSteps
  /\ UnroutedHasNoSteps
  /\ \A d \in Deciders : DecisionReadsTrue(d)

\* The engine's answer about a plan nobody has decided is its lowest tier.
LEMMA FreshPlanPends ==
  ASSUME NEW plan \in SUBSET Rules, plan # {},
         NEW tier \in Lowest({rule.tier : rule \in plan})
  PROVE  Progress("PENDING", tier, NoSkip)
           \in evaluateProgress([rule \in Rules |-> IF rule \in plan THEN "PENDING" ELSE Absent])
<1> DEFINE st == [rule \in Rules |-> IF rule \in plan THEN "PENDING" ELSE Absent]
<1>1. Planned(st) = plan
  BY DEF Planned, Absent
<1>2. \A rule \in plan : st[rule] = "PENDING"
  OBVIOUS
<1> HIDE DEF st
<1>3. UnsettledTiers(st) = {rule.tier : rule \in plan}
  BY <1>1, <1>2 DEF UnsettledTiers
<1>4. UnsettledTiers(st) # {}
  <2>1. PICK rule \in plan : TRUE
    OBVIOUS
  <2>2. rule.tier \in UnsettledTiers(st)
    BY <1>3, <2>1
  <2>3. QED
    BY <2>2
<1>5. evaluateProgress(st) = {Progress("PENDING", t, NoSkip) : t \in Lowest(UnsettledTiers(st))}
  BY <1>1, <1>2, <1>4 DEF evaluateProgress
<1>6. QED
  BY <1>3, <1>5 DEF st

\* Refusing a step and skipping others that wait leaves the refusal the answer.
LEMMA SkippingKeepsRefusal ==
  ASSUME NEW before \in [Rules -> StepStatus \cup {Absent}],
         NEW p \in evaluateProgress(before), p.outcome = "REJECTED",
         NEW after \in [Rules -> StepStatus \cup {Absent}],
         \A rule \in Rules : before[rule] = "REJECTED" => after[rule] = "REJECTED"
  PROVE  p \in evaluateProgress(after)
<1>1. \A t, k : Progress("APPROVED", t, k).outcome # "REJECTED"
             /\ Progress("PENDING", t, k).outcome # "REJECTED"
             /\ Progress("CHANGES_REQUESTED", t, k).outcome # "REJECTED"
  BY DEF Progress
<1>2. PICK rule \in Planned(before) :
        before[rule] = "REJECTED" /\ p = Progress("REJECTED", rule.tier, rule.tier)
  BY <1>1 DEF evaluateProgress
<1>3. rule \in Rules /\ after[rule] = "REJECTED"
  BY <1>2 DEF Planned
<1>4. rule \in Planned(after)
  BY <1>3 DEF Planned, Absent
<1>5. QED
  BY <1>2, <1>3, <1>4 DEF evaluateProgress

\* The engine skips above a refusal and otherwise nothing.
LEMMA OnlyRefusalSkips ==
  ASSUME NEW st, NEW p \in evaluateProgress(st), p.outcome # "REJECTED"
  PROVE  p.skipTiersAbove = NoSkip
<1>1. \A t : Progress("REJECTED", t, t).outcome = "REJECTED"
  BY DEF Progress
<1>2. \E outcome, t : p = Progress(outcome, t, NoSkip)
  BY <1>1 DEF evaluateProgress
<1>3. QED
  BY <1>2 DEF Progress

\* What the one decision in flight writes: its step, what it skips, and the
\* engine's answer about the steps it leaves.
LEMMA CommitWritesProgress ==
  ASSUME TypedInv, OneDecisionInv, NEW d \in Deciders, CommitDecision(d)
  PROVE  LET k == decision[d]
             o == k.order
         IN  /\ o \in Orders /\ k.step \in Rules
             /\ k.progress \in evaluateProgress(step'[o])
             /\ approval'[o] = [status |-> k.progress.outcome,
                                currentTier |-> k.progress.currentTier]
             /\ k.progress.outcome \in Outcome
             /\ approval[o].status = "PENDING"
             /\ \A rule \in Rules : step[o][rule] # "PENDING" => step'[o][rule] = step[o][rule]
             /\ \A other \in Orders \ {o} :
                  step'[other] = step[other] /\ approval'[other] = approval[other]
             /\ decision'[d] = Idle
<1> DEFINE k == decision[d]
           o == k.order
           p == k.progress
           before == [step[o] EXCEPT ![k.step] = k.verdict]
<1>0. ApprovalState
  BY DEF TypedInv, ApprovalsTypeOK, ApprovalState
<1>1. k \in StagedDecision /\ k.op = "staged" /\ k # Idle
  BY <1>0 DEF CommitDecision, ApprovalState, CheckedDecision, StagedDecision, Idle
<1>2. o \in Orders /\ k.step \in Rules /\ k.verdict \in Decision /\ p.outcome \in Outcome
  BY <1>1 DEF StagedDecision
<1>3. approval[o].status = "PENDING" /\ step[o][k.step] = "PENDING" /\ p \in evaluateProgress(before)
  BY <1>1 DEF OneDecisionInv, DecisionReadsTrue
<1>4. /\ approval' = [approval EXCEPT ![o] = [status |-> p.outcome, currentTier |-> p.currentTier]]
      /\ step' = [step EXCEPT ![o] =
           [rule \in Rules |-> CASE rule = k.step -> k.verdict
                                 [] rule # k.step /\ rule \in Skipped(o, p) -> "SKIPPED"
                                 [] OTHER -> step[o][rule]]]
      /\ decision' = [decision EXCEPT ![d] = Idle]
  BY DEF CommitDecision
<1>5. step[o] \in [Rules -> StepStatus \cup {Absent}]
  BY <1>0, <1>2 DEF ApprovalState
<1>6. before \in [Rules -> StepStatus \cup {Absent}]
  BY <1>2, <1>5 DEF StepStatus, Decision
<1>7. \A rule \in Rules : before[rule] = IF rule = k.step THEN k.verdict ELSE step[o][rule]
  BY <1>5
<1> HIDE DEF k, o, p, before
<1>8. step'[o] = [rule \in Rules |-> CASE rule = k.step -> k.verdict
                                        [] rule # k.step /\ rule \in Skipped(o, p) -> "SKIPPED"
                                        [] OTHER -> step[o][rule]]
  BY <1>0, <1>2, <1>4 DEF ApprovalState
<1>9. step'[o] \in [Rules -> StepStatus \cup {Absent}]
  BY <1>2, <1>5, <1>8 DEF StepStatus, Decision
<1>10. \A rule \in Skipped(o, p) : step[o][rule] = "PENDING"
  BY DEF Skipped
<1>11. \A rule \in Rules : step'[o][rule] =
         IF rule = k.step THEN k.verdict
         ELSE IF rule \in Skipped(o, p) THEN "SKIPPED" ELSE step[o][rule]
  BY <1>8
<1>12. \A rule \in Rules : step[o][rule] # "PENDING" => step'[o][rule] = step[o][rule]
  BY <1>3, <1>10, <1>11
<1>13. p \in evaluateProgress(step'[o])
  <2>1. CASE p.outcome = "REJECTED"
    <3>1. \A rule \in Rules : before[rule] = "REJECTED" => step'[o][rule] = "REJECTED"
      BY <1>7, <1>10, <1>11
    <3>2. QED
      BY <1>3, <1>6, <1>9, <2>1, <3>1, SkippingKeepsRefusal
  <2>2. CASE p.outcome # "REJECTED"
    <3>1. Skipped(o, p) = {}
      BY <1>3, <2>2, OnlyRefusalSkips DEF Skipped
    <3>2. \A rule \in Rules : step'[o][rule] = before[rule]
      BY <1>7, <1>11, <3>1
    <3>3. step'[o] = before
      BY <1>6, <1>9, <3>2
    <3>4. QED
      BY <1>3, <3>3
  <2>3. QED
    BY <2>1, <2>2
<1>14. approval'[o] = [status |-> p.outcome, currentTier |-> p.currentTier]
  BY <1>0, <1>2, <1>4 DEF ApprovalState
<1>15. \A other \in Orders \ {o} : step'[other] = step[other] /\ approval'[other] = approval[other]
  BY <1>0, <1>4 DEF ApprovalState
<1>16. decision'[d] = Idle
  BY <1>0, <1>4 DEF ApprovalState
<1>17. QED
  BY <1>2, <1>3, <1>12, <1>13, <1>14, <1>15, <1>16 DEF k, o, p

\* One decision at a time keeps requests, steps and its own reading together.
LEMMA OneDecisionStep ==
  ASSUME OneDecision, TypedInv, OneDecisionInv, [ApprovalsNext]_allVars
  PROVE  OneDecisionInv'
<1> USE DEF OneDecisionInv
<1>0. ApprovalState /\ UnplacedIsUnrouted
  BY DEF TypedInv, ApprovalsTypeOK, ApprovalState
<1>1. ASSUME NEW o \in Orders, NEW active \in SUBSET Rules, PlaceRouted(o, active)
      PROVE  OneDecisionInv'
  <2>1. PICK plan \in SUBSET Rules : raiseFor(o, plan) /\ UNCHANGED decision
    BY <1>1, PlanIsFromRules DEF PlaceRouted
  <2>2. /\ approval[o] = NoRequest
        /\ \A d \in Deciders : decision[d] # Idle => decision[d].order # o
    BY <1>0, <1>1 DEF PlaceRouted, Place, UnplacedIsUnrouted
  <2>3. CASE plan = {}
    <3>1. UNCHANGED <<approval, step, decision>>
      BY <2>1, <2>3 DEF raiseFor
    <3>2. QED
      BY <3>1 DEF RequestMatchesSteps, UnroutedHasNoSteps, DecisionReadsTrue
  <2>4. CASE plan # {}
    <3> DEFINE st == [rule \in Rules |-> IF rule \in plan THEN "PENDING" ELSE Absent]
    <3>1. PICK tier \in Lowest({rule.tier : rule \in plan}) :
            approval' = [approval EXCEPT ![o] = [status |-> "PENDING", currentTier |-> tier]]
      BY <2>1, <2>4 DEF raiseFor
    <3>2. step' = [step EXCEPT ![o] = st]
      BY <2>1, <2>4 DEF raiseFor
    <3> DEFINE p == Progress("PENDING", tier, NoSkip)
    <3>3. p \in evaluateProgress(st)
      BY <2>4, FreshPlanPends
    <3> HIDE DEF st
    <3>4. /\ step'[o] = st
          /\ approval'[o] = [status |-> "PENDING", currentTier |-> tier]
          /\ \A other \in Orders \ {o} : step'[other] = step[other] /\ approval'[other] = approval[other]
      BY <1>0, <3>1, <3>2 DEF ApprovalState
    <3>5. approval'[o] = [status |-> p.outcome, currentTier |-> p.currentTier]
      BY <3>4 DEF Progress
    <3>6. approval'[o] # NoRequest
      BY <3>4 DEF NoRequest, Absent
    <3> HIDE DEF p
    <3>7. RequestMatchesSteps' /\ UnroutedHasNoSteps'
      BY <3>3, <3>4, <3>5, <3>6 DEF RequestMatchesSteps, UnroutedHasNoSteps
    <3>8. ASSUME NEW d \in Deciders PROVE DecisionReadsTrue(d)'
      <4>1. decision'[d] = decision[d]
        BY <2>1
      <4>2. CASE decision[d] = Idle
        BY <4>1, <4>2 DEF DecisionReadsTrue
      <4>3. CASE decision[d] # Idle
        <5>1. decision[d].order \in Orders \ {o}
          BY <1>0, <2>2, <4>3 DEF ApprovalState, CheckedDecision, StagedDecision
        <5>2. /\ step'[decision[d].order] = step[decision[d].order]
              /\ approval'[decision[d].order] = approval[decision[d].order]
          BY <3>4, <5>1
        <5>3. DecisionReadsTrue(d)
          OBVIOUS
        <5> HIDE DEF OneDecisionInv
        <5>4. QED
          BY <4>1, <5>2, <5>3 DEF DecisionReadsTrue
      <4>4. QED
        BY <4>2, <4>3
    <3>9. QED
      BY <3>7, <3>8
  <2>5. QED
    BY <2>3, <2>4
<1>2. ASSUME NEW d \in Deciders, NEW user \in Users, NEW o \in Orders,
             NEW rule \in Rules, NEW v \in Decision, CheckDecision(d, user, o, rule, v)
      PROVE  OneDecisionInv'
  <2> DEFINE k == [op |-> "checked", order |-> o, step |-> rule, verdict |-> v,
                   seen |-> status[o]]
  <2>1. decision' = [decision EXCEPT ![d] = k] /\ UNCHANGED <<approval, step>>
    BY <1>2 DEF CheckDecision
  <2>2. k.order = o /\ k.step = rule /\ k.op = "checked"
    OBVIOUS
  <2>3. approval[o].status = "PENDING" /\ step[o][rule] = "PENDING"
    BY <1>2 DEF CheckDecision, stepIsOpen
  <2> HIDE DEF k
  <2>4. decision'[d] = k
    BY <1>0, <2>1 DEF ApprovalState
  <2>5. DecisionReadsTrue(d)'
    BY <2>1, <2>2, <2>3, <2>4 DEF DecisionReadsTrue
  <2>6. QED
    BY <2>1, <2>5 DEF OneDecision, RequestMatchesSteps, UnroutedHasNoSteps
<1>3. ASSUME NEW d \in Deciders, StageDecision(d)
      PROVE  OneDecisionInv'
  <2> DEFINE k == decision[d]
             st == [step[k.order] EXCEPT ![k.step] = k.verdict]
  <2>1. k.op = "checked" /\ k # Idle
    BY <1>0, <1>3 DEF StageDecision, ApprovalState, CheckedDecision, StagedDecision, Idle
  <2>2. PICK p \in evaluateProgress(st) :
          decision' = [decision EXCEPT ![d] =
            [op |-> "staged", order |-> k.order, step |-> k.step, verdict |-> k.verdict,
             seen |-> k.seen, progress |-> p]]
    BY <1>3 DEF StageDecision
  <2>3. UNCHANGED <<approval, step>>
    BY <1>3 DEF StageDecision
  <2>4. approval[k.order].status = "PENDING" /\ step[k.order][k.step] = "PENDING"
    BY <2>1 DEF DecisionReadsTrue
  <2>5. /\ decision'[d].order = k.order /\ decision'[d].step = k.step
        /\ decision'[d].verdict = k.verdict /\ decision'[d].progress = p
    BY <1>0, <2>2 DEF ApprovalState
  <2> HIDE DEF k
  <2>6. DecisionReadsTrue(d)'
    BY <2>2, <2>3, <2>4, <2>5 DEF DecisionReadsTrue
  <2>7. QED
    BY <2>3, <2>6 DEF OneDecision, RequestMatchesSteps, UnroutedHasNoSteps
<1>4. ASSUME NEW d \in Deciders, CommitDecision(d)
      PROVE  OneDecisionInv'
  <2> DEFINE k == decision[d]
             o == k.order
  <2>1. /\ o \in Orders
        /\ k.progress \in evaluateProgress(step'[o])
        /\ approval'[o] = [status |-> k.progress.outcome, currentTier |-> k.progress.currentTier]
        /\ k.progress.outcome \in Outcome
        /\ \A other \in Orders \ {o} :
             step'[other] = step[other] /\ approval'[other] = approval[other]
        /\ decision'[d] = Idle
    BY <1>4, CommitWritesProgress
  <2> HIDE DEF k, o
  <2>2. approval'[o] # NoRequest
    BY <2>1 DEF NoRequest, Absent, Outcome, Decision
  <2>3. RequestMatchesSteps'
    <3>1. \E p \in evaluateProgress(step'[o]) :
            approval'[o] = [status |-> p.outcome, currentTier |-> p.currentTier]
      BY <2>1
    <3>2. QED
      BY <2>1, <3>1 DEF RequestMatchesSteps
  <2>4. UnroutedHasNoSteps'
    BY <2>1, <2>2 DEF UnroutedHasNoSteps
  <2>5. DecisionReadsTrue(d)'
    BY <2>1 DEF DecisionReadsTrue
  <2>6. QED
    BY <2>3, <2>4, <2>5 DEF OneDecision
<1>5. ASSUME NEW d \in Deciders, AbandonDecision(d)
      PROVE  OneDecisionInv'
  <2>1. decision'[d] = Idle /\ UNCHANGED <<approval, step>>
    BY <1>0, <1>5 DEF AbandonDecision, ApprovalState
  <2>2. QED
    BY <2>1 DEF OneDecision, RequestMatchesSteps, UnroutedHasNoSteps, DecisionReadsTrue
<1>6. CASE UNCHANGED approvalVars
  BY <1>6 DEF approvalVars, RequestMatchesSteps, UnroutedHasNoSteps, DecisionReadsTrue
<1>7. QED
  BY <1>1, <1>2, <1>3, <1>4, <1>5, <1>6
     DEF ApprovalsNext, ReadForChangeBy, CommitChangeBy, AbandonChangeBy, allVars

\* Hence it is so throughout.
LEMMA OneDecisionAlways ==
  ASSUME OneDecision
  PROVE  ApprovalsSpec => [](TypedInv /\ OneDecisionInv)
<1>1. ApprovalsInit => OneDecisionInv
  BY DEF ApprovalsInit, OneDecisionInv, RequestMatchesSteps, UnroutedHasNoSteps,
         DecisionReadsTrue
<1>2. TypedInv /\ OneDecisionInv /\ [ApprovalsNext]_allVars => OneDecisionInv'
  BY OneDecisionStep
<1>3. QED
  BY <1>1, <1>2, TypedInit, TypedStep, PTL DEF ApprovalsSpec

(***************************************************************************)
(* With one decision at a time a request always says what its steps come   *)
(* to: decide reads them back after writing its own and records the        *)
(* engine's answer in the same transaction.                                *)
(***************************************************************************)
THEOREM SerialRequestMatches ==
  ASSUME OneDecision
  PROVE  ApprovalsSpec => []RequestMatchesSteps
<1>1. OneDecisionInv => RequestMatchesSteps
  BY DEF OneDecisionInv
<1>2. QED
  BY <1>1, OneDecisionAlways, PTL

(***************************************************************************)
(* With one decision at a time no signature is replaced and no finished    *)
(* request reopened: what decide checked is what it writes over.           *)
(***************************************************************************)
THEOREM SerialDecisionFinal ==
  ASSUME OneDecision
  PROVE  ApprovalsSpec => DecisionIsFinal
<1> DEFINE Final ==
      \A o \in Orders :
        /\ \A rule \in Rules : step[o][rule] \in Decision => step'[o][rule] = step[o][rule]
        /\ approval[o].status \in Decision => approval'[o] = approval[o]
<1>1. TypedInv /\ OneDecisionInv /\ [ApprovalsNext]_allVars => [Final]_allVars
  <2> SUFFICES ASSUME TypedInv, OneDecisionInv, ApprovalsNext
               PROVE  Final
    BY DEF allVars, approvalVars
  <2>0. ApprovalState /\ UnplacedIsUnrouted
    BY DEF TypedInv, ApprovalsTypeOK, ApprovalState
  <2>1. ASSUME NEW o \in Orders, NEW active \in SUBSET Rules, PlaceRouted(o, active)
        PROVE  Final
    <3>1. PICK plan \in SUBSET Rules : raiseFor(o, plan)
      BY <2>1, PlanIsFromRules DEF PlaceRouted
    <3>2. approval[o] = NoRequest
      BY <2>0, <2>1 DEF PlaceRouted, Place, UnplacedIsUnrouted
    <3>3. approval[o].status \notin Decision
      BY <3>2 DEF NoRequest, Absent, Decision
    <3>4. \A rule \in Rules : step[o][rule] \notin Decision
      BY <3>2 DEF OneDecisionInv, UnroutedHasNoSteps, Absent, Decision
    <3>5. \A other \in Orders \ {o} : step'[other] = step[other] /\ approval'[other] = approval[other]
      BY <2>0, <3>1 DEF raiseFor, ApprovalState
    <3>6. QED
      BY <3>3, <3>4, <3>5
  <2>2. ASSUME NEW d \in Deciders, CommitDecision(d)
        PROVE  Final
    <3> DEFINE o == decision[d].order
    <3>1. /\ approval[o].status = "PENDING"
          /\ \A rule \in Rules : step[o][rule] # "PENDING" => step'[o][rule] = step[o][rule]
          /\ \A other \in Orders \ {o} :
               step'[other] = step[other] /\ approval'[other] = approval[other]
      BY <2>2, CommitWritesProgress
    <3> HIDE DEF o
    <3>2. QED
      BY <3>1 DEF Decision
  <2>3. CASE UNCHANGED <<approval, step>>
    BY <2>3
  <2>4. QED
    BY <2>1, <2>2, <2>3
       DEF ApprovalsNext, ReadForChangeBy, CommitChangeBy, AbandonChangeBy, CheckDecision,
           StageDecision, AbandonDecision, approvalVars
<1>2. QED
  BY <1>1, OneDecisionAlways, PTL DEF ApprovalsSpec, DecisionIsFinal

-----------------------------------------------------------------------------
(***************************************************************************)
(* The pure rules, for every set of rules an account may configure.        *)
(***************************************************************************)

\* Rules as the database keeps them: each under an id of its own.
Identified(rules) ==
  /\ \A r \in rules : r.id \in Nat
  /\ \A p, q \in rules : p.id = q.id => p = q

Tripped(rules, facts) == {rule \in rules : ruleMatches(rule, facts)}

\* Some step of the plan asks what a tripped rule asks.
LEMMA PlanCoversTripped ==
  ASSUME NEW rules, Identified(rules), NEW facts, NEW rule \in Tripped(rules, facts)
  PROVE  \E p \in planApproval(rules, facts) : SameKey(p, rule)
<1> DEFINE alike == {q \in Tripped(rules, facts) : SameKey(q, rule)}
           ids == {q.id : q \in alike}
<1>1. ids \in SUBSET Nat
  BY DEF Identified, Tripped
<1>2. ids # {}
  <2>1. rule \in alike
    BY DEF SameKey
  <2>2. QED
    BY <2>1
<1>3. PICK least \in ids : \A m \in ids : least <= m
  <2> HIDE DEF ids
  <2>1. QED
    BY <1>1, <1>2, LeastNumber
<1>4. PICK p \in alike : p.id = least
  OBVIOUS
<1>5. ASSUME NEW q \in Tripped(rules, facts), SameKey(p, q)
      PROVE  p.id <= q.id
  <2>1. q \in alike
    BY <1>4, <1>5 DEF SameKey
  <2>2. QED
    BY <1>3, <1>4, <2>1
<1>6. QED
  BY <1>4, <1>5 DEF planApproval, Tripped

\* Collapsing duplicates loses no approver and asks none twice in a tier.
LEMMA PlanAsksEachOnce ==
  ASSUME NEW rules, IsFiniteSet(rules), Identified(rules), NEW facts
  PROVE  /\ Asked(rules, facts) = {<<rule.tier, rule.approver>> : rule \in Tripped(rules, facts)}
         /\ Cardinality(planApproval(rules, facts)) = Cardinality(Asked(rules, facts))
<1> DEFINE plan == planApproval(rules, facts)
           key == [p \in plan |-> <<p.tier, p.approver>>]
<1>1. plan \subseteq Tripped(rules, facts) /\ plan \subseteq rules
  BY DEF planApproval, Tripped
<1>2. Asked(rules, facts) = {<<rule.tier, rule.approver>> : rule \in Tripped(rules, facts)}
  <2>1. ASSUME NEW rule \in Tripped(rules, facts)
        PROVE  <<rule.tier, rule.approver>> \in Asked(rules, facts)
    <3>1. PICK p \in plan : SameKey(p, rule)
      BY PlanCoversTripped
    <3>2. QED
      BY <3>1 DEF SameKey, Asked
  <2>2. QED
    BY <1>1, <2>1 DEF Asked
<1>3. ASSUME NEW p \in plan, NEW q \in plan, key[p] = key[q]
      PROVE  p = q
  <2>1. SameKey(p, q) /\ SameKey(q, p)
    BY <1>3 DEF SameKey
  <2>2. p.id <= q.id /\ q.id <= p.id
    BY <2>1 DEF planApproval
  <2>3. QED
    BY <1>1, <2>2 DEF Identified
<1>4. IsFiniteSet(plan)
  BY <1>1, FS_Subset
<1>5. key \in Bijection(plan, Asked(rules, facts))
  <2>1. key \in [plan -> Asked(rules, facts)]
    BY DEF Asked
  <2>2. \A t \in Asked(rules, facts) : \E p \in plan : key[p] = t
    BY DEF Asked
  <2> HIDE DEF plan, key
  <2>3. QED
    BY <1>3, <2>1, <2>2 DEF Bijection, Injection, Surjection, IsInjective
<1>6. ExistsBijection(plan, Asked(rules, facts))
  BY <1>5 DEF ExistsBijection
<1>7. Cardinality(plan) = Cardinality(Asked(rules, facts))
  <2> HIDE DEF plan
  <2>1. QED
    BY <1>4, <1>6, FS_Bijection
<1>8. QED
  BY <1>2, <1>7

\* What the engine answers about steps that have been answered in any way.
LEMMA EngineAnswers ==
  ASSUME NEW st, \A r \in DOMAIN st : st[r] \in StepStatus /\ r.tier \in Nat,
         NEW p \in evaluateProgress(st)
  PROVE  LET Answered(s) == \E r \in DOMAIN st : st[r] = s
         IN  /\ p.outcome = "REJECTED" <=> Answered("REJECTED")
             /\ p.outcome = "CHANGES_REQUESTED" <=> Answered("CHANGES_REQUESTED") /\ ~Answered("REJECTED")
             /\ p.outcome = "PENDING" =>
                  /\ \E r \in DOMAIN st : st[r] = "PENDING" /\ r.tier = p.currentTier
                  /\ \A r \in DOMAIN st : r.tier < p.currentTier => st[r] \in {"APPROVED", "SKIPPED"}
             /\ p.outcome = "APPROVED" => \A r \in DOMAIN st : st[r] \in {"APPROVED", "SKIPPED"}
<1> DEFINE Answered(s) == \E r \in DOMAIN st : st[r] = s
<1>1. Planned(st) = DOMAIN st
  BY DEF Planned, Absent, StepStatus
<1>2. \A o, t, k : Progress(o, t, k).outcome = o /\ Progress(o, t, k).currentTier = t
  BY DEF Progress
<1>3. CASE Answered("REJECTED")
  <2>1. p.outcome = "REJECTED"
    BY <1>1, <1>2, <1>3 DEF evaluateProgress
  <2>2. QED
    BY <1>3, <2>1
<1>4. CASE ~Answered("REJECTED") /\ Answered("CHANGES_REQUESTED")
  <2>1. p.outcome = "CHANGES_REQUESTED"
    BY <1>1, <1>2, <1>4 DEF evaluateProgress
  <2>2. QED
    BY <1>4, <2>1
<1>5. CASE ~Answered("REJECTED") /\ ~Answered("CHANGES_REQUESTED")
  <2>1. CASE UnsettledTiers(st) # {}
    <3>1. PICK t \in Lowest(UnsettledTiers(st)) : p = Progress("PENDING", t, NoSkip)
      <4>1. Planned(st) # {}
        BY <2>1 DEF UnsettledTiers
      <4>2. p \in {Progress("PENDING", t, NoSkip) : t \in Lowest(UnsettledTiers(st))}
        BY <1>1, <1>5, <2>1, <4>1 DEF evaluateProgress
      <4>3. QED
        BY <4>2
    <3>2. p.outcome = "PENDING" /\ p.currentTier = t
      BY <1>2, <3>1
    <3>3. \A r \in DOMAIN st : st[r] \in {"PENDING", "APPROVED", "SKIPPED"}
      BY <1>5 DEF StepStatus
    <3>4. PICK r \in DOMAIN st : st[r] = "PENDING" /\ r.tier = t
      BY <1>1, <3>1, <3>3 DEF Lowest, UnsettledTiers
    <3>5. ASSUME NEW q \in DOMAIN st, q.tier < t
          PROVE  st[q] \in {"APPROVED", "SKIPPED"}
      <4>1. SUFFICES ASSUME st[q] \notin {"APPROVED", "SKIPPED"} PROVE FALSE
        OBVIOUS
      <4>2. q.tier \in UnsettledTiers(st)
        BY <1>1, <4>1 DEF UnsettledTiers
      <4>3. t <= q.tier
        BY <3>1, <4>2 DEF Lowest
      <4>4. q.tier \in Nat /\ t \in Nat
        BY <3>4
      <4>5. QED
        BY <3>5, <4>3, <4>4
    <3>6. QED
      BY <1>5, <3>2, <3>4, <3>5
  <2>2. CASE UnsettledTiers(st) = {}
    <3>1. ASSUME NEW r \in DOMAIN st PROVE st[r] \in {"APPROVED", "SKIPPED"}
      <4>1. SUFFICES ASSUME st[r] \notin {"APPROVED", "SKIPPED"} PROVE FALSE
        OBVIOUS
      <4>2. r.tier \in UnsettledTiers(st)
        BY <1>1, <4>1 DEF UnsettledTiers
      <4>3. QED
        BY <2>2, <4>2
    <3>2. p.outcome = "APPROVED"
      <4>1. CASE Planned(st) = {}
        BY <1>2, <4>1 DEF evaluateProgress
      <4>2. CASE Planned(st) # {}
        <5>1. p \in {Progress("APPROVED", t, NoSkip) : t \in Highest({r.tier : r \in Planned(st)})}
          BY <1>1, <1>5, <2>2, <4>2 DEF evaluateProgress
        <5>2. PICK t : p = Progress("APPROVED", t, NoSkip)
          BY <5>1
        <5>3. QED
          BY <1>2, <5>2
      <4>3. QED
        BY <4>1, <4>2
    <3>3. QED
      BY <1>5, <3>1, <3>2
  <2>3. QED
    BY <2>1, <2>2
<1>6. QED
  BY <1>3, <1>4, <1>5

\* What an account's rules and an order's steps always are.
EngineInv ==
  /\ IsFiniteSet(configured)
  /\ \A r \in configured :
       r.id \in Nat /\ r.id <= Cardinality(configured) /\ r.tier \in Nat /\ r.minTotal \in Nat
  /\ \A p, q \in configured : p.id = q.id => p = q
  /\ \A r \in DOMAIN answers : answers[r] \in StepStatus /\ r.tier \in Nat

LEMMA EngineStep == EngineInv /\ [EngineNext]_engineVars => EngineInv'
<1> SUFFICES ASSUME EngineInv, [EngineNext]_engineVars PROVE EngineInv'
  OBVIOUS
<1> USE TiersAssumption DEF EngineInv
<1>1. ASSUME NEW tier \in Tiers, NEW minTotal \in Totals, NEW category,
             NEW approver \in Approvers, AddRule(tier, minTotal, category, approver)
      PROVE  EngineInv'
  <2> DEFINE n == Cardinality(configured)
             rule == NewRule(n + 1, tier, minTotal, category, approver)
  <2>1. n \in Nat
    BY FS_CardinalityType
  <2>2. rule.id = n + 1 /\ rule.tier \in Nat /\ rule.minTotal \in Nat
    BY DEF NewRule
  <2>3. configured' = configured \cup {rule} /\ answers' = answers
    BY <1>1 DEF AddRule
  <2> HIDE DEF rule
  <2>4. rule \notin configured
    BY <2>1, <2>2
  <2>5. IsFiniteSet(configured') /\ Cardinality(configured') = n + 1
    BY <2>3, <2>4, FS_AddElement
  <2> HIDE DEF n
  <2>6. \A r \in configured : r.id \in Nat /\ r.id <= n
    BY DEF n
  <2>7. ASSUME NEW r \in configured'
        PROVE  r.id \in Nat /\ r.id <= n + 1 /\ r.tier \in Nat /\ r.minTotal \in Nat
    BY <2>1, <2>2, <2>3, <2>6, <2>7
  <2>8. ASSUME NEW p \in configured', NEW q \in configured', p.id = q.id
        PROVE  p = q
    BY <2>1, <2>2, <2>3, <2>6, <2>8
  <2>9. QED
    BY <2>3, <2>5, <2>7, <2>8
<1>2. ASSUME NEW total \in Totals, PutOrder(total)
      PROVE  EngineInv'
  <2>1. planApproval(configured, Spending(total)) \subseteq configured
    BY DEF planApproval
  <2>2. QED
    BY <1>2, <2>1 DEF PutOrder, StepStatus
<1>3. ASSUME NEW r \in DOMAIN answers, NEW s \in StepStatus \ {"PENDING"}, Answer(r, s)
      PROVE  EngineInv'
  BY <1>3 DEF Answer
<1>4. CASE UNCHANGED engineVars
  BY <1>4 DEF engineVars
<1>5. QED
  BY <1>1, <1>2, <1>3, <1>4 DEF EngineNext

LEMMA EngineAlways == RulesSpec => []EngineInv
<1>1. EngineInit => EngineInv
  BY FS_EmptySet DEF EngineInit, EngineInv, NotPut
<1>2. QED
  BY <1>1, EngineStep, PTL DEF RulesSpec

\* Whatever rules an account configures, every approver a tripped rule names is
\* asked once in its tier and nobody else is, and spending more never asks
\* fewer.
THEOREM ApproversAskedOnce == RulesSpec => []EachApproverAskedOncePerTier
<1>1. EngineInv => EachApproverAskedOncePerTier
  <2> SUFFICES ASSUME EngineInv PROVE EachApproverAskedOncePerTier
    OBVIOUS
  <2> USE TiersAssumption
  <2>1. IsFiniteSet(configured) /\ Identified(configured)
    BY DEF EngineInv, Identified
  <2>2. ASSUME NEW total \in Totals, NEW more \in Totals, total <= more
        PROVE  Asked(configured, Spending(total)) \subseteq Asked(configured, Spending(more))
    <3>1. Tripped(configured, Spending(total)) \subseteq Tripped(configured, Spending(more))
      BY <2>2 DEF Tripped, ruleMatches, Spending, EngineInv
    <3>2. QED
      BY <2>1, <3>1, PlanAsksEachOnce
  <2>3. QED
    BY <2>1, <2>2, PlanAsksEachOnce DEF EachApproverAskedOncePerTier, Tripped
<1>2. QED
  BY <1>1, EngineAlways, PTL

\* However the steps are answered, the engine walks the tiers upwards: one
\* refusal ends the round, one request for changes pauses it, and otherwise
\* the open tier is the lowest that has a step to decide.
THEOREM TiersAreWalked == RulesSpec => []ProgressIsHierarchical
<1>1. EngineInv => ProgressIsHierarchical
  BY EngineAnswers DEF EngineInv, ProgressIsHierarchical
<1>2. QED
  BY <1>1, EngineAlways, PTL
=============================================================================
