--------------------------- MODULE OrderLifecycle ---------------------------
(***************************************************************************)
(* Orders and the warehouse shelves they draw on: placement, the status    *)
(* changes of orders.service.ts, the reservations of stock.service.ts, and *)
(* the adjustments and stocktakes of products.service.ts.                  *)
(*                                                                         *)
(* The database runs each transaction at READ COMMITTED.  changeStatus,    *)
(* adjustStock and reconcileStock READ in one transaction and WRITE in     *)
(* another, so each of them is two kinds of step here, with whatever other *)
(* requests do in between; what the request read is kept in `request` or   *)
(* `clerk`.  A write transaction is one step: its statements hold the row  *)
(* locks they take until it commits, and a statement that fails rolls all  *)
(* of it back.                                                             *)
(***************************************************************************)
EXTENDS Integers, FiniteSets, Functions, OrderStatus

CONSTANTS
  Orders,        \* baskets: one order each, by the unique index on cartId
  Shelves,       \* rows that carry stock: products and product variants
  Variants,      \* the shelves that are variants, which are always tracked
  Lines,         \* Lines[o][s]: units of shelf s on order o, 0 when none
  OpeningStock,  \* stockOnHand of each shelf at the start
  Untracked,     \* products created with trackInventory off
  Retrackable,   \* products whose trackInventory an administrator edits
  Requests,      \* status-change requests that can be in flight at once
  Clerks,        \* warehouse requests that can be in flight at once
  Deltas,        \* signed movements a clerk may enter
  MaxOnHand      \* bound on stockOnHand and on counted quantities

ASSUME LinesAssumption ==
  Lines \in [Orders -> [Shelves -> Nat]]

ASSUME StockAssumption ==
  /\ OpeningStock \in [Shelves -> Nat]
  /\ MaxOnHand \in Nat
  /\ Deltas \subseteq Int

ASSUME ShelfAssumption ==
  /\ Variants \subseteq Shelves
  /\ Untracked \subseteq Shelves \ Variants
  /\ Retrackable \subseteq Shelves \ Variants

VARIABLES
  status,      \* order.status, "UNPLACED" before the order row exists
  stockState,  \* order.stockState
  onHand,      \* stockOnHand
  reserved,    \* stockReserved
  tracked,     \* trackInventory
  request,     \* what each status change in flight has read
  clerk        \* what each warehouse request in flight has read

orderVars == <<status, stockState>>
shelfVars == <<onHand, reserved, tracked>>
vars == <<status, stockState, onHand, reserved, tracked, request, clerk>>

Unplaced == "UNPLACED"
Idle == [op |-> "idle"]

StockState == {"NONE", "RESERVED", "CONSUMED", "RELEASED"}

ChangeRequest ==
  [op : {"change"}, order : Orders, from : Status, to : Status, held : BOOLEAN]

AdjustRequest == [op : {"adjust"}, shelf : Shelves, delta : Deltas]

StocktakeRequest ==
  [op : {"stocktake"}, rows : SUBSET Shelves, counted : [Shelves -> Nat],
   seenOnHand : [Shelves -> Nat], seenReserved : [Shelves -> Nat],
   seenTracked : [Shelves -> BOOLEAN]]

TypeOK ==
  /\ status \in [Orders -> Status \cup {Unplaced}]
  /\ stockState \in [Orders -> StockState]
  /\ onHand \in [Shelves -> Nat]
  /\ reserved \in [Shelves -> Nat]
  /\ tracked \in [Shelves -> BOOLEAN]
  /\ request \in [Requests -> ChangeRequest \cup {Idle}]
  /\ clerk \in [Clerks -> AdjustRequest \cup StocktakeRequest \cup {Idle}]

Init ==
  /\ status = [o \in Orders |-> Unplaced]
  /\ stockState = [o \in Orders |-> "NONE"]
  /\ onHand = OpeningStock
  /\ reserved = [s \in Shelves |-> 0]
  /\ tracked = [s \in Shelves |-> s \notin Untracked]
  /\ request = [r \in Requests |-> Idle]
  /\ clerk = [c \in Clerks |-> Idle]

-----------------------------------------------------------------------------
(***************************************************************************)
(* StockService.  Several lines of one order on the same shelf are summed  *)
(* in Lines: the statements run one after another on a locked row, and     *)
(* taking, or flooring at zero, in turn comes to the same as in total.     *)
(***************************************************************************)

\* GREATEST(0, n)
FloorOff(n) == n                                     \* mutant: no GREATEST
Floor(n) == IF n < 0 THEN 0 ELSE n

\* The units order o moves on shelf s: none when the product is not tracked.
Moved(o, s) == IF tracked[s] THEN Lines[o][s] ELSE 0

\* The guard `take` carries in its WHERE clause, for every line of the order.
CanReserve(o) ==
  \A s \in Shelves : Moved(o, s) > 0 => onHand[s] - reserved[s] >= Moved(o, s)

Reserve(o) ==
  /\ CanReserve(o)
  /\ reserved' = [s \in Shelves |-> reserved[s] + Moved(o, s)]
  /\ UNCHANGED onHand

\* Whether anything was held, over all of the order's lines.
HoldsEveryLine(o) ==                                 \* mutant: and for or
  \A s \in Shelves : Lines[o][s] > 0 => Moved(o, s) > 0
Holds(o) == \E s \in Shelves : Moved(o, s) > 0

Release(o) ==
  /\ reserved' = [s \in Shelves |-> Floor(reserved[s] - Moved(o, s))]
  /\ UNCHANGED onHand

ConsumeShelfOnly(o) ==                               \* mutant: keeps the hold
  /\ onHand' = [s \in Shelves |-> Floor(onHand[s] - Moved(o, s))]
  /\ UNCHANGED reserved
Consume(o) ==
  /\ onHand' = [s \in Shelves |-> Floor(onHand[s] - Moved(o, s))]
  /\ reserved' = [s \in Shelves |-> Floor(reserved[s] - Moved(o, s))]

-----------------------------------------------------------------------------
(***************************************************************************)
(* OrdersService.                                                          *)
(***************************************************************************)

\* The placement transaction: the order row and the reservation commit
\* together or not at all, and the unique cartId refuses a second submission.
\* needsApproval is what the approval rules or the account threshold answer.
Place(o, needsApproval) ==
  /\ status[o] = Unplaced
  /\ Reserve(o)
  /\ stockState' = [stockState EXCEPT ![o] = IF Holds(o) THEN "RESERVED" ELSE "NONE"]
  /\ status' = [status EXCEPT ![o] =
                  IF needsApproval THEN "PENDING_APPROVAL" ELSE "APPROVED"]
  /\ UNCHANGED <<tracked, request, clerk>>

\* changeStatus up to its checks: the order is read, and assertTransition is
\* answered from what was read.
ReadForChangeUnchecked(r, o, to) ==                  \* mutant: no assertion
  /\ request[r] = Idle
  /\ status[o] # Unplaced
  /\ request' = [request EXCEPT ![r] =
       [op |-> "change", order |-> o, from |-> status[o], to |-> to,
        held |-> stockState[o] = "RESERVED"]]
  /\ UNCHANGED <<orderVars, shelfVars, clerk>>
ReadForChange(r, o, to) ==
  /\ request[r] = Idle
  /\ status[o] # Unplaced
  /\ canTransition(status[o], to)
  /\ request' = [request EXCEPT ![r] =
       [op |-> "change", order |-> o, from |-> status[o], to |-> to,
        held |-> stockState[o] = "RESERVED"]]
  /\ UNCHANGED <<orderVars, shelfVars, clerk>>

\* What the shelf and the order's stockState do when a status is written.
\* `held` is the stockState check, made on the order as it was read.
MoveStockKeepOnReject(o, to, held) ==                \* mutant: no release
  CASE held /\ to = "DISPATCHED" ->
         Consume(o) /\ stockState' = [stockState EXCEPT ![o] = "CONSUMED"]
    [] held /\ to = "CANCELLED" ->
         Release(o) /\ stockState' = [stockState EXCEPT ![o] = "RELEASED"]
    [] OTHER -> UNCHANGED <<onHand, reserved, stockState>>
MoveStock(o, to, held) ==
  \/ /\ held /\ to = "DISPATCHED"
     /\ Consume(o)
     /\ stockState' = [stockState EXCEPT ![o] = "CONSUMED"]
  \/ /\ held /\ to \in {"REJECTED", "CANCELLED"}
     /\ Release(o)
     /\ stockState' = [stockState EXCEPT ![o] = "RELEASED"]
  \/ /\ ~(held /\ to \in {"DISPATCHED", "REJECTED", "CANCELLED"})
     /\ UNCHANGED <<onHand, reserved, stockState>>

\* The write transaction of changeStatus.  The order is updated by id alone;
\* the timeline row written with it is <<request[r].from, request[r].to>>.
CommitChange(r) ==
  /\ request[r] # Idle
  /\ LET o == request[r].order
         to == request[r].to
     IN  /\ status' = [status EXCEPT ![o] = to]
         /\ MoveStock(o, to, request[r].held)
  /\ request' = [request EXCEPT ![r] = Idle]
  /\ UNCHANGED <<tracked, clerk>>

\* The caller lacks the permission, or the process stops before the write.
AbandonChange(r) ==
  /\ request[r] # Idle
  /\ request' = [request EXCEPT ![r] = Idle]
  /\ UNCHANGED <<orderVars, shelfVars, clerk>>

-----------------------------------------------------------------------------
(***************************************************************************)
(* ProductsService: the warehouse's own writes.                            *)
(***************************************************************************)

\* The CHECK constraint stockReserved <= stockOnHand, for a write of n to s.
CheckNonNegative(s, n) == 0 <= n                     \* mutant: the CHECK dropped
CheckConstraintHolds(s, n) == reserved[s] <= n

\* adjustStock up to the guard that reads the shelf.
BeginAdjust(c, s, d) ==
  /\ clerk[c] = Idle
  /\ tracked[s]
  /\ onHand[s] + d >= 0
  /\ clerk' = [clerk EXCEPT ![c] = [op |-> "adjust", shelf |-> s, delta |-> d]]
  /\ UNCHANGED <<orderVars, shelfVars, request>>

\* The atomic increment, or the constraint's refusal of it.
CommitAdjust(c) ==
  /\ clerk[c].op = "adjust"
  /\ LET s == clerk[c].shelf
         n == onHand[s] + clerk[c].delta
     IN  /\ n <= MaxOnHand
         /\ onHand' = IF CheckConstraintHolds(s, n)
                        THEN [onHand EXCEPT ![s] = n] ELSE onHand
  /\ clerk' = [clerk EXCEPT ![c] = Idle]
  /\ UNCHANGED <<orderVars, reserved, tracked, request>>

\* reconcileStock reads every counted product at once.
BeginStocktake(c, rows, counted) ==
  /\ clerk[c] = Idle
  /\ \A s \in Shelves \ rows : counted[s] = 0
  /\ clerk' = [clerk EXCEPT ![c] =
       [op |-> "stocktake", rows |-> rows, counted |-> counted,
        seenOnHand |-> onHand, seenReserved |-> reserved, seenTracked |-> tracked]]
  /\ UNCHANGED <<orderVars, shelfVars, request>>

\* Rows not tracked, below what is reserved, or matching are reported only.
RowIsWritten(k, s) ==
  /\ k.seenTracked[s]
  /\ k.counted[s] >= k.seenReserved[s]
  /\ k.counted[s] # k.seenOnHand[s]

AfterRow(k, s) ==
  IF k.rows = {s} THEN Idle ELSE [k EXCEPT !.rows = @ \ {s}]

\* One row of the count, each a write of its own; a refused write throws, and
\* the rows already written stay written.
CountRow(c, s) ==
  /\ clerk[c].op = "stocktake"
  /\ s \in clerk[c].rows
  /\ LET k == clerk[c]
         n == k.counted[s]
     IN  \/ /\ ~RowIsWritten(k, s)
            /\ clerk' = [clerk EXCEPT ![c] = AfterRow(k, s)]
            /\ UNCHANGED onHand
         \/ /\ RowIsWritten(k, s) /\ CheckConstraintHolds(s, n)
            /\ onHand' = [onHand EXCEPT ![s] = n]
            /\ clerk' = [clerk EXCEPT ![c] = AfterRow(k, s)]
         \/ /\ RowIsWritten(k, s) /\ ~CheckConstraintHolds(s, n)
            /\ clerk' = [clerk EXCEPT ![c] = Idle]
            /\ UNCHANGED onHand
  /\ UNCHANGED <<orderVars, reserved, tracked, request>>

\* A clerk's process stops between two of its steps.
AbandonClerk(c) ==
  /\ clerk[c] # Idle
  /\ clerk' = [clerk EXCEPT ![c] = Idle]
  /\ UNCHANGED <<orderVars, shelfVars, request>>

\* update(): trackInventory is an ordinary field of a product.
SetTracking(s) ==
  /\ s \in Retrackable
  /\ tracked' = [tracked EXCEPT ![s] = ~tracked[s]]
  /\ UNCHANGED <<orderVars, onHand, reserved, request, clerk>>

-----------------------------------------------------------------------------
OrderStep ==
  \/ \E o \in Orders, needsApproval \in BOOLEAN : Place(o, needsApproval)
  \/ \E r \in Requests, o \in Orders, to \in Status : ReadForChange(r, o, to)
  \/ \E r \in Requests : CommitChange(r)
  \/ \E r \in Requests : AbandonChange(r)

\* Only products are counted: reconcileStock looks rows up by product SKU.
WarehouseStep ==
  \/ \E c \in Clerks, s \in Shelves, d \in Deltas : BeginAdjust(c, s, d)
  \/ \E c \in Clerks : CommitAdjust(c)
  \/ \E c \in Clerks, rows \in SUBSET (Shelves \ Variants) \ {{}} :
       \E counted \in [Shelves -> 0..MaxOnHand] : BeginStocktake(c, rows, counted)
  \/ \E c \in Clerks, s \in Shelves : CountRow(c, s)
  \/ \E c \in Clerks : AbandonClerk(c)
  \/ \E s \in Shelves : SetTracking(s)

Next == OrderStep \/ WarehouseStep

Spec == Init /\ [][Next]_vars

-----------------------------------------------------------------------------
(***************************************************************************)
(* What must hold however requests interleave.                             *)
(***************************************************************************)

\* No shelf promises more than it holds (the invariant the reservation
\* migration calls "the one that matters"): the conditional UPDATE of `take`,
\* the floors of release and consume, and the CHECK behind the two warehouse
\* writes keep it, although both of those decide on a count read earlier.
ShelfNeverOversold == \A s \in Shelves : reserved[s] <= onHand[s]

\* An order that has shipped, been refused or been cancelled through
\* changeStatus no longer holds stock, even when the request that wrote its
\* status read the order long before other requests changed it.
Settled == {"DISPATCHED", "DELIVERED", "REJECTED", "CANCELLED"}
NoStrandedHold ==
  \A o \in Orders : status[o] \in Settled => stockState[o] # "RESERVED"

\* Shelves whose trackInventory nobody edits: release and consume then look at
\* the same setting as the placement did.
SteadyShelves == Shelves \ Retrackable

\* The units that orders with a live reservation hold on shelf s.
Owed(s) ==
  IF s \in Untracked THEN 0
  ELSE SumFunction([o \in {p \in Orders : stockState[p] = "RESERVED"} |-> Lines[o][s]])

\* Nothing is set aside that no order is owed: whatever stale write releases
\* or ships an order a second time, a shelf never keeps units back for an
\* order that no longer holds them.
NothingHeldForNobody == \A s \in SteadyShelves : reserved[s] <= Owed(s)

-----------------------------------------------------------------------------
(***************************************************************************)
(* What the lifecycle promises when an order's changes are made one at a   *)
(* time.  With a second request in flight each of these is broken.         *)
(***************************************************************************)

Contract == INSTANCE OrderContract

\* Every run of the code, seen through the order's status and stock state, is
\* a run of the contract: placed once, along the table, hold settled once.
KeepsContract == Contract!Spec

\* What a shelf keeps back is exactly what orders with a live reservation
\* hold: the release and the consumption undo the placement's take.
ReservedMatchesOrders == \A s \in SteadyShelves : reserved[s] = Owed(s)

\* DELIVERED, REJECTED and CANCELLED are terminal (order-status.ts:49).
TerminalIsFinal ==
  [][\A o \in Orders : status[o] \in TERMINAL_STATUSES => status'[o] = status[o]]_vars
=============================================================================
