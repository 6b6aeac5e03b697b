------------------------------ MODULE Checkout ------------------------------
(***************************************************************************)
(* Baskets becoming orders: cart.service.ts, and place() of                *)
(* orders.service.ts from the basket's side, under the branch's budget.    *)
(*                                                                         *)
(* Every handler resolves the buyer's open basket first, in a transaction  *)
(* of its own, and writes later by the ids it was given; what it has read  *)
(* is kept in `task`.  A buyer with two tabs has two requests in flight.   *)
(* All orders fall in one billing period.  Baskets without a branch, which *)
(* cannot be ordered, are left out, and so are availability and purchase   *)
(* order checks, which can only refuse a checkout (Abandon).               *)
(***************************************************************************)
EXTENDS Integers, FiniteSets, Functions

CONSTANTS
  Buyers, Branches,
  BranchesOf,     \* the branches each buyer may order for
  Products,
  Moq, Multiple,  \* of each product
  Price,          \* of a unit of each product
  Cap,            \* monthlyBudget of each branch
  NoCap,          \* its null
  Baskets,        \* ids of cart rows
  Lines,          \* ids of cart line rows
  Orders,         \* ids of order rows
  Requests,       \* requests that can be in flight at once
  MaxQuantity     \* bound on the quantity of a line

ASSUME BuyersAssumption == BranchesOf \in [Buyers -> SUBSET Branches]

ASSUME ProductsAssumption ==
  /\ Moq \in [Products -> Nat \ {0}]
  /\ Multiple \in [Products -> Nat \ {0}]
  /\ Price \in [Products -> Nat]

ASSUME BudgetAssumption ==
  /\ Cap \in [Branches -> Nat \cup {NoCap}]
  /\ NoCap \notin Nat
  /\ MaxQuantity \in Nat

VARIABLES
  basket,  \* the cart rows
  line,    \* the cart line rows
  order,   \* the order rows
  task     \* what each request in flight has read

vars == <<basket, line, order, task>>

Idle == [op |-> "idle"]
None == [status |-> "ABSENT"]

Basket ==
  [buyer : Buyers, branch : Branches, status : {"OPEN", "CHECKED_OUT"}, ready : BOOLEAN]

\* A "plain" line carries neither customisation nor a template.
Kind == {"plain", "personal"}
Line == [basket : Baskets, product : Products, quantity : Nat \ {0}, kind : Kind]

\* "COMMITTED" stands for the COMMITTED_STATUSES, "DROPPED" for the refused
\* and the cancelled.
Order ==
  [basket : Baskets, branch : Branches, status : {"COMMITTED", "DROPPED"}, total : Nat]

OnBasket == {"add", "clear", "details"}

Task ==
  {Idle}
    \cup [op : {"creating"}, buyer : Buyers, branch : Branches, want : OnBasket]
    \cup [op : OnBasket, basket : Baskets]
    \cup [op : {"insert"}, row : Line]
    \cup [op : {"write"}, lines : SUBSET Lines, quantity : [Lines -> Nat],
          kind : Kind \cup {"kept"}]
    \cup [op : {"remove"}, line : Lines]
    \cup [op : {"priced", "checked"}, basket : Baskets, total : Nat]

CheckoutTypeOK ==
  /\ basket \in [Baskets -> Basket \cup {None}]
  /\ line \in [Lines -> Line \cup {None}]
  /\ order \in [Orders -> Order \cup {None}]
  /\ task \in [Requests -> Task]

Init ==
  /\ basket = [b \in Baskets |-> None]
  /\ line = [l \in Lines |-> None]
  /\ order = [o \in Orders |-> None]
  /\ task = [r \in Requests |-> Idle]

-----------------------------------------------------------------------------
LinesOf(b) == {l \in Lines : line[l] # None /\ line[l].basket = b}

\* Steps are counted from the minimum, not from zero.
roundToOrderable(quantity, moq, multiple) ==
  LET atLeastMoq == IF quantity < moq THEN moq ELSE quantity
      stepsAbove == (atLeastMoq - moq + multiple - 1) \div multiple
  IN  moq + stepsAbove * multiple

Orderable(l) ==
  roundToOrderable(line[l].quantity, Moq[line[l].product], Multiple[line[l].product])

\* Priced at the quantities that would be ordered, not those typed.
Subtotal(b) == SumFunction([l \in LinesOf(b) |-> Orderable(l) * Price[line[l].product]])

\* The committed spend of a branch.
Spent(branch) ==
  LET counted == {o \in Orders : /\ order[o] # None
                                 /\ order[o].branch = branch
                                 /\ order[o].status = "COMMITTED"}
  IN  SumFunction([o \in counted |-> order[o].total])

\* evaluateBudget: a basket that lands exactly on the cap is within it.
wouldExceedAlone(cap, spent, total) ==               \* mutant: spend not added
  cap # NoCap /\ total > cap
wouldExceed(cap, spent, total) == cap # NoCap /\ spent + total > cap

-----------------------------------------------------------------------------
(***************************************************************************)
(* openCart: find the buyer's open basket for the branch, or create one.   *)
(* Every handler calls it once more to answer with, and a checkout that    *)
(* finds no basket creates an empty one and is refused: both are an Open   *)
(* that is then abandoned.                                                 *)
(***************************************************************************)
OpenBaskets(buyer, branch) ==
  {b \in Baskets : /\ basket[b] # None
                   /\ basket[b].buyer = buyer
                   /\ basket[b].branch = branch
                   /\ basket[b].status = "OPEN"}

Open(r, buyer, branch, want) ==
  /\ task[r] = Idle
  /\ branch \in BranchesOf[buyer]
  /\ IF OpenBaskets(buyer, branch) = {}
       THEN task' = [task EXCEPT ![r] =
              [op |-> "creating", buyer |-> buyer, branch |-> branch, want |-> want]]
       ELSE \E b \in OpenBaskets(buyer, branch) :
              task' = [task EXCEPT ![r] = [op |-> want, basket |-> b]]
  /\ UNCHANGED <<basket, line, order>>

\* The partial unique index on open baskets, for an insert.
BasketSlotAlwaysFree(buyer, branch) == TRUE          \* mutant: the index dropped
BasketSlotFree(buyer, branch) == OpenBaskets(buyer, branch) = {}

CreateBasket(r) ==
  /\ task[r].op = "creating"
  /\ LET k == task[r]
     IN  \/ /\ ~BasketSlotFree(k.buyer, k.branch)
            /\ task' = [task EXCEPT ![r] = Idle]
            /\ UNCHANGED basket
         \/ /\ BasketSlotFree(k.buyer, k.branch)
            /\ \E b \in {c \in Baskets : basket[c] = None} :
                 /\ basket' = [basket EXCEPT ![b] =
                      [buyer |-> k.buyer, branch |-> k.branch, status |-> "OPEN",
                       ready |-> FALSE]]
                 /\ task' = [task EXCEPT ![r] = [op |-> k.want, basket |-> b]]
  /\ UNCHANGED <<line, order>>

-----------------------------------------------------------------------------
(***************************************************************************)
(* Lines.                                                                  *)
(***************************************************************************)

\* Lines to be written by id. A quantity of 0, and "kept", leave what is there.
Write(written, quantity, kind) ==
  [op |-> "write", lines |-> written, kind |-> kind,
   quantity |-> [l \in Lines |-> IF l \in written THEN quantity[l] ELSE 0]]

\* addLine's first statement: a plain line merges into a plain line of its
\* product, whose new quantity is computed from this reading.
FindMergeable(r, p, q, kind) ==
  /\ task[r].op = "add"
  /\ LET b == task[r].basket
         mergeable == {l \in LinesOf(b) : /\ kind = "plain"
                                          /\ line[l].kind = "plain"
                                          /\ line[l].product = p}
     IN  IF mergeable = {}
           THEN task' = [task EXCEPT ![r] =
                  [op |-> "insert",
                   row |-> [basket |-> b, product |-> p, quantity |-> q, kind |-> kind]]]
           ELSE \E l \in mergeable :
                  /\ line[l].quantity + q <= MaxQuantity
                  /\ task' = [task EXCEPT ![r] = 
                       Write({l}, [m \in {l} |-> line[l].quantity + q], "kept")]
  /\ UNCHANGED <<basket, line, order>>

InsertLine(r) ==
  /\ task[r].op = "insert"
  /\ \E l \in {m \in Lines : line[m] = None} :
       line' = [line EXCEPT ![l] = task[r].row]
  /\ task' = [task EXCEPT ![r] = Idle]
  /\ UNCHANGED <<basket, order>>

\* requireOwnedLine, for the buyer whose basket it is.
LineIsEditable(l) == line[l] # None /\ basket[line[l].basket].status = "OPEN"

\* A PATCH may change the quantity, the personalisation, or both.
BeginUpdateLine(r, l, q, kind) ==
  /\ task[r] = Idle
  /\ LineIsEditable(l)
  /\ task' = [task EXCEPT ![r] = Write({l}, [m \in {l} |-> q], kind)]
  /\ UNCHANGED <<basket, line, order>>

BeginRemoveLine(r, l) ==
  /\ task[r] = Idle
  /\ LineIsEditable(l)
  /\ task' = [task EXCEPT ![r] = [op |-> "remove", line |-> l]]
  /\ UNCHANGED <<basket, line, order>>

\* normaliseQuantities: the lines to round, and to what.
BeginNormalise(r, buyer, branch) ==
  /\ task[r] = Idle
  /\ \E b \in OpenBaskets(buyer, branch) :
       LET adjusted == {l \in LinesOf(b) : Orderable(l) # line[l].quantity}
       IN  /\ adjusted # {}
           /\ task' = [task EXCEPT ![r] =
                Write(adjusted, [l \in adjusted |-> Orderable(l)], "kept")]
  /\ UNCHANGED <<basket, line, order>>

Written(l, k) ==
  [line[l] EXCEPT !.quantity = IF k.quantity[l] = 0 THEN @ ELSE k.quantity[l],
                  !.kind = IF k.kind = "kept" THEN @ ELSE k.kind]

\* In one transaction; an update that finds no row throws.
WriteLines(r) ==
  /\ task[r].op = "write"
  /\ LET k == task[r]
     IN  line' = IF \A l \in k.lines : line[l] # None
                   THEN [l \in Lines |-> IF l \in k.lines THEN Written(l, k) ELSE line[l]]
                   ELSE line
  /\ task' = [task EXCEPT ![r] = Idle]
  /\ UNCHANGED <<basket, order>>

RemoveLine(r) ==
  /\ task[r].op = "remove"
  /\ line' = [line EXCEPT ![task[r].line] = None]
  /\ task' = [task EXCEPT ![r] = Idle]
  /\ UNCHANGED <<basket, order>>

Clear(r) ==
  /\ task[r].op = "clear"
  /\ line' = [l \in Lines |-> IF l \in LinesOf(task[r].basket) THEN None ELSE line[l]]
  /\ task' = [task EXCEPT ![r] = Idle]
  /\ UNCHANGED <<basket, order>>

\* setDetails: the checkout details are complete, or no longer so.
SetDetails(r, ready) ==
  /\ task[r].op = "details"
  /\ basket' = [basket EXCEPT ![task[r].basket].ready = ready]
  /\ task' = [task EXCEPT ![r] = Idle]
  /\ UNCHANGED <<line, order>>

-----------------------------------------------------------------------------
(***************************************************************************)
(* place: checkoutSession reads and prices the basket, then sums what the  *)
(* branch has committed; the placement transaction writes the order from   *)
(* that session and closes the basket.                                     *)
(***************************************************************************)
BeginPlace(r, buyer, branch) ==
  /\ task[r] = Idle
  /\ \E b \in OpenBaskets(buyer, branch) :
       /\ basket[b].ready
       /\ LinesOf(b) # {}
       /\ task' = [task EXCEPT ![r] =
            [op |-> "priced", basket |-> b, total |-> Subtotal(b)]]
  /\ UNCHANGED <<basket, line, order>>

CheckBudget(r) ==
  /\ task[r].op = "priced"
  /\ LET k == task[r]
         branch == basket[k.basket].branch
     IN  task' = [task EXCEPT ![r] =
           IF wouldExceed(Cap[branch], Spent(branch), k.total)
             THEN Idle
             ELSE [op |-> "checked", basket |-> k.basket, total |-> k.total]]
  /\ UNCHANGED <<basket, line, order>>

\* The unique index on orders.cartId, for an insert.
BasketAlwaysUnordered(b) == TRUE                     \* mutant: the index dropped
BasketUnordered(b) == \A o \in Orders : order[o] # None => order[o].basket # b

CommitPlace(r) ==
  /\ task[r].op = "checked"
  /\ LET b == task[r].basket
     IN  \/ /\ ~BasketUnordered(b)
            /\ UNCHANGED <<basket, order>>
         \/ /\ BasketUnordered(b)
            /\ \E o \in {p \in Orders : order[p] = None} :
                 order' = [order EXCEPT ![o] =
                   [basket |-> b, branch |-> basket[b].branch, status |-> "COMMITTED",
                    total |-> task[r].total]]
            /\ basket' = [basket EXCEPT ![b].status = "CHECKED_OUT"]
  /\ task' = [task EXCEPT ![r] = Idle]
  /\ UNCHANGED line

\* The order is refused or cancelled and no longer counts, for good: changeStatus
\* is taken to handle one request of an order at a time here.
DropOrder(o) ==
  /\ order[o] # None
  /\ order[o].status = "COMMITTED"
  /\ order' = [order EXCEPT ![o].status = "DROPPED"]
  /\ UNCHANGED <<basket, line, task>>

\* The process stops, or a check throws: a product that cannot be ordered, a
\* template that was republished, a purchase order number, missing stock.
Abandon(r) ==
  /\ task[r] # Idle
  /\ task' = [task EXCEPT ![r] = Idle]
  /\ UNCHANGED <<basket, line, order>>

-----------------------------------------------------------------------------
LineStep ==
  \/ \E r \in Requests, p \in Products, q \in 1..MaxQuantity, kind \in Kind :
       FindMergeable(r, p, q, kind)
  \/ \E r \in Requests : InsertLine(r)
  \/ \E r \in Requests, l \in Lines, q \in 0..MaxQuantity, kind \in Kind \cup {"kept"} :
       BeginUpdateLine(r, l, q, kind)
  \/ \E r \in Requests, l \in Lines : BeginRemoveLine(r, l)
  \/ \E r \in Requests, buyer \in Buyers, branch \in Branches :
       BeginNormalise(r, buyer, branch)
  \/ \E r \in Requests : WriteLines(r)
  \/ \E r \in Requests : RemoveLine(r)
  \/ \E r \in Requests : Clear(r)

BasketStep ==
  \/ \E r \in Requests, buyer \in Buyers, branch \in Branches, want \in OnBasket :
       Open(r, buyer, branch, want)
  \/ \E r \in Requests : CreateBasket(r)
  \/ \E r \in Requests, ready \in BOOLEAN : SetDetails(r, ready)
  \/ \E r \in Requests, buyer \in Buyers, branch \in Branches : BeginPlace(r, buyer, branch)
  \/ \E r \in Requests : CheckBudget(r)
  \/ \E r \in Requests : CommitPlace(r)
  \/ \E o \in Orders : DropOrder(o)
  \/ \E r \in Requests : Abandon(r)

Next == LineStep \/ BasketStep

Spec == Init /\ [][Next]_vars

-----------------------------------------------------------------------------
\* A buyer never has two open baskets for one branch (the cart migration,
\* carts_one_open_per_user_site), although openCart looks for one and creates
\* one in separate statements.
OneOpenBasket ==
  \A b, c \in Baskets :
    /\ basket[b] # None /\ basket[c] # None
    /\ basket[b].status = "OPEN" /\ basket[c].status = "OPEN"
    /\ basket[b].buyer = basket[c].buyer /\ basket[b].branch = basket[c].branch
    => b = c

\* A basket is history exactly when an order was made from it, and no double
\* submission makes two (orders.cartId is unique), whatever is still in flight
\* on the basket when it closes.
OrderedOnceThenHistory ==
  /\ \A o, p \in Orders :
       order[o] # None /\ order[p] # None /\ order[o].basket = order[p].basket => o = p
  /\ \A b \in Baskets : basket[b] # None =>
       (basket[b].status = "CHECKED_OUT"
          <=> \E o \in Orders : order[o] # None /\ order[o].basket = b)

\* While each branch has one buyer its budget holds, however many checkouts
\* that buyer has in flight and although the spend is summed before, and
\* outside, the transaction that commits to it: a second checkout can only be
\* of the same basket, which is ordered once, or of one opened after the first
\* order was written.  Two buyers of a branch break it.
WithinBudget ==
  \A branch \in Branches : Cap[branch] # NoCap => Spent(branch) <= Cap[branch]
=============================================================================
