--------------------------- MODULE CheckoutProofs ---------------------------
(***************************************************************************)
(* Baskets are unique while open and ordered at most once, for any number  *)
(* of buyers, branches, baskets, orders and requests in flight; what is    *)
(* written has its type, and a branch whose baskets are one buyer's keeps  *)
(* to its budget.                                                          *)
(***************************************************************************)
EXTENDS Checkout, Sums

IsTable(f, rows) == f = [x \in rows |-> f[x]]

OrderRow(total) ==
  [basket : Baskets, branch : Branches, status : {"COMMITTED", "DROPPED"},
   total : {total}]

(***************************************************************************)
(* What every reachable state is like, as far as baskets and orders go.    *)
(* Totals and lines are left open here: they have an invariant of their    *)
(* own below, which rests on this one.                                     *)
(***************************************************************************)
NeedsBasket == OnBasket \cup {"priced", "checked"}

TaskRefers(k) ==
  /\ k.op = "creating" => k.buyer \in Buyers /\ k.branch \in Branches /\ k.want \in OnBasket
  /\ k.op \in NeedsBasket => k.basket \in Baskets /\ basket[k.basket] # None

Shape ==
  /\ basket \in [Baskets -> Basket \cup {None}]
  /\ IsTable(order, Orders)
  /\ IsTable(task, Requests)
  /\ \A o \in Orders : order[o] # None =>
       order[o] \in OrderRow(order[o].total) /\ basket[order[o].basket] # None
  /\ \A r \in Requests : TaskRefers(task[r])

LEMMA BasketIsPresent == ASSUME NEW x \in Basket PROVE x # None
  BY DEF Basket, None

LEMMA BasketRow ==
  ASSUME Shape, NEW b \in Baskets, basket[b] # None
  PROVE  basket[b] \in Basket
  BY DEF Shape

\* Only request r moves on.
OnlyTask(r) ==
  /\ IsTable(task, Requests)'
  /\ \A q \in Requests \ {r} : task'[q] = task[q]

LEMMA OneTask ==
  ASSUME IsTable(task, Requests), NEW r \in Requests, NEW k,
         task' = [task EXCEPT ![r] = k]
  PROVE  OnlyTask(r) /\ task'[r] = k
  BY DEF OnlyTask, IsTable

\* A step that writes neither baskets nor orders keeps the shape when what the
\* request now holds refers to rows that exist.
LEMMA TaskStep ==
  ASSUME Shape, NEW r \in Requests, OnlyTask(r), TaskRefers(task'[r]),
         UNCHANGED <<basket, order>>
  PROVE  Shape'
<1>1. \A q \in Requests : TaskRefers(task[q])'
  BY DEF Shape, TaskRefers, OnlyTask
<1> QED
  BY <1>1 DEF Shape, IsTable, OnlyTask

LEMMA IdleOp == Idle.op = "idle"
  BY DEF Idle

LineOps == {"idle", "insert", "write", "remove"}

LEMMA LineOpRefers == ASSUME NEW k, k.op \in LineOps PROVE TaskRefers(k)
  BY DEF TaskRefers, LineOps, NeedsBasket, OnBasket

\* What a request that works on lines does, as far as its task goes.
LEMMA LineStepTask ==
  ASSUME Shape, LineStep
  PROVE  \E r \in Requests : OnlyTask(r) /\ task'[r].op \in LineOps
<1> USE DEF LineOps
<1>0. IsTable(task, Requests)
  BY DEF Shape
<1>1. ASSUME NEW r \in Requests, NEW p \in Products, NEW q \in 1..MaxQuantity, NEW kind \in Kind,
             FindMergeable(r, p, q, kind)
      PROVE  OnlyTask(r) /\ task'[r].op \in LineOps
  BY <1>0, <1>1 DEF FindMergeable, Write, OnlyTask, IsTable
<1>2. ASSUME NEW r \in Requests, NEW l \in Lines, NEW q \in 0..MaxQuantity,
             NEW kind \in Kind \cup {"kept"}, BeginUpdateLine(r, l, q, kind)
      PROVE  OnlyTask(r) /\ task'[r].op \in LineOps
  BY <1>0, <1>2 DEF BeginUpdateLine, Write, OnlyTask, IsTable
<1>3. ASSUME NEW r \in Requests, NEW l \in Lines, BeginRemoveLine(r, l)
      PROVE  OnlyTask(r) /\ task'[r].op \in LineOps
  BY <1>0, <1>3 DEF BeginRemoveLine, OnlyTask, IsTable
<1>4. ASSUME NEW r \in Requests, NEW buyer \in Buyers, NEW branch \in Branches,
             BeginNormalise(r, buyer, branch)
      PROVE  OnlyTask(r) /\ task'[r].op \in LineOps
  <2>1. PICK b \in OpenBaskets(buyer, branch) :
          LET adjusted == {l \in LinesOf(b) : Orderable(l) # line[l].quantity}
          IN  task' = [task EXCEPT ![r] =
                Write(adjusted, [l \in adjusted |-> Orderable(l)], "kept")]
    BY <1>4, Zenon DEF BeginNormalise
  <2> DEFINE adjusted == {l \in LinesOf(b) : Orderable(l) # line[l].quantity}
             k == Write(adjusted, [l \in adjusted |-> Orderable(l)], "kept")
  <2>2. k.op = "write"
    BY DEF Write
  <2>3. task' = [task EXCEPT ![r] = k]
    BY <2>1
  <2> HIDE DEF k
  <2> QED
    BY <1>0, <2>2, <2>3, OneTask
<1>5. ASSUME NEW r \in Requests, InsertLine(r) \/ WriteLines(r) \/ RemoveLine(r) \/ Clear(r)
      PROVE  OnlyTask(r) /\ task'[r].op \in LineOps
  <2>1. task' = [task EXCEPT ![r] = Idle]
    BY <1>5 DEF InsertLine, WriteLines, RemoveLine, Clear
  <2> QED
    BY <1>0, <2>1 DEF OnlyTask, IsTable, Idle
<1> QED
  BY <1>1, <1>2, <1>3, <1>4, <1>5 DEF LineStep

LEMMA LineStepKeeps ==
  ASSUME Shape, LineStep
  PROVE  Shape' /\ UNCHANGED <<basket, order>>
<1>1. PICK r \in Requests : OnlyTask(r) /\ task'[r].op \in LineOps
  BY LineStepTask
<1>2. UNCHANGED <<basket, order>>
  BY DEF LineStep, FindMergeable, InsertLine, BeginUpdateLine, BeginRemoveLine,
         BeginNormalise, WriteLines, RemoveLine, Clear
<1> QED
  BY <1>1, <1>2, LineOpRefers, TaskStep

-----------------------------------------------------------------------------
\* What each step does to the tables of baskets and orders.
NewBasket(b) ==
  /\ basket[b] = None
  /\ \E buyer \in Buyers, branch \in Branches :
       /\ BasketSlotFree(buyer, branch)
       /\ basket' = [basket EXCEPT ![b] =
            [buyer |-> buyer, branch |-> branch, status |-> "OPEN", ready |-> FALSE]]
  /\ UNCHANGED order

Ordered(b) ==
  /\ basket[b] # None
  /\ BasketUnordered(b)
  /\ \E o \in Orders : \E total :
       /\ order[o] = None
       /\ order' = [order EXCEPT ![o] =
            [basket |-> b, branch |-> basket[b].branch, status |-> "COMMITTED",
             total |-> total]]
  /\ basket' = [basket EXCEPT ![b].status = "CHECKED_OUT"]

Details(b) ==
  /\ basket[b] # None
  /\ \E ready \in BOOLEAN : basket' = [basket EXCEPT ![b].ready = ready]
  /\ UNCHANGED order

Dropped(o) ==
  /\ order[o] # None
  /\ order' = [order EXCEPT ![o].status = "DROPPED"]
  /\ UNCHANGED basket

TablesStep ==
  \/ \E b \in Baskets : NewBasket(b) \/ Details(b) \/ Ordered(b)
  \/ \E o \in Orders : Dropped(o)
  \/ UNCHANGED <<basket, order>>

LEMMA RequestsStep ==
  ASSUME Shape, NEW r \in Requests,
         \/ \E buyer \in Buyers, branch \in Branches, want \in OnBasket :
              Open(r, buyer, branch, want)
         \/ \E buyer \in Buyers, branch \in Branches : BeginPlace(r, buyer, branch)
         \/ CheckBudget(r)
         \/ Abandon(r)
  PROVE  Shape' /\ UNCHANGED <<basket, order>>
<1>0. IsTable(task, Requests) /\ TaskRefers(task[r])
  BY DEF Shape
<1>1. ASSUME NEW buyer \in Buyers, NEW branch \in Branches, NEW want \in OnBasket,
             Open(r, buyer, branch, want)
      PROVE  Shape' /\ UNCHANGED <<basket, order>>
  <2>1. OnlyTask(r) /\ UNCHANGED <<basket, order>>
    BY <1>0, <1>1 DEF Open, OnlyTask, IsTable
  <2>2. TaskRefers(task'[r])
    BY <1>0, <1>1 DEF Open, IsTable, OpenBaskets, TaskRefers, OnBasket, NeedsBasket
  <2> QED
    BY <2>1, <2>2, TaskStep
<1>2. ASSUME NEW buyer \in Buyers, NEW branch \in Branches, BeginPlace(r, buyer, branch)
      PROVE  Shape' /\ UNCHANGED <<basket, order>>
  <2>1. PICK b \in OpenBaskets(buyer, branch) :
          task' = [task EXCEPT ![r] =
            [op |-> "priced", basket |-> b, total |-> Subtotal(b)]]
    BY <1>2, Zenon DEF BeginPlace
  <2>2. OnlyTask(r) /\ task'[r] = [op |-> "priced", basket |-> b, total |-> Subtotal(b)]
    BY <1>0, <2>1, OneTask
  <2>3. TaskRefers(task'[r])
    BY <2>2 DEF OpenBaskets, TaskRefers, OnBasket, NeedsBasket
  <2> QED
    BY <1>2, <2>2, <2>3, TaskStep DEF BeginPlace
<1>3. CASE CheckBudget(r)
  <2>1. OnlyTask(r) /\ UNCHANGED <<basket, order>>
    BY <1>0, <1>3 DEF CheckBudget, OnlyTask, IsTable
  <2>2. \/ task'[r] = Idle
        \/ task'[r] = [op |-> "checked", basket |-> task[r].basket, total |-> task[r].total]
    BY <1>0, <1>3 DEF CheckBudget, IsTable
  <2>3. TaskRefers(task'[r])
    BY <1>0, <1>3, <2>2 DEF CheckBudget, TaskRefers, OnBasket, NeedsBasket, Idle
  <2> QED
    BY <2>1, <2>3, TaskStep
<1>4. CASE Abandon(r)
  <2>1. OnlyTask(r) /\ task'[r] = Idle /\ UNCHANGED <<basket, order>>
    BY <1>0, <1>4, OneTask DEF Abandon
  <2> QED
    BY <2>1, LineOpRefers, TaskStep DEF Idle, LineOps
<1> QED
  BY <1>1, <1>2, <1>3, <1>4

\* Rows are kept, so what a request refers to still exists.
LEMMA RefersStill ==
  ASSUME NEW k, TaskRefers(k),
         \A b \in Baskets : basket[b] # None => basket'[b] # None
  PROVE  TaskRefers(k)'
  BY DEF TaskRefers

LEMMA CreateKeeps ==
  ASSUME Shape, NEW r \in Requests, CreateBasket(r)
  PROVE  Shape' /\ TablesStep
<1>0. IsTable(task, Requests) /\ TaskRefers(task[r])
  BY DEF Shape
<1>1. CASE UNCHANGED basket /\ task' = [task EXCEPT ![r] = Idle]
  <2>1. OnlyTask(r) /\ task'[r] = Idle /\ UNCHANGED <<basket, order>>
    BY <1>0, <1>1, OneTask DEF CreateBasket
  <2> QED
    BY <2>1, LineOpRefers, TaskStep DEF Idle, LineOps, TablesStep
<1>2. CASE ~UNCHANGED basket \/ task' # [task EXCEPT ![r] = Idle]
  <2> DEFINE new == [buyer |-> task[r].buyer, branch |-> task[r].branch, status |-> "OPEN",
                     ready |-> FALSE]
  <2>1. PICK b \in Baskets :
          /\ basket[b] = None
          /\ BasketSlotFree(task[r].buyer, task[r].branch)
          /\ basket' = [basket EXCEPT ![b] = new]
          /\ task' = [task EXCEPT ![r] = [op |-> task[r].want, basket |-> b]]
    BY <1>2 DEF CreateBasket
  <2>2. UNCHANGED order
    BY DEF CreateBasket
  <2>3. task[r].buyer \in Buyers /\ task[r].branch \in Branches /\ task[r].want \in OnBasket
    BY <1>0 DEF CreateBasket, TaskRefers
  <2>4. new \in Basket
    BY <2>3 DEF Basket
  <2>5. NewBasket(b)
    BY <2>1, <2>2, <2>3 DEF NewBasket
  <2>6. OnlyTask(r) /\ task'[r] = [op |-> task[r].want, basket |-> b]
    BY <1>0, <2>1, OneTask
  <2>7. /\ basket' \in [Baskets -> Basket \cup {None}]
        /\ basket'[b] # None
        /\ \A c \in Baskets : basket[c] # None => basket'[c] # None
    BY <2>1, <2>4, BasketIsPresent DEF Shape
  <2>8. TaskRefers(task[r])'
    BY <2>3, <2>6, <2>7 DEF TaskRefers, OnBasket, NeedsBasket
  <2>9. \A q \in Requests : TaskRefers(task[q])'
    BY <2>6, <2>7, <2>8, RefersStill DEF Shape, OnlyTask
  <2>10. \A o \in Orders : order[o] # None =>
           order[o] \in OrderRow(order[o].total) /\ basket'[order[o].basket] # None
    BY <2>7 DEF Shape, OrderRow
  <2> QED
    BY <2>2, <2>5, <2>6, <2>7, <2>9, <2>10 DEF Shape, OnlyTask, IsTable, TablesStep, OrderRow
<1> QED
  BY <1>1, <1>2

LEMMA DetailsKeeps ==
  ASSUME Shape, NEW r \in Requests, NEW ready \in BOOLEAN, SetDetails(r, ready)
  PROVE  Shape' /\ TablesStep
<1>0. IsTable(task, Requests) /\ TaskRefers(task[r])
  BY DEF Shape
<1> DEFINE b == task[r].basket
<1>1. b \in Baskets /\ basket[b] # None
  BY <1>0 DEF SetDetails, TaskRefers, OnBasket, NeedsBasket
<1>2. Details(b)
  BY <1>1 DEF SetDetails, Details
<1>3. [basket[b] EXCEPT !.ready = ready] \in Basket
  BY <1>1, BasketRow DEF Basket
<1>4. /\ basket' \in [Baskets -> Basket \cup {None}]
      /\ \A c \in Baskets : basket[c] # None => basket'[c] # None
  BY <1>1, <1>3, BasketIsPresent DEF Shape, SetDetails
<1>5. OnlyTask(r) /\ task'[r] = Idle /\ UNCHANGED order
  BY <1>0, OneTask DEF SetDetails
<1>6. TaskRefers(task[r])'
  BY <1>5, IdleOp DEF TaskRefers, OnBasket, NeedsBasket
<1>7. \A q \in Requests : TaskRefers(task[q])'
  BY <1>4, <1>5, <1>6, RefersStill DEF Shape, OnlyTask
<1>8. \A o \in Orders : order[o] # None =>
        order[o] \in OrderRow(order[o].total) /\ basket'[order[o].basket] # None
  BY <1>4 DEF Shape, OrderRow
<1> QED
  BY <1>1, <1>2, <1>4, <1>5, <1>7, <1>8 DEF Shape, OnlyTask, IsTable, TablesStep, OrderRow

LEMMA CommitPlaceKeeps ==
  ASSUME Shape, NEW r \in Requests, CommitPlace(r)
  PROVE  Shape' /\ TablesStep
<1>0. IsTable(task, Requests) /\ IsTable(order, Orders) /\ TaskRefers(task[r])
  BY DEF Shape
<1> DEFINE b == task[r].basket
           row == [basket |-> b, branch |-> basket[b].branch, status |-> "COMMITTED",
                   total |-> task[r].total]
<1>1. b \in Baskets /\ basket[b] # None
  BY <1>0 DEF CommitPlace, TaskRefers, NeedsBasket
<1>2. OnlyTask(r) /\ task'[r] = Idle
  BY <1>0, OneTask DEF CommitPlace
<1>3. CASE UNCHANGED <<basket, order>>
  BY <1>2, <1>3, LineOpRefers, TaskStep DEF Idle, LineOps, TablesStep
<1>4. CASE ~UNCHANGED <<basket, order>>
  <2>1. PICK o \in Orders :
          /\ order[o] = None
          /\ order' = [order EXCEPT ![o] = row]
          /\ basket' = [basket EXCEPT ![b].status = "CHECKED_OUT"]
          /\ BasketUnordered(b)
    BY <1>4 DEF CommitPlace
  <2>2. Ordered(b)
    BY <1>1, <2>1 DEF Ordered
  <2>3. [basket[b] EXCEPT !.status = "CHECKED_OUT"] \in Basket /\ basket[b].branch \in Branches
    BY <1>1, BasketRow DEF Basket
  <2>4. /\ basket' \in [Baskets -> Basket \cup {None}]
        /\ \A c \in Baskets : basket[c] # None => basket'[c] # None
    BY <1>1, <2>1, <2>3, BasketIsPresent DEF Shape
  <2>5. row \in OrderRow(row.total) /\ row.basket = b
    BY <1>1, <2>3 DEF OrderRow
  <2>6. /\ IsTable(order, Orders)'
        /\ order'[o] = row
        /\ \A p \in Orders \ {o} : order'[p] = order[p]
    BY <1>0, <2>1 DEF IsTable
  <2>7. \A p \in Orders : order'[p] # None =>
          order'[p] \in OrderRow(order'[p].total) /\ basket'[order'[p].basket] # None
    <3> TAKE p \in Orders
    <3>1. CASE p = o
      BY <1>1, <2>4, <2>5, <2>6, <3>1
    <3>2. CASE p # o
      BY <2>4, <2>6, <3>2 DEF Shape, OrderRow
    <3> QED
      BY <3>1, <3>2
  <2>8. TaskRefers(task[r])'
    BY <1>2, IdleOp DEF TaskRefers, OnBasket, NeedsBasket
  <2>9. \A q \in Requests : TaskRefers(task[q])'
    BY <1>2, <2>4, <2>8, RefersStill DEF Shape, OnlyTask
  <2> QED
    BY <1>1, <1>2, <2>2, <2>4, <2>6, <2>7, <2>9 DEF Shape, OnlyTask, TablesStep, OrderRow
<1> QED
  BY <1>3, <1>4

\* A dropped order keeps its basket.
LEMMA DroppedRow ==
  ASSUME Shape, NEW o \in Orders, Dropped(o)
  PROVE  /\ IsTable(order, Orders)'
         /\ \A p \in Orders : order[p] = None <=> order'[p] = None
         /\ \A p \in Orders : order[p] # None =>
              /\ order'[p] \in OrderRow(order'[p].total)
              /\ order'[p].basket = order[p].basket
<1>1. order[o] \in OrderRow(order[o].total)
  BY DEF Shape, Dropped
<1> DEFINE row == [order[o] EXCEPT !.status = "DROPPED"]
<1>2. /\ row \in OrderRow(row.total)
      /\ row.basket = order[o].basket
      /\ row # None
  BY <1>1 DEF OrderRow, None
<1>3. /\ IsTable(order, Orders)'
      /\ order'[o] = row
      /\ \A p \in Orders \ {o} : order'[p] = order[p]
  BY DEF Shape, IsTable, Dropped
<1> QED
  BY <1>2, <1>3 DEF Shape, Dropped

LEMMA DropKeeps ==
  ASSUME Shape, NEW o \in Orders, DropOrder(o)
  PROVE  Shape' /\ TablesStep
<1>1. Dropped(o) /\ UNCHANGED <<basket, task>>
  BY DEF DropOrder, Dropped
<1>2. /\ IsTable(order, Orders)'
      /\ \A p \in Orders : order[p] = None <=> order'[p] = None
      /\ \A p \in Orders : order[p] # None =>
           /\ order'[p] \in OrderRow(order'[p].total)
           /\ order'[p].basket = order[p].basket
  BY <1>1, DroppedRow
<1>3. \A p \in Orders : order'[p] # None =>
        order'[p] \in OrderRow(order'[p].total) /\ basket'[order'[p].basket] # None
  BY <1>1, <1>2 DEF Shape
<1>4. \A q \in Requests : TaskRefers(task[q])'
  BY <1>1 DEF Shape, TaskRefers
<1> QED
  BY <1>1, <1>2, <1>3, <1>4 DEF Shape, IsTable, TablesStep

LEMMA NextKeepsShape ==
  ASSUME Shape, [Next]_vars
  PROVE  Shape' /\ TablesStep
<1>1. CASE LineStep
  BY <1>1, LineStepKeeps DEF TablesStep
<1>2. ASSUME NEW r \in Requests,
             \/ \E buyer \in Buyers, branch \in Branches, want \in OnBasket :
                  Open(r, buyer, branch, want)
             \/ \E buyer \in Buyers, branch \in Branches : BeginPlace(r, buyer, branch)
             \/ CheckBudget(r)
             \/ Abandon(r)
      PROVE  Shape' /\ TablesStep
  BY <1>2, RequestsStep DEF TablesStep
<1>3. CASE UNCHANGED vars
  BY <1>3 DEF vars, Shape, IsTable, TaskRefers, TablesStep
<1>4. CASE BasketStep
  BY <1>2, <1>4, CreateKeeps, DetailsKeeps, CommitPlaceKeeps, DropKeeps DEF BasketStep
<1> QED
  BY <1>1, <1>3, <1>4 DEF Next

LEMMA InitShape == Init => Shape
  BY IdleOp DEF Init, Shape, IsTable, TaskRefers, NeedsBasket, OnBasket

-----------------------------------------------------------------------------
LEMMA StaysOneOpen ==
  ASSUME Shape, OneOpenBasket, TablesStep
  PROVE  OneOpenBasket'
<1>1. ASSUME NEW b \in Baskets, NewBasket(b)
      PROVE  OneOpenBasket'
  BY <1>1 DEF NewBasket, BasketSlotFree, OpenBaskets, OneOpenBasket, Shape, Basket, None
<1>2. ASSUME NEW b \in Baskets, Details(b) \/ Ordered(b)
      PROVE  OneOpenBasket'
  <2>1. basket[b] \in Basket
    BY <1>2, BasketRow DEF Details, Ordered
  <2>2. /\ basket'[b].buyer = basket[b].buyer
        /\ basket'[b].branch = basket[b].branch
        /\ basket'[b].status = "OPEN" => basket[b].status = "OPEN"
        /\ basket[b] # None
    BY <1>2, <2>1 DEF Details, Ordered, Basket, Shape
  <2>3. \A c \in Baskets \ {b} : basket'[c] = basket[c]
    BY <1>2 DEF Details, Ordered, Shape
  <2> QED
    BY <2>2, <2>3 DEF OneOpenBasket
<1>3. CASE UNCHANGED basket
  BY <1>3 DEF OneOpenBasket
<1> QED
  BY <1>1, <1>2, <1>3 DEF TablesStep, Dropped

\* A buyer never has two open baskets for one branch, however many requests
\* look for one and create one at once: openCart, with the partial unique index
\* of the cart migration.
THEOREM BasketsStaySingle == Spec => []OneOpenBasket
<1>1. Init => Shape /\ OneOpenBasket
  BY InitShape DEF Init, OneOpenBasket
<1>2. Shape /\ OneOpenBasket /\ [Next]_vars => (Shape /\ OneOpenBasket)'
  BY NextKeepsShape, StaysOneOpen
<1> QED
  BY <1>1, <1>2, PTL DEF Spec

LEMMA StaysOrderedOnce ==
  ASSUME Shape, OrderedOnceThenHistory, TablesStep
  PROVE  OrderedOnceThenHistory'
<1>1. ASSUME NEW b \in Baskets, NewBasket(b)
      PROVE  OrderedOnceThenHistory'
  <2>1. /\ basket'[b].status = "OPEN"
        /\ \A c \in Baskets \ {b} : basket'[c] = basket[c]
        /\ UNCHANGED order
    BY <1>1 DEF NewBasket, Shape
  <2>2. ~\E o \in Orders : order[o] # None /\ order[o].basket = b
    BY <1>1 DEF NewBasket, Shape
  <2> QED
    BY <2>1, <2>2 DEF OrderedOnceThenHistory
<1>2. ASSUME NEW b \in Baskets, Details(b)
      PROVE  OrderedOnceThenHistory'
  <2>1. basket[b] \in Basket /\ basket[b] # None
    BY <1>2, BasketRow DEF Details
  <2>2. /\ basket'[b].status = basket[b].status
        /\ \A c \in Baskets \ {b} : basket'[c] = basket[c]
        /\ UNCHANGED order
    BY <1>2, <2>1 DEF Details, Shape, Basket
  <2> QED
    BY <2>1, <2>2 DEF OrderedOnceThenHistory
<1>3. ASSUME NEW b \in Baskets, Ordered(b)
      PROVE  OrderedOnceThenHistory'
  <2>1. basket[b] \in Basket /\ basket[b] # None
    BY <1>3, BasketRow DEF Ordered
  <2>2. /\ basket'[b].status = "CHECKED_OUT"
        /\ \A c \in Baskets \ {b} : basket'[c] = basket[c]
    BY <1>3, <2>1 DEF Ordered, Shape, Basket
  <2>3. PICK o \in Orders :
          /\ order[o] = None
          /\ order'[o] # None
          /\ order'[o].basket = b
          /\ \A p \in Orders \ {o} : order'[p] = order[p]
    <3>1. PICK o \in Orders : \E total :
            /\ order[o] = None
            /\ order' = [order EXCEPT ![o] =
                 [basket |-> b, branch |-> basket[b].branch, status |-> "COMMITTED",
                  total |-> total]]
      BY <1>3 DEF Ordered
    <3>2. PICK total :
            order' = [order EXCEPT ![o] =
              [basket |-> b, branch |-> basket[b].branch, status |-> "COMMITTED",
               total |-> total]]
      BY <3>1
    <3> DEFINE row == [basket |-> b, branch |-> basket[b].branch, status |-> "COMMITTED",
                       total |-> total]
    <3>3. row.basket = b /\ row.status # None.status
      BY DEF None
    <3>4. order'[o] = row /\ \A p \in Orders \ {o} : order'[p] = order[p]
      BY <3>2 DEF Shape, IsTable
    <3> HIDE DEF row
    <3> QED
      BY <3>1, <3>3, <3>4
  <2>4. BasketUnordered(b)
    BY <1>3 DEF Ordered
  <2> QED
    BY <2>1, <2>2, <2>3, <2>4 DEF OrderedOnceThenHistory, BasketUnordered
<1>4. ASSUME NEW o \in Orders, Dropped(o)
      PROVE  OrderedOnceThenHistory'
  <2>1. UNCHANGED basket
    BY <1>4 DEF Dropped
  <2>2. /\ \A p \in Orders : order[p] = None <=> order'[p] = None
        /\ \A p \in Orders : order[p] # None => order'[p].basket = order[p].basket
    BY <1>4, DroppedRow
  <2> QED
    BY <2>1, <2>2 DEF OrderedOnceThenHistory
<1>5. CASE UNCHANGED <<basket, order>>
  BY <1>5 DEF OrderedOnceThenHistory
<1> QED
  BY <1>1, <1>2, <1>3, <1>4, <1>5 DEF TablesStep

\* No two orders are made of one basket, and a basket is closed exactly when
\* one was, for any number of buyers and of requests in flight: place, with
\* orders.cartId unique.
THEOREM BasketsOrderedOnce == Spec => []OrderedOnceThenHistory
<1>1. Init => Shape /\ OrderedOnceThenHistory
  BY InitShape DEF Init, OrderedOnceThenHistory
<1>2. Shape /\ OrderedOnceThenHistory /\ [Next]_vars => (Shape /\ OrderedOnceThenHistory)'
  BY NextKeepsShape, StaysOrderedOnce
<1> QED
  BY <1>1, <1>2, PTL DEF Spec

-----------------------------------------------------------------------------
(***************************************************************************)
(* Types.  A subtotal is a number because a basket has finitely many lines *)
(* and a line is never ordered in a fraction; only finitely many rows have *)
(* been written at any time.                                               *)
(***************************************************************************)
LEMMA StepsAreNat ==
  ASSUME NEW above \in Nat, NEW multiple \in Nat \ {0}
  PROVE  (above + multiple - 1) \div multiple \in Nat
  OBVIOUS

LEMMA RoundedIsNat ==
  ASSUME NEW quantity \in Nat, NEW moq \in Nat \ {0}, NEW multiple \in Nat \ {0}
  PROVE  roundToOrderable(quantity, moq, multiple) \in Nat \ {0}
<1> DEFINE atLeastMoq == IF quantity < moq THEN moq ELSE quantity
           above == atLeastMoq - moq
           steps == (above + multiple - 1) \div multiple
<1>1. above \in Nat
  OBVIOUS
<1>2. steps \in Nat
  BY <1>1, StepsAreNat
<1>3. roundToOrderable(quantity, moq, multiple) = moq + steps * multiple
  BY DEF roundToOrderable
<1>4. steps * multiple \in Nat
  BY <1>2
<1> QED
  BY <1>3, <1>4

TypeInv ==
  /\ CheckoutTypeOK
  /\ IsFiniteSet({l \in Lines : line[l] # None})
  /\ IsFiniteSet({o \in Orders : order[o] # None})

\* What the fields of a task may be.
LEMMA TaskFields ==
  ASSUME NEW k \in Task
  PROVE  /\ k.op = "creating" =>
              k.buyer \in Buyers /\ k.branch \in Branches /\ k.want \in OnBasket
         /\ k.op \in OnBasket => k.basket \in Baskets
         /\ k.op = "insert" => k.row \in Line
         /\ k.op = "write" => /\ k.lines \in SUBSET Lines
                              /\ k.quantity \in [Lines -> Nat]
                              /\ k.kind \in Kind \cup {"kept"}
         /\ k.op = "remove" => k.line \in Lines
         /\ k.op \in {"priced", "checked"} => k.basket \in Baskets /\ k.total \in Nat
  BY DEF Task, Idle, OnBasket

LEMMA LineRow ==
  ASSUME CheckoutTypeOK, NEW l \in Lines, line[l] # None
  PROVE  line[l] \in Line
  BY DEF CheckoutTypeOK

LEMMA OrderableIsNat ==
  ASSUME CheckoutTypeOK, NEW l \in Lines, line[l] # None
  PROVE  Orderable(l) \in Nat \ {0}
<1>1. line[l].product \in Products /\ line[l].quantity \in Nat
  BY LineRow DEF Line
<1>2. Moq[line[l].product] \in Nat \ {0} /\ Multiple[line[l].product] \in Nat \ {0}
  BY <1>1, ProductsAssumption
<1> QED
  BY <1>1, <1>2, RoundedIsNat DEF Orderable

LEMMA SubtotalIsNat ==
  ASSUME TypeInv, NEW b \in Baskets
  PROVE  Subtotal(b) \in Nat
<1> DEFINE cost == [l \in LinesOf(b) |-> Orderable(l) * Price[line[l].product]]
<1>1. IsFiniteSet(LinesOf(b))
  BY FS_Subset DEF TypeInv, LinesOf
<1>2. ASSUME NEW l \in LinesOf(b)
      PROVE  Orderable(l) * Price[line[l].product] \in Nat
  <2>1. l \in Lines /\ line[l] # None
    BY DEF LinesOf
  <2>2. Orderable(l) \in Nat
    BY <2>1, OrderableIsNat DEF TypeInv
  <2>3. Price[line[l].product] \in Nat
    BY <2>1, LineRow, ProductsAssumption DEF TypeInv, Line
  <2> QED
    BY <2>2, <2>3
<1>3. cost \in [LinesOf(b) -> Nat]
  BY <1>2
<1>4. Subtotal(b) = SumFunction(cost)
  BY DEF Subtotal
<1> HIDE DEF cost
<1> QED
  BY <1>1, <1>3, <1>4, SumType

\* Tasks stay of their type when the one that moves on does.
LEMMA TasksTyped ==
  ASSUME CheckoutTypeOK, NEW r \in Requests, NEW k \in Task, task' = [task EXCEPT ![r] = k]
  PROVE  task' \in [Requests -> Task]
  BY DEF CheckoutTypeOK

LEMMA IdleIsTask == Idle \in Task
  BY DEF Task

LEMMA WriteIsTask ==
  ASSUME NEW written \in SUBSET Lines, NEW quantity \in [written -> Nat],
         NEW kind \in Kind \cup {"kept"}
  PROVE  Write(written, quantity, kind) \in Task
<1> DEFINE all == [l \in Lines |-> IF l \in written THEN quantity[l] ELSE 0]
<1>1. all \in [Lines -> Nat]
  OBVIOUS
<1> HIDE DEF all
<1>2. [op |-> "write", lines |-> written, kind |-> kind, quantity |-> all] \in Task
  BY <1>1 DEF Task
<1> QED
  BY <1>2 DEF Write, all

\* Requests that only read.
LEMMA ReadsTyped ==
  ASSUME TypeInv, Shape, UNCHANGED <<basket, line, order>>, task' \in [Requests -> Task]
  PROVE  TypeInv'
  BY DEF TypeInv, CheckoutTypeOK

LEMMA LineReadsTyped ==
  ASSUME TypeInv, Shape, NEW r \in Requests,
         \/ \E p \in Products, q \in 1..MaxQuantity, kind \in Kind :
              FindMergeable(r, p, q, kind)
         \/ \E l \in Lines, q \in 0..MaxQuantity, kind \in Kind \cup {"kept"} :
              BeginUpdateLine(r, l, q, kind)
         \/ \E l \in Lines : BeginRemoveLine(r, l)
         \/ \E buyer \in Buyers, branch \in Branches : BeginNormalise(r, buyer, branch)
  PROVE  TypeInv'
<1>0. CheckoutTypeOK /\ task[r] \in Task
  BY DEF TypeInv, CheckoutTypeOK
<1>1. ASSUME NEW p \in Products, NEW q \in 1..MaxQuantity, NEW kind \in Kind,
             FindMergeable(r, p, q, kind)
      PROVE  TypeInv'
  <2> DEFINE b == task[r].basket
             insert == [op |-> "insert",
                        row |-> [basket |-> b, product |-> p, quantity |-> q, kind |-> kind]]
  <2>1. b \in Baskets
    BY <1>0, <1>1, TaskFields DEF FindMergeable, OnBasket
  <2>2. q \in Nat \ {0}
    BY BudgetAssumption
  <2>3. [basket |-> b, product |-> p, quantity |-> q, kind |-> kind] \in Line
    BY <2>1, <2>2 DEF Line
  <2>4. insert \in Task
    BY <2>3 DEF Task
  <2>5. ASSUME NEW l \in LinesOf(b)
        PROVE  Write({l}, [m \in {l} |-> line[l].quantity + q], "kept") \in Task
    <3>1. l \in Lines /\ line[l].quantity \in Nat
      BY <1>0, LineRow DEF LinesOf, Line
    <3>2. [m \in {l} |-> line[l].quantity + q] \in [{l} -> Nat]
      BY <2>2, <3>1
    <3> QED
      BY <3>1, <3>2, WriteIsTask
  <2>6. \/ task' = [task EXCEPT ![r] = insert]
        \/ \E l \in LinesOf(b) :
             task' = [task EXCEPT ![r] = Write({l}, [m \in {l} |-> line[l].quantity + q], "kept")]
    BY <1>1, Zenon DEF FindMergeable
  <2>7. task' \in [Requests -> Task]
    <3> HIDE DEF insert
    <3>1. CASE task' = [task EXCEPT ![r] = insert]
      BY <1>0, <2>4, <3>1, TasksTyped
    <3>2. ASSUME NEW l \in LinesOf(b),
             task' = [task EXCEPT ![r] = Write({l}, [m \in {l} |-> line[l].quantity + q], "kept")]
          PROVE  task' \in [Requests -> Task]
      BY <1>0, <2>5, <3>2, TasksTyped
    <3> QED
      BY <2>6, <3>1, <3>2
  <2> QED
    BY <1>1, <2>7, ReadsTyped DEF FindMergeable
<1>2. ASSUME NEW l \in Lines, NEW q \in 0..MaxQuantity, NEW kind \in Kind \cup {"kept"},
             BeginUpdateLine(r, l, q, kind)
      PROVE  TypeInv'
  <2>1. Write({l}, [m \in {l} |-> q], kind) \in Task
    BY WriteIsTask, BudgetAssumption
  <2>2. task' \in [Requests -> Task]
    BY <1>0, <1>2, <2>1, TasksTyped DEF BeginUpdateLine
  <2> QED
    BY <1>2, <2>2, ReadsTyped DEF BeginUpdateLine
<1>3. ASSUME NEW l \in Lines, BeginRemoveLine(r, l)
      PROVE  TypeInv'
  <2>1. [op |-> "remove", line |-> l] \in Task
    BY DEF Task
  <2>2. task' \in [Requests -> Task]
    BY <1>0, <1>3, <2>1, TasksTyped DEF BeginRemoveLine
  <2> QED
    BY <1>3, <2>2, ReadsTyped DEF BeginRemoveLine
<1>4. ASSUME NEW buyer \in Buyers, NEW branch \in Branches, BeginNormalise(r, buyer, branch)
      PROVE  TypeInv'
  <2>1. PICK b \in OpenBaskets(buyer, branch) :
          LET adjusted == {l \in LinesOf(b) : Orderable(l) # line[l].quantity}
          IN  task' = [task EXCEPT ![r] =
                Write(adjusted, [l \in adjusted |-> Orderable(l)], "kept")]
    BY <1>4, Zenon DEF BeginNormalise
  <2> DEFINE adjusted == {l \in LinesOf(b) : Orderable(l) # line[l].quantity}
             k == Write(adjusted, [l \in adjusted |-> Orderable(l)], "kept")
  <2>2. \A l \in adjusted : l \in Lines /\ line[l] # None
    BY DEF LinesOf
  <2>3. [l \in adjusted |-> Orderable(l)] \in [adjusted -> Nat]
    BY <1>0, <2>2, OrderableIsNat
  <2>4. k \in Task
    <3> HIDE DEF adjusted
    <3> QED
      BY <2>2, <2>3, WriteIsTask
  <2>5. task' = [task EXCEPT ![r] = k]
    BY <2>1
  <2> HIDE DEF k
  <2>6. task' \in [Requests -> Task]
    BY <1>0, <2>4, <2>5, TasksTyped
  <2> QED
    BY <1>4, <2>6, ReadsTyped DEF BeginNormalise
<1> QED
  BY <1>1, <1>2, <1>3, <1>4

\* Writing no line that was not there leaves finitely many.
LEMMA LinesStayFinite ==
  ASSUME IsFiniteSet({l \in Lines : line[l] # None}), NEW x,
         \A l \in Lines \ {x} : line'[l] # None => line[l] # None
  PROVE  IsFiniteSet({l \in Lines : line'[l] # None})
<1> DEFINE before == {l \in Lines : line[l] # None}
           after == {l \in Lines : line'[l] # None}
<1>1. after \subseteq before \cup {x}
  OBVIOUS
<1>2. IsFiniteSet(before \cup {x})
  BY FS_AddElement
<1> HIDE DEF before, after
<1>3. IsFiniteSet(after)
  BY <1>1, <1>2, FS_Subset
<1> QED
  BY <1>3 DEF after

LEMMA LineWritesTyped ==
  ASSUME TypeInv, Shape, NEW r \in Requests,
         InsertLine(r) \/ WriteLines(r) \/ RemoveLine(r) \/ Clear(r)
  PROVE  TypeInv'
<1>0. CheckoutTypeOK /\ task[r] \in Task /\ line \in [Lines -> Line \cup {None}]
  BY DEF TypeInv, CheckoutTypeOK
<1>1. task' \in [Requests -> Task]
  BY <1>0, IdleIsTask, TasksTyped DEF InsertLine, WriteLines, RemoveLine, Clear
<1>2. /\ line' \in [Lines -> Line \cup {None}]
      /\ \E x : \A l \in Lines \ {x} : line'[l] # None => line[l] # None
  <2>1. CASE InsertLine(r)
    <3>1. PICK x \in Lines : line' = [line EXCEPT ![x] = task[r].row]
      BY <2>1 DEF InsertLine
    <3>2. task[r].row \in Line
      BY <1>0, <2>1, TaskFields DEF InsertLine
    <3> QED
      BY <1>0, <3>1, <3>2
  <2>2. CASE RemoveLine(r)
    <3>1. line' = [line EXCEPT ![task[r].line] = None]
      BY <2>2 DEF RemoveLine
    <3> QED
      BY <1>0, <3>1
  <2>3. CASE Clear(r)
    <3>1. line' = [l \in Lines |-> IF l \in LinesOf(task[r].basket) THEN None ELSE line[l]]
      BY <2>3 DEF Clear
    <3> QED
      BY <1>0, <3>1
  <2>4. CASE WriteLines(r)
    <3> DEFINE k == task[r]
    <3>1. /\ k.lines \in SUBSET Lines
          /\ k.quantity \in [Lines -> Nat]
          /\ k.kind \in Kind \cup {"kept"}
      BY <1>0, <2>4, TaskFields DEF WriteLines
    <3>2. CASE UNCHANGED line
      BY <1>0, <3>2
    <3>3. CASE /\ \A l \in k.lines : line[l] # None
               /\ line' = [l \in Lines |-> IF l \in k.lines THEN Written(l, k) ELSE line[l]]
      <4>1. ASSUME NEW l \in k.lines
            PROVE  Written(l, k) \in Line
        <5>1. line[l] \in Line /\ l \in Lines
          BY <1>0, <3>1, <3>3, LineRow
        <5> DEFINE quantity == IF k.quantity[l] = 0 THEN line[l].quantity ELSE k.quantity[l]
                   kind == IF k.kind = "kept" THEN line[l].kind ELSE k.kind
        <5>2. quantity \in Nat \ {0} /\ kind \in Kind
          BY <3>1, <5>1 DEF Line
        <5>3. Written(l, k) = [line[l] EXCEPT !.quantity = quantity, !.kind = kind]
          BY <5>1 DEF Written, Line
        <5> HIDE DEF quantity, kind
        <5> QED
          BY <5>1, <5>2, <5>3 DEF Line
      <4> QED
        BY <1>0, <3>1, <3>3, <4>1
    <3> QED
      BY <2>4, <3>2, <3>3 DEF WriteLines
  <2> QED
    BY <2>1, <2>2, <2>3, <2>4
<1>3. IsFiniteSet({l \in Lines : line'[l] # None})
  BY <1>2, LinesStayFinite DEF TypeInv
<1>4. UNCHANGED <<basket, order>>
  BY DEF InsertLine, WriteLines, RemoveLine, Clear
<1> QED
  BY <1>1, <1>2, <1>3, <1>4 DEF TypeInv, CheckoutTypeOK

LEMMA BasketReadsTyped ==
  ASSUME TypeInv, Shape, NEW r \in Requests,
         \/ \E buyer \in Buyers, branch \in Branches, want \in OnBasket :
              Open(r, buyer, branch, want)
         \/ \E buyer \in Buyers, branch \in Branches : BeginPlace(r, buyer, branch)
         \/ CheckBudget(r)
         \/ Abandon(r)
  PROVE  TypeInv'
<1>0. CheckoutTypeOK /\ task[r] \in Task
  BY DEF TypeInv, CheckoutTypeOK
<1>1. ASSUME NEW buyer \in Buyers, NEW branch \in Branches, NEW want \in OnBasket,
             Open(r, buyer, branch, want)
      PROVE  TypeInv'
  <2>1. [op |-> "creating", buyer |-> buyer, branch |-> branch, want |-> want] \in Task
    BY DEF Task
  <2>2. \A b \in Baskets : [op |-> want, basket |-> b] \in Task
    BY DEF Task
  <2>3. \E k \in Task : task' = [task EXCEPT ![r] = k]
    BY <1>1, <2>1, <2>2, Zenon DEF Open, OpenBaskets
  <2> QED
    BY <1>0, <1>1, <2>3, TasksTyped, ReadsTyped DEF Open
<1>2. ASSUME NEW buyer \in Buyers, NEW branch \in Branches, BeginPlace(r, buyer, branch)
      PROVE  TypeInv'
  <2>1. PICK b \in OpenBaskets(buyer, branch) :
          task' = [task EXCEPT ![r] =
            [op |-> "priced", basket |-> b, total |-> Subtotal(b)]]
    BY <1>2, Zenon DEF BeginPlace
  <2>2. b \in Baskets
    BY DEF OpenBaskets
  <2>3. [op |-> "priced", basket |-> b, total |-> Subtotal(b)] \in Task
    BY <2>2, SubtotalIsNat DEF Task
  <2> QED
    BY <1>0, <1>2, <2>1, <2>3, TasksTyped, ReadsTyped DEF BeginPlace
<1>3. CASE CheckBudget(r)
  <2>1. [op |-> "checked", basket |-> task[r].basket, total |-> task[r].total] \in Task
    BY <1>0, <1>3, TaskFields DEF CheckBudget, Task
  <2>2. \E k \in Task : task' = [task EXCEPT ![r] = k]
    BY <1>3, <2>1, IdleIsTask DEF CheckBudget
  <2> QED
    BY <1>0, <1>3, <2>2, TasksTyped, ReadsTyped DEF CheckBudget
<1>4. CASE Abandon(r)
  BY <1>0, <1>4, IdleIsTask, TasksTyped, ReadsTyped DEF Abandon
<1> QED
  BY <1>1, <1>2, <1>3, <1>4

LEMMA OrdersStayFinite ==
  ASSUME IsFiniteSet({o \in Orders : order[o] # None}), NEW x,
         \A o \in Orders \ {x} : order'[o] # None => order[o] # None
  PROVE  IsFiniteSet({o \in Orders : order'[o] # None})
<1> DEFINE before == {o \in Orders : order[o] # None}
           after == {o \in Orders : order'[o] # None}
<1>1. after \subseteq before \cup {x}
  OBVIOUS
<1>2. IsFiniteSet(before \cup {x})
  BY FS_AddElement
<1> HIDE DEF before, after
<1>3. IsFiniteSet(after)
  BY <1>1, <1>2, FS_Subset
<1> QED
  BY <1>3 DEF after

LEMMA BasketWritesTyped ==
  ASSUME TypeInv, Shape, NEW r \in Requests,
         CreateBasket(r) \/ CommitPlace(r) \/ \E ready \in BOOLEAN : SetDetails(r, ready)
  PROVE  TypeInv'
<1>0. /\ CheckoutTypeOK /\ task[r] \in Task
      /\ basket \in [Baskets -> Basket \cup {None}]
      /\ order \in [Orders -> Order \cup {None}]
  BY DEF TypeInv, CheckoutTypeOK
<1>1. basket' \in [Baskets -> Basket \cup {None}]
  <2>1. Shape'
    BY CreateKeeps, CommitPlaceKeeps, DetailsKeeps
  <2> QED
    BY <2>1 DEF Shape
<1>2. task' \in [Requests -> Task]
  <2>1. CASE CreateBasket(r)
    <3>1. \A b \in Baskets : [op |-> task[r].want, basket |-> b] \in Task
      BY <1>0, <2>1, TaskFields DEF CreateBasket, Task
    <3>2. \E k \in Task : task' = [task EXCEPT ![r] = k]
      BY <2>1, <3>1, IdleIsTask DEF CreateBasket
    <3> QED
      BY <1>0, <3>2, TasksTyped
  <2>2. CASE CommitPlace(r) \/ \E ready \in BOOLEAN : SetDetails(r, ready)
    <3>1. task' = [task EXCEPT ![r] = Idle]
      BY <2>2 DEF CommitPlace, SetDetails
    <3> QED
      BY <1>0, <3>1, IdleIsTask, TasksTyped
  <2> QED
    BY <2>1, <2>2
<1>3. /\ order' \in [Orders -> Order \cup {None}]
      /\ \E x : \A o \in Orders \ {x} : order'[o] # None => order[o] # None
  <2>1. CASE UNCHANGED order
    BY <1>0, <2>1
  <2>2. CASE ~UNCHANGED order
    <3> DEFINE b == task[r].basket
               row == [basket |-> b, branch |-> basket[b].branch, status |-> "COMMITTED",
                       total |-> task[r].total]
    <3>1. CommitPlace(r)
      BY <2>2 DEF CreateBasket, SetDetails
    <3>2. b \in Baskets /\ basket[b] # None
      BY <3>1 DEF Shape, CommitPlace, TaskRefers, NeedsBasket
    <3>3. basket[b].branch \in Branches
      BY <3>2, BasketRow DEF Basket
    <3>4. task[r].total \in Nat
      BY <1>0, <3>1, TaskFields DEF CommitPlace
    <3>5. row \in Order
      BY <3>2, <3>3, <3>4 DEF Order
    <3>6. PICK x \in Orders : order' = [order EXCEPT ![x] = row]
      BY <2>2, <3>1 DEF CommitPlace
    <3> HIDE DEF row
    <3> QED
      BY <1>0, <3>5, <3>6
  <2> QED
    BY <2>1, <2>2
<1>4. IsFiniteSet({o \in Orders : order'[o] # None})
  BY <1>3, OrdersStayFinite DEF TypeInv
<1>5. UNCHANGED line
  BY DEF CreateBasket, CommitPlace, SetDetails
<1> QED
  BY <1>1, <1>2, <1>3, <1>4, <1>5 DEF TypeInv, CheckoutTypeOK

LEMMA DropTyped ==
  ASSUME TypeInv, NEW o \in Orders, DropOrder(o)
  PROVE  TypeInv'
<1>1. order \in [Orders -> Order \cup {None}] /\ order[o] \in Order
  BY DEF TypeInv, CheckoutTypeOK, DropOrder
<1>2. [order[o] EXCEPT !.status = "DROPPED"] \in Order
  BY <1>1 DEF Order
<1>3. order' = [order EXCEPT ![o] = [order[o] EXCEPT !.status = "DROPPED"]]
  BY DEF DropOrder
<1>4. order' \in [Orders -> Order \cup {None}]
  BY <1>1, <1>2, <1>3
<1>5. \A p \in Orders \ {o} : order'[p] # None => order[p] # None
  BY <1>1, <1>3
<1>6. IsFiniteSet({p \in Orders : order'[p] # None})
  BY <1>5, OrdersStayFinite DEF TypeInv
<1> QED
  BY <1>4, <1>6 DEF TypeInv, CheckoutTypeOK, DropOrder

LEMMA NextTyped ==
  ASSUME TypeInv, Shape, [Next]_vars
  PROVE  TypeInv'
<1>1. CASE LineStep
  BY <1>1, LineReadsTyped, LineWritesTyped DEF LineStep
<1>2. CASE BasketStep
  BY <1>2, BasketReadsTyped, BasketWritesTyped, DropTyped DEF BasketStep
<1>3. CASE UNCHANGED vars
  BY <1>3 DEF vars, TypeInv, CheckoutTypeOK
<1> QED
  BY <1>1, <1>2, <1>3 DEF Next

LEMMA InitTyped == Init => TypeInv
<1> SUFFICES ASSUME Init PROVE TypeInv
  OBVIOUS
<1>1. CheckoutTypeOK
  BY IdleIsTask DEF Init, CheckoutTypeOK
<1>2. {l \in Lines : line[l] # None} = {} /\ {o \in Orders : order[o] # None} = {}
  BY DEF Init
<1> QED
  BY <1>1, <1>2, FS_EmptySet DEF TypeInv

\* Every row and everything a request remembers is of its type, and an order's
\* total is a number that is never negative: cart.service.ts and
\* place().
THEOREM CheckoutTypeCorrect == Spec => []CheckoutTypeOK
<1>1. Init => TypeInv /\ Shape
  BY InitTyped, InitShape
<1>2. TypeInv /\ Shape /\ [Next]_vars => (TypeInv /\ Shape)'
  BY NextTyped, NextKeepsShape
<1>3. TypeInv => CheckoutTypeOK
  BY DEF TypeInv
<1> QED
  BY <1>1, <1>2, <1>3, PTL DEF Spec

-----------------------------------------------------------------------------
(***************************************************************************)
(* The budget.  What is spent grows by an order's total when it is placed  *)
(* and shrinks by it when it is dropped.                                   *)
(***************************************************************************)
Counted(branch) ==
  {o \in Orders : order[o] # None /\ order[o].branch = branch /\ order[o].status = "COMMITTED"}

Totals(branch) == [o \in Counted(branch) |-> order[o].total]

LEMMA SpentIsTotal ==
  ASSUME TypeInv, NEW branch
  PROVE  /\ IsFiniteSet(Counted(branch))
         /\ Totals(branch) \in [Counted(branch) -> Nat]
         /\ Spent(branch) = SumFunction(Totals(branch))
         /\ Spent(branch) \in Nat
<1>1. IsFiniteSet(Counted(branch))
  BY FS_Subset DEF TypeInv, Counted
<1>2. Totals(branch) \in [Counted(branch) -> Nat]
  BY DEF TypeInv, CheckoutTypeOK, Order, Totals, Counted
<1>3. Spent(branch) = SumFunction(Totals(branch))
  BY DEF Spent, Totals, Counted
<1> QED
  BY <1>1, <1>2, <1>3, SumType

LEMMA SpentIsTotalAfter ==
  ASSUME TypeInv', NEW branch
  PROVE  /\ IsFiniteSet(Counted(branch))'
         /\ (Totals(branch) \in [Counted(branch) -> Nat])'
         /\ (Spent(branch) = SumFunction(Totals(branch)))'
         /\ (Spent(branch) \in Nat)'
<1>1. IsFiniteSet(Counted(branch))'
  BY FS_Subset DEF TypeInv, Counted
<1>2. (Totals(branch) \in [Counted(branch) -> Nat])'
  BY DEF TypeInv, CheckoutTypeOK, Order, Totals, Counted
<1>3. (Spent(branch) = SumFunction(Totals(branch)))'
  BY DEF Spent, Totals, Counted
<1> QED
  BY <1>1, <1>2, <1>3, SumType

LEMMA SpentSame ==
  ASSUME NEW branch, Totals(branch)' = Totals(branch)
  PROVE  Spent(branch)' = Spent(branch)
  BY DEF Spent, Totals, Counted

LEMMA PlacedAddsTotal ==
  ASSUME TypeInv, TypeInv', NEW o \in Orders, NEW row \in Order, row.status = "COMMITTED",
         order[o] = None, order' = [order EXCEPT ![o] = row]
  PROVE  \A branch \in Branches :
           Spent(branch)' =
             IF branch = row.branch THEN Spent(branch) + row.total ELSE Spent(branch)
<1>1. /\ order'[o] = row /\ row # None
      /\ \A p \in Orders \ {o} : order'[p] = order[p]
  BY DEF TypeInv, CheckoutTypeOK, Order, None
<1> TAKE branch \in Branches
<1>2. CASE branch = row.branch
  <2>1. Counted(branch)' = Counted(branch) \cup {o} /\ o \notin Counted(branch)
    BY <1>1, <1>2 DEF Counted
  <2>2. Totals(branch)'[o] = row.total
    BY <1>1, <2>1 DEF Totals
  <2>3. \A p \in Counted(branch) : Totals(branch)'[p] = Totals(branch)[p]
    BY <1>1, <2>1 DEF Totals, Counted
  <2>4. Totals(branch) \in [Counted(branch) -> Int]
    BY SpentIsTotal
  <2>5. Totals(branch)' \in [Counted(branch) \cup {o} -> Int]
    BY <2>1, SpentIsTotalAfter
  <2>6. SumFunction(Totals(branch)') = SumFunction(Totals(branch)) + Totals(branch)'[o]
    BY <2>1, <2>3, <2>4, <2>5, SpentIsTotal, SumOfOneMore
  <2> QED
    BY <1>2, <2>2, <2>6, SpentIsTotal, SpentIsTotalAfter
<1>3. CASE branch # row.branch
  <2>1. Counted(branch)' = Counted(branch)
    BY <1>1, <1>3 DEF Counted
  <2>2. Totals(branch)' = Totals(branch)
    BY <1>1, <2>1 DEF Totals, Counted
  <2> QED
    BY <1>3, <2>2, SpentSame
<1> QED
  BY <1>2, <1>3

LEMMA DroppedNeverAdds ==
  ASSUME TypeInv, TypeInv', NEW o \in Orders, DropOrder(o)
  PROVE  \A branch \in Branches : Spent(branch)' <= Spent(branch)
<1>1. order[o] \in Order
  BY DEF TypeInv, CheckoutTypeOK, DropOrder
<1>2. /\ order'[o].status = "DROPPED"
      /\ order[o] # None
      /\ order[o].status = "COMMITTED"
      /\ \A p \in Orders \ {o} : order'[p] = order[p]
  BY <1>1 DEF TypeInv, CheckoutTypeOK, DropOrder, Order
<1> TAKE branch \in Branches
<1>3. CASE branch = order[o].branch
  <2>1. Counted(branch) = Counted(branch)' \cup {o} /\ o \notin Counted(branch)'
    BY <1>2, <1>3 DEF Counted
  <2>2. \A p \in Counted(branch)' : Totals(branch)[p] = Totals(branch)'[p]
    BY <1>2, <2>1 DEF Totals, Counted
  <2>3. Totals(branch) \in [Counted(branch)' \cup {o} -> Int]
    BY <2>1, SpentIsTotal
  <2>4. IsFiniteSet(Counted(branch)') /\ Totals(branch)' \in [Counted(branch)' -> Int]
    BY SpentIsTotalAfter
  <2>5. SumFunction(Totals(branch)) = SumFunction(Totals(branch)') + Totals(branch)[o]
    BY <2>1, <2>2, <2>3, <2>4, SumOfOneMore
  <2>6. Totals(branch)[o] \in Nat
    BY <2>1, SpentIsTotal
  <2> QED
    BY <2>5, <2>6, SpentIsTotal, SpentIsTotalAfter
<1>4. CASE branch # order[o].branch
  <2>1. order'[o].branch = order[o].branch
    BY <1>1 DEF TypeInv, CheckoutTypeOK, DropOrder, Order
  <2>2. Counted(branch)' = Counted(branch)
    BY <1>2, <1>4, <2>1 DEF Counted
  <2>3. Totals(branch)' = Totals(branch)
    BY <1>2, <1>4, <2>2 DEF Totals, Counted
  <2> QED
    BY <2>3, SpentSame, SpentIsTotal
<1> QED
  BY <1>3, <1>4

\* One buyer orders for each branch.  Two who share one can each be told that
\* there is room, and the code does not promise that both stay within it.
OneBuyerPerBranch ==
  \A a, b \in Buyers : a # b => BranchesOf[a] \cap BranchesOf[b] = {}

\* What a request remembers still fits: a basket about to be made is for a
\* branch of its buyer, and a checkout that was let through still has room for
\* what it read, unless its basket has been ordered by another request.
Fits(k) ==
  /\ k.op = "creating" => k.branch \in BranchesOf[k.buyer]
  /\ k.op = "checked" /\ BasketUnordered(k.basket) =>
       LET branch == basket[k.basket].branch
       IN  Cap[branch] # NoCap => Spent(branch) + k.total <= Cap[branch]

BudgetInv ==
  /\ \A b \in Baskets : basket[b] # None => basket[b].branch \in BranchesOf[basket[b].buyer]
  /\ \A r \in Requests : Fits(task[r])
  /\ WithinBudget

Inv == TypeInv /\ Shape /\ OneOpenBasket /\ OrderedOnceThenHistory

\* Rows keep their buyer and branch, and nothing is spent.
NothingSpent ==
  /\ \A b \in Baskets : basket[b] # None =>
       /\ basket'[b] # None
       /\ basket'[b].buyer = basket[b].buyer
       /\ basket'[b].branch = basket[b].branch
  /\ \A branch \in Branches : Spent(branch)' <= Spent(branch)
  /\ \A b \in Baskets : BasketUnordered(b)' => BasketUnordered(b)

LEMMA FitsStill ==
  ASSUME Inv, Inv', NothingSpent, NEW k \in Task, TaskRefers(k), Fits(k)
  PROVE  Fits(k)'
<1>1. ASSUME k.op = "checked", BasketUnordered(k.basket)',
             NEW branch \in Branches, branch = basket'[k.basket].branch, Cap[branch] # NoCap
      PROVE  Spent(branch)' + k.total <= Cap[branch]
  <2>1. k.basket \in Baskets /\ basket[k.basket] # None /\ k.total \in Nat
    BY <1>1, TaskFields DEF TaskRefers, NeedsBasket
  <2>2. basket[k.basket].branch = branch /\ BasketUnordered(k.basket)
    BY <1>1, <2>1 DEF NothingSpent
  <2>3. Spent(branch) + k.total <= Cap[branch] /\ Spent(branch)' <= Spent(branch)
    BY <1>1, <2>2 DEF Fits, NothingSpent
  <2>4. Spent(branch) \in Nat /\ Spent(branch)' \in Nat /\ Cap[branch] \in Nat
    BY <1>1, SpentIsTotal, SpentIsTotalAfter, BudgetAssumption DEF Inv
  <2> QED
    BY <2>1, <2>3, <2>4
<1>2. k.op = "checked" => basket'[k.basket].branch \in Branches
  <2>1. k.op = "checked" => k.basket \in Baskets /\ basket'[k.basket] # None
    BY TaskFields DEF TaskRefers, NeedsBasket, NothingSpent
  <2> QED
    BY <2>1 DEF Inv, Shape, Basket
<1> QED
  BY <1>1, <1>2 DEF Fits

LEMMA WithinStill ==
  ASSUME Inv, Inv', NothingSpent, WithinBudget
  PROVE  WithinBudget'
<1> SUFFICES ASSUME NEW branch \in Branches, Cap[branch] # NoCap
             PROVE  Spent(branch)' <= Cap[branch]
  BY DEF WithinBudget
<1>1. Spent(branch) <= Cap[branch] /\ Spent(branch)' <= Spent(branch)
  BY DEF WithinBudget, NothingSpent
<1>2. Spent(branch) \in Nat /\ Spent(branch)' \in Nat /\ Cap[branch] \in Nat
  BY SpentIsTotal, SpentIsTotalAfter, BudgetAssumption DEF Inv
<1> QED
  BY <1>1, <1>2

\* A step of one request that spends nothing and makes no basket.
LEMMA QuietStep ==
  ASSUME Inv, Inv', BudgetInv, NothingSpent, NEW r \in Requests, OnlyTask(r), Fits(task[r])',
         \A b \in Baskets : basket'[b] # None => basket[b] # None
  PROVE  BudgetInv'
<1>1. ASSUME NEW q \in Requests
      PROVE  Fits(task[q])'
  <2>1. CASE q = r
    BY <2>1
  <2>2. CASE q # r
    <3>1. task[q] \in Task /\ TaskRefers(task[q]) /\ Fits(task[q]) /\ task'[q] = task[q]
      BY <2>2 DEF Inv, TypeInv, CheckoutTypeOK, Shape, BudgetInv, OnlyTask
    <3> QED
      BY <3>1, FitsStill
  <2> QED
    BY <2>1, <2>2
<1>2. \A b \in Baskets : basket'[b] # None => basket'[b].branch \in BranchesOf[basket'[b].buyer]
  BY DEF BudgetInv, NothingSpent
<1>3. WithinBudget'
  BY WithinStill DEF BudgetInv
<1> QED
  BY <1>1, <1>2, <1>3 DEF BudgetInv

LEMMA UnchangedSpendsNothing ==
  ASSUME Inv, UNCHANGED <<basket, order>>
  PROVE  NothingSpent
<1>1. \A branch \in Branches : Spent(branch)' = Spent(branch) /\ Spent(branch) \in Nat
  BY SpentIsTotal DEF Inv, Spent
<1>2. \A b \in Baskets : BasketUnordered(b)' => BasketUnordered(b)
  BY DEF BasketUnordered
<1> QED
  BY <1>1, <1>2 DEF NothingSpent

LEMMA OtherOpFits ==
  ASSUME NEW k, k.op \notin {"creating", "checked"}
  PROVE  Fits(k)
  BY DEF Fits

LEMMA LinesKeepBudget ==
  ASSUME Inv, Inv', BudgetInv, LineStep
  PROVE  BudgetInv'
<1>1. Shape /\ UNCHANGED <<basket, order>>
  BY LineStepKeeps DEF Inv
<1>2. PICK r \in Requests : OnlyTask(r) /\ task'[r].op \in LineOps
  BY <1>1, LineStepTask
<1>3. Fits(task[r])'
  BY <1>2 DEF Fits, LineOps
<1> QED
  BY <1>1, <1>2, <1>3, UnchangedSpendsNothing, QuietStep

LEMMA RequestsKeepBudget ==
  ASSUME Inv, Inv', BudgetInv, NEW r \in Requests,
         \/ \E buyer \in Buyers, branch \in Branches, want \in OnBasket :
              Open(r, buyer, branch, want)
         \/ \E buyer \in Buyers, branch \in Branches : BeginPlace(r, buyer, branch)
         \/ CheckBudget(r)
         \/ Abandon(r)
  PROVE  BudgetInv'
<1>0. /\ Shape /\ IsTable(task, Requests)
      /\ task[r] \in Task /\ TaskRefers(task[r])
      /\ UNCHANGED <<basket, order>>
  BY RequestsStep DEF Inv, Shape, TypeInv, CheckoutTypeOK
<1>1. OnlyTask(r)
  <2>1. \E k : task' = [task EXCEPT ![r] = k]
    BY Zenon DEF Open, BeginPlace, CheckBudget, Abandon
  <2> QED
    BY <1>0, <2>1, OneTask
<1>2. Fits(task[r])'
  <2>1. ASSUME NEW buyer \in Buyers, NEW branch \in Branches, NEW want \in OnBasket,
               Open(r, buyer, branch, want)
        PROVE  Fits(task[r])'
    BY <1>0, <2>1 DEF Open, IsTable, Fits, OnBasket
  <2>2. ASSUME NEW buyer \in Buyers, NEW branch \in Branches, BeginPlace(r, buyer, branch)
        PROVE  Fits(task[r])'
    <3>1. PICK b \in OpenBaskets(buyer, branch) :
            task' = [task EXCEPT ![r] =
              [op |-> "priced", basket |-> b, total |-> Subtotal(b)]]
      BY <2>2, Zenon DEF BeginPlace
    <3>2. task'[r].op = "priced"
      BY <1>0, <3>1 DEF IsTable
    <3> QED
      BY <3>2 DEF Fits
  <2>3. CASE CheckBudget(r)
    <3> DEFINE k == task[r]
               now == basket[k.basket].branch
               passed == [op |-> "checked", basket |-> k.basket, total |-> k.total]
    <3>1. CASE task' = [task EXCEPT ![r] = Idle]
      <4>1. task'[r].op = "idle"
        BY <1>0, <3>1, IdleOp DEF IsTable
      <4> QED
        BY <4>1 DEF Fits
    <3>2. CASE /\ ~wouldExceed(Cap[now], Spent(now), k.total)
               /\ task' = [task EXCEPT ![r] = passed]
      <4>1. k.basket \in Baskets /\ basket[k.basket] # None /\ k.total \in Nat
        BY <1>0, <2>3, TaskFields DEF CheckBudget, TaskRefers, NeedsBasket
      <4>2. now \in Branches
        BY <1>0, <4>1, BasketRow DEF Basket
      <4>3. Cap[now] # NoCap => Spent(now) + k.total <= Cap[now]
        BY <3>2, <4>1, <4>2, SpentIsTotal, BudgetAssumption DEF wouldExceed, Inv
      <4>4. task'[r] = passed
        BY <1>0, <3>2 DEF IsTable
      <4>5. /\ task'[r].op = "checked"
            /\ task'[r].basket = k.basket
            /\ task'[r].total = k.total
            /\ basket'[task'[r].basket].branch = now
        BY <1>0, <4>4
      <4> HIDE DEF now, k
      <4> QED
        BY <1>0, <4>3, <4>5 DEF Fits, Spent
    <3> QED
      BY <2>3, <3>1, <3>2 DEF CheckBudget
  <2>4. CASE Abandon(r)
    <3>1. task'[r].op = "idle"
      BY <1>0, <2>4, IdleOp DEF IsTable, Abandon
    <3> QED
      BY <3>1 DEF Fits
  <2> QED
    BY <2>1, <2>2, <2>3, <2>4
<1> QED
  BY <1>0, <1>1, <1>2, UnchangedSpendsNothing, QuietStep

LEMMA CreateKeepsBudget ==
  ASSUME Inv, Inv', BudgetInv, NEW r \in Requests, CreateBasket(r)
  PROVE  BudgetInv'
<1>0. /\ Shape /\ IsTable(task, Requests)
      /\ task[r] \in Task /\ TaskRefers(task[r]) /\ Fits(task[r])
      /\ UNCHANGED order
  BY DEF CreateBasket, Inv, Shape, TypeInv, CheckoutTypeOK, BudgetInv
<1>1. \A branch \in Branches : Spent(branch)' = Spent(branch) /\ Spent(branch) \in Nat
  BY <1>0, SpentIsTotal DEF Inv, Spent
<1>2. \A b \in Baskets : BasketUnordered(b)' => BasketUnordered(b)
  BY <1>0 DEF BasketUnordered
<1>3. CASE UNCHANGED basket /\ task' = [task EXCEPT ![r] = Idle]
  <2>1. OnlyTask(r) /\ task'[r].op = "idle"
    BY <1>0, <1>3, IdleOp, OneTask
  <2>2. Fits(task[r])'
    BY <2>1 DEF Fits
  <2> QED
    BY <1>0, <1>3, <2>1, <2>2, UnchangedSpendsNothing, QuietStep
<1>4. CASE ~UNCHANGED basket \/ task' # [task EXCEPT ![r] = Idle]
  <2> DEFINE new == [buyer |-> task[r].buyer, branch |-> task[r].branch, status |-> "OPEN",
                     ready |-> FALSE]
  <2>1. PICK x \in Baskets :
          /\ basket[x] = None
          /\ basket' = [basket EXCEPT ![x] = new]
          /\ task' = [task EXCEPT ![r] = [op |-> task[r].want, basket |-> x]]
    BY <1>4 DEF CreateBasket
  <2>2. new.branch \in BranchesOf[new.buyer] /\ task[r].want \in OnBasket
    BY <1>0 DEF CreateBasket, Fits, TaskRefers
  <2>3. basket'[x] = new /\ \A b \in Baskets \ {x} : basket'[b] = basket[b]
    BY <1>0, <2>1 DEF Shape
  <2> HIDE DEF new
  <2>4. \A b \in Baskets : basket'[b] # None =>
          basket'[b].branch \in BranchesOf[basket'[b].buyer]
    BY <2>2, <2>3 DEF BudgetInv
  <2>5. NothingSpent
    BY <1>1, <1>2, <2>1, <2>3 DEF NothingSpent
  <2>6. OnlyTask(r) /\ task'[r] = [op |-> task[r].want, basket |-> x]
    BY <1>0, <2>1, OneTask
  <2>7. ASSUME NEW q \in Requests
        PROVE  Fits(task[q])'
    <3>1. CASE q = r
      BY <2>2, <2>6, <3>1 DEF Fits, OnBasket
    <3>2. CASE q # r
      <4>1. task[q] \in Task /\ TaskRefers(task[q]) /\ Fits(task[q]) /\ task'[q] = task[q]
        BY <2>6, <3>2 DEF Inv, TypeInv, CheckoutTypeOK, Shape, BudgetInv, OnlyTask
      <4> QED
        BY <2>5, <4>1, FitsStill
    <3> QED
      BY <3>1, <3>2
  <2> QED
    BY <2>4, <2>5, <2>7, WithinStill DEF BudgetInv
<1> QED
  BY <1>3, <1>4

LEMMA DetailsKeepBudget ==
  ASSUME Inv, Inv', BudgetInv, NEW r \in Requests, NEW ready \in BOOLEAN, SetDetails(r, ready)
  PROVE  BudgetInv'
<1>0. /\ Shape /\ IsTable(task, Requests) /\ TaskRefers(task[r])
      /\ basket' = [basket EXCEPT ![task[r].basket].ready = ready]
      /\ UNCHANGED order
  BY DEF SetDetails, Inv, Shape
<1>1. task[r].basket \in Baskets /\ basket[task[r].basket] \in Basket
  BY <1>0, BasketRow DEF SetDetails, TaskRefers, NeedsBasket, OnBasket
<1>2. \A b \in Baskets : basket[b] # None =>
        /\ basket'[b] # None
        /\ basket'[b].buyer = basket[b].buyer
        /\ basket'[b].branch = basket[b].branch
  <2> DEFINE row == [basket[task[r].basket] EXCEPT !.ready = ready]
  <2>1. /\ row \in Basket
        /\ row.buyer = basket[task[r].basket].buyer
        /\ row.branch = basket[task[r].basket].branch
    BY <1>1 DEF Basket
  <2>2. row # None
    BY <2>1, BasketIsPresent
  <2>3. /\ basket'[task[r].basket] = row
        /\ \A b \in Baskets \ {task[r].basket} : basket'[b] = basket[b]
    BY <1>0, <1>1 DEF Shape
  <2> HIDE DEF row
  <2> QED
    BY <2>1, <2>2, <2>3
<1>3. \A branch \in Branches : Spent(branch)' = Spent(branch) /\ Spent(branch) \in Nat
  BY <1>0, SpentIsTotal DEF Inv, Spent
<1>4. \A b \in Baskets : BasketUnordered(b)' => BasketUnordered(b)
  BY <1>0 DEF BasketUnordered
<1>5. NothingSpent
  BY <1>2, <1>3, <1>4 DEF NothingSpent
<1>6. OnlyTask(r) /\ task'[r].op = "idle"
  BY <1>0, IdleOp, OneTask DEF SetDetails
<1>7. Fits(task[r])'
  BY <1>6 DEF Fits
<1>8. \A b \in Baskets : basket'[b] # None => basket[b] # None
  BY <1>0, <1>1, BasketIsPresent DEF Shape
<1> QED
  BY <1>5, <1>6, <1>7, <1>8, QuietStep

LEMMA DropKeepsBudget ==
  ASSUME Inv, Inv', BudgetInv, NEW o \in Orders, DropOrder(o)
  PROVE  BudgetInv'
<1>1. Dropped(o) /\ UNCHANGED <<basket, task>>
  BY DEF DropOrder, Dropped
<1>2. \A b \in Baskets : BasketUnordered(b)' => BasketUnordered(b)
  BY <1>1, DroppedRow DEF Inv, BasketUnordered
<1>3. NothingSpent
  BY <1>1, <1>2, DroppedNeverAdds DEF NothingSpent, Inv
<1>4. ASSUME NEW q \in Requests
      PROVE  Fits(task[q])'
  <2>1. task[q] \in Task /\ TaskRefers(task[q]) /\ Fits(task[q]) /\ task'[q] = task[q]
    BY <1>1 DEF Inv, TypeInv, CheckoutTypeOK, Shape, BudgetInv
  <2> QED
    BY <1>3, <2>1, FitsStill
<1> QED
  BY <1>1, <1>3, <1>4, WithinStill DEF BudgetInv

\* The checkout that orders its basket uses the room it was told of.  No other
\* checkout of the branch was told of the same room: its basket would be open
\* too, of a buyer of that branch, and so the same basket.
LEMMA CommitKeepsBudget ==
  ASSUME OneBuyerPerBranch, Inv, Inv', BudgetInv, NEW r \in Requests, CommitPlace(r)
  PROVE  BudgetInv'
<1>0. /\ Shape /\ IsTable(task, Requests)
      /\ task[r] \in Task /\ TaskRefers(task[r]) /\ Fits(task[r])
      /\ task[r].op = "checked"
      /\ task' = [task EXCEPT ![r] = Idle]
  BY DEF CommitPlace, Inv, Shape, TypeInv, CheckoutTypeOK, BudgetInv
<1>1. OnlyTask(r) /\ task'[r].op = "idle"
  BY <1>0, IdleOp, OneTask
<1>2. Fits(task[r])'
  BY <1>1 DEF Fits
<1>3. CASE UNCHANGED <<basket, order>>
  BY <1>1, <1>2, <1>3, UnchangedSpendsNothing, QuietStep
<1>4. CASE ~UNCHANGED <<basket, order>>
  <2>1. PICK b \in Baskets, branch \in Branches, total \in Nat :
          /\ b = task[r].basket
          /\ branch = basket[b].branch
          /\ total = task[r].total
    <3>1. task[r].basket \in Baskets /\ basket[task[r].basket] # None /\ task[r].total \in Nat
      BY <1>0, TaskFields DEF TaskRefers, NeedsBasket
    <3> QED
      BY <1>0, <3>1, BasketRow DEF Basket
  <2> DEFINE row == [basket |-> b, branch |-> branch, status |-> "COMMITTED", total |-> total]
  <2>2. PICK o \in Orders :
          /\ order[o] = None
          /\ order' = [order EXCEPT ![o] = row]
          /\ basket' = [basket EXCEPT ![b].status = "CHECKED_OUT"]
          /\ BasketUnordered(b)
    BY <1>4, <2>1 DEF CommitPlace
  <2>3. /\ row \in Order /\ row.status = "COMMITTED" /\ row.branch = branch
        /\ row.total = total /\ row.basket = b
    BY DEF Order
  <2> HIDE DEF row
  <2>4. basket[b] \in Basket /\ basket[b] # None
    BY <1>0, <2>1, BasketRow DEF TaskRefers, NeedsBasket
  <2>5. \A c \in Baskets :
          /\ basket'[c] # None <=> basket[c] # None
          /\ basket[c] # None => /\ basket'[c].buyer = basket[c].buyer
                                 /\ basket'[c].branch = basket[c].branch
    <3> DEFINE closed == [basket[b] EXCEPT !.status = "CHECKED_OUT"]
    <3>1. closed \in Basket /\ closed.buyer = basket[b].buyer /\ closed.branch = basket[b].branch
      BY <2>4 DEF Basket
    <3>2. closed # None
      BY <3>1, BasketIsPresent
    <3>3. basket'[b] = closed /\ \A c \in Baskets \ {b} : basket'[c] = basket[c]
      BY <1>0, <2>2 DEF Shape
    <3> HIDE DEF closed
    <3> QED
      BY <2>4, <3>1, <3>2, <3>3
  <2>6. \A site \in Branches :
          /\ Spent(site)' = IF site = branch THEN Spent(site) + total ELSE Spent(site)
          /\ Spent(site) \in Nat
    BY <2>2, <2>3, PlacedAddsTotal, SpentIsTotal DEF Inv
  <2>7. Cap[branch] # NoCap => Spent(branch) + total <= Cap[branch]
    BY <1>0, <2>1, <2>2 DEF Fits
  <2>8. order'[o].basket = b /\ order'[o] # None /\ \A p \in Orders \ {o} : order'[p] = order[p]
    <3>1. row # None
      BY <2>3 DEF Order, None
    <3> QED
      BY <1>0, <2>2, <2>3, <3>1 DEF Shape, IsTable
  <2>9. ASSUME NEW c \in Baskets, BasketUnordered(c)', basket[c] # None, basket[c].branch = branch
        PROVE  FALSE
    <3>1. c # b /\ BasketUnordered(c)
      BY <2>2, <2>8, <2>9 DEF BasketUnordered
    <3>2. basket[b].status = "OPEN" /\ basket[c].status = "OPEN"
      BY <2>2, <2>4, <2>9, <3>1 DEF Inv, OrderedOnceThenHistory, BasketUnordered, Shape, Basket
    <3>3. basket[b].buyer = basket[c].buyer
      <4>1. /\ branch \in BranchesOf[basket[b].buyer] /\ basket[b].buyer \in Buyers
            /\ branch \in BranchesOf[basket[c].buyer] /\ basket[c].buyer \in Buyers
        BY <1>0, <2>1, <2>4, <2>9, BasketRow DEF BudgetInv, Basket
      <4> QED
        BY <4>1 DEF OneBuyerPerBranch
    <3> QED
      BY <2>1, <2>4, <2>9, <3>1, <3>2, <3>3 DEF Inv, OneOpenBasket
  <2>10. ASSUME NEW q \in Requests, NEW k, k = task[q], q # r
         PROVE  Fits(k)'
    <3>1. k \in Task /\ TaskRefers(k) /\ Fits(k)
      BY <2>10 DEF Inv, TypeInv, CheckoutTypeOK, Shape, BudgetInv
    <3>2. ASSUME k.op = "checked", BasketUnordered(k.basket)',
                 NEW site \in Branches, site = basket'[k.basket].branch, Cap[site] # NoCap
          PROVE  Spent(site)' + k.total <= Cap[site]
      <4>1. k.basket \in Baskets /\ basket[k.basket] # None
        BY <3>1, <3>2, TaskFields DEF TaskRefers, NeedsBasket
      <4>2. basket[k.basket].branch = site
        BY <2>5, <3>2, <4>1
      <4>3. site # branch
        BY <2>9, <3>2, <4>1, <4>2
      <4>4. Spent(site)' = Spent(site)
        BY <2>6, <4>3
      <4>5. BasketUnordered(k.basket)
        BY <2>2, <2>8, <3>2 DEF BasketUnordered
      <4>6. Spent(site) + k.total <= Cap[site]
        BY <3>1, <3>2, <4>2, <4>5 DEF Fits
      <4> QED
        BY <4>4, <4>6
    <3>3. k.op = "checked" => basket'[k.basket].branch \in Branches
      <4>1. k.op = "checked" => k.basket \in Baskets /\ basket'[k.basket] # None
        BY <2>5, <3>1, TaskFields DEF TaskRefers, NeedsBasket
      <4> QED
        BY <4>1 DEF Inv, Shape, Basket
    <3> QED
      BY <3>1, <3>2, <3>3 DEF Fits
  <2>11. \A q \in Requests : Fits(task[q])'
    BY <1>1, <1>2, <2>10 DEF OnlyTask
  <2>12. \A c \in Baskets : basket'[c] # None => basket'[c].branch \in BranchesOf[basket'[c].buyer]
    BY <2>5 DEF BudgetInv
  <2>13. WithinBudget'
    BY <2>6, <2>7 DEF BudgetInv, WithinBudget
  <2> QED
    BY <2>11, <2>12, <2>13 DEF BudgetInv
<1> QED
  BY <1>3, <1>4

LEMMA NextKeepsBudget ==
  ASSUME OneBuyerPerBranch, Inv, Inv', BudgetInv, [Next]_vars
  PROVE  BudgetInv'
<1>1. CASE LineStep
  BY <1>1, LinesKeepBudget
<1>2. CASE BasketStep
  BY <1>2, RequestsKeepBudget, CreateKeepsBudget, DetailsKeepBudget, DropKeepsBudget,
     CommitKeepsBudget DEF BasketStep
<1>3. CASE UNCHANGED vars
  BY <1>3 DEF vars, BudgetInv, Fits, WithinBudget, Spent, BasketUnordered
<1> QED
  BY <1>1, <1>2, <1>3 DEF Next

LEMMA InitBudget == Init => BudgetInv
<1> SUFFICES ASSUME Init PROVE BudgetInv
  OBVIOUS
<1>1. \A branch \in Branches : Spent(branch) = 0
  <2> TAKE branch \in Branches
  <2>1. Counted(branch) = {}
    BY DEF Init, Counted
  <2>2. DOMAIN Totals(branch) = {}
    BY <2>1 DEF Totals
  <2> QED
    BY <2>2, SumOfNone, InitTyped, SpentIsTotal
<1>2. WithinBudget
  BY <1>1, BudgetAssumption DEF WithinBudget
<1>3. \A r \in Requests : Fits(task[r])
  BY IdleOp DEF Init, Fits
<1> QED
  BY <1>2, <1>3 DEF Init, BudgetInv

\* No branch commits more than its monthly budget while it has one buyer, for
\* any caps, prices and order multiples and any number of tabs and submissions
\* in flight, although checkBudget sums the spend outside the transaction that
\* adds to it: checkBudget and place().
THEOREM BudgetHolds ==
  ASSUME OneBuyerPerBranch
  PROVE  Spec => []WithinBudget
<1>1. Init => Inv /\ BudgetInv
  BY InitTyped, InitShape, InitBudget DEF Inv, Init, OneOpenBasket, OrderedOnceThenHistory
<1>2. Inv /\ [Next]_vars => Inv'
  BY NextTyped, NextKeepsShape, StaysOneOpen, StaysOrderedOnce DEF Inv
<1>3. Inv /\ BudgetInv /\ [Next]_vars => (Inv /\ BudgetInv)'
  BY <1>2, NextKeepsBudget
<1>4. BudgetInv => WithinBudget
  BY DEF BudgetInv
<1> QED
  BY <1>1, <1>3, <1>4, PTL DEF Spec
=============================================================================
