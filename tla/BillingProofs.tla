--------------------------- MODULE BillingProofs ---------------------------
(***************************************************************************)
(* Proofs about Billing for any number of orders, periods, invoices and    *)
(* operators: its types, the distinctness of invoice numbers, the single   *)
(* draft of a period; and what holds while billing requests are handled    *)
(* one at a time.                                                          *)
(***************************************************************************)
EXTENDS Billing, TLAPS

\* What a request in flight refers to is a row: ids are read, never guessed,
\* and invoices are never deleted.
TasksReferToRows ==
  \A op \in Operators :
    /\ task[op].op \in {"issue", "pay", "void"} => task[op].invoice \in Live
    /\ task[op].op \in {"found", "cleared"} => task[op].draft \in Live

RowsInv == BillingTypeOK /\ TasksReferToRows

\* A row is an invoice, and an id without a row is the empty one.
LEMMA RowsAreInvoices ==
  ASSUME BillingTypeOK
  PROVE  \A i \in Invoices : i \in Live <=> invoice[i] \in Invoice
<1>1. None \notin Invoice
  BY DEF None, Invoice
<1> QED
  BY <1>1 DEF BillingTypeOK, Live

\* A task is one of the shapes its op field names.
LEMMA TaskShapes ==
  ASSUME BillingTypeOK, NEW op \in Operators
  PROVE  /\ task[op].op = "orders" =>
              task[op] \in [op : {"orders", "billed"}, period : Periods, orders : SUBSET Orders]
         /\ task[op].op = "billed" =>
              task[op] \in [op : {"orders", "billed"}, period : Periods, orders : SUBSET Orders]
         /\ task[op].op = "creating" =>
              task[op] \in [op : {"creating"}, period : Periods, orders : SUBSET Orders]
         /\ task[op].op \in {"found", "cleared"} =>
              task[op] \in [op : {"found", "cleared"}, period : Periods,
                            orders : SUBSET Orders, draft : Invoices, cleared : SUBSET Orders]
         /\ task[op].op \in {"issue", "pay", "void"} => task[op] \in Deciding
  BY DEF BillingTypeOK, Generating, Deciding, Idle

\* The first fact of the invariant: rows and requests keep their types, and a
\* request keeps referring to a row.
LEMMA RowsStep ==
  ASSUME RowsInv, [Next]_vars, PeriodAssumption
  PROVE  RowsInv'
<1> USE DEF RowsInv
<1>1. \A i \in Invoices : i \in Live <=> invoice[i] \in Invoice
  BY RowsAreInvoices
<1>2. Live \subseteq Invoices
  BY DEF Live
<1>3. ASSUME NEW o \in Orders, Ship(o) \/ Withdraw(o) PROVE RowsInv'
  BY <1>3 DEF Ship, Withdraw, BillingTypeOK, TasksReferToRows, Live
<1>4. ASSUME NEW op \in Operators, NEW p \in Periods, BeginGenerate(op, p) PROVE RowsInv'
  <2>1. task'[op] \in Generating /\ task'[op].op = "orders"
    BY <1>4 DEF BeginGenerate, Generating, BillingTypeOK
  <2>2. \A e \in Operators \ {op} : task'[e] = task[e]
    BY <1>4 DEF BeginGenerate, BillingTypeOK
  <2>3. BillingTypeOK'
    BY <1>4, <2>1 DEF BeginGenerate, BillingTypeOK
  <2> QED
    BY <1>4, <2>1, <2>2, <2>3 DEF BeginGenerate, TasksReferToRows, Live
<1>5. ASSUME NEW op \in Operators, DropBilled(op) PROVE RowsInv'
  <2>1. task'[op] \in Generating /\ task'[op].op = "billed"
    BY <1>5, TaskShapes DEF DropBilled, Generating, BillingTypeOK
  <2>2. \A e \in Operators \ {op} : task'[e] = task[e]
    BY <1>5 DEF DropBilled, BillingTypeOK
  <2>3. BillingTypeOK'
    BY <1>5, <2>1 DEF DropBilled, BillingTypeOK
  <2> QED
    BY <1>5, <2>1, <2>2, <2>3 DEF DropBilled, TasksReferToRows, Live
<1>6. ASSUME NEW op \in Operators, FindDraft(op) PROVE RowsInv'
  <2>0. task[op] \in [op : {"orders", "billed"}, period : Periods, orders : SUBSET Orders]
    BY <1>6, TaskShapes DEF FindDraft
  <2>1. /\ task'[op] \in Generating
        /\ \/ task'[op].op = "creating"
           \/ task'[op].op = "found" /\ task'[op].draft \in Live
    <3>1. CASE Drafts(task[op].period) = {}
      BY <1>6, <2>0, <3>1 DEF FindDraft, Generating, BillingTypeOK
    <3>2. CASE Drafts(task[op].period) # {}
      <4>1. PICK i \in Drafts(task[op].period) : task' = [task EXCEPT ![op] =
                [op |-> "found", period |-> task[op].period, orders |-> task[op].orders,
                 draft |-> i, cleared |-> {}]]
        BY <1>6, <3>2 DEF FindDraft
      <4>2. i \in Live /\ i \in Invoices
        BY <1>2 DEF Drafts
      <4> QED
        BY <2>0, <4>1, <4>2 DEF Generating, BillingTypeOK
    <3> QED
      BY <3>1, <3>2
  <2>2. /\ \A e \in Operators \ {op} : task'[e] = task[e]
        /\ DOMAIN task' = Operators /\ task' = [e \in Operators |-> task'[e]]
    BY <1>6 DEF FindDraft, BillingTypeOK
  <2>3. BillingTypeOK'
    BY <1>6, <2>1, <2>2 DEF FindDraft, BillingTypeOK
  <2> QED
    BY <1>6, <2>1, <2>2, <2>3 DEF FindDraft, TasksReferToRows, Live
<1>7. ASSUME NEW op \in Operators, ClearLines(op) PROVE RowsInv'
  <2>1. task[op] \in [op : {"found", "cleared"}, period : Periods,
                      orders : SUBSET Orders, draft : Invoices, cleared : SUBSET Orders]
    BY <1>7, TaskShapes DEF ClearLines
  <2>2. task[op].draft \in Live /\ invoice[task[op].draft] \in Invoice
    BY <1>1, <1>7, <2>1 DEF ClearLines, TasksReferToRows
  <2>3. invoice[task[op].draft].lines \in SUBSET Orders
    BY <2>2 DEF Invoice
  <2>4. /\ task'[op] \in Generating
        /\ task'[op].op = "cleared" /\ task'[op].draft = task[op].draft
    BY <1>7, <2>1, <2>3 DEF ClearLines, Generating, BillingTypeOK
  <2>5. \A e \in Operators \ {op} : task'[e] = task[e]
    BY <1>7 DEF ClearLines, BillingTypeOK
  <2>6. BillingTypeOK'
    BY <1>7, <2>4 DEF ClearLines, BillingTypeOK
  <2> QED
    BY <1>7, <2>2, <2>4, <2>5, <2>6 DEF ClearLines, TasksReferToRows, Live
<1>8. ASSUME NEW op \in Operators, CreateDraft(op) PROVE RowsInv'
  <2>1. task[op] \in [op : {"creating"}, period : Periods, orders : SUBSET Orders]
    BY <1>8, TaskShapes DEF CreateDraft
  <2>2. task' = [task EXCEPT ![op] = Idle]
    BY <1>8 DEF CreateDraft
  <2>3. /\ invoice' \in [Invoices -> Invoice \cup {None}]
        /\ \A i \in Live : i \in Live'
    <3>1. CASE DraftSlotFree(task[op].period)
      <4>1. PICK i \in Invoices \ Live : invoice' = [invoice EXCEPT ![i] =
              [status |-> "DRAFT", period |-> task[op].period, number |-> Unnumbered,
               summed |-> task[op].orders, lines |-> task[op].orders]]
        BY <1>8, <3>1 DEF CreateDraft
      <4>2. [status |-> "DRAFT", period |-> task[op].period, number |-> Unnumbered,
             summed |-> task[op].orders, lines |-> task[op].orders] \in Invoice
        BY <2>1 DEF Invoice, InvoiceStatus, Unnumbered
      <4> QED
        BY <4>1, <4>2 DEF BillingTypeOK, Live
    <3>2. CASE ~DraftSlotFree(task[op].period)
      BY <1>8, <3>2 DEF CreateDraft, BillingTypeOK, Live
    <3> QED
      BY <3>1, <3>2
  <2>4. BillingTypeOK'
    BY <1>8, <2>2, <2>3 DEF CreateDraft, BillingTypeOK
  <2> QED
    BY <2>2, <2>3, <2>4 DEF TasksReferToRows, BillingTypeOK, Idle
<1>9. ASSUME NEW op \in Operators, RefillDraft(op) PROVE RowsInv'
  <2> DEFINE k == task[op]
             kept == invoice[k.draft].lines \ k.cleared
             superseded == {e \in Operators \ {op} :
                              task[e].op = "cleared" /\ task[e].draft = k.draft}
  <2>1. k \in [op : {"found", "cleared"}, period : Periods,
               orders : SUBSET Orders, draft : Invoices, cleared : SUBSET Orders]
    BY <1>9, TaskShapes DEF RefillDraft
  <2>2. k.draft \in Live /\ invoice[k.draft] \in Invoice
    BY <1>1, <1>9, <2>1 DEF RefillDraft, TasksReferToRows
  <2>3. CASE kept \cap k.orders = {}
    <3>1. /\ invoice' = [invoice EXCEPT ![k.draft] =
               [invoice[k.draft] EXCEPT !.summed = k.orders, !.lines = kept \cup k.orders]]
          /\ task' = [e \in Operators |->
                        CASE e = op -> Idle
                          [] e \in superseded -> [task[e] EXCEPT !.cleared = {}]
                          [] OTHER -> task[e]]
      BY <1>9, <2>3 DEF RefillDraft
    <3>2. invoice'[k.draft] \in Invoice
      BY <2>1, <2>2, <3>1 DEF Invoice, BillingTypeOK
    <3>3. invoice' \in [Invoices -> Invoice \cup {None}]
      BY <3>1, <3>2 DEF BillingTypeOK
    <3>4. \A i \in Live : i \in Live'
      <4>1. \A i \in Invoices : i # k.draft => invoice'[i] = invoice[i]
        BY <3>1 DEF BillingTypeOK
      <4>2. invoice'[k.draft] # None
        BY <3>2 DEF Invoice, None
      <4> QED
        BY <4>1, <4>2 DEF Live
    <3>5. \A e \in Operators :
            /\ task'[e] \in Generating \cup Deciding \cup {Idle}
            /\ task'[e].op \in {"issue", "pay", "void"} =>
                 task[e].op \in {"issue", "pay", "void"} /\ task'[e].invoice = task[e].invoice
            /\ task'[e].op \in {"found", "cleared"} =>
                 task[e].op \in {"found", "cleared"} /\ task'[e].draft = task[e].draft
      <4> SUFFICES ASSUME NEW e \in Operators
                   PROVE  /\ task'[e] \in Generating \cup Deciding \cup {Idle}
                          /\ task'[e].op \in {"issue", "pay", "void"} =>
                               /\ task[e].op \in {"issue", "pay", "void"}
                               /\ task'[e].invoice = task[e].invoice
                          /\ task'[e].op \in {"found", "cleared"} =>
                               /\ task[e].op \in {"found", "cleared"}
                               /\ task'[e].draft = task[e].draft
        OBVIOUS
      <4>1. CASE e = op
        BY <3>1, <4>1 DEF Idle
      <4>2. CASE e # op /\ e \in superseded
        <5>1. task[e] \in [op : {"found", "cleared"}, period : Periods,
                           orders : SUBSET Orders, draft : Invoices, cleared : SUBSET Orders]
          BY <4>2, TaskShapes
        <5>2. task'[e] = [task[e] EXCEPT !.cleared = {}]
          BY <3>1, <4>2
        <5> QED
          BY <4>2, <5>1, <5>2 DEF Generating
      <4>3. CASE e # op /\ e \notin superseded
        BY <3>1, <4>3 DEF BillingTypeOK
      <4> QED
        BY <4>1, <4>2, <4>3
    <3>6. task' \in [Operators -> Generating \cup Deciding \cup {Idle}]
      BY <3>1, <3>5
    <3>7. BillingTypeOK'
      BY <1>9, <3>3, <3>6 DEF RefillDraft, BillingTypeOK
    <3> QED
      BY <3>4, <3>5, <3>7 DEF TasksReferToRows
  <2>4. CASE kept \cap k.orders # {}
    <3>1. invoice' = invoice /\ task' = [task EXCEPT ![op] = Idle]
      BY <1>9, <2>4 DEF RefillDraft
    <3> QED
      BY <1>9, <3>1 DEF RefillDraft, BillingTypeOK, TasksReferToRows, Live, Idle
  <2> QED
    BY <2>3, <2>4
<1>10. ASSUME NEW op \in Operators, NEW what \in {"issue", "pay", "void"},
              NEW i \in Invoices, Begin(op, what, i)
       PROVE  RowsInv'
  <2>1. task'[op] = [op |-> what, invoice |-> i] /\ i \in Live
    BY <1>10 DEF Begin, BillingTypeOK
  <2>2. task'[op] \in Deciding
    BY <2>1 DEF Deciding
  <2>3. BillingTypeOK'
    BY <1>10, <2>2 DEF Begin, BillingTypeOK
  <2> QED
    BY <1>10, <2>1, <2>3 DEF Begin, TasksReferToRows, Live, BillingTypeOK
<1>11. ASSUME NEW op \in Operators, CommitIssue(op) \/ CommitPay(op) \/ CommitVoid(op)
       PROVE  RowsInv'
  <2>1. task[op] \in Deciding /\ task[op].invoice \in Live
    BY <1>11, TaskShapes DEF CommitIssue, CommitPay, CommitVoid, TasksReferToRows
  <2> DEFINE i == task[op].invoice
  <2>2. i \in Invoices /\ invoice[i] \in Invoice
    BY <1>1, <1>2, <2>1
  <2>3. /\ lastNumber' \in Nat
        /\ invoice'[i] \in Invoice
        /\ invoice' = [invoice EXCEPT ![i] = invoice'[i]]
    <3>1. CASE CommitIssue(op)
      <4>1. /\ lastNumber' = lastNumber + 1
            /\ invoice' = [invoice EXCEPT ![i] =
                  [invoice[i] EXCEPT !.status = "ISSUED", !.number = lastNumber + 1]]
        BY <3>1 DEF CommitIssue, nextInvoiceNumber
      <4>2. lastNumber + 1 \in Nat
        BY DEF BillingTypeOK
      <4>3. invoice'[i] = [invoice[i] EXCEPT !.status = "ISSUED", !.number = lastNumber + 1]
        BY <2>2, <4>1 DEF BillingTypeOK
      <4>4. invoice'[i] \in Invoice
        BY ONLY <2>2, <4>2, <4>3 DEF Invoice, InvoiceStatus
      <4>5. invoice' = [invoice EXCEPT ![i] = invoice'[i]]
        BY <4>1, <4>3
      <4> QED
        BY <4>1, <4>2, <4>4, <4>5
    <3>2. CASE CommitPay(op) \/ CommitVoid(op)
      BY <2>2, <3>2 DEF CommitPay, CommitVoid, Invoice, InvoiceStatus, BillingTypeOK
    <3> QED
      BY <1>11, <3>1, <3>2
  <2>4. \A j \in Live : j \in Live'
    <3>1. invoice'[i] # None
      BY <2>3 DEF Invoice, None
    <3> QED
      BY <2>2, <2>3, <3>1 DEF Live, BillingTypeOK
  <2>5. /\ task' = [task EXCEPT ![op] = Idle]
        /\ shipped' = shipped
    BY <1>11 DEF CommitIssue, CommitPay, CommitVoid
  <2>6. BillingTypeOK'
    BY <2>2, <2>3, <2>5 DEF BillingTypeOK
  <2> QED
    BY <2>4, <2>5, <2>6 DEF TasksReferToRows, BillingTypeOK, Idle
<1>12. ASSUME NEW op \in Operators, Abandon(op) PROVE RowsInv'
  BY <1>12 DEF Abandon, BillingTypeOK, TasksReferToRows, Live, Idle
<1>13. CASE UNCHANGED vars
  BY <1>13 DEF vars, BillingTypeOK, TasksReferToRows, Live
<1> QED
  BY <1>3, <1>4, <1>5, <1>6, <1>7, <1>8, <1>9, <1>10, <1>11, <1>12, <1>13 DEF Next

\* Billing's rows, counter and requests keep their types under every
\* interleaving of generate, issue, markPaid and voidInvoice, and a request in
\* flight always refers to a row.
THEOREM BillingTypeCorrect == Spec => []BillingTypeOK
<1>1. Init => RowsInv
  BY DEF Init, RowsInv, BillingTypeOK, TasksReferToRows, Idle
<1>2. RowsInv /\ [Next]_vars => RowsInv'
  BY RowsStep, PeriodAssumption
<1>3. RowsInv => BillingTypeOK
  BY DEF RowsInv
<1> QED
  BY <1>1, <1>2, <1>3, PTL DEF Spec

-----------------------------------------------------------------------------
(***************************************************************************)
(* Numbers and drafts.  Only three steps write a row's status, period or   *)
(* number: CreateDraft, and the commits.                                   *)
(***************************************************************************)

\* Every step but those keeps the counter, the set of rows, and each row's
\* status, period and number.
HeadersKept ==
  /\ lastNumber' = lastNumber
  /\ Live' = Live
  /\ \A i \in Live : /\ invoice'[i].status = invoice[i].status
                     /\ invoice'[i].period = invoice[i].period
                     /\ invoice'[i].number = invoice[i].number

\* What a step does to the headers.
LEMMA HeaderStep ==
  ASSUME RowsInv, [Next]_vars
  PROVE  \/ HeadersKept
         \/ \E op \in Operators : CreateDraft(op) \/ CommitIssue(op)
         \/ \E op \in Operators : CommitPay(op) \/ CommitVoid(op)
<1>1. ASSUME UNCHANGED <<invoice, lastNumber>> PROVE HeadersKept
  BY <1>1 DEF HeadersKept, Live
<1>2. ASSUME NEW op \in Operators, RefillDraft(op) PROVE HeadersKept
  <2> DEFINE d == task[op].draft
             kept == invoice[d].lines \ task[op].cleared
  <2>1. d \in Live /\ d \in Invoices
    BY <1>2 DEF RefillDraft, RowsInv, TasksReferToRows, Live
  <2>2. invoice[d] \in Invoice
    BY <2>1, RowsAreInvoices DEF RowsInv
  <2>3. lastNumber' = lastNumber
    BY <1>2 DEF RefillDraft
  <2>4. CASE kept \cap task[op].orders = {}
    <3>1. invoice' = [invoice EXCEPT ![d] = [invoice[d] EXCEPT
              !.summed = task[op].orders, !.lines = kept \cup task[op].orders]]
      BY <1>2, <2>4 DEF RefillDraft
    <3>2. \A i \in Invoices : i # d => invoice'[i] = invoice[i]
      BY <3>1 DEF RowsInv, BillingTypeOK
    <3>3. /\ invoice'[d].status = invoice[d].status
          /\ invoice'[d].period = invoice[d].period
          /\ invoice'[d].number = invoice[d].number
      BY <2>1, <2>2, <3>1 DEF Invoice, RowsInv, BillingTypeOK
    <3>4. invoice'[d] # None
      <4>1. invoice'[d].status \in InvoiceStatus
        BY <2>2, <3>3 DEF Invoice
      <4> QED
        BY <4>1 DEF InvoiceStatus, None
    <3> QED
      BY <2>1, <2>3, <3>2, <3>3, <3>4 DEF HeadersKept, Live
  <2>5. CASE kept \cap task[op].orders # {}
    BY <1>1, <1>2, <2>5 DEF RefillDraft
  <2> QED
    BY <2>4, <2>5
<1>3. CASE UNCHANGED vars
  BY <1>1, <1>3 DEF vars
<1> QED
  BY <1>1, <1>2, <1>3
     DEF Next, Ship, Withdraw, BeginGenerate, DropBilled, FindDraft, ClearLines, Begin, Abandon

\* A committing request changes one row's status, and its number when it is
\* issued under the next one; no row appears.
LEMMA CommitEffect ==
  ASSUME RowsInv, NEW op \in Operators,
         CommitIssue(op) \/ CommitPay(op) \/ CommitVoid(op)
  PROVE  LET i == task[op].invoice
         IN  /\ i \in Live /\ i \in Invoices
             /\ Live' = Live
             /\ \A j \in Live \ {i} : invoice'[j] = invoice[j]
             /\ invoice'[i].status # "DRAFT"
             /\ \/ lastNumber' = lastNumber /\ invoice'[i].number = invoice[i].number
                \/ lastNumber' = lastNumber + 1 /\ invoice'[i].number = lastNumber + 1
<1> DEFINE i == task[op].invoice
<1>1. i \in Live /\ i \in Invoices
  BY DEF CommitIssue, CommitPay, CommitVoid, RowsInv, TasksReferToRows, Live
<1>2. invoice[i] \in Invoice
  BY <1>1, RowsAreInvoices DEF RowsInv
<1>3. /\ \A j \in Invoices \ {i} : invoice'[j] = invoice[j]
      /\ invoice'[i].status \in InvoiceStatus \ {"DRAFT"}
  <2>1. CASE CommitIssue(op)
    <3>1. invoice' = [invoice EXCEPT ![i] =
            [invoice[i] EXCEPT !.status = "ISSUED", !.number = nextInvoiceNumber]]
      BY <2>1 DEF CommitIssue
    <3>2. invoice'[i] = [invoice[i] EXCEPT !.status = "ISSUED", !.number = nextInvoiceNumber]
      BY <1>1, <3>1 DEF RowsInv, BillingTypeOK
    <3>3. invoice'[i].status = "ISSUED"
      BY <1>2, <3>2 DEF Invoice
    <3> QED
      BY <3>1, <3>3 DEF InvoiceStatus, RowsInv, BillingTypeOK
  <2>2. CASE CommitPay(op) \/ CommitVoid(op)
    BY <1>1, <1>2, <2>2
       DEF CommitPay, CommitVoid, Invoice, InvoiceStatus, RowsInv, BillingTypeOK
  <2> QED
    BY <2>1, <2>2
<1>4. \/ lastNumber' = lastNumber /\ invoice'[i].number = invoice[i].number
      \/ lastNumber' = lastNumber + 1 /\ invoice'[i].number = lastNumber + 1
  <2>1. CASE CommitIssue(op)
    <3>1. /\ lastNumber' = lastNumber + 1
          /\ invoice'[i] = [invoice[i] EXCEPT !.status = "ISSUED", !.number = lastNumber + 1]
      BY <1>1, <2>1 DEF CommitIssue, nextInvoiceNumber, RowsInv, BillingTypeOK
    <3> QED
      BY <1>2, <3>1 DEF Invoice
  <2>2. CASE CommitPay(op) \/ CommitVoid(op)
    BY <1>1, <1>2, <2>2 DEF CommitPay, CommitVoid, Invoice, RowsInv, BillingTypeOK
  <2> QED
    BY <2>1, <2>2
<1>5. invoice'[i] # None
  BY <1>3 DEF None, InvoiceStatus
<1> QED
  BY <1>1, <1>3, <1>4, <1>5 DEF Live

\* The new row of CreateDraft: a draft without a number, in a period that had
\* none.
LEMMA CreateEffect ==
  ASSUME RowsInv, NEW op \in Operators, CreateDraft(op)
  PROVE  /\ lastNumber' = lastNumber
         /\ \/ invoice' = invoice
            \/ \E i \in Invoices \ Live :
                 /\ Drafts(task[op].period) = {}
                 /\ Live' = Live \cup {i}
                 /\ \A j \in Live : invoice'[j] = invoice[j]
                 /\ invoice'[i].period = task[op].period
                 /\ invoice'[i].number = Unnumbered
<1>1. lastNumber' = lastNumber
  BY DEF CreateDraft
<1>2. CASE ~DraftSlotFree(task[op].period)
  BY <1>1, <1>2 DEF CreateDraft
<1>3. CASE DraftSlotFree(task[op].period)
  <2>1. PICK i \in Invoices \ Live : invoice' = [invoice EXCEPT ![i] =
          [status |-> "DRAFT", period |-> task[op].period, number |-> Unnumbered,
           summed |-> task[op].orders, lines |-> task[op].orders]]
    BY <1>3 DEF CreateDraft
  <2>2. invoice'[i] = [status |-> "DRAFT", period |-> task[op].period,
                       number |-> Unnumbered, summed |-> task[op].orders,
                       lines |-> task[op].orders]
    BY <2>1 DEF RowsInv, BillingTypeOK
  <2>3. \A j \in Invoices \ {i} : invoice'[j] = invoice[j]
    BY <2>1 DEF RowsInv, BillingTypeOK
  <2>4. invoice'[i] # None
    BY <2>2 DEF None
  <2>5. Live' = Live \cup {i} /\ \A j \in Live : invoice'[j] = invoice[j]
    BY <2>3, <2>4 DEF Live
  <2> QED
    BY <1>1, <1>3, <2>2, <2>5 DEF DraftSlotFree
<1> QED
  BY <1>2, <1>3

\* No two invoices ever carry the same number and none is ahead of the counter,
\* however many operators issue at once: the increment that allocates a number
\* is part of the transaction that writes it.
THEOREM NumbersStayDistinct == Spec => []NumbersAreDistinct
<1>1. Init => NumbersAreDistinct
  BY DEF Init, NumbersAreDistinct, Live
<1>2. ASSUME RowsInv, NumbersAreDistinct, [Next]_vars PROVE NumbersAreDistinct'
  <2>0. lastNumber \in Nat /\ \A i \in Live : invoice[i].number \in Nat
    BY <1>2, RowsAreInvoices DEF RowsInv, BillingTypeOK, Live, Invoice
  <2>1. CASE HeadersKept
    BY <1>2, <2>1 DEF HeadersKept, NumbersAreDistinct
  <2>2. ASSUME NEW op \in Operators, CreateDraft(op) PROVE NumbersAreDistinct'
    <3>1. CASE invoice' = invoice
      BY <1>2, <2>2, <3>1, CreateEffect DEF NumbersAreDistinct, Live
    <3>2. CASE invoice' # invoice
      BY <1>2, <2>0, <2>2, <3>2, CreateEffect DEF NumbersAreDistinct, Unnumbered
    <3> QED
      BY <3>1, <3>2
  <2>3. ASSUME NEW op \in Operators, CommitIssue(op) \/ CommitPay(op) \/ CommitVoid(op)
        PROVE  NumbersAreDistinct'
    BY <1>2, <2>0, <2>3, CommitEffect DEF NumbersAreDistinct, Unnumbered
  <2> QED
    BY <1>2, <2>1, <2>2, <2>3, HeaderStep
<1>3. Init => RowsInv
  BY DEF Init, RowsInv, BillingTypeOK, TasksReferToRows, Idle
<1>4. RowsInv /\ [Next]_vars => RowsInv'
  BY RowsStep, PeriodAssumption
<1> QED
  BY <1>1, <1>2, <1>3, <1>4, PTL DEF Spec

LEMMA DraftsStep ==
  ASSUME RowsInv, OneDraftPerPeriod, [Next]_vars
  PROVE  OneDraftPerPeriod'
<1>1. CASE HeadersKept
  BY <1>1 DEF HeadersKept, OneDraftPerPeriod
<1>2. ASSUME NEW op \in Operators, CreateDraft(op) PROVE OneDraftPerPeriod'
  <2>1. CASE invoice' = invoice
    BY <2>1 DEF OneDraftPerPeriod, Live
  <2>2. CASE invoice' # invoice
    BY <1>2, <2>2, CreateEffect DEF OneDraftPerPeriod, Drafts
  <2> QED
    BY <2>1, <2>2
<1>3. ASSUME NEW op \in Operators, CommitIssue(op) \/ CommitPay(op) \/ CommitVoid(op)
      PROVE  OneDraftPerPeriod'
  BY <1>3, CommitEffect DEF OneDraftPerPeriod
<1> QED
  BY <1>1, <1>2, <1>3, HeaderStep

\* A period never has two drafts, although generate looks for one and creates
\* one in separate statements: no step but a creation, which the partial unique
\* index admits only when there is none, makes a row a draft.
THEOREM DraftsStaySingle == Spec => []OneDraftPerPeriod
<1>1. Init => OneDraftPerPeriod
  BY DEF Init, OneDraftPerPeriod, Live
<1>2. Init => RowsInv
  BY DEF Init, RowsInv, BillingTypeOK, TasksReferToRows, Idle
<1>3. RowsInv /\ [Next]_vars => RowsInv'
  BY RowsStep, PeriodAssumption
<1>4. RowsInv /\ OneDraftPerPeriod /\ [Next]_vars => OneDraftPerPeriod'
  BY DraftsStep
<1> QED
  BY <1>1, <1>2, <1>3, <1>4, PTL DEF Spec

-----------------------------------------------------------------------------
(***************************************************************************)
(* One request at a time.  What a request has read is then still so when   *)
(* it writes, and five promises follow from one invariant.                 *)
(***************************************************************************)
OneAtATime == \A a, b \in Operators : a = b

\* The lines of an invoice are of its month, and are what it charges.
LinesAreOfMonth ==
  \A i \in Live : /\ invoice[i].summed = invoice[i].lines
                  /\ \A o \in invoice[i].lines : PeriodOf[o] = invoice[i].period

\* An order is on one invoice that has not been voided, drafts included.
LinesApart ==
  \A i, j \in Live :
    i # j /\ invoice[i].status # "VOID" /\ invoice[j].status # "VOID"
      => invoice[i].lines \cap invoice[j].lines = {}

DraftsUnnumbered ==
  \A i \in Live : invoice[i].status = "DRAFT" => invoice[i].number = Unnumbered

\* What the request in flight has read is still so.
ReadingsHold ==
  \A op \in Operators :
    LET k == task[op]
    IN  /\ k.op \in {"issue", "pay", "void"} => canBegin(k.op, invoice[k.invoice])
        /\ k.op \in {"orders", "billed", "creating", "found", "cleared"} =>
             \A o \in k.orders : PeriodOf[o] = k.period
        /\ k.op \in {"billed", "creating", "found", "cleared"} => k.orders \cap Billed = {}
        /\ k.op \in {"found", "cleared"} =>
             invoice[k.draft].status = "DRAFT" /\ invoice[k.draft].period = k.period
        /\ k.op = "cleared" => k.cleared = invoice[k.draft].lines

RowsFit == LinesAreOfMonth /\ LinesApart /\ DraftsUnnumbered /\ NumbersAreGapless
SerialInv == RowsInv /\ OneDraftPerPeriod /\ RowsFit /\ ReadingsHold

\* What is so of the rows while none of them changes.
LEMMA RowsStay ==
  ASSUME UNCHANGED invoice, UNCHANGED lastNumber
  PROVE  /\ Live' = Live /\ Billed' = Billed
         /\ RowsFit => RowsFit'
BY DEF Live, Billed, RowsFit, LinesAreOfMonth, LinesApart, DraftsUnnumbered, NumbersAreGapless

\* A request that is over has read nothing.
LEMMA NothingRead ==
  ASSUME OneAtATime, BillingTypeOK, NEW op \in Operators, task'[op] = Idle
  PROVE  ReadingsHold'
BY DEF OneAtATime, ReadingsHold, Idle

\* What is read of the rows, by the one request there is.
LEMMA ReadingsStep ==
  ASSUME OneAtATime, SerialInv, NEW op \in Operators,
         \/ \E p \in Periods : BeginGenerate(op, p)
         \/ DropBilled(op)
         \/ FindDraft(op)
         \/ ClearLines(op)
         \/ \E what \in {"issue", "pay", "void"}, i \in Invoices : Begin(op, what, i)
  PROVE  ReadingsHold'
<1>0. /\ UNCHANGED invoice /\ UNCHANGED lastNumber /\ Billed' = Billed
      /\ BillingTypeOK /\ ReadingsHold
  BY RowsStay DEF BeginGenerate, DropBilled, FindDraft, ClearLines, Begin, SerialInv, RowsInv
<1> DEFINE k == task'[op]
<1> SUFFICES /\ k.op \in {"issue", "pay", "void"} => canBegin(k.op, invoice[k.invoice])
             /\ k.op \in {"orders", "billed", "creating", "found", "cleared"} =>
                  \A o \in k.orders : PeriodOf[o] = k.period
             /\ k.op \in {"billed", "creating", "found", "cleared"} => k.orders \cap Billed = {}
             /\ k.op \in {"found", "cleared"} =>
                  invoice[k.draft].status = "DRAFT" /\ invoice[k.draft].period = k.period
             /\ k.op = "cleared" => k.cleared = invoice[k.draft].lines
  BY <1>0 DEF OneAtATime, ReadingsHold, canBegin
<1>1. CASE \E p \in Periods : BeginGenerate(op, p)
  <2>1. PICK p \in Periods :
          k = [op |-> "orders", period |-> p, orders |-> {o \in shipped : PeriodOf[o] = p}]
    BY <1>0, <1>1 DEF BeginGenerate, BillingTypeOK
  <2>2. k.op = "orders" /\ k.period = p /\ \A o \in k.orders : PeriodOf[o] = p
    BY <2>1
  <2> HIDE DEF k
  <2> QED
    BY <2>2
<1>2. CASE DropBilled(op)
  <2>1. /\ k = [op |-> "billed", period |-> task[op].period, orders |-> task[op].orders \ Billed]
        /\ task[op].op = "orders"
    BY <1>0, <1>2 DEF DropBilled, BillingTypeOK
  <2>2. /\ k.op = "billed" /\ k.period = task[op].period
        /\ k.orders \subseteq task[op].orders /\ k.orders \cap Billed = {}
    BY <2>1
  <2> HIDE DEF k
  <2> QED
    BY <1>0, <2>1, <2>2 DEF ReadingsHold
<1>3. CASE FindDraft(op)
  <2>1. /\ task[op].op = "billed"
        /\ \/ k = [op |-> "creating", period |-> task[op].period, orders |-> task[op].orders]
           \/ \E i \in Drafts(task[op].period) :
                k = [op |-> "found", period |-> task[op].period, orders |-> task[op].orders,
                     draft |-> i, cleared |-> {}]
    BY <1>0, <1>3 DEF FindDraft, BillingTypeOK
  <2>2. /\ k.period = task[op].period /\ k.orders = task[op].orders
        /\ \/ k.op = "creating"
           \/ k.op = "found" /\ k.draft \in Drafts(task[op].period)
    <3>1. CASE k = [op |-> "creating", period |-> task[op].period, orders |-> task[op].orders]
      BY <3>1
    <3>2. ASSUME NEW i \in Drafts(task[op].period),
                 k = [op |-> "found", period |-> task[op].period, orders |-> task[op].orders,
                      draft |-> i, cleared |-> {}]
          PROVE  /\ k.period = task[op].period /\ k.orders = task[op].orders
                 /\ k.op = "found" /\ k.draft = i
      BY <3>2
    <3> HIDE DEF k
    <3> QED
      BY <2>1, <3>1, <3>2
  <2> HIDE DEF k
  <2> QED
    BY <1>0, <2>1, <2>2 DEF ReadingsHold, Drafts
<1>4. CASE ClearLines(op)
  <2>1. task[op] \in [op : {"found", "cleared"}, period : Periods,
                      orders : SUBSET Orders, draft : Invoices, cleared : SUBSET Orders]
    BY <1>0, <1>4, TaskShapes DEF ClearLines
  <2>2. /\ k = [task[op] EXCEPT !.op = "cleared", !.cleared = invoice[task[op].draft].lines]
        /\ task[op].op = "found"
    BY <1>0, <1>4 DEF ClearLines, BillingTypeOK
  <2>3. /\ k.op = "cleared" /\ k.period = task[op].period /\ k.orders = task[op].orders
        /\ k.draft = task[op].draft /\ k.cleared = invoice[task[op].draft].lines
    BY <2>1, <2>2
  <2> HIDE DEF k
  <2> QED
    BY <1>0, <2>2, <2>3 DEF ReadingsHold
<1>5. CASE \E what \in {"issue", "pay", "void"}, i \in Invoices : Begin(op, what, i)
  <2>1. PICK what \in {"issue", "pay", "void"}, i \in Invoices :
          k = [op |-> what, invoice |-> i] /\ canBegin(what, invoice[i])
    BY <1>0, <1>5 DEF Begin, BillingTypeOK
  <2>2. k.op = what /\ k.invoice = i
    BY <2>1
  <2> HIDE DEF k
  <2> QED
    BY <2>1, <2>2
<1> QED
  BY <1>1, <1>2, <1>3, <1>4, <1>5

\* A commit writes one row that its request may still write.
LEMMA CommitRow ==
  ASSUME SerialInv, NEW op \in Operators,
         CommitIssue(op) \/ CommitPay(op) \/ CommitVoid(op)
  PROVE  LET i == task[op].invoice
         IN  /\ i \in Live /\ Live' = Live
             /\ \A j \in Live \ {i} : invoice'[j] = invoice[j]
             /\ invoice'[i].lines = invoice[i].lines /\ invoice'[i].summed = invoice[i].summed
             /\ invoice'[i].period = invoice[i].period
             /\ \/ /\ invoice[i].status = "DRAFT" /\ invoice'[i].status = "ISSUED"
                   /\ invoice'[i].number = lastNumber + 1 /\ lastNumber' = lastNumber + 1
                \/ /\ <<invoice[i].status, invoice'[i].status>> \in
                        {<<"ISSUED", "PAID">>, <<"ISSUED", "VOID">>, <<"PAID", "VOID">>}
                   /\ invoice'[i].number = invoice[i].number /\ lastNumber' = lastNumber
<1> DEFINE i == task[op].invoice
<1>1. RowsInv /\ ReadingsHold
  BY DEF SerialInv
<1>2. i \in Live /\ i \in Invoices /\ Live' = Live /\ \A j \in Live \ {i} : invoice'[j] = invoice[j]
  BY <1>1, CommitEffect
<1>3. invoice[i] \in Invoice
  BY <1>1, <1>2, RowsAreInvoices DEF RowsInv
<1>4. CASE CommitIssue(op)
  <2>1. /\ task[op].op = "issue" /\ lastNumber' = lastNumber + 1
        /\ invoice' = [invoice EXCEPT ![i] =
             [invoice[i] EXCEPT !.status = "ISSUED", !.number = lastNumber + 1]]
    BY <1>4 DEF CommitIssue, nextInvoiceNumber
  <2>2. invoice[i].status = "DRAFT"
    BY <1>1, <2>1 DEF ReadingsHold, canBegin
  <2> DEFINE new == [invoice[i] EXCEPT !.status = "ISSUED", !.number = lastNumber + 1]
  <2>3. /\ new.status = "ISSUED" /\ new.number = lastNumber + 1 /\ new.lines = invoice[i].lines
        /\ new.summed = invoice[i].summed /\ new.period = invoice[i].period
    BY <1>3 DEF Invoice
  <2>4. invoice'[i] = new
    BY <1>1, <1>2, <2>1 DEF RowsInv, BillingTypeOK
  <2> HIDE DEF new
  <2> QED
    BY <1>2, <2>1, <2>2, <2>3, <2>4
<1>5. ASSUME NEW to \in {"PAID", "VOID"}, invoice' = [invoice EXCEPT ![i].status = to]
      PROVE  /\ invoice'[i].status = to /\ invoice'[i].number = invoice[i].number
             /\ invoice'[i].lines = invoice[i].lines /\ invoice'[i].summed = invoice[i].summed
             /\ invoice'[i].period = invoice[i].period
  <2> DEFINE new == [invoice[i] EXCEPT !.status = to]
  <2>1. /\ new.status = to /\ new.number = invoice[i].number /\ new.lines = invoice[i].lines
        /\ new.summed = invoice[i].summed /\ new.period = invoice[i].period
    BY <1>3 DEF Invoice
  <2>2. invoice'[i] = new
    BY <1>1, <1>2, <1>5 DEF RowsInv, BillingTypeOK
  <2> HIDE DEF new
  <2> QED
    BY <2>1, <2>2
<1>6. CASE CommitPay(op)
  <2>1. /\ task[op].op = "pay" /\ lastNumber' = lastNumber
        /\ invoice' = [invoice EXCEPT ![i].status = "PAID"]
    BY <1>6 DEF CommitPay
  <2>2. invoice[i].status = "ISSUED"
    BY <1>1, <2>1 DEF ReadingsHold, canBegin
  <2> QED
    BY <1>2, <1>5, <2>1, <2>2
<1>7. CASE CommitVoid(op)
  <2>1. /\ task[op].op = "void" /\ lastNumber' = lastNumber
        /\ invoice' = [invoice EXCEPT ![i].status = "VOID"]
    BY <1>7 DEF CommitVoid
  <2>2. invoice[i].status \in {"ISSUED", "PAID"}
    BY <1>1, <2>1 DEF ReadingsHold, canBegin
  <2> QED
    BY <1>2, <1>5, <2>1, <2>2
<1> QED
  BY <1>4, <1>6, <1>7

LEMMA CommitFits ==
  ASSUME SerialInv, NEW op \in Operators,
         CommitIssue(op) \/ CommitPay(op) \/ CommitVoid(op)
  PROVE  RowsFit'
<1> DEFINE i == task[op].invoice
<1>1. /\ i \in Live /\ Live' = Live /\ RowsFit /\ lastNumber \in Nat
      /\ \A j \in Live \ {i} : invoice'[j] = invoice[j]
      /\ invoice'[i].lines = invoice[i].lines /\ invoice'[i].summed = invoice[i].summed
      /\ invoice'[i].period = invoice[i].period
      /\ invoice'[i].status # "DRAFT" /\ invoice[i].status # "VOID"
      /\ \/ /\ invoice[i].status = "DRAFT"
            /\ invoice'[i].number = lastNumber + 1 /\ lastNumber' = lastNumber + 1
         \/ invoice'[i].number = invoice[i].number /\ lastNumber' = lastNumber
  BY CommitRow DEF SerialInv, RowsInv, BillingTypeOK
<1> HIDE DEF i
<1>2. LinesAreOfMonth'
  BY <1>1 DEF RowsFit, LinesAreOfMonth
<1>3. LinesApart'
  BY <1>1 DEF RowsFit, LinesApart
<1>4. DraftsUnnumbered'
  BY <1>1 DEF RowsFit, DraftsUnnumbered
<1>5. NumbersAreGapless'
  <2>1. \A n \in 1..lastNumber : \E j \in Live : invoice'[j].number = n
    BY <1>1 DEF RowsFit, NumbersAreGapless, DraftsUnnumbered, Unnumbered
  <2> QED
    BY <1>1, <2>1 DEF NumbersAreGapless
<1> QED
  BY <1>2, <1>3, <1>4, <1>5 DEF RowsFit

\* A new draft is of orders that no issued invoice has and no other draft is
\* of their month.
LEMMA CreateFits ==
  ASSUME SerialInv, NEW op \in Operators, CreateDraft(op)
  PROVE  RowsFit'
<1> DEFINE k == task[op]
<1>1. lastNumber' = lastNumber /\ RowsFit /\ ReadingsHold /\ RowsInv /\ k.op = "creating"
  BY DEF SerialInv, CreateDraft
<1>2. CASE invoice' = invoice
  BY <1>1, <1>2, RowsStay
<1>3. CASE invoice' # invoice
  <2> DEFINE new == [status |-> "DRAFT", period |-> k.period, number |-> Unnumbered,
                     summed |-> k.orders, lines |-> k.orders]
  <2>1. PICK i \in Invoices \ Live :
          Drafts(k.period) = {} /\ invoice' = [invoice EXCEPT ![i] = new]
    BY <1>3 DEF CreateDraft, DraftSlotFree
  <2>2. /\ new.status = "DRAFT" /\ new.period = k.period /\ new.number = Unnumbered
        /\ new.summed = k.orders /\ new.lines = k.orders /\ new # None
    BY DEF None
  <2> HIDE DEF new
  <2>3. /\ invoice'[i] = new /\ Live' = Live \cup {i} /\ i \notin Live
        /\ \A j \in Live : invoice'[j] = invoice[j]
    BY <1>1, <2>1, <2>2 DEF RowsInv, BillingTypeOK, Live
  <2>4. \A o \in k.orders : PeriodOf[o] = k.period
    BY <1>1 DEF ReadingsHold
  <2>5. \A j \in Live : invoice[j].status # "VOID" => invoice[j].lines \cap k.orders = {}
    <3> SUFFICES ASSUME NEW j \in Live, invoice[j].status # "VOID"
                 PROVE  invoice[j].lines \cap k.orders = {}
      OBVIOUS
    <3>1. CASE invoice[j].status = "DRAFT"
      BY <1>1, <2>1, <2>4, <3>1 DEF Drafts, RowsFit, LinesAreOfMonth
    <3>2. CASE invoice[j].status \in {"ISSUED", "PAID"}
      BY <1>1, <3>2 DEF ReadingsHold, Billed
    <3>3. invoice[j] \in Invoice
      BY <1>1, RowsAreInvoices DEF RowsInv, Live
    <3> QED
      BY <3>1, <3>2, <3>3 DEF Invoice, InvoiceStatus
  <2>6. LinesAreOfMonth'
    BY <1>1, <2>2, <2>3, <2>4 DEF RowsFit, LinesAreOfMonth
  <2>7. LinesApart'
    BY <1>1, <2>2, <2>3, <2>5 DEF RowsFit, LinesApart
  <2>8. DraftsUnnumbered' /\ NumbersAreGapless'
    BY <1>1, <2>2, <2>3 DEF RowsFit, DraftsUnnumbered, NumbersAreGapless
  <2> QED
    BY <2>6, <2>7, <2>8 DEF RowsFit
<1> QED
  BY <1>2, <1>3

\* A draft is filled again from the orders of its own month.
LEMMA RefillRow ==
  ASSUME SerialInv, NEW op \in Operators, RefillDraft(op), invoice' # invoice
  PROVE  LET k == task[op]
         IN  /\ k.op = "cleared" /\ k.draft \in Live /\ Live' = Live /\ lastNumber' = lastNumber
             /\ \A j \in Live \ {k.draft} : invoice'[j] = invoice[j]
             /\ invoice[k.draft].status = "DRAFT" /\ invoice[k.draft].period = k.period
             /\ invoice'[k.draft].status = "DRAFT" /\ invoice'[k.draft].period = k.period
             /\ invoice'[k.draft].number = invoice[k.draft].number
             /\ invoice'[k.draft].summed = k.orders /\ invoice'[k.draft].lines = k.orders
<1> DEFINE k == task[op]
           new == [invoice[k.draft] EXCEPT
                     !.summed = k.orders,
                     !.lines = (invoice[k.draft].lines \ k.cleared) \cup k.orders]
<1>1. /\ RowsInv /\ ReadingsHold /\ k.op = "cleared" /\ lastNumber' = lastNumber
      /\ invoice' = [invoice EXCEPT ![k.draft] = new]
  BY DEF SerialInv, RefillDraft
<1>2. /\ k.draft \in Live /\ k.cleared = invoice[k.draft].lines
      /\ invoice[k.draft].status = "DRAFT" /\ invoice[k.draft].period = k.period
  BY <1>1 DEF RowsInv, TasksReferToRows, ReadingsHold
<1>3. k.draft \in Invoices /\ invoice[k.draft] \in Invoice
  BY <1>1, <1>2, RowsAreInvoices DEF RowsInv, Live
<1>4. /\ new.summed = k.orders /\ new.lines = k.orders /\ new.status = invoice[k.draft].status
      /\ new.period = invoice[k.draft].period /\ new.number = invoice[k.draft].number
  BY <1>2, <1>3 DEF Invoice
<1>5. new # None
  BY <1>2, <1>4 DEF None
<1> HIDE DEF new
<1>6. /\ invoice'[k.draft] = new /\ Live' = Live
      /\ \A j \in Live \ {k.draft} : invoice'[j] = invoice[j]
  BY <1>1, <1>2, <1>3, <1>5 DEF RowsInv, BillingTypeOK, Live
<1> QED
  BY <1>1, <1>2, <1>4, <1>6

LEMMA RefillFits ==
  ASSUME SerialInv, NEW op \in Operators, RefillDraft(op)
  PROVE  RowsFit'
<1> DEFINE k == task[op]
           d == k.draft
<1>1. lastNumber' = lastNumber /\ RowsFit /\ ReadingsHold /\ RowsInv /\ OneDraftPerPeriod
  BY DEF SerialInv, RefillDraft
<1>2. CASE invoice' = invoice
  BY <1>1, <1>2, RowsStay
<1>3. CASE invoice' # invoice
  <2>1. /\ k.op = "cleared" /\ d \in Live /\ Live' = Live
        /\ \A j \in Live \ {d} : invoice'[j] = invoice[j]
        /\ invoice[d].status = "DRAFT" /\ invoice[d].period = k.period
        /\ invoice'[d].status = "DRAFT" /\ invoice'[d].period = k.period
        /\ invoice'[d].number = invoice[d].number
        /\ invoice'[d].summed = k.orders /\ invoice'[d].lines = k.orders
    BY <1>3, RefillRow
  <2>2. \A o \in k.orders : PeriodOf[o] = k.period
    BY <1>1, <2>1 DEF ReadingsHold
  <2>3. \A j \in Live \ {d} :
          invoice[j].status # "VOID" => invoice[j].lines \cap k.orders = {}
    <3> SUFFICES ASSUME NEW j \in Live \ {d}, invoice[j].status # "VOID"
                 PROVE  invoice[j].lines \cap k.orders = {}
      OBVIOUS
    <3>1. CASE invoice[j].status = "DRAFT"
      <4>1. invoice[j].period # k.period
        BY <1>1, <2>1, <3>1 DEF OneDraftPerPeriod
      <4> QED
        BY <1>1, <2>2, <4>1 DEF RowsFit, LinesAreOfMonth
    <3>2. CASE invoice[j].status \in {"ISSUED", "PAID"}
      BY <1>1, <2>1, <3>2 DEF ReadingsHold, Billed
    <3>3. invoice[j] \in Invoice
      BY <1>1, RowsAreInvoices DEF RowsInv, Live
    <3> QED
      BY <3>1, <3>2, <3>3 DEF Invoice, InvoiceStatus
  <2> HIDE DEF k, d
  <2>4. LinesAreOfMonth'
    BY <1>1, <2>1, <2>2 DEF RowsFit, LinesAreOfMonth
  <2>5. LinesApart'
    BY <1>1, <2>1, <2>3 DEF RowsFit, LinesApart
  <2>6. DraftsUnnumbered' /\ NumbersAreGapless'
    BY <1>1, <2>1 DEF RowsFit, DraftsUnnumbered, NumbersAreGapless
  <2> QED
    BY <2>4, <2>5, <2>6 DEF RowsFit
<1> QED
  BY <1>2, <1>3

LEMMA SerialStarts == Init => SerialInv
<1> SUFFICES ASSUME Init PROVE SerialInv
  OBVIOUS
<1>1. Live = {} /\ lastNumber = 0 /\ \A op \in Operators : task[op] = Idle
  BY DEF Init, Live
<1>2. RowsInv
  BY DEF Init, RowsInv, BillingTypeOK, TasksReferToRows, Idle
<1>3. RowsFit
  BY <1>1 DEF RowsFit, LinesAreOfMonth, LinesApart, DraftsUnnumbered, NumbersAreGapless
<1> QED
  BY <1>1, <1>2, <1>3 DEF SerialInv, OneDraftPerPeriod, ReadingsHold, Idle

LEMMA SerialStep ==
  ASSUME OneAtATime, SerialInv, [Next]_vars
  PROVE  SerialInv'
<1>0. RowsInv /\ OneDraftPerPeriod /\ RowsFit /\ ReadingsHold /\ BillingTypeOK
  BY DEF SerialInv, RowsInv
<1>1. RowsInv' /\ OneDraftPerPeriod'
  BY <1>0, RowsStep, DraftsStep, PeriodAssumption
<1>2. CASE UNCHANGED <<invoice, lastNumber, task>>
  BY <1>0, <1>1, <1>2, RowsStay DEF SerialInv, ReadingsHold, canBegin
<1>3. ASSUME NEW op \in Operators,
             \/ \E p \in Periods : BeginGenerate(op, p)
             \/ DropBilled(op)
             \/ FindDraft(op)
             \/ ClearLines(op)
             \/ \E what \in {"issue", "pay", "void"}, i \in Invoices : Begin(op, what, i)
      PROVE  SerialInv'
  <2>1. UNCHANGED invoice /\ UNCHANGED lastNumber
    BY <1>3 DEF BeginGenerate, DropBilled, FindDraft, ClearLines, Begin
  <2> QED
    BY <1>0, <1>1, <1>3, <2>1, RowsStay, ReadingsStep DEF SerialInv
<1>4. ASSUME NEW op \in Operators,
             \/ CreateDraft(op) \/ RefillDraft(op) \/ Abandon(op)
             \/ CommitIssue(op) \/ CommitPay(op) \/ CommitVoid(op)
      PROVE  SerialInv'
  <2>1. task'[op] = Idle
    <3>1. CASE RefillDraft(op)
      BY <1>0, <3>1 DEF RefillDraft, BillingTypeOK
    <3>2. CASE ~RefillDraft(op)
      BY <1>0, <1>4, <3>2
      DEF CreateDraft, Abandon, CommitIssue, CommitPay, CommitVoid, BillingTypeOK
    <3> QED
      BY <3>1, <3>2
  <2>2. ReadingsHold'
    BY <1>0, <2>1, NothingRead
  <2>3. RowsFit'
    <3>1. CASE Abandon(op)
      BY <1>0, <3>1, RowsStay DEF Abandon
    <3> QED
      BY <1>4, <3>1, CreateFits, RefillFits, CommitFits
  <2> QED
    BY <1>1, <2>2, <2>3 DEF SerialInv
<1> QED
  BY <1>2, <1>3, <1>4 DEF Next, Ship, Withdraw, vars

LEMMA SerialAlways ==
  ASSUME OneAtATime
  PROVE  Spec => []SerialInv
<1>1. SerialInv /\ [Next]_vars => SerialInv'
  BY SerialStep
<1> QED
  BY <1>1, SerialStarts, PTL DEF Spec

(***************************************************************************)
(* With one billing request at a time an order is on one invoice that has  *)
(* been issued and not voided: a draft of its month is the only other      *)
(* place it could be, and generate reads what has been billed.             *)
(***************************************************************************)
THEOREM SerialBilledOnce ==
  ASSUME OneAtATime
  PROVE  Spec => []OrderBilledOnce
<1>1. SerialInv => OrderBilledOnce
  BY DEF SerialInv, RowsFit, LinesApart, OrderBilledOnce
<1> QED
  BY <1>1, SerialAlways, PTL

(***************************************************************************)
(* With one billing request at a time an invoice charges what its lines    *)
(* add up to: generate leaves none of a draft's old lines behind.          *)
(***************************************************************************)
THEOREM SerialTotalsMatch ==
  ASSUME OneAtATime
  PROVE  Spec => []TotalMatchesLines
<1>1. SerialInv => TotalMatchesLines
  BY DEF SerialInv, RowsFit, LinesAreOfMonth, TotalMatchesLines
<1> QED
  BY <1>1, SerialAlways, PTL

(***************************************************************************)
(* With one billing request at a time every number handed out is on an     *)
(* invoice: only a draft is issued, and a draft has no number to lose.     *)
(***************************************************************************)
THEOREM SerialNumbersGapless ==
  ASSUME OneAtATime
  PROVE  Spec => []NumbersAreGapless
<1>1. SerialInv => NumbersAreGapless
  BY DEF SerialInv, RowsFit
<1> QED
  BY <1>1, SerialAlways, PTL

\* How far one step may take an invoice.
LEMMA InvoiceStep ==
  ASSUME SerialInv, [Next]_vars, NEW i \in Live
  PROVE  /\ invoice[i].status # "DRAFT" =>
              invoice'[i].lines = invoice[i].lines /\ invoice'[i].summed = invoice[i].summed
         /\ invoice'[i].status # invoice[i].status =>
              <<invoice[i].status, invoice'[i].status>> \in
                {<<"DRAFT", "ISSUED">>, <<"ISSUED", "PAID">>, <<"ISSUED", "VOID">>,
                 <<"PAID", "VOID">>}
<1>1. CASE UNCHANGED invoice
  BY <1>1
<1>2. ASSUME NEW op \in Operators, CreateDraft(op) PROVE UNCHANGED invoice[i]
  BY <1>2, CreateEffect DEF SerialInv
<1>3. ASSUME NEW op \in Operators, RefillDraft(op), invoice' # invoice
      PROVE  \/ UNCHANGED invoice[i]
             \/ invoice[i].status = "DRAFT" /\ invoice'[i].status = "DRAFT"
  BY <1>3, RefillRow
<1>4. ASSUME NEW op \in Operators, CommitIssue(op) \/ CommitPay(op) \/ CommitVoid(op)
      PROVE  \/ UNCHANGED invoice[i]
             \/ /\ invoice'[i].lines = invoice[i].lines /\ invoice'[i].summed = invoice[i].summed
                /\ <<invoice[i].status, invoice'[i].status>> \in
                     {<<"DRAFT", "ISSUED">>, <<"ISSUED", "PAID">>, <<"ISSUED", "VOID">>,
                      <<"PAID", "VOID">>}
  BY <1>4, CommitRow
<1>5. \/ UNCHANGED invoice
      \/ \E op \in Operators :
           \/ CreateDraft(op) \/ RefillDraft(op)
           \/ CommitIssue(op) \/ CommitPay(op) \/ CommitVoid(op)
  BY DEF Next, vars, Ship, Withdraw, BeginGenerate, DropBilled, FindDraft, ClearLines, Begin,
         Abandon
<1> QED
  BY <1>1, <1>2, <1>3, <1>4, <1>5

(***************************************************************************)
(* With one billing request at a time nothing changes what a customer was  *)
(* billed once the invoice is issued: generate refills a row that is still *)
(* the draft it found.                                                     *)
(***************************************************************************)
THEOREM SerialIssuedFrozen ==
  ASSUME OneAtATime
  PROVE  Spec => IssuedIsFrozen
<1>1. SerialInv /\ [Next]_vars =>
        [\A i \in Live : invoice[i].status # "DRAFT" =>
           /\ invoice'[i].lines = invoice[i].lines
           /\ invoice'[i].summed = invoice[i].summed]_vars
  BY InvoiceStep
<1> QED
  BY <1>1, SerialAlways, PTL DEF Spec, IssuedIsFrozen

(***************************************************************************)
(* With one billing request at a time only a draft is issued, only an      *)
(* issued invoice is settled, and a void one stays void.                   *)
(***************************************************************************)
THEOREM SerialLifecycle ==
  ASSUME OneAtATime
  PROVE  Spec => InvoiceLifecycle
<1>1. SerialInv /\ [Next]_vars =>
        [\A i \in Live : invoice'[i].status # invoice[i].status =>
           <<invoice[i].status, invoice'[i].status>> \in
             {<<"DRAFT", "ISSUED">>, <<"ISSUED", "PAID">>, <<"ISSUED", "VOID">>,
              <<"PAID", "VOID">>}]_vars
  BY InvoiceStep
<1> QED
  BY <1>1, SerialAlways, PTL DEF Spec, InvoiceLifecycle
=============================================================================
