------------------------------ MODULE Billing ------------------------------
(***************************************************************************)
(* Monthly invoices: billing.service.ts drafting them from shipped orders, *)
(* issuing them under the next number, settling and voiding them.          *)
(*                                                                         *)
(* Each handler reads in transactions of their own and then writes in      *)
(* another, at READ COMMITTED; what it has read is kept in `task`.  The    *)
(* write transaction of generate is three steps, because what it does to   *)
(* the draft it found depends on what others commit in between.  A year's  *)
(* invoices are modelled, so there is one row of invoice_sequences.        *)
(***************************************************************************)
EXTENDS Integers, FiniteSets

CONSTANTS
  Orders,      \* orders that can be billed
  Periods,     \* an account's billing periods
  PeriodOf,    \* the period stamped on each order
  Invoices,    \* ids of invoice rows, a bound on how many are created
  Operators,   \* billing requests that can be in flight at once
  MaxNumber    \* bound on the numbers allocated

ASSUME PeriodAssumption == PeriodOf \in [Orders -> Periods]
ASSUME NumberAssumption == MaxNumber \in Nat

VARIABLES
  shipped,     \* orders that are DISPATCHED or DELIVERED
  invoice,     \* the invoice rows with their lines
  lastNumber,  \* invoice_sequences.lastNumber
  task         \* what each request in flight has read

vars == <<shipped, invoice, lastNumber, task>>

Idle == [op |-> "idle"]
None == [status |-> "ABSENT"]
Unnumbered == 0

InvoiceStatus == {"DRAFT", "ISSUED", "PAID", "VOID"}

\* `summed` is the set of orders that subtotal, total and orderCount were
\* computed from; `lines` is the set of orders with an invoice line.
Invoice ==
  [status : InvoiceStatus, period : Periods, number : Nat,
   summed : SUBSET Orders, lines : SUBSET Orders]

Generating ==
  [op : {"orders", "billed"}, period : Periods, orders : SUBSET Orders]
    \cup [op : {"creating"}, period : Periods, orders : SUBSET Orders]
    \cup [op : {"found", "cleared"}, period : Periods, orders : SUBSET Orders,
          draft : Invoices, cleared : SUBSET Orders]

Deciding == [op : {"issue", "pay", "void"}, invoice : Invoices]

BillingTypeOK ==
  /\ shipped \subseteq Orders
  /\ invoice \in [Invoices -> Invoice \cup {None}]
  /\ lastNumber \in Nat
  /\ task \in [Operators -> Generating \cup Deciding \cup {Idle}]

Init ==
  /\ shipped = {}
  /\ invoice = [i \in Invoices |-> None]
  /\ lastNumber = 0
  /\ task = [op \in Operators |-> Idle]

-----------------------------------------------------------------------------
(***************************************************************************)
(* The orders, as the lifecycle moves them.  Withdraw is the stale write   *)
(* of changeStatus that takes a shipped order to CANCELLED.                *)
(***************************************************************************)
Ship(o) ==
  /\ o \notin shipped
  /\ shipped' = shipped \cup {o}
  /\ UNCHANGED <<invoice, lastNumber, task>>

Withdraw(o) ==
  /\ o \in shipped
  /\ shipped' = shipped \ {o}
  /\ UNCHANGED <<invoice, lastNumber, task>>

-----------------------------------------------------------------------------
(***************************************************************************)
(* generate.                                                               *)
(***************************************************************************)
Live == {i \in Invoices : invoice[i] # None}

Drafts(p) ==
  {i \in Live : invoice[i].status = "DRAFT" /\ invoice[i].period = p}

\* Orders with a line on an invoice that has been issued.
BilledUnpaid ==                                      \* mutant: PAID forgotten
  UNION {invoice[i].lines : i \in {j \in Live : invoice[j].status = "ISSUED"}}
Billed ==
  UNION {invoice[i].lines : i \in {j \in Live : invoice[j].status \in {"ISSUED", "PAID"}}}

BeginGenerate(op, p) ==
  /\ task[op] = Idle
  /\ task' = [task EXCEPT ![op] =
       [op |-> "orders", period |-> p, orders |-> {o \in shipped : PeriodOf[o] = p}]]
  /\ UNCHANGED <<shipped, invoice, lastNumber>>

DropBilled(op) ==
  /\ task[op].op = "orders"
  /\ task' = [task EXCEPT ![op] =
       [op |-> "billed", period |-> task[op].period, orders |-> task[op].orders \ Billed]]
  /\ UNCHANGED <<shipped, invoice, lastNumber>>

\* The write transaction's first statement.
FindAnyInvoice(op) ==                                \* mutant: not only a DRAFT
  /\ task[op].op = "billed"
  /\ LET k == task[op]
         found == {i \in Live : invoice[i].period = k.period}
     IN  IF found = {}
           THEN task' = [task EXCEPT ![op] =
                  [op |-> "creating", period |-> k.period, orders |-> k.orders]]
           ELSE \E i \in found : task' = [task EXCEPT ![op] =
                  [op |-> "found", period |-> k.period, orders |-> k.orders,
                   draft |-> i, cleared |-> {}]]
  /\ UNCHANGED <<shipped, invoice, lastNumber>>
FindDraft(op) ==
  /\ task[op].op = "billed"
  /\ LET k == task[op]
     IN  IF Drafts(k.period) = {}
           THEN task' = [task EXCEPT ![op] =
                  [op |-> "creating", period |-> k.period, orders |-> k.orders]]
           ELSE \E i \in Drafts(k.period) : task' = [task EXCEPT ![op] =
                  [op |-> "found", period |-> k.period, orders |-> k.orders,
                   draft |-> i, cleared |-> {}]]
  /\ UNCHANGED <<shipped, invoice, lastNumber>>

\* deleteMany marks the lines it sees; they go when the transaction commits.
ClearNothing(op) ==                                  \* mutant: merge the lines
  /\ task[op].op = "found"
  /\ task' = [task EXCEPT ![op].op = "cleared"]
  /\ UNCHANGED <<shipped, invoice, lastNumber>>
ClearLines(op) ==
  /\ task[op].op = "found"
  /\ LET k == task[op]
     IN  task' = [task EXCEPT ![op] =
           [k EXCEPT !.op = "cleared", !.cleared = invoice[k.draft].lines]]
  /\ UNCHANGED <<shipped, invoice, lastNumber>>

\* The partial unique index on drafts, for an insert.
DraftSlotAlwaysFree(p) == TRUE                       \* mutant: the index dropped
DraftSlotFree(p) == Drafts(p) = {}

CreateDraft(op) ==
  /\ task[op].op = "creating"
  /\ LET k == task[op]
     IN  IF DraftSlotFree(k.period)
           THEN \E i \in Invoices \ Live :
                  invoice' = [invoice EXCEPT ![i] =
                    [status |-> "DRAFT", period |-> k.period, number |-> Unnumbered,
                     summed |-> k.orders, lines |-> k.orders]]
           ELSE UNCHANGED invoice
  /\ task' = [task EXCEPT ![op] = Idle]
  /\ UNCHANGED <<shipped, lastNumber>>

\* The header is updated by id, and the lines inserted.  A line that another
\* run committed after this one's deleteMany makes the insert of the same order
\* fail, by the unique index; lines deleted here are no longer there for a
\* deleteMany that waited on them, which does not see the new ones either.
RefillDraft(op) ==
  /\ task[op].op = "cleared"
  /\ LET k == task[op]
         draft == invoice[k.draft]
         kept == draft.lines \ k.cleared
         superseded == {e \in Operators \ {op} :
                          task[e].op = "cleared" /\ task[e].draft = k.draft}
     IN  IF kept \cap k.orders = {}
           THEN /\ invoice' = [invoice EXCEPT ![k.draft] =
                     [draft EXCEPT !.summed = k.orders, !.lines = kept \cup k.orders]]
                /\ task' = [e \in Operators |->
                              CASE e = op -> Idle
                                [] e \in superseded -> [task[e] EXCEPT !.cleared = {}]
                                [] OTHER -> task[e]]
           ELSE UNCHANGED invoice /\ task' = [task EXCEPT ![op] = Idle]
  /\ UNCHANGED <<shipped, lastNumber>>

-----------------------------------------------------------------------------
(***************************************************************************)
(* issue, markPaid and voidInvoice: checked on the row as it was read,     *)
(* written by id alone.                                                    *)
(***************************************************************************)
canBeginFromVoid(what, inv) ==                       \* mutant: VOID can be settled
  CASE what = "issue" -> inv.status = "DRAFT" /\ inv.summed # {}
    [] what = "pay"   -> inv.status \in {"ISSUED", "VOID"}
    [] what = "void"  -> inv.status \in {"ISSUED", "PAID"}
canBegin(what, inv) ==
  CASE what = "issue" -> inv.status = "DRAFT" /\ inv.summed # {}
    [] what = "pay"   -> inv.status = "ISSUED"
    [] what = "void"  -> inv.status \in {"ISSUED", "PAID"}

Begin(op, what, i) ==
  /\ task[op] = Idle
  /\ i \in Live
  /\ canBegin(what, invoice[i])
  /\ task' = [task EXCEPT ![op] = [op |-> what, invoice |-> i]]
  /\ UNCHANGED <<shipped, invoice, lastNumber>>

\* The counter's row is locked by the update that increments it.
nextInvoiceNumber == lastNumber + 1

CommitIssueCounterKept(op) ==                        \* mutant: counter not kept
  /\ task[op].op = "issue"
  /\ LET i == task[op].invoice
     IN  invoice' = [invoice EXCEPT ![i] =
           [invoice[i] EXCEPT !.status = "ISSUED", !.number = nextInvoiceNumber]]
  /\ task' = [task EXCEPT ![op] = Idle]
  /\ UNCHANGED <<shipped, lastNumber>>
CommitIssue(op) ==
  /\ task[op].op = "issue"
  /\ nextInvoiceNumber <= MaxNumber
  /\ lastNumber' = nextInvoiceNumber
  /\ LET i == task[op].invoice
     IN  invoice' = [invoice EXCEPT ![i] =
           [invoice[i] EXCEPT !.status = "ISSUED", !.number = nextInvoiceNumber]]
  /\ task' = [task EXCEPT ![op] = Idle]
  /\ UNCHANGED shipped

CommitPay(op) ==
  /\ task[op].op = "pay"
  /\ invoice' = [invoice EXCEPT ![task[op].invoice].status = "PAID"]
  /\ task' = [task EXCEPT ![op] = Idle]
  /\ UNCHANGED <<shipped, lastNumber>>

CommitVoidDropsNumber(op) ==                         \* mutant: number cleared
  /\ task[op].op = "void"
  /\ LET i == task[op].invoice
     IN  invoice' = [invoice EXCEPT ![i] =
           [invoice[i] EXCEPT !.status = "VOID", !.number = Unnumbered]]
  /\ task' = [task EXCEPT ![op] = Idle]
  /\ UNCHANGED <<shipped, lastNumber>>
CommitVoid(op) ==
  /\ task[op].op = "void"
  /\ invoice' = [invoice EXCEPT ![task[op].invoice].status = "VOID"]
  /\ task' = [task EXCEPT ![op] = Idle]
  /\ UNCHANGED <<shipped, lastNumber>>

\* The process stops; an open transaction rolls back.
AbandonReturnsNumber(op) ==                          \* mutant: counter decremented
  /\ task[op] # Idle
  /\ lastNumber' = lastNumber - 1
  /\ task' = [task EXCEPT ![op] = Idle]
  /\ UNCHANGED <<shipped, invoice>>
Abandon(op) ==
  /\ task[op] # Idle
  /\ task' = [task EXCEPT ![op] = Idle]
  /\ UNCHANGED <<shipped, invoice, lastNumber>>

-----------------------------------------------------------------------------
Next ==
  \/ \E o \in Orders : Ship(o)
  \/ \E o \in Orders : Withdraw(o)
  \/ \E op \in Operators, p \in Periods : BeginGenerate(op, p)
  \/ \E op \in Operators : DropBilled(op)
  \/ \E op \in Operators : FindDraft(op)
  \/ \E op \in Operators : ClearLines(op)
  \/ \E op \in Operators : CreateDraft(op)
  \/ \E op \in Operators : RefillDraft(op)
  \/ \E op \in Operators, what \in {"issue", "pay", "void"}, i \in Invoices :
       Begin(op, what, i)
  \/ \E op \in Operators : CommitIssue(op)
  \/ \E op \in Operators : CommitPay(op)
  \/ \E op \in Operators : CommitVoid(op)
  \/ \E op \in Operators : Abandon(op)

Spec == Init /\ [][Next]_vars

-----------------------------------------------------------------------------
(***************************************************************************)
(* What holds however requests interleave.                                 *)
(***************************************************************************)

\* Two operators never hold the same number, and none runs ahead of the
\* counter, whatever an invoice's number is overwritten with.
NumbersAreDistinct ==
  /\ \A i \in Live : invoice[i].number <= lastNumber
  /\ \A i, j \in Live :
       i # j /\ invoice[i].number # Unnumbered => invoice[i].number # invoice[j].number

\* An operator never finds two drafts of a month to choose between
\* (the billing migration, invoices_one_draft_per_period), although generate
\* looks for the draft and creates one in separate statements.
OneDraftPerPeriod ==
  \A i, j \in Live :
    /\ invoice[i].status = "DRAFT" /\ invoice[j].status = "DRAFT"
    /\ invoice[i].period = invoice[j].period
    => i = j

-----------------------------------------------------------------------------
(***************************************************************************)
(* What holds when billing requests are made one at a time.  With a second *)
(* request in flight each of these is broken; BilledTwice shows the first. *)
(***************************************************************************)

\* An order is on at most one invoice that has been issued and not voided
\* (billing.service.ts:120).
OrderBilledOnce ==
  \A i, j \in Live :
    /\ i # j
    /\ {invoice[i].status, invoice[j].status} \subseteq {"ISSUED", "PAID"}
    => invoice[i].lines \cap invoice[j].lines = {}

\* What an invoice charges is what its lines add up to.
TotalMatchesLines == \A i \in Live : invoice[i].summed = invoice[i].lines

\* The invoice numbers are unbroken: every number handed out is on an invoice,
\* voided or not (the billing migration, "Gapless invoice numbers").
NumbersAreGapless ==
  \A n \in 1..lastNumber : \E i \in Live : invoice[i].number = n

\* Issuing freezes the lines: nothing after it changes what a customer was
\* billed (billing.service.ts:67).
IssuedIsFrozen ==
  [][\A i \in Live : invoice[i].status # "DRAFT" =>
       /\ invoice'[i].lines = invoice[i].lines
       /\ invoice'[i].summed = invoice[i].summed]_vars

\* Only a draft is issued and only an issued invoice settled, and a void one
\* stays void (billing.service.ts:302).
InvoiceLifecycle ==
  [][\A i \in Live : invoice'[i].status # invoice[i].status =>
       <<invoice[i].status, invoice'[i].status>> \in
         {<<"DRAFT", "ISSUED">>, <<"ISSUED", "PAID">>, <<"ISSUED", "VOID">>,
          <<"PAID", "VOID">>}]_vars
=============================================================================
