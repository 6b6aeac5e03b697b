------------------------------ MODULE Reports ------------------------------
(***************************************************************************)
(* What the portal says it sold: reports.service.ts over report-periods.ts *)
(* and cache.service.ts.  A report is several queries, each of which sees  *)
(* the orders as they are when it runs, kept under a key for a while.      *)
(*                                                                         *)
(* Time is a number of moments.  Weeks and months are where they start,    *)
(* so that they need not be as long as ours.                               *)
(***************************************************************************)
EXTENDS OrderStatus, Sequences, FiniteSets, FiniteSetsExt, Functions

CONSTANTS
  Sales,         \* orders
  FirmOf,        \* the account of each branch
  SiteOf,        \* the branch each order is for
  TotalOf,       \* what each order comes to
  Viewers,       \* requests that can be in flight at once
  Callers,       \* who asks: [firm, admin]
  Queries,       \* what they ask: [kind, scope, firm, from, to, site, granularity,
                 \*                 topSites]
  Starts,        \* the first moment of each day, week and month
  Window,        \* how far back a report goes by itself (30 days)
  DailyUpTo, WeeklyUpTo,   \* the longest ranges drawn by the day, by the week
  MaxBuckets,    \* 1000 in report-periods.ts
  TTL,           \* cache.ttlSeconds
  Horizon,       \* bound on time
  NotGiven

Platform == "platform"

ASSUME SalesAssumption ==
  /\ IsFiniteSet(Sales)
  /\ SiteOf \in [Sales -> DOMAIN FirmOf]
  /\ TotalOf \in [Sales -> Nat]

ASSUME AskersAssumption ==
  /\ \A caller \in Callers : caller.firm # Platform /\ caller.admin \in BOOLEAN
  /\ \A query \in Queries :
       /\ {query.from, query.to} \subseteq Int \cup {NotGiven}
       /\ query.granularity \in DOMAIN Starts \cup {NotGiven}
       /\ query.kind = "dashboard" => query.topSites \in Nat
  /\ NotGiven \notin Int \cup DOMAIN Starts

ASSUME BoundsAssumption ==
  /\ Window \in Nat
  /\ MaxBuckets \in Nat
  /\ Horizon \in Nat

VARIABLES
  sale,          \* orders as reports read them
  now,
  cache,         \* what Redis holds, by key
  view           \* each viewer's request or the report in front of them

reportVars == <<sale, now, cache, view>>

Unsold == [status |-> "none"]
Away == [op |-> "away"]

ReportsInit ==
  /\ sale = [o \in Sales |-> Unsold]
  /\ now = 0
  /\ cache = [k \in {} |-> Away]
  /\ view = [v \in Viewers |-> Away]

-----------------------------------------------------------------------------
(***************************************************************************)
(* report-periods.ts                                                       *)
(***************************************************************************)
startOfNextUtcDay(at) == Min({s \in Starts["day"] : s > at})

resolveRange(query, at) ==
  LET end == IF query.to = NotGiven THEN startOfNextUtcDay(at) ELSE query.to
  IN  [from |-> IF query.from = NotGiven THEN end - Window ELSE query.from, to |-> end]

previousRange(range) == [from |-> range.from - (range.to - range.from), to |-> range.from]

bucketOf(at, granularity) == Max({s \in Starts[granularity] : s <= at})

bucketsWithin(range, granularity) ==           \* mutant: a week under way is left out
  {s \in Starts[granularity] : range.from <= s /\ s < range.to}
\* A range that has more than MaxBuckets is cut after the first so many.
bucketsIn(range, granularity) ==
  LET all == {s \in Starts[granularity] : bucketOf(range.from, granularity) <= s /\ s < range.to}
  IN  {s \in all : Cardinality({t \in all : t < s}) < MaxBuckets}

defaultGranularity(range) ==
  IF range.to - range.from <= DailyUpTo THEN "day"
  ELSE IF range.to - range.from <= WeeklyUpTo THEN "week" ELSE "month"

\* A moment is in some day, some week and some month.
IsDated(at) ==
  \A g \in DOMAIN Starts :
    \E s \in Starts[g] : s <= at /\ \A t \in Starts[g] : t <= at => t <= s

\* Days, weeks and months follow each other without end; a calendar need reach
\* no further than the reports that are asked for.
ASSUME CalendarAssumption ==
  /\ DOMAIN Starts = {"day", "week", "month"}
  /\ \A g \in DOMAIN Starts : Starts[g] \subseteq Starts["day"] /\ Starts[g] \subseteq Int
  /\ \A at \in 0..Horizon :
       /\ IsDated(at)
       /\ \E s \in Starts["day"] : s > at /\ \A t \in Starts["day"] : t > at => s <= t
       /\ \A query \in Queries : IsDated(resolveRange(query, at).from)

-----------------------------------------------------------------------------
(***************************************************************************)
(* The queries of reports.service.ts.  `of` is whose orders, in which      *)
(* range and branch.                                                       *)
(***************************************************************************)
OPEN_STATUSES == Status \ (TERMINAL_STATUSES \cup {"DRAFT"})
AWAITING_APPROVAL_STATUSES == {"PENDING_APPROVAL"}
IN_FULFILMENT_STATUSES == {"APPROVED", "PROCESSING", "DISPATCHED"}
AWAITING_DISPATCH_STATUSES == {"APPROVED", "PROCESSING"}
IN_TRANSIT_STATUSES == {"DISPATCHED"}

Matching(of) ==
  {o \in Sales : /\ sale[o] # Unsold
                 /\ of.firm \in {Platform, FirmOf[sale[o].site]}
                 /\ of.site \in {NotGiven, sale[o].site}}
Within(orders, range) == {o \in orders : range.from <= sale[o].at /\ sale[o].at < range.to}
OfStatus(orders, statuses) == {o \in orders : sale[o].status \in statuses}

spendWhere(of, range) == OfStatus(Within(Matching(of), range), COMMITTED_STATUSES)

Amount(orders) ==
  [spend |-> SumFunction([o \in orders |-> TotalOf[o]]), orders |-> Cardinality(orders)]

bucketise(orders, range, granularity) ==
  [b \in bucketsIn(range, granularity) |->
     Amount({o \in orders : bucketOf(sale[o].at, granularity) = b})]

SitesOf(orders) == {sale[o].site : o \in orders}
siteSpendRows(orders) ==
  [s \in SitesOf(orders) |-> Amount({o \in orders : sale[o].site = s})]

\* The first n of the branches, biggest spender first; of two that spent as much
\* either may come first.
topOf(rows, n) ==
  {[s \in top |-> rows[s]] :
     top \in {t \in SUBSET DOMAIN rows :
                /\ Cardinality(t) <= n
                /\ t # DOMAIN rows => Cardinality(t) = n
                /\ \A s \in t, left \in DOMAIN rows \ t : rows[left].spend <= rows[s].spend}}

statusRows(orders) ==
  [st \in {sale[o].status : o \in orders} |-> Cardinality(OfStatus(orders, {st}))]

queueCounts(of) ==
  LET count(statuses) == Cardinality(OfStatus(Matching(of), statuses))
  IN  [open |-> count(OPEN_STATUSES),
       awaitingApproval |-> count(AWAITING_APPROVAL_STATUSES),
       inFulfilment |-> count(IN_FULFILMENT_STATUSES),
       awaitingDispatch |-> count(AWAITING_DISPATCH_STATUSES),
       inTransit |-> count(IN_TRANSIT_STATUSES)]

\* The figures each report is made of, one query each, in the order sent.
Parts ==
  [dashboard |-> <<"current", "branches", "before", "trend", "byStatus", "queue", "sites">>,
   summary   |-> <<"current", "branches", "before">>,
   bySite    |-> <<"sites">>,
   status    |-> <<"byStatus">>,
   velocity  |-> <<"trend", "trendBefore">>]
Uncached == {"velocity"}

ASSUME KindsAssumption == \A query \in Queries : query.kind \in DOMAIN Parts

Figure(part, of) ==
  CASE part = "current" -> Amount(spendWhere(of, of.range))
    [] part = "before" -> Amount(spendWhere(of, previousRange(of.range)))
    [] part = "trend" -> bucketise(spendWhere(of, of.range), of.range, of.granularity)
    [] part = "trendBefore" ->
         bucketise(spendWhere(of, previousRange(of.range)), previousRange(of.range), of.granularity)
    [] part = "branches" -> Cardinality(SitesOf(spendWhere(of, of.range)))
    [] part = "sites" -> siteSpendRows(IF of.topSites = 0 THEN {} ELSE spendWhere(of, of.range))
    [] part = "byStatus" -> statusRows(Within(Matching(of), of.range))
    [] part = "queue" -> queueCounts(of)

-----------------------------------------------------------------------------
(***************************************************************************)
(* Asking for a report.                                                    *)
(***************************************************************************)
resolveAccount(caller, query) ==
  IF query.scope = Platform THEN Platform
  ELSE IF caller.admin /\ query.firm # NotGiven THEN query.firm ELSE caller.firm

cacheKeyOfQuery(caller, query) ==              \* mutant: the account is not in the key
  [kind |-> query.kind, firm |-> Platform, from |-> query.from, to |-> query.to,
   site |-> query.site, granularity |-> query.granularity, limit |-> query.topSites]
cacheKeyOfAnySize(caller, query) ==            \* mutant: how many branches is not in the key
  [kind |-> query.kind, firm |-> resolveAccount(caller, query), from |-> query.from,
   to |-> query.to, site |-> query.site, granularity |-> query.granularity, limit |-> NotGiven]
cacheKey(caller, query) ==
  [kind |-> query.kind, firm |-> resolveAccount(caller, query), from |-> query.from,
   to |-> query.to, site |-> query.site, granularity |-> query.granularity,
   limit |-> query.topSites]

At(v, k) == view' = [view EXCEPT ![v] = k]

\* The platform's dashboard is an administrator's; a range must not be empty.
mayAsk(caller, query) ==
  /\ query.scope = Platform => caller.admin
  /\ resolveRange(query, now).from < resolveRange(query, now).to

Shown(caller, query, report) ==
  [op |-> "shown", caller |-> caller, query |-> query, report |-> report]

ServeCached(v, caller, query) ==
  /\ view[v] = Away /\ mayAsk(caller, query)
  /\ query.kind \notin Uncached
  /\ cacheKey(caller, query) \in DOMAIN cache
  /\ At(v, Shown(caller, query, cache[cacheKey(caller, query)].report))
  /\ UNCHANGED <<sale, now, cache>>

\* Nothing is cached, or Redis does not answer.
Compute(v, caller, query) ==
  /\ view[v] = Away /\ mayAsk(caller, query)
  /\ LET range == resolveRange(query, now)
     IN  At(v, [op |-> "computing", caller |-> caller, query |-> query,
                of |-> [firm |-> resolveAccount(caller, query), range |-> range,
                        site |-> query.site, topSites |-> query.topSites,
                        granularity |-> IF query.granularity = NotGiven
                                        THEN defaultGranularity(range) ELSE query.granularity],
                figures |-> [p \in {} |-> 0], torn |-> FALSE])
  /\ UNCHANGED <<sale, now, cache>>

\* The queries of a report are sent together.  Those of one transaction are
\* answered in turn by its connection; those of the platform are in none and
\* the two halves of a velocity in one each, and are answered in any order.
inOneTransaction(v) == view[v].of.firm # Platform /\ view[v].query.kind # "velocity"

RunQuery(v, i) ==
  /\ view[v].op = "computing"
  /\ LET parts == Parts[view[v].query.kind]
         done == DOMAIN view[v].figures
         part == parts[i]
     IN  /\ i \in DOMAIN parts /\ part \notin done
         /\ inOneTransaction(v) => \A j \in 1..(i - 1) : parts[j] \in done
         /\ At(v, [view[v] EXCEPT !.figures =
                     [p \in done \cup {part} |->
                        IF p = part THEN Figure(part, view[v].of) ELSE @[p]]])
  /\ UNCHANGED <<sale, now, cache>>

Complete(v) ==
  /\ view[v].op = "computing"
  /\ DOMAIN view[v].figures = Range(Parts[view[v].query.kind])

\* A dashboard carries as many branches as were asked for, a report by branch all.
ReportsOf(k) ==
  {[of |-> k.of, kind |-> k.query.kind, figures |-> figures, torn |-> k.torn] :
     figures \in IF k.query.kind = "dashboard"
                 THEN {[k.figures EXCEPT !.sites = top] :
                         top \in topOf(k.figures.sites, k.of.topSites)}
                 ELSE {k.figures}}

Answer(v) ==
  /\ Complete(v)
  /\ \E report \in ReportsOf(view[v]) :
       LET k == view[v]
           key == cacheKey(k.caller, k.query)
           kept == [report |-> report, expires |-> now + TTL]
       IN  /\ At(v, Shown(k.caller, k.query, report))
           /\ IF k.query.kind \in Uncached \/ TTL = 0 THEN UNCHANGED cache
              ELSE cache' = [x \in DOMAIN cache \cup {key} |-> IF x = key THEN kept ELSE cache[x]]
  /\ UNCHANGED <<sale, now>>

\* Redis did not take it: the report is shown all the same.
AnswerUncached(v) ==
  /\ Complete(v)
  /\ \E report \in ReportsOf(view[v]) : At(v, Shown(view[v].caller, view[v].query, report))
  /\ UNCHANGED <<sale, now, cache>>

Leave(v) ==
  /\ view[v] # Away
  /\ At(v, Away)
  /\ UNCHANGED <<sale, now, cache>>

-----------------------------------------------------------------------------
\* History: an order changed between two queries of one report.
TearReports ==
  view' = [v \in Viewers |->
             IF view[v].op = "computing" /\ DOMAIN view[v].figures # {}
             THEN [view[v] EXCEPT !.torn = TRUE] ELSE view[v]]

\* Orders as the order lifecycle writes them.
PlaceSale(o, status) ==
  /\ sale[o] = Unsold
  /\ sale' = [sale EXCEPT ![o] = [status |-> status, site |-> SiteOf[o], at |-> now]]
  /\ TearReports
  /\ UNCHANGED <<now, cache>>

MoveSale(o, to) ==
  /\ sale[o] # Unsold
  /\ canTransition(sale[o].status, to)
  /\ sale' = [sale EXCEPT ![o].status = to]
  /\ TearReports
  /\ UNCHANGED <<now, cache>>

Tick ==
  /\ now < Horizon
  /\ now' = now + 1
  /\ cache' = [k \in {x \in DOMAIN cache : cache[x].expires > now'} |-> cache[k]]
  /\ UNCHANGED <<sale, view>>

ReportsNext ==
  \/ \E v \in Viewers :
       \/ \E caller \in Callers, query \in Queries :
            ServeCached(v, caller, query) \/ Compute(v, caller, query)
       \/ \E i \in 1..7 : RunQuery(v, i)
       \/ Answer(v) \/ AnswerUncached(v) \/ Leave(v)
  \/ \E o \in Sales :
       \/ \E status \in {"PENDING_APPROVAL", "APPROVED"} : PlaceSale(o, status)
       \/ \E to \in Status : MoveSale(o, to)
  \/ Tick

ReportsSpec == ReportsInit /\ [][ReportsNext]_reportVars

-----------------------------------------------------------------------------
ReportsOnScreen == {view[v] : v \in {w \in Viewers : view[w].op = "shown"}}

Total(rows) ==
  [spend |-> SumFunction([r \in DOMAIN rows |-> rows[r].spend]),
   orders |-> SumFunction([r \in DOMAIN rows |-> rows[r].orders])]

(***************************************************************************)
(* The figures of one dashboard agree with each other (reports.service.ts: *)
(* the pieces "must never be able to disagree"): the chart adds up to the  *)
(* headline and so do the statuses that count; no order is counted both in *)
(* a range and in the one before.  The branches add up to it too unless    *)
(* there are more than were asked for: then as many as were asked for are  *)
(* listed, and none left out can have outspent one that is listed.  That   *)
(* is so of what was read while no order changed, and of charts that are   *)
(* not cut.                                                                *)
(***************************************************************************)
FiguresAgree(report) ==
  LET f == report.figures
      count(statuses) ==
        SumFunction([st \in DOMAIN f.byStatus \cap statuses |-> f.byStatus[st]])
      asked == report.of.topSites
      listed == Cardinality(DOMAIN f.sites)
  IN  /\ Cardinality(DOMAIN f.trend) < MaxBuckets => Total(f.trend) = f.current
      /\ IF f.branches <= asked
         THEN listed = f.branches /\ Total(f.sites) = f.current
         ELSE /\ listed = asked
              /\ Total(f.sites).orders <= f.current.orders
              /\ \A s \in DOMAIN f.sites :
                   f.current.spend - Total(f.sites).spend
                     \in 0..((f.branches - listed) * f.sites[s].spend)
      /\ count(COMMITTED_STATUSES) = f.current.orders
      /\ \A st \in DOMAIN f.byStatus : f.byStatus[st] > 0
      /\ count(OPEN_STATUSES) <= f.queue.open
      /\ f.queue.awaitingDispatch + f.queue.inTransit = f.queue.inFulfilment
      /\ f.current.orders + f.before.orders <= Cardinality(Sales)

ReportsAddUp ==
  \A k \in ReportsOnScreen :
    k.report.kind = "dashboard" /\ ~k.report.torn => FiguresAgree(k.report)

(***************************************************************************)
(* Whatever is kept for whomever, a viewer is shown the report they asked  *)
(* for, about their own account unless they are an administrator           *)
(* (cache.service.ts: "a key that forgets a dimension serves one customer  *)
(* another's numbers").                                                    *)
(***************************************************************************)
NobodyElsesNumbers ==
  \A k \in ReportsOnScreen :
    LET of == k.report.of
    IN  /\ k.report.kind = k.query.kind
        /\ of.firm = resolveAccount(k.caller, k.query)
        /\ ~k.caller.admin => of.firm = k.caller.firm
        /\ of.site = k.query.site
        /\ of.topSites = k.query.topSites
        /\ k.query.from # NotGiven => of.range.from = k.query.from
        /\ k.query.granularity # NotGiven => of.granularity = k.query.granularity
        /\ "sites" \in DOMAIN k.report.figures =>
             \A s \in DOMAIN k.report.figures.sites :
               k.caller.admin \/ FirmOf[s] = k.caller.firm

(***************************************************************************)
(* The figures of a report agree, and nobody is shown another account's    *)
(* (reports.service.ts, cache.service.ts).                                 *)
(***************************************************************************)
FiguresAreTold == ReportsAddUp /\ NobodyElsesNumbers
=============================================================================
