---------------------------- MODULE MCBackground ----------------------------
(***************************************************************************)
(* Instances for TLC of what is kept outside the database, in Redis: jobs  *)
(* and reports.  The three kinds of job share no row: a behaviour is about *)
(* the rows of one import, two imports of one row, an image, a letter, or  *)
(* reports.                                                                *)
(***************************************************************************)
EXTENDS Background, Reports, TLC

CONSTANTS i1, i2, g1, l1, a, b, s1, s2, v1, mine, theirs, north, east

VARIABLE focus

MCFiles == {<<a>>, <<a, a>>, <<a, b>>}

MCFirmOf == north :> mine @@ east :> theirs
MCSiteOf == s1 :> north @@ s2 :> east
MCTotalOf == s1 :> 1 @@ s2 :> 2

\* Two moments a day, two days a week and three a month; a report goes two
\* days back, and a day's chart of four days is cut.
MCStarts ==
  LET every(n) == {at \in -24..6 : at % n = 0}
  IN  [day |-> every(2), week |-> every(4), month |-> every(6)]

MCCallers ==
  {[firm |-> mine, admin |-> FALSE], [firm |-> theirs, admin |-> FALSE],
   [firm |-> mine, admin |-> TRUE]}

Asked(kind, scope, firm, from, site, granularity, topSites) ==
  [kind |-> kind, scope |-> scope, firm |-> firm, from |-> from, to |-> NotGiven,
   site |-> site, granularity |-> granularity, topSites |-> topSites]
\* As many branches as there are, the bigger of two, and none.
MCQueries ==
  {Asked("dashboard", "account", NotGiven, NotGiven, NotGiven, NotGiven, 1),
   Asked("dashboard", Platform, NotGiven, 1, NotGiven, "week", 1),
   Asked("dashboard", Platform, NotGiven, 1, NotGiven, "week", 0),
   Asked("bySite", "account", theirs, 1, north, NotGiven, NotGiven),
   Asked("velocity", "account", NotGiven, -4, NotGiven, "day", NotGiven)}

MCInit ==
  /\ BackgroundInit /\ ReportsInit
  /\ focus \in {"rows", "race", "image", "letter", "reports"}

Started ==
  {i \in Imports : upload[i].status # "NONE"} \cup {g \in Images : asset[g].status # "NONE"}
    \cup {j \in Jobs : job[j].state # "none"}

InFocus ==
  CASE focus = "rows" -> Started \subseteq {i1}
    [] focus = "race" ->
         /\ Started \subseteq {i1, i2}
         /\ \A i \in Started : upload[i].file = <<a>>
         /\ sku[b] = Unmade
    [] focus = "image" -> Started \subseteq {g1} /\ \A p \in Products : sku[p] = Unmade
    [] focus = "letter" -> Started \subseteq {l1} /\ \A p \in Products : sku[p] = Unmade
    [] focus = "reports" -> Started = {}

JobStep == focus # "reports" /\ BackgroundNext /\ UNCHANGED <<focus, reportVars>> /\ InFocus'

\* Queries answered while one sent before them is not.
AheadOfTurn(k) ==
  {j \in DOMAIN Parts[k.query.kind] :
     /\ Parts[k.query.kind][j] \in DOMAIN k.figures
     /\ \E i \in 1..(j - 1) : Parts[k.query.kind][i] \notin DOMAIN k.figures}

\* An order changes at most once while a report is computed, and goes the way
\* of most; of the queries sent together one at most is answered before its turn;
\* what is kept and what is shown are looked at while they are new.
InView ==
  /\ \A v \in Viewers : view'[v].op = "computing" => Cardinality(AheadOfTurn(view'[v])) <= 1
  /\ \A o \in Sales : sale'[o] # Unsold =>
       sale'[o].status \in {"PENDING_APPROVAL", "APPROVED", "PROCESSING", "DISPATCHED", "CANCELLED"}
  /\ sale' # sale =>
       /\ DOMAIN cache = {}
       /\ \A v \in Viewers :
            view[v].op # "shown" /\ (view[v].op = "computing" => ~view[v].torn)
  /\ DOMAIN cache # {} => \A v \in Viewers : view'[v].op # "computing"

ReportStep ==
  /\ focus = "reports"
  /\ ReportsNext
  /\ InView
  /\ UNCHANGED <<focus, backgroundVars>>

MCNext == JobStep \/ ReportStep

MCSpec == MCInit /\ [][MCNext]_<<focus, backgroundVars, reportVars>> /\ Workers

-----------------------------------------------------------------------------
=============================================================================
