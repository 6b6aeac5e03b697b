--------------------------- MODULE SessionsProofs ---------------------------
(***************************************************************************)
(* Proofs about Sessions for any number of users, tokens, links and        *)
(* requests in flight: types, that a login's line of tokens never forks,   *)
(* and that whoever loses a password or a place loses the sessions.        *)
(***************************************************************************)
EXTENDS Sessions, TLAPS

-----------------------------------------------------------------------------
(***************************************************************************)
(* Rows.  None is ever deleted, and everything refers to rows that were    *)
(* read.                                                                   *)
(***************************************************************************)
TokensReferToRows ==
  \A t \in Tokens :
    token[t] # Absent => person[token[t].user] # Absent /\ token[token[t].family] # Absent

LinksReferToRows == \A l \in Links : link[l] # Absent => person[link[l].user] # Absent

KnownSomewhere == \A u \in Users : upstream[u] = Absent => person[u] # Absent

\* What a request that read `k` may still rely on when it writes.
RowsStillThere(k) ==
  /\ k.op = "sync" =>
       /\ upstream[k.user] # Absent
       /\ k.seen # Absent => ~k.seen.deleted
       /\ k.password = Kept => person[k.user] # Absent
  /\ k.op = "mint" =>
       /\ person[k.user] # Absent
       /\ k.seen.status = "ACTIVE"
       /\ k.from = Absent => k.password = k.seen.password
       /\ k.from # Absent =>
            /\ token[k.from] # Absent
            /\ token[k.from].user = k.user
            /\ token[k.from].password = k.password
  /\ k.op = "retire" => token[k.from] # Absent
  /\ k.op \in {"update", "reset"} => person[k.user] # Absent /\ ~k.seen.deleted
  /\ k.op \in {"deactivate", "end", "link", "change"} => person[k.user] # Absent
  /\ k.op = "link" => \A l \in k.outstanding : link[l] # Absent
  /\ k.op = "reset" => link[k.link] # Absent

RowsInv ==
  /\ SessionsTypeOK
  /\ TokensReferToRows
  /\ LinksReferToRows
  /\ KnownSomewhere
  /\ \A v \in Visits : RowsStillThere(visit[v])

RowsOnlyGrow ==
  /\ \A u \in Users : /\ person[u] # Absent => person'[u] # Absent
                      /\ upstream[u] = Absent <=> upstream'[u] = Absent
  /\ \A t \in Tokens :
       token[t] # Absent =>
         /\ token'[t] # Absent
         /\ token'[t].user = token[t].user
         /\ token'[t].family = token[t].family
         /\ token'[t].password = token[t].password
  /\ \A l \in Links : link[l] # Absent => link'[l] # Absent /\ link'[l].user = link[l].user

LEMMA SentinelsApart ==
  /\ Absent \notin Person /\ Absent \notin Record /\ Absent \notin Token /\ Absent \notin Link
<1>1. Absent \notin Person
  BY DEF Absent, Person
<1>2. Absent \notin Record
  BY DEF Absent, Record
<1>3. Absent \notin Token
  BY DEF Absent, Token
<1>4. Absent \notin Link
  BY DEF Absent, Link
<1> QED
  BY <1>1, <1>2, <1>3, <1>4

LEMMA RowsAreTyped ==
  ASSUME SessionsTypeOK
  PROVE  /\ \A u \in Users : person[u] # Absent <=> person[u] \in Person
         /\ \A u \in Users : upstream[u] # Absent <=> upstream[u] \in Record
         /\ \A t \in Tokens : token[t] # Absent <=> token[t] \in Token
         /\ \A l \in Links : link[l] # Absent <=> link[l] \in Link
BY SentinelsApart DEF SessionsTypeOK

Syncing ==
  [op : {"sync"}, user : Users, seen : Person \cup {Absent}, record : Record,
   password : Passwords \cup {Kept}]
Minting ==
  [op : {"mint"}, user : Users, seen : Person, from : Tokens \cup {Absent}, password : Passwords]
Updating ==
  [op : {"update"}, user : Users, seen : Person, moved : BOOLEAN,
   status : {"ACTIVE", "DISABLED", Kept}]
Resetting == [op : {"reset"}, user : Users, seen : Person, link : Links, password : Passwords]
Changing == [op : {"change"}, user : Users, seen : Person, password : Passwords]
Linking == [op : {"link"}, user : Users, outstanding : SUBSET Links]
Ends == [op : {"end"}, user : Users]
Deactivating == [op : {"deactivate"}, user : Users]
Retirement == [op : {"retire"}, user : Users, from : Tokens]

LEMMA VisitKinds ==
  Visit = {Free} \cup Syncing \cup Minting \cup Retirement \cup Ends \cup Updating
            \cup Deactivating \cup Linking \cup Resetting \cup Changing
BY DEF Visit, Syncing, Minting, Retirement, Ends, Updating, Deactivating, Linking,
       Resetting, Changing

\* What a request holds is told by its op field.
LEMMA VisitShapes ==
  ASSUME SessionsTypeOK, NEW v \in Visits
  PROVE  /\ visit[v] \in Visit
         /\ visit[v].op = "sync" => visit[v] \in Syncing
         /\ visit[v].op = "mint" => visit[v] \in Minting
         /\ visit[v].op = "retire" => visit[v] \in Retirement
         /\ visit[v].op = "end" => visit[v] \in Ends
         /\ visit[v].op = "update" => visit[v] \in Updating
         /\ visit[v].op = "deactivate" => visit[v] \in Deactivating
         /\ visit[v].op = "link" => visit[v] \in Linking
         /\ visit[v].op = "reset" => visit[v] \in Resetting
         /\ visit[v].op = "change" => visit[v] \in Changing
<1>1. visit[v] \in Visit
  BY DEF SessionsTypeOK
<1> QED
  BY <1>1, VisitKinds DEF Free, Syncing, Minting, Retirement, Ends, Updating, Deactivating,
     Linking, Resetting, Changing

\* Rows that stay keep what a request relies on.
LEMMA RelianceLasts ==
  ASSUME SessionsTypeOK, RowsOnlyGrow,
         NEW v \in Visits, RowsStillThere(visit[v]), visit'[v] = visit[v]
  PROVE  RowsStillThere(visit[v])'
<1>1. /\ visit[v].op \in {"sync", "mint", "update", "reset", "deactivate", "end", "link", "change"} =>
           visit[v].user \in Users
      /\ visit[v].op = "mint" => visit[v].from \in Tokens \cup {Absent}
      /\ visit[v].op = "retire" => visit[v].from \in Tokens
      /\ visit[v].op = "link" => visit[v].outstanding \subseteq Links
      /\ visit[v].op = "reset" => visit[v].link \in Links
  BY VisitShapes DEF Syncing, Minting, Retirement, Ends, Updating, Deactivating, Linking,
     Resetting, Changing
<1> QED
  BY <1>1 DEF RowsStillThere, RowsOnlyGrow

\* A step that only reads: the request takes what it read into flight.
LEMMA ReadingKeepsRows ==
  ASSUME RowsInv, NEW v \in Visits, NEW k \in Visit, Stage(v, k), RowsStillThere(k),
         UNCHANGED <<person, upstream, token, link>>, raced' \in BOOLEAN
  PROVE  RowsInv'
<1>1. SessionsTypeOK'
  BY DEF RowsInv, SessionsTypeOK, Stage
<1>2. RowsOnlyGrow
  BY DEF RowsOnlyGrow
<1>3. visit'[v] = k /\ \A w \in Visits \ {v} : visit'[w] = visit[w]
  BY DEF Stage, RowsInv, SessionsTypeOK
<1>4. RowsStillThere(visit[v])'
  BY <1>3 DEF RowsStillThere
<1>5. \A w \in Visits \ {v} : RowsStillThere(visit[w])'
  BY <1>2, <1>3, RelianceLasts DEF RowsInv
<1> QED
  BY <1>1, <1>4, <1>5
  DEF RowsInv, TokensReferToRows, LinksReferToRows, KnownSomewhere

\* The steps that only read.
Reads(v) ==
  \/ \E u \in Users, p \in Passwords :
       \/ LoginFirstTime(v, u, p) \/ RetryAgainstLegacy(v, u, p)
       \/ LoginExistingUser(v, u, p) \/ RefreshIfStale(v, u, p) \/ BeginChange(v, u, p)
  \/ \E u \in Users : Manage(v, u) \/ RequestReset(v, u)
  \/ \E t \in Tokens : Rotate(v, t)
  \/ \E l \in Links, p \in Passwords : BeginReset(v, l, p)
  \/ Leave(v)

Takes(v, k) == k \in Visit /\ Stage(v, k) /\ RowsStillThere(k) /\ k.op # "retire"

\* What a request reads, it may rely on.
LEMMA ReadsAreReliable ==
  ASSUME RowsInv, NEW v \in Visits, Reads(v)
  PROVE  /\ UNCHANGED <<person, upstream, token, link>> /\ raced' \in BOOLEAN
         /\ \E k : Takes(v, k)
<1> USE DEF RowsInv
<1>1. /\ \A u \in Users : person[u] # Absent <=> person[u] \in Person
      /\ \A u \in Users : upstream[u] # Absent <=> upstream[u] \in Record
      /\ \A t \in Tokens : token[t] # Absent <=> token[t] \in Token
      /\ \A l \in Links : link[l] # Absent <=> link[l] \in Link
  BY RowsAreTyped
<1>2. UNCHANGED <<person, upstream, token, link>> /\ raced' \in BOOLEAN
  BY DEF Reads, LoginFirstTime, RetryAgainstLegacy, LoginExistingUser, RefreshIfStale, BeginChange,
     Manage, RequestReset, Rotate, BeginReset, Leave, SessionsTypeOK
<1>3. ASSUME NEW u \in Users, NEW p \in Passwords,
             LoginFirstTime(v, u, p) \/ RetryAgainstLegacy(v, u, p)
      PROVE  \E k : Takes(v, k)
  <2>1. SyncFor(u, upstream[u], p) \in Syncing
    BY <1>1, <1>3 DEF LoginFirstTime, RetryAgainstLegacy, AcceptedUpstream, SyncFor, Syncing
  <2>2. RowsStillThere(SyncFor(u, upstream[u], p))
    BY <1>3, SentinelsAssumption
    DEF LoginFirstTime, RetryAgainstLegacy, AcceptedUpstream, SyncFor, RowsStillThere
  <2> QED
    BY <1>3, <2>1, <2>2, VisitKinds DEF LoginFirstTime, RetryAgainstLegacy, Takes, Syncing
<1>4. ASSUME NEW u \in Users, NEW p \in Passwords, RefreshIfStale(v, u, p)
      PROVE  \E k : Takes(v, k)
  <2>1. SyncFor(u, upstream[u], Kept) \in Syncing
    BY <1>1, <1>4 DEF RefreshIfStale, MatchesHere, SyncFor, Syncing
  <2>2. RowsStillThere(SyncFor(u, upstream[u], Kept))
    BY <1>4 DEF RefreshIfStale, MatchesHere, SyncFor, RowsStillThere
  <2> QED
    BY <1>4, <2>1, <2>2, VisitKinds DEF RefreshIfStale, Takes, Syncing
<1>5. ASSUME NEW u \in Users, NEW p \in Passwords, LoginExistingUser(v, u, p)
      PROVE  \E k : Takes(v, k)
  <2>1. MintFor(u, person[u], Absent, p) \in Minting
    BY <1>1, <1>5 DEF LoginExistingUser, MatchesHere, MintFor, Minting
  <2>2. RowsStillThere(MintFor(u, person[u], Absent, p))
    BY <1>5 DEF LoginExistingUser, MatchesHere, MintFor, RowsStillThere
  <2> QED
    BY <1>5, <2>1, <2>2, VisitKinds DEF LoginExistingUser, Takes, Minting
<1>6. ASSUME NEW u \in Users, NEW p \in Passwords, BeginChange(v, u, p)
      PROVE  \E k : Takes(v, k)
  <2> DEFINE k == [op |-> "change", user |-> u, seen |-> person[u], password |-> p]
  <2>1. k \in Changing
    BY <1>1, <1>6 DEF BeginChange, Changing
  <2>2. RowsStillThere(k)
    BY <1>6 DEF BeginChange, RowsStillThere
  <2> QED
    BY <1>6, <2>1, <2>2, VisitKinds DEF BeginChange, Takes, Changing
<1>7. ASSUME NEW u \in Users, Manage(v, u)
      PROVE  \E k : Takes(v, k)
  <2>1. ASSUME NEW status \in {"ACTIVE", "DISABLED", Kept}, NEW moved \in BOOLEAN,
               Stage(v, [op |-> "update", user |-> u, seen |-> person[u], status |-> status,
                         moved |-> moved])
        PROVE  \E k : Takes(v, k)
    <3> DEFINE k == [op |-> "update", user |-> u, seen |-> person[u], status |-> status,
                     moved |-> moved]
    <3>1. k \in Updating
      BY <1>1, <1>7 DEF Manage, Found, Updating
    <3>2. RowsStillThere(k)
      BY <1>7 DEF Manage, Found, RowsStillThere
    <3> QED
      BY <2>1, <3>1, <3>2, VisitKinds DEF Takes, Updating
  <2>2. ASSUME Stage(v, [op |-> "deactivate", user |-> u])
        PROVE  \E k : Takes(v, k)
    <3> DEFINE k == [op |-> "deactivate", user |-> u]
    <3>1. k \in Deactivating /\ RowsStillThere(k)
      BY <1>7 DEF Manage, Found, Deactivating, RowsStillThere
    <3> QED
      BY <2>2, <3>1, VisitKinds DEF Takes, Deactivating
  <2> QED
    BY <1>7, <2>1, <2>2 DEF Manage
<1>8. ASSUME NEW u \in Users, RequestReset(v, u)
      PROVE  \E k : Takes(v, k)
  <2> DEFINE k == [op |-> "link", user |-> u,
                   outstanding |-> {l \in Links : link[l] = [user |-> u, used |-> FALSE]}]
  <2>1. k \in Linking
    BY DEF Linking
  <2>2. RowsStillThere(k)
    <3>1. [user |-> u, used |-> FALSE] \in Link
      BY DEF Link
    <3>2. [user |-> u, used |-> FALSE] # Absent
      BY <3>1, SentinelsApart
    <3> QED
      BY <1>8, <3>2 DEF RequestReset, Found, RowsStillThere
  <2> QED
    BY <1>8, <2>1, <2>2, VisitKinds DEF RequestReset, Takes, Linking
<1>9. ASSUME NEW t \in Tokens, Rotate(v, t)
      PROVE  \E k : Takes(v, k)
  <2> DEFINE u == token[t].user
  <2>1. u \in Users /\ token[t].password \in Passwords /\ person[u] \in Person
    BY <1>1, <1>9 DEF Rotate, Token, TokensReferToRows
  <2>2. CASE Live(t) /\ Welcome(u)
    <3>1. MintFor(u, person[u], t, token[t].password) \in Minting
      BY <2>1 DEF MintFor, Minting
    <3>2. RowsStillThere(MintFor(u, person[u], t, token[t].password))
      BY <1>1, <1>9, <2>1, <2>2, SentinelsAssumption
      DEF Rotate, Welcome, MintFor, RowsStillThere
    <3> QED
      BY <1>9, <2>2, <3>1, <3>2, VisitKinds DEF Rotate, Takes, Minting
  <2>3. CASE ~(Live(t) /\ Welcome(u))
    <3>1. EndFor(u) \in Ends /\ RowsStillThere(EndFor(u))
      BY <1>1, <2>1 DEF EndFor, Ends, RowsStillThere
    <3> QED
      BY <1>9, <2>3, <3>1, VisitKinds DEF Rotate, Takes, Ends
  <2> QED
    BY <2>2, <2>3
<1>10. ASSUME NEW l \in Links, NEW p \in Passwords, BeginReset(v, l, p)
       PROVE  \E k : Takes(v, k)
  <2> DEFINE u == link[l].user
             k == [op |-> "reset", user |-> u, seen |-> person[u], link |-> l, password |-> p]
  <2>1. u \in Users /\ person[u] \in Person
    BY <1>1, <1>10 DEF BeginReset, Link, LinksReferToRows
  <2>2. k \in Resetting
    BY <2>1 DEF Resetting
  <2>3. RowsStillThere(k)
    BY <1>1, <1>10, <2>1 DEF BeginReset, RowsStillThere
  <2> QED
    BY <1>10, <2>2, <2>3, VisitKinds DEF BeginReset, Takes, Resetting
<1>11. ASSUME Leave(v) PROVE \E k : Takes(v, k)
  <2>1. Free \in Visit /\ RowsStillThere(Free) /\ Free.op # "retire"
    BY VisitKinds DEF Free, RowsStillThere
  <2> QED
    BY <1>11, <2>1 DEF Leave, Takes
<1> QED
  BY <1>2, <1>3, <1>4, <1>5, <1>6, <1>7, <1>8, <1>9, <1>10, <1>11 DEF Reads

-----------------------------------------------------------------------------
(***************************************************************************)
(* Writes.  Each leaves the rows typed, the rest of the requests alone and *)
(* its own request with something it may rely on.                          *)
(***************************************************************************)
LEMMA WritingKeepsRows ==
  ASSUME RowsInv, SessionsTypeOK', RowsOnlyGrow, NEW v \in Visits,
         \A w \in Visits \ {v} : visit'[w] = visit[w],
         RowsStillThere(visit[v])', TokensReferToRows', LinksReferToRows'
  PROVE  RowsInv'
<1>1. \A w \in Visits \ {v} : RowsStillThere(visit[w])'
  BY RelianceLasts DEF RowsInv
<1>2. KnownSomewhere'
  BY DEF RowsInv, RowsOnlyGrow, KnownSomewhere
<1> QED
  BY <1>1, <1>2 DEF RowsInv

\* The person a request is about is one of the users.
LEMMA AboutSomeone ==
  ASSUME SessionsTypeOK, NEW v \in Visits, visit[v] # Free
  PROVE  visit[v].user \in Users
BY VisitKinds
DEF SessionsTypeOK, Syncing, Minting, Retirement, Ends, Updating, Deactivating, Linking,
    Resetting, Changing

\* A write of one row of a person, and what the request does next.
LEMMA WritingAPerson ==
  ASSUME RowsInv, NEW v \in Visits, NEW u \in Users, NEW row \in Person, NEW k \in Visit,
         person' = [person EXCEPT ![u] = row], Stage(v, k), RowsStillThere(visit[v])',
         UNCHANGED <<upstream, token>>, RowsOnlyGrow, LinksReferToRows',
         link' \in [Links -> Link \cup {Absent}], raced' \in BOOLEAN
  PROVE  RowsInv'
<1>1. SessionsTypeOK'
  BY DEF RowsInv, SessionsTypeOK, Stage
<1>2. \A w \in Visits \ {v} : visit'[w] = visit[w]
  BY DEF Stage, RowsInv, SessionsTypeOK
<1>3. TokensReferToRows'
  BY RowsAreTyped DEF TokensReferToRows, RowsInv, RowsOnlyGrow, Token
<1> QED
  BY <1>1, <1>2, <1>3, WritingKeepsRows

LEMMA SyncKeepsRows ==
  ASSUME RowsInv, NEW v \in Visits, SyncFromLegacy(v)
  PROVE  /\ RowsInv'
         /\ visit[v].user \in Users
         /\ person'[visit[v].user] \in Person
<1> DEFINE k == visit[v]
           row == [status |-> IF k.record.active THEN "ACTIVE" ELSE "DISABLED",
                   deleted |-> person[k.user] # Absent /\ person[k.user].deleted,
                   password |-> IF k.password = Kept THEN person[k.user].password
                                                     ELSE k.password]
           next == IF k.record.active THEN MintFor(k.user, row, Absent, row.password)
                                      ELSE EndFor(k.user)
<1>1. k \in Syncing /\ RowsStillThere(k) /\ k.op = "sync" /\ SessionsTypeOK
  BY VisitShapes DEF SyncFromLegacy, RowsInv
<1>2. k.user \in Users /\ k.record \in Record /\ k.record.active \in BOOLEAN
  BY <1>1 DEF Syncing, Record
<1>3. row.password \in Passwords
  <2>1. CASE k.password = Kept
    BY <1>1, <1>2, <2>1, RowsAreTyped DEF RowsStillThere, Person
  <2>2. CASE k.password # Kept
    BY <1>1, <2>2 DEF Syncing
  <2> QED
    BY <2>1, <2>2
<1>4. row.deleted \in BOOLEAN
  BY <1>1, <1>2, RowsAreTyped DEF Person
<1>5. row \in Person
  BY <1>3, <1>4 DEF Person
<1>6. person' = [person EXCEPT ![k.user] = row] /\ Stage(v, next)
      /\ UNCHANGED <<upstream, token, link>>
  BY DEF SyncFromLegacy
<1>7. next \in Visit
  <2>1. CASE k.record.active
    BY <1>2, <1>3, <1>5, <2>1, VisitKinds DEF MintFor, Minting
  <2>2. CASE ~k.record.active
    BY <1>2, <2>2, VisitKinds DEF EndFor, Ends
  <2> QED
    BY <2>1, <2>2
<1>8. person'[k.user] = row /\ row # Absent
  BY <1>1, <1>2, <1>5, <1>6, SentinelsApart DEF SessionsTypeOK
<1>9. RowsStillThere(visit[v])'
  <2>1. visit'[v] = next
    BY <1>6 DEF Stage, RowsInv, SessionsTypeOK
  <2>2. CASE k.record.active
    BY <1>2, <1>8, <2>1, <2>2 DEF RowsStillThere, MintFor
  <2>3. CASE ~k.record.active
    BY <1>2, <1>8, <2>1, <2>3 DEF RowsStillThere, EndFor
  <2> QED
    BY <2>2, <2>3
<1>10. RowsOnlyGrow
  BY <1>1, <1>6, <1>8 DEF RowsOnlyGrow, SessionsTypeOK
<1>11. LinksReferToRows'
  BY <1>1, <1>6, <1>10, RowsAreTyped DEF LinksReferToRows, RowsOnlyGrow, RowsInv, Link
<1>12. link' \in [Links -> Link \cup {Absent}] /\ raced' \in BOOLEAN
  BY <1>1, <1>6 DEF SessionsTypeOK, SyncFromLegacy
<1> QED
  BY <1>2, <1>5, <1>6, <1>7, <1>8, <1>9, <1>10, <1>11, <1>12, WritingAPerson

LEMMA UpdateKeepsRows ==
  ASSUME RowsInv, NEW v \in Visits, Update(v)
  PROVE  /\ RowsInv'
         /\ visit[v].user \in Users
         /\ person'[visit[v].user] \in Person
<1> DEFINE k == visit[v]
           row == [person[k.user] EXCEPT !.status = IF k.status = Kept THEN @ ELSE k.status]
           next == IF k.moved \/ k.status = "DISABLED" THEN EndFor(k.user) ELSE Free
<1>1. k \in Updating /\ RowsStillThere(k) /\ k.op = "update" /\ SessionsTypeOK
  BY VisitShapes DEF Update, RowsInv
<1>2. k.user \in Users /\ person[k.user] \in Person
  BY <1>1, RowsAreTyped DEF Updating, RowsStillThere
<1>3. row \in Person
  BY <1>1, <1>2 DEF Updating, Person
<1>4. person' = [person EXCEPT ![k.user] = row] /\ Stage(v, next)
      /\ UNCHANGED <<upstream, token, link>>
  BY DEF Update
<1>5. next \in Visit
  BY <1>2, VisitKinds DEF EndFor, Ends
<1>6. person'[k.user] = row /\ row # Absent
  BY <1>1, <1>2, <1>3, <1>4, SentinelsApart DEF SessionsTypeOK
<1>7. RowsStillThere(visit[v])'
  BY <1>1, <1>2, <1>4, <1>6 DEF RowsStillThere, EndFor, Free, Stage, SessionsTypeOK
<1>8. RowsOnlyGrow
  BY <1>1, <1>4, <1>6 DEF RowsOnlyGrow, SessionsTypeOK
<1>9. LinksReferToRows'
  BY <1>1, <1>4, <1>8, RowsAreTyped DEF LinksReferToRows, RowsOnlyGrow, RowsInv, Link
<1>10. link' \in [Links -> Link \cup {Absent}] /\ raced' \in BOOLEAN
  BY <1>1, <1>4 DEF SessionsTypeOK, Update
<1> QED
  BY <1>2, <1>3, <1>4, <1>5, <1>6, <1>7, <1>8, <1>9, <1>10, WritingAPerson

LEMMA DeactivateKeepsRows ==
  ASSUME RowsInv, NEW v \in Visits, Deactivate(v)
  PROVE  RowsInv'
<1> DEFINE u == visit[v].user
           row == [person[u] EXCEPT !.status = "DISABLED", !.deleted = TRUE]
<1>1. visit[v] \in Deactivating /\ RowsStillThere(visit[v]) /\ visit[v].op = "deactivate"
      /\ SessionsTypeOK
  BY VisitShapes DEF Deactivate, RowsInv
<1>2. u \in Users /\ person[u] \in Person
  BY <1>1, RowsAreTyped DEF Deactivating, RowsStillThere
<1>3. CASE Stage(v, Free) /\ UNCHANGED person
  <2>1. Free \in Visit /\ RowsStillThere(Free)
    BY VisitKinds DEF Free, RowsStillThere
  <2> QED
    BY <1>1, <1>3, <2>1, ReadingKeepsRows DEF Deactivate, SessionsTypeOK
<1>4. CASE person' = [person EXCEPT ![u] = row] /\ Stage(v, EndFor(u))
  <2>1. row \in Person
    BY <1>2 DEF Person
  <2>2. EndFor(u) \in Visit
    BY <1>2, VisitKinds DEF EndFor, Ends
  <2>3. person'[u] = row /\ row # Absent
    BY <1>1, <1>2, <1>4, <2>1, SentinelsApart DEF SessionsTypeOK
  <2>4. RowsStillThere(visit[v])'
    BY <1>1, <1>2, <1>4, <2>3 DEF RowsStillThere, EndFor, Stage, SessionsTypeOK
  <2>5. RowsOnlyGrow
    BY <1>1, <1>4, <2>3 DEF RowsOnlyGrow, SessionsTypeOK, Deactivate
  <2>6. LinksReferToRows'
    BY <1>1, <2>5, RowsAreTyped DEF LinksReferToRows, RowsOnlyGrow, RowsInv, Link, Deactivate
  <2>7. link' \in [Links -> Link \cup {Absent}] /\ raced' \in BOOLEAN
        /\ UNCHANGED <<upstream, token>>
    BY <1>1 DEF SessionsTypeOK, Deactivate
  <2> QED
    BY <1>2, <1>4, <2>1, <2>2, <2>4, <2>5, <2>6, <2>7, WritingAPerson
<1> QED
  BY <1>3, <1>4 DEF Deactivate

LEMMA ResetKeepsRows ==
  ASSUME RowsInv, NEW v \in Visits, CompleteReset(v)
  PROVE  RowsInv'
<1> DEFINE k == visit[v]
           row == [person[k.user] EXCEPT !.password = k.password, !.status = "ACTIVE"]
<1>1. k \in Resetting /\ RowsStillThere(k) /\ k.op = "reset" /\ SessionsTypeOK
  BY VisitShapes DEF CompleteReset, RowsInv
<1>2. k.user \in Users /\ person[k.user] \in Person /\ k.link \in Links /\ link[k.link] \in Link
  BY <1>1, RowsAreTyped DEF Resetting, RowsStillThere
<1>3. row \in Person
  BY <1>1, <1>2 DEF Resetting, Person
<1>4. /\ person' = [person EXCEPT ![k.user] = row]
      /\ link' = [link EXCEPT ![k.link] = [link[k.link] EXCEPT !.used = TRUE]]
      /\ Stage(v, EndFor(k.user)) /\ UNCHANGED <<upstream, token>>
  BY DEF CompleteReset
<1>5. EndFor(k.user) \in Visit
  BY <1>2, VisitKinds DEF EndFor, Ends
<1>6. person'[k.user] = row /\ row # Absent
  BY <1>1, <1>2, <1>3, <1>4, SentinelsApart DEF SessionsTypeOK
<1>7. [link[k.link] EXCEPT !.used = TRUE] \in Link
  BY <1>2 DEF Link
<1>8. /\ link' \in [Links -> Link \cup {Absent}]
      /\ \A l \in Links : link[l] # Absent => link'[l] # Absent /\ link'[l].user = link[l].user
      /\ \A l \in Links : link'[l] # Absent => link[l] # Absent
  BY <1>1, <1>2, <1>4, <1>7, SentinelsApart DEF SessionsTypeOK, Link
<1>9. RowsStillThere(visit[v])'
  BY <1>1, <1>2, <1>4, <1>6 DEF RowsStillThere, EndFor, Stage, SessionsTypeOK
<1>10. RowsOnlyGrow
  BY <1>1, <1>4, <1>6, <1>8 DEF RowsOnlyGrow, SessionsTypeOK
<1>11. LinksReferToRows'
  BY <1>1, <1>8, <1>10, RowsAreTyped DEF LinksReferToRows, RowsOnlyGrow, RowsInv, Link
<1>12. raced' \in BOOLEAN
  BY <1>1, <1>2 DEF SessionsTypeOK, CompleteReset, Link
<1> QED
  BY <1>2, <1>3, <1>4, <1>5, <1>8, <1>9, <1>10, <1>11, <1>12, WritingAPerson

LEMMA ChangeKeepsRows ==
  ASSUME RowsInv, NEW v \in Visits, ChangePassword(v)
  PROVE  RowsInv'
<1> DEFINE k == visit[v]
           row == [person[k.user] EXCEPT !.password = k.password]
<1>1. k \in Changing /\ RowsStillThere(k) /\ k.op = "change" /\ SessionsTypeOK
  BY VisitShapes DEF ChangePassword, RowsInv
<1>2. k.user \in Users /\ person[k.user] \in Person
  BY <1>1, RowsAreTyped DEF Changing, RowsStillThere
<1>3. row \in Person
  BY <1>1, <1>2 DEF Changing, Person
<1>4. person' = [person EXCEPT ![k.user] = row] /\ Stage(v, EndFor(k.user))
      /\ UNCHANGED <<upstream, token, link>>
  BY DEF ChangePassword
<1>5. EndFor(k.user) \in Visit
  BY <1>2, VisitKinds DEF EndFor, Ends
<1>6. person'[k.user] = row /\ row # Absent
  BY <1>1, <1>2, <1>3, <1>4, SentinelsApart DEF SessionsTypeOK
<1>7. RowsStillThere(visit[v])'
  BY <1>1, <1>2, <1>4, <1>6 DEF RowsStillThere, EndFor, Stage, SessionsTypeOK
<1>8. RowsOnlyGrow
  BY <1>1, <1>4, <1>6 DEF RowsOnlyGrow, SessionsTypeOK
<1>9. LinksReferToRows'
  BY <1>1, <1>4, <1>8, RowsAreTyped DEF LinksReferToRows, RowsOnlyGrow, RowsInv, Link
<1>10. link' \in [Links -> Link \cup {Absent}] /\ raced' \in BOOLEAN
  BY <1>1, <1>4 DEF SessionsTypeOK, ChangePassword
<1> QED
  BY <1>2, <1>3, <1>4, <1>5, <1>7, <1>8, <1>9, <1>10, WritingAPerson

LEMMA SendLinkKeepsRows ==
  ASSUME RowsInv, NEW v \in Visits, SendLink(v)
  PROVE  RowsInv'
<1> DEFINE k == visit[v]
<1>1. k \in Linking /\ RowsStillThere(k) /\ k.op = "link" /\ SessionsTypeOK
  BY VisitShapes DEF SendLink, RowsInv
<1>2. k.user \in Users /\ person[k.user] # Absent
  BY <1>1 DEF Linking, RowsStillThere
<1>3. PICK n \in Links :
        /\ link[n] = Absent
        /\ link' = [l \in Links |->
                     IF l = n THEN [user |-> k.user, used |-> FALSE]
                     ELSE IF l \in k.outstanding THEN [link[l] EXCEPT !.used = TRUE]
                     ELSE link[l]]
  BY DEF SendLink
<1>4. ASSUME NEW l \in k.outstanding
      PROVE  /\ l \in Links
             /\ [link[l] EXCEPT !.used = TRUE] \in Link
             /\ [link[l] EXCEPT !.used = TRUE].user = link[l].user
  <2>1. l \in Links
    BY <1>1 DEF Linking
  <2>2. link[l] \in Link
    BY <1>1, <2>1, RowsAreTyped DEF RowsStillThere
  <2> QED
    BY <2>1, <2>2 DEF Link
<1>5. [user |-> k.user, used |-> FALSE] \in Link
  BY <1>2 DEF Link
<1>6. /\ link' \in [Links -> Link \cup {Absent}]
      /\ \A l \in Links : link[l] # Absent => link'[l] # Absent /\ link'[l].user = link[l].user
      /\ \A l \in Links : link'[l] # Absent => l = n \/ link[l] # Absent
      /\ link'[n].user = k.user
  <2>1. link'[n] \in Link /\ link'[n].user = k.user
    BY <1>3, <1>5
  <2>2. ASSUME NEW l \in Links \ {n}
        PROVE  \/ link'[l] = link[l]
               \/ link'[l] \in Link /\ link'[l].user = link[l].user /\ l \in k.outstanding
    BY <1>3, <1>4
  <2>3. \A l \in k.outstanding : link[l] # Absent
    BY <1>1 DEF RowsStillThere
  <2> QED
    BY <1>1, <1>3, <2>1, <2>2, <2>3, SentinelsApart DEF SessionsTypeOK
<1>7. SessionsTypeOK' /\ \A w \in Visits \ {v} : visit'[w] = visit[w]
  BY <1>1, <1>6, VisitKinds DEF SendLink, SessionsTypeOK, Stage
<1>8. RowsOnlyGrow
  BY <1>6 DEF SendLink, RowsOnlyGrow
<1>9. RowsStillThere(visit[v])'
  BY <1>1 DEF SendLink, RowsStillThere, Free, Stage, SessionsTypeOK
<1>10. LinksReferToRows' /\ TokensReferToRows'
  BY <1>2, <1>6 DEF SendLink, LinksReferToRows, TokensReferToRows, RowsInv
<1> QED
  BY <1>7, <1>8, <1>9, <1>10, WritingKeepsRows

-----------------------------------------------------------------------------
(***************************************************************************)
(* Tokens.  Only mint adds one; every other step can at most end some.     *)
(***************************************************************************)
Ended(t) == [token[t] EXCEPT !.revoked = TRUE]

TokensOnlyEnd ==
  /\ \A t \in Tokens : token'[t] = token[t] \/ (token[t] # Absent /\ token'[t] = Ended(t))
  /\ token' \in [Tokens -> Token \cup {Absent}]

LEMMA EndedIsAToken ==
  ASSUME SessionsTypeOK, NEW t \in Tokens, token[t] # Absent
  PROVE  /\ token[t] \in Token /\ Ended(t) \in Token /\ Ended(t).revoked
         /\ Ended(t).user = token[t].user
         /\ Ended(t).family = token[t].family
         /\ Ended(t).password = token[t].password
<1>1. token[t] \in Token
  BY RowsAreTyped
<1> QED
  BY <1>1 DEF Ended, Token

LEMMA EndingKeepsRows ==
  ASSUME RowsInv, TokensOnlyEnd, UNCHANGED <<person, upstream, link>>
  PROVE  RowsOnlyGrow /\ TokensReferToRows' /\ LinksReferToRows'
<1>1. SessionsTypeOK
  BY DEF RowsInv
<1>2. RowsOnlyGrow
  BY <1>1, EndedIsAToken, SentinelsApart DEF RowsOnlyGrow, TokensOnlyEnd
<1>3. \A t \in Tokens : token'[t] # Absent => token[t] # Absent
  BY DEF TokensOnlyEnd
<1>4. TokensReferToRows'
  BY <1>1, <1>2, <1>3, EndedIsAToken DEF RowsInv, TokensReferToRows, RowsOnlyGrow, Token
<1> QED
  BY <1>2, <1>4 DEF RowsInv, LinksReferToRows

LEMMA RetireEnds ==
  ASSUME RowsInv, NEW v \in Visits, Retire(v)
  PROVE  /\ RowsInv' /\ TokensOnlyEnd
         /\ visit[v].from \in Tokens
         /\ \A s \in Tokens : s = visit[v].from => ~Live(s)'
<1> DEFINE t == visit[v].from
<1>1. visit[v] \in Retirement /\ RowsStillThere(visit[v]) /\ SessionsTypeOK
  BY VisitShapes DEF Retire, RowsInv
<1>2. t \in Tokens /\ token[t] # Absent
  BY <1>1 DEF Retirement, RowsStillThere
<1>3. token' = [token EXCEPT ![t] = Ended(t)]
  BY DEF Retire, Ended
<1>4. TokensOnlyEnd
  BY <1>1, <1>2, <1>3, EndedIsAToken DEF SessionsTypeOK, TokensOnlyEnd
<1>5. SessionsTypeOK' /\ \A w \in Visits \ {v} : visit'[w] = visit[w]
  BY <1>1, <1>4, VisitKinds DEF Retire, SessionsTypeOK, Stage, TokensOnlyEnd
<1>6. RowsStillThere(visit[v])'
  BY <1>1 DEF Retire, RowsStillThere, Free, Stage, SessionsTypeOK
<1>7. RowsInv'
  BY <1>4, <1>5, <1>6, EndingKeepsRows, WritingKeepsRows DEF Retire
<1>8. token'[t] = Ended(t) /\ visit[v].from = t
  BY <1>1, <1>2, <1>3 DEF SessionsTypeOK
<1>9. token'[t].revoked
  BY <1>1, <1>2, <1>8, EndedIsAToken
<1> QED
  BY <1>2, <1>4, <1>7, <1>9 DEF Live

LEMMA RevokeAllEnds ==
  ASSUME RowsInv, NEW v \in Visits, RevokeAll(v)
  PROVE  /\ RowsInv' /\ TokensOnlyEnd
         /\ \A t \in Tokens : Live(t)' => token'[t].user # visit[v].user
<1>1. visit[v] \in Ends /\ SessionsTypeOK
  BY VisitShapes DEF RevokeAll, RowsInv
<1>2. token' = [t \in Tokens |-> IF t \in LiveOf(visit[v].user) THEN Ended(t) ELSE token[t]]
  BY DEF RevokeAll, Ended
<1>3. TokensOnlyEnd
  BY <1>1, <1>2, EndedIsAToken DEF SessionsTypeOK, TokensOnlyEnd, LiveOf, Live
<1>4. SessionsTypeOK' /\ \A w \in Visits \ {v} : visit'[w] = visit[w]
  BY <1>1, <1>3, VisitKinds DEF RevokeAll, SessionsTypeOK, Stage, TokensOnlyEnd
<1>5. RowsStillThere(visit[v])'
  BY <1>1 DEF RevokeAll, RowsStillThere, Free, Stage, SessionsTypeOK
<1>6. RowsInv'
  BY <1>3, <1>4, <1>5, EndingKeepsRows, WritingKeepsRows DEF RevokeAll
<1>7. ASSUME NEW t \in Tokens, Live(t)' PROVE token'[t].user # visit[v].user
  <2>1. CASE t \in LiveOf(visit[v].user)
    BY <1>1, <1>2, <1>7, <2>1, EndedIsAToken DEF LiveOf, Live
  <2>2. CASE t \notin LiveOf(visit[v].user)
    BY <1>2, <1>7, <2>2 DEF LiveOf, Live
  <2> QED
    BY <2>1, <2>2
<1> QED
  BY <1>3, <1>6, <1>7 DEF Live

LEMMA RevokeEnds ==
  ASSUME RowsInv, NEW t \in Tokens, Revoke(t)
  PROVE  RowsInv' /\ TokensOnlyEnd
<1>1. SessionsTypeOK
  BY DEF RowsInv
<1>2. token' = [token EXCEPT ![t] = Ended(t)] /\ token[t] # Absent
  BY DEF Revoke, Ended, Live
<1>3. TokensOnlyEnd
  BY <1>1, <1>2, EndedIsAToken DEF SessionsTypeOK, TokensOnlyEnd
<1>4. SessionsTypeOK' /\ \A w \in Visits : visit'[w] = visit[w]
  BY <1>1, <1>3 DEF Revoke, SessionsTypeOK, TokensOnlyEnd
<1>5. RowsOnlyGrow /\ TokensReferToRows' /\ LinksReferToRows'
  BY <1>3, EndingKeepsRows DEF Revoke
<1>6. \A w \in Visits : RowsStillThere(visit[w])'
  BY <1>1, <1>4, <1>5, RelianceLasts DEF RowsInv
<1>7. KnownSomewhere'
  BY <1>5 DEF RowsInv, RowsOnlyGrow, KnownSomewhere
<1> QED
  BY <1>3, <1>4, <1>5, <1>6, <1>7 DEF RowsInv

LEMMA ElsewhereKeepsRows ==
  ASSUME RowsInv, NEW u \in Users, Elsewhere(u)
  PROVE  RowsInv' /\ RowsOnlyGrow
<1>1. SessionsTypeOK
  BY DEF RowsInv
<1>2. PICK record \in Record : upstream' = [upstream EXCEPT ![u] = record]
  BY DEF Elsewhere
<1>3. SessionsTypeOK'
  BY <1>1, <1>2 DEF Elsewhere, SessionsTypeOK
<1>4. RowsOnlyGrow
  BY <1>1, <1>2, SentinelsApart DEF Elsewhere, SessionsTypeOK, RowsOnlyGrow
<1>5. \A w \in Visits : RowsStillThere(visit[w])'
  BY <1>1, <1>4, RelianceLasts DEF RowsInv, Elsewhere
<1>6. TokensReferToRows' /\ LinksReferToRows'
  BY DEF Elsewhere, RowsInv, TokensReferToRows, LinksReferToRows
<1>7. KnownSomewhere'
  BY <1>4 DEF RowsInv, RowsOnlyGrow, KnownSomewhere
<1> QED
  BY <1>3, <1>4, <1>5, <1>6, <1>7 DEF RowsInv

\* What mint adds, and what it leaves to be done.
LEMMA MintAdds ==
  ASSUME RowsInv, NEW v \in Visits, Mint(v)
  PROVE  /\ RowsInv'
         /\ visit[v] \in Minting /\ RowsStillThere(visit[v])
         /\ \E t \in Tokens :
              /\ token[t] = Absent
              /\ token'[t] \in Token /\ ~token'[t].revoked
              /\ token'[t].user = visit[v].user /\ token'[t].password = visit[v].password
              /\ token'[t].family = IF visit[v].from = Absent THEN t
                                    ELSE token[visit[v].from].family
              /\ \A s \in Tokens \ {t} : token'[s] = token[s]
<1> DEFINE k == visit[v]
<1>1. k \in Minting /\ RowsStillThere(k) /\ k.op = "mint" /\ SessionsTypeOK
  BY VisitShapes DEF Mint, RowsInv
<1>2. k.user \in Users /\ person[k.user] # Absent /\ k.password \in Passwords
  BY <1>1 DEF Minting, RowsStillThere
<1>3. k.from # Absent => k.from \in Tokens /\ token[k.from] \in Token
  BY <1>1, RowsAreTyped DEF Minting, RowsStillThere
<1>4. PICK t \in Tokens :
        /\ token[t] = Absent
        /\ token' = [token EXCEPT ![t] =
             [user |-> k.user, revoked |-> FALSE, password |-> k.password,
              family |-> IF k.from = Absent THEN t ELSE token[k.from].family]]
        /\ Stage(v, IF k.from = Absent THEN Free
                    ELSE [op |-> "retire", user |-> k.user, from |-> k.from])
        /\ raced' = (raced \/ Changed(v) \/ (k.from # Absent /\ (~Live(k.from) \/ k.from \in Retiring)))
  BY DEF Mint
<1>5. (IF k.from = Absent THEN t ELSE token[k.from].family) \in Tokens
  BY <1>3 DEF Token
<1>6. /\ token'[t] \in Token /\ ~token'[t].revoked
      /\ token'[t].user = k.user /\ token'[t].password = k.password
      /\ token'[t].family = IF k.from = Absent THEN t ELSE token[k.from].family
      /\ \A s \in Tokens \ {t} : token'[s] = token[s]
      /\ token' \in [Tokens -> Token \cup {Absent}]
  BY <1>1, <1>2, <1>4, <1>5 DEF SessionsTypeOK, Token
<1>7. UNCHANGED <<person, upstream, link>>
  BY DEF Mint
<1>8. (IF k.from = Absent THEN Free ELSE [op |-> "retire", user |-> k.user, from |-> k.from]) \in Visit
  BY <1>2, <1>3, VisitKinds DEF Retirement
<1>9. SessionsTypeOK' /\ \A w \in Visits \ {v} : visit'[w] = visit[w]
  <2>1. raced' \in BOOLEAN
    BY <1>1, <1>4 DEF SessionsTypeOK, Changed, Live, Token
  <2> QED
    BY <1>1, <1>4, <1>6, <1>7, <1>8, <2>1 DEF SessionsTypeOK, Stage
<1>10. RowsOnlyGrow
  BY <1>4, <1>6, <1>7 DEF RowsOnlyGrow
<1>11. RowsStillThere(visit[v])'
  BY <1>1, <1>3, <1>4, <1>10 DEF RowsStillThere, RowsOnlyGrow, Free, Stage, SessionsTypeOK
<1>12. LinksReferToRows'
  BY <1>7 DEF LinksReferToRows, RowsInv
<1>13. token'[t] # Absent /\ token'[t].family \in Tokens /\ token'[token'[t].family] # Absent
  BY <1>1, <1>3, <1>4, <1>5, <1>6, <1>10, SentinelsApart
  DEF RowsInv, RowsOnlyGrow, TokensReferToRows
<1>14. TokensReferToRows'
  BY <1>1, <1>2, <1>6, <1>7, <1>10, <1>13, RowsAreTyped
  DEF RowsInv, RowsOnlyGrow, TokensReferToRows, Token
<1> QED
  BY <1>1, <1>4, <1>6, <1>9, <1>10, <1>11, <1>12, <1>14, WritingKeepsRows

-----------------------------------------------------------------------------
(***************************************************************************)
(* What a step may do, of a request or of somebody else.                   *)
(***************************************************************************)
Acts(v) ==
  \/ Reads(v) \/ SyncFromLegacy(v) \/ Mint(v) \/ Retire(v) \/ RevokeAll(v) \/ Update(v)
  \/ Deactivate(v) \/ SendLink(v) \/ CompleteReset(v) \/ ChangePassword(v)

LEMMA StepsAreActs ==
  SessionsNext <=> \/ \E v \in Visits : Acts(v)
                   \/ \E t \in Tokens : Revoke(t)
                   \/ \E u \in Users : Elsewhere(u)
BY DEF SessionsNext, Acts, Reads

LEMMA RowsStep ==
  ASSUME RowsInv, [SessionsNext]_sessionVars
  PROVE  RowsInv'
<1>1. ASSUME NEW v \in Visits, Reads(v) PROVE RowsInv'
  <2>1. PICK k : Takes(v, k)
    BY <1>1, ReadsAreReliable
  <2> QED
    BY <1>1, <2>1, ReadsAreReliable, ReadingKeepsRows DEF Takes
<1>2. CASE UNCHANGED sessionVars
  <2>1. SessionsTypeOK' /\ RowsOnlyGrow /\ \A w \in Visits : visit'[w] = visit[w]
    BY <1>2 DEF RowsInv, SessionsTypeOK, sessionVars, RowsOnlyGrow
  <2>2. \A w \in Visits : RowsStillThere(visit[w])'
    BY <2>1, RelianceLasts DEF RowsInv
  <2> QED
    BY <1>2, <2>1, <2>2
    DEF RowsInv, sessionVars, TokensReferToRows, LinksReferToRows, KnownSomewhere
<1> QED
  BY <1>1, <1>2, StepsAreActs, SyncKeepsRows, MintAdds, RetireEnds, RevokeAllEnds,
     UpdateKeepsRows, DeactivateKeepsRows, SendLinkKeepsRows, ResetKeepsRows, ChangeKeepsRows,
     RevokeEnds, ElsewhereKeepsRows DEF Acts

LEMMA RowsInit == SessionsInit => RowsInv
<1> SUFFICES ASSUME SessionsInit PROVE RowsInv
  OBVIOUS
<1>1. [active : {TRUE}, password : Passwords] \subseteq Record
  BY DEF Record
<1>2. Free \in Visit
  BY VisitKinds
<1>3. SessionsTypeOK
  BY <1>1, <1>2 DEF SessionsInit, SessionsTypeOK
<1>4. KnownSomewhere
  BY DEF SessionsInit, KnownSomewhere, Absent
<1>5. \A v \in Visits : RowsStillThere(visit[v])
  BY DEF SessionsInit, RowsStillThere, Free
<1>6. TokensReferToRows /\ LinksReferToRows
  BY DEF SessionsInit, TokensReferToRows, LinksReferToRows
<1> QED
  BY <1>3, <1>4, <1>5, <1>6 DEF RowsInv

LEMMA RowsAlways == SessionsSpec => []RowsInv
BY RowsInit, RowsStep, PTL DEF SessionsSpec

(***************************************************************************)
(* Users, tokens, links and requests keep their types.                     *)
(***************************************************************************)
THEOREM SessionsTypeCorrect == SessionsSpec => []SessionsTypeOK
<1>1. RowsInv => SessionsTypeOK
  BY DEF RowsInv
<1> QED
  BY <1>1, RowsAlways, PTL

-----------------------------------------------------------------------------
(***************************************************************************)
(* What holds between the writes.  A quiet step is one that adds no token: *)
(* it finishes what it takes off the list of things to do, and leaves      *)
(* something to do when it takes a right away.                             *)
(***************************************************************************)
QuietFor(u) ==
  /\ Ending(u) => Ending(u)' \/ \A t \in Tokens : Live(t)' => token'[t].user # u
  /\ person'[u] # person[u] =>
       /\ upstream[u] = Absent /\ person'[u].password # person[u].password => Ending(u)'
       /\ person[u] # Absent /\ person[u].status = "ACTIVE" /\ person'[u].status # "ACTIVE" =>
            Ending(u)'
       /\ person'[u].deleted =>
            \/ person'[u].status = "DISABLED"
            \/ person[u] # Absent /\ person[u].deleted /\ person'[u].status = person[u].status

QuietStep ==
  /\ TokensOnlyEnd
  /\ raced => raced'
  /\ ~raced' => /\ \A t \in Retiring : t \in Retiring' \/ ~Live(t)'
                /\ \A u \in Users : QuietFor(u)

LEMMA WhatIsLeftToDo ==
  ASSUME SessionsTypeOK, NEW v \in Visits, NEW k \in Visit, Stage(v, k)
  PROVE  /\ visit[v].op # "retire" => Retiring \subseteq Retiring'
         /\ \A t \in Retiring : t # visit[v].from => t \in Retiring'
         /\ visit[v].op # "end" => \A u \in Users : Ending(u) => Ending(u)'
         /\ \A u \in Users : u # visit[v].user => (Ending(u) => Ending(u)')
         /\ \A u \in Users : k = EndFor(u) => Ending(u)'
<1>1. visit'[v] = k /\ \A w \in Visits \ {v} : visit'[w] = visit[w]
  BY DEF SessionsTypeOK, Stage
<1>2. \A t : t \in Retiring <=> \E w \in Visits : visit[w].op = "retire" /\ visit[w].from = t
  BY DEF Retiring
<1>3. \A t : t \in Retiring' <=> \E w \in Visits : visit'[w].op = "retire" /\ visit'[w].from = t
  BY DEF Retiring
<1>4. \A u : Ending(u) <=> \E w \in Visits : visit[w] = EndFor(u)
  BY DEF Ending
<1>5. \A u : Ending(u)' <=> \E w \in Visits : visit'[w] = EndFor(u)
  BY DEF Ending, EndFor
<1>6. \A u : EndFor(u).op = "end" /\ EndFor(u).user = u
  BY DEF EndFor
<1> QED
  BY <1>1, <1>2, <1>3, <1>4, <1>5, <1>6

\* A step that leaves people and tokens alone and takes nothing off the list.
LEMMA ReadingIsQuiet ==
  ASSUME RowsInv, NEW v \in Visits, Reads(v)
  PROVE  QuietStep
<1>1. PICK k : Takes(v, k)
  BY ReadsAreReliable
<1>2. UNCHANGED <<person, upstream, token, link>> /\ raced' \in BOOLEAN /\ SessionsTypeOK
  BY ReadsAreReliable DEF RowsInv
<1>3. TokensOnlyEnd
  BY <1>2 DEF TokensOnlyEnd, SessionsTypeOK
<1>4. raced => raced'
  BY <1>2 DEF Reads, LoginFirstTime, RetryAgainstLegacy, LoginExistingUser, RefreshIfStale,
     BeginChange, Manage, RequestReset, Rotate, BeginReset, Leave
<1>5. visit[v] = Free \/ Leave(v)
  BY DEF Reads, LoginFirstTime, RetryAgainstLegacy, LoginExistingUser, RefreshIfStale,
     BeginChange, Manage, RequestReset, Rotate, BeginReset
<1>6. ~raced' => visit[v].op \notin {"retire", "end"}
  BY <1>2, <1>5 DEF Leave, Free, SessionsTypeOK
<1> QED
  BY <1>1, <1>2, <1>3, <1>4, <1>6, WhatIsLeftToDo DEF Takes, QuietStep, QuietFor

LEMMA EndingIsQuiet ==
  ASSUME RowsInv
  PROVE  /\ \A v \in Visits : Retire(v) => QuietStep
         /\ \A v \in Visits : RevokeAll(v) => QuietStep
         /\ \A t \in Tokens : Revoke(t) => QuietStep
<1>1. SessionsTypeOK /\ Free \in Visit
  BY VisitKinds DEF RowsInv
<1>2. ASSUME NEW v \in Visits, Retire(v) PROVE QuietStep
  BY <1>1, <1>2, RetireEnds, WhatIsLeftToDo DEF Retire, QuietStep, QuietFor, RowsInv
<1>3. ASSUME NEW v \in Visits, RevokeAll(v) PROVE QuietStep
  BY <1>1, <1>3, RevokeAllEnds, WhatIsLeftToDo DEF RevokeAll, QuietStep, QuietFor
<1>4. ASSUME NEW t \in Tokens, Revoke(t) PROVE QuietStep
  <2>1. TokensOnlyEnd
    BY <1>4, RevokeEnds
  <2>2. UNCHANGED <<person, visit, raced>>
    BY <1>4 DEF Revoke
  <2>3. (\A u \in Users : Ending(u)' <=> Ending(u)) /\ Retiring' = Retiring
    BY <2>2 DEF Ending, Retiring, EndFor
  <2> QED
    BY <2>1, <2>2, <2>3 DEF QuietStep, QuietFor
<1> QED
  BY <1>2, <1>3, <1>4

LEMMA ElsewhereIsQuiet ==
  ASSUME RowsInv, NEW u \in Users, Elsewhere(u)
  PROVE  QuietStep
<1>1. UNCHANGED <<person, token, visit, raced>>
  BY DEF Elsewhere
<1>2. (\A w \in Users : Ending(w)' <=> Ending(w)) /\ Retiring' = Retiring
  BY <1>1 DEF Ending, Retiring, EndFor
<1> QED
  BY <1>1, <1>2 DEF QuietStep, QuietFor, TokensOnlyEnd, RowsInv, SessionsTypeOK

LEMMA SendingIsQuiet ==
  ASSUME RowsInv, NEW v \in Visits, SendLink(v)
  PROVE  QuietStep
<1>1. SessionsTypeOK /\ Free \in Visit
  BY VisitKinds DEF RowsInv
<1>2. UNCHANGED <<person, token, raced>> /\ Stage(v, Free) /\ visit[v].op = "link"
  BY DEF SendLink
<1> QED
  BY <1>1, <1>2, WhatIsLeftToDo DEF QuietStep, QuietFor, TokensOnlyEnd, SessionsTypeOK

\* A write of one person: quiet if what it does to that one is.
LEMMA WritingIsQuiet ==
  ASSUME RowsInv, NEW v \in Visits, NEW k \in Visit, Stage(v, k),
         visit[v].op \notin {"retire", "end"}, UNCHANGED token, raced => raced',
         NEW u \in Users, \A w \in Users \ {u} : person'[w] = person[w],
         ~raced' => QuietFor(u) \/ person'[u] = person[u]
  PROVE  QuietStep
<1>1. SessionsTypeOK
  BY DEF RowsInv
<1>2. TokensOnlyEnd
  BY <1>1 DEF TokensOnlyEnd, SessionsTypeOK
<1>3. /\ \A t \in Retiring : t \in Retiring'
      /\ \A w \in Users : Ending(w) => Ending(w)'
  BY <1>1, WhatIsLeftToDo
<1>4. ASSUME ~raced', NEW w \in Users PROVE QuietFor(w)
  <2>1. CASE person'[w] = person[w]
    BY <1>3, <2>1 DEF QuietFor
  <2>2. CASE person'[w] # person[w]
    <3>1. w = u
      BY <2>2
    <3> QED
      BY <1>4, <2>2, <3>1
  <2> QED
    BY <2>1, <2>2
<1> QED
  BY <1>2, <1>3, <1>4 DEF QuietStep

LEMMA SyncIsQuiet ==
  ASSUME RowsInv, NEW v \in Visits, SyncFromLegacy(v)
  PROVE  QuietStep
<1>0. PICK u \in Users : u = visit[v].user
  BY VisitShapes DEF RowsInv, SyncFromLegacy, Syncing
<1> DEFINE k == visit[v]
           row == [status |-> IF k.record.active THEN "ACTIVE" ELSE "DISABLED",
                   deleted |-> person[u] # Absent /\ person[u].deleted,
                   password |-> IF k.password = Kept THEN person[u].password
                                                     ELSE k.password]
           next == IF k.record.active THEN MintFor(u, row, Absent, row.password)
                                      ELSE EndFor(u)
<1>1. /\ SessionsTypeOK /\ k \in Syncing /\ RowsStillThere(k) /\ k.op = "sync"
  BY <1>0, VisitShapes DEF SyncFromLegacy, RowsInv, Syncing
<1>2. /\ person' = [person EXCEPT ![u] = row] /\ Stage(v, next)
      /\ UNCHANGED token /\ raced' = (raced \/ person[u] # k.seen)
  BY <1>0 DEF SyncFromLegacy, Changed
<1>3. person'[u] = row /\ row \in Person
  BY <1>0, <1>1, <1>2, SyncKeepsRows DEF SessionsTypeOK
<1>4. next \in Visit
  <2>1. CASE k.record.active
    BY <1>1, <1>3, <2>1, VisitKinds DEF MintFor, Minting, Person
  <2>2. CASE ~k.record.active
    BY <1>1, <2>2, VisitKinds DEF EndFor, Ends
  <2> QED
    BY <2>1, <2>2
<1>5. ~k.record.active => Ending(u)'
  BY <1>1, <1>2, <1>4, WhatIsLeftToDo
<1>6. \A w \in Users : Ending(w) => Ending(w)'
  BY <1>1, <1>2, <1>4, WhatIsLeftToDo
<1>7. ASSUME ~raced' PROVE QuietFor(u)
  <2>1. person[u] # Absent => ~person[u].deleted
    BY <1>0, <1>1, <1>2, <1>7 DEF RowsStillThere
  <2>2. upstream[u] # Absent
    BY <1>0, <1>1 DEF RowsStillThere
  <2>3. ~person'[u].deleted
    <3>1. (person[u] # Absent /\ person[u].deleted) = FALSE
      BY <2>1
    <3>2. row.deleted = FALSE
      BY <3>1
    <3> QED
      BY <1>3, <3>2
  <2>4. person'[u].status = "ACTIVE" \/ Ending(u)'
    BY <1>3, <1>5
  <2> QED
    BY <1>6, <2>2, <2>3, <2>4 DEF QuietFor
<1>8. \A w \in Users \ {u} : person'[w] = person[w]
  BY <1>1, <1>2 DEF SessionsTypeOK
<1> QED
  BY <1>1, <1>2, <1>4, <1>7, <1>8, WritingIsQuiet

LEMMA UpdateIsQuiet ==
  ASSUME RowsInv, NEW v \in Visits, Update(v)
  PROVE  QuietStep
<1>0. PICK u \in Users : u = visit[v].user
  BY VisitShapes DEF RowsInv, Update, Updating
<1> DEFINE k == visit[v]
           row == [person[u] EXCEPT !.status = IF k.status = Kept THEN @ ELSE k.status]
           next == IF k.moved \/ k.status = "DISABLED" THEN EndFor(u) ELSE Free
<1>1. /\ SessionsTypeOK /\ k \in Updating /\ RowsStillThere(k) /\ k.op = "update"
      /\ person[u] \in Person
  BY <1>0, VisitShapes, RowsAreTyped DEF Update, RowsInv, Updating, RowsStillThere
<1>2. /\ person' = [person EXCEPT ![u] = row] /\ Stage(v, next)
      /\ UNCHANGED token /\ raced' = (raced \/ person[u] # k.seen)
  BY <1>0 DEF Update, Changed
<1>3. /\ person'[u] = row
      /\ row.password = person[u].password
      /\ row.deleted = person[u].deleted
      /\ row.status = IF k.status = Kept THEN person[u].status ELSE k.status
      /\ k.status \in {"ACTIVE", "DISABLED", Kept}
  BY <1>1, <1>2 DEF SessionsTypeOK, Person, Updating
<1>4. next \in Visit
  BY <1>1, VisitKinds DEF EndFor, Ends
<1>5. k.status = "DISABLED" => Ending(u)'
  BY <1>1, <1>2, <1>4, WhatIsLeftToDo
<1>6. \A w \in Users : Ending(w) => Ending(w)'
  BY <1>1, <1>2, <1>4, WhatIsLeftToDo
<1>7. ASSUME ~raced' PROVE QuietFor(u)
  <2>1. ~person[u].deleted
    BY <1>0, <1>1, <1>2, <1>7 DEF RowsStillThere
  <2> QED
    BY <1>1, <1>3, <1>5, <1>6, <2>1 DEF QuietFor
<1>8. \A w \in Users \ {u} : person'[w] = person[w]
  BY <1>1, <1>2 DEF SessionsTypeOK
<1> QED
  BY <1>1, <1>2, <1>4, <1>7, <1>8, WritingIsQuiet

LEMMA DeactivateIsQuiet ==
  ASSUME RowsInv, NEW v \in Visits, Deactivate(v)
  PROVE  QuietStep
<1>0. PICK u \in Users : u = visit[v].user
  BY VisitShapes DEF RowsInv, Deactivate, Deactivating
<1> DEFINE row == [person[u] EXCEPT !.status = "DISABLED", !.deleted = TRUE]
<1>1. /\ SessionsTypeOK /\ visit[v].op = "deactivate"
      /\ person[u] \in Person
      /\ UNCHANGED <<token, raced>>
  BY <1>0, VisitShapes, RowsAreTyped DEF Deactivate, RowsInv, Deactivating, RowsStillThere
<1>2. CASE Stage(v, Free) /\ UNCHANGED person
  BY <1>1, <1>2, VisitKinds, WritingIsQuiet
<1>3. CASE person' = [person EXCEPT ![u] = row] /\ Stage(v, EndFor(u))
  <2>1. EndFor(u) \in Visit
    BY <1>1, VisitKinds DEF EndFor, Ends
  <2>2. Ending(u)'
    BY <1>1, <1>3, <2>1, WhatIsLeftToDo
  <2>3. person'[u].status = "DISABLED"
    BY <1>1, <1>3 DEF SessionsTypeOK, Person
  <2>4. \A w \in Users \ {u} : person'[w] = person[w]
    BY <1>1, <1>3 DEF SessionsTypeOK
  <2>5. QuietFor(u)
    BY <2>2, <2>3 DEF QuietFor
  <2> QED
    BY <1>1, <1>3, <2>1, <2>4, <2>5, WritingIsQuiet
<1> QED
  BY <1>0, <1>2, <1>3 DEF Deactivate

LEMMA ResetIsQuiet ==
  ASSUME RowsInv, NEW v \in Visits, CompleteReset(v)
  PROVE  QuietStep
<1>0. PICK u \in Users : u = visit[v].user
  BY VisitShapes DEF RowsInv, CompleteReset, Resetting
<1> DEFINE k == visit[v]
           row == [person[u] EXCEPT !.password = k.password, !.status = "ACTIVE"]
<1>1. /\ SessionsTypeOK /\ RowsStillThere(k) /\ k.op = "reset"
      /\ person[u] \in Person
  BY <1>0, VisitShapes, RowsAreTyped DEF CompleteReset, RowsInv, Resetting, RowsStillThere
<1>2. /\ person' = [person EXCEPT ![u] = row] /\ Stage(v, EndFor(u))
      /\ UNCHANGED token
      /\ raced' = (raced \/ person[u] # k.seen \/ link[k.link].used)
  BY <1>0 DEF CompleteReset, Changed
<1>3. EndFor(u) \in Visit
  BY <1>1, VisitKinds DEF EndFor, Ends
<1>4. Ending(u)'
  BY <1>1, <1>2, <1>3, WhatIsLeftToDo
<1>5. person'[u].deleted = person[u].deleted
  BY <1>1, <1>2 DEF SessionsTypeOK, Person
<1>6. ~raced' => ~person[u].deleted
  BY <1>0, <1>1, <1>2 DEF RowsStillThere
<1>7. ~raced' => QuietFor(u)
  BY <1>4, <1>5, <1>6 DEF QuietFor
<1>8. \A w \in Users \ {u} : person'[w] = person[w]
  BY <1>1, <1>2 DEF SessionsTypeOK
<1> QED
  BY <1>1, <1>2, <1>3, <1>7, <1>8, WritingIsQuiet

LEMMA ChangeIsQuiet ==
  ASSUME RowsInv, NEW v \in Visits, ChangePassword(v)
  PROVE  QuietStep
<1>0. PICK u \in Users : u = visit[v].user
  BY VisitShapes DEF RowsInv, ChangePassword, Changing
<1> DEFINE k == visit[v]
           row == [person[u] EXCEPT !.password = k.password]
<1>1. /\ SessionsTypeOK /\ RowsStillThere(k) /\ k \in Changing /\ k.op = "change"
      /\ person[u] \in Person
  BY <1>0, VisitShapes, RowsAreTyped DEF ChangePassword, RowsInv, Changing, RowsStillThere
<1>2. /\ person' = [person EXCEPT ![u] = row] /\ Stage(v, EndFor(u))
      /\ UNCHANGED token
      /\ raced' = (raced \/ person[u] # k.seen)
  BY <1>0 DEF ChangePassword, Changed
<1>3. EndFor(u) \in Visit
  BY VisitKinds DEF EndFor, Ends
<1>4. Ending(u)'
  BY <1>1, <1>2, <1>3, WhatIsLeftToDo
<1>5. /\ person'[u].deleted = person[u].deleted
      /\ person'[u].status = person[u].status
      /\ person[u] # Absent
  BY <1>1, <1>2, SentinelsApart DEF SessionsTypeOK, Person
<1>6. QuietFor(u)
  BY <1>4, <1>5 DEF QuietFor
<1>7. \A w \in Users \ {u} : person'[w] = person[w]
  BY <1>1, <1>2 DEF SessionsTypeOK
<1> QED
  BY <1>1, <1>2, <1>3, <1>6, <1>7, WritingIsQuiet

\* Every step but mint is quiet.
LEMMA QuietUnlessMint ==
  ASSUME RowsInv, [SessionsNext]_sessionVars, \A v \in Visits : ~Mint(v)
  PROVE  QuietStep
<1>1. CASE UNCHANGED sessionVars
  <2>1. (\A u \in Users : Ending(u)' <=> Ending(u)) /\ Retiring' = Retiring
    BY <1>1 DEF Ending, Retiring, EndFor, sessionVars
  <2> QED
    BY <1>1, <2>1
    DEF QuietStep, QuietFor, TokensOnlyEnd, RowsInv, SessionsTypeOK, sessionVars
<1>2. CASE SessionsNext
  BY <1>2, StepsAreActs, ReadingIsQuiet, EndingIsQuiet, ElsewhereIsQuiet, SendingIsQuiet,
     SyncIsQuiet, UpdateIsQuiet, DeactivateIsQuiet, ResetIsQuiet, ChangeIsQuiet DEF Acts
<1> QED
  BY <1>1, <1>2

-----------------------------------------------------------------------------
(***************************************************************************)
(* The safety invariant.                                                   *)
(***************************************************************************)
DeletedIsDisabled ==
  ~raced => \A u \in Users :
    person[u] # Absent /\ person[u].deleted => person[u].status = "DISABLED"

InactiveHoldsNothing ==
  ~raced => \A u \in Users :
    person[u] # Absent /\ ~Ending(u) /\ person[u].status # "ACTIVE" => LiveOf(u) = {}

SessionsInv ==
  /\ RowsInv
  /\ SessionNeverForks /\ PasswordEndsSessions
  /\ DeletedIsDisabled /\ InactiveHoldsNothing

\* A token that is live after a quiet step was so before it, of the same login.
LEMMA LiveWasLive ==
  ASSUME RowsInv, TokensOnlyEnd, NEW t \in Tokens, Live(t)'
  PROVE  Live(t) /\ token'[t] = token[t]
<1>1. token[t] # Absent => Ended(t).revoked
  BY EndedIsAToken DEF RowsInv
<1> QED
  BY <1>1 DEF TokensOnlyEnd, Live

LEMMA QuietIsSafe ==
  ASSUME SessionsInv, QuietStep, RowsInv', \A u \in Users : upstream[u] = Absent <=> upstream'[u] = Absent
  PROVE  SessionsInv'
<1> SUFFICES ASSUME ~raced' PROVE SessionsInv'
  BY DEF SessionsInv, SessionNeverForks, PasswordEndsSessions, DeletedIsDisabled,
         InactiveHoldsNothing
<1>1. ~raced /\ TokensOnlyEnd /\ RowsInv
  BY DEF QuietStep, SessionsInv
<1>2. SessionNeverForks'
  <2>1. SUFFICES ASSUME NEW s \in Tokens \ Retiring', NEW t \in Tokens \ Retiring',
                        Live(s)', Live(t)', token'[s].family = token'[t].family
                 PROVE  s = t
    BY DEF SessionNeverForks, Live
  <2>2. Live(s) /\ Live(t) /\ token[s].family = token[t].family
    BY <1>1, <2>1, LiveWasLive
  <2>3. s \notin Retiring /\ t \notin Retiring
    BY <2>1 DEF QuietStep
  <2> QED
    BY <1>1, <2>2, <2>3 DEF SessionsInv, SessionNeverForks
<1>3. ASSUME NEW u \in Users, ~Ending(u)', NEW t \in Tokens, Live(t)', token'[t].user = u
      PROVE  ~Ending(u) /\ t \in LiveOf(u) /\ token'[t] = token[t] /\ person[u] # Absent
  <2>1. Live(t) /\ token'[t] = token[t]
    BY <1>1, <1>3, LiveWasLive
  <2>2. ~Ending(u)
    BY <1>3 DEF QuietStep, QuietFor
  <2>3. person[u] # Absent
    BY <1>1, <1>3, <2>1 DEF RowsInv, TokensReferToRows, Live
  <2> QED
    BY <1>3, <2>1, <2>2, <2>3 DEF LiveOf
<1>4. PasswordEndsSessions'
  <2>1. SUFFICES ASSUME NEW u \in Users, upstream'[u] = Absent, ~Ending(u)',
                        NEW t \in Tokens, Live(t)', token'[t].user = u
                 PROVE  token'[t].password = person'[u].password
    BY DEF PasswordEndsSessions, LiveOf, isSelfServiceEligible
  <2>2. ~Ending(u) /\ t \in LiveOf(u) /\ token'[t] = token[t]
    BY <1>3, <2>1
  <2>3. token[t].password = person[u].password
    BY <1>1, <2>1, <2>2 DEF SessionsInv, PasswordEndsSessions, isSelfServiceEligible
  <2>4. person'[u].password = person[u].password
    BY <2>1 DEF QuietStep, QuietFor
  <2> QED
    BY <2>2, <2>3, <2>4
<1>5. InactiveHoldsNothing'
  <2>1. SUFFICES ASSUME NEW u \in Users, ~Ending(u)', person'[u].status # "ACTIVE",
                        NEW t \in Tokens, Live(t)', token'[t].user = u
                 PROVE  FALSE
    BY DEF InactiveHoldsNothing, LiveOf
  <2>2. ~Ending(u) /\ t \in LiveOf(u) /\ person[u] # Absent
    BY <1>3, <2>1
  <2>3. person[u].status = "ACTIVE"
    BY <1>1, <2>2 DEF SessionsInv, InactiveHoldsNothing
  <2> QED
    BY <2>1, <2>2, <2>3 DEF QuietStep, QuietFor
<1>6. DeletedIsDisabled'
  <2>1. SUFFICES ASSUME NEW u \in Users, person'[u] # Absent, person'[u].deleted
                 PROVE  person'[u].status = "DISABLED"
    BY DEF DeletedIsDisabled
  <2>2. CASE person'[u] = person[u]
    BY <1>1, <2>1, <2>2 DEF SessionsInv, DeletedIsDisabled
  <2>3. CASE person'[u] # person[u]
    BY <1>1, <2>1, <2>3 DEF QuietStep, QuietFor, SessionsInv, DeletedIsDisabled
  <2> QED
    BY <2>2, <2>3
<1> QED
  BY <1>2, <1>4, <1>5, <1>6 DEF SessionsInv

LEMMA MintIsSafe ==
  ASSUME SessionsInv, NEW v \in Visits, Mint(v)
  PROVE  SessionsInv'
<1> SUFFICES ASSUME ~raced' PROVE SessionsInv'
  BY MintAdds DEF SessionsInv, SessionNeverForks, PasswordEndsSessions, DeletedIsDisabled,
                  InactiveHoldsNothing
<1>1. /\ RowsInv /\ RowsInv' /\ SessionsTypeOK
      /\ visit[v] \in Minting /\ RowsStillThere(visit[v]) /\ visit[v].op = "mint"
  BY MintAdds DEF SessionsInv, RowsInv, Minting
<1>2. PICK u \in Users, from \in Tokens \cup {Absent} :
        u = visit[v].user /\ from = visit[v].from
  BY <1>1 DEF Minting
<1>3. PICK n \in Tokens :
        /\ token[n] = Absent
        /\ token'[n] \in Token
        /\ token'[n].user = u /\ token'[n].password = visit[v].password
        /\ token'[n].family = IF from = Absent THEN n ELSE token[from].family
        /\ \A s \in Tokens \ {n} : token'[s] = token[s]
  BY <1>1, <1>2, MintAdds DEF SessionsInv
<1>4. PICK k \in Visit :
        /\ Stage(v, k)
        /\ k = IF from = Absent THEN Free ELSE [op |-> "retire", user |-> u, from |-> from]
  BY <1>1, <1>2, VisitKinds DEF Mint, Retirement
<1>5. /\ ~raced /\ person[u] = visit[v].seen
      /\ from # Absent => Live(from) /\ from \notin Retiring
  BY <1>2 DEF Mint, Changed
<1>6. /\ UNCHANGED <<person, upstream>>
      /\ person[u] # Absent /\ person[u].status = "ACTIVE"
      /\ from = Absent => visit[v].password = person[u].password
      /\ from # Absent => /\ from \in Tokens /\ token[from] # Absent /\ token[from].user = u
                          /\ token[from].password = visit[v].password
  BY <1>1, <1>2, <1>5 DEF Mint, RowsStillThere
<1>7. /\ Retiring \subseteq Retiring'
      /\ \A w \in Users : Ending(w) => Ending(w)'
  BY <1>1, <1>4, WhatIsLeftToDo
<1>8. from # Absent => from \in Retiring'
  <2>1. visit'[v] = k
    BY <1>1, <1>4 DEF Stage, SessionsTypeOK
  <2> QED
    BY <1>4, <2>1 DEF Retiring
<1>9. \A s \in Tokens \ {n} : Live(s)' => Live(s) /\ token'[s] = token[s]
  BY <1>3 DEF Live
<1>10. SessionNeverForks'
  <2>1. ASSUME NEW s \in Tokens \ Retiring', s # n, Live(s)', token'[s].family = token'[n].family
        PROVE  FALSE
    <3>1. Live(s) /\ token[s].family = token'[n].family /\ s \notin Retiring
      BY <1>7, <1>9, <2>1
    <3>2. CASE from = Absent
      BY <1>1, <1>3, <3>1, <3>2 DEF RowsInv, TokensReferToRows, Live
    <3>3. CASE from # Absent
      <4>1. s = from
        BY <1>3, <1>5, <1>6, <3>1, <3>3 DEF SessionsInv, SessionNeverForks
      <4> QED
        BY <1>8, <2>1, <3>3, <4>1
    <3> QED
      BY <3>2, <3>3
  <2>2. SUFFICES ASSUME NEW s \in Tokens \ Retiring', NEW t \in Tokens \ Retiring',
                        Live(s)', Live(t)', token'[s].family = token'[t].family
                 PROVE  s = t
    BY DEF SessionNeverForks, Live
  <2>3. CASE s # n /\ t # n
    <3>1. /\ Live(s) /\ Live(t) /\ token[s].family = token[t].family
          /\ s \notin Retiring /\ t \notin Retiring
      BY <1>7, <1>9, <2>2, <2>3
    <3> QED
      BY <1>5, <3>1 DEF SessionsInv, SessionNeverForks
  <2> QED
    BY <2>1, <2>2, <2>3
<1>11. PasswordEndsSessions'
  <2>1. SUFFICES ASSUME NEW w \in Users, upstream'[w] = Absent, ~Ending(w)',
                        NEW t \in Tokens, Live(t)', token'[t].user = w
                 PROVE  token'[t].password = person'[w].password
    BY DEF PasswordEndsSessions, LiveOf, isSelfServiceEligible
  <2>2. \A s \in LiveOf(w) : token[s].password = person[w].password
    BY <1>5, <1>6, <1>7, <2>1 DEF SessionsInv, PasswordEndsSessions, isSelfServiceEligible
  <2>3. CASE t = n
    BY <1>3, <1>5, <1>6, <2>1, <2>2, <2>3 DEF LiveOf
  <2>4. CASE t # n
    BY <1>6, <1>9, <2>1, <2>2, <2>4 DEF LiveOf
  <2> QED
    BY <2>3, <2>4
<1>12. InactiveHoldsNothing'
  <2>1. SUFFICES ASSUME NEW w \in Users, person'[w] # Absent, ~Ending(w)',
                        person'[w].status # "ACTIVE",
                        NEW t \in Tokens, Live(t)', token'[t].user = w
                 PROVE  FALSE
    BY DEF InactiveHoldsNothing, LiveOf
  <2>2. w # u
    BY <1>6, <2>1
  <2>3. t # n /\ Live(t) /\ token[t].user = w
    BY <1>3, <1>9, <2>1, <2>2
  <2> QED
    BY <1>5, <1>6, <1>7, <2>1, <2>3 DEF SessionsInv, InactiveHoldsNothing, LiveOf
<1>13. DeletedIsDisabled'
  BY <1>5, <1>6 DEF SessionsInv, DeletedIsDisabled
<1> QED
  BY <1>1, <1>10, <1>11, <1>12, <1>13 DEF SessionsInv

LEMMA SessionsStep ==
  ASSUME SessionsInv, [SessionsNext]_sessionVars
  PROVE  SessionsInv'
<1>1. CASE \E v \in Visits : Mint(v)
  BY <1>1, MintIsSafe
<1>2. CASE \A v \in Visits : ~Mint(v)
  <2>1. QuietStep /\ RowsInv'
    BY <1>2, QuietUnlessMint, RowsStep DEF SessionsInv
  <2>2. ASSUME NEW v \in Visits, Acts(v) PROVE UNCHANGED upstream
    <3>1. CASE Reads(v)
      BY <3>1, ReadsAreReliable DEF SessionsInv
    <3> QED
      BY <2>2, <3>1
      DEF Acts, SyncFromLegacy, Mint, Retire, RevokeAll, Update, Deactivate, SendLink,
          CompleteReset, ChangePassword
  <2>3. \A u \in Users : upstream[u] = Absent <=> upstream'[u] = Absent
    BY <2>2, StepsAreActs, ElsewhereKeepsRows
    DEF SessionsInv, RowsOnlyGrow, Revoke, sessionVars
  <2> QED
    BY <2>1, <2>3, QuietIsSafe
<1> QED
  BY <1>1, <1>2

LEMMA SessionsStart == SessionsInit => SessionsInv
<1> SUFFICES ASSUME SessionsInit PROVE SessionsInv
  OBVIOUS
<1>1. \A t \in Tokens : ~Live(t)
  BY DEF SessionsInit, Live
<1>2. \A u \in Users : person[u] # Absent => person[u].deleted = FALSE
  BY DEF SessionsInit
<1> QED
  BY <1>1, <1>2, RowsInit
  DEF SessionsInv, SessionNeverForks, PasswordEndsSessions, DeletedIsDisabled,
      InactiveHoldsNothing, LiveOf

LEMMA SessionsAlways == SessionsSpec => []SessionsInv
BY SessionsStart, SessionsStep, PTL DEF SessionsSpec

(***************************************************************************)
(* Of all the tokens that descend from one login at most one can be        *)
(* presented, unless a rotation worked from a stale read or died between   *)
(* its two writes (mint, rotate; token.service.ts).                        *)
(***************************************************************************)
THEOREM LoginsNeverFork == SessionsSpec => []SessionNeverForks
<1>1. SessionsInv => SessionNeverForks
  BY DEF SessionsInv
<1> QED
  BY <1>1, SessionsAlways, PTL

(***************************************************************************)
(* A replaced password and a lost place end every session, and no request  *)
(* under way brings a deactivated user back, unless it wrote over a row    *)
(* that had changed (users.service.ts, password-reset.service.ts).         *)
(***************************************************************************)
THEOREM LosingAccessEndsSessions == SessionsSpec => []AccessEndsSessions
<1>1. SessionsInv => AccessEndsSessions
  <2> SUFFICES ASSUME SessionsInv PROVE AccessEndsSessions
    OBVIOUS
  <2>1. PasswordEndsSessions
    BY DEF SessionsInv
  <2>2. InactiveHoldsNoSession
    BY DEF SessionsInv, InactiveHoldsNoSession, DeletedIsDisabled, InactiveHoldsNothing
  <2> QED
    BY <2>1, <2>2 DEF AccessEndsSessions
<1> QED
  BY <1>1, SessionsAlways, PTL
=============================================================================
