------------------------------ MODULE Sessions ------------------------------
(***************************************************************************)
(* Who is signed in: token.service.ts, auth.service.ts with its replica of *)
(* the legacy users (user-provisioning.service.ts), password-reset.service *)
(* and what users.service.ts does to a user's standing.                    *)
(*                                                                         *)
(* Every handler reads first and writes later, by id; `visit` is what each *)
(* request in flight has read and the write it has still to make.  Tokens  *)
(* and links that expire are refused from then on, so an expired one is    *)
(* one nobody presents again.                                              *)
(***************************************************************************)
EXTENDS Naturals, FiniteSets

CONSTANTS
  Users,
  Tokens,     \* ids of refresh_tokens rows
  Links,      \* ids of password_reset_tokens rows
  Visits,     \* requests that can be in flight at once
  Passwords

VARIABLES
  person,     \* the users rows
  upstream,   \* the legacy record of each user, external
  token, link,
  visit,
  raced       \* history: a request wrote from a row that had changed since it
              \* was read, or died with a write still to make

sessionVars == <<person, upstream, token, link, visit, raced>>

Absent == [status |-> "ABSENT"]
Free == [op |-> "free"]

Person == [status : {"ACTIVE", "DISABLED"}, deleted : BOOLEAN, password : Passwords]
Record == [active : BOOLEAN, password : Passwords]

\* `family` and `password` are of the login a token descends from.
Token == [user : Users, revoked : BOOLEAN, family : Tokens, password : Passwords]
Link == [user : Users, used : BOOLEAN]

Kept == "kept"
ASSUME SentinelsAssumption == Kept \notin Passwords /\ Absent \notin Tokens

Visit ==
  {Free}
    \cup [op : {"sync"}, user : Users, seen : Person \cup {Absent}, record : Record,
          password : Passwords \cup {Kept}]
    \cup [op : {"mint"}, user : Users, seen : Person, from : Tokens \cup {Absent},
          password : Passwords]
    \cup [op : {"retire"}, user : Users, from : Tokens]
    \cup [op : {"end"}, user : Users]
    \cup [op : {"update"}, user : Users, seen : Person, moved : BOOLEAN,
          status : {"ACTIVE", "DISABLED", Kept}]
    \cup [op : {"deactivate"}, user : Users]
    \cup [op : {"link"}, user : Users, outstanding : SUBSET Links]
    \cup [op : {"reset"}, user : Users, seen : Person, link : Links, password : Passwords]
    \cup [op : {"change"}, user : Users, seen : Person, password : Passwords]

SessionsTypeOK ==
  /\ person \in [Users -> Person \cup {Absent}]
  /\ upstream \in [Users -> Record \cup {Absent}]
  /\ token \in [Tokens -> Token \cup {Absent}]
  /\ link \in [Links -> Link \cup {Absent}]
  /\ visit \in [Visits -> Visit]
  /\ raced \in BOOLEAN

\* A user of the portal is either known upstream and not yet here, or invited.
SessionsInit ==
  /\ upstream \in [Users -> {Absent} \cup [active : {TRUE}, password : Passwords]]
  /\ person \in [Users -> Person \cup {Absent}]
  /\ \A u \in Users :
       IF upstream[u] = Absent
         THEN \E p \in Passwords : person[u] = 
                                    [status |-> "ACTIVE", deleted |-> FALSE, password |-> p]
         ELSE person[u] = Absent
  /\ token = [t \in Tokens |-> Absent]
  /\ link = [l \in Links |-> Absent]
  /\ visit = [v \in Visits |-> Free]
  /\ raced = FALSE

-----------------------------------------------------------------------------
Live(t) == token[t] # Absent /\ ~token[t].revoked
LiveOf(u) == {t \in Tokens : Live(t) /\ token[t].user = u}

\* Tokens exchanged for a new one and not revoked yet.
Retiring == {visit[v].from : v \in {w \in Visits : visit[w].op = "retire"}}

Changed(v) == person[visit[v].user] # visit[v].seen

\* isSelfServiceEligible: no legacy record keeps this user's password.
isSelfServiceEligible(u) == upstream[u] = Absent

Stage(v, w) == visit' = [visit EXCEPT ![v] = w]
MintFor(u, row, from, password) ==
  [op |-> "mint", user |-> u, seen |-> row, from |-> from, password |-> password]
EndFor(u) == [op |-> "end", user |-> u]

-----------------------------------------------------------------------------
(***************************************************************************)
(* Signing in.                                                             *)
(***************************************************************************)
SyncFor(u, record, password) ==
  [op |-> "sync", user |-> u, seen |-> person[u], record |-> record, password |-> password]

\* The password is right upstream and the user active there.
AcceptedUpstream(u, p) ==
  /\ upstream[u] # Absent
  /\ upstream[u].password = p
  /\ upstream[u].active

LoginFirstTime(v, u, p) ==
  /\ visit[v] = Free
  /\ person[u] = Absent
  /\ AcceptedUpstream(u, p)
  /\ Stage(v, SyncFor(u, upstream[u], p))
  /\ UNCHANGED <<person, upstream, token, link, raced>>

\* After a local mismatch; whether the user is disabled here is not asked.
RetryAgainstLegacy(v, u, p) ==
  /\ visit[v] = Free
  /\ person[u] # Absent
  /\ ~person[u].deleted
  /\ person[u].password # p
  /\ AcceptedUpstream(u, p)
  /\ Stage(v, SyncFor(u, upstream[u], p))
  /\ UNCHANGED <<person, upstream, token, link, raced>>

MatchesHere(u, p) ==
  /\ person[u] # Absent
  /\ ~person[u].deleted
  /\ person[u].password = p
  /\ person[u].status = "ACTIVE"

LoginExistingUser(v, u, p) ==
  /\ visit[v] = Free
  /\ MatchesHere(u, p)
  /\ Stage(v, MintFor(u, person[u], Absent, p))
  /\ UNCHANGED <<person, upstream, token, link, raced>>

\* A replica found past its time to live is refreshed if legacy can be reached.
RefreshIfStale(v, u, p) ==
  /\ visit[v] = Free
  /\ MatchesHere(u, p)
  /\ upstream[u] # Absent
  /\ Stage(v, SyncFor(u, upstream[u], Kept))
  /\ UNCHANGED <<person, upstream, token, link, raced>>

SyncWipesPassword(v) ==                  \* mutant: a profile-only refresh writes it too
  /\ visit[v].op = "sync"
  /\ LET k == visit[v]
     IN  /\ person' = [person EXCEPT ![k.user] =
              [status |-> IF k.record.active THEN "ACTIVE" ELSE "DISABLED",
               deleted |-> person[k.user] # Absent /\ person[k.user].deleted,
               password |-> k.password]]
         /\ Stage(v, EndFor(k.user))
  /\ UNCHANGED <<upstream, token, link, raced>>
\* syncFromLegacy: one transaction; a deleted row stays deleted.  What is left
\* to do is a token, or for someone inactive upstream the end of theirs.
SyncFromLegacy(v) ==
  /\ visit[v].op = "sync"
  /\ LET k == visit[v]
         row == [status |-> IF k.record.active THEN "ACTIVE" ELSE "DISABLED",
                 deleted |-> person[k.user] # Absent /\ person[k.user].deleted,
                 password |-> IF k.password = Kept THEN person[k.user].password
                                                   ELSE k.password]
     IN  /\ person' = [person EXCEPT ![k.user] = row]
         /\ Stage(v, IF k.record.active THEN MintFor(k.user, row, Absent, row.password)
                                        ELSE EndFor(k.user))
         /\ raced' = (raced \/ Changed(v))
  /\ UNCHANGED <<upstream, token, link>>

-----------------------------------------------------------------------------
(***************************************************************************)
(* Tokens.  mint is two writes: the new row, then the old one's revocation.*)
(***************************************************************************)
Mint(v) ==
  /\ visit[v].op = "mint"
  /\ \E t \in {s \in Tokens : token[s] = Absent} :
       LET k == visit[v]
       IN  /\ token' = [token EXCEPT ![t] =
                [user |-> k.user, revoked |-> FALSE, password |-> k.password,
                 family |-> IF k.from = Absent THEN t ELSE token[k.from].family]]
           /\ Stage(v, IF k.from = Absent THEN Free
                       ELSE [op |-> "retire", user |-> k.user, from |-> k.from])
           /\ raced' = (raced \/ Changed(v) \/ (k.from # Absent /\ (~Live(k.from) \/ k.from \in Retiring)))
  /\ UNCHANGED <<person, upstream, link>>

RetireInName(v) ==                       \* mutant: rotatedToId without revokedAt
  /\ visit[v].op = "retire"
  /\ Stage(v, Free)
  /\ UNCHANGED <<person, upstream, token, link, raced>>
Retire(v) ==
  /\ visit[v].op = "retire"
  /\ token' = [token EXCEPT ![visit[v].from].revoked = TRUE]
  /\ Stage(v, Free)
  /\ UNCHANGED <<person, upstream, link, raced>>

Welcome(u) == person[u].status = "ACTIVE" /\ ~person[u].deleted

\* rotate: reuse of a revoked token, or a user no longer active, ends them all.
Rotate(v, t) ==
  /\ visit[v] = Free
  /\ token[t] # Absent
  /\ LET u == token[t].user
     IN  Stage(v, IF Live(t) /\ Welcome(u) THEN MintFor(u, person[u], t, token[t].password)
                                           ELSE EndFor(u))
  /\ UNCHANGED <<person, upstream, token, link, raced>>

\* revokeAllForUser.
RevokeAll(v) ==
  /\ visit[v].op = "end"
  /\ token' = [t \in Tokens |->
                 IF t \in LiveOf(visit[v].user) THEN [token[t] EXCEPT !.revoked = TRUE]
                                                ELSE token[t]]
  /\ Stage(v, Free)
  /\ UNCHANGED <<person, upstream, link, raced>>

\* logout.
Revoke(t) ==
  /\ Live(t)
  /\ token' = [token EXCEPT ![t].revoked = TRUE]
  /\ UNCHANGED <<person, upstream, link, visit, raced>>

-----------------------------------------------------------------------------
(***************************************************************************)
(* A manager's changes.  `moved` is a change of role or branch.            *)
(***************************************************************************)
Found(u) == person[u] # Absent /\ ~person[u].deleted

Manage(v, u) ==
  /\ visit[v] = Free
  /\ Found(u)
  /\ \/ \E status \in {"ACTIVE", "DISABLED", Kept}, moved \in BOOLEAN :
          Stage(v, [op |-> "update", user |-> u, seen |-> person[u], status |-> status,
                    moved |-> moved])
     \/ Stage(v, [op |-> "deactivate", user |-> u])
  /\ UNCHANGED <<person, upstream, token, link, raced>>

UpdateLeavesSessions(v) ==               \* mutant: sessions end on a move only
  /\ visit[v].op = "update"
  /\ LET k == visit[v]
     IN  /\ person' = [person EXCEPT ![k.user].status = IF k.status = Kept THEN @ ELSE k.status]
         /\ Stage(v, IF k.moved THEN EndFor(k.user) ELSE Free)
         /\ raced' = (raced \/ Changed(v))
  /\ UNCHANGED <<upstream, token, link>>
\* update: by id, so a user deleted since is written all the same.
Update(v) ==
  /\ visit[v].op = "update"
  /\ LET k == visit[v]
     IN  /\ person' = [person EXCEPT ![k.user].status = IF k.status = Kept THEN @ ELSE k.status]
         /\ Stage(v, IF k.moved \/ k.status = "DISABLED" THEN EndFor(k.user) ELSE Free)
         /\ raced' = (raced \/ Changed(v))
  /\ UNCHANGED <<upstream, token, link>>

\* deactivate: of a row not deleted yet, or nothing.
Deactivate(v) ==
  /\ visit[v].op = "deactivate"
  /\ LET u == visit[v].user
     IN  \/ /\ ~person[u].deleted
            /\ person' = [person EXCEPT ![u].status = "DISABLED", ![u].deleted = TRUE]
            /\ Stage(v, EndFor(u))
         \/ /\ person[u].deleted
            /\ Stage(v, Free)
            /\ UNCHANGED person
  /\ UNCHANGED <<upstream, token, link, raced>>

-----------------------------------------------------------------------------
(***************************************************************************)
(* Passwords.                                                              *)
(***************************************************************************)
\* request: its transaction spends the links it saw and adds one.
RequestReset(v, u) ==
  /\ visit[v] = Free
  /\ Found(u)
  /\ isSelfServiceEligible(u)
  /\ Stage(v, [op |-> "link", user |-> u,
               outstanding |-> {l \in Links : link[l] = [user |-> u, used |-> FALSE]}])
  /\ UNCHANGED <<person, upstream, token, link, raced>>

SendLink(v) ==
  /\ visit[v].op = "link"
  /\ \E n \in {l \in Links : link[l] = Absent} :
       link' = [l \in Links |->
                  IF l = n THEN [user |-> visit[v].user, used |-> FALSE]
                  ELSE IF l \in visit[v].outstanding THEN [link[l] EXCEPT !.used = TRUE]
                  ELSE link[l]]
  /\ Stage(v, Free)
  /\ UNCHANGED <<person, upstream, token, raced>>

BeginReset(v, l, p) ==
  /\ visit[v] = Free
  /\ link[l] # Absent
  /\ ~link[l].used
  /\ LET u == link[l].user
     IN  /\ ~person[u].deleted
         /\ person[u].status # "DISABLED"
         /\ isSelfServiceEligible(u)
         /\ Stage(v, [op |-> "reset", user |-> u, seen |-> person[u], link |-> l,
                      password |-> p])
  /\ UNCHANGED <<person, upstream, token, link, raced>>

\* complete: writes user and link by id, then ends the sessions.
CompleteReset(v) ==
  /\ visit[v].op = "reset"
  /\ LET k == visit[v]
     IN  /\ person' = [person EXCEPT ![k.user].password = k.password,
                                     ![k.user].status = "ACTIVE"]
         /\ link' = [link EXCEPT ![k.link].used = TRUE]
         /\ Stage(v, EndFor(k.user))
         /\ raced' = (raced \/ Changed(v) \/ link[k.link].used)
  /\ UNCHANGED <<upstream, token>>

\* change: the current password is proven by who knows it.
BeginChange(v, u, p) ==
  /\ visit[v] = Free
  /\ person[u] # Absent
  /\ person[u].password # p
  /\ Stage(v, [op |-> "change", user |-> u, seen |-> person[u], password |-> p])
  /\ UNCHANGED <<person, upstream, token, link, raced>>

ChangeLeavesSessions(v) ==               \* mutant: no revokeAllForUser
  /\ visit[v].op = "change"
  /\ person' = [person EXCEPT ![visit[v].user].password = visit[v].password]
  /\ Stage(v, Free)
  /\ raced' = (raced \/ Changed(v))
  /\ UNCHANGED <<upstream, token, link>>
ChangePassword(v) ==
  /\ visit[v].op = "change"
  /\ person' = [person EXCEPT ![visit[v].user].password = visit[v].password]
  /\ Stage(v, EndFor(visit[v].user))
  /\ raced' = (raced \/ Changed(v))
  /\ UNCHANGED <<upstream, token, link>>

-----------------------------------------------------------------------------
\* A request is refused, times out, or dies with its process.
Leave(v) ==
  /\ visit[v] # Free
  /\ Stage(v, Free)
  /\ raced' = (raced \/ visit[v].op \in {"retire", "end"})
  /\ UNCHANGED <<person, upstream, token, link>>

\* The legacy system changes its record.
Elsewhere(u) ==
  /\ upstream[u] # Absent
  /\ \E record \in Record : upstream' = [upstream EXCEPT ![u] = record]
  /\ UNCHANGED <<person, token, link, visit, raced>>

SessionsNext ==
  \/ \E v \in Visits :
       \/ \E u \in Users, p \in Passwords :
            \/ LoginFirstTime(v, u, p) \/ RetryAgainstLegacy(v, u, p)
            \/ LoginExistingUser(v, u, p) \/ RefreshIfStale(v, u, p) \/ BeginChange(v, u, p)
       \/ \E u \in Users : Manage(v, u) \/ RequestReset(v, u)
       \/ \E t \in Tokens : Rotate(v, t)
       \/ \E l \in Links, p \in Passwords : BeginReset(v, l, p)
       \/ SyncFromLegacy(v) \/ Mint(v) \/ Retire(v) \/ RevokeAll(v) \/ Update(v)
       \/ Deactivate(v) \/ SendLink(v) \/ CompleteReset(v) \/ ChangePassword(v) \/ Leave(v)
  \/ \E t \in Tokens : Revoke(t)
  \/ \E u \in Users : Elsewhere(u)

SessionsSpec == SessionsInit /\ [][SessionsNext]_sessionVars

-----------------------------------------------------------------------------
Ending(u) == \E v \in Visits : visit[v] = EndFor(u)

(***************************************************************************)
(* Rotation never forks a session: of all the tokens that descend from one *)
(* login, at most one can be presented.  Only a rotation that worked from  *)
(* a stale read, or was cut off between its two writes, can fork one: that *)
(* is what mint (token.service.ts) leaves open, and no more.               *)
(***************************************************************************)
SessionNeverForks ==
  ~raced =>
    \A s, t \in Tokens \ Retiring :
      Live(s) /\ Live(t) /\ token[s].family = token[t].family => s = t

(***************************************************************************)
(* A changed or reset password leaves no session opened with the one it    *)
(* replaced, whatever logins and rotations it overlapped, unless one of    *)
(* them wrote from what it had read before (password-reset.service.ts).    *)
(* For portal passwords: one replaced from legacy ends nothing.            *)
(***************************************************************************)
PasswordEndsSessions ==
  ~raced =>
    \A u \in Users :
      isSelfServiceEligible(u) /\ ~Ending(u) =>
        \A t \in LiveOf(u) : token[t].password = person[u].password

(***************************************************************************)
(* A user who is not active holds no session, and a deactivated user is    *)
(* not made active again by a login, a reset or an edit under way          *)
(* (users.service.ts, auth.service.ts), again unless one wrote from a      *)
(* stale read.                                                             *)
(***************************************************************************)
InactiveHoldsNoSession ==
  ~raced =>
    \A u \in Users :
      person[u] # Absent /\ ~Ending(u) =>
        /\ person[u].status # "ACTIVE" => LiveOf(u) = {}
        /\ person[u].deleted => person[u].status = "DISABLED"

(***************************************************************************)
(* Losing one's password or one's place ends every session                 *)
(* (revokeAllForUser: users.service.ts, password-reset.service.ts).        *)
(***************************************************************************)
AccessEndsSessions == PasswordEndsSessions /\ InactiveHoldsNoSession
=============================================================================
