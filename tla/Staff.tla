------------------------------- MODULE Staff -------------------------------
(***************************************************************************)
(* The people of one account and what they may do: users.service.ts, as    *)
(* seen by managers who act on one another.                                *)
(*                                                                         *)
(* A caller is believed by an access token, which carries the role it was  *)
(* issued with and is checked against nothing (jwt-auth.guard.ts) until it *)
(* expires; what it lets them do is what that role carries and the user's  *)
(* own grants at the moment of the request (permission.service.ts).  Every *)
(* change is decided first and written by id later.  The permission here   *)
(* is USER_MANAGE; the others, and grants on single objects, are in        *)
(* Permissions.                                                            *)
(***************************************************************************)
EXTENDS Naturals, FiniteSets

CONSTANTS
  People,
  StaffRoles,    \* the roles that occur, of ADMIN, HEAD_OFFICE and SITE_USER
  Grants,        \* ids of user_permission_grants rows
  Windows        \* requests that can be in flight at once

VARIABLES
  staff,         \* the users rows
  grant,         \* the grants of USER_MANAGE, account-wide
  badge,         \* the role in each person's access token, or NoBadge
  window,        \* what each request in flight has read
  outdated,      \* history: someone acted on a token or a row that had changed
  renounced      \* history: a grant took the right from its own giver, or ran out

staffVars == <<staff, grant, badge, window, outdated, renounced>>

NoBadge == "none"
Shut == [op |-> "shut"]
NoGrant == [effect |-> "none"]
Gone == [effect |-> "gone"]     \* a deleted row, whose id is not used again
Same == "same"

StaffRow == [role : StaffRoles, status : {"ACTIVE", "DISABLED"}, deleted : BOOLEAN,
             site : BOOLEAN, external : BOOLEAN]
GrantRow == [user : People, effect : {"ALLOW", "DENY"}, lapsed : BOOLEAN]

\* dto: a new role, a new status, or the branch taken away.
Change ==
  [role : StaffRoles, status : {Same}, detach : {FALSE}]
    \cup [role : {Same}, status : {"ACTIVE", "DISABLED"}, detach : {FALSE}]
    \cup [role : {Same}, status : {Same}, detach : {TRUE}]

Window == {Shut}
  \cup [op : {"update"}, user : People, dto : Change]
  \cup [op : {"deactivate"}, user : People]
  \cup [op : {"grant"}, user : People, effect : {"ALLOW", "DENY"},
        found : Grants \cup {NoGrant}, own : BOOLEAN]
  \cup [op : {"revoke"}, user : People, own : BOOLEAN]

StaffTypeOK ==
  /\ staff \in [People -> StaffRow]
  /\ grant \in [Grants -> GrantRow \cup {NoGrant, Gone}]
  /\ badge \in [People -> StaffRoles \cup {NoBadge}]
  /\ window \in [Windows -> Window]
  /\ outdated \in BOOLEAN /\ renounced \in BOOLEAN

\* An external user is invited to a branch, and never as an administrator.
StaffInit ==
  /\ staff \in [People -> [role : StaffRoles, status : {"ACTIVE"}, deleted : {FALSE},
                           site : {TRUE}, external : BOOLEAN]]
  /\ \A p \in People : staff[p].external => staff[p].role # "ADMIN"
  /\ grant = [g \in Grants |-> NoGrant]
  /\ badge = [p \in People |-> NoBadge]
  /\ window = [w \in Windows |-> Shut]
  /\ outdated = FALSE /\ renounced = FALSE

-----------------------------------------------------------------------------
Working(p) == staff[p].status = "ACTIVE" /\ ~staff[p].deleted

\* The grants of a user, those that have run out among them.
RowsOf(p) == {g \in Grants : grant[g] \notin {NoGrant, Gone} /\ grant[g].user = p}
Told(p, effect) == \E g \in RowsOf(p) : grant[g].effect = effect /\ ~grant[g].lapsed

\* Whose role carries USER_MANAGE; an external user's never does.
Carries(role, external) == ~external /\ role \in {"ADMIN", "HEAD_OFFICE"}

\* An allowance adds to the role, and a denial beats both.
HoldsManage(role, p) ==
  /\ Carries(role, staff[p].external) \/ Told(p, "ALLOW")
  /\ ~Told(p, "DENY")
MayManage(p) == badge[p] # NoBadge /\ HoldsManage(badge[p], p)

Await(w, k) == window' = [window EXCEPT ![w] = k]

\* Signing in, or a refresh: a token with the role of the moment.
SignIn(p) ==
  /\ Working(p)
  /\ badge' = [badge EXCEPT ![p] = staff[p].role]
  /\ UNCHANGED <<staff, grant, window, outdated, renounced>>

TokenExpires(p) ==
  /\ badge' = [badge EXCEPT ![p] = NoBadge]
  /\ UNCHANGED <<staff, grant, window, outdated, renounced>>

\* The actor's token no longer says what the actor is.
Stale(p) == ~Working(p) \/ badge[p] # staff[p].role

-----------------------------------------------------------------------------
assertSelfKeepsRole(target, dto, actor) ==           \* mutant: one may disable oneself
  target = actor => dto.role \in {Same, badge[actor]}
assertNotSelfDemotion(target, dto, actor) ==
  target = actor =>
    /\ dto.role \in {Same, badge[actor]}
    /\ dto.status # "DISABLED"

assertExternalStaysConstrained(target, dto) ==
  staff[target].external =>
    /\ dto.role \in {Same, "SITE_USER"}
    /\ ~dto.detach

assertMayGrantRole(actor, role) == role = "ADMIN" => badge[actor] = "ADMIN"

BeginUpdateUser(w, actor, p, dto) ==
  /\ window[w] = Shut
  /\ MayManage(actor)
  /\ assertMayGrantRole(actor, dto.role)
  /\ ~staff[p].deleted
  /\ assertNotSelfDemotion(p, dto, actor)
  /\ assertExternalStaysConstrained(p, dto)
  /\ Await(w, [op |-> "update", user |-> p, dto |-> dto])
  /\ outdated' = (outdated \/ Stale(actor))
  /\ UNCHANGED <<staff, grant, badge, renounced>>

\* A request that may take the right to manage from somebody, and two of them
\* that were decided before either wrote.
Takes(k) ==
  \/ k.op \in {"update", "deactivate", "revoke"}
  \/ k.op = "grant" /\ k.effect = "DENY"
Overtaken(w) == \E x \in Windows \ {w} : Takes(window[x])

UpdateUser(w) ==
  /\ window[w].op = "update"
  /\ LET p == window[w].user
         dto == window[w].dto
         row == staff[p]
     IN  staff' = [staff EXCEPT ![p] = [row EXCEPT
           !.role = IF dto.role = Same THEN @ ELSE dto.role,
           !.status = IF dto.status = Same THEN @ ELSE dto.status,
           !.site = @ /\ ~dto.detach]]
  /\ Await(w, Shut)
  /\ outdated' = (outdated \/ Overtaken(w))
  /\ UNCHANGED <<grant, badge, renounced>>

BeginDeactivateAnyone(w, actor, p) ==                \* mutant: oneself included
  /\ window[w] = Shut
  /\ MayManage(actor)
  /\ ~staff[p].deleted
  /\ Await(w, [op |-> "deactivate", user |-> p])
  /\ outdated' = (outdated \/ Stale(actor))
  /\ UNCHANGED <<staff, grant, badge, renounced>>
BeginDeactivateUser(w, actor, p) ==
  /\ window[w] = Shut
  /\ MayManage(actor)
  /\ p # actor
  /\ ~staff[p].deleted
  /\ Await(w, [op |-> "deactivate", user |-> p])
  /\ outdated' = (outdated \/ Stale(actor))
  /\ UNCHANGED <<staff, grant, badge, renounced>>

\* A row deleted meanwhile is not found.
DeactivateUser(w) ==
  /\ window[w].op = "deactivate"
  /\ LET p == window[w].user
     IN  \/ /\ staff[p].deleted
            /\ UNCHANGED staff
         \/ /\ ~staff[p].deleted
            /\ staff' = [staff EXCEPT ![p].status = "DISABLED", ![p].deleted = TRUE]
  /\ Await(w, Shut)
  /\ outdated' = (outdated \/ Overtaken(w))
  /\ UNCHANGED <<grant, badge, renounced>>

-----------------------------------------------------------------------------
\* Nobody hands out what their role does not carry, whatever they were allowed.
assertMayGrantPermission(actor) ==
  badge[actor] = "ADMIN" \/ Carries(badge[actor], staff[actor].external)

\* grant: finds a row and updates it, or creates one; no index forbids a second.
\* Nothing keeps a manager from denying it to themself.
BeginGrant(w, actor, p, effect) ==
  /\ window[w] = Shut
  /\ MayManage(actor)
  /\ assertMayGrantPermission(actor)
  /\ ~staff[p].deleted
  /\ \E g \in IF RowsOf(p) = {} THEN {NoGrant} ELSE RowsOf(p) :
       Await(w, [op |-> "grant", user |-> p, effect |-> effect, found |-> g, own |-> p = actor])
  /\ outdated' = (outdated \/ Stale(actor))
  /\ UNCHANGED <<staff, grant, badge, renounced>>

GrantAnew(w) ==                                      \* mutant: always a new row
  /\ window[w].op = "grant"
  /\ \E g \in {x \in Grants : grant[x] = NoGrant} :
       grant' = [grant EXCEPT ![g] = [user |-> window[w].user, effect |-> window[w].effect,
                                      lapsed |-> FALSE]]
  /\ Await(w, Shut)
  /\ UNCHANGED <<staff, badge, outdated, renounced>>
GrantPermission(w) ==
  /\ window[w].op = "grant"
  /\ LET k == window[w]
         row == [user |-> k.user, effect |-> k.effect, lapsed |-> FALSE]
     IN  /\ \E g \in Grants :
              /\ IF k.found = NoGrant THEN grant[g] = NoGrant
                 ELSE g = k.found /\ g \in RowsOf(k.user)
              /\ grant' = [grant EXCEPT ![g] = row]
         /\ outdated' = \/ outdated
                        \/ k.found = NoGrant /\ RowsOf(k.user) # {}
                        \/ k.effect = "DENY" /\ Overtaken(w)
         /\ renounced' = (renounced \/ (k.effect = "DENY" /\ k.own))
  /\ Await(w, Shut)
  /\ UNCHANGED <<staff, badge>>

BeginRevokeGrant(w, actor, p) ==
  /\ window[w] = Shut
  /\ MayManage(actor)
  /\ Await(w, [op |-> "revoke", user |-> p, own |-> p = actor])
  /\ outdated' = (outdated \/ Stale(actor))
  /\ UNCHANGED <<staff, grant, badge, renounced>>

RevokeFromAnyone(w) ==                               \* mutant: the user not looked at
  /\ window[w].op = "revoke"
  /\ LET k == window[w]
     IN  /\ RowsOf(k.user) # {}
         /\ grant' = [g \in Grants |-> IF grant[g] = NoGrant THEN NoGrant ELSE Gone]
         /\ renounced' = (renounced \/ k.own)
  /\ Await(w, Shut)
  /\ outdated' = (outdated \/ Overtaken(w))
  /\ UNCHANGED <<staff, badge>>
\* Every row of the permission, in one statement; none is an error.
RevokeGrant(w) ==
  /\ window[w].op = "revoke"
  /\ LET k == window[w]
     IN  /\ RowsOf(k.user) # {}
         /\ grant' = [g \in Grants |-> IF g \in RowsOf(k.user) THEN Gone ELSE grant[g]]
         /\ renounced' = (renounced \/ k.own)
  /\ Await(w, Shut)
  /\ outdated' = (outdated \/ Overtaken(w))
  /\ UNCHANGED <<staff, badge>>

\* expiresAt goes by; the row stays, and a later grant renews it.
GrantLapses(g) ==
  /\ grant[g] \notin {NoGrant, Gone}
  /\ ~grant[g].lapsed
  /\ grant' = [grant EXCEPT ![g].lapsed = TRUE]
  /\ renounced' = (renounced \/ grant[g].effect = "ALLOW")
  /\ UNCHANGED <<staff, badge, window, outdated>>

GiveUp(w) ==
  /\ window[w] # Shut
  /\ Await(w, Shut)
  /\ UNCHANGED <<staff, grant, badge, outdated, renounced>>

StaffNext ==
  \/ \E p \in People : SignIn(p) \/ TokenExpires(p)
  \/ \E w \in Windows, actor, p \in People :
       \/ \E dto \in Change : BeginUpdateUser(w, actor, p, dto)
       \/ BeginDeactivateUser(w, actor, p)
       \/ \E effect \in {"ALLOW", "DENY"} : BeginGrant(w, actor, p, effect)
       \/ BeginRevokeGrant(w, actor, p)
  \/ \E w \in Windows :
       UpdateUser(w) \/ DeactivateUser(w) \/ GrantPermission(w) \/ RevokeGrant(w) \/ GiveUp(w)
  \/ \E g \in Grants : GrantLapses(g)

StaffSpec == StaffInit /\ [][StaffNext]_staffVars

-----------------------------------------------------------------------------
(***************************************************************************)
(* An account that had someone to manage its users keeps one, whatever     *)
(* they are allowed, denied, demoted to or removed: whoever takes the      *)
(* right from another is left with it, and nobody demotes or removes       *)
(* themself (assertNotSelfDemotion, deactivate; users.service.ts).  What   *)
(* gets past that: a token that no longer tells the truth, two managers at *)
(* once, and the grants, by which a manager may deny it to themself or     *)
(* give back what they manage by, and which may run out.                   *)
(***************************************************************************)
Managers == {p \in People : Working(p) /\ HoldsManage(staff[p].role, p)}
SomebodyManages ==
  ~outdated /\ ~renounced /\ (\E p \in People : MayManage(p)) => Managers # {}

(***************************************************************************)
(* A permission of a user is granted or denied by one row, so the last     *)
(* word on it is the one that counts; the index does not see to that       *)
(* (grant, users.service.ts), and two grants at once break it.             *)
(***************************************************************************)
OneGrantPerUser == ~outdated => \A p \in People : Cardinality(RowsOf(p)) <= 1
=============================================================================
