---------------------------- MODULE CallerGrants ----------------------------
(***************************************************************************)
(* A caller of any role and type, with grants read in any order; beside    *)
(* the handing out of one permission (Staff), which says how many rows of  *)
(* it a user can have.                                                     *)
(***************************************************************************)
EXTENDS Staff, Routes

CONSTANTS
  PermissionNames,   \* what the permission column may hold, dropped names too
  Objects,           \* what a grant may be narrowed to
  MaxRows            \* bound on the grants of a caller

VARIABLES
  caller,    \* a role and a type of user
  rows       \* the caller's grants, in the order they are read

callerVars == <<caller, rows>>

\* A row of user_permission_grants; on "ANY", account-wide.
Grant == [permission : PermissionNames, effect : {"ALLOW", "DENY"},
          resource : Objects \cup {"ANY"}, expired : BOOLEAN]

CallerInit ==
  /\ caller \in [role : Roles, userType : UserTypes]
  /\ rows = <<>>

ReadGrant(row) ==
  /\ Len(rows) < MaxRows
  /\ rows' = Append(rows, row)
  /\ UNCHANGED caller

GrantsInit == StaffInit /\ CallerInit

GrantsNext ==
  \/ StaffNext /\ UNCHANGED callerVars
  \/ \E row \in Grant : ReadGrant(row) /\ UNCHANGED staffVars

GrantsSpec == GrantsInit /\ [][GrantsNext]_<<staffVars, callerVars>>

-----------------------------------------------------------------------------
Effective(role, rs) == load(role, caller.userType, rs)

\* A row of rs that counts says so of permission p.
Says(rs, effect, p, on) ==
  \E n \in DOMAIN rs : /\ Counts(rs[n]) /\ rs[n].effect = effect
                       /\ rs[n].permission = p /\ rs[n].resource = on

\* Rows do not add up in their order: a denial wins over any allowance of its
\* scope, and a row that has lapsed or names nothing counts for nothing.
DenialsWin ==
  LET mine == Effective(caller.role, rows)
  IN  /\ Effective(caller.role, Reverse(rows)) = mine
      /\ \A p \in ALL_PERMISSIONS :
           /\ Says(rows, "DENY", p, "ANY") => ~has(mine, p)
           /\ Says(rows, "ALLOW", p, "ANY") /\ ~Says(rows, "DENY", p, "ANY") => has(mine, p)
           /\ \A o \in Objects : Says(rows, "DENY", p, o) => ~hasOn(mine, p, o)
      /\ (\A n \in DOMAIN rows : ~Counts(rows[n])) => mine = Effective(caller.role, <<>>)

OpenTo(role) ==
  LET mine == Effective(role, rows) IN {r \in AllRoutes : canActivate(r, TRUE, mine)}
OwnRoutes == {"auth.login", "auth.refresh", "auth.logout", "password.forgot",
              "password.reset", "password.change", "invitations.accept", "orders.status"}

\* A role above may do all a role below may, and an external user who was
\* granted nothing changes nothing but its own access and its own orders.
RolesAreNested ==
  /\ Effective("SITE_USER", rows).accountWide \subseteq Effective("HEAD_OFFICE", rows).accountWide
  /\ Effective("HEAD_OFFICE", rows).accountWide \subseteq Effective("ADMIN", rows).accountWide
  /\ caller.userType = "EXTERNAL" /\ rows = <<>> =>
       {r.name : r \in {q \in OpenTo(caller.role) : q.writes}} \subseteq OwnRoutes

\* Nobody but an administrator approves an order of their own, reads another
\* account's or asks for it, whatever was granted.
OrdersStayApart ==
  LET mine == Effective(caller.role, rows)
      me == [user |-> "me", role |-> caller.role, account |-> "mine", sites |-> {"north"}]
  IN  caller.role # "ADMIN" =>
        /\ \A account \in {"own", "mine", "theirs"} :
             resolveAccountId(me, account) \in {"mine", Refused}
        /\ \A o \in [account : {"mine", "theirs"}, site : {"north"}, placedBy : {"me", "you"}] :
             /\ mayRead(me, mine, o) => o.account = "mine"
             /\ o.placedBy = "me" => ~mayMoveOrder(me, mine, o, "APPROVED")

(***************************************************************************)
(* A permission is granted or denied a user by one row (users.service.ts). *)
(* Permissions do not depend on the order in which grants are read and a   *)
(* denial wins (permission.service.ts); a role above can do all a role     *)
(* below can, and an external user has its own alone; orders are read and  *)
(* approved by those they may be (orders.service.ts).                      *)
(***************************************************************************)
PermissionsFollowGrants ==
  OneGrantPerUser /\ DenialsWin /\ RolesAreNested /\ OrdersStayApart
=============================================================================
