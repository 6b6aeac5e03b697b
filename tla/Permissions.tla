---------------------------- MODULE Permissions ----------------------------
(***************************************************************************)
(* What a caller may do: the permission catalogue, the grants that depart  *)
(* from it (permission.service.ts), the guard in front of every route      *)
(* (authorization.guard.ts) and the orders a caller sees.                  *)
(***************************************************************************)
EXTENDS Naturals, Sequences, SequencesExt

Roles == {"ADMIN", "HEAD_OFFICE", "SITE_USER"}
UserTypes == {"EXISTING", "NEW", "EXTERNAL"}

SITE_USER_PERMISSIONS ==
  {"APPLICATION_VIEW", "CATALOG_VIEW", "PRICING_VIEW", "ORDER_CREATE", "ORDER_VIEW_OWN",
   "ORDER_VIEW_SITE", "TEMPLATE_USE", "DAM_VIEW", "DAM_DOWNLOAD"}

HEAD_OFFICE_PERMISSIONS ==
  SITE_USER_PERMISSIONS \cup
  {"APPLICATION_CREATE", "APPLICATION_EDIT", "ORDER_VIEW_ACCOUNT", "ORDER_CANCEL",
   "APPROVAL_ACT", "BILLING_VIEW", "INVENTORY_VIEW", "REPORT_VIEW", "AUDIT_VIEW",
   "USER_INVITE", "USER_MANAGE", "SITE_MANAGE", "DAM_UPLOAD"}

EXTERNAL_PERMISSIONS ==
  {"APPLICATION_VIEW", "ORDER_VIEW_OWN", "DAM_VIEW", "EXTERNAL_DOCUMENT_ACCESS"}

ALL_PERMISSIONS ==
  HEAD_OFFICE_PERMISSIONS \cup EXTERNAL_PERMISSIONS \cup
  {"APPLICATION_DELETE", "DAM_DELETE", "CATALOG_MANAGE", "PRICING_MANAGE", "ORDER_MANAGE",
   "TEMPLATE_MANAGE", "BILLING_MANAGE", "INVENTORY_MANAGE", "ACCOUNT_MANAGE",
   "INTEGRATION_MANAGE"}

\* An external user's type overrides the role.
basePermissionsByRole(role, userType) ==             \* mutant: the type not looked at
  CASE role = "ADMIN" -> ALL_PERMISSIONS
    [] role = "HEAD_OFFICE" -> HEAD_OFFICE_PERMISSIONS
    [] OTHER -> SITE_USER_PERMISSIONS
basePermissionsFor(role, userType) ==
  IF userType = "EXTERNAL" THEN EXTERNAL_PERMISSIONS
  ELSE CASE role = "ADMIN" -> ALL_PERMISSIONS
         [] role = "HEAD_OFFICE" -> HEAD_OFFICE_PERMISSIONS
         [] OTHER -> SITE_USER_PERMISSIONS

-----------------------------------------------------------------------------
(***************************************************************************)
(* Grants: rows of user_permission_grants in whatever order the database   *)
(* returns them.  resource is "ANY" for an account-wide row.               *)
(***************************************************************************)
Nothing == [base |-> {}, denied |-> {}, allowOn |-> {}, denyOn |-> {}]

Counts(row) == ~row.expired /\ row.permission \in ALL_PERMISSIONS

readRowInOrder(acc, row) ==                          \* mutant: a denial applied in passing
  LET p == row.permission
      on == <<p, row.resource>>
      everywhere == row.resource = "ANY"
      denies == row.effect = "DENY"
  IN  IF ~Counts(row) THEN acc
      ELSE CASE everywhere /\ denies -> [acc EXCEPT !.base = @ \ {p}]
             [] everywhere /\ ~denies -> [acc EXCEPT !.base = @ \cup {p}]
             [] ~everywhere /\ denies -> [acc EXCEPT !.denyOn = @ \cup {on}]
             [] ~everywhere /\ ~denies -> [acc EXCEPT !.allowOn = @ \cup {on}]
readRow(acc, row) ==
  LET p == row.permission
      on == <<p, row.resource>>
      everywhere == row.resource = "ANY"
      denies == row.effect = "DENY"
  IN  IF ~Counts(row) THEN acc
      ELSE CASE everywhere /\ denies -> [acc EXCEPT !.denied = @ \cup {p}]
             [] everywhere /\ ~denies -> [acc EXCEPT !.base = @ \cup {p}]
             [] ~everywhere /\ denies -> [acc EXCEPT !.denyOn = @ \cup {on}]
             [] ~everywhere /\ ~denies -> [acc EXCEPT !.allowOn = @ \cup {on}]

load(role, userType, rows) ==
  LET read[n \in 0..Len(rows)] ==
        IF n = 0 THEN [Nothing EXCEPT !.base = basePermissionsFor(role, userType)]
        ELSE readRow(read[n - 1], rows[n])
      all == read[Len(rows)]
  IN  [accountWide |-> all.base \ all.denied, allowOn |-> all.allowOn, denyOn |-> all.denyOn]

has(effective, permission) == permission \in effective.accountWide

\* can: a row on the object decides before the account-wide answer.
hasOnAny(effective, permission, resource) ==         \* mutant: the allowance looked at first
  \/ <<permission, resource>> \in effective.allowOn
  \/ /\ <<permission, resource>> \notin effective.denyOn
     /\ has(effective, permission)
hasOn(effective, permission, resource) ==
  /\ <<permission, resource>> \notin effective.denyOn
  /\ \/ <<permission, resource>> \in effective.allowOn
     \/ has(effective, permission)

-----------------------------------------------------------------------------
\* canActivate: a public route, or every permission the route names.
canActivate(route, signedIn, effective) ==
  \/ route.public
  \/ signedIn /\ \A p \in route.needs : has(effective, p)

\* resolveAccountId of the controllers: whose account a request is about.
Refused == "refused"
resolveAccountId(caller, requested) ==
  IF requested \in {"own", caller.account} THEN caller.account
  ELSE IF caller.role = "ADMIN" THEN requested ELSE Refused

\* visibilityFilter of orders.service.ts, inside the account the caller reads;
\* one without any of the three sees nothing.
mayRead(caller, effective, order) ==
  \/ caller.role = "ADMIN"
  \/ /\ order.account = caller.account
     /\ \/ has(effective, "ORDER_VIEW_ACCOUNT")
        \/ /\ has(effective, "ORDER_VIEW_SITE")
           /\ order.site \in caller.sites \/ order.placedBy = caller.user
        \/ /\ has(effective, "ORDER_VIEW_OWN")
           /\ order.placedBy = caller.user

\* assertMayMakeTransition of orders.service.ts.
mayMoveOrder(caller, effective, order, to) ==
  LET own == order.placedBy = caller.user
  IN  CASE to \in {"APPROVED", "REJECTED", "CHANGES_REQUESTED"} ->
             /\ has(effective, "APPROVAL_ACT")
             /\ own => caller.role = "ADMIN"
        [] to = "PENDING_APPROVAL" -> own \/ has(effective, "ORDER_CREATE")
        [] to = "CANCELLED" -> own \/ has(effective, "ORDER_CANCEL")
        [] OTHER -> has(effective, "ORDER_MANAGE")
=============================================================================
