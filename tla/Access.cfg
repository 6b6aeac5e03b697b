SPECIFICATION MCSpec
CONSTANTS
  u1 = u1
  x1 = x1
  x2 = x2
  t1 = t1
  t2 = t2
  t3 = t3
  r1 = r1
  r2 = r2
  Users = {u1}
  Tokens = {t1, t2, t3}
  Links = {u1}
  Visits = {r1, r2}
  Passwords = {x1, x2}
  Emails = {u1}
  Invites = {x1, x2}
  Desks = {r1, r2}
  People = {x1, x2}
  StaffRoles = {"HEAD_OFFICE", "SITE_USER"}
  Grants = {x1, x2}
  Windows = {r1, r2}
  Sites = {x1, x2}
  Addresses = {x1, x2}
  Codes = {"X", "Y"}
  Clerks = {r1, r2}
  Editors = {x1, x2}
  PermissionNames = {"ORDER_VIEW_OWN", "APPROVAL_ACT", "LEGACY_EXPORT"}
  Objects = {"o1"}
  MaxRows = 2
INVARIANTS
  SessionNeverForks
  AccessEndsSessions
  InvitationTellsOutcome
  SomebodyManages
  OrganisationIsOnRecord
  PermissionsFollowGrants
CONSTRAINT InTurn
SYMMETRY Symmetry
CHECK_DEADLOCK FALSE
