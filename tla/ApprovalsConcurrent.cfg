SPECIFICATION ApprovalsSpec
CONSTANTS
  o1 = o1
  sheets = sheets
  r1 = r1
  buyer = buyer
  manager = manager
  admin = admin
  c1 = c1
  d1 = d1
  d2 = d2
  NoThreshold = NoThreshold
  Orders = {o1}
  Shelves = {sheets}
  Variants = {}
  Untracked = {}
  Retrackable = {}
  Requests = {r1}
  Clerks = {c1}
  Lines <- MCLines
  OpeningStock <- MCOpening
  Deltas <- MCDeltas
  MaxOnHand = 1
  Users = {buyer, manager, admin}
  RoleOf <- MCRoleOf
  PlacedBy <- MCPlacedBy
  Facts <- MCFacts
  Rules <- TwoTiers
  Threshold = NoThreshold
  Deciders = {d1, d2}
INVARIANTS ApprovalsTypeOK NoSignatureAheadOfTier NothingAwaitsAfterRefusal
CONSTRAINT ClerkAlone
SYMMETRY DeciderSymmetry
CHECK_DEADLOCK FALSE
