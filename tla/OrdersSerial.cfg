SPECIFICATION Spec
CONSTANTS
  o1 = o1
  o2 = o2
  sheets = sheets
  mugs = mugs
  banners = banners
  r1 = r1
  r2 = r2
  c1 = c1
  Orders = {o1, o2}
  Shelves = {sheets, mugs, banners}
  Variants = {mugs}
  Untracked = {banners}
  Retrackable = {banners}
  Requests = {r1}
  Clerks = {c1}
  Lines <- MixedLines
  OpeningStock <- MixedOpening
  Deltas <- MCDeltas
  MaxOnHand = 1
INVARIANTS ReservedMatchesOrders
PROPERTY KeepsContract
CHECK_DEADLOCK FALSE
