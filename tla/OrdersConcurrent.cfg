SPECIFICATION Spec
CONSTANTS
  o1 = o1
  o2 = o2
  sheets = sheets
  mugs = mugs
  banners = banners
  r1 = r1
  r2 = r2
  c1 = c1
  Orders = {o1, o2}
  Shelves = {sheets}
  Variants = {}
  Untracked = {}
  Retrackable = {}
  Requests = {r1, r2}
  Clerks = {c1}
  Lines <- MCLines
  OpeningStock <- MCOpening
  Deltas <- MCDeltas
  MaxOnHand = 2
INVARIANTS TypeOK ShelfNeverOversold NoStrandedHold NothingHeldForNobody
SYMMETRY RequestSymmetry
CHECK_DEADLOCK FALSE
