SPECIFICATION MCSpec
CONSTANTS
  i1 = i1
  i2 = i2
  g1 = g1
  l1 = l1
  a = a
  b = b
  Imports = {i1, i2}
  Images = {g1}
  Letters = {l1}
  Products = {a, b}
  Files <- MCFiles
  Tries = 2
  s1 = s1
  s2 = s2
  v1 = v1
  mine = mine
  theirs = theirs
  north = north
  east = east
  NotGiven = NotGiven
  Sales = {s1, s2}
  FirmOf <- MCFirmOf
  SiteOf <- MCSiteOf
  TotalOf <- MCTotalOf
  Viewers = {v1}
  Callers <- MCCallers
  Queries <- MCQueries
  Starts <- MCStarts
  Window = 4
  DailyUpTo = 4
  WeeklyUpTo = 8
  MaxBuckets = 3
  TTL = 1
  Horizon = 1
INVARIANTS
  RecordsTellTruth
  FiguresAreTold
PROPERTIES
  EverythingEnds
  KeepsReports
CHECK_DEADLOCK FALSE
