SPECIFICATION MCSpec
CONSTANTS
  x1 = x1
  x2 = x2
  k1 = k1
  k2 = k2
  d1 = d1
  d2 = d2
  c1 = c1
  c2 = c2
  r1 = r1
  r2 = r2
  Documents = {d1, d2}
  Printable = {d1}
  Desks = {r1, r2}
  Accounts = {c1}
  MaxVersion = 3
  Cards = {x1, x2}
  Products = {c1}
  Terms = {c1}
  Editors = {r1, r2}
  LastDay = 1
  Items = {x1, x2}
  Categories = {c1, c2}
  Skus = {k1, k2}
  Firms = {}
  Merchants = {r1, r2}
  OptionNames = {c1}
  OptionValues = {k1, k2}
  Variants = {x1, x2}
  Quantities = {1, 2}
  Percents = {1, 2}
  Hands = {r1, r2}
  Quotes <- MCQuotes
  Baskets <- MCBaskets
  Designs <- MCDesigns
  AskedQuantities <- MCQuantities
  Minimums <- MCMinimums
  Multiples <- MCMultiples
  None = None
  NoContract = NoContract
  NoRule = NoRule
  PlainLine = PlainLine
  BlankLine = BlankLine
  Refused = Refused
INVARIANTS
  VariantSellsAtItsPrice
CONSTRAINT InTurn
SYMMETRY Symmetry
CHECK_DEADLOCK FALSE
