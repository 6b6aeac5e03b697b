SPECIFICATION Spec
CONSTANTS
  ann = ann
  north = north
  cards = cards
  b1 = b1
  b2 = b2
  l1 = l1
  l2 = l2
  o1 = o1
  o2 = o2
  t1 = t1
  t2 = t2
  NoCap = NoCap
  Buyers = {ann}
  Branches = {north}
  BranchesOf <- MCBranchesOf
  Products = {cards}
  Moq <- MCMoq
  Multiple <- MCMultiple
  Price <- MCPrice
  Cap <- MCCap
  Baskets = {b1, b2}
  Lines = {l1, l2}
  Orders = {o1, o2}
  Requests = {t1, t2}
  MaxQuantity = 2
INVARIANTS OneOpenBasket OrderedOnceThenHistory WithinBudget
SYMMETRY CheckoutSymmetry
CHECK_DEADLOCK FALSE
