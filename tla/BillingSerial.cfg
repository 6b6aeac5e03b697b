SPECIFICATION Spec
CONSTANTS
  o1 = o1
  o2 = o2
  o3 = o3
  april = april
  may = may
  i1 = i1
  i2 = i2
  i3 = i3
  p1 = p1
  p2 = p2
  Orders = {o1, o2, o3}
  Periods = {april, may}
  PeriodOf <- TwoMonths
  Invoices = {i1, i2, i3}
  Operators = {p1}
  MaxNumber = 3
INVARIANTS OrderBilledOnce TotalMatchesLines NumbersAreGapless
PROPERTIES IssuedIsFrozen InvoiceLifecycle
CHECK_DEADLOCK FALSE
