SPECIFICATION Spec
CONSTANTS
  o1 = o1
  o2 = o2
  o3 = o3
  april = april
  may = may
  i1 = i1
  i2 = i2
  i3 = i3
  p1 = p1
  p2 = p2
  Orders = {o1, o2}
  Periods = {april}
  PeriodOf <- OneMonth
  Invoices = {i1, i2}
  Operators = {p1, p2}
  MaxNumber = 2
INVARIANT OrderBilledOnce
CHECK_DEADLOCK FALSE
