SPECIFICATION MCSpec
CONSTANTS
  o1 = o1
  o2 = o2
  a1 = a1
  a2 = a2
  w1 = w1
  w2 = w2
  None = None
  Orders = {o1, o2}
  Payments = {a1, a2}
  MaxRefunds = 2
  Workers = {w1, w2}
  Fragile = {w1, w2}
SYMMETRY Symmetry
INVARIANTS
  IndInv
  LedgerAgrees
  RefundsAreOfPayments
  PaidOrdersArePaidFor
PROPERTIES
  SettledStays
  SerialAtomicSpec
