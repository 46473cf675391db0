SPECIFICATION ServedSpec
CONSTANTS
  u1 = u1
  s1 = s1
  p1 = p1
  p2 = p2
  c1 = c1
  c2 = c2
  i1 = i1
  i2 = i2
  i3 = i3
  i4 = i4
  w1 = w1
  w2 = w2
  None = None
  Users = {u1}
  Sessions = {s1}
  Products = {p1, p2}
  CartIds = {c1, c2}
  ItemIds = {i1, i2, i3, i4}
  Workers = {w1, w2}
  MaxQuantity = 2
SYMMETRY Symmetry
INVARIANTS
  TypeOK
  SerialOneCart
PROPERTIES
  SerialAtomicSpec
  RemovedStaysRemoved
