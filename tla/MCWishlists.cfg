SPECIFICATION FairSpec
CONSTANTS
  u1 = u1
  u2 = u2
  p1 = p1
  p2 = p2
  l1 = l1
  l2 = l2
  w1 = w1
  w2 = w2
  None = None
  Users = {u1, u2}
  Products = {p1, p2}
  ListIds = {l1, l2}
  Workers = {w1, w2}
INVARIANTS
  TypeOK
  OneWishlistEach
PROPERTIES
  AtomicSpec
  EveryRequestEnds
