SPECIFICATION FairSpec
CONSTANTS
  m1 = m1
  c1 = c1
  c2 = c2
  None = None
  Mails = {m1}
  Children = {c1, c2}
  MaxRetries = 2
  MaxDeaths = 2
CHECK_DEADLOCK FALSE
INVARIANTS
  NothingForgotten
  DuplicatesHaveCause
  TriesAreBounded
PROPERTIES
  DeliverySpec
  EveryMailSettles
