SPECIFICATION ServedSpec
CONSTANTS
  ann = ann
  bob = bob
  Bob = Bob
  u1 = u1
  u2 = u2
  t1 = t1
  t2 = t2
  t3 = t3
  old = old
  new = new
  w1 = w1
  w2 = w2
  None = None
  Emails = {ann, bob, Bob}
  Lower <- LowerCase
  Users = {u1, u2}
  Tokens = {t1, t2, t3}
  Passwords = {old, new}
  Workers = {w1, w2}
SYMMETRY Symmetry
PROPERTY
  ResetTokensWorkOnce
