SPECIFICATION Spec
CONSTANTS
  Users = {u1, u2}
  Passwords = {p1, p2}
  Secrets = {s1}
  Browsers = {b1, b2}
  Tasks = {k1}
  Tokens = {t1, t2}
  Calls = {c1, c2}
  MaxUses = 1
  None = None
  Empty = Empty
CHECK_DEADLOCK FALSE
SYMMETRY MCSymmetry
INVARIANTS AdminRemains StartsAgain SessionsAreEntitled
  ServedIsBounded ForfeitedStaysDead
