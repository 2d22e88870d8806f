SPECIFICATION Spec
CONSTANTS
  ds = ds
  d1 = d1
  d2 = d2
  u1 = u1
  u2 = u2
  Users = {u1, u2}
  Docs = {ds, d1, d2}
  System = {ds}
  OwnerOf <- MCOwnerOf
  Cands = {c1, c2, c3}
  Policies = {record}
  Plain = plain
  MaxActive = 2
  MaxSource = 2
  Compilers = {h1}
  Tasks = {k1}
  None = None
CHECK_DEADLOCK FALSE
SYMMETRY MCSymmetry
INVARIANTS CapacityKept ActiveIsSound TaskRulesAgree
