SPECIFICATION Spec
CONSTANTS
  d1 = d1
  d2 = d2
  b1 = b1
  t1 = t1
  t2 = t2
  u1 = u1
  u2 = u2
  Uploads = {u1}
  Dirs = {d1, d2}
  Backups = {b1}
  Tools = {t1}
  MaxVersion = 2
  MaxContent = 1
  None = None
SYMMETRY MCSymmetry
CHECK_DEADLOCK FALSE
INVARIANTS RowsHaveFiles ServedIsCurrent
PROPERTIES NothingIsLost
