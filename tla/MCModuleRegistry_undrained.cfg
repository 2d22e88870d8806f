SPECIFICATION Spec
CONSTANTS
  r1 = r1
  r2 = r2
  a1 = a1
  a2 = a2
  m1 = m1
  m2 = m2
  m3 = m3
  m4 = m4
  q1 = q1
  q2 = q2
  Regs = {r1}
  Admins = {a1, a2}
  Manifests = {m1}
  Permissions = {q1, q2}
  PermissionOf <- MCPermissionOf
  Compatible = {m1}
  None = None
CHECK_DEADLOCK FALSE
PROPERTIES StoppedStaysStopped
