SPECIFICATION Spec
CONSTANTS
  s1 = s1
  p1 = p1
  k1 = k1
  u1 = u1
  u2 = u2
  c1 = c1
  c2 = c2
  t1 = t1
  r1 = r1
  Skills = {s1}
  Plugins = {p1}
  Services = {k1}
  Users = {u1, u2}
  Contents = {c1, c2}
  Tasks = {t1}
  Requests = {r1}
  None = None
SYMMETRY MCSymmetry
INVARIANTS TrustFollowsContent PinnedSkillStays
PROPERTIES OnePartAtATime
