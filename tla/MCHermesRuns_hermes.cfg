SPECIFICATION FairSpec
CONSTANTS
  r1 = r1
  a1 = a1
  a2 = a2
  u1 = u1
  u2 = u2
  Runs = {r1}
  Approvers = {a1, a2}
  Users = {u1, u2}
  Admins = {u2}
  UserOf <- MCUserOf
  MaxAsks = 2
  MaxTurns = 2
  MaxQueue = 3
  None = None
CHECK_DEADLOCK FALSE
INVARIANTS RegisteredIsConsumed LeftMeansStopped AnswerIsCanonical
PROPERTIES RunsEnd
