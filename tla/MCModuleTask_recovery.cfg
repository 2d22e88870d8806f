SPECIFICATION FairSpec
CONSTANTS
  k1 = k1
  k2 = k2
  p1 = p1
  p2 = p2
  w1 = w1
  w2 = w2
  x1 = x1
  c1 = c1
  Keys = {k1}
  Chats = {c1}
  AgentChats = {}
  NoChat = NoChat
  Creators = {p1, p2}
  Watchers = {w1}
  Cancellers = {x1}
  MayReject = FALSE
  MayTear = TRUE
  MaxEvents = 1
  MaxIssues = 2
CHECK_DEADLOCK FALSE
PROPERTIES EndIsLearnt AnswerIsRecovered
