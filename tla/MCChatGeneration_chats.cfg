SPECIFICATION FairSpec
CONSTANTS
  u1 = u1
  u2 = u2
  s1 = s1
  s2 = s2
  Chats = {c1}
  Users = {u1, u2}
  Senders = {s1, s2}
  Compactors = {m1}
  UserOf <- MCUserOf
  Keep = 1
  MaxMessages = 4
  None = None
INVARIANTS OneGeneration AnswersFollow NothingForgotten AgentChatsVanish
PROPERTIES ChosenTitleStays ClaimsEnd
