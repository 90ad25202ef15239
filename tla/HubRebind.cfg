SPECIFICATION Spec
CONSTANTS
  s1 = s1
  s2 = s2
  c1 = c1
  c2 = c2
  q1 = q1
  q2 = q2
  a1 = a1
  NoSession = NoSession
  Sessions = {s1, s2}
  Conversations = {c1}
  Requests = {q1}
  SessionOf <- QuestionSession
  KindOf <- QuestionKind
  Texts <- Rebinding
  MaxMessages = 2
  MaxDrops = 0
  MaxRestarts = 0
PROPERTIES AskedOnlyWhereBound
