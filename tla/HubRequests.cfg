SPECIFICATION Spec
CONSTANTS
  s1 = s1
  s2 = s2
  c1 = c1
  c2 = c2
  q1 = q1
  q2 = q2
  a1 = a1
  NoSession = NoSession
  Sessions = {s1}
  Conversations = {c1, c2}
  Requests = {q1, q2}
  SessionOf <- TwoSessions
  KindOf <- TwoKinds
  Texts <- AroundQuestions
  MaxMessages = 2
  MaxDrops = 1
  MaxRestarts = 0
SYMMETRY Symmetry
INVARIANTS TypeOK ShownRequestsAnswerable StaleEntriesHaveACause
PROPERTIES RepliesDoNotLeak
