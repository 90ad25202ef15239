SPECIFICATION FairSpec
CONSTANTS
  s1 = s1
  s2 = s2
  c1 = c1
  c2 = c2
  q1 = q1
  q2 = q2
  a1 = a1
  NoSession = NoSession
  Sessions = {s1, s2}
  Conversations = {c1}
  Requests = {q1, a1}
  SessionOf <- BothSessions
  KindOf <- BothKinds
  Texts <- AroundBoth
  MaxMessages = 2
  MaxDrops = 1
  MaxRestarts = 1
CONSTRAINT AsksOne
INVARIANTS IndexCoversBindings
PROPERTIES MessagesAreHandled ReconnectRecoversRequests StaleEntriesLeave
