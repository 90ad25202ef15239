SPECIFICATION FairSpec
CONSTANTS
  s1 = s1
  s2 = s2
  c1 = c1
  c2 = c2
  NoSession = NoSession
  Sessions = {s1}
  Conversations = {c1, c2}
  Silent <- FirstSilent
  MaxEvents = 4
  Window = 4
  Reminders = TRUE
  MaxBinds = 2
  MaxDrops = 1
  MaxLives = 2
  EarlyBinds = TRUE
  MaxUnsaved = 1
  Tears = TRUE
  MaxFailures = 1
INVARIANTS TypeOK MissedAreBackfilled NoHistorySpam SettledIsNotRepeated
PROPERTIES LiveEventsAreOffered CatchUpEnds
CHECK_DEADLOCK FALSE
