SPECIFICATION Spec
CONSTANTS
  s1 = s1
  s2 = s2
  c1 = c1
  c2 = c2
  NoSession = NoSession
  Sessions = {s1, s2}
  Conversations = {c1, c2}
  Silent <- NoneSilent
  MaxEvents = 3
  Window = 3
  Reminders = FALSE
  MaxBinds = 2
  MaxDrops = 0
  MaxLives = 2
  EarlyBinds = FALSE
  MaxUnsaved = 0
  Tears = FALSE
  MaxFailures = 0
INVARIANTS MissedAreBackfilled
CHECK_DEADLOCK FALSE
