SPECIFICATION Spec
CONSTANTS
  s1 = s1
  s2 = s2
  c1 = c1
  c2 = c2
  NoSession = NoSession
  Sessions = {s1, s2}
  Conversations = {c1, c2}
  Silent <- NoneSilent
  MaxEvents = 2
  Window = 1
  Reminders = TRUE
  MaxBinds = 3
  MaxDrops = 0
  MaxLives = 2
  EarlyBinds = FALSE
  MaxUnsaved = 1
  Tears = FALSE
  MaxFailures = 1
INVARIANTS FileMatchesMemory BindingsPersist
PROPERTIES CursorRefinement
CHECK_DEADLOCK FALSE
