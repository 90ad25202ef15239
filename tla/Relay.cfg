SPECIFICATION FairRelaySpec
CONSTANTS
  a = a
  b = b
  c = c
  Messages = {a, b, c}
  NoId = {c}
  Droppable = {a}
  DedupMax = 1
  MaxCalls = 4
  MaxCrashes = 1
  MaxExpiries = 1
INVARIANTS TypeOK TakenOnce AnsweredIsForwarded
PROPERTIES LoopDrains
CHECK_DEADLOCK FALSE
