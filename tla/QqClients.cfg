SPECIFICATION ClientsSpec
CONSTANTS
  Recent = 2
  MaxMessages = 3
  MaxRepushes = 1
  MaxFaults = 3
INVARIANTS TakenOnceInOrder PositionIsTaken
PROPERTIES MessagesArrive StopEnds
CHECK_DEADLOCK FALSE
