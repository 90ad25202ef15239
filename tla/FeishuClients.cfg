SPECIFICATION ClientsSpec
CONSTANTS
  MaxEvents = 5
  Others = {1}
  Rich = {4}
  MaxFaults = 2
INVARIANTS AckedIsTaken OrderKept
 
CHECK_DEADLOCK FALSE
