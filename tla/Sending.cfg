SPECIFICATION SendersSpec
CONSTANTS
  consumer = consumer
  mux = mux
  Tasks = {consumer, mux}
  Parts <- LongAndShort
  Rich = {mux}
  Attempts = 2
  MaxSends = 1
  MaxLosses = 1
  MaxDelayed = 1
INVARIANTS WaitersAreListed
PROPERTIES DeliveryRefinement SendsEnd
CHECK_DEADLOCK FALSE
