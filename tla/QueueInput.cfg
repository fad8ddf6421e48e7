\* An input channel of VisDataMux: four events, then the end of the stream.
SPECIFICATION FairSpec
CONSTANTS
  QueueSize = 2
  NIn = 4
  NOut = 0
  MaxThrows = 1
  Calls = {"getEvent", "close", "abort"}
  Waits = {"WAIT", "NOWAIT"}
  InputEnds = TRUE
  FooterEnds = FALSE
INVARIANTS
  TypeOK
  QueueLimits
  InputInOrder
  WakeupKept
  EndsAsAsked
PROPERTIES
  CallsReturn
CHECK_DEADLOCK FALSE
