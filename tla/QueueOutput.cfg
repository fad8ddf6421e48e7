\* An output channel of VisDataMux: three events and a footer.
SPECIFICATION FairSpec
CONSTANTS
  QueueSize = 2
  NIn = 0
  NOut = 4
  MaxThrows = 2
  Calls = {"postEvent", "flush", "close", "abort"}
  Waits = {"WAIT"}
  InputEnds = FALSE
  FooterEnds = TRUE
INVARIANTS
  OutputInOrder
  NeverBothAsleep
  CloseAfterFlush
PROPERTIES
  CallsReturn
CHECK_DEADLOCK FALSE
