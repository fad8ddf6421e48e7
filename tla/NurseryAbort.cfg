\* One request that may be aborted at any moment.
SPECIFICATION FairSpec
CONSTANTS
  e = e
  w1 = w1
  w2 = w2
  r = r
  a = a
  b = b
  c = c
  x = x
  s = s
  NoThread = NoThread
  NoOrder = NoOrder
  Thread = {e, w1, w2}
  Crew = {w1, w2}
  Joiner = {e}
  MaxDepth = 2
  MaxBusy = 2
  Root = r
  Node <- DeepNode
  Kids <- DeepKids
  StepKids <- DeepStepKids
  MtNode = {a}
  FailPolicy <- Collect
  MissingPolicy <- Collect
  Verdicts <- DeepVerdicts
  Rounds = 1
  Address = {1}
  MayAbort = TRUE
INVARIANTS
  NoOrphanOrders
PROPERTIES
  EveryRequestAnswered
