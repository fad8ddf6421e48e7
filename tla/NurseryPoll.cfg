\* One request to a tree with a nursery of every kind; all threads fair.
SPECIFICATION FairSpec
CONSTANTS
  e = e
  w1 = w1
  w2 = w2
  r = r
  a = a
  b = b
  c = c
  x = x
  s = s
  NoThread = NoThread
  NoOrder = NoOrder
  Thread = {e, w1, w2}
  Crew = {w1, w2}
  Joiner = {e}
  MaxDepth = 3
  MaxBusy = 2
  Root = r
  Node <- WideNode
  Kids <- WideKids
  StepKids <- WideStepKids
  MtNode = {r, x}
  FailPolicy <- WideFail
  MissingPolicy <- Collect
  Verdicts <- WideVerdicts
  Rounds = 1
  Address = {1, 2}
  MayAbort = FALSE
INVARIANTS
  TypeOK
  OneExecutionPerNode
  ResultsOfThisPoll
  AnswersAreSerial
  NoOrderOutlivesItsPoll
PROPERTIES
  PoolBehaviour
  EveryRequestAnswered
