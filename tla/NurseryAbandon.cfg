\* A failing child abandons the poll of a parent that is asleep.
SPECIFICATION FairSpec
CONSTANTS
  e = e
  w1 = w1
  w2 = w2
  r = r
  a = a
  b = b
  c = c
  x = x
  s = s
  NoThread = NoThread
  NoOrder = NoOrder
  Thread = {e, w1, w2}
  Crew = {w1, w2}
  Joiner = {e}
  MaxDepth = 1
  MaxBusy = 3
  Root = r
  Node <- ThreeNode
  Kids <- ThreeKids
  StepKids <- NoKids
  MtNode = {r}
  FailPolicy <- Abandon
  MissingPolicy <- Abandon
  Verdicts <- ThreeVerdicts
  Rounds = 1
  Address = {1}
  MayAbort = FALSE
CHECK_DEADLOCK FALSE
PROPERTY EveryRequestAnswered
