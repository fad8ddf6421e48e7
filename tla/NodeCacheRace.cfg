CHECK_DEADLOCK FALSE
SPECIFICATION Spec
CONSTANTS
  NBits = 6
  top = top
  left = left
  right = right
  parm = parm
  Nodes = {top, left, right, parm}
  Kids <- DiamondKids
  Below <- DiamondBelow
  Deps <- DiamondDeps
  DynDeps <- DiamondDynDeps
  Outcomes <- DiamondOutcomes
  Solvable = {parm}
  Policy <- DiamondPolicy
  Domains = {1, 2}
  NextDiffs = {{3}}
  AbortCalls = {}
  ClearCalls = {}
  Roots = {top}
  Settable = {parm}
  Clearable = {parm}
  CommandsRace = TRUE
  MaxState = 1
  MaxIter = 1
  MaxCalls = 2
  Client = Client
  None = None
PROPERTY
  AnswersAreFresh
