CHECK_DEADLOCK FALSE
SPECIFICATION Spec
CONSTANTS
  NBits = 6
  top = top
  left = left
  right = right
  parm = parm
  Nodes = {top, left, right, parm}
  Kids <- DiamondKids
  Below <- DiamondBelow
  Deps <- DiamondDeps
  DynDeps <- DiamondDynDeps
  Outcomes <- DiamondOutcomes
  Solvable = {parm}
  Policy <- DiamondPolicy
  Domains = {1, 2}
  NextDiffs = {{2}, {4}}
  AbortCalls = {1}
  ClearCalls = {3}
  Roots = {top}
  Settable = {parm}
  Clearable = {parm}
  CommandsRace = FALSE
  MaxState = 1
  MaxIter = 2
  MaxCalls = 3
  Client = Client
  None = None
INVARIANTS
  TypeOK
  UpdatedOnce
  SharedNodeComputesOnce
PROPERTIES
  AnswersAreFresh
  UpdatesReachParameters
