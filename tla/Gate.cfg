SPECIFICATION Spec
CONSTANTS
  developmentVersion = 1
  toolchainVersion = 2
  MaxEdits = 1
  MaxStuck = 1
  MaxRuns = 2
  Requests <- MCRequests
  Renders <- MCRenders
INVARIANTS TypeOK NoFailureSwallowed FailureHasCause GateProves NothingLeftBehind
INVARIANTS ReleaseVouched
PROPERTY GateReturns
CHECK_DEADLOCK FALSE
