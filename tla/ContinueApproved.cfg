SPECIFICATION Spec
CONSTANTS
  q1 = q1
  NoSet = noset
  QuestionSets = {q1}
  Routes <- MCRoutes
  Modes = {"assisted"}
  MaxTabs = 2
  MaxPasses = 2
  MaxRequests = 2
  MaxMoves = 2
  MaxChecks = 1
  MaxDeaths = 0
  MaxUpsets = 2
INVARIANTS ApprovedContinueIsReplayed
CHECK_DEADLOCK FALSE
