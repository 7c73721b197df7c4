SPECIFICATION FairSpec
CONSTANTS
  q1 = q1
  NoSet = noset
  QuestionSets = {q1}
  Routes <- MCRoutes
  Modes = {"assisted", "draft", "auto"}
  MaxTabs = 2
  MaxPasses = 2
  MaxRequests = 2
  MaxMoves = 2
  MaxChecks = 1
  MaxDeaths = 1
  MaxUpsets = 2
INVARIANTS TypeOK  
PROPERTIES AttemptEnds
CHECK_DEADLOCK FALSE
