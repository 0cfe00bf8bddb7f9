SPECIFICATION Spec
CONSTANTS
  r1 = r1
  r2 = r2
  r3 = r3
  Run = {r1, r2, r3}
  Scenes <- MCScenes
  Keep = 1
  Trigger = 4
  AnswerSize = 1
  ToolSizes <- MCToolSizes
  MaxInput = 8
  FixedTokens = 1
  ToolLimit = 3
  Mark = 1
SYMMETRY Symmetry
INVARIANTS
  HistoryTypeOK
  SummariesAdvance
  SummaryIsFaithful
  PairsStayTogether
  OverflowIsLastResort
PROPERTIES
  ContextIsComplete
  PurgeSparesLiveRuns
  TrimmingIsMaximal
CHECK_DEADLOCK FALSE
