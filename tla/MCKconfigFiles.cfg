\* Up to two tools, one edit and one crash.
CONSTANTS
  Trees <- MCTrees
  MODULES = "M"
  NoItem = "none"
  DefconfigList <- MCDefconfigList
  HandWritten <- MCHandWritten
  Fragments <- MCFragments
  Allconfigs = {"1"}
  SetArgs <- MCSetArgs
  Answers <- MCAnswers
  Cuts <- MCCuts
  MaxRuns = 2
  MaxEvents = 1
SPECIFICATION Spec
INVARIANTS ReadBack MinCompleteButModes ToolsEnd Kept DepTouched
CHECK_DEADLOCK FALSE
