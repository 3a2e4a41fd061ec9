\* The minimal configuration of every configuration that savedefconfig meets.
CONSTANTS
  Trees <- MCTrees
  MODULES = "M"
  NoItem = "none"
  DefconfigList <- MCDefconfigList
  HandWritten <- MCHandWritten
  Fragments <- MCFragments
  Allconfigs = {"1"}
  SetArgs <- MCSetArgs
  Answers <- MCAnswers
  Cuts <- MCCuts
  MaxRuns = 2
  MaxEvents = 1
SPECIFICATION Spec
INVARIANT MinComplete
CHECK_DEADLOCK FALSE
