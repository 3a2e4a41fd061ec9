\* The same files, against the comment that loops are checked for.
CONSTANTS
  FileSystems <- MCFileSystems
  Env <- MCEnv
  EnvRefs <- MCEnvRefs
  Shell <- MCShell
  MaxExpansions = 2
  TopFile = "top"
  SymNames = {"MODULES", "A", "B", "C", "D", "N", "X", "Z"}
  ChoiceNames = {"CH"}
SPECIFICATION Spec
INVARIANT EveryLoopRaised
