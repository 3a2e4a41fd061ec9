\* Several hundred sets of files, each read to its end.
CONSTANTS
  FileSystems <- MCFileSystems
  Env <- MCEnv
  EnvRefs <- MCEnvRefs
  Shell <- MCShell
  MaxExpansions = 2
  TopFile = "top"
  SymNames = {"MODULES", "A", "B", "C", "D", "N", "X", "Z"}
  ChoiceNames = {"CH"}
SPECIFICATION Spec
INVARIANTS ReadInOrder SelectsWork LoopsRaised
PROPERTY DepsMeanEnclosure
