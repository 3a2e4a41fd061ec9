SPECIFICATION FairSpec
CONSTANTS
    ResultLines = {0, 7}
    Options <- MCOptions
    EventKinds = {"press", "release"}
    MaxEvents = 2
    FontOutcomes = {"mapped", "failed"}
INVARIANTS CleanExit HonestTitle ResetBlanks ScreenInv
PROPERTIES KeepsProtocol Served
