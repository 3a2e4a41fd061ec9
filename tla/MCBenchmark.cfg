SPECIFICATION FairSpec
CONSTANTS
    a = "a.wav"
    b = "b.wav"
    c = "c.wav"
    Lists <- MCLists
    MaxFrames = 2
CHECK_DEADLOCK FALSE
INVARIANT ResultsRight
PROPERTIES KeepsProtocol BenchEnds
