SPECIFICATION Spec
CONSTANTS
    Known = {"ma", "shi"}
    TestFiles <- MCTestFiles
    CoreLens = {1, 3, 4}
    MaxRows = 10
    MaxLines = 3
CHECK_DEADLOCK FALSE
INVARIANTS ResultsRight OwnRowsOnly
PROPERTY KeepsProtocol
