SPECIFICATION Spec
CONSTANTS
    LcdW = 80
    LcdH = 96
    Texts <- MCTexts
    Calls <- MCCalls
    MaxChars = 8
    MaxBytes = 4
    FontLoaded = {TRUE, FALSE}
CHECK_DEADLOCK FALSE
INVARIANTS GlyphsPlaced FlushSafe InString
PROPERTY ClipIsFinal
