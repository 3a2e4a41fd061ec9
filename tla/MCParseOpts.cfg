SPECIFICATION Spec
CONSTANTS
    StringOpts = {"font_path"}
    NumberOpts = {"model_in_len", "beam"}
    RealOpts = {"beam"}
    IntOpts = {"do_kws"}
    FreeStrings = {}
    IntTexts = {"1", "5", "8", "192"}
    RealTexts = {"0.5", "1", "5", "8", "192"}
    Files <- MCFiles
    MaxLines = 4
CHECK_DEADLOCK FALSE
INVARIANT LinesCount
