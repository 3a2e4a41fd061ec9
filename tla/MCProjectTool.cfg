SPECIFICATION Spec
CONSTANTS
    Toolchains = {"dir", "none"}
    Paths = {"dir"}
    Directories = {"dir"}
    ToolPrefixes = {"arm-"}
    Edited <- MCEdited
    Values = {"y", "n"}
    Value0 = "n"
    DefaultFiles <- MCDefaultFiles
    Trees <- MCTrees
    Ports = {"tty"}
    Bauds = {9600}
    Port0 = ""
    Baud0 = 115200
    MaxCalls = 3
    Components <- MCComponents
    Priorities <- MCPriorities
INVARIANTS BuildRight ToolsRight
CHECK_DEADLOCK FALSE
