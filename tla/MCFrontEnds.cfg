\* One change of a value, one load or save, ...
CONSTANTS
  MODULES = "M"
  NoItem = "none"
  SCROLL_OFFSET = 1
  MAIN_HELP = 1
  SHOW_HELP = 3
  JUMP_HELP = 1
  Widths = {3, 5}
  MaxLen = 6
  MaxSel = 12
  MaxEvents = 2
  GuiEvents = 2
  FrontEnds = {"menuconfig", "guiconfig", "jump", "edit"}
SPECIFICATION Spec
INVARIANTS NoTraceback DisplayTrue NothingLost CursorInField TreeTrue
PROPERTIES Scrolls Jumped
CHECK_DEADLOCK FALSE
