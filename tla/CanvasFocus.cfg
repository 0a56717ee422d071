CONSTANTS
  x = x
  Vars = {x}
  None = None
  MaxLevel = 3
  OverflowChecks = TRUE
  UndoStackSize = 0
  MaxRef = 2
  MaxMarkerIndex = 0
  StateFiles <- SavedCanvases
  MaxCount = 1
  Environment = {}
  Sessions = {"edit"}
SPECIFICATION SessionSpec
INVARIANT NoInconsistentState
CHECK_DEADLOCK FALSE
