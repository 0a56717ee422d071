CONSTANTS
  x = x
  Vars = {x}
  None = None
  MaxLevel = 1
  OverflowChecks = TRUE
  UndoStackSize = 2
  MaxRef = 2
  MaxMarkerIndex = 0
  StateFiles <- SavedCanvases
  MaxCount = 2
  Environment = {}
  Sessions = {"undo"}
SPECIFICATION SessionSpec
INVARIANTS FreshRefs UndoStacksSound
CHECK_DEADLOCK FALSE
