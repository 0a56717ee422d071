CONSTANTS
  x = x
  Vars = {x}
  None = None
  MaxLevel = 3
  OverflowChecks = TRUE
  UndoStackSize = 0
  MaxRef = 3
  MaxMarkerIndex = 0
  StateFiles <- SavedCanvases
  MaxCount = 1
  Environment = {"replacing"}
  Sessions = {"edit", "drag"}
SPECIFICATION SessionSpec
INVARIANTS Consistent ItemsKept
PROPERTIES FailsOnlyWithoutRow NewItemsVisible
CHECK_DEADLOCK FALSE
