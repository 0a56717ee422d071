CONSTANTS
  Handlers = {h1}
  Signals = {clk}
  MaxVersion = 2
  Broken = {}
  NoTimes = {}
  MaxRequests = 1
SPECIFICATION Spec
INVARIANT WaitsForTable
CHECK_DEADLOCK FALSE
