CONSTANTS
  vcd = vcd
  ftr = ftr
  url = url
  ftrUrl = ftrUrl
  clk = clk
  width = width
  r1 = r1
  r2 = r2
  Files = {vcd}
  Transactions = {}
  Urls = {}
  TransactionUrls = {}
  Remote = {r1, r2}
  Server = Server
  None = None
  Signals = {clk, width}
  Params = {width}
  Setups <- FileSetup
  MaxRequests = 1
  Failures = FALSE
SPECIFICATION Spec
INVARIANT NoBodyTwice
CHECK_DEADLOCK FALSE
