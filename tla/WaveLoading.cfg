CONSTANTS
  vcd = vcd
  ftr = ftr
  url = url
  ftrUrl = ftrUrl
  clk = clk
  width = width
  r1 = r1
  r2 = r2
  Files = {vcd}
  Transactions = {ftr}
  Urls = {url, ftrUrl}
  TransactionUrls = {ftrUrl}
  Remote = {r1, r2}
  Server = Server
  None = None
  Signals = {clk, width}
  Params = {width}
  Setups <- AllSetups
  MaxRequests = 1
  Failures = TRUE
SPECIFICATION Spec
INVARIANTS AnswersOfContainer WorkAccounted
PROPERTIES DisplayedLoaded BatchExits
CHECK_DEADLOCK FALSE
