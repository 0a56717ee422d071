CONSTANTS
  Parts = {"server", "analog", "protocol", "cxxrtl"}
  Handlers = {h1, h2}
  Signals = {a}
  Rows = {r1, r2}
  Translators = {hex, dec}
  Variables = {v, w}
  MaxVersion = 3
  Broken = {3}
  NoTimes = {}
  ServerRequests = 2
  MaxEntries = 2
  MaxWaves = 2
  Cap = 1
  MaxServers = 2
  MaxClients = 2
  MaxRequests = 2
  MaxItems = 1
  Unknown = {}
  Refused = {"reference_items"}
  MaxCommands = 2
  MaxFills = 1
  MaxTime = 1
  AnalogSteps = 8
  CxxrtlSteps = 4
SPECIFICATION Spec
INVARIANTS EntriesKept OneReplyEach AnswersMatched
PROPERTIES ImplementsWaveService ReloadEnds DroppedServerEnds AnswerArrives
CHECK_DEADLOCK FALSE
