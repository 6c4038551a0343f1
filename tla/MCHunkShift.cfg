\* Two hunks of a file that repeats itself, one of them changing the number of lines.
SPECIFICATION AgentSpec
CONSTANTS
  Serving = {"selection"}
  Kind <- AllKinds
  MaxOther = 2
  Query <- Queries
  RowSize <- Sizes
  FrameHalf = 4
  Budgets = {4}
  MaxFiles = 1
  MaxEdits = 2
  ScriptLength = 7
  Context = 1
  MaxIds = 2
  Elsewhere = {}
  StreamWindow = 1
  MaxLogs = 1
  MaxChunks = 1
  Ahead = 1
  MaxDepth = 1
  WireRows = 1
  w = w
  r = r
  Nothing = Nothing
  Requests <- SessionRequests
  KindsOf <- SessionKinds
  Slots <- SessionSlots
  MaxRevision = 1
INVARIANT SelectionAlwaysExact
CHECK_DEADLOCK FALSE
