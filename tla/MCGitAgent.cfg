\* Every plan of every action with two changes by other programs during each; every
\* listing read to its end through two changes; every selection from a difference of
\* five lines; every conversation of a lane with the real window and up to 20 chunks;
\* every message, its body nested up to and past the limit;
\* two reads on two lanes and a write, every fault; a write and a read while the
\* configuration is edited and removed.
SPECIFICATION AgentSpec
CONSTANTS
  Serving = {"writes", "reads", "selection", "wire", "coding", "session", "edited"}
  Kind <- AllKinds
  MaxOther = 2
  Query <- Queries
  RowSize <- Sizes
  FrameHalf = 4
  Budgets = {4}
  MaxFiles = 1
  MaxEdits = 2
  ScriptLength = 5
  Context = 1
  MaxIds = 2
  Elsewhere = {"top", "bottom"}
  StreamWindow = 8
  MaxLogs = 3
  MaxChunks = 20
  Ahead = 1
  MaxDepth = 3
  WireRows = 2
  w = w
  r = r
  Nothing = Nothing
  Requests <- SessionRequests
  KindsOf <- SessionKinds
  Slots <- SessionSlots
  MaxRevision = 2
INVARIANTS
  ActionSound
  PagesSound
  SelectionExact
  WireExact
  SessionSound
PROPERTIES
  Undisturbed
