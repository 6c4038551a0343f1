\* Two tunnels of one server, two port ranges, two edits; two jobs and a view of one server;
\* one series of samples over its whole retention; minutes of three readings; one tab of
\* three sessions; three saves and three crashes; two bookmarks of two repositories; two
\* processes.  Bounded clocks and counters end behaviours.
SPECIFICATION DesktopSpec
CONSTANTS
  Serving = {"tunnels", "metrics", "history", "summary", "terminals", "profiles", "preferences", "process"}
  Tunnel = {t1, t2}
  Server = {s1}
  Port = {q1, q2}
  MaxEdits = 2
  NoConfig = NoConfig
  Worker = Worker
  Refresh = {r1}
  View = {v1}
  Free = Free
  MaxRevisions = 1
  MaxReads = 2
  Series = {m1}
  Minute = 2
  Day = 2
  Retention = 5
  RawLimit = 2
  Batch = 2
  MaxClock = 11
  MaxBack = 1
  MaxSamples = 3
  MaxCounter = 2
  Times = {0, 10, 20, 50}
  LongestStep = 30
  Complete = 3
  Missing = Missing
  Tab = {b1}
  Limit = 1
  MaxConnects = 3
  MaxChanges = 2
  NoVault = NoVault
  MaxSaves = 3
  MaxCrashes = 3
  Project = {j1, j2}
  Repository = {d1, d2}
  MaxProjects = 2
  MaxStarts = 2
  Instance = {n1, n2}
  Unowned = Unowned
SYMMETRY Symmetry
INVARIANTS
  TunnelsSafe
  ReadingsReach
  SamplesTrue
  NoOrphanTerminal
  AcknowledgedLoads
  PreferencesStored
  LifecycleSound
PROPERTIES
  ReadingsInOrder
  OwnSessionEnds
CHECK_DEADLOCK FALSE
