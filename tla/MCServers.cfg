\* Three attempts that may overlap, two settings, a channel of one, three clock ticks; two
\* connections, two host keys, an edit by the user; every choice of a login with a key of
\* the agent, twice.  Bounded clocks and attempts end behaviours.
SPECIFICATION ServersSpec
CONSTANTS
  Serving = {"evidence", "hosts", "login"}
  Attempt = {o1, o2, o3}
  Profile = {p1, p2}
  Deleted = Deleted
  MaxTime = 3
  Capacity = 1
  FreshFor = 2
  Link = {c1, c2}
  Key = {k1, k2}
  Unlocked = Unlocked
  MaxEdited = 1
  MaxEntered = 1
  AgentKey = {"a"}
  Patience = 1
  MaxAttempts = 2
SYMMETRY Symmetry
INVARIANTS
  EvidenceSound
  OneHostKey
  LoginSound
PROPERTIES
  NoRewind
CHECK_DEADLOCK FALSE
