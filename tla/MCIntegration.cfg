\* Two readers of two formats, one of two chunks, a cache for two and a limit of two
\* requests, two copies; two installations and three processes with three faults; three
\* links; every size of value around two chunks; two devices and two workers.
SPECIFICATION IntegrationSpec
CONSTANTS
    Serving = {"clipboard", "ownership", "browser", "x11", "wayland"}
    Reader = {x1, x2}
    Format = {1, 2}
    Chunks <- TwoThenOne
    Pending = 2
    CacheLimit = 2
    MaxCopies = 2
    MaxRequests = 2
    MaxLosses = 0
    Client = {A, B}
    Process = {p1, p2, p3}
    Nobody = Nobody
    StaleSocket = StaleSocket
    MaxOwnerFaults = 3
    Helper = {h1, h2, h3}
    MaxLeases = 2
    NoHelper = NoHelper
    Window = {w1, w2}
    Chunk = 2
    Sizes = {0, 1, 2, 3, 4, 5}
    MaxProperties = 2
    NoTransfer = NoTransfer
    Device = {d1, d2}
    Mime = {m1}
    Worker = {k1, k2}
    PipeParts = 2
    MaxOffers = 2
    MaxOffered = 3
INVARIANTS
  CacheSound
  PublishedTruth
  LinksTrue
  DisplaysTrue
PROPERTIES
  RefusedByLive
CHECK_DEADLOCK FALSE
