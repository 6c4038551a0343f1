\* Two tunnels that share a port range, one edit; one reader, one format of two chunks,
\* two copies, a limit of one request and one lost connection.
SPECIFICATION LiveSpec
CONSTANTS
    Serving = {"tunnels", "clipboard"}
    Tunnel = {t1, t2}
    Server = {s1}
    Port = {q1}
    MaxEdits = 1
    NoConfig = NoConfig
    Reader = {x1}
    Format = {1}
    Chunks <- TwoThenOne
    Pending = 1
    CacheLimit = 2
    MaxCopies = 2
    MaxRequests = 2
    MaxLosses = 1
PROPERTIES
  TunnelsLive
  CopyArrives
CHECK_DEADLOCK FALSE
