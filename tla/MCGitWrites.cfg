\* Two writes, two agent processes and one fault of any kind.
SPECIFICATION WSpec
CONSTANTS
  a1 = a1
  a2 = a2
  i1 = i1
  i2 = i2
  p1 = p1
  r1 = r1
  Agent = {a1, a2}
  Id = {i1, i2}
  Payload = {p1}
  Repo = {r1}
  RepoOf <- OneRepo
  MaxRecords = 2
  MaxFaults = 1
  Nobody = Nobody
  NoId = NoId
  NoPayload = NoPayload
SYMMETRY Symmetry
INVARIANTS
  ReceiptSound
PROPERTIES
  ConfirmedStays
