\* Two processes, two operations with the same effect on one repository.
SPECIFICATION Spec
CONSTANTS
  a1 = a1
  a2 = a2
  i1 = i1
  i2 = i2
  p1 = p1
  p2 = p2
  r1 = r1
  r2 = r2
  Agent = {a1, a2}
  Id = {i1, i2}
  Payload = {p1}
  Repo = {r1}
  RepoOf <- OneRepo
  MaxRecords = 2
  Nobody = Nobody
  NoId = NoId
  NoPayload = NoPayload
SYMMETRY Symmetry
INVARIANTS
  AtMostOnce
  HonestReplies
  SnapshotOnce
  OneAtATime
PROPERTIES
  StepsForward
  ImplementsLog
