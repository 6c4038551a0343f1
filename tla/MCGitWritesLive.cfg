\* One write and two faults, with fairness.
SPECIFICATION WFairSpec
CONSTANTS
  a1 = a1
  a2 = a2
  i1 = i1
  i2 = i2
  p1 = p1
  r1 = r1
  Agent = {a1, a2}
  Id = {i1}
  Payload = {p1}
  Repo = {r1}
  RepoOf <- OneRepo
  MaxRecords = 1
  MaxFaults = 2
  Nobody = Nobody
  NoId = NoId
  NoPayload = NoPayload
PROPERTIES
  EveryWriteSettles
