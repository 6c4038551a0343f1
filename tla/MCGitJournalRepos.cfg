\* Two repositories that share the catalog, an operation id that names either, and a journal of one record.
SPECIFICATION Spec
CONSTANTS
  a1 = a1
  a2 = a2
  i1 = i1
  i2 = i2
  p1 = p1
  p2 = p2
  r1 = r1
  r2 = r2
  Agent = {a1, a2}
  Id = {i1, i2}
  Payload = {p1, p2}
  Repo = {r1, r2}
  RepoOf <- TwoRepos
  MaxRecords = 1
  Nobody = Nobody
  NoId = NoId
  NoPayload = NoPayload
SYMMETRY NameSymmetry
INVARIANTS
  JournalBeforeEffect
  JournalBounded
