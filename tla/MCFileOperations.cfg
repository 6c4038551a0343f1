\* Two uploads of at most one chunk, one edit of the server, one cancel remembered; a download of two chunks
\* and two changes; a folder of up to three items, one more than its limit.
SPECIFICATION OperationsSpec
CONSTANTS
  Op = {o1, o2}
  Limit = 2
  Tombstones = 1
  MaxSize = 1
  MaxEdits = 1
  None = None
  MaxChunks = 2
  PreviewLimit = 1
  TextLimit = 0
  MaxSeconds = 2
  MaxRewrites = 2
  Item = {1, 2, 3}
  DirectoryLimit = 2
  MaxMoves = 1
SYMMETRY Symmetry
INVARIANTS
  FilesSound
PROPERTIES
  PublishedWhole
CHECK_DEADLOCK FALSE
