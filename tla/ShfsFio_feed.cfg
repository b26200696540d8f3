SPECIFICATION Spec
CONSTANTS
  NULL = NULL
  Client = {h1, h2}
  NbEntry = 3
  PerChunk = 2
  f = f
  g = g
  File = {f, g}
  NoFile = NoFile
  Chunk = {1, 2}
  InitTables <- TwoFiles
  MaxEdit = 0
  RmDefault = FALSE
  UseOpenf = FALSE
  ReadFaults = FALSE
INVARIANTS
  FeedInBounds
CHECK_DEADLOCK FALSE
