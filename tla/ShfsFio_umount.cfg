SPECIFICATION Spec
CONSTANTS
  NULL = NULL
  Client = {h1, h2}
  NbEntry = 2
  PerChunk = 1
  f = f
  g = g
  File = {f, g}
  NoFile = NoFile
  Chunk = {1, 2}
  InitTables <- TwoFiles
  MaxEdit = 2
  RmDefault = TRUE
  UseOpenf = FALSE
  ReadFaults = FALSE
INVARIANTS
  UnmountedIsUnused
CHECK_DEADLOCK FALSE
