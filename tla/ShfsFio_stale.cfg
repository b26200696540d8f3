SPECIFICATION Spec
CONSTANTS
  NULL = NULL
  Client = {h1, h2}
  NbEntry = 2
  PerChunk = 1
  f = f
  g = g
  File = {f, g}
  NoFile = NoFile
  Chunk = {1, 2}
  InitTables <- NoDefault
  MaxEdit = 3
  RmDefault = FALSE
  UseOpenf = FALSE
  ReadFaults = FALSE
PROPERTIES
  CacheReadFresh
CHECK_DEADLOCK FALSE
