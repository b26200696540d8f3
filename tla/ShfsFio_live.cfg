SPECIFICATION FairSpec
CONSTANTS
  NULL = NULL
  Client = {h1, h2}
  NbEntry = 2
  PerChunk = 1
  f = f
  g = g
  File = {f, g}
  NoFile = NoFile
  Chunk = {1, 2}
  InitTables <- TwoFiles
  MaxEdit = 1
  RmDefault = FALSE
  UseOpenf = FALSE
  ReadFaults = TRUE
PROPERTIES
  RemountReturns
  UmountReturns
