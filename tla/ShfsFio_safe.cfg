SPECIFICATION Spec
CONSTANTS
  NULL = NULL
  Client = {h1, h2}
  NbEntry = 2
  PerChunk = 1
  f = f
  g = g
  File = {f, g}
  NoFile = NoFile
  Chunk = {1, 2}
  InitTables <- TwoVolumes
  MaxEdit = 2
  RmDefault = FALSE
  UseOpenf = TRUE
  ReadFaults = TRUE
INVARIANTS
  UnmountedIsUnused
  FioInv
  NothingFreedInUse
PROPERTIES
  RemountApplies
  OpenIsStable
  OpensObject
  DirectReadFresh
SYMMETRY Symmetry
