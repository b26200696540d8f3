SPECIFICATION Spec
CONSTANTS
  NULL = NULL
  Buf = {b1, b2}
  PoolBuf = {b1, b2}
  Handle = {h1, h2}
  VolSize = 3
  ReadAhead = 1
  NbToken = 4
  NbReq = 2
  IoFaults = TRUE
PROPERTIES
  FlushReleases
CHECK_DEADLOCK FALSE
