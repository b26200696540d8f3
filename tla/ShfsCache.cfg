SPECIFICATION FairSpec
CONSTANTS
  NULL = NULL
  Buf = {b1, b2}
  PoolBuf = {b1, b2}
  Handle = {h1, h2}
  VolSize = 3
  ReadAhead = 1
  NbToken = 3
  NbReq = 2
  IoFaults = FALSE
INVARIANTS
  AlistExact
PROPERTIES
  FlushReleases
  WaiterAnswered
  FlushReturns
