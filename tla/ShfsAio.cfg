SPECIFICATION FairSpec
CONSTANTS
  Caller = {c1, c2, c3}
  Token = {t1, t2}
  NbMember = 2
  RingSize = 3
  ChunkNo = {1}
  MaxLen = 3
INVARIANTS
  PoolsExact
PROPERTIES
  ImplementsCalls
  Answered
