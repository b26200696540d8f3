SPECIFICATION Spec
CONSTANTS
  NULL = NULL
  El = {e1, e2, e3, e4}
  Ask <- MCAsk
  MinAlign = 2
  PoolHdr = 5
  ObjHdr = 4
  NbBkts = 2
  PerBkt = 2
  Digest = {1, 2, 3, 4, 5}
  AreaEnd = 9
  MaxLen = 3
  Word = 65536
  MaxMembers = 3
  Stripe = {1, 2}
  MemberSize = {0, 1, 2, 3, 4, 5, 6, 7, 8, 9}
INVARIANTS
  ListExact
  PoolExact
  AreasApart
  TableExact
  FirstFitExact
  LayoutFits
PROPERTIES
  ImplementsOrder
CHECK_DEADLOCK FALSE
