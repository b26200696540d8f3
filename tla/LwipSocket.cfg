SPECIFICATION FairSpec
CONSTANTS
 NULL = NULL
 None = None
 Sock = {s1, s2}
 Pcb = {p1, p2}
 Source = {1, 2}
 WND = 2
 SNDBUF = 1
 LowWater = 1
 MaxBytes = 2
 Timeout = {1}
 ETHER_MAX = 1
 VifIp <- MCVifIp
 NoIp = NoIp
 ANY = "any"
 Addr = {"any"}
INVARIANTS PointersMatch StreamExact EofIsEnd
PROPERTIES FaultsKnown CallsReturn
CHECK_DEADLOCK FALSE
