------------------------------ MODULE ShfsMount ------------------------------
(***************************************************************************)
(* mount_shfs and umount_shfs of the kernel (shfs.c) as far as they open   *)
(* and close devices (blkdev.c), allocate and free, step by step: each     *)
(* step may fail.  Closing a device may schedule, and a failing mount      *)
(* still says that the volume is mounted while it closes them.             *)
(***************************************************************************)
EXTENDS ShfsDisk

CONSTANTS DeviceList,   \* the lists of devices that a mount is given
          MaxLeak       \* bound on the token pools that are lost

VARIABLES km,           \* the mount: step, devices left to probe, detected, members, to be closed
          mounted,      \* shfs_mounted
          refs,         \* of each device, open_blkdev's count; it is closed when zero
          heap          \* of each thing a mount allocates, how many there are

mountVars == <<km, mounted, refs, heap>>

Things == {"pool", "table", "buffer", "cache"}
KmIdle == [pc |-> "idle", probe |-> << >>, det |-> << >>, members |-> << >>, close |-> << >>, then |-> "idle"]

KmInit ==
  /\ km = KmIdle /\ mounted = FALSE
  /\ refs = [d \in Device |-> 0] /\ heap = [t \in Things |-> 0]

Freed(things) == [t \in Things |-> IF t \in things THEN heap[t] - 1 ELSE heap[t]]
Made(t) == [heap EXCEPT ![t] = @ + 1]

(* The devices ds are closed, one by one, and then the mount goes on at pc.*)
Closing(k, ds, pc) == IF ds = << >> THEN [k EXCEPT !.pc = pc]
                      ELSE [k EXCEPT !.pc = "close", !.close = ds, !.then = pc]

MountBegin(list) ==
  /\ km.pc = "idle" /\ ~mounted /\ list # << >> /\ heap["pool"] < MaxLeak
  /\ km' = [KmIdle EXCEPT !.pc = "probe", !.probe = list]
  /\ UNCHANGED <<disk, mounted, refs, heap>>

(* shfs_checkopen_blkdev: a device that cannot be opened or read or has no *)
(* label is left aside, closed.                                            *)
Probe ==
  LET dev == Head(km.probe)
  IN  /\ km.pc = "probe" /\ km.probe # << >>
      /\ \/ /\ IsLabel(dev)
            /\ km' = [km EXCEPT !.probe = Tail(@), !.det = Append(@, dev)]
            /\ refs' = [refs EXCEPT ![dev] = @ + 1]
         \/ km' = [km EXCEPT !.probe = Tail(@)] /\ UNCHANGED refs
      /\ UNCHANGED <<disk, mounted, heap>>

(* The rest of load_vol_cconf: the label of the first device is read once  *)
(* more, which may fail; all members must be there, and large enough.      *)
Detect ==
  LET ms == FoundMembers(km.det)
  IN  /\ km.pc = "probe" /\ km.probe = << >>
      /\ \/ km' = Closing(km, km.det, "idle")
         \/ /\ km.det # << >> /\ AllFound(km.det)
            /\ MinMemberSize(Lay(ms), VolChunks(ms)) <= NbStripe
            /\ km' = Closing([km EXCEPT !.members = ms], km.det, "pool")
      /\ UNCHANGED <<disk, mounted, refs, heap>>

(* The clean-up of load_vol_cconf leaves the members open.                 *)
StaysBug(dev) == km.then = "pool"
Stays(dev) == km.then = "pool" /\ \E i \in DOMAIN km.members : km.members[i] = dev

(* close_blkdev, where a device is closed.                                 *)
CloseOne ==
  /\ km.pc = "close"
  /\ LET dev == Head(km.close)
     IN  refs' = IF Stays(dev) THEN refs ELSE [refs EXCEPT ![dev] = @ - 1]
  /\ LET k == Closing(km, Tail(km.close), km.then)
     IN  /\ km' = IF k.pc = "idle" THEN KmIdle ELSE k
         /\ mounted' = (mounted /\ k.pc # "idle")
  /\ UNCHANGED <<disk, heap>>

(* A step of mount_shfs that fails: these things are freed, and the        *)
(* members closed.                                                         *)
Fails(things) ==
  /\ km' = Closing(km, km.members, "idle")
  /\ heap' = Freed(things)
  /\ UNCHANGED <<disk, mounted, refs>>

(* The tokens.  A failure ends the mount with the result of the step       *)
(* before, which is success.                                               *)
AllocPool ==
  /\ km.pc = "pool"
  /\ \/ Fails({})
     \/ /\ km' = [km EXCEPT !.pc = "hconf"] /\ mounted' = TRUE /\ heap' = Made("pool")
        /\ UNCHANGED <<disk, refs>>

(* load_vol_hconf *)
LoadHconf ==
  /\ km.pc = "hconf"
  /\ \/ Fails({"pool"})
     \/ /\ Chunk(km.members, 1).type = "config"
        /\ km' = [km EXCEPT !.pc = "htable"] /\ UNCHANGED <<disk, mounted, refs, heap>>

(* load_vol_htable frees what it allocated itself; its failure leaves the  *)
(* tokens alone.                                                           *)
LoadHtable ==
  /\ km.pc = "htable"
  /\ \/ Fails({})
     \/ /\ km' = [km EXCEPT !.pc = "buffer"] /\ heap' = Made("table")
        /\ UNCHANGED <<disk, mounted, refs>>

AllocBuffer ==
  /\ km.pc = "buffer"
  /\ \/ Fails({"table", "pool"})
     \/ /\ km' = [km EXCEPT !.pc = "cache"] /\ heap' = Made("buffer")
        /\ UNCHANGED <<disk, mounted, refs>>

AllocCacheBug ==
  /\ km.pc = "cache"
  /\ \/ Fails({"buffer", "pool"})
     \/ /\ km' = [km EXCEPT !.pc = "idle"] /\ heap' = Made("cache")
        /\ UNCHANGED <<disk, mounted, refs>>
AllocCache ==
  /\ km.pc = "cache"
  /\ \/ Fails({"buffer", "table", "pool"})
     \/ /\ km' = [km EXCEPT !.pc = "idle"] /\ heap' = Made("cache")
        /\ UNCHANGED <<disk, mounted, refs>>

(* umount_shfs of a volume that nobody uses.                               *)
Umount ==
  /\ km.pc = "idle" /\ mounted
  /\ mounted' = FALSE /\ heap' = Freed(Things)
  /\ km' = Closing(km, km.members, "idle")
  /\ UNCHANGED <<disk, refs>>

KmNext ==
  \/ \E list \in DeviceList : MountBegin(list)
  \/ Probe \/ Detect \/ CloseOne \/ AllocPool \/ LoadHconf \/ LoadHtable \/ AllocBuffer \/ AllocCache
  \/ Umount
==============================================================================
