------------------------------- MODULE Volume -------------------------------
(***************************************************************************)
(* SHFS volumes between the programs that make, change and mount them.     *)
(* Only one of them uses the devices at a time; ShfsFio has a volume that  *)
(* is changed while it is mounted.                                         *)
(***************************************************************************)
EXTENDS ShfsMkfs, ShfsAdmin, ShfsMount

ASSUME VolumeAssumption ==
  /\ IsFiniteSet(Device) /\ NbStripe \in Nat \ {0} /\ 1 \in Volume /\ Volume \subseteq Nat
  /\ NbStripe < Word /\ Word \in Nat
  /\ \A v \in Volume : MembersOf[v] \in Seq(Device) /\ IsInjective(MembersOf[v]) /\ MembersOf[v] # << >>
  /\ Mode \in {"combined", "independent"} /\ NbEntry \in Nat /\ PerChunk \in Nat \ {0}
  /\ MetadataSize(NbEntry, PerChunk) <= VolChunks(MembersOf[1])
  /\ \A f \in File : f.blocks \in Seq({f.blocks[i] : i \in DOMAIN f.blocks})
  /\ FarAway \in Nat /\ FarAway > NbStripe * Cardinality(Device)
  /\ FarAway >= MetadataSize(NbEntry, PerChunk) /\ MaxLeak \in Nat
  /\ \A l \in DeviceList : l \in Seq(Device) /\ IsInjective(l)

vars == <<disk, mk, adVars, mountVars>>

Init == DiskInit /\ MkInit /\ AdInit /\ KmInit

MkfsIdle  == mk.pc = "idle"
AdminIdle == ad.pc = "idle"
Unmounted == km.pc = "idle" /\ ~mounted

Session == (\E list \in DeviceList : AdLoad(list)) /\ UNCHANGED commands

Next ==
  \/ AdminIdle /\ Unmounted /\ MkNext /\ UNCHANGED <<adVars, mountVars>>
  \/ MkfsIdle /\ Unmounted /\ (AdNext \/ Session) /\ UNCHANGED <<mk, mountVars>>
  \/ MkfsIdle /\ AdminIdle /\ KmNext /\ UNCHANGED <<mk, adVars>>

Spec == Init /\ [][Next]_vars

-----------------------------------------------------------------------------
(* Every block of a file is in its chunk.                                  *)
Kept(members, h) ==
  \A i \in 1 .. Chunks(h) : /\ h.at + i - 1 < VolChunks(members)
                            /\ Chunk(members, h.at + i - 1) = Data(h.what.blocks[i])

(* A file that was added keeps its contents, in the session and on the     *)
(* devices of every volume that mount_shfs accepts, while others are added *)
(* and removed there and on other volumes, whenever the programs die,      *)
(* unless containers overlap; they do not until a command fails halfway or *)
(* a removal is forgotten.                                                 *)
Mountable(v) == Formatted(v) /\ MinMemberSize(Lay(MembersOf[v]), VolChunks(MembersOf[v])) <= NbStripe
ContentsKept ==
  /\ tainted \subseteq faulted
  /\ \A v \in Volume : Mountable(v) /\ v \notin tainted =>
       LET tab       == TableOn(MembersOf[v])
           inSession == ad.members = MembersOf[v]
       IN  /\ inSession => \A e \in Held(ad.tab) : ad.tab[e].done => Kept(ad.members, ad.tab[e])
           /\ \A e \in Held(tab) :
                tab[e].done /\ <<v, e>> \notin lost /\ (inSession => ad.tab[e] = tab[e]) => Kept(MembersOf[v], tab[e])

MountedMembers == IF km.pc \in {"htable", "buffer", "cache"} \/ (km.pc = "idle" /\ mounted)
                  THEN km.members ELSE << >>

(* What shfs_admin or the kernel has mounted was formatted to the end:     *)
(* configuration and table are of the volume the label names, whichever    *)
(* step shfs_mkfs ended at and whatever labels are left on other devices.  *)
WhatMountsIsFormatted ==
  \A ms \in {ad.members, MountedMembers} \ {<< >>} :
    LET v == disk[ms[1]][0].vol
    IN  /\ ms = MembersOf[v] /\ Formatted(v) /\ Chunk(ms, 1) = Config(v)
        /\ \A c \in TableChunks : Chunk(ms, c).type # "zero" => Chunk(ms, c).type = "table" /\ Chunk(ms, c).vol = v

(* No mount leaves a device open that it does not use, or closes one more  *)
(* often than it opened it.                                                *)
DevicesReleased ==
  /\ \A d \in Device : refs[d] \in Nat
  /\ km.pc = "idle" =>
       \A d \in Device : refs[d] = IF mounted /\ \E i \in DOMAIN km.members : km.members[i] = d THEN 1 ELSE 0

(* A mount that fails and an umount leave nothing allocated and a mounted  *)
(* volume has one of everything, but for the tokens of mounts that could   *)
(* not load the table.                                                     *)
MountCleansUp ==
  /\ \A t \in Things : heap[t] \in Nat
  /\ km.pc = "idle" => \A t \in Things \ {"pool"} : heap[t] = IF mounted THEN 1 ELSE 0
  /\ mounted /\ km.pc = "idle" => heap["pool"] >= 1
=============================================================================
