------------------------------ MODULE ShfsMkfs ------------------------------
(***************************************************************************)
(* shfs_mkfs: a new volume over devices that may have had others.  It may  *)
(* end at any step: an I/O error, a signal, or a kill.                     *)
(***************************************************************************)
EXTENDS ShfsDisk

VARIABLE mk      \* step, the volume made last, the next and the last member or chunk

MkIdle(v) == [pc |-> "idle", vol |-> v, next |-> 0, last |-> 0]
MkInit == mk = MkIdle(1)

MembersMade == MembersOf[mk.vol]

(* Formatting begins with the labels, "in order to disable device          *)
(* detection".                                                             *)
FirstStepBug(v, last) == [pc |-> "erase", vol |-> v, next |-> 2, last |-> last]
FirstStep(v, last) == [pc |-> "unlabel", vol |-> v, next |-> 1, last |-> last]

(* Every volume is a new one, with identifiers nothing else has; its       *)
(* members have room for more than the metadata.  The table is erased, or  *)
(* all of the volume.                                                      *)
MkBegin ==
  LET v     == mk.vol + 1
      meta  == MetadataSize(NbEntry, PerChunk)
      whole == VolChunks(MembersOf[v])
  IN  /\ mk.pc = "idle" /\ v \in Volume /\ meta <= whole
      /\ \E last \in {meta - 1, whole - 1} : mk' = FirstStep(v, last)
      /\ UNCHANGED disk

EraseLabel ==
  /\ mk.pc = "unlabel"
  /\ WriteLabel0(MembersMade[mk.next], Zero)
  /\ mk' = IF mk.next < Len(MembersMade) THEN [mk EXCEPT !.next = @ + 1]
           ELSE [mk EXCEPT !.pc = "erase", !.next = 2]

(* sync_erase_chunk over the table, or the whole volume.                   *)
EraseChunk ==
  /\ mk.pc = "erase"
  /\ WriteChunk(MembersMade, mk.next, Zero)
  /\ mk' = IF mk.next < mk.last THEN [mk EXCEPT !.next = @ + 1] ELSE [mk EXCEPT !.pc = "config"]

WriteConfig ==
  /\ mk.pc = "config"
  /\ WriteChunk(MembersMade, 1, Config(mk.vol))
  /\ mk' = [mk EXCEPT !.pc = "label", !.next = 1]

WriteLabel ==
  /\ mk.pc = "label"
  /\ WriteLabel0(MembersMade[mk.next], Label(mk.vol, mk.next))
  /\ mk' = IF mk.next < Len(MembersMade) THEN [mk EXCEPT !.next = @ + 1] ELSE MkIdle(mk.vol)

MkStop == mk.pc # "idle" /\ mk' = MkIdle(mk.vol) /\ UNCHANGED disk

MkNext ==
  \/ MkBegin \/ EraseLabel \/ EraseChunk \/ WriteConfig \/ WriteLabel \/ MkStop
=============================================================================
