------------------------------ MODULE ShfsAdmin ------------------------------
(***************************************************************************)
(* shfs_admin: one session loads the hash table of a volume, executes      *)
(* commands on the copy in memory, and writes the chunks of the table that *)
(* it changed when it ends.  File contents are written at once.  Any write *)
(* may fail, a signal cancels a command, and the program may be killed.    *)
(***************************************************************************)
EXTENDS ShfsDisk, ShfsAlloc

CONSTANTS FarAway,      \* where the registration of a link lies
          MaxCommands   \* bound on the commands that change a table

VARIABLES ad,        \* the session
          commands,  \* how many were executed, in all sessions
          lost,      \* of each volume, entries on disk whose removal was forgotten with a session
          tainted,   \* volumes where two containers have overlapped
          faulted    \* volumes where a command failed halfway, or a removal was forgotten

adVars == <<ad, commands, lost, tainted, faulted>>

NoFile == [blocks |-> << >>, full |-> FALSE]
NoSession == [pc |-> "idle", members |-> << >>, tab |-> << >>, modified |-> {}, al |-> << >>,
              def |-> NbEntry, job |-> NbEntry, next |-> 0]

AdInit == ad = NoSession /\ commands = 0 /\ lost = {} /\ tainted = {} /\ faulted = {}

(* actn_addfile hashes chunk by chunk and reads the length modulo the      *)
(* chunk size of the last one: nothing of a chunk that is full.            *)
Digest(h) ==
  CASE h.is = "file" /\ h.what.full -> Front(h.what.blocks)
    [] h.is = "file"                -> h.what.blocks
    [] h.is = "link"                -> <<h.what>>
    [] OTHER                        -> <<"zero">>
Chunks(h) == IF h.is = "file" THEN Len(h.what.blocks) ELSE 0

Held(tab) == {e \in Entry : ~IsFree(tab[e])}
Overlap(tab) ==
  \E e, f \in Held(tab) :
    e # f /\ tab[e].at < tab[f].at + Chunks(tab[f]) /\ tab[f].at < tab[e].at + Chunks(tab[e])

(* load_vol_alist: the label, the table, and a range for every entry; what *)
(* a link has where a file has its container is far outside the volume.    *)
Ranges(tab) ==
  LET al[n \in 0 .. NbEntry] ==
        IF n = 0 THEN Register(Register(<< >>, 0, 2), 2, HtableChunks(NbEntry, PerChunk))
        ELSE IF IsFree(tab[n - 1]) THEN al[n - 1]
        ELSE Register(al[n - 1], tab[n - 1].at, Chunks(tab[n - 1]))
  IN  al[NbEntry]

(* mount_shfs: every device must have a label and be a member, and there   *)
(* must be one.                                                            *)
AdLoad(list) ==
  LET v   == VolumeOf(list)
      tab == [e \in Entry |-> [TableOn(FoundMembers(list))[e] EXCEPT !.done = @ /\ <<v, e>> \notin lost]]
  IN  /\ ad.pc = "idle" /\ list # << >> /\ \A i \in DOMAIN list : IsLabel(list[i])
      /\ AllFound(list) /\ Len(FoundMembers(list)) = Len(list)
      /\ MinMemberSize(Lay(list), VolChunks(list)) <= NbStripe
      /\ Chunk(FoundMembers(list), 1).type = "config"
      /\ ad' = [NoSession EXCEPT !.pc = "ready", !.members = FoundMembers(list), !.tab = tab,
                                 !.al = Ranges(tab),
                                 !.def = LET d == {e \in Entry : tab[e].def}
                                         IN  IF d = {} THEN NbEntry ELSE CHOOSE e \in d : \A f \in d : f <= e]
      /\ tainted' = tainted \cup {u \in {v} : Overlap(tab)}
      /\ UNCHANGED <<disk, lost, faulted>>

Smallest(S) == CHOOSE e \in S : \A f \in S : e <= f
TableChunkOf(e) == 2 + e \div PerChunk

(* The entry that a new object gets, if its digest is new.                 *)
PlaceFor(h) ==
  LET free == {e \in Entry : IsFree(ad.tab[e])}
  IN  IF free = {} \/ \E e \in Held(ad.tab) : Digest(ad.tab[e]) = Digest(h) THEN NbEntry
      ELSE Smallest(free)

Edit(e, h) == [ad EXCEPT !.tab[e] = h, !.modified = @ \cup {TableChunkOf(e)}]

(* The container of a new file is taken before anything is written to it.  *)
ReserveBug(at, len) == ad.al
Reserve(at, len) == Register(ad.al, at, len)

(* actn_addfile up to the copying: a container that is free, then a place  *)
(* in the table; failing in between changes nothing.                       *)
AddFile(f) ==
  LET len == Len(f.blocks)
      at  == FindFree(ad.al, "first fit", VolChunks(ad.members), len)
      h   == [is |-> "file", what |-> f, at |-> at, def |-> FALSE, done |-> FALSE]
      e   == PlaceFor(h)
  IN  /\ ad.pc = "ready" /\ at # 0 /\ at < VolChunks(ad.members) /\ e # NbEntry
      /\ ad' = [Edit(e, h) EXCEPT !.pc = "copy", !.job = e, !.next = 1,
                                  !.al = Reserve(at, len)]
      /\ tainted' = tainted \cup {v \in {VolumeOf(ad.members)} : Overlap(ad'.tab)}
      /\ UNCHANGED <<disk, lost, faulted>>

Job == ad.tab[ad.job]

(* The next block goes to its chunk, which must be on the devices.         *)
CopyBlock ==
  /\ ad.pc = "copy" /\ ad.next <= Chunks(Job)
  /\ Job.at + ad.next - 1 < VolChunks(ad.members)
  /\ WriteChunk(ad.members, Job.at + ad.next - 1, Data(Job.what.blocks[ad.next]))
  /\ ad' = [ad EXCEPT !.next = @ + 1]
  /\ UNCHANGED <<lost, tainted, faulted>>

CopyEnd ==
  /\ ad.pc = "copy" /\ ad.next > Chunks(Job)
  /\ ad' = [ad EXCEPT !.pc = "ready", !.tab[ad.job].done = TRUE, !.job = NbEntry, !.next = 0]
  /\ UNCHANGED <<disk, lost, tainted, faulted>>

(* An error, or a signal seen after a write: the container is given back   *)
(* and the entry stays.                                                    *)
CopyFails ==
  /\ ad.pc = "copy"
  /\ ad' = [ad EXCEPT !.pc = "ready", !.al = Unregister(@, Job.at, Chunks(Job)), !.job = NbEntry, !.next = 0]
  /\ faulted' = faulted \cup {VolumeOf(ad.members)}
  /\ UNCHANGED <<disk, lost, tainted>>

(* actn_addlink *)
AddLink(l) ==
  LET h == [is |-> "link", what |-> l, at |-> FarAway, def |-> FALSE, done |-> FALSE]
  IN  /\ ad.pc = "ready" /\ PlaceFor(h) # NbEntry
      /\ ad' = Edit(PlaceFor(h), h)
      /\ UNCHANGED <<disk, lost, tainted, faulted>>

(* actn_rmfile: a file whose container is not registered stays; the flags  *)
(* of an entry outlive it.                                                 *)
RemoveObj(e) ==
  LET h  == ad.tab[e]
      al == Unregister(ad.al, h.at, Chunks(h))
  IN  /\ ad.pc = "ready" /\ ~IsFree(h)
      /\ h.is = "file" => al # ad.al
      /\ ad' = [Edit(e, [Free EXCEPT !.def = h.def]) EXCEPT !.al = IF h.is = "file" THEN al ELSE @]
      /\ UNCHANGED <<disk, lost, tainted, faulted>>

(* actn_cleardefault, and actn_setdefault, which calls it.                 *)
Undefaulted == IF ad.def = NbEntry THEN ad
               ELSE [Edit(ad.def, [ad.tab[ad.def] EXCEPT !.def = FALSE]) EXCEPT !.def = NbEntry]
ClearDefault == ad.pc = "ready" /\ ad' = Undefaulted /\ UNCHANGED <<disk, lost, tainted, faulted>>
SetDefault(e) ==
  /\ ad.pc = "ready" /\ ~IsFree(ad.tab[e])
  /\ ad' = [Undefaulted EXCEPT !.tab[e].def = TRUE, !.modified = @ \cup {TableChunkOf(e)}, !.def = e]
  /\ UNCHANGED <<disk, lost, tainted, faulted>>

(* umount_shfs, after the last command or a signal: the changed chunks of  *)
(* the table, in order.                                                    *)
WriteBackBegin ==
  /\ ad.pc = "ready" /\ ad' = [ad EXCEPT !.pc = "umount"] /\ UNCHANGED <<disk, lost, tainted, faulted>>
WriteBack ==
  LET c == Smallest(ad.modified)
      v == VolumeOf(ad.members)
  IN  /\ ad.pc = "umount" /\ ad.modified # {}
      /\ WriteChunk(ad.members, c, Table(v, [e \in EntriesOf(c) |-> ad.tab[e]]))
      /\ ad' = [ad EXCEPT !.modified = @ \ {c}]
      /\ lost' = lost \ ({v} \X EntriesOf(c))
      /\ UNCHANGED <<tainted, faulted>>
AdEnd ==
  /\ ad.pc = "umount" /\ ad.modified = {}
  /\ ad' = NoSession /\ UNCHANGED <<disk, lost, tainted, faulted>>

(* The program dies with what it has not written.                          *)
Forgotten == {e \in Entry : TableChunkOf(e) \in ad.modified /\ TableOn(ad.members)[e] # ad.tab[e]
                            /\ ~IsFree(TableOn(ad.members)[e])}
AdStop ==
  LET v == VolumeOf(ad.members)
  IN  /\ ad.pc # "idle" /\ ad' = NoSession
      /\ lost' = lost \cup ({v} \X Forgotten)
      /\ faulted' = faulted \cup {u \in {v} : Forgotten # {}}
      /\ UNCHANGED <<disk, tainted>>

Command ==
  \/ \E f \in File : AddFile(f)
  \/ \E l \in Link : AddLink(l)
  \/ \E e \in Entry : RemoveObj(e) \/ SetDefault(e)
  \/ ClearDefault

AdNext ==
  \/ commands < MaxCommands /\ Command /\ commands' = commands + 1
  \/ (CopyBlock \/ CopyEnd \/ CopyFails \/ WriteBackBegin \/ WriteBack \/ AdEnd \/ AdStop) /\ UNCHANGED commands
==============================================================================
