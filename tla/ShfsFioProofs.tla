--------------------------- MODULE ShfsFioProofs ---------------------------
(***************************************************************************)
(* The safety of open files against remount and umount for every number of *)
(* clients, entries, chunks and edits: FioInv of ShfsFio is inductive as   *)
(* long as shfs_admin never removes a file that is the default; what a     *)
(* remount leaves behind; and that it stays within the table.              *)
(***************************************************************************)
EXTENDS ShfsFio, Counting

USE FioAssumption

(* The parts of the invariant that count descriptors. *)
LEMMA OpenedFacts ==
  ASSUME NEW e
  PROVE  /\ Opened(e) \in SUBSET Client /\ IsFiniteSet(Opened(e))
         /\ Cardinality(Opened(e)) \in Nat
         /\ Cardinality(Opened(e)) = 0 <=> Opened(e) = {}
         /\ Users \in SUBSET Client /\ IsFiniteSet(Users)
         /\ Cardinality(Users) \in Nat
         /\ Cardinality(Users) = 0 <=> Users = {}
<1>1. Opened(e) \in SUBSET Client /\ Users \in SUBSET Client /\ IsFiniteSet(Client)
  BY DEF Opened, Users, FioAssumption
<1>2. QED
  BY <1>1, CountSubset

(* load_vol_htable: the default of a table with at most one flag has it.   *)
LEMMA DefaultOfFlagged ==
  ASSUME NEW t \in [Entry -> Hentry],
         \A e, x \in Entry : e # x => ~(t[e].def /\ t[x].def)
  PROVE  /\ DefaultOf(t) \in Entry \cup {NULL}
         /\ DefaultOf(t) # NULL => t[DefaultOf(t)].def
<1> DEFINE flagged == {e \in Entry : t[e].def}
<1>1. CASE flagged = {}
  BY <1>1 DEF DefaultOf
<1>2. CASE flagged # {}
  <2>1. PICK e \in flagged : \A x \in flagged : x <= e
    <3>1. PICK e \in Entry : t[e].def
      BY <1>2
    <3>2. \A x \in flagged : x = e
      BY <3>1
    <3>3. e <= e
      BY <3>1 DEF Entry
    <3>4. QED
      BY <3>1, <3>2, <3>3
  <2>2. DefaultOf(t) \in flagged
    BY <1>2, <2>1 DEF DefaultOf
  <2>3. QED
    BY <2>2
<1>3. QED
  BY <1>1, <1>2

(* shfs_mount_shfs on a device that holds one of the initial tables.       *)
LEMMA InitFioInv == Init => FioInv
<1> SUFFICES ASSUME Init PROVE FioInv
  OBVIOUS
<1>1. DiskInv /\ dtab \in [Entry -> Hentry] /\ dat \in [Chunk -> File \cup {NoFile}]
  <2>1. /\ dtab \in [Entry -> Hentry]
        /\ \A e \in Entry : dtab[e].def => dtab[e].file # NoFile
        /\ \A e, x \in Entry : e # x =>
             /\ dtab[e].file # NoFile /\ dtab[x].file # NoFile => dtab[e].at # dtab[x].at
             /\ ~(dtab[e].def /\ dtab[x].def)
    BY DEF Init, FioAssumption
  <2>2. \A k \in Chunk : Stored(dtab, k) \subseteq File
    BY <2>1 DEF Stored, Hentry
  <2>3. dat \in [Chunk -> File \cup {NoFile}]
    BY <2>2 DEF Init
  <2>4. ASSUME NEW e \in Entry, dtab[e].file # NoFile
        PROVE  dat[dtab[e].at] = dtab[e].file
    <3>1. Stored(dtab, dtab[e].at) = {dtab[e].file}
      BY <2>1, <2>4 DEF Stored
    <3>2. dtab[e].at \in Chunk
      BY <2>1 DEF Hentry
    <3>3. QED
      BY <3>1, <3>2 DEF Init
  <2>5. QED
    BY <2>1, <2>3, <2>4 DEF DiskInv
<1>2. def \in Entry \cup {NULL} /\ DefaultFlagged
  BY <1>1, DefaultOfFlagged DEF Init, DiskInv, DefaultFlagged
<1>3. TypeOK
  <2>1. hash \in [Entry -> File \cup {NoFile}]
    BY <1>1 DEF Init, Hentry
  <2>2. task \in [op : {"none", "remount", "umount"},
                  pc : {"idle", "read", "entry", "wait", "lock", "close"},
                  e : 0 .. NbEntry + PerChunk, buf : [Entry -> Hentry] \cup {<< >>},
                  locked : SUBSET Entry, since : 0 .. MaxEdit]
    BY DEF Init, NoTask, FioAssumption
  <2>3. 0 \in 0 .. MaxEdit
    BY DEF FioAssumption
  <2>4. QED
    BY <1>1, <1>2, <2>1, <2>2, <2>3 DEF Init, TypeOK, NoRead
<1>4. TabInv /\ TaskInv /\ OpenInv /\ NothingFreedInUse
  BY <1>1, <1>2 DEF Init, TabInv, IndexMatches, DiskInv, TaskInv, NoTask, OpenInv,
                    NoRead, NothingFreedInUse
<1>5. \A e \in Entry : Opened(e) = {} /\ Users = {}
  BY DEF Init, Opened, Users, FioAssumption
<1>6. CountsExact /\ LockExact
  <2>1. Users = {}
    BY DEF Init, Users
  <2>2. Cardinality({}) = 0
    BY FS_EmptySet
  <2>3. CountsExact
    BY <1>5, <2>1, <2>2 DEF Init, CountsExact
  <2>4. task.locked = {} /\ \A e \in Entry : lock[e] = 1
    BY DEF Init, NoTask
  <2>5. LockExact
    BY <1>5, <2>4 DEF LockExact
  <2>6. QED
    BY <2>3, <2>5
<1>7. QED
  BY <1>1, <1>3, <1>4, <1>6 DEF FioInv

-----------------------------------------------------------------------------
(* shfs_admin changes nothing the host knows of. *)
LEMMA DiskStep ==
  ASSUME FioInv, UNCHANGED <<volVars, openVars, readVars, lock, cbuf, task, trap>>,
         TypeOK', DiskInv'
  PROVE  FioInv'
BY DEF FioInv, TabInv, DefaultFlagged, IndexMatches, TaskInv, OpenInv, CountsExact,
       LockExact, NothingFreedInUse, Opened, Users, volVars, openVars, readVars

LEMMA AddFileInv ==
  ASSUME FioInv, NEW e \in Entry, NEW f \in File, NEW k \in Chunk, AddFile(e, f, k)
  PROVE  FioInv'
<1> USE DEF AddFile, Edit, Editing
<1>1. [file |-> f, at |-> k, def |-> FALSE] \in Hentry
  BY DEF Hentry
<1>2. dtab' \in [Entry -> Hentry] /\ dat' \in [Chunk -> File \cup {NoFile}]
  BY <1>1 DEF FioInv, TypeOK
<1>3. edits' \in 0 .. MaxEdit
  BY DEF FioInv, TypeOK, FioAssumption
<1>4. TypeOK'
  BY <1>2, <1>3 DEF FioInv, TypeOK, volVars, openVars, readVars
<1>5. DiskInv'
  <2>1. \A x \in Entry : dtab'[x] = IF x = e THEN [file |-> f, at |-> k, def |-> FALSE]
                                    ELSE dtab[x]
    BY DEF FioInv, TypeOK
  <2>2. \A c \in Chunk : dat'[c] = IF c = k THEN f ELSE dat[c]
    BY DEF FioInv, TypeOK
  <2>3. \A x \in Entry : dtab[x].at \in Chunk
    BY DEF FioInv, TypeOK, Hentry
  <2>4. f # NoFile
    BY DEF FioAssumption
  <2>5. QED
    BY <2>1, <2>2, <2>3, <2>4 DEF FioInv, DiskInv
<1>6. QED
  BY <1>4, <1>5, DiskStep

LEMMA RmFileInv ==
  ASSUME FioInv, ~RmDefault, NEW e \in Entry, RmFile(e)
  PROVE  FioInv'
<1> USE DEF RmFile, Edit, Editing
<1>1. dtab' \in [Entry -> Hentry]
  <2>1. dtab[e] \in Hentry /\ dtab' = [dtab EXCEPT ![e] = [dtab[e] EXCEPT !.file = NoFile]]
    BY DEF FioInv, TypeOK
  <2>2. [dtab[e] EXCEPT !.file = NoFile] \in Hentry
    BY <2>1, Zenon DEF Hentry
  <2>3. QED
    BY <2>1, <2>2 DEF FioInv, TypeOK
<1>2. edits' \in 0 .. MaxEdit
  BY DEF FioInv, TypeOK, FioAssumption
<1>3. TypeOK'
  BY <1>1, <1>2 DEF FioInv, TypeOK, volVars, openVars, readVars
<1>4. DiskInv'
  <2>1. \A x \in Entry : dtab'[x] = IF x = e THEN [dtab[e] EXCEPT !.file = NoFile]
                                    ELSE dtab[x]
    BY DEF FioInv, TypeOK
  <2>2. /\ dtab'[e].file = NoFile /\ dtab'[e].def = dtab[e].def /\ ~dtab[e].def
    BY <2>1 DEF FioInv, TypeOK, Hentry
  <2>3. QED
    BY <2>1, <2>2 DEF FioInv, DiskInv
<1>5. QED
  BY <1>3, <1>4, DiskStep

(* An entry of which only the default flag changes. *)
LEMMA DefEdited ==
  ASSUME NEW r \in Hentry, NEW d \in BOOLEAN
  PROVE  /\ [r EXCEPT !.def = d] \in Hentry
         /\ [r EXCEPT !.def = d].file = r.file
         /\ [r EXCEPT !.def = d].at = r.at
         /\ [r EXCEPT !.def = d].def = d
BY Zenon DEF Hentry

LEMMA SetDefaultInv ==
  ASSUME FioInv, NEW e \in Entry \cup {NULL}, SetDefault(e)
  PROVE  FioInv'
<1> USE DEF SetDefault, Editing
<1>1. ASSUME NEW x \in Entry
      PROVE  /\ dtab'[x] \in Hentry /\ dtab'[x].file = dtab[x].file
             /\ dtab'[x].at = dtab[x].at /\ dtab'[x].def = (x = e)
  <2>1. dtab[x] \in Hentry /\ dtab'[x] = [dtab[x] EXCEPT !.def = (x = e)]
    BY DEF FioInv, TypeOK
  <2>2. (x = e) \in BOOLEAN
    OBVIOUS
  <2>3. QED
    BY <2>1, <2>2, DefEdited
<1>2. dtab' \in [Entry -> Hentry]
  <2>1. dtab' = [x \in Entry |-> [dtab[x] EXCEPT !.def = (x = e)]]
    BY DEF SetDefault
  <2>2. QED
    BY <1>1, <2>1
<1>3. edits' \in 0 .. MaxEdit
  BY DEF FioInv, TypeOK, FioAssumption
<1>4. TypeOK'
  BY <1>2, <1>3 DEF FioInv, TypeOK, volVars, openVars, readVars
<1>5. DiskInv'
  <2>1. ASSUME NEW x \in Entry, dtab'[x].def PROVE x = e /\ dtab'[x].file # NoFile
    <3>1. x = e
      BY <1>1, <2>1
    <3>2. dtab[e].file # NoFile
      BY <3>1 DEF FioAssumption
    <3>3. QED
      BY <1>1, <3>1, <3>2
  <2>2. QED
    BY <1>1, <2>1, SMTT(30) DEF FioInv, DiskInv
<1>6. QED
  BY <1>4, <1>5, DiskStep

-----------------------------------------------------------------------------
(* Opening a file: the entry is not being updated, or is open already.     *)
LEMMA OpenStep ==
  ASSUME FioInv, NEW h \in Client, NEW e \in Entry, Opens(h),
         fd' = [fd EXCEPT ![h] = e], nbOpen' = nbOpen + 1,
         refcount' = [refcount EXCEPT ![e] = @ + 1],
         lock' = IF refcount[e] = 0 THEN [lock EXCEPT ![e] = 0] ELSE lock,
         tab[e].file # NoFile, e \notin task.locked,
         \/ hash[e] # NoFile
         \/ task.op = "remount" /\ task.pc = "wait" /\ task.e = e
  PROVE  FioInv'
<1> USE DEF Opens, Sched, diskVars, volVars
<1>1. \A x \in Entry :
        /\ x # e => Opened(x)' = Opened(x)
        /\ Opened(e)' = Opened(e) \cup {h} /\ h \notin Opened(e)
  BY DEF FioInv, TypeOK, Opened, FioAssumption
<1>2. Users' = Users \cup {h} /\ h \notin Users
  BY DEF FioInv, TypeOK, Users, FioAssumption
<1>3. \A x \in Entry : refcount'[x] = IF x = e THEN refcount[x] + 1 ELSE refcount[x]
  BY DEF FioInv, TypeOK
<1>4. CountsExact'
  <2>1. Cardinality(Users)' = Cardinality(Users) + 1
    BY <1>2, OpenedFacts, FS_AddElement
  <2>2. Cardinality(Opened(e))' = Cardinality(Opened(e)) + 1
    BY <1>1, OpenedFacts, FS_AddElement, SMTT(30)
  <2>3. nbOpen = Cardinality(Users) /\ \A x \in Entry : refcount[x] = Cardinality(Opened(x))
    BY DEF FioInv, CountsExact
  <2>4. ASSUME NEW x \in Entry PROVE refcount'[x] = Cardinality(Opened(x))'
    BY <1>1, <1>3, <2>2, <2>3
  <2>5. nbOpen' = Cardinality(Users)'
    BY <2>1, <2>3
  <2>6. QED
    BY <2>4, <2>5 DEF CountsExact
<1>5. refcount[e] = 0 <=> Opened(e) = {}
  BY OpenedFacts DEF FioInv, CountsExact
<1>6. LockExact'
  <2>1. \A x \in Entry : lock[x] = 0 <=> Opened(x) # {} \/ x \in task.locked
    BY DEF FioInv, LockExact
  <2>2. lock'[e] = 0
    BY <1>5, <2>1 DEF FioInv, TypeOK
  <2>3. \A x \in Entry : x # e => lock'[x] = lock[x]
    BY DEF FioInv, TypeOK
  <2>4. QED
    BY <1>1, <2>1, <2>2, <2>3 DEF LockExact
<1>7. TypeOK'
  <2>1. refcount' \in [Entry -> Nat] /\ nbOpen' \in Nat /\ fd' \in [Client -> Entry \cup {NULL}]
    BY DEF FioInv, TypeOK
  <2>2. lock' \in [Entry -> 0 .. 1] /\ since' \in [Client -> 0 .. MaxEdit]
    BY DEF FioInv, TypeOK
  <2>3. got' \in [Client -> File \cup {NoFile, NULL}]
    BY DEF FioInv, TypeOK
  <2>4. QED
    BY <2>1, <2>2, <2>3 DEF FioInv, TypeOK
<1>8. OpenInv'
  <2>1. \A x \in Client : fd'[x] = IF x = h THEN e ELSE fd[x]
    BY DEF FioInv, TypeOK
  <2>2. QED
    BY <2>1 DEF FioInv, OpenInv, FioAssumption
<1>9. DiskInv' /\ TabInv' /\ TaskInv' /\ NothingFreedInUse'
  BY DEF FioInv, DiskInv, TabInv, DefaultFlagged, IndexMatches, TaskInv, NothingFreedInUse
<1>10. QED
  BY <1>4, <1>6, <1>7, <1>8, <1>9 DEF FioInv

(* _shfs_fio_open_bentry of an entry that has a file. *)
LEMMA OpenEntryInv ==
  ASSUME FioInv, NEW h \in Client, NEW e \in Entry, Opens(h), OpenEntry(h, e),
         hash[e] # NoFile \/ tab[e].file # NoFile
  PROVE  FioInv'
<1>1. ~update[e] /\ hash[e] = tab[e].file /\ e \notin task.locked
  BY DEF OpenEntry, FioInv, TabInv, IndexMatches, TaskInv
<1>2. QED
  BY <1>1, OpenStep DEF OpenEntry

LEMMA OpenHashInv ==
  ASSUME FioInv, NEW h \in Client, NEW f \in File, OpenHash(h, f)
  PROVE  FioInv'
BY OpenEntryInv DEF OpenHash, FioAssumption

LEMMA OpenNameInv ==
  ASSUME FioInv, NEW h \in Client, NEW f \in File, OpenName(h, f)
  PROVE  FioInv'
BY OpenEntryInv DEF OpenName

LEMMA OpenDefaultInv ==
  ASSUME FioInv, NEW h \in Client, OpenDefault(h)
  PROVE  FioInv'
<1>1. def \in Entry /\ tab[def].def
  BY DEF OpenDefault, FioInv, TypeOK, TabInv, DefaultFlagged
<1>2. tab[def].file # NoFile
  BY <1>1 DEF FioInv, TabInv
<1>3. QED
  BY <1>1, <1>2, OpenEntryInv DEF OpenDefault

LEMMA OpenfInv ==
  ASSUME FioInv, NEW h \in Client, NEW g \in Client, Openf(h, g)
  PROVE  FioInv'
<1>1. fd[g] \in Entry /\ g \in Opened(fd[g])
  BY DEF Openf, FioInv, TypeOK, Opened
<1>2. mounted
  BY DEF Openf, Opens
<1>3. refcount[fd[g]] # 0
  BY <1>1, <1>2, OpenedFacts DEF FioInv, CountsExact
<1>4. QED
  BY <1>1, <1>3, OpenStep DEF Openf, FioInv, OpenInv

-----------------------------------------------------------------------------
(* shfs_fio_close. *)
LEMMA CloseInv ==
  ASSUME FioInv, NEW h \in Client, Close(h)
  PROVE  FioInv'
<1> USE DEF Close, Unlock, Sched, diskVars, volVars
<1>1. PICK e \in Entry : e = fd[h]
  BY DEF FioInv, TypeOK
<1>2. e \in Entry /\ mounted /\ e \notin task.locked /\ e # NULL
  BY <1>1 DEF FioInv, TypeOK, OpenInv, FioAssumption
<1>3. \A x \in Client : fd'[x] = IF x = h THEN NULL ELSE fd[x]
  BY DEF FioInv, TypeOK
<1>4. /\ \A x \in Entry : x # e => Opened(x)' = Opened(x)
      /\ Opened(e)' = Opened(e) \ {h} /\ h \in Opened(e)
  BY <1>1, <1>2, <1>3 DEF Opened, FioAssumption
<1>5. Users' = Users \ {h} /\ h \in Users
  BY <1>1, <1>2, <1>3 DEF Users
<1>6. Cardinality(Users)' = Cardinality(Users) - 1
  BY <1>5, OpenedFacts, FS_RemoveElement
<1>7. Cardinality(Opened(e))' = Cardinality(Opened(e)) - 1
  BY <1>4, OpenedFacts, FS_RemoveElement, <1>2
<1>8. nbOpen = Cardinality(Users) /\ \A x \in Entry : refcount[x] = Cardinality(Opened(x))
  BY <1>2 DEF FioInv, CountsExact
<1>9. \A x \in Entry : refcount'[x] = IF x = e THEN refcount[x] - 1 ELSE refcount[x]
  BY <1>1 DEF FioInv, TypeOK
<1>10. CountsExact'
  <2>1. ASSUME NEW x \in Entry PROVE refcount'[x] = Cardinality(Opened(x))'
    <3>1. CASE x = e
      BY <3>1, <1>7, <1>8, <1>9
    <3>2. CASE x # e
      BY <3>2, <1>4, <1>8, <1>9
    <3>3. QED
      BY <3>1, <3>2
  <2>2. nbOpen' = Cardinality(Users)'
    BY <1>6, <1>8
  <2>3. QED
    BY <2>1, <2>2 DEF CountsExact
<1>11. Cardinality(Users) \in Nat \ {0} /\ Cardinality(Opened(e)) \in Nat \ {0}
  BY <1>4, <1>5, <1>2, OpenedFacts
<1>12. refcount[e] = 1 <=> Opened(e)' = {}
  <2>1. Cardinality(Opened(e)') = 0 <=> Opened(e)' = {}
    BY <1>4, <1>2, OpenedFacts, CountSubset
  <2>2. Cardinality(Opened(e))' = Cardinality(Opened(e)')
    OBVIOUS
  <2>3. QED
    BY <2>1, <2>2, <1>2, <1>7, <1>8, <1>11
<1>13. LockExact'
  <2>1. \A x \in Entry : lock[x] = 0 <=> Opened(x) # {} \/ x \in task.locked
    BY <1>2 DEF FioInv, LockExact
  <2>2. lock'[e] = IF refcount[e] = 1 THEN 1 ELSE lock[e]
    BY <1>1, <1>2 DEF FioInv, TypeOK
  <2>3. lock'[e] = 0 <=> Opened(e)' # {} \/ e \in task.locked
    BY <1>2, <1>4, <1>12, <2>1, <2>2
  <2>4. \A x \in Entry : x # e => lock'[x] = lock[x]
    BY <1>1 DEF FioInv, TypeOK
  <2>5. ASSUME NEW x \in Entry
        PROVE  lock'[x] = 0 <=> Opened(x)' # {} \/ x \in task.locked
    BY <1>4, <2>1, <2>3, <2>4
  <2>6. QED
    BY <2>5 DEF LockExact
<1>14. TypeOK'
  <2>1. nbOpen' \in Nat /\ \A x \in Entry : refcount'[x] \in Nat
    <3>1. nbOpen' \in Nat
      BY <1>8, <1>11
    <3>2. ASSUME NEW x \in Entry PROVE refcount'[x] \in Nat
      BY <1>8, <1>9, <1>11 DEF FioInv, TypeOK
    <3>3. QED
      BY <3>1, <3>2
  <2>2. refcount' \in [Entry -> Nat] /\ fd' \in [Client -> Entry \cup {NULL}]
    BY <2>1 DEF FioInv, TypeOK
  <2>3. lock' \in [Entry -> 0 .. 1] /\ since' \in [Client -> 0 .. MaxEdit]
    BY DEF FioInv, TypeOK, FioAssumption
  <2>4. got' \in [Client -> File \cup {NoFile, NULL}]
    BY DEF FioInv, TypeOK
  <2>5. QED
    BY <2>1, <2>2, <2>3, <2>4 DEF FioInv, TypeOK
<1>15. OpenInv'
  BY <1>3 DEF FioInv, OpenInv, NoRead
<1>16. DiskInv' /\ TabInv' /\ TaskInv' /\ NothingFreedInUse'
  BY DEF FioInv, DiskInv, TabInv, DefaultFlagged, IndexMatches, TaskInv, NothingFreedInUse
<1>17. QED
  BY <1>10, <1>13, <1>14, <1>15, <1>16 DEF FioInv

-----------------------------------------------------------------------------
(* A step of reading or of the cache. *)
LEMMA ReadStep ==
  ASSUME FioInv, UNCHANGED <<diskVars, volVars, openVars, lock, task, trap>>, TypeOK',
         \A h \in Client :
           /\ rd'[h] # NoRead => fd[h] # NULL /\ rd'[h].at = tab[fd[h]].at
           /\ rd'[h].how = "cache" => cbuf'[rd'[h].at] # Absent
  PROVE  FioInv'
<1> USE DEF diskVars, volVars, openVars
<1>1. DiskInv' /\ TabInv' /\ TaskInv' /\ NothingFreedInUse'
  BY DEF FioInv, DiskInv, TabInv, DefaultFlagged, IndexMatches, TaskInv, NothingFreedInUse
<1>2. CountsExact' /\ LockExact'
  BY DEF FioInv, CountsExact, LockExact, Opened, Users
<1>3. OpenInv'
  BY DEF FioInv, OpenInv
<1>4. QED
  BY <1>1, <1>2, <1>3 DEF FioInv

(* A read is of the chunk of an open file. *)
LEMMA ReadChunk ==
  ASSUME FioInv, NEW h \in Client, rd[h].how # "none"
  PROVE  rd[h].at \in Chunk
<1>1. rd[h] # NoRead
  BY DEF NoRead
<1>2. fd[h] \in Entry /\ rd[h].at = tab[fd[h]].at
  BY <1>1 DEF FioInv, OpenInv, TypeOK
<1>3. QED
  BY <1>2 DEF FioInv, TypeOK, Hentry

(* What somebody waits for in the cache is referenced. *)
LEMMA ReadIsReferenced ==
  ASSUME FioInv, NEW h \in Client, rd[h].how = "cache"
  PROVE  rd[h].at \in Chunk /\ Referenced(rd[h].at)
<1>1. rd[h] \in [how : {"none", "cache", "direct"}, at : Chunk \cup {NULL}]
  BY DEF FioInv, TypeOK
<1>2. rd[h] = [how |-> "cache", at |-> rd[h].at]
  BY <1>1
<1>3. rd[h].at \in Chunk
  BY ReadChunk
<1>4. QED
  BY <1>2, <1>3 DEF Referenced

LEMMA CacheReadInv ==
  ASSUME FioInv, NEW h \in Client, CacheRead(h)
  PROVE  FioInv'
<1> USE DEF CacheRead, Sched
<1>1. PICK k \in Chunk : k = tab[fd[h]].at
  BY DEF FioInv, TypeOK, Hentry
<1>2. CASE cbuf[k] \notin {Absent, Loading}
  <2>1. got' = [got EXCEPT ![h] = cbuf[k]] /\ UNCHANGED <<rd, cbuf>>
    BY <1>1, <1>2
  <2>2. TypeOK'
    <3>1. cbuf[k] \in File \cup {NoFile}
      BY <1>2 DEF FioInv, TypeOK
    <3>2. got' \in [Client -> File \cup {NoFile, NULL}]
      BY <2>1, <3>1 DEF FioInv, TypeOK
    <3>3. QED
      BY <2>1, <3>2 DEF FioInv, TypeOK, diskVars, volVars, openVars
  <2>3. QED
    BY <2>1, <2>2, ReadStep DEF FioInv, OpenInv
<1>3. CASE cbuf[k] \in {Absent, Loading}
  <2>1. /\ rd' = [rd EXCEPT ![h] = [how |-> "cache", at |-> k]]
        /\ cbuf' = [cbuf EXCEPT ![k] = Loading] /\ got' = got
    BY <1>1, <1>3
  <2>2. TypeOK'
    <3>1. rd' \in [Client -> [how : {"none", "cache", "direct"}, at : Chunk \cup {NULL}]]
      BY <2>1 DEF FioInv, TypeOK
    <3>2. cbuf' \in [Chunk -> File \cup {NoFile, Absent, Loading}]
      BY <2>1 DEF FioInv, TypeOK
    <3>3. QED
      BY <2>1, <3>1, <3>2 DEF FioInv, TypeOK, diskVars, volVars, openVars
  <2>3. Loading # Absent
    BY DEF Loading, Absent
  <2>4. ASSUME NEW x \in Client
        PROVE  /\ rd'[x] # NoRead => fd[x] # NULL /\ rd'[x].at = tab[fd[x]].at
               /\ rd'[x].how = "cache" => cbuf'[rd'[x].at] # Absent
    <3>1. CASE x = h
      BY <3>1, <1>1, <2>1, <2>3 DEF FioInv, TypeOK
    <3>2. CASE x # h
      <4>1. rd'[x] = rd[x]
        BY <3>2, <2>1 DEF FioInv, TypeOK
      <4>2. ASSUME rd[x].how = "cache" PROVE cbuf'[rd[x].at] # Absent
        BY <2>1, <2>3, <4>2 DEF FioInv, TypeOK, OpenInv
      <4>3. QED
        BY <4>1, <4>2 DEF FioInv, OpenInv
    <3>3. QED
      BY <3>1, <3>2
  <2>5. QED
    BY <2>2, <2>4, ReadStep
<1>4. QED
  BY <1>2, <1>3

LEMMA LoadedInv ==
  ASSUME FioInv, NEW k \in Chunk, Loaded(k)
  PROVE  FioInv'
<1> USE DEF Loaded, Sched
<1>1. dat[k] \in File \cup {NoFile} /\ dat[k] # Absent
  BY DEF FioInv, TypeOK, FioAssumption
<1>2. \A c \in Chunk : cbuf'[c] = IF c = k THEN dat[k] ELSE cbuf[c]
  BY DEF FioInv, TypeOK
<1>3. cbuf' \in [Chunk -> File \cup {NoFile, Absent, Loading}]
  BY <1>1 DEF FioInv, TypeOK
<1>4. TypeOK'
  BY <1>3 DEF FioInv, TypeOK, diskVars, volVars, openVars, readVars
<1>5. rd' = rd /\ \A h \in Client : rd[h].how = "cache" => rd[h].at \in Chunk
  BY ReadChunk DEF readVars
<1>6. QED
  BY <1>1, <1>2, <1>4, <1>5, ReadStep DEF FioInv, OpenInv, readVars

LEMMA CacheReadEndInv ==
  ASSUME FioInv, NEW h \in Client, CacheReadEnd(h)
  PROVE  FioInv'
<1> USE DEF CacheReadEnd, Sched
<1>1. cbuf[rd[h].at] \in File \cup {NoFile}
  <2>1. rd[h].at \in Chunk
    BY ReadChunk
  <2>2. cbuf[rd[h].at] \notin {Absent, Loading}
    BY DEF FioInv, OpenInv
  <2>3. QED
    BY <2>1, <2>2 DEF FioInv, TypeOK
<1>2. NoRead \in [how : {"none", "cache", "direct"}, at : Chunk \cup {NULL}]
  BY DEF NoRead
<1>3. \A x \in Client : rd'[x] = IF x = h THEN NoRead ELSE rd[x]
  BY DEF FioInv, TypeOK
<1>4. TypeOK'
  <2>1. got' \in [Client -> File \cup {NoFile, NULL}]
    BY <1>1 DEF FioInv, TypeOK
  <2>2. rd' \in [Client -> [how : {"none", "cache", "direct"}, at : Chunk \cup {NULL}]]
    BY <1>2 DEF FioInv, TypeOK
  <2>3. QED
    BY <2>1, <2>2 DEF FioInv, TypeOK, diskVars, volVars, openVars
<1>5. NoRead.how # "cache"
  BY DEF NoRead
<1>6. QED
  BY <1>3, <1>4, <1>5, ReadStep DEF FioInv, OpenInv

LEMMA DirectReadInv ==
  ASSUME FioInv, NEW h \in Client, DirectRead(h)
  PROVE  FioInv'
<1> USE DEF DirectRead, Sched
<1>1. [how |-> "direct", at |-> tab[fd[h]].at]
        \in [how : {"none", "cache", "direct"}, at : Chunk \cup {NULL}]
  BY DEF FioInv, TypeOK, Hentry
<1>2. rd' \in [Client -> [how : {"none", "cache", "direct"}, at : Chunk \cup {NULL}]]
  BY <1>1 DEF FioInv, TypeOK
<1>3. TypeOK'
  BY <1>2 DEF FioInv, TypeOK, diskVars, volVars, openVars
<1>4. \A x \in Client :
        rd'[x] = IF x = h THEN [how |-> "direct", at |-> tab[fd[h]].at] ELSE rd[x]
  BY DEF FioInv, TypeOK
<1>5. QED
  BY <1>3, <1>4, ReadStep DEF FioInv, OpenInv

LEMMA DirectReadEndInv ==
  ASSUME FioInv, NEW h \in Client, DirectReadEnd(h)
  PROVE  FioInv'
<1> USE DEF DirectReadEnd, Sched
<1>1. dat[rd[h].at] \in File \cup {NoFile}
  <2>1. rd[h].at \in Chunk
    BY ReadChunk
  <2>2. QED
    BY <2>1 DEF FioInv, TypeOK
<1>2. NoRead \in [how : {"none", "cache", "direct"}, at : Chunk \cup {NULL}]
  BY DEF NoRead
<1>3. \A x \in Client : rd'[x] = IF x = h THEN NoRead ELSE rd[x]
  BY DEF FioInv, TypeOK
<1>4. TypeOK'
  <2>1. got' \in [Client -> File \cup {NoFile, NULL}]
    BY <1>1 DEF FioInv, TypeOK
  <2>2. rd' \in [Client -> [how : {"none", "cache", "direct"}, at : Chunk \cup {NULL}]]
    BY <1>2 DEF FioInv, TypeOK
  <2>3. QED
    BY <2>1, <2>2 DEF FioInv, TypeOK, diskVars, volVars, openVars
<1>5. NoRead.how # "cache"
  BY DEF NoRead
<1>6. QED
  BY <1>3, <1>4, <1>5, ReadStep DEF FioInv, OpenInv

LEMMA EvictInv ==
  ASSUME FioInv, NEW k \in Chunk, Evict(k)
  PROVE  FioInv'
<1> USE DEF Evict, Sched
<1>1. \A c \in Chunk : cbuf'[c] = IF c = k THEN Absent ELSE cbuf[c]
  BY DEF FioInv, TypeOK
<1>2. cbuf' \in [Chunk -> File \cup {NoFile, Absent, Loading}]
  BY DEF FioInv, TypeOK
<1>3. TypeOK'
  BY <1>2 DEF FioInv, TypeOK, diskVars, volVars, openVars, readVars
<1>4. ASSUME NEW h \in Client, rd'[h].how = "cache" PROVE cbuf'[rd'[h].at] # Absent
  <2>1. rd' = rd
    BY DEF readVars
  <2>2. rd[h].at \in Chunk /\ rd[h].at # k
    BY <1>4, <2>1, ReadIsReferenced
  <2>3. QED
    BY <1>1, <1>4, <2>1, <2>2 DEF FioInv, OpenInv
<1>5. QED
  BY <1>3, <1>4, ReadStep DEF FioInv, OpenInv, readVars

-----------------------------------------------------------------------------
(* reload_vol_htable.  A step of the task that leaves the volume alone.    *)
LEMMA TaskStep ==
  ASSUME FioInv, UNCHANGED <<diskVars, volVars, openVars, readVars, lock, cbuf, trap>>,
         TypeOK', TaskInv', task'.locked = task.locked,
         ~(task.op = "remount" /\ task.pc = "wait")
  PROVE  FioInv'
<1> USE DEF diskVars, volVars, openVars, readVars
<1>1. DiskInv' /\ TabInv' /\ NothingFreedInUse'
  BY DEF FioInv, DiskInv, TabInv, DefaultFlagged, IndexMatches, NothingFreedInUse
<1>2. CountsExact' /\ LockExact'
  BY DEF FioInv, CountsExact, LockExact, Opened, Users
<1>3. OpenInv'
  BY DEF FioInv, OpenInv
<1>4. QED
  BY <1>1, <1>2, <1>3 DEF FioInv

LEMMA NoTaskOK ==
  /\ NoTask \in [op : {"none", "remount", "umount"},
                 pc : {"idle", "read", "entry", "wait", "lock", "close"},
                 e : 0 .. NbEntry + PerChunk, buf : [Entry -> Hentry] \cup {<< >>},
                 locked : SUBSET Entry, since : 0 .. MaxEdit]
  /\ NoTask.op = "none" /\ NoTask.pc = "idle" /\ NoTask.locked = {}
BY DEF NoTask, FioAssumption

LEMMA RemountBeginInv ==
  ASSUME FioInv, RemountBegin
  PROVE  FioInv'
<1> USE DEF RemountBegin, Sched
<1>1. 1 \in 0 .. NbEntry + PerChunk /\ 1 \in 1 .. NbEntry + 1
  BY DEF FioAssumption
<1>2. /\ task'.op = "remount" /\ task'.pc = "read" /\ task'.e = 1
      /\ task'.locked = {} /\ task'.buf = << >> /\ task'.since = edits
  BY DEF NoTask
<1>3. task' \in [op : {"none", "remount", "umount"},
                 pc : {"idle", "read", "entry", "wait", "lock", "close"},
                 e : 0 .. NbEntry + PerChunk, buf : [Entry -> Hentry] \cup {<< >>},
                 locked : SUBSET Entry, since : 0 .. MaxEdit]
  BY <1>1, NoTaskOK DEF FioInv, TypeOK
<1>4. TypeOK'
  BY <1>3 DEF FioInv, TypeOK, diskVars, volVars, openVars, readVars
<1>5. TaskInv'
  BY <1>1, <1>2 DEF TaskInv, volVars
<1>6. QED
  BY <1>2, <1>4, <1>5, TaskStep, NoTaskOK

LEMMA RemountReadInv ==
  ASSUME FioInv, RemountRead
  PROVE  FioInv'
<1> USE DEF RemountRead, Sched
<1>1. CASE task' = NoTask
  <2>1. TypeOK'
    BY <1>1, NoTaskOK DEF FioInv, TypeOK, diskVars, volVars, openVars, readVars
  <2>2. TaskInv'
    BY <1>1, NoTaskOK DEF TaskInv
  <2>3. task'.locked = task.locked
    BY <1>1, NoTaskOK DEF FioInv, TaskInv
  <2>4. QED
    BY <2>1, <2>2, <2>3, TaskStep
<1>2. CASE task' = [task EXCEPT !.pc = "entry", !.buf = dtab]
  <2>1. /\ task'.op = "remount" /\ task'.pc = "entry" /\ task'.e = task.e
        /\ task'.locked = task.locked /\ task'.buf = dtab
    BY <1>2 DEF FioInv, TypeOK
  <2>2. task' \in [op : {"none", "remount", "umount"},
                   pc : {"idle", "read", "entry", "wait", "lock", "close"},
                   e : 0 .. NbEntry + PerChunk, buf : [Entry -> Hentry] \cup {<< >>},
                   locked : SUBSET Entry, since : 0 .. MaxEdit]
    BY <1>2 DEF FioInv, TypeOK
  <2>3. TypeOK'
    BY <2>2 DEF FioInv, TypeOK, diskVars, volVars, openVars, readVars
  <2>4. TaskInv'
    BY <2>1 DEF FioInv, TaskInv, TypeOK, DiskInv, volVars
  <2>5. QED
    BY <2>1, <2>3, <2>4, TaskStep
<1>3. QED
  BY <1>1, <1>2

LEMMA AfterEntryOK ==
  ASSUME FioInv, task.op = "remount", task.pc # "read", task.e \in Entry
  PROVE  /\ AfterEntry \in [op : {"none", "remount", "umount"},
                            pc : {"idle", "read", "entry", "wait", "lock", "close"},
                            e : 0 .. NbEntry + PerChunk,
                            buf : [Entry -> Hentry] \cup {<< >>},
                            locked : SUBSET Entry, since : 0 .. MaxEdit]
         /\ AfterEntry.locked = {} /\ AfterEntry.pc \in {"idle", "read", "entry"}
         /\ \/ AfterEntry = NoTask
            \/ /\ AfterEntry.op = "remount" /\ AfterEntry.pc # "idle"
               /\ AfterEntry.e \in 1 .. NbEntry + 1 /\ AfterEntry.buf = task.buf
<1>1. CASE AfterEntry = NoTask
  BY <1>1, NoTaskOK
<1>2. CASE AfterEntry # NoTask
  <2>1. task.e + 1 \in 1 .. NbEntry + 1 /\ task.e + 1 \in 0 .. NbEntry + PerChunk
    BY DEF Entry, FioAssumption
  <2>2. PICK pc \in {"read", "entry"} :
          AfterEntry = [task EXCEPT !.e = task.e + 1, !.pc = pc]
    BY <1>2 DEF AfterEntry
  <2>3. task.locked = {}
    BY DEF FioInv, TaskInv
  <2>4. AfterEntry \in [op : {"none", "remount", "umount"},
                        pc : {"idle", "read", "entry", "wait", "lock", "close"},
                        e : 0 .. NbEntry + PerChunk,
                        buf : [Entry -> Hentry] \cup {<< >>},
                        locked : SUBSET Entry, since : 0 .. MaxEdit]
    BY <2>1, <2>2 DEF FioInv, TypeOK
  <2>5. /\ AfterEntry.op = "remount" /\ AfterEntry.pc = pc /\ AfterEntry.locked = {}
        /\ AfterEntry.e = task.e + 1 /\ AfterEntry.buf = task.buf
    BY <2>2, <2>3 DEF FioInv, TypeOK
  <2>6. QED
    BY <2>1, <2>4, <2>5
<1>3. QED
  BY <1>1, <1>2

(* An entry is updated while the task has its lock. *)
LEMMA UpdateEntryInv ==
  ASSUME FioInv, NEW e \in Entry, NEW n \in Hentry, e = task.e, n = task.buf[e],
         trap = "no", task.op = "remount", task.pc # "read", MayLock(e),
         UpdateEntry(e, n), task' = AfterEntry,
         hash' \in [Entry -> File \cup {NoFile}],
         \A x \in Entry : hash'[x] = IF x = e THEN n.file ELSE hash[x],
         UNCHANGED <<diskVars, mounted, openVars, readVars, trap>>
  PROVE  FioInv'
<1> USE DEF UpdateEntry, MayLock, diskVars, openVars, readVars
<1>1. /\ \A x \in Entry : /\ tab'[x] = (IF x = e THEN n ELSE tab[x])
                          /\ update'[x] = (IF x = e THEN FALSE ELSE update[x])
      /\ lock' = lock
  BY DEF FioInv, TypeOK
<1>2. mounted /\ Opened(e) = {} /\ task.locked = {}
  BY DEF FioInv, LockExact, TaskInv
<1>3. \A h \in Client : fd[h] # e
  BY <1>2 DEF Opened
<1>4. def' \in Entry \cup {NULL} /\ (def' # NULL => tab'[def'].def)
  <2>1. CASE n.def
    BY <1>1, <2>1 DEF NewDefault
  <2>2. CASE ~n.def
    <3>1. def' = IF def = e THEN NULL ELSE def
      BY <2>2 DEF NewDefault
    <3>2. QED
      BY <1>1, <3>1 DEF FioInv, TypeOK, TabInv, DefaultFlagged
  <2>3. QED
    BY <2>1, <2>2
<1>5. TypeOK'
  <2>1. tab' \in [Entry -> Hentry] /\ update' \in [Entry -> BOOLEAN]
    BY DEF FioInv, TypeOK
  <2>2. cbuf' \in [Chunk -> File \cup {NoFile, Absent, Loading}]
    BY DEF FioInv, TypeOK, Flushed
  <2>3. QED
    BY <1>1, <1>4, <2>1, <2>2, AfterEntryOK, SMTT(30) DEF FioInv, TypeOK
<1>6. DiskInv' /\ NothingFreedInUse'
  BY DEF FioInv, DiskInv, NothingFreedInUse
<1>7. n.def => n.file # NoFile
  BY DEF FioInv, TaskInv
<1>8. TabInv'
  <2>1. \A x \in Entry : tab'[x].def => tab'[x].file # NoFile
    BY <1>1, <1>7 DEF FioInv, TabInv
  <2>2. ASSUME NEW x \in Entry, hash'[x] # tab'[x].file PROVE update'[x]
    <3>1. x # e
      <4>1. hash'[e] = n.file /\ tab'[e] = n
        BY <1>1
      <4>2. QED
        BY <2>2, <4>1
    <3>2. hash[x] # tab[x].file /\ update'[x] = update[x]
      BY <1>1, <2>2, <3>1
    <3>3. QED
      BY <3>2 DEF FioInv, TabInv, IndexMatches
  <2>3. QED
    BY <1>4, <2>1, <2>2 DEF TabInv, DefaultFlagged, IndexMatches
<1>9. TaskInv'
  <2>1. task'.locked = {} /\ task'.op # "umount" /\ task'.pc # "wait"
    BY AfterEntryOK, NoTaskOK
  <2>2. task'.op = "remount" => /\ task'.pc \in {"read", "entry"}
                                /\ task'.e \in 1 .. NbEntry + 1 /\ task'.buf = task.buf
    BY AfterEntryOK, NoTaskOK
  <2>3. task'.op = "none" => task' = NoTask
    BY AfterEntryOK
  <2>4. /\ task.buf \in [Entry -> Hentry]
        /\ \A x \in Entry : task.buf[x].def => task.buf[x].file # NoFile
    BY DEF FioInv, TaskInv
  <2>5. QED
    BY <1>2, <2>1, <2>2, <2>3, <2>4 DEF TaskInv
<1>10. OpenInv'
  <2>1. ASSUME NEW h \in Client, fd[h] # NULL
        PROVE  fd[h] \in Entry /\ hash[fd[h]] # NoFile /\ tab[fd[h]].file # NoFile
    BY <1>3, <2>1 DEF FioInv, TypeOK, OpenInv
  <2>2. ASSUME NEW h \in Client, rd[h].how = "cache" PROVE cbuf'[rd[h].at] # Absent
    BY <2>2, ReadIsReferenced DEF Flushed, FioInv, OpenInv
  <2>3. task'.locked = {}
    BY AfterEntryOK
  <2>4. ASSUME NEW h \in Client, fd[h] # NULL PROVE hash'[fd[h]] = hash[fd[h]] /\ tab'[fd[h]] = tab[fd[h]]
    BY <1>1, <1>3, <2>1, <2>4
  <2>5. QED
    BY <1>2, <2>1, <2>2, <2>3, <2>4 DEF FioInv, OpenInv
<1>11. CountsExact'
  BY DEF FioInv, CountsExact, Opened, Users
<1>12. LockExact'
  <2>1. task'.locked = {}
    BY AfterEntryOK
  <2>2. QED
    BY <1>1, <1>2, <2>1 DEF FioInv, LockExact, Opened
<1>13. QED
  BY <1>5, <1>6, <1>8, <1>9, <1>10, <1>11, <1>12 DEF FioInv

LEMMA RemountWakeInv ==
  ASSUME FioInv, RemountWake
  PROVE  FioInv'
<1>1. /\ task.e \in Entry /\ task.buf[task.e] \in Hentry
      /\ hash[task.e] = task.buf[task.e].file
  BY DEF RemountWake, FioInv, TaskInv
<1>2. hash' = hash /\ hash \in [Entry -> File \cup {NoFile}]
  BY DEF RemountWake, FioInv, TypeOK
<1>3. QED
  BY <1>1, <1>2, UpdateEntryInv DEF RemountWake, Sched

(* An entry whose file is open is waited for, with the new digest in the   *)
(* bucket.                                                                 *)
LEMMA RemountEntryInv ==
  ASSUME FioInv, RemountEntry
  PROVE  FioInv'
<1> USE DEF RemountEntry
<1>1. CASE task.e \notin Entry
  <2>1. /\ trap' = "assert" /\ UNCHANGED <<volVars, lock, cbuf, task>>
        /\ UNCHANGED <<diskVars, openVars, readVars>>
    BY <1>1
  <2>2. QED
    BY <2>1 DEF FioInv, TypeOK, DiskInv, TabInv, DefaultFlagged, IndexMatches, TaskInv,
                OpenInv, CountsExact, LockExact, NothingFreedInUse, Opened, Users,
                diskVars, volVars, openVars, readVars
<1>2. CASE task.e \in Entry
  <2>1. PICK e \in Entry, n \in Hentry : e = task.e /\ n = task.buf[e]
    BY <1>2 DEF FioInv, TaskInv
  <2>2. /\ hash' \in [Entry -> File \cup {NoFile}]
        /\ \A x \in Entry : hash'[x] = IF x = e THEN n.file ELSE hash[x]
    <3>1. hash' = [hash EXCEPT ![e] = n.file]
      BY <1>2, <2>1 DEF Feed
    <3>2. QED
      BY <3>1 DEF FioInv, TypeOK, Hentry
  <2>3. UNCHANGED <<diskVars, mounted, openVars, readVars, trap>>
    BY <1>2
  <2>4. CASE MayLock(e)
    <3>1. UpdateEntry(e, n) /\ task' = AfterEntry
      BY <1>2, <2>1, <2>4
    <3>2. QED
      BY <2>1, <2>2, <2>3, <2>4, <3>1, UpdateEntryInv
  <2>5. CASE ~MayLock(e)
    <3> USE DEF diskVars, openVars, readVars
    <3>1. /\ update' = [update EXCEPT ![e] = TRUE]
          /\ task' = [task EXCEPT !.pc = "wait"]
          /\ UNCHANGED <<def, tab, lock, cbuf>>
      BY <1>2, <2>1, <2>5
    <3>2. /\ task'.op = "remount" /\ task'.pc = "wait" /\ task'.e = task.e
          /\ task'.buf = task.buf /\ task'.locked = task.locked
      BY <3>1 DEF FioInv, TypeOK
    <3>3. TypeOK'
      <4>1. task' \in [op : {"none", "remount", "umount"},
                       pc : {"idle", "read", "entry", "wait", "lock", "close"},
                       e : 0 .. NbEntry + PerChunk, buf : [Entry -> Hentry] \cup {<< >>},
                       locked : SUBSET Entry, since : 0 .. MaxEdit]
        BY <3>1 DEF FioInv, TypeOK
      <4>2. update' \in [Entry -> BOOLEAN]
        BY <3>1 DEF FioInv, TypeOK
      <4>3. QED
        BY <2>2, <2>3, <3>1, <4>1, <4>2 DEF FioInv, TypeOK
    <3>4. TabInv'
      <4>1. ASSUME NEW x \in Entry, hash'[x] # tab'[x].file PROVE update'[x]
        <5>1. CASE x = e
          BY <3>1, <5>1 DEF FioInv, TypeOK
        <5>2. CASE x # e
          <6>1. hash[x] # tab[x].file /\ update'[x] = update[x]
            BY <2>2, <3>1, <4>1, <5>2 DEF FioInv, TypeOK
          <6>2. QED
            BY <6>1 DEF FioInv, TabInv, IndexMatches
        <5>3. QED
          BY <5>1, <5>2
      <4>2. QED
        BY <3>1, <4>1 DEF FioInv, TabInv, DefaultFlagged, IndexMatches
    <3>5. TaskInv'
      BY <1>2, <2>1, <2>2, <2>3, <3>2 DEF FioInv, TaskInv
    <3>6. OpenInv'
      <4>1. ASSUME NEW h \in Client, fd[h] # NULL
            PROVE  hash'[fd[h]] # NoFile \/ task'.e = fd[h]
        <5>1. fd[h] \in Entry /\ hash[fd[h]] # NoFile
          BY <4>1 DEF FioInv, TypeOK, OpenInv
        <5>2. QED
          BY <2>1, <2>2, <3>2, <5>1
      <4>2. QED
        BY <2>3, <3>1, <3>2, <4>1 DEF FioInv, OpenInv
    <3>7. DiskInv' /\ NothingFreedInUse' /\ CountsExact' /\ LockExact'
      BY <2>3, <3>1, <3>2 DEF FioInv, DiskInv, NothingFreedInUse, CountsExact, LockExact,
                              Opened, Users
    <3>8. QED
      BY <3>3, <3>4, <3>5, <3>6, <3>7 DEF FioInv
  <2>6. QED
    BY <2>4, <2>5
<1>3. QED
  BY <1>1, <1>2

-----------------------------------------------------------------------------
(* shfs_umount and shfs_umount_force.  The volume is freed when nobody has *)
(* a file open.                                                            *)
LEMMA FreeInv ==
  ASSUME FioInv, trap = "no", \A h \in Client : fd[h] = NULL, Free,
         UNCHANGED <<diskVars, def, hash, tab, update, openVars, readVars, lock>>
  PROVE  FioInv'
<1> USE DEF diskVars, openVars, readVars
<1>1. \A h \in Client : rd[h] = NoRead
  BY DEF FioInv, OpenInv
<1>2. /\ mounted' = FALSE /\ cbuf' = [k \in Chunk |-> Absent] /\ trap' = trap
      /\ task' = [NoTask EXCEPT !.op = "umount", !.pc = "close"]
  BY <1>1 DEF Free
<1>3. task'.op = "umount" /\ task'.pc = "close" /\ task'.locked = {}
  BY <1>2 DEF NoTask
<1>4. TypeOK'
  <2>1. task' \in [op : {"none", "remount", "umount"},
                   pc : {"idle", "read", "entry", "wait", "lock", "close"},
                   e : 0 .. NbEntry + PerChunk, buf : [Entry -> Hentry] \cup {<< >>},
                   locked : SUBSET Entry, since : 0 .. MaxEdit]
    BY <1>2, NoTaskOK
  <2>2. QED
    BY <1>2, <2>1 DEF FioInv, TypeOK
<1>5. DiskInv' /\ TabInv' /\ NothingFreedInUse'
  BY <1>2 DEF FioInv, DiskInv, TabInv, DefaultFlagged, IndexMatches, NothingFreedInUse
<1>6. TaskInv'
  BY <1>2, <1>3 DEF TaskInv
<1>7. OpenInv'
  BY <1>1 DEF OpenInv, NoRead
<1>8. CountsExact' /\ LockExact'
  BY <1>2 DEF CountsExact, LockExact
<1>9. QED
  BY <1>4, <1>5, <1>6, <1>7, <1>8 DEF FioInv

LEMMA UmountBeginInv ==
  ASSUME FioInv, NEW force \in BOOLEAN, UmountBegin(force)
  PROVE  FioInv'
<1> USE DEF UmountBegin, Sched
<1>1. CASE ~Busy /\ Free
  <2>1. nbOpen = 0 /\ mounted
    BY <1>1 DEF Busy, FioInv, TypeOK
  <2>2. Users = {}
    BY <2>1, OpenedFacts DEF FioInv, CountsExact
  <2>3. QED
    BY <1>1, <2>2, FreeInv DEF Users
<1>2. CASE /\ task' = [NoTask EXCEPT !.op = "umount", !.pc = "lock"]
           /\ UNCHANGED <<mounted, cbuf, trap>>
  <2>1. task'.op = "umount" /\ task'.pc = "lock" /\ task'.locked = {}
    BY <1>2 DEF NoTask
  <2>2. TypeOK'
    <3>1. task' \in [op : {"none", "remount", "umount"},
                     pc : {"idle", "read", "entry", "wait", "lock", "close"},
                     e : 0 .. NbEntry + PerChunk, buf : [Entry -> Hentry] \cup {<< >>},
                     locked : SUBSET Entry, since : 0 .. MaxEdit]
      BY <1>2, NoTaskOK
    <3>2. QED
      BY <1>2, <3>1 DEF FioInv, TypeOK, diskVars, openVars, readVars
  <2>3. TaskInv'
    BY <1>2, <2>1 DEF TaskInv
  <2>4. QED
    BY <1>2, <2>1, <2>2, <2>3, TaskStep, NoTaskOK DEF volVars
<1>3. QED
  BY <1>1, <1>2

LEMMA UmountLockInv ==
  ASSUME FioInv, UmountLock
  PROVE  FioInv'
<1> USE DEF Sched, diskVars, openVars, readVars
<1>1. PICK e \in Listed \ task.locked :
        /\ update' = [update EXCEPT ![e] = TRUE]
        /\ IF MayLock(e)
           THEN lock' = [lock EXCEPT ![e] = 0] /\ task' = [task EXCEPT !.locked = @ \cup {e}]
           ELSE ~update[e] /\ UNCHANGED <<lock, task>>
  BY DEF UmountLock
<1>2. e \in Entry /\ mounted /\ task.op = "umount" /\ task.pc = "lock" /\ trap = "no"
  BY DEF Listed, UmountLock, FioInv, TaskInv
<1>3. UNCHANGED <<diskVars, mounted, def, hash, tab, openVars, readVars, cbuf, trap>>
  BY DEF UmountLock
<1>4. update' \in [Entry -> BOOLEAN]
  BY <1>1 DEF FioInv, TypeOK
<1>5. \A x \in Entry : update[x] => update'[x]
  BY <1>1 DEF FioInv, TypeOK
<1>6. update'[e]
  BY <1>1, <1>2 DEF FioInv, TypeOK
<1>7. TabInv' /\ DiskInv' /\ NothingFreedInUse' /\ CountsExact'
  BY <1>3, <1>5 DEF FioInv, TabInv, DefaultFlagged, IndexMatches, DiskInv,
                    NothingFreedInUse, CountsExact, Opened, Users
<1>8. CASE MayLock(e)
  <2>1. lock' = [lock EXCEPT ![e] = 0] /\ task' = [task EXCEPT !.locked = @ \cup {e}]
    BY <1>1, <1>8
  <2>2. /\ task'.op = task.op /\ task'.pc = task.pc
        /\ task'.locked = task.locked \cup {e}
    BY <2>1 DEF FioInv, TypeOK
  <2>3. Opened(e) = {}
    BY <1>2, <1>8 DEF MayLock, FioInv, LockExact
  <2>4. TypeOK'
    <3>1. task' \in [op : {"none", "remount", "umount"},
                     pc : {"idle", "read", "entry", "wait", "lock", "close"},
                     e : 0 .. NbEntry + PerChunk, buf : [Entry -> Hentry] \cup {<< >>},
                     locked : SUBSET Entry, since : 0 .. MaxEdit]
      BY <1>2, <2>1 DEF FioInv, TypeOK
    <3>2. lock' \in [Entry -> 0 .. 1]
      <4>1. lock \in [Entry -> 0 .. 1]
        BY DEF FioInv, TypeOK
      <4>2. QED
        BY <1>2, <2>1, <4>1
    <3>3. QED
      BY <1>3, <1>4, <3>1, <3>2 DEF FioInv, TypeOK
  <2>5. TaskInv'
    <3>1. \A x \in task'.locked : update'[x]
      BY <1>5, <1>6, <2>2 DEF FioInv, TypeOK, TaskInv
    <3>2. QED
      BY <1>2, <1>3, <2>2, <3>1 DEF TaskInv
  <2>6. OpenInv'
    BY <1>2, <1>3, <2>2, <2>3 DEF FioInv, OpenInv, Opened
  <2>7. LockExact'
    BY <1>2, <1>3, <2>1, <2>2 DEF FioInv, TypeOK, LockExact, Opened
  <2>8. QED
    BY <1>7, <2>4, <2>5, <2>6, <2>7 DEF FioInv
<1>9. CASE ~MayLock(e)
  <2>1. UNCHANGED <<lock, task>>
    BY <1>1, <1>9
  <2>2. TypeOK' /\ OpenInv' /\ LockExact'
    BY <1>3, <1>4, <2>1 DEF FioInv, TypeOK, OpenInv, LockExact, Opened
  <2>3. TaskInv'
    BY <1>2, <1>3, <1>5, <2>1 DEF FioInv, TypeOK, TaskInv
  <2>4. QED
    BY <1>7, <2>2, <2>3 DEF FioInv
<1>10. QED
  BY <1>8, <1>9

(* With every listed entry locked nobody has a file open. *)
LEMMA UmountFreeInv ==
  ASSUME FioInv, UmountFree
  PROVE  FioInv'
<1> USE DEF UmountFree, Sched
<1>1. ASSUME NEW h \in Client, fd[h] # NULL PROVE FALSE
  <2>1. fd[h] \in Entry /\ hash[fd[h]] # NoFile /\ fd[h] \notin task.locked
    BY <1>1 DEF FioInv, TypeOK, OpenInv
  <2>2. QED
    BY <2>1 DEF Listed
<1>2. QED
  BY <1>1, FreeInv

LEMMA UmountEndInv ==
  ASSUME FioInv, UmountEnd
  PROVE  FioInv'
<1> USE DEF UmountEnd, Sched
<1>1. TypeOK'
  BY NoTaskOK DEF FioInv, TypeOK, diskVars, volVars, openVars, readVars
<1>2. TaskInv'
  BY NoTaskOK DEF TaskInv
<1>3. task'.locked = task.locked
  BY NoTaskOK DEF FioInv, TaskInv
<1>4. QED
  BY <1>1, <1>2, <1>3, TaskStep

(* mount_shfs. *)
LEMMA MountInv ==
  ASSUME FioInv, Mount
  PROVE  FioInv'
<1> USE DEF Mount, Load, Sched, diskVars
<1>1. \A h \in Client : fd'[h] = NULL /\ rd'[h] = NoRead
  BY DEF FioInv, OpenInv, readVars
<1>2. def' \in Entry \cup {NULL} /\ (def' # NULL => tab'[def'].def)
  BY DefaultOfFlagged DEF FioInv, TypeOK, DiskInv
<1>3. TypeOK'
  <2>1. hash' \in [Entry -> File \cup {NoFile}]
    BY DEF FioInv, TypeOK, Hentry
  <2>2. QED
    BY <1>2, <2>1 DEF FioInv, TypeOK, readVars
<1>4. DiskInv' /\ NothingFreedInUse' /\ TaskInv'
  BY NoTaskOK DEF FioInv, DiskInv, NothingFreedInUse, TaskInv
<1>5. TabInv'
  BY <1>2 DEF FioInv, DiskInv, TabInv, DefaultFlagged, IndexMatches
<1>6. OpenInv'
  BY <1>1 DEF OpenInv, NoRead
<1>7. Users' = {} /\ \A e \in Entry : Opened(e)' = {}
  BY <1>1 DEF Users, Opened, FioAssumption
<1>8. CountsExact'
  <2>1. Cardinality({}) = 0
    BY FS_EmptySet
  <2>2. Cardinality(Users)' = 0 /\ \A e \in Entry : Cardinality(Opened(e))' = 0
    BY <1>7, <2>1
  <2>3. QED
    BY <2>2 DEF CountsExact
<1>9. LockExact'
  BY <1>7, NoTaskOK DEF LockExact
<1>10. QED
  BY <1>3, <1>4, <1>5, <1>6, <1>8, <1>9 DEF FioInv

-----------------------------------------------------------------------------
(* Every step of the system, with its stuttering. *)
LEMMA NextFioInv ==
  ASSUME FioInv, ~RmDefault, [Next]_vars
  PROVE  FioInv'
<1>1. CASE UNCHANGED vars
  BY <1>1 DEF vars, diskVars, volVars, openVars, readVars, FioInv, TypeOK, DiskInv, TabInv,
              DefaultFlagged, IndexMatches, TaskInv, OpenInv, CountsExact, LockExact,
              NothingFreedInUse, Opened, Users
<1>2. ASSUME NEW e \in Entry, NEW f \in File, NEW k \in Chunk, AddFile(e, f, k)
      PROVE  FioInv'
  BY <1>2, AddFileInv
<1>3. ASSUME NEW e \in Entry, RmFile(e) PROVE FioInv'
  BY <1>3, RmFileInv
<1>4. ASSUME NEW e \in Entry \cup {NULL}, SetDefault(e) PROVE FioInv'
  BY <1>4, SetDefaultInv
<1>5. ASSUME NEW h \in Client, NEW f \in File, OpenHash(h, f) \/ OpenName(h, f)
      PROVE  FioInv'
  BY <1>5, OpenHashInv, OpenNameInv
<1>6. ASSUME NEW h \in Client, NEW g \in Client, Openf(h, g) PROVE FioInv'
  BY <1>6, OpenfInv
<1>7. ASSUME NEW h \in Client,
             OpenDefault(h) \/ Close(h) \/ CacheRead(h) \/ DirectRead(h) \/ Reading(h)
      PROVE  FioInv'
  BY <1>7, OpenDefaultInv, CloseInv, CacheReadInv, DirectReadInv, CacheReadEndInv,
     DirectReadEndInv DEF Reading
<1>8. ASSUME NEW k \in Chunk, Loaded(k) \/ Evict(k) PROVE FioInv'
  BY <1>8, LoadedInv, EvictInv
<1>9. CASE RemountBegin \/ Remounting
  BY <1>9, RemountBeginInv, RemountReadInv, RemountEntryInv, RemountWakeInv DEF Remounting
<1>10. ASSUME NEW force \in BOOLEAN, UmountBegin(force) PROVE FioInv'
  BY <1>10, UmountBeginInv
<1>11. CASE Umounting \/ Mount
  BY <1>11, UmountLockInv, UmountFreeInv, UmountEndInv, MountInv DEF Umounting
<1>12. QED
  BY <1>1, <1>2, <1>3, <1>4, <1>5, <1>6, <1>7, <1>8, <1>9, <1>10, <1>11 DEF Next

(* The inductive invariant of open files, remount and umount, where the    *)
(* default file is never removed.                                          *)
THEOREM FioSafe == ASSUME ~RmDefault PROVE Spec => []FioInv
<1>1. Init => FioInv
  BY InitFioInv
<1>2. FioInv /\ [Next]_vars => FioInv'
  BY NextFioInv
<1>3. QED
  BY <1>1, <1>2, PTL DEF Spec

(* The variables stay in their types. *)
THEOREM FioTypes == ASSUME ~RmDefault PROVE Spec => []TypeOK
<1>1. FioInv => TypeOK
  BY DEF FioInv
<1>2. QED
  BY <1>1, FioSafe, PTL

(* nb_open and every refcount are the numbers of descriptors, whatever     *)
(* order of opens, clones, closes, remounts and mounts led there.          *)
THEOREM CountsAreExact == ASSUME ~RmDefault PROVE Spec => []CountsExact
<1>1. FioInv => CountsExact
  BY DEF FioInv
<1>2. QED
  BY <1>1, FioSafe, PTL

(* An updatelock is held exactly by the descriptors of its entry or by a   *)
(* forced umount: a remount never updates an entry that is in use.         *)
THEOREM LocksAreExact == ASSUME ~RmDefault PROVE Spec => []LockExact
<1>1. FioInv => LockExact
  BY DEF FioInv
<1>2. QED
  BY <1>1, FioSafe, PTL

(* The digests in the bucket table and in the buffered hash table differ   *)
(* only where the update flag keeps the entry from being opened.           *)
THEOREM IndexAgrees == ASSUME ~RmDefault PROVE Spec => []IndexMatches
<1>1. FioInv => IndexMatches
  BY DEF FioInv, TabInv
<1>2. QED
  BY <1>1, FioSafe, PTL

(* shfs_umount, forced or not, leaves no descriptor and no read behind.    *)
THEOREM UmountIsSafe == ASSUME ~RmDefault PROVE Spec => []UnmountedIsUnused
<1>1. FioInv => UnmountedIsUnused
  BY DEF FioInv, OpenInv, UnmountedIsUnused
<1>2. QED
  BY <1>1, FioSafe, PTL

(* No chunk of the hash table is freed, by an umount or by a mount that    *)
(* follows it, while somebody uses it.                                     *)
THEOREM FreesNothingInUse == ASSUME ~RmDefault PROVE Spec => []NothingFreedInUse
<1>1. FioInv => NothingFreedInUse
  BY DEF FioInv
<1>2. QED
  BY <1>1, FioSafe, PTL

-----------------------------------------------------------------------------
(* "Any open file should not be affected" by a remount: an entry is updated *)
(* only while its lock is free, and by LockExact nobody has it open then.  *)
LEMMA UpdatesUnopened ==
  ASSUME FioInv, [Next]_vars, NEW h \in Client, fd[h] # NULL, fd'[h] = fd[h]
  PROVE  tab'[fd[h]] = tab[fd[h]]
<1> SUFFICES ASSUME tab' # tab PROVE tab'[fd[h]] = tab[fd[h]]
  OBVIOUS
<1>1. fd[h] \in Entry /\ mounted /\ tab \in [Entry -> Hentry]
  BY DEF FioInv, TypeOK, OpenInv
<1>2. PICK e \in Entry : MayLock(e) /\ \E n : tab' = [tab EXCEPT ![e] = n]
  <2>1. Remounting \/ Mount
    BY DEF Next, vars, diskVars, volVars, openVars, readVars, AddFile, RmFile, SetDefault,
           Edit, OpenHash, OpenName, OpenDefault, Openf, Opens, Close, CacheRead, DirectRead,
           Reading, CacheReadEnd, DirectReadEnd, Loaded, Evict, RemountBegin, UmountBegin,
           Umounting, UmountLock, UmountFree, UmountEnd
  <2>2. ~Mount /\ ~RemountRead
    BY <1>1 DEF Mount, RemountRead, volVars
  <2>3. CASE RemountEntry
    BY <2>3 DEF RemountEntry, UpdateEntry, volVars
  <2>4. CASE RemountWake
    BY <2>4 DEF RemountWake, UpdateEntry, FioInv, TaskInv
  <2>5. QED
    BY <2>1, <2>2, <2>3, <2>4 DEF Remounting
<1>3. Opened(e) = {}
  BY <1>1, <1>2 DEF MayLock, FioInv, LockExact
<1>4. fd[h] # e
  BY <1>3 DEF Opened
<1>5. QED
  BY <1>1, <1>2, <1>4

(* The meta data of a file does not change while it is open. *)
THEOREM OpenFilesAreStable == ASSUME ~RmDefault PROVE Spec => OpenIsStable
<1>1. FioInv /\ [Next]_vars =>
        [\A h \in Client : fd[h] # NULL /\ fd'[h] = fd[h] => tab'[fd[h]] = tab[fd[h]]]_vars
  BY UpdatesUnopened
<1>2. QED
  BY <1>1, FioSafe, PTL DEF Spec, OpenIsStable

(* Whatever shfs_fio_open opens has contents: the steps that open a file   *)
(* leave the table alone, and an open file has a digest.                   *)
THEOREM OnlyObjectsOpen == ASSUME ~RmDefault PROVE Spec => OpensObject
<1>1. ASSUME FioInv, FioInv', [Next]_vars, NEW h \in Client, fd[h] = NULL, fd'[h] # NULL
      PROVE  tab[fd'[h]].file # NoFile
  <2>1. tab' = tab
    <3>1. fd' # fd
      BY <1>1
    <3>2. ~Mount /\ ~Remounting
      BY <3>1 DEF Mount, Remounting, RemountRead, RemountEntry, RemountWake, openVars
    <3>3. QED
      BY <1>1, <3>2
      DEF Next, vars, diskVars, volVars, openVars, readVars, AddFile, RmFile, SetDefault,
          Edit, OpenHash, OpenName, OpenDefault, Openf, Opens, Close, CacheRead, DirectRead,
          Reading, CacheReadEnd, DirectReadEnd, Loaded, Evict, RemountBegin, UmountBegin,
          Umounting, UmountLock, UmountFree, UmountEnd
  <2>2. tab'[fd'[h]].file # NoFile
    BY <1>1 DEF FioInv, OpenInv
  <2>3. QED
    BY <2>1, <2>2
<1>2. FioInv /\ FioInv' /\ [Next]_vars =>
        [\A h \in Client : fd[h] = NULL /\ fd'[h] # NULL => tab[fd'[h]].file # NoFile]_vars
  BY <1>1
<1>3. QED
  BY <1>2, FioSafe, PTL DEF Spec, OpensObject

(* shfs_fio_read returns what is on the volume, if the volume in memory    *)
(* knows of the latest edit: what it reads is the chunk of the open file.  *)
THEOREM DirectReadsAreFresh == ASSUME ~RmDefault PROVE Spec => DirectReadFresh
<1>1. ASSUME FioInv, [Next]_vars, NEW h \in Client,
             rd[h].how = "direct", rd'[h] = NoRead, Current(h)
      PROVE  got'[h] = tab[fd[h]].file
  <2>1. DirectReadEnd(h)
    <3>1. rd'[h] # rd[h] /\ rd[h] # NoRead
      BY <1>1 DEF NoRead
    <3>2. PICK x \in Client : CacheRead(x) \/ DirectRead(x) \/ Reading(x)
      BY <1>1, <3>1
      DEF Next, vars, diskVars, volVars, openVars, readVars, AddFile, RmFile, SetDefault,
          Edit, OpenHash, OpenName, OpenDefault, Openf, Opens, Close, Loaded, Evict,
          RemountBegin, Remounting, RemountRead, RemountEntry, RemountWake, UmountBegin,
          Umounting, UmountLock, UmountFree, UmountEnd, Mount
    <3>3. rd \in [Client -> [how : {"none", "cache", "direct"}, at : Chunk \cup {NULL}]]
      BY <1>1 DEF FioInv, TypeOK
    <3>4. x = h
      BY <3>1, <3>2, <3>3 DEF CacheRead, DirectRead, Reading, CacheReadEnd, DirectReadEnd
    <3>5. QED
      BY <1>1, <3>1, <3>2, <3>4 DEF CacheRead, DirectRead, Reading, CacheReadEnd
  <2>2. got'[h] = dat[rd[h].at]
    BY <1>1, <2>1 DEF DirectReadEnd, FioInv, TypeOK
  <2>3. fd[h] \in Entry /\ rd[h].at = tab[fd[h]].at
    BY <1>1 DEF FioInv, OpenInv, TypeOK, NoRead
  <2>4. tab[fd[h]] = dtab[fd[h]] /\ dtab[fd[h]].file # NoFile
    BY <1>1 DEF Current
  <2>5. QED
    BY <1>1, <2>2, <2>3, <2>4 DEF FioInv, DiskInv
<1>2. FioInv /\ [Next]_vars =>
        [\A h \in Client : rd[h].how = "direct" /\ rd'[h] = NoRead /\ Current(h) =>
           got'[h] = tab[fd[h]].file]_vars
  BY <1>1
<1>3. QED
  BY <1>2, FioSafe, PTL DEF Spec, DirectReadFresh

-----------------------------------------------------------------------------
(* A remount works through whole chunks of the table and with them through *)
(* all of its entries.                                                     *)
LEMMA HtableLenIs == HtableLen \in Nat /\ NbEntry <= HtableLen * PerChunk
<1>1. NbEntry \in Nat /\ PerChunk \in Nat \ {0}
  BY DEF FioAssumption
<1>2. PICK a \in Nat : a = NbEntry + PerChunk - 1
  BY <1>1
<1>3. PICK q \in Nat : q = a \div PerChunk
  BY <1>1, <1>2
<1>4. q * PerChunk <= a /\ a < q * PerChunk + PerChunk
  BY <1>1, <1>2, <1>3
<1>5. HtableLen = q
  BY <1>2, <1>3 DEF HtableLen
<1>6. NbEntry <= HtableLen * PerChunk
  BY <1>1, <1>2, <1>4, <1>5
<1>7. QED
  BY <1>3, <1>5, <1>6

(* The task after an entry: the next one, or the remount is over.          *)
LEMMA AfterEntryIs ==
  ASSUME FioInv, task.op = "remount", task.pc # "read", task.e \in Entry
  PROVE  /\ task.e = HtableLen * PerChunk => AfterEntry = NoTask
         /\ task.e # HtableLen * PerChunk =>
              /\ AfterEntry.op = "remount" /\ AfterEntry.e = task.e + 1
              /\ AfterEntry.buf = task.buf /\ AfterEntry.since = task.since
<1>1. CASE task.e = HtableLen * PerChunk
  BY <1>1 DEF AfterEntry
<1>2. CASE task.e # HtableLen * PerChunk
  <2>1. PICK pc \in {"read", "entry"} :
          AfterEntry = [task EXCEPT !.e = task.e + 1, !.pc = pc]
    BY <1>2 DEF AfterEntry
  <2>2. QED
    BY <1>2, <2>1 DEF FioInv, TypeOK
<1>3. QED
  BY <1>1, <1>2

(* A flag that moves the default moves it to the last one that has it.     *)
LEMMA AppliedNext ==
  ASSUME NEW e \in Entry, NEW n \in Hentry, tab \in [Entry -> Hentry], def \in Entry \cup {NULL},
         Applied(e, tab, def), tab' = [tab EXCEPT ![e] = n], def' = NewDefault(e, n)
  PROVE  Applied(e + 1, tab', def')
<1> DEFINE old == {x \in Entry : x < e /\ tab[x].def}
           new == {x \in Entry : x < e + 1 /\ tab'[x].def}
<1>1. Entry \subseteq Nat /\ NULL \notin Entry
  BY DEF Entry, FioAssumption
<1>2. \A x \in Entry : tab'[x] = IF x = e THEN n ELSE tab[x]
  OBVIOUS
<1>3. \A x \in Entry : x < e + 1 <=> x < e \/ x = e
  BY <1>1
<1>4. \A x \in Entry : x \in new <=> x \in old \/ (x = e /\ n.def)
  BY <1>1, <1>2, <1>3
<1>5. IF old = {} THEN def = NULL \/ def >= e ELSE def \in old /\ \A x \in old : x <= def
  BY DEF Applied
<1>6. SUFFICES IF new = {} THEN def' = NULL \/ def' >= e + 1
               ELSE def' \in new /\ \A x \in new : x <= def'
  BY DEF Applied
<1>7. CASE n.def
  <2>1. def' = e /\ e \in new
    BY <1>4, <1>7 DEF NewDefault
  <2>2. \A x \in new : x <= e
    BY <1>1
  <2>3. QED
    BY <2>1, <2>2
<1>8. CASE ~n.def
  <2>1. new = old
    BY <1>4, <1>8
  <2>2. def' = IF def = e THEN NULL ELSE def
    BY <1>8 DEF NewDefault
  <2>3. CASE old = {}
    <3>1. def = NULL \/ def = e \/ def >= e + 1
      BY <1>1, <1>5, <2>3
    <3>2. QED
      BY <2>1, <2>2, <2>3, <3>1
  <2>4. CASE old # {}
    <3>1. def \in old /\ \A x \in old : x <= def
      BY <1>5, <2>4
    <3>2. def # e
      BY <1>1, <3>1
    <3>3. QED
      BY <2>1, <2>2, <2>4, <3>1, <3>2
  <2>5. QED
    BY <2>3, <2>4
<1>9. QED
  BY <1>7, <1>8

(* Behind the last entry that is the default of the table.                 *)
LEMMA AppliedAll ==
  ASSUME NEW t, NEW d \in Entry \cup {NULL}, Applied(NbEntry + 1, t, d)
  PROVE  d = DefaultOf(t)
<1> DEFINE flagged == {x \in Entry : t[x].def}
<1>1. Entry \subseteq Nat /\ NULL \notin Entry /\ \A x \in Entry : x < NbEntry + 1 /\ ~(x >= NbEntry + 1)
  BY DEF Entry, FioAssumption
<1>2. {x \in Entry : x < NbEntry + 1 /\ t[x].def} = flagged
  BY <1>1
<1>3. IF flagged = {} THEN d = NULL \/ d >= NbEntry + 1 ELSE d \in flagged /\ \A x \in flagged : x <= d
  BY <1>2 DEF Applied
<1>4. CASE flagged = {}
  <2>1. d = NULL
    BY <1>1, <1>3, <1>4
  <2>2. QED
    BY <1>4, <2>1 DEF DefaultOf
<1>5. CASE flagged # {}
  <2>1. d \in flagged /\ \A x \in flagged : x <= d
    BY <1>3, <1>5
  <2>2. \A y \in flagged : (\A x \in flagged : x <= y) => y = d
    <3>1. ASSUME NEW y \in flagged, \A x \in flagged : x <= y PROVE y = d
      <4>1. y <= d /\ d <= y /\ y \in Nat /\ d \in Nat
        BY <1>1, <2>1, <3>1
      <4>2. QED
        BY <4>1
    <3>2. QED
      BY <3>1
  <2>3. DefaultOf(t) = CHOOSE y \in flagged : \A x \in flagged : x <= y
    BY <1>5 DEF DefaultOf
  <2> HIDE DEF flagged
  <2>4. QED
    BY <2>1, <2>2, <2>3
<1>6. QED
  BY <1>4, <1>5

(* The steps that are not of a remount's task, and the edits under one.    *)
LEMMA RemountFrame ==
  ASSUME FioInv, RemountInv, UNCHANGED <<tab, hash, def, task>>,
         (dtab' = dtab /\ edits' = edits) \/ edits' = edits + 1
  PROVE  RemountInv'
<1>1. task.since \in Nat /\ edits \in Nat
  BY DEF FioInv, TypeOK, FioAssumption
<1>2. task'.since <= edits' /\ (task'.since = edits' => dtab' = dtab /\ task.since = edits)
  BY <1>1 DEF RemountInv
<1>3. task'.op = "remount" => Applied(task'.e, tab', def')
  BY DEF RemountInv, Applied
<1>4. QED
  BY <1>2, <1>3 DEF RemountInv

(* An entry is fed, locked and updated, by either step that does it.       *)
LEMMA UpdateApplies ==
  ASSUME FioInv, RemountInv, task.op = "remount", task.pc # "read", NEW e \in Entry, e = task.e,
         UpdateEntry(e, task.buf[e]), UNCHANGED <<dtab, edits>>,
         hash' = [hash EXCEPT ![e] = task.buf[e].file]
  PROVE  /\ Applied(e + 1, tab', def')
         /\ task.since = edits =>
              /\ task.buf = dtab
              /\ \A x \in Entry : x < e + 1 => tab'[x] = dtab'[x] /\ hash'[x] = dtab'[x].file
<1>1. /\ task.buf \in [Entry -> Hentry] /\ tab \in [Entry -> Hentry] /\ def \in Entry \cup {NULL}
      /\ hash \in [Entry -> File \cup {NoFile}]
  BY DEF FioInv, TypeOK, TaskInv
<1>2. tab' = [tab EXCEPT ![e] = task.buf[e]] /\ def' = NewDefault(e, task.buf[e])
  BY DEF UpdateEntry
<1>3. Applied(e, tab, def)
  BY DEF RemountInv
<1>4. Applied(e + 1, tab', def')
  BY <1>1, <1>2, <1>3, AppliedNext
<1>5. ASSUME task.since = edits, NEW x \in Entry, x < e + 1
      PROVE  tab'[x] = dtab'[x] /\ hash'[x] = dtab'[x].file
  <2>1. task.buf = dtab /\ \A y \in Entry : y < e => tab[y] = dtab[y] /\ hash[y] = dtab[y].file
    BY <1>5 DEF RemountInv
  <2>2. x = e \/ x < e
    BY <1>5 DEF Entry
  <2>3. CASE x = e
    BY <1>1, <1>2, <2>1, <2>3
  <2>4. CASE x # e
    BY <1>1, <1>2, <2>1, <2>2, <2>4
  <2>5. QED
    BY <2>3, <2>4
<1>6. task.since = edits => task.buf = dtab
  BY DEF RemountInv
<1>7. QED
  BY <1>4, <1>5, <1>6

(* The two steps of a remount that update an entry.                        *)
Updating(e) == /\ task.op = "remount" /\ task.pc # "read" /\ e = task.e
               /\ UpdateEntry(e, task.buf[e]) /\ task' = AfterEntry
               /\ UNCHANGED <<dtab, edits, trap>>
               /\ hash' = [hash EXCEPT ![e] = task.buf[e].file]

LEMMA RemountSteps ==
  ASSUME FioInv, RemountEntry \/ RemountWake
  PROVE  \/ \E e \in Entry : Updating(e)
         \/ /\ trap' = "assert" /\ task.pc = "entry" /\ task.e \notin Entry
            /\ UNCHANGED <<dtab, edits, tab, hash, def, task>>
         \/ /\ task.op = "remount" /\ task.pc = "entry" /\ task.e \in Entry
            /\ task' = [task EXCEPT !.pc = "wait"]
            /\ hash' = [hash EXCEPT ![task.e] = task.buf[task.e].file]
            /\ UNCHANGED <<dtab, edits, tab, def, trap>>
<1>1. CASE RemountEntry
  <2>1. CASE task.e \notin Entry
    BY <1>1, <2>1 DEF RemountEntry, diskVars, volVars
  <2>2. CASE task.e \in Entry /\ MayLock(task.e)
    <3>1. Updating(task.e)
      BY <1>1, <2>2 DEF RemountEntry, Updating, Feed, diskVars
    <3>2. QED
      BY <2>2, <3>1
  <2>3. CASE task.e \in Entry /\ ~MayLock(task.e)
    BY <1>1, <2>3 DEF RemountEntry, Feed, diskVars
  <2>4. QED
    BY <2>1, <2>2, <2>3
<1>2. CASE RemountWake
  <2>1. task.e \in Entry /\ hash[task.e] = task.buf[task.e].file
    BY <1>2 DEF RemountWake, FioInv, TaskInv
  <2>2. hash = [hash EXCEPT ![task.e] = task.buf[task.e].file]
    BY <2>1 DEF FioInv, TypeOK
  <2>3. Updating(task.e)
    BY <1>2, <2>2 DEF RemountWake, Updating, diskVars
  <2>4. QED
    BY <2>1, <2>3
<1>3. QED
  BY <1>1, <1>2

LEMMA RemountStepInv ==
  ASSUME FioInv, RemountInv, RemountEntry \/ RemountWake
  PROVE  RemountInv'
<1>0. task.since \in Nat /\ edits \in Nat /\ task.since <= edits
  BY DEF FioInv, TypeOK, FioAssumption, RemountInv
<1>1. ASSUME NEW e \in Entry, Updating(e) PROVE RemountInv'
  <2>1. /\ Applied(e + 1, tab', def')
        /\ task.since = edits =>
             /\ task.buf = dtab
             /\ \A x \in Entry : x < e + 1 => tab'[x] = dtab'[x] /\ hash'[x] = dtab'[x].file
    BY <1>1, UpdateApplies DEF Updating
  <2>2. CASE task' = NoTask
    BY <1>0, <1>1, <2>2 DEF RemountInv, NoTask, Updating
  <2>3. CASE task' # NoTask
    <3>1. task'.e = e + 1 /\ task'.buf = task.buf /\ task'.since = task.since
      BY <1>1, <2>3, AfterEntryIs DEF Updating
    <3>2. dtab' = dtab /\ edits' = edits
      BY <1>1 DEF Updating
    <3>3. QED
      BY <1>0, <2>1, <3>1, <3>2 DEF RemountInv
  <2>4. QED
    BY <2>2, <2>3
<1>2. CASE UNCHANGED <<dtab, edits, tab, hash, def, task>>
  BY <1>2, RemountFrame
<1>3. CASE /\ task.op = "remount" /\ task.pc = "entry" /\ task.e \in Entry
           /\ task' = [task EXCEPT !.pc = "wait"]
           /\ hash' = [hash EXCEPT ![task.e] = task.buf[task.e].file]
           /\ UNCHANGED <<dtab, edits, tab, def>>
  <2>1. task'.e = task.e /\ task'.buf = task.buf /\ task'.since = task.since /\ task'.op = "remount"
    BY <1>3 DEF FioInv, TypeOK
  <2>2. \A x \in Entry : x < task.e => hash'[x] = hash[x]
    BY <1>3 DEF FioInv, TypeOK, Entry
  <2>3. Applied(task'.e, tab', def')
    BY <1>3, <2>1 DEF RemountInv, Applied
  <2>4. QED
    BY <1>0, <1>3, <2>1, <2>2, <2>3 DEF RemountInv
<1>4. QED
  BY <1>1, <1>2, <1>3, RemountSteps

LEMMA RemountBeginApplies ==
  ASSUME FioInv, RemountInv, RemountBegin
  PROVE  RemountInv'
<1>1. /\ task'.e = 1 /\ task'.pc = "read" /\ task'.since = edits
      /\ edits' = edits /\ edits \in Nat
  BY DEF RemountBegin, NoTask, diskVars, FioInv, TypeOK
<1>2. \A x \in Entry : x \in Nat /\ x >= 1 /\ ~(x < 1)
  BY DEF Entry
<1>3. def' \in Entry \cup {NULL}
  BY DEF RemountBegin, volVars, FioInv, TypeOK
<1>4. Applied(1, tab', def')
  BY <1>2, <1>3 DEF Applied
<1>5. QED
  BY <1>1, <1>2, <1>4 DEF RemountInv

LEMMA RemountReadApplies ==
  ASSUME FioInv, RemountInv, RemountRead
  PROVE  RemountInv'
<1>1. /\ UNCHANGED <<dtab, edits, tab, hash, def>> /\ task.op = "remount"
      /\ task.since \in Nat /\ edits \in Nat
  BY DEF RemountRead, diskVars, volVars, FioInv, TypeOK, FioAssumption
<1>2. CASE task' = NoTask
  BY <1>1, <1>2 DEF NoTask, RemountInv
<1>3. CASE task' = [task EXCEPT !.pc = "entry", !.buf = dtab]
  <2>1. task'.op = "remount" /\ task'.e = task.e /\ task'.buf = dtab /\ task'.since = task.since
    BY <1>1, <1>3 DEF FioInv, TypeOK
  <2>2. Applied(task'.e, tab', def')
    BY <1>1, <2>1 DEF RemountInv, Applied
  <2>3. QED
    BY <1>1, <2>1, <2>2 DEF RemountInv
<1>4. QED
  BY <1>2, <1>3 DEF RemountRead

(* A task that ends, or is an umount's, has no remount to account for.     *)
LEMMA OtherTaskApplies ==
  ASSUME FioInv, RemountInv, UNCHANGED edits, task'.op # "remount",
         task'.since = 0 \/ task'.since = task.since
  PROVE  RemountInv'
BY DEF RemountInv, FioInv, TypeOK, FioAssumption

LEMMA UmountApplies ==
  ASSUME FioInv, RemountInv, (\E force \in BOOLEAN : UmountBegin(force)) \/ Umounting
  PROVE  RemountInv'
<1>1. UNCHANGED edits
  BY DEF UmountBegin, Umounting, UmountLock, UmountFree, UmountEnd, diskVars
<1>2. task'.op # "remount" /\ (task'.since = 0 \/ task'.since = task.since)
  <2>1. CASE UmountLock
    <3>1. task.op = "umount" /\ \/ task' = task
                                \/ \E l : task' = [task EXCEPT !.locked = l]
      BY <2>1 DEF UmountLock
    <3>2. QED
      BY <3>1 DEF FioInv, TypeOK
  <2>2. CASE UmountEnd
    BY <2>2 DEF UmountEnd, NoTask
  <2>3. CASE UmountFree \/ \E force \in BOOLEAN : UmountBegin(force)
    BY <2>3 DEF UmountFree, UmountBegin, Free, NoTask
  <2>4. QED
    BY <2>1, <2>2, <2>3 DEF Umounting
<1>3. QED
  BY <1>1, <1>2, OtherTaskApplies

(* Every step of the system, with its stuttering. *)
LEMMA NextRemountInv ==
  ASSUME FioInv, RemountInv, [Next]_vars
  PROVE  RemountInv'
<1>1. ASSUME NEW e \in Entry, NEW f \in File, NEW k \in Chunk, AddFile(e, f, k)
      PROVE  RemountInv'
  BY <1>1, RemountFrame DEF AddFile, Edit, volVars
<1>2. ASSUME NEW e \in Entry, RmFile(e) PROVE RemountInv'
  BY <1>2, RemountFrame DEF RmFile, Edit, volVars
<1>3. ASSUME NEW e \in Entry \cup {NULL}, SetDefault(e) PROVE RemountInv'
  BY <1>3, RemountFrame DEF SetDefault, volVars
<1>4. ASSUME UNCHANGED <<diskVars, volVars, task>> PROVE RemountInv'
  BY <1>4, RemountFrame DEF diskVars, volVars
<1>5. ASSUME NEW h \in Client, \/ \E f \in File : OpenHash(h, f) \/ OpenName(h, f)
                               \/ OpenDefault(h) \/ Close(h)
                               \/ \E g \in Client : Openf(h, g)
                               \/ CacheRead(h) \/ DirectRead(h) \/ Reading(h)
      PROVE  RemountInv'
  BY <1>4, <1>5 DEF OpenHash, OpenName, OpenDefault, Openf, Opens, Close, CacheRead, DirectRead,
                    Reading, CacheReadEnd, DirectReadEnd
<1>6. ASSUME NEW k \in Chunk, Loaded(k) \/ Evict(k) PROVE RemountInv'
  BY <1>4, <1>6 DEF Loaded, Evict
<1>7. CASE RemountBegin \/ Remounting
  BY <1>7, RemountBeginApplies, RemountReadApplies, RemountStepInv DEF Remounting
<1>8. CASE (\E force \in BOOLEAN : UmountBegin(force)) \/ Umounting
  BY <1>8, UmountApplies
<1>9. CASE Mount
  <2>1. UNCHANGED <<edits, task>> /\ task.op # "remount"
    BY <1>9, NoTaskOK DEF Mount, diskVars
  <2>2. QED
    BY <2>1, OtherTaskApplies
<1>10. CASE UNCHANGED vars
  BY <1>4, <1>10 DEF vars
<1>11. QED
  BY <1>1, <1>2, <1>3, <1>5, <1>6, <1>7, <1>8, <1>9, <1>10 DEF Next

LEMMA InitRemountInv == Init => RemountInv
BY DEF Init, RemountInv, NoTask

(* A remount only ends, but for a read that fails, after the last entry,   *)
(* and then it has been through all of them.                               *)
LEMMA EndedRemountApplied ==
  ASSUME FioInv, RemountInv, [Next]_vars,
         task.op = "remount", task.pc # "read", task'.op = "none"
  PROVE  /\ def' = DefaultOf(tab')
         /\ task.since = edits => tab' = dtab /\ hash' = [x \in Entry |-> dtab[x].file]
<1>1. RemountEntry \/ RemountWake
  <2>1. task' # task /\ task # NoTask
    BY NoTaskOK
  <2>2. QED
    BY <2>1 DEF Next, vars, AddFile, RmFile, SetDefault, Edit, OpenHash, OpenName,
          OpenDefault, Openf, Opens, Close, CacheRead, DirectRead, Reading, CacheReadEnd,
          DirectReadEnd, Loaded, Evict, RemountBegin, Remounting, RemountRead, UmountBegin,
          Umounting, UmountLock, UmountFree, UmountEnd, Mount
<1>2. PICK e \in Entry : Updating(e)
  <2>1. task' # task
    BY DEF FioInv, TypeOK
  <2>2. ~(task' = [task EXCEPT !.pc = "wait"])
    BY DEF FioInv, TypeOK
  <2>3. QED
    BY <1>1, <2>1, <2>2, RemountSteps
<1>3. e = NbEntry
  <2>1. e = HtableLen * PerChunk
    BY <1>2, AfterEntryIs DEF Updating
  <2>2. e \in 1 .. NbEntry /\ NbEntry <= e /\ NbEntry \in Nat
    BY <2>1, HtableLenIs DEF Entry, FioAssumption
  <2>3. QED
    BY <2>2
<1>4. /\ Applied(NbEntry + 1, tab', def')
      /\ task.since = edits =>
           \A x \in Entry : x < NbEntry + 1 => tab'[x] = dtab'[x] /\ hash'[x] = dtab'[x].file
  BY <1>2, <1>3, UpdateApplies DEF Updating
<1>5. /\ tab' \in [Entry -> Hentry] /\ hash' \in [Entry -> File \cup {NoFile}]
      /\ def' \in Entry \cup {NULL} /\ dtab \in [Entry -> Hentry] /\ dtab' = dtab
  <2>1. /\ tab \in [Entry -> Hentry] /\ hash \in [Entry -> File \cup {NoFile}]
        /\ def \in Entry \cup {NULL} /\ dtab \in [Entry -> Hentry] /\ task.buf[e] \in Hentry
    BY DEF FioInv, TypeOK, TaskInv
  <2>2. task.buf[e].file \in File \cup {NoFile}
    BY <2>1 DEF Hentry
  <2>3. QED
    BY <1>2, <2>1, <2>2 DEF Updating, UpdateEntry, NewDefault
<1>6. def' = DefaultOf(tab')
  BY <1>4, <1>5, AppliedAll
<1>7. ASSUME task.since = edits PROVE tab' = dtab /\ hash' = [x \in Entry |-> dtab[x].file]
  <2>1. \A x \in Entry : x < NbEntry + 1
    BY DEF Entry, FioAssumption
  <2>2. \A x \in Entry : tab'[x] = dtab[x] /\ hash'[x] = dtab[x].file
    BY <1>4, <1>5, <1>7, <2>1
  <2>3. QED
    BY <1>5, <2>2
<1>8. QED
  BY <1>6, <1>7

(* reload_vol_htable: a remount that comes to its end, over however many   *)
(* table chunks and whatever it waited for meanwhile, leaves the default   *)
(* at the entry that has the flag, and the table in memory as it is on the *)
(* device unless that was edited while the remount ran.                    *)
THEOREM RemountsApply == ASSUME ~RmDefault PROVE Spec => RemountApplies
<1>1. FioInv /\ RemountInv /\ [Next]_vars =>
        [task.op = "remount" /\ task.pc # "read" /\ task'.op = "none" =>
           /\ def' = DefaultOf(tab')
           /\ task.since = edits => tab' = dtab /\ hash' = [e \in Entry |-> dtab[e].file]]_vars
  BY EndedRemountApplied
<1>2. FioInv /\ RemountInv /\ [Next]_vars => RemountInv'
  BY NextRemountInv
<1>3. QED
  BY <1>1, <1>2, InitRemountInv, FioSafe, PTL DEF Spec, RemountApplies

============================================================================
