------------------------------ MODULE ShfsFio ------------------------------
(***************************************************************************)
(* Open files of an SHFS volume (shfs/shfs_fio.c) against mount, remount   *)
(* and umount (shfs/shfs.c): the in-memory hash table, a lock and an       *)
(* update flag per entry, the chunk cache as far as a remount can see it,  *)
(* and the volume on the device, which shfs_admin edits on another host    *)
(* while it is mounted ("you have to run remount ... after you did         *)
(* changes", shfs-tools/README.md).                                        *)
(*                                                                         *)
(* Tasks are scheduled cooperatively.  A step here is what a task does     *)
(* between two calls that may schedule: a blocking semaphore operation, or *)
(* a wait for I/O.  Every file is one chunk long.  A file is known by its  *)
(* digest, and its name is unique.  Operators whose name ends in Bug are   *)
(* the ones that follow them with a plausible mistake.                     *)
(***************************************************************************)
EXTENDS Naturals, FiniteSets

CONSTANTS
  NULL,
  Client,      \* users of files, each with one descriptor at a time
  NbEntry,     \* shfs_vol.htable_nb_entries
  PerChunk,    \* shfs_vol.htable_nb_entries_per_chunk
  File,        \* digests of file contents
  NoFile,      \* the zero digest
  Chunk,       \* chunks of the volume that hold files
  InitTables,  \* hash tables the device may have when it is first mounted
  MaxEdit,     \* bound on the edits of shfs_admin
  RmDefault,   \* does shfs_admin remove a file while it is the default?
  UseOpenf,    \* do clients clone descriptors with shfs_fio_openf?
  ReadFaults   \* may a read of the hash table fail during a remount?

Entry == 1 .. NbEntry
Hentry == [file : File \cup {NoFile}, at : Chunk, def : BOOLEAN]
Absent == "absent"      \* the chunk is not in the cache
Loading == "loading"    \* its read is in flight

ASSUME FioAssumption ==
  /\ NbEntry \in Nat /\ PerChunk \in Nat \ {0} /\ MaxEdit \in Nat
  /\ IsFiniteSet(Client) /\ NULL \notin Entry /\ NoFile \notin File
  /\ {Absent, Loading} \cap (File \cup {NoFile}) = {} /\ NULL \notin Chunk
  /\ InitTables \subseteq [Entry -> Hentry]
  /\ RmDefault \in BOOLEAN /\ UseOpenf \in BOOLEAN /\ ReadFaults \in BOOLEAN
  /\ \A t \in InitTables : \A e, x \in Entry : e # x =>
       /\ t[e].file # NoFile /\ t[x].file # NoFile => t[e].file # t[x].file /\ t[e].at # t[x].at
       /\ ~(t[e].def /\ t[x].def)
  /\ \A t \in InitTables : \A e \in Entry : t[e].def => t[e].file # NoFile

VARIABLES
  dtab, dat, edits,       \* on the device: hash table, chunk contents
  mounted, nbOpen, def,   \* shfs_mounted, shfs_nb_open, shfs_vol.def_bentry
  hash,                   \* the digest in the bucket (shfs_vol.bt); an entry
                          \* is on the table's list iff it is not zero
  tab,                    \* *bentry->hentry, in shfs_vol.htable_chunk_cache
  refcount, update, lock, \* of each bentry; lock is updatelock's count
  cbuf,                   \* the chunk cache: chunk -> contents
  fd, since, rd, got,     \* of each client: descriptor, edits when opened,
                          \* read in progress, what the last read returned
  task,                   \* the task holding shfs_mount_lock
  trap                    \* an ASSERT fired, or memory was freed that
                          \* somebody uses

diskVars == <<dtab, dat, edits>>
volVars  == <<mounted, def, hash, tab, update>>
openVars == <<nbOpen, refcount, fd, since>>
readVars == <<rd, got>>
vars == <<diskVars, volVars, openVars, readVars, lock, cbuf, task, trap>>

NoTask == [op |-> "none", pc |-> "idle", e |-> 0, buf |-> << >>, locked |-> {},
           since |-> 0]
NoRead == [how |-> "none", at |-> NULL]

TypeOK ==
  /\ dtab \in [Entry -> Hentry] /\ dat \in [Chunk -> File \cup {NoFile}]
  /\ edits \in 0 .. MaxEdit
  /\ mounted \in BOOLEAN /\ nbOpen \in Nat /\ def \in Entry \cup {NULL}
  /\ hash \in [Entry -> File \cup {NoFile}] /\ tab \in [Entry -> Hentry]
  /\ refcount \in [Entry -> Nat] /\ update \in [Entry -> BOOLEAN]
  /\ lock \in [Entry -> 0 .. 1]
  /\ cbuf \in [Chunk -> File \cup {NoFile, Absent, Loading}]
  /\ fd \in [Client -> Entry \cup {NULL}] /\ since \in [Client -> 0 .. MaxEdit]
  /\ rd \in [Client -> [how : {"none", "cache", "direct"}, at : Chunk \cup {NULL}]]
  /\ got \in [Client -> File \cup {NoFile, NULL}]
  /\ task \in [op : {"none", "remount", "umount"},
               pc : {"idle", "read", "entry", "wait", "lock", "close"},
               e : 0 .. NbEntry + PerChunk, buf : [Entry -> Hentry] \cup {<< >>},
               locked : SUBSET Entry, since : 0 .. MaxEdit]
  /\ trap \in {"no", "assert", "free"}

(* load_vol_htable: the last entry with the default flag. *)
DefaultOf(t) ==
  LET flagged == {e \in Entry : t[e].def}
  IN  IF flagged = {} THEN NULL ELSE CHOOSE e \in flagged : \A x \in flagged : x <= e

Load ==
  /\ hash' = [e \in Entry |-> dtab[e].file]
  /\ tab' = dtab
  /\ def' = DefaultOf(dtab)
  /\ refcount' = [e \in Entry |-> 0]
  /\ update' = [e \in Entry |-> FALSE]
  /\ lock' = [e \in Entry |-> 1]

(* The file of a table that is stored in a chunk. *)
Stored(t, k) == {t[e].file : e \in {x \in Entry : t[x].file # NoFile /\ t[x].at = k}}

Init ==
  /\ dtab \in InitTables /\ edits = 0
  /\ dat = [k \in Chunk |-> IF Stored(dtab, k) = {} THEN NoFile
                            ELSE CHOOSE x \in Stored(dtab, k) : TRUE]
  /\ mounted = TRUE /\ nbOpen = 0 /\ def = DefaultOf(dtab)
  /\ hash = [e \in Entry |-> dtab[e].file] /\ tab = dtab
  /\ refcount = [e \in Entry |-> 0] /\ update = [e \in Entry |-> FALSE]
  /\ lock = [e \in Entry |-> 1]
  /\ cbuf = [k \in Chunk |-> Absent]
  /\ fd = [h \in Client |-> NULL] /\ since = [h \in Client |-> 0]
  /\ rd = [h \in Client |-> NoRead] /\ got = [h \in Client |-> NULL]
  /\ task = NoTask /\ trap = "no"

(* Another task runs: the one in task is not between two entries of the    *)
(* hash table, where it does not schedule.                                 *)
Sched == trap = "no" /\ task.pc # "entry"

-----------------------------------------------------------------------------
(* shfs_admin, on another host, at any time. *)
Editing == trap = "no" /\ edits < MaxEdit
Edit(e, h) ==
  /\ Editing
  /\ dtab' = [dtab EXCEPT ![e] = h]
  /\ edits' = edits + 1
  /\ UNCHANGED <<volVars, openVars, readVars, lock, cbuf, task, trap>>

(* actn_addfile: a digest that is not in the table yet, a free entry and a *)
(* free chunk, into which the contents go.                                 *)
AddFile(e, f, k) ==
  /\ dtab[e].file = NoFile
  /\ \A x \in Entry : dtab[x].file # f /\ (dtab[x].file # NoFile => dtab[x].at # k)
  /\ Edit(e, [file |-> f, at |-> k, def |-> FALSE])
  /\ dat' = [dat EXCEPT ![k] = f]

(* actn_rmfile clears the digest and nothing else of the entry. *)
RmFile(e) ==
  /\ dtab[e].file # NoFile /\ (dtab[e].def => RmDefault)
  /\ Edit(e, [dtab[e] EXCEPT !.file = NoFile])
  /\ UNCHANGED dat

(* actn_setdefault and actn_cleardefault: at most one entry has the flag.  *)
SetDefault(e) ==
  /\ Editing /\ e # DefaultOf(dtab)
  /\ e # NULL => dtab[e].file # NoFile
  /\ dtab' = [x \in Entry |-> [dtab[x] EXCEPT !.def = (x = e)]]
  /\ edits' = edits + 1
  /\ UNCHANGED <<dat, volVars, openVars, readVars, lock, cbuf, task, trap>>

-----------------------------------------------------------------------------
(* _shfs_fio_open_bentry; trydown cannot block.                            *)
OpenEntryBug(h, e) ==
  /\ refcount' = [refcount EXCEPT ![e] = @ + 1]
  /\ lock' = IF refcount[e] = 0 THEN [lock EXCEPT ![e] = 0] ELSE lock
  /\ nbOpen' = nbOpen + 1
  /\ fd' = [fd EXCEPT ![h] = e]
OpenEntry(h, e) ==
  /\ ~update[e]
  /\ refcount' = [refcount EXCEPT ![e] = @ + 1]
  /\ lock' = IF refcount[e] = 0 THEN [lock EXCEPT ![e] = 0] ELSE lock
  /\ nbOpen' = nbOpen + 1
  /\ fd' = [fd EXCEPT ![h] = e]

Opens(h) ==
  /\ Sched /\ mounted /\ fd[h] = NULL
  /\ since' = [since EXCEPT ![h] = edits]
  /\ got' = [got EXCEPT ![h] = NULL]
  /\ UNCHANGED <<diskVars, volVars, rd, cbuf, task, trap>>

(* shfs_fio_open with a digest, shfs_fio_openh: the first entry of the     *)
(* bucket; callers of shfs_fio_openh see to it that a volume is mounted.   *)
OpenHash(h, f) ==
  \E e \in Entry : /\ hash[e] = f /\ \A x \in Entry : hash[x] = f => e <= x
                   /\ Opens(h) /\ OpenEntry(h, e)

(* shfs_fio_open with a name: an entry of the table's list, by the name in *)
(* the buffered hash table.                                                *)
OpenName(h, f) ==
  \E e \in Entry : /\ hash[e] # NoFile /\ tab[e].file = f
                   /\ Opens(h) /\ OpenEntry(h, e)

(* shfs_fio_open of "": the default file. *)
OpenDefault(h) == def # NULL /\ Opens(h) /\ OpenEntry(h, def)

(* shfs_fio_openf: h gets a clone of g's descriptor. *)
Openf(h, g) ==
  /\ UseOpenf /\ fd[g] # NULL
  /\ Opens(h)
  /\ refcount' = [refcount EXCEPT ![fd[g]] = @ + 1]
  /\ nbOpen' = nbOpen + 1
  /\ fd' = [fd EXCEPT ![h] = fd[g]]
  /\ UNCHANGED lock

(* shfs_fio_close: the last descriptor of a file unlocks its entry. *)
UnlockBug(e) == lock' = [lock EXCEPT ![e] = 1]
UnlockNeverBug(e) == UNCHANGED lock
Unlock(e) == lock' = IF refcount[e] = 1 THEN [lock EXCEPT ![e] = 1] ELSE lock

Close(h) ==
  /\ Sched /\ fd[h] # NULL /\ rd[h] = NoRead
  /\ refcount' = [refcount EXCEPT ![fd[h]] = @ - 1]
  /\ Unlock(fd[h])
  /\ nbOpen' = nbOpen - 1
  /\ fd' = [fd EXCEPT ![h] = NULL]
  /\ since' = [since EXCEPT ![h] = 0]
  /\ got' = [got EXCEPT ![h] = NULL]
  /\ UNCHANGED <<diskVars, volVars, rd, cbuf, task, trap>>

-----------------------------------------------------------------------------
(* shfs_cache_read of the file's chunk, which waits for it when it is not  *)
(* loaded (shfs_fio_cache_read).                                           *)
CacheRead(h) ==
  /\ Sched /\ fd[h] # NULL /\ rd[h] = NoRead
  /\ LET k == tab[fd[h]].at
     IN  IF cbuf[k] \notin {Absent, Loading}
         THEN got' = [got EXCEPT ![h] = cbuf[k]] /\ UNCHANGED <<rd, cbuf>>
         ELSE /\ rd' = [rd EXCEPT ![h] = [how |-> "cache", at |-> k]]
              /\ cbuf' = [cbuf EXCEPT ![k] = Loading]
              /\ UNCHANGED got
  /\ UNCHANGED <<diskVars, volVars, openVars, lock, task, trap>>

Loaded(k) ==
  /\ Sched /\ cbuf[k] = Loading
  /\ cbuf' = [cbuf EXCEPT ![k] = dat[k]]
  /\ UNCHANGED <<diskVars, volVars, openVars, readVars, lock, task, trap>>

CacheReadEnd(h) ==
  /\ Sched /\ rd[h].how = "cache" /\ cbuf[rd[h].at] # Loading
  /\ got' = [got EXCEPT ![h] = cbuf[rd[h].at]]
  /\ rd' = [rd EXCEPT ![h] = NoRead]
  /\ UNCHANGED <<diskVars, volVars, openVars, lock, cbuf, task, trap>>

(* shfs_read_chunk of the file's chunk (shfs_fio_read). *)
DirectRead(h) ==
  /\ Sched /\ fd[h] # NULL /\ rd[h] = NoRead
  /\ rd' = [rd EXCEPT ![h] = [how |-> "direct", at |-> tab[fd[h]].at]]
  /\ UNCHANGED <<diskVars, volVars, openVars, got, lock, cbuf, task, trap>>

DirectReadEndBug(h) ==
  /\ Sched /\ rd[h].how = "direct"
  /\ got' = [got EXCEPT ![h] = IF cbuf[rd[h].at] \in {Absent, Loading}
                               THEN dat[rd[h].at] ELSE cbuf[rd[h].at]]
  /\ rd' = [rd EXCEPT ![h] = NoRead]
  /\ UNCHANGED <<diskVars, volVars, openVars, lock, cbuf, task, trap>>
DirectReadEnd(h) ==
  /\ Sched /\ rd[h].how = "direct"
  /\ got' = [got EXCEPT ![h] = dat[rd[h].at]]
  /\ rd' = [rd EXCEPT ![h] = NoRead]
  /\ UNCHANGED <<diskVars, volVars, openVars, lock, cbuf, task, trap>>

(* The cache evicts, and the flush drops, what nobody refers to. *)
Referenced(k) == \E h \in Client : rd[h] = [how |-> "cache", at |-> k]
Flushed == [k \in Chunk |-> IF Referenced(k) THEN cbuf[k] ELSE Absent]

Evict(k) ==
  /\ Sched /\ cbuf[k] # Absent /\ ~Referenced(k)
  /\ cbuf' = [cbuf EXCEPT ![k] = Absent]
  /\ UNCHANGED <<diskVars, volVars, openVars, readVars, lock, task, trap>>

-----------------------------------------------------------------------------
(* remount_shfs and reload_vol_htable: chunk by chunk and entry by entry.  *)
(* An entry whose file is open is waited for with `update' set, and so is  *)
(* the read of the next chunk; between the other entries the task does not *)
(* schedule.                                                               *)
RemountBegin ==
  /\ Sched /\ task = NoTask /\ mounted
  /\ task' = [NoTask EXCEPT !.op = "remount", !.pc = "read", !.e = 1, !.since = edits]
  /\ UNCHANGED <<diskVars, volVars, openVars, readVars, lock, cbuf, trap>>

RemountRead ==
  /\ Sched /\ task.op = "remount" /\ task.pc = "read"
  /\ \/ task' = [task EXCEPT !.pc = "entry", !.buf = dtab]
     \/ ReadFaults /\ task' = NoTask
  /\ UNCHANGED <<diskVars, volVars, openVars, readVars, lock, cbuf, trap>>

(* The last chunk is worked through to its end, like every other one, and  *)
(* entries that are free before and after are fed, too.                    *)
HtableLen == (NbEntry + PerChunk - 1) \div PerChunk
AfterEntryBug ==
  IF task.e + 1 >= HtableLen * PerChunk THEN NoTask
  ELSE [task EXCEPT !.e = task.e + 1,
                    !.pc = IF task.e % PerChunk = 0 THEN "read" ELSE "entry"]
AfterEntry ==
  IF task.e = HtableLen * PerChunk THEN NoTask
  ELSE [task EXCEPT !.e = task.e + 1,
                    !.pc = IF task.e % PerChunk = 0 THEN "read" ELSE "entry"]

(* The default file follows the entry's flag. *)
NewDefaultBug(e, n) == IF n.def THEN e ELSE def
NewDefault(e, n) == IF n.def THEN e ELSE IF def = e THEN NULL ELSE def

(* The entry is locked: its meta data is replaced and the cache flushed. *)
UpdateEntry(e, n) ==
  /\ tab' = [tab EXCEPT ![e] = n]
  /\ update' = [update EXCEPT ![e] = FALSE]
  /\ lock' = [lock EXCEPT ![e] = 1]
  /\ cbuf' = Flushed
  /\ def' = NewDefault(e, n)

(* The bucket gets the new digest before the entry is locked. *)
FeedBug(e, n) == UNCHANGED hash
Feed(e, n) == hash' = [hash EXCEPT ![e] = n.file]

(* down of the entry's updatelock: it is free, or the task waits for it.   *)
MayLock(e) == lock[e] = 1

RemountEntry ==
  /\ trap = "no" /\ task.op = "remount" /\ task.pc = "entry"
  /\ LET e == task.e
     IN  IF e \notin Entry
         THEN trap' = "assert" /\ UNCHANGED <<volVars, lock, cbuf, task>>
         ELSE /\ Feed(e, task.buf[e])
              /\ IF MayLock(e)
                 THEN UpdateEntry(e, task.buf[e]) /\ task' = AfterEntry
                 ELSE /\ update' = [update EXCEPT ![e] = TRUE]
                      /\ task' = [task EXCEPT !.pc = "wait"]
                      /\ UNCHANGED <<def, tab, lock, cbuf>>
              /\ UNCHANGED <<mounted, trap>>
  /\ UNCHANGED <<diskVars, openVars, readVars>>

RemountWake ==
  /\ Sched /\ task.op = "remount" /\ task.pc = "wait" /\ MayLock(task.e)
  /\ UpdateEntry(task.e, task.buf[task.e]) /\ task' = AfterEntry
  /\ UNCHANGED <<diskVars, mounted, hash, openVars, readVars, trap>>

-----------------------------------------------------------------------------
(* umount_shfs.  A busy volume is given up, or with force every entry is   *)
(* locked, waiting for its file to be closed.                              *)
Busy == nbOpen > 0 \/ \E k \in Chunk : Referenced(k)

(* shfs_free_cache traps when a buffer is still referenced. *)
Free ==
  /\ IF \E h \in Client : rd[h] # NoRead
     THEN trap' = "free" /\ UNCHANGED <<mounted, cbuf>>
     ELSE /\ mounted' = FALSE
          /\ cbuf' = [k \in Chunk |-> Absent]
          /\ UNCHANGED trap
  /\ task' = [NoTask EXCEPT !.op = "umount", !.pc = "close"]

UmountBeginBug(force) ==
  /\ Sched /\ task = NoTask /\ mounted
  /\ IF force /\ Busy
     THEN /\ task' = [NoTask EXCEPT !.op = "umount", !.pc = "lock"]
          /\ UNCHANGED <<mounted, cbuf, trap>>
     ELSE Free
  /\ UNCHANGED <<diskVars, def, hash, tab, update, openVars, readVars, lock>>
UmountBegin(force) ==
  /\ Sched /\ task = NoTask /\ mounted
  /\ \/ ~Busy /\ Free
     \/ /\ Busy /\ force
        /\ task' = [NoTask EXCEPT !.op = "umount", !.pc = "lock"]
        /\ UNCHANGED <<mounted, cbuf, trap>>
  /\ UNCHANGED <<diskVars, def, hash, tab, update, openVars, readVars, lock>>

(* The entries of the table's list, in some order: `update' is set, then   *)
(* the lock is taken, before or after other tasks ran.                     *)
Listed == {e \in Entry : hash[e] # NoFile}
UmountLock ==
  /\ Sched /\ task.op = "umount" /\ task.pc = "lock"
  /\ \E e \in Listed \ task.locked :
       /\ \A x \in Listed \ task.locked : update[x] => x = e
       /\ update' = [update EXCEPT ![e] = TRUE]
       /\ IF MayLock(e)
          THEN lock' = [lock EXCEPT ![e] = 0] /\ task' = [task EXCEPT !.locked = @ \cup {e}]
          ELSE ~update[e] /\ UNCHANGED <<lock, task>>
  /\ UNCHANGED <<diskVars, mounted, def, hash, tab, openVars, readVars, cbuf, trap>>

UmountFree ==
  /\ Sched /\ task.op = "umount" /\ task.pc = "lock" /\ Listed \subseteq task.locked
  /\ Free
  /\ UNCHANGED <<diskVars, def, hash, tab, update, openVars, readVars, lock>>

(* The members are closed, which may schedule, and the mount lock is free. *)
UmountEnd ==
  /\ Sched /\ task.op = "umount" /\ task.pc = "close"
  /\ task' = NoTask
  /\ UNCHANGED <<diskVars, volVars, openVars, readVars, lock, cbuf, trap>>

(* mount_shfs of the same volume, where nothing fails: it schedules only   *)
(* while it opens the devices, when the volume is not mounted yet.         *)
Mount ==
  /\ Sched /\ task = NoTask /\ ~mounted
  /\ mounted' = TRUE /\ nbOpen' = 0
  /\ Load
  /\ UNCHANGED <<diskVars, fd, since, readVars, cbuf, task, trap>>

-----------------------------------------------------------------------------
Reading(h) == CacheReadEnd(h) \/ DirectReadEnd(h)
Remounting == RemountRead \/ RemountEntry \/ RemountWake
Umounting == UmountLock \/ UmountFree \/ UmountEnd

Next ==
  \/ \E e \in Entry : \/ \E f \in File, k \in Chunk : AddFile(e, f, k)
                     \/ RmFile(e)
  \/ \E e \in Entry \cup {NULL} : SetDefault(e)
  \/ \E h \in Client : \/ \E f \in File : OpenHash(h, f) \/ OpenName(h, f)
                      \/ OpenDefault(h) \/ Close(h)
                      \/ \E g \in Client : Openf(h, g)
                      \/ CacheRead(h) \/ DirectRead(h) \/ Reading(h)
  \/ \E k \in Chunk : Loaded(k) \/ Evict(k)
  \/ RemountBegin \/ Remounting
  \/ \E force \in BOOLEAN : UmountBegin(force)
  \/ Umounting \/ Mount

Spec == Init /\ [][Next]_vars

(* The device answers; a task that can go on is scheduled; and whoever     *)
(* opens a file closes it in the end, however often it reads from it.      *)
Fairness ==
  /\ WF_vars(Remounting) /\ WF_vars(Umounting)
  /\ \A k \in Chunk : WF_vars(Loaded(k))
  /\ \A h \in Client : WF_vars(Reading(h)) /\ SF_vars(Close(h))

FairSpec == Spec /\ Fairness

-----------------------------------------------------------------------------
Opened(e) == {h \in Client : fd[h] = e}
Users == {h \in Client : fd[h] # NULL}

(* The counts umount_shfs and shfs_fio_close decide by are the numbers of  *)
(* descriptors.                                                            *)
CountsExact ==
  /\ mounted => nbOpen = Cardinality(Users)
  /\ mounted => \A e \in Entry : refcount[e] = Cardinality(Opened(e))

(* An entry's updatelock is held by its open file or by a forced umount.   *)
LockExact ==
  mounted => \A e \in Entry : lock[e] = 0 <=> Opened(e) # {} \/ e \in task.locked

(* "Any open file should not be affected" (reload_vol_htable): while a     *)
(* client has a file open, its meta data does not change under it.         *)
OpenIsStable ==
  [][\A h \in Client : fd[h] # NULL /\ fd'[h] = fd[h] => tab'[fd[h]] = tab[fd[h]]]_vars

(* Looking a file up by its digest and by its name agree, except on an     *)
(* entry that is being updated, which cannot be opened.                    *)
IndexMatches == \A e \in Entry : hash[e] # tab[e].file => update[e]

(* A volume that is not mounted, or being freed, is used by nobody.        *)
UnmountedIsUnused ==
  ~mounted => \A h \in Client : fd[h] = NULL /\ rd[h] = NoRead

(* The default file has the flag, also between two entries of a remount    *)
(* and after one that failed.                                              *)
DefaultFlagged == def # NULL => tab[def].def

(* A remount that ends without an error has read the table: the default is *)
(* the entry that has the flag, and if nobody edited the volume meanwhile, *)
(* the table in memory is the one on the device.                           *)
RemountApplies ==
  [][task.op = "remount" /\ task.pc # "read" /\ task'.op = "none" =>
       /\ def' = DefaultOf(tab')
       /\ task.since = edits =>
            tab' = dtab /\ hash' = [e \in Entry |-> dtab[e].file]]_vars

(* A file opened on the volume as it is now, and of which the volume in    *)
(* memory knows all, is read as it is on the volume now.                   *)
Current(h) == since[h] = edits /\ tab[fd[h]] = dtab[fd[h]] /\ dtab[fd[h]].file # NoFile
DirectReadFresh ==
  [][\A h \in Client : rd[h].how = "direct" /\ rd'[h] = NoRead /\ Current(h) =>
       got'[h] = tab[fd[h]].file]_vars

(* The same of a read through the cache: an updated entry's file is        *)
(* re-read ("to ensure re-reading this file", reload_vol_htable).          *)
CacheReadFresh ==
  [][\A h \in Client : fd[h] # NULL /\ fd'[h] = fd[h] /\ got'[h] # got[h] /\ Current(h) =>
       got'[h] = tab[fd[h]].file]_vars

(* Whatever is opened, "" included, is an object of the volume.            *)
OpensObject ==
  [][\A h \in Client : fd[h] = NULL /\ fd'[h] # NULL => tab[fd'[h]].file # NoFile]_vars

(* shfs_btable_feed is given an entry of the table, its ASSERT says        *)
(* (shfs_btable.h:146).  It is not: reload_vol_htable feeds every entry    *)
(* that there is room for in the last chunk of the table, also the ones    *)
(* past NbEntry.                                                           *)
FeedInBounds == trap # "assert"

(* Nothing is freed that somebody uses. *)
NothingFreedInUse == trap # "free"

(* The inductive invariant behind these, where shfs_admin does not remove  *)
(* a file while it is the default.                                         *)
DiskInv ==
  /\ \A e \in Entry : /\ dtab[e].file # NoFile => dat[dtab[e].at] = dtab[e].file
                      /\ dtab[e].def => dtab[e].file # NoFile
  /\ \A e, x \in Entry : e # x =>
       /\ dtab[e].file # NoFile /\ dtab[x].file # NoFile => dtab[e].at # dtab[x].at
       /\ ~(dtab[e].def /\ dtab[x].def)

TabInv ==
  /\ \A e \in Entry : tab[e].def => tab[e].file # NoFile
  /\ DefaultFlagged /\ IndexMatches

TaskInv ==
  /\ task.op = "none" => task = NoTask
  /\ task.op = "remount" =>
       /\ mounted /\ task.pc \in {"read", "entry", "wait"} /\ task.locked = {}
       /\ task.e \in 1 .. NbEntry + 1
       /\ task.pc # "read" =>
            /\ task.buf \in [Entry -> Hentry]
            /\ \A e \in Entry : task.buf[e].def => task.buf[e].file # NoFile
       /\ task.pc = "wait" => task.e \in Entry /\ hash[task.e] = task.buf[task.e].file
  /\ task.op = "umount" =>
       \/ task.pc = "lock" /\ mounted
       \/ task.pc = "close" /\ ~mounted /\ task.locked = {}
  /\ \A e \in task.locked : update[e]

(* An open file is on the table's list, unless a remount waits for it.     *)
OpenInv ==
  \A h \in Client :
    /\ fd[h] # NULL =>
         /\ mounted /\ tab[fd[h]].file # NoFile /\ fd[h] \notin task.locked
         /\ \/ hash[fd[h]] # NoFile
            \/ task.op = "remount" /\ task.pc = "wait" /\ task.e = fd[h]
    /\ rd[h] # NoRead => fd[h] # NULL /\ rd[h].at = tab[fd[h]].at
    /\ rd[h].how = "cache" => cbuf[rd[h].at] # Absent

FioInv ==
  /\ TypeOK /\ DiskInv /\ TabInv /\ TaskInv /\ OpenInv
  /\ CountsExact /\ LockExact /\ NothingFreedInUse

(* What a remount has done before it comes to entry task.e: the default is *)
(* the last flagged entry of those it has been through, or one it has yet  *)
(* to come to, and these entries are as on the device unless it has been   *)
(* edited since the remount began.                                         *)
Applied(e, t, d) ==
  LET flagged == {x \in Entry : x < e /\ t[x].def}
  IN  IF flagged = {} THEN d = NULL \/ d >= e
      ELSE d \in flagged /\ \A x \in flagged : x <= d

RemountInv ==
  /\ task.since <= edits
  /\ task.op = "remount" => Applied(task.e, tab, def)
  /\ task.op = "remount" /\ task.since = edits =>
       /\ task.pc # "read" => task.buf = dtab
       /\ \A x \in Entry : x < task.e => tab[x] = dtab[x] /\ hash[x] = dtab[x].file

(* Remount and a forced umount come to their end although they wait for    *)
(* files that are open.                                                    *)
RemountReturns == task.op = "remount" ~> task.op # "remount"
UmountReturns == task.op = "umount" ~> task.op # "umount"
============================================================================
