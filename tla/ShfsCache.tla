----------------------------- MODULE ShfsCache -----------------------------
(***************************************************************************)
(* The chunk cache of SHFS (shfs/shfs_cache.c, shfs_cache.h): a pool of    *)
(* buffers, a hash table of the chunks they hold, an LRU list (alist) of   *)
(* the unreferenced ones, and one asynchronous read per buffer that        *)
(* answers every caller waiting for the chunk.                             *)
(*                                                                         *)
(* The scheduler is cooperative and I/O completions are delivered only     *)
(* when somebody polls the block devices, so every function of the cache   *)
(* runs to its end without interference.  shfs_cache_aread adds up to      *)
(* 1 + ReadAhead buffers; it is three kinds of steps here, and no other    *)
(* step is enabled while `call' names a caller in the middle of it.        *)
(* shfs_cache_flush_alist polls while it waits: between its steps (flush)  *)
(* only completions run.                                                   *)
(*                                                                         *)
(* An operator whose name ends in Bug is not part of the specification: it *)
(* is the operator that follows it with a plausible mistake, and stands    *)
(* here to show which property notices that mistake.                       *)
(***************************************************************************)
EXTENDS Dlist, Integers, FiniteSets

CONSTANTS
  Buf,        \* cache entries (struct shfs_cache_entry with its buffer)
  PoolBuf,    \* those of the preallocated pool; the rest is what the heap
              \* can still give when SHFS_CACHE_GROW is set
  Handle,     \* outstanding uses of the cache, one per caller's cce pointer
  VolSize,    \* shfs_vol.volsize, the last chunk of the volume
  ReadAhead,  \* SHFS_CACHE_READAHEAD
  NbToken,    \* NB_AIOTOKEN, size of the AIO token pool
  NbReq,      \* chunk reads the members' request pools can take at a time
  IoFaults    \* may the device answer a read with an error?

Chunk  == 1 .. VolSize
NoChunk == 0                     \* address of a blank buffer

ASSUME ConstantAssumption ==
  /\ IsFiniteSet(Buf) /\ Buf # {} /\ PoolBuf \subseteq Buf /\ NULL \notin Buf
  /\ IsFiniteSet(Handle) /\ NULL \notin Handle
  /\ VolSize \in Nat /\ ReadAhead \in Nat /\ NbToken \in Nat /\ NbReq \in Nat
  /\ IoFaults \in BOOLEAN

VARIABLES
  free,      \* buffers back in the pool (or on the heap)
  addr,      \* cce->addr
  refcount,  \* cce->refcount
  invalid,   \* cce->invalid
  busy,      \* cce->t # NULL: the entry's private read is in flight
  chain,     \* cce->aio_chain: the callers whose token the read completes
  data,      \* the chunk whose bytes the buffer holds, 0 for no chunk
  clist,     \* entries linked in the hash table
  alist,     \* the list of available entries, pointer by pointer
  nbRef,     \* chunkcache->nb_ref_entries
  tokFree,   \* AIO tokens left in shfs_vol.aiotoken_pool
  cce,       \* cce[h]: the entry handle h holds a reference to
  tok,       \* tok[h]: h's chained token: "none", "infly", "ok", "err"
  want,      \* want[h]: the chunk h asked for, 0 for a blank buffer
  call,      \* the handle inside shfs_cache_aread and its read-ahead index
  flush,     \* "idle", or "run" inside shfs_cache_flush_alist
  pin,       \* the entry the flush holds at refcount 1 while it polls
  trap       \* a BUG_ON fired or the null pointer was written through

entryVars == <<free, addr, refcount, invalid, busy, chain, data>>
listVars  == <<clist, alist, nbRef>>
userVars  == <<cce, tok, want>>
ctlVars   == <<call, flush, pin, trap>>
vars == <<entryVars, listVars, tokFree, userVars, ctlVars>>

NoCall == [h |-> NULL, i |-> 0]

TypeOK ==
  /\ free \subseteq Buf
  /\ addr \in [Buf -> Chunk \cup {NoChunk}]
  /\ refcount \in [Buf -> Nat]
  /\ invalid \in [Buf -> BOOLEAN]
  /\ busy \in [Buf -> BOOLEAN]
  /\ chain \in [Buf -> SUBSET Handle]
  /\ data \in [Buf -> Chunk \cup {NoChunk}]
  /\ clist \subseteq Buf
  /\ alist \in DlType(Buf)
  /\ nbRef \in Nat
  /\ tokFree \in Nat
  /\ cce \in [Handle -> Buf \cup {NULL}]
  /\ tok \in [Handle -> {"none", "infly", "ok", "err"}]
  /\ want \in [Handle -> Chunk \cup {NoChunk}]
  /\ call \in [h : Handle \cup {NULL}, i : 0 .. ReadAhead + 1]
  /\ flush \in {"idle", "run"}
  /\ pin \in Buf \cup {NULL}
  /\ trap \in BOOLEAN

-----------------------------------------------------------------------------
(* shfs_alloc_cache: every buffer pooled, all lists empty. *)
Init ==
  /\ free = Buf
  /\ addr = [b \in Buf |-> NoChunk]
  /\ refcount = [b \in Buf |-> 0]
  /\ invalid = [b \in Buf |-> TRUE]
  /\ busy = [b \in Buf |-> FALSE]
  /\ chain = [b \in Buf |-> {}]
  /\ data = [b \in Buf |-> NoChunk]
  /\ clist = {}
  /\ alist = DlEmpty(Buf)
  /\ nbRef = 0
  /\ tokFree = NbToken
  /\ cce = [h \in Handle |-> NULL]
  /\ tok = [h \in Handle |-> "none"]
  /\ want = [h \in Handle |-> NoChunk]
  /\ call = NoCall
  /\ flush = "idle" /\ pin = NULL /\ trap = FALSE

(* The system stops at a BUG_ON or at a write through the null pointer. *)
Halt == trap' = TRUE /\ UNCHANGED <<entryVars, listVars, tokFree, userVars,
                                    call, flush, pin>>

(* A caller can enter the cache: nothing else is in the middle of it. *)
Enter == ~trap /\ call = NoCall /\ flush = "idle"

-----------------------------------------------------------------------------
(* Where a buffer comes from: shfs_cache_pick_cce takes one of the pool    *)
(* while it has any and then tries the heap, where an allocation may fail; *)
(* when it gets none, shfs_cache_add and shfs_cache_eblank evict the first *)
(* entry of the available list that has no read in flight.                 *)
PoolEmpty == free \cap PoolBuf = {}
CanPick(c) == c \in free /\ (c \in PoolBuf \/ PoolEmpty)

FirstIdle(c) ==
  /\ ~busy[c]
  /\ \E n \in 0 .. Cardinality(Buf) - 1 : \E p \in [0 .. n -> Buf] :
       DlVisits(alist, p, n) /\ p[n] = c /\ \A i \in 0 .. n - 1 : busy[p[i]]

CanEvict(c) == PoolEmpty /\ FirstIdle(c)
OutOfBuffers == PoolEmpty /\ \A c \in Buf : ~FirstIdle(c)

(* _cce_pobj_init resets a picked entry; an evicted one keeps its fields.  *)
RefOf(c) == IF c \in free THEN 0 ELSE refcount[c]
InitPicked(c) ==
  /\ invalid' = [invalid EXCEPT ![c] = @ \/ c \in free]
  /\ chain' = [chain EXCEPT ![c] = IF c \in free THEN {} ELSE @]

(* shfs_cache_find. *)
CachedBug(a) == {b \in clist : addr[b] = a /\ ~busy[b]}
Cached(a) == {b \in clist : addr[b] = a}

(* shfs_aio_chunk has a request object on every member and a token. *)
AioReady == tokFree > 0 /\ Cardinality({b \in Buf : busy[b]}) < NbReq

(* c leaves its collision list of the hash table. *)
Unhash(c) == clist' = clist \ {c}

-----------------------------------------------------------------------------
(* shfs_cache_add(a) into buffer c: c moves to the tail of the available   *)
(* list and out of the hash table, then its read is issued ...             *)
AddList(c) == IF c \in free THEN alist ELSE DlUnlink(alist, c)
AddFaults(c) == DlAppendFaults(AddList(c))
Added(c) == DlAppend(AddList(c), c)

(* ... and c is hashed, ...                                                *)
AddIssued(c, a) ==
  /\ free' = free \ {c}
  /\ addr' = [addr EXCEPT ![c] = a]
  /\ busy' = [busy EXCEPT ![c] = TRUE]
  /\ clist' = clist \cup {c}
  /\ tokFree' = tokFree - 1
  /\ InitPicked(c)
  /\ UNCHANGED data

(* ... or c goes back to the pool because no request could be set up.      *)
AddRefused(c, a) ==
  /\ free' = free \cup {c}
  /\ addr' = [addr EXCEPT ![c] = a]
  /\ refcount' = [refcount EXCEPT ![c] = RefOf(c)]
  /\ Unhash(c)
  /\ alist' = DlUnlink(Added(c), c)
  /\ InitPicked(c)
  /\ UNCHANGED <<busy, data, nbRef, tokFree>>

(* The caller of shfs_cache_aread takes a reference; the first one takes   *)
(* the entry off the available list (l is the list so far, r the count).   *)
TakeRefListedBug(c, l, r) ==
  /\ refcount' = [refcount EXCEPT ![c] = r + 1]
  /\ alist' = l
  /\ nbRef' = IF r = 0 THEN nbRef + 1 ELSE nbRef
TakeRefEachBug(c, l, r) ==
  /\ refcount' = [refcount EXCEPT ![c] = r + 1]
  /\ alist' = IF r = 0 THEN DlUnlink(l, c) ELSE l
  /\ nbRef' = nbRef + 1
TakeRef(c, l, r) ==
  /\ refcount' = [refcount EXCEPT ![c] = r + 1]
  /\ alist' = IF r = 0 THEN DlUnlink(l, c) ELSE l
  /\ nbRef' = IF r = 0 THEN nbRef + 1 ELSE nbRef

Begin(h, c, a) ==
  /\ cce' = [cce EXCEPT ![h] = c]
  /\ want' = [want EXCEPT ![h] = a]
  /\ call' = [h |-> h, i |-> 1]
  /\ UNCHANGED <<tok, flush, pin, trap>>

(* shfs_cache_aread finds the chunk in the cache. *)
AreadHit(h, a) ==
  /\ Enter /\ cce[h] = NULL
  /\ \E c \in Cached(a) :
       /\ TakeRef(c, alist, refcount[c])
       /\ Begin(h, c, a)
  /\ UNCHANGED <<free, addr, invalid, busy, chain, data, clist, tokFree>>

(* shfs_cache_aread adds the chunk.  Without a buffer or a request it      *)
(* returns -EAGAIN, in the second case after the eviction.                 *)
AreadMiss(h, a) ==
  /\ Enter /\ cce[h] = NULL /\ Cached(a) = {}
  /\ \E c \in Buf :
       /\ CanPick(c) \/ CanEvict(c)
       /\ IF AddFaults(c) THEN Halt
          ELSE IF AioReady
          THEN AddIssued(c, a) /\ TakeRef(c, Added(c), RefOf(c)) /\ Begin(h, c, a)
          ELSE AddRefused(c, a) /\ UNCHANGED <<userVars, ctlVars>>

(* One iteration of shfs_cache_readahead: it ends at the end of the volume *)
(* and at the first chunk it cannot add.                                   *)
NextAhead == call' = [call EXCEPT !.i = @ + 1]
StopAhead == call' = [call EXCEPT !.i = ReadAhead + 1]
Ahead == want[call.h] + call.i

InAread == ~trap /\ call # NoCall

ReadaheadSkip ==
  /\ InAread /\ call.i <= ReadAhead
  /\ \/ Ahead >= VolSize /\ StopAhead
     \/ Ahead < VolSize /\ Cached(Ahead) # {} /\ NextAhead
     \/ Ahead < VolSize /\ Cached(Ahead) = {} /\ OutOfBuffers /\ StopAhead
  /\ UNCHANGED <<entryVars, listVars, tokFree, userVars, flush, pin, trap>>

ReadaheadAdd ==
  /\ InAread /\ call.i <= ReadAhead
  /\ Ahead < VolSize /\ Cached(Ahead) = {}
  /\ \E c \in Buf :
       /\ CanPick(c) \/ CanEvict(c)
       /\ IF AddFaults(c) THEN Halt
          ELSE /\ IF AioReady
                  THEN /\ AddIssued(c, Ahead) /\ NextAhead
                       /\ alist' = Added(c)
                       /\ refcount' = [refcount EXCEPT ![c] = RefOf(c)]
                       /\ UNCHANGED nbRef
                  ELSE AddRefused(c, Ahead) /\ StopAhead
               /\ UNCHANGED <<userVars, flush, pin, trap>>

-----------------------------------------------------------------------------
(* Dropping a reference: the last one puts the entry back on the available *)
(* list, or destroys it (shfs_cache_unlink unless it is a blank buffer,    *)
(* and shfs_cache_put_cce).                                                *)
UnrefFaults(c, destroy) == refcount[c] = 1 /\ ~destroy /\ DlAppendFaults(alist)

Destroy(c) ==
  /\ free' = free \cup {c}
  /\ IF addr[c] = NoChunk THEN UNCHANGED <<clist, alist>>
     ELSE Unhash(c) /\ alist' = DlUnlink(alist, c)

Unref(c, destroy) ==
  /\ refcount' = [refcount EXCEPT ![c] = @ - 1]
  /\ IF refcount[c] # 1 THEN UNCHANGED <<nbRef, free, clist, alist>>
     ELSE /\ nbRef' = nbRef - 1
          /\ IF destroy THEN Destroy(c)
             ELSE alist' = DlAppend(alist, c) /\ UNCHANGED <<free, clist>>

Drop(h) ==
  /\ cce' = [cce EXCEPT ![h] = NULL]
  /\ want' = [want EXCEPT ![h] = NoChunk]

(* The end of shfs_cache_aread: the buffer is ready, or the caller gets a  *)
(* token on the entry's chain, or there is no token and the reference is   *)
(* given back (err_dec_refcount).                                          *)
AreadReturn ==
  /\ InAread /\ call.i > ReadAhead
  /\ LET h == call.h
         c == cce[call.h]
     IN  \/ /\ ~busy[c]
            /\ call' = NoCall
            /\ UNCHANGED <<entryVars, listVars, tokFree, userVars, flush, pin, trap>>
         \/ /\ busy[c] /\ tokFree > 0
            /\ chain' = [chain EXCEPT ![c] = @ \cup {h}]
            /\ tok' = [tok EXCEPT ![h] = "infly"]
            /\ tokFree' = tokFree - 1
            /\ call' = NoCall
            /\ UNCHANGED <<free, addr, refcount, invalid, busy, data, listVars,
                           cce, want, flush, pin, trap>>
         \/ /\ busy[c] /\ tokFree = 0
            /\ IF UnrefFaults(c, FALSE) THEN Halt
               ELSE /\ Unref(c, FALSE) /\ Drop(h)
                    /\ call' = NoCall
                    /\ UNCHANGED <<addr, invalid, busy, chain, data, tokFree,
                                   tok, flush, pin, trap>>

(* shfs_cache_eblank: a private buffer without an address, on no list. *)
Eblank(h) ==
  /\ Enter /\ cce[h] = NULL
  /\ \E c \in Buf :
       /\ CanPick(c) \/ CanEvict(c)
       /\ IF RefOf(c) # 0 THEN Halt
          ELSE /\ free' = free \ {c}
               /\ Unhash(c)
               /\ alist' = AddList(c)
               /\ refcount' = [refcount EXCEPT ![c] = 1]
               /\ nbRef' = nbRef + 1
               /\ addr' = [addr EXCEPT ![c] = NoChunk]
               /\ busy' = [busy EXCEPT ![c] = FALSE]
               /\ invalid' = [invalid EXCEPT ![c] = TRUE]
               /\ chain' = [chain EXCEPT ![c] = IF c \in free THEN {} ELSE @]
               /\ cce' = [cce EXCEPT ![h] = c]
               /\ UNCHANGED <<data, tokFree, tok, want, ctlVars>>

(* shfs_aio_finalize on a completed token of the caller. *)
Finalize(h) ==
  /\ Enter /\ tok[h] \in {"ok", "err"}
  /\ tok' = [tok EXCEPT ![h] = "none"]
  /\ tokFree' = tokFree + 1
  /\ UNCHANGED <<entryVars, listVars, cce, want, ctlVars>>

(* shfs_cache_release, by a caller whose token (if any) is finalized. *)
Release(h) ==
  /\ Enter /\ cce[h] # NULL /\ tok[h] = "none"
  /\ LET c == cce[h]
     IN  IF refcount[c] = 0 \/ busy[c] \/ UnrefFaults(c, invalid[c])
         THEN Halt
         ELSE /\ Unref(c, invalid[c]) /\ Drop(h)
              /\ UNCHANGED <<addr, invalid, busy, chain, data, tokFree, tok, ctlVars>>

(* shfs_cache_release_ioabort with the caller's token, done or not.  An    *)
(* unfinished token leaves the entry's chain.                              *)
UnchainBug(c, h) == UNCHANGED chain
Unchain(c, h) == chain' = [chain EXCEPT ![c] = @ \ {h}]

ReleaseIoabort(h) ==
  /\ Enter /\ cce[h] # NULL /\ tok[h] # "none"
  /\ LET c == cce[h]
         destroy == ~busy[c] /\ invalid[c]
     IN  IF \/ refcount[c] = 0
            \/ ~busy[c] /\ tok[h] = "infly"
            \/ UnrefFaults(c, destroy)
         THEN Halt
         ELSE /\ Unref(c, destroy) /\ Drop(h)
              /\ Unchain(c, h)
              /\ tok' = [tok EXCEPT ![h] = "none"]
              /\ tokFree' = tokFree + 1
              /\ UNCHANGED <<addr, invalid, busy, data, ctlVars>>

-----------------------------------------------------------------------------
(* A completion can be delivered: somebody polls the block devices.        *)
PolledBug == ~trap /\ call = NoCall /\ flush = "idle"
Polled == ~trap /\ call = NoCall

(* The read's outcome r is recorded in the entry, ...                      *)
OutcomeBug(c, r) ==
  /\ invalid' = [invalid EXCEPT ![c] = FALSE]
  /\ data' = [data EXCEPT ![c] = IF r = "ok" THEN addr[c] ELSE NoChunk]
Outcome(c, r) ==
  /\ invalid' = [invalid EXCEPT ![c] = r = "err"]
  /\ data' = [data EXCEPT ![c] = IF r = "ok" THEN addr[c] ELSE NoChunk]

(* ... and completes the token of every caller on the chain.               *)
NotifyBug(c, r) ==
  /\ chain' = [chain EXCEPT ![c] = {}]
  /\ tok' = [h \in Handle |-> IF chain[c] # {} /\ h = CHOOSE x \in chain[c] : TRUE
                              THEN r ELSE tok[h]]
Notify(c, r) ==
  /\ chain' = [chain EXCEPT ![c] = {}]
  /\ tok' = [h \in Handle |-> IF h \in chain[c] THEN r ELSE tok[h]]

(* _cce_aiocb: the device answered the entry's read.  An entry nobody      *)
(* refers to is destroyed if the read failed.                              *)
Complete(c, r) ==
  /\ Polled /\ busy[c]
  /\ r = "ok" \/ IoFaults
  /\ IF refcount[c] = 0 /\ chain[c] # {} THEN Halt
     ELSE /\ tokFree' = tokFree + 1
          /\ busy' = [busy EXCEPT ![c] = FALSE]
          /\ Outcome(c, r)
          /\ IF refcount[c] = 0 /\ r = "err"
             THEN /\ free' = free \cup {c}
                  /\ Unhash(c)
                  /\ alist' = DlUnlink(alist, c)
                  /\ UNCHANGED <<chain, tok>>
             ELSE Notify(c, r) /\ UNCHANGED <<free, clist, alist>>
          /\ UNCHANGED <<addr, refcount, nbRef, cce, want, ctlVars>>

-----------------------------------------------------------------------------
(* shfs_cache_flush_alist: from the head of the available list, wait for   *)
(* the entry's read with the reference count forced to 1 so that _cce_aiocb *)
(* keeps it, then unlink it and put it back.                               *)
FlushBegin ==
  /\ Enter
  /\ flush' = "run"
  /\ UNCHANGED <<entryVars, listVars, tokFree, userVars, call, pin, trap>>

FlushPin ==
  /\ ~trap /\ flush = "run" /\ pin = NULL
  /\ alist.first # NULL
  /\ LET c == alist.first
     IN  /\ busy[c]
         /\ refcount' = [refcount EXCEPT ![c] = 1]
         /\ pin' = c
  /\ UNCHANGED <<free, addr, invalid, busy, chain, data, listVars, tokFree,
                 userVars, call, flush, trap>>

FlushDrop ==
  /\ ~trap /\ flush = "run"
  /\ \E c \in Buf :
         /\ c = IF pin # NULL THEN pin ELSE alist.first
         /\ ~busy[c]
         /\ IF pin = NULL /\ refcount[c] # 0 THEN Halt
            ELSE /\ refcount' = [refcount EXCEPT ![c] = 0]
                 /\ pin' = NULL
                 /\ free' = free \cup {c}
                 /\ Unhash(c)
                 /\ alist' = DlUnlink(alist, c)
                 /\ UNCHANGED <<addr, invalid, busy, chain, data, nbRef, tokFree,
                                userVars, call, flush, trap>>

FlushEndBug ==
  /\ ~trap /\ flush = "run"
  /\ pin = NULL /\ (alist.first # NULL => busy[alist.first])
  /\ flush' = "idle"
  /\ UNCHANGED <<entryVars, listVars, tokFree, userVars, call, pin, trap>>
FlushEnd ==
  /\ ~trap /\ flush = "run"
  /\ pin = NULL /\ alist.first = NULL
  /\ flush' = "idle"
  /\ UNCHANGED <<entryVars, listVars, tokFree, userVars, call, pin, trap>>

-----------------------------------------------------------------------------
Aread   == AreadReturn \/ ReadaheadSkip \/ ReadaheadAdd
Flushing == FlushPin \/ FlushDrop \/ FlushEnd

Next ==
  \/ \E h \in Handle, a \in Chunk : AreadHit(h, a) \/ AreadMiss(h, a)
  \/ Aread
  \/ \E h \in Handle : Eblank(h) \/ Finalize(h) \/ Release(h) \/ ReleaseIoabort(h)
  \/ \E c \in Buf, r \in {"ok", "err"} : Complete(c, r)
  \/ FlushBegin \/ Flushing

Spec == Init /\ [][Next]_vars

(* A function of the cache that has been entered returns.  The device      *)
(* answers every read, and whoever waits for one polls the device each     *)
(* time it is scheduled (shfs_aio_wait, shfs_cache_flush_alist): a read is  *)
(* completed although the scheduler lets other callers through the cache   *)
(* in between, hence SF.  Nothing is assumed of the callers.               *)
Fairness ==
  /\ WF_vars(Aread)
  /\ WF_vars(Flushing)
  /\ \A c \in Buf : SF_vars(\E r \in {"ok", "err"} : Complete(c, r))

FairSpec == Spec /\ Fairness

-----------------------------------------------------------------------------
Held(b) == {h \in Handle : cce[h] = b}
Holding(h) == cce[h] # NULL /\ call.h # h

(* Every reference is somebody's: cce->refcount is the number of handles   *)
(* (callers that have not released yet), plus the flush's own pin.  One    *)
(* too few and a buffer in use is evicted, one too many and it is lost.    *)
RefcountExact ==
  \A b \in Buf : refcount[b] = Cardinality(Held(b)) + (IF pin = b THEN 1 ELSE 0)

(* nb_ref_entries, which umount_shfs trusts to tell whether buffers are    *)
(* still in use, counts the entries some handle refers to.                 *)
NbRefExact == nbRef = Cardinality({b \in Buf : Held(b) # {}})

(* What mempool_put takes back is really unused: not hashed, not the       *)
(* target of a read in flight, waited for by nobody, held by nobody.       *)
PooledIsUnused ==
  \A b \in free : b \notin clist /\ ~busy[b] /\ chain[b] = {} /\ Held(b) = {}

(* Two callers of one chunk share a buffer: the hash table never holds a   *)
(* chunk twice, however adds, evictions and failed reads interleave.       *)
OneBufferPerChunk == \A b, c \in clist : addr[b] = addr[c] => b = c

(* No lost wakeup: the callers on an entry's chain are the ones whose      *)
(* token is in flight, and their entry's read still is.                    *)
ChainExact ==
  \A b \in Buf : /\ chain[b] = {h \in Held(b) : tok[h] = "infly"}
                 /\ chain[b] # {} => busy[b]

(* AIO tokens are neither leaked nor put back twice: each is in the pool,  *)
(* an entry's private one, or a caller's.                                  *)
TokensConserved ==
  NbToken = tokFree + Cardinality({b \in Buf : busy[b]})
                    + Cardinality({h \in Handle : tok[h] # "none"})

(* What a caller reads is the chunk it asked for: once its read is done    *)
(* and not reported as failed or invalid, the buffer has the chunk's bytes *)
(* for as long as the handle is held.                                      *)
ReadReturnsChunk ==
  \A h \in Handle :
    Holding(h) /\ want[h] # NoChunk /\ tok[h] # "infly" =>
      IF invalid[cce[h]] THEN tok[h] # "ok"
      ELSE tok[h] # "err" /\ data[cce[h]] = want[h]

(* A blank buffer is never shared (shfs_cache.h, shfs_cache_eblank).       *)
BlankIsPrivate ==
  \A h \in Handle : Holding(h) /\ want[h] = NoChunk =>
     Held(cce[h]) = {h} /\ cce[h] \notin clist /\ ~busy[cce[h]]

(* The available list, walked in either direction, is exactly the entries  *)
(* outside the pool that nobody refers to (shfs_cache.h: "list of          *)
(* available (loaded) but unreferenced entries"), each of them once.       *)
Unreferenced == {b \in Buf \ free : Held(b) = {}}
AlistExact ==
  IF Unreferenced = {} THEN alist.first = NULL /\ alist.last = NULL
  ELSE LET n == Cardinality(Unreferenced) - 1
       IN  \E p \in [0 .. n -> Unreferenced] :
             /\ \A i, j \in 0 .. n : p[i] = p[j] => i = j
             /\ DlVisits(alist, p, n) /\ alist.next[p[n]] = NULL
             /\ DlVisitsReverse(alist, p, n) /\ alist.prev[p[0]] = NULL

(* Even where reads fail, no BUG_ON or ASSERT of the cache can fire: the   *)
(* system only ever stops because the available list has lost its tail and *)
(* dlist_append writes through it.                                         *)
OnlyListTraps == [][trap' /\ ~trap => DlAppendFaults(alist)]_vars

(* A buffer in use is never taken away: while a handle refers to an entry, *)
(* the entry keeps its chunk, and its bytes change only by the completion  *)
(* of the read that was in flight.                                         *)
HeldIsStable ==
  [][\A h \in Handle : cce[h] # NULL /\ cce'[h] = cce[h] =>
       /\ addr'[cce[h]] = addr[cce[h]]
       /\ data'[cce[h]] # data[cce[h]] => busy[cce[h]] /\ ~busy'[cce[h]]]_vars

(* shfs_flush_cache "releases unreferenced buffers": when it returns, every *)
(* buffer outside the pool is referenced, so that shfs_free_cache can      *)
(* release the pool once nb_ref_entries is 0.                              *)
FlushReleases ==
  [][flush = "run" /\ flush' = "idle" => \A b \in Buf \ free : refcount[b] > 0]_vars

(* The cache implements its contract: a handle stands for what its caller  *)
(* can see of it, which is nothing before shfs_cache_aread returns.        *)
ViewOf(h) ==
  LET c == cce[h]
      is(s, b) == [st |-> s, chunk |-> want[h], bytes |-> b]
  IN  IF want[h] = NoChunk THEN is("blank", 0)
      ELSE IF tok[h] = "infly" THEN is("waiting", 0)
      ELSE IF invalid[c] THEN is("failed", 0)
      ELSE is("ready", data[c])

Contract == INSTANCE ChunkReads WITH
  NbBuf <- Cardinality(Buf),
  view  <- [h \in Handle |-> IF Holding(h) THEN ViewOf(h)
                             ELSE [st |-> "idle", chunk |-> 0, bytes |-> 0]]

(* shfs_cache.h's comments on shfs_cache_aread, shfs_cache_eblank and      *)
(* shfs_cache_release, as one abstract specification.                      *)
ImplementsContract == Contract!Spec

-----------------------------------------------------------------------------
(* The inductive invariant behind the safety properties.  It holds whether *)
(* or not reads fail, so it says of the available list only what survives  *)
(* a failed read: whatever the list still reaches is unreferenced.         *)
ListInv ==
  /\ DlConsistent(alist, Buf)
  /\ \A b \in Buf : b \in free \/ Held(b) # {} => DlDetached(alist, b)

EntryInv ==
  \A b \in Buf :
    /\ b \notin free => (b \in clist <=> addr[b] # NoChunk)
    /\ b \notin free /\ addr[b] = NoChunk =>
         invalid[b] /\ ~busy[b] /\ \E h \in Handle : Held(b) = {h}
    /\ b \notin free /\ ~busy[b] /\ ~invalid[b] => data[b] = addr[b]

HandleInv ==
  \A h \in Handle :
    /\ cce[h] = NULL => tok[h] = "none" /\ want[h] = NoChunk /\ call.h # h
    /\ cce[h] # NULL =>
         /\ cce[h] \notin free
         /\ want[h] = addr[cce[h]]
         /\ call.h = h => want[h] # NoChunk /\ tok[h] = "none"
         /\ call.h # h => (busy[cce[h]] <=> tok[h] = "infly")
         /\ tok[h] = "ok" => ~invalid[cce[h]]
         /\ tok[h] = "err" => invalid[cce[h]]

CtlInv ==
  /\ call.h = NULL => call = NoCall
  /\ call # NoCall => flush = "idle"
  /\ pin # NULL => flush = "run" /\ pin \notin free /\ Held(pin) = {}

IInv ==
  /\ TypeOK /\ ListInv /\ EntryInv /\ HandleInv /\ CtlInv
  /\ PooledIsUnused /\ OneBufferPerChunk /\ ChainExact
  /\ RefcountExact /\ NbRefExact /\ TokensConserved

(* What holds besides where no read fails: an entry with a chunk is valid  *)
(* or being read, so that releasing it never destroys it.  With this       *)
(* AlistExact is inductive.                                                *)
ReadInv == \A b \in Buf \ free : invalid[b] /\ ~busy[b] => addr[b] = NoChunk

(* What the contract needs besides of failed reads: their entry is kept    *)
(* only for a caller that was told of the failure, or for the flush.       *)
FailedInv ==
  \A b \in Buf \ free :
    invalid[b] /\ ~busy[b] /\ addr[b] # NoChunk =>
      pin = b \/ \E h \in Held(b) : Holding(h)

(* A caller that got a token is answered.                                  *)
WaiterAnswered == \A h \in Handle : tok[h] = "infly" ~> tok[h] # "infly"

(* shfs_flush_cache returns although it waits for reads in flight.         *)
FlushReturns == flush = "run" ~> flush = "idle"
============================================================================
