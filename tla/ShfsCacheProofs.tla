-------------------------- MODULE ShfsCacheProofs --------------------------
(***************************************************************************)
(* The safety of the chunk cache for every number of buffers, callers,     *)
(* chunks, tokens and read-ahead: IInv of ShfsCache is inductive, and the  *)
(* properties its runs check follow from it; the cache implements          *)
(* ChunkReads; and its list is in order where no read fails.               *)
(***************************************************************************)
EXTENDS ShfsCache, DlistProofs, Counting

USE DEF Unhash, Unchain, Outcome, Notify, Polled

(* The parts of the invariant that count: a reference count against the    *)
(* holders of the entry.                                                   *)
LEMMA HeldFacts ==
  ASSUME ConstantAssumption, NEW b \in Buf
  PROVE  /\ Held(b) \in SUBSET Handle /\ IsFiniteSet(Held(b))
         /\ Cardinality(Held(b)) \in Nat
         /\ Cardinality(Held(b)) = 0 <=> Held(b) = {}
<1>1. Held(b) \in SUBSET Handle /\ IsFiniteSet(Handle)
  BY DEF Held, ConstantAssumption
<1>2. IsFiniteSet(Held(b))
  BY <1>1, FS_Subset
<1>3. QED
  BY <1>1, <1>2, FS_CardinalityType, FS_EmptySet

(* An entry the list reaches is neither pooled nor held. *)
LEMMA FirstIdleIsUnused ==
  ASSUME ConstantAssumption, IInv, NEW c \in Buf, FirstIdle(c)
  PROVE  c \notin free /\ Held(c) = {} /\ ~busy[c]
<1>1. PICK n \in 0 .. Cardinality(Buf) - 1 : \E p \in [0 .. n -> Buf] :
        DlVisits(alist, p, n) /\ p[n] = c
  BY DEF FirstIdle
<1>2. PICK p \in [0 .. n -> Buf] : DlVisits(alist, p, n) /\ p[n] = c
  BY <1>1
<1>3. n \in Nat /\ NULL \notin Buf /\ alist \in DlType(Buf) /\ DlConsistent(alist, Buf)
  BY DEF ConstantAssumption, IInv, TypeOK, ListInv
<1>4. ~DlDetached(alist, c)
  BY <1>2, <1>3, DlVisitsLinked
<1>5. QED
  BY <1>4 DEF IInv, ListInv, FirstIdle

(* The same for the head of the list, which shfs_cache_flush_alist takes.  *)
LEMMA FirstIsUnused ==
  ASSUME ConstantAssumption, IInv, alist.first # NULL
  PROVE  alist.first \in Buf \ free /\ Held(alist.first) = {}
<1>1. alist.first \in Buf
  BY DlFields DEF IInv, TypeOK
<1>2. ~DlDetached(alist, alist.first)
  BY DEF DlDetached
<1>3. QED
  BY <1>1, <1>2 DEF IInv, ListInv

(* shfs_alloc_cache establishes the invariant. *)
LEMMA InitIInv == ConstantAssumption /\ Init => IInv
<1> SUFFICES ASSUME ConstantAssumption, Init PROVE IInv
  OBVIOUS
<1>1. /\ alist \in DlType(Buf) /\ DlConsistent(alist, Buf)
      /\ \A b \in Buf : DlDetached(alist, b)
  BY DlEmptyFacts DEF Init, ConstantAssumption
<1>2. \A b \in Buf : Held(b) = {}
  BY DEF Init, Held, ConstantAssumption
<1>3. TypeOK
  <2>1. call \in [h : Handle \cup {NULL}, i : 0 .. ReadAhead + 1]
    BY DEF Init, NoCall, ConstantAssumption
  <2>2. NoChunk \in Chunk \cup {NoChunk} /\ tokFree \in Nat /\ nbRef \in Nat
    BY DEF Init, ConstantAssumption
  <2>3. QED
    BY <1>1, <2>1, <2>2 DEF Init, TypeOK
<1>4. ListInv /\ EntryInv /\ PooledIsUnused
  BY <1>1, <1>2 DEF Init, ListInv, EntryInv, PooledIsUnused
<1>5. HandleInv /\ CtlInv /\ OneBufferPerChunk
  BY DEF Init, HandleInv, CtlInv, OneBufferPerChunk, NoCall, ConstantAssumption
<1>6. ChainExact
  BY <1>2 DEF Init, ChainExact
<1>7. RefcountExact
  <2>1. \A b \in Buf : refcount[b] = 0 /\ pin # b
    BY DEF Init, ConstantAssumption
  <2>2. Cardinality({}) = 0
    BY FS_EmptySet
  <2>3. QED
    BY <1>2, <2>1, <2>2 DEF RefcountExact
<1>8. NbRefExact
  <2>1. {b \in Buf : Held(b) # {}} = {}
    BY <1>2
  <2>2. QED
    BY <2>1, FS_EmptySet DEF Init, NbRefExact
<1>9. TokensConserved
  <2>1. {b \in Buf : busy[b]} = {} /\ {h \in Handle : tok[h] # "none"} = {}
    BY DEF Init
  <2>2. Cardinality({}) = 0
    BY FS_EmptySet
  <2>3. QED
    <3>1. tokFree = NbToken /\ NbToken \in Nat
      BY DEF Init, ConstantAssumption
    <3>2. QED
      BY <2>1, <2>2, <3>1 DEF TokensConserved
<1>10. QED
  BY <1>3, <1>4, <1>5, <1>6, <1>7, <1>8, <1>9 DEF IInv

(* A step that only stops the system, or nothing at all. *)
LEMMA UnchangedIInv ==
  ASSUME IInv, UNCHANGED <<entryVars, listVars, tokFree, userVars, call, flush, pin>>,
         trap' \in BOOLEAN
  PROVE  IInv'
BY DEF IInv, TypeOK, ListInv, EntryInv, HandleInv, CtlInv, PooledIsUnused,
       OneBufferPerChunk, ChainExact, RefcountExact, NbRefExact, TokensConserved,
       entryVars, listVars, userVars, Held

(* shfs_aio_finalize. *)
LEMMA FinalizeIInv ==
  ASSUME ConstantAssumption, IInv, NEW h \in Handle, Finalize(h)
  PROVE  IInv'
<1> USE DEF Finalize, entryVars, listVars, ctlVars
<1>1. TypeOK'
  BY DEF IInv, TypeOK
<1>2. \A b \in Buf : Held(b)' = Held(b)
  BY DEF Held
<1>3. ListInv' /\ EntryInv' /\ PooledIsUnused' /\ OneBufferPerChunk' /\ CtlInv'
  <2>1. ListInv'
    BY <1>2 DEF IInv, ListInv
  <2>2. EntryInv'
    BY <1>2 DEF IInv, EntryInv
  <2>3. PooledIsUnused'
    BY <1>2 DEF IInv, PooledIsUnused, TypeOK
  <2>4. OneBufferPerChunk'
    BY DEF IInv, OneBufferPerChunk
  <2>5. CtlInv'
    BY <1>2 DEF IInv, CtlInv, TypeOK
  <2>6. QED
    BY <2>1, <2>2, <2>3, <2>4, <2>5
<1>4. HandleInv'
  BY DEF IInv, HandleInv, TypeOK, Enter
<1>5. ChainExact'
  BY <1>2 DEF IInv, ChainExact, TypeOK
<1>6. RefcountExact' /\ NbRefExact'
  BY <1>2 DEF IInv, RefcountExact, NbRefExact
<1>7. TokensConserved'
  <2>1. Cardinality({k \in Handle : tok[k] # "none"}) =
          Cardinality({k \in Handle : tok'[k] # "none"}) + 1
        /\ Cardinality({k \in Handle : tok'[k] # "none"}) \in Nat
    BY CountUp, SMTT(30) DEF ConstantAssumption, IInv, TypeOK
  <2>2. QED
    BY <2>1, FS_CardinalityType, FS_Subset DEF IInv, TokensConserved, TypeOK, ConstantAssumption
<1>8. QED
  BY <1>1, <1>3, <1>4, <1>5, <1>6, <1>7 DEF IInv

(* Where a step can run: no other function of the cache is in its middle.  *)
LEMMA EnterFacts ==
  ASSUME ConstantAssumption, IInv, Enter
  PROVE  call = NoCall /\ call.h = NULL /\ pin = NULL /\ NULL \notin Handle
BY DEF IInv, CtlInv, Enter, NoCall, ConstantAssumption

LEMMA InAreadFacts ==
  ASSUME ConstantAssumption, IInv, InAread
  PROVE  /\ call \in [h : Handle, i : 0 .. ReadAhead + 1] /\ flush = "idle" /\ pin = NULL
         /\ cce[call.h] \in Buf \ free /\ want[call.h] \in Chunk /\ tok[call.h] = "none"
<1>1. call.h \in Handle /\ call # NoCall /\ flush = "idle" /\ pin = NULL
  BY DEF IInv, CtlInv, InAread, TypeOK
<1>2. cce[call.h] # NULL /\ want[call.h] # NoChunk /\ tok[call.h] = "none"
      /\ cce[call.h] \notin free
  BY <1>1 DEF IInv, HandleInv
<1>3. cce[call.h] \in Buf \cup {NULL} /\ want[call.h] \in Chunk \cup {NoChunk}
      /\ call \in [h : Handle \cup {NULL}, i : 0 .. ReadAhead + 1]
  BY <1>1 DEF IInv, TypeOK
<1>4. QED
  BY <1>1, <1>2, <1>3

(* Without the flush's pin, the unreferenced entries are those nobody holds. *)
LEMMA RefcountFacts ==
  ASSUME ConstantAssumption, IInv, NEW b \in Buf, pin # b
  PROVE  /\ refcount[b] = Cardinality(Held(b)) /\ refcount[b] \in Nat
         /\ refcount[b] = 0 <=> Held(b) = {}
BY HeldFacts DEF IInv, RefcountExact

(* A buffer shfs_cache_add or shfs_cache_eblank can take, and the list     *)
(* without it.                                                             *)
LEMMA SpareFacts ==
  ASSUME ConstantAssumption, IInv, pin = NULL, NEW c \in Buf, CanPick(c) \/ CanEvict(c)
  PROVE  /\ Held(c) = {} /\ refcount[c] = 0 /\ RefOf(c) = 0 /\ ~busy[c] /\ chain[c] = {}
         /\ AddList(c) \in DlType(Buf) /\ DlConsistent(AddList(c), Buf)
         /\ DlDetached(AddList(c), c)
         /\ \A x \in Buf : DlDetached(alist, x) => DlDetached(AddList(c), x)
<1>1. Held(c) = {} /\ ~busy[c]
  <2>1. CASE c \in free
    BY <2>1 DEF IInv, PooledIsUnused
  <2>2. CASE c \notin free
    BY <2>2, FirstIdleIsUnused DEF CanPick, CanEvict
  <2>3. QED
    BY <2>1, <2>2
<1>2. pin # c
  BY DEF ConstantAssumption
<1>3. refcount[c] = 0 /\ RefOf(c) = 0
  BY <1>1, <1>2, RefcountFacts DEF RefOf
<1>4. chain[c] = {}
  BY <1>1 DEF IInv, ChainExact
<1>5. alist \in DlType(Buf) /\ DlConsistent(alist, Buf) /\ NULL \notin Buf
  BY DEF IInv, ListInv, TypeOK, ConstantAssumption
<1>6. /\ AddList(c) \in DlType(Buf) /\ DlConsistent(AddList(c), Buf)
      /\ DlDetached(AddList(c), c)
      /\ \A x \in Buf : DlDetached(alist, x) => DlDetached(AddList(c), x)
  <2>1. CASE c \in free
    BY <2>1, <1>5 DEF AddList, IInv, ListInv
  <2>2. CASE c \notin free
    BY <2>2, <1>5, DlUnlinkFacts DEF AddList
  <2>3. QED
    BY <2>1, <2>2
<1>7. QED
  BY <1>1, <1>3, <1>4, <1>6

(* c at the tail of the list, as shfs_cache_add leaves it. *)
LEMMA AddedFacts ==
  ASSUME ConstantAssumption, IInv, pin = NULL, NEW c \in Buf, CanPick(c) \/ CanEvict(c),
         ~AddFaults(c)
  PROVE  /\ Added(c) \in DlType(Buf) /\ DlConsistent(Added(c), Buf)
         /\ \A x \in Buf \ {c} : DlDetached(alist, x) => DlDetached(Added(c), x)
<1>1. NULL \notin Buf
  BY DEF ConstantAssumption
<1>2. QED
  BY <1>1, SpareFacts, DlAppendFacts DEF Added, AddFaults

(* A handle that begins to refer to c is counted. *)
LEMMA HoldCounts ==
  ASSUME ConstantAssumption, IInv, NEW h \in Handle, cce[h] = NULL, NEW c \in Buf,
         cce' = [cce EXCEPT ![h] = c], pin = NULL, pin' = NULL,
         refcount' = [refcount EXCEPT ![c] = @ + 1],
         nbRef' = IF refcount[c] = 0 THEN nbRef + 1 ELSE nbRef
  PROVE  /\ Held(c)' = Held(c) \cup {h}
         /\ \A b \in Buf \ {c} : Held(b)' = Held(b)
         /\ RefcountExact' /\ NbRefExact'
<1>1. cce \in [Handle -> Buf \cup {NULL}] /\ refcount \in [Buf -> Nat] /\ nbRef \in Nat
      /\ NULL \notin Buf /\ IsFiniteSet(Handle) /\ IsFiniteSet(Buf)
  BY DEF IInv, TypeOK, ConstantAssumption
<1>2. Held(c)' = Held(c) \cup {h} /\ h \notin Held(c)
  BY <1>1 DEF Held
<1>3. ASSUME NEW b \in Buf \ {c} PROVE Held(b)' = Held(b)
  BY <1>1, <1>3 DEF Held
<1>4. RefcountExact'
  <2>1. Cardinality(Held(c)') = Cardinality(Held(c)) + 1
    BY <1>2, HeldFacts, FS_AddElement
  <2>2. \A b \in Buf : refcount[b] = Cardinality(Held(b)) /\ pin' # b
    BY <1>1, RefcountFacts
  <2>3. \A b \in Buf : Cardinality(Held(b)') \in Nat
    BY <2>1, <1>3, HeldFacts
  <2>4. QED
    BY <1>1, <1>3, <2>1, <2>2, <2>3 DEF RefcountExact
<1>5. NbRefExact'
  <2> DEFINE R == {b \in Buf : Held(b) # {}}
  <2>1. /\ nbRef = Cardinality(R)
        /\ refcount[c] = 0 <=> c \notin R
    BY <1>1, RefcountFacts DEF IInv, NbRefExact
  <2>2. R' = R \cup {c}
    BY <1>2, <1>3
  <2>3. R \in SUBSET Buf /\ R' \in SUBSET Buf
    OBVIOUS
  <2> HIDE DEF R
  <2>4. nbRef' = Cardinality(R')
    <3>1. IsFiniteSet(R)
      BY <2>3, <1>1, FS_Subset
    <3>2. QED
      BY <3>1, <2>1, <2>2, FS_AddElement
  <2>5. QED
    BY <2>4 DEF NbRefExact, R
<1>6. QED
  BY <1>2, <1>3, <1>4, <1>5

(* A handle that stops referring to an entry is no longer counted. *)
LEMMA DropCounts ==
  ASSUME ConstantAssumption, IInv, NEW h \in Handle, NEW c \in Buf, cce[h] = c,
         cce' = [cce EXCEPT ![h] = NULL], pin = NULL, pin' = NULL,
         refcount' = [refcount EXCEPT ![c] = @ - 1],
         nbRef' = IF refcount[c] = 1 THEN nbRef - 1 ELSE nbRef
  PROVE  /\ Held(c)' = Held(c) \ {h}
         /\ \A b \in Buf \ {c} : Held(b)' = Held(b)
         /\ refcount[c] = 1 <=> Held(c)' = {}
         /\ refcount' \in [Buf -> Nat] /\ nbRef' \in Nat
         /\ RefcountExact' /\ NbRefExact'
<1>1. cce \in [Handle -> Buf \cup {NULL}] /\ refcount \in [Buf -> Nat] /\ nbRef \in Nat
      /\ NULL \notin Buf /\ IsFiniteSet(Handle) /\ IsFiniteSet(Buf)
  BY DEF IInv, TypeOK, ConstantAssumption
<1>2. Held(c)' = Held(c) \ {h} /\ h \in Held(c)
  BY <1>1 DEF Held
<1>3. ASSUME NEW b \in Buf \ {c} PROVE Held(b)' = Held(b)
  BY <1>1, <1>3 DEF Held
<1>4. /\ Cardinality(Held(c)') = Cardinality(Held(c)) - 1
      /\ Cardinality(Held(c)') \in Nat
      /\ Cardinality(Held(c)') = 0 <=> Held(c)' = {}
  <2>1. IsFiniteSet(Held(c))
    BY HeldFacts
  <2>2. /\ IsFiniteSet(Held(c) \ {h})
        /\ Cardinality(Held(c) \ {h}) = Cardinality(Held(c)) - 1
    BY <1>2, <2>1, FS_RemoveElement
  <2>3. QED
    BY <1>2, <2>2, FS_CardinalityType, FS_EmptySet
<1>5. \A b \in Buf : refcount[b] = Cardinality(Held(b)) /\ pin' # b
  BY <1>1, RefcountFacts
<1>6. (refcount[c] = 1 <=> Held(c)' = {}) /\ refcount' \in [Buf -> Nat]
  <2>1. refcount[c] - 1 = Cardinality(Held(c)') /\ refcount[c] \in Nat
    BY <1>1, <1>4, <1>5
  <2>2. refcount[c] = 1 <=> Held(c)' = {}
    <3>1. Cardinality(Held(c)') = 0 <=> refcount[c] = 1
      BY <2>1
    <3>2. QED
      BY <1>4, <3>1
  <2>3. refcount[c] - 1 \in Nat
    BY <1>4, <2>1
  <2>4. QED
    BY <1>1, <2>2, <2>3
<1>7. RefcountExact'
  BY <1>1, <1>3, <1>4, <1>5, <1>6 DEF RefcountExact
<1>8. NbRefExact' /\ nbRef' \in Nat
  <2> DEFINE R == {b \in Buf : Held(b) # {}}
  <2>1. nbRef = Cardinality(R) /\ c \in R
    BY <1>2 DEF IInv, NbRefExact
  <2>2. R' = IF Held(c)' = {} THEN R \ {c} ELSE R
    BY <1>2, <1>3
  <2>3. R \in SUBSET Buf
    OBVIOUS
  <2> HIDE DEF R
  <2>4. nbRef' = Cardinality(R') /\ nbRef' \in Nat
    <3>1. IsFiniteSet(R) /\ IsFiniteSet(R \ {c})
      BY <2>3, <1>1, FS_Subset
    <3>2. Cardinality(R \ {c}) = Cardinality(R) - 1 /\ Cardinality(R \ {c}) \in Nat
      BY <3>1, <2>1, FS_RemoveElement, FS_CardinalityType
    <3>3. QED
      BY <3>2, <2>1, <2>2, <1>1, <1>6
  <2>5. QED
    BY <2>4 DEF NbRefExact, R
<1>9. QED
  BY <1>2, <1>3, <1>6, <1>7, <1>8
(* shfs_cache_aread of a cached chunk. *)
LEMMA AreadHitIInv ==
  ASSUME ConstantAssumption, IInv, NEW h \in Handle, NEW a \in Chunk, AreadHit(h, a)
  PROVE  IInv'
<1>1. PICK c \in Cached(a) : TakeRef(c, alist, refcount[c]) /\ Begin(h, c, a)
  BY DEF AreadHit
<1>2. /\ c \in Buf /\ c \in clist /\ addr[c] = a /\ a # NoChunk
      /\ cce[h] = NULL /\ call = NoCall /\ call.h = NULL /\ pin = NULL /\ NULL \notin Handle
      /\ NULL \notin Buf /\ cce \in [Handle -> Buf \cup {NULL}]
      /\ c \notin free
  BY <1>1, EnterFacts DEF AreadHit, Cached, IInv, TypeOK, PooledIsUnused, Chunk, NoChunk,
                          ConstantAssumption
<1>3. /\ UNCHANGED <<free, addr, invalid, busy, chain, data, clist, tokFree, tok,
                     flush, pin, trap>>
      /\ cce' = [cce EXCEPT ![h] = c] /\ want' = [want EXCEPT ![h] = a]
      /\ call' = [h |-> h, i |-> 1]
      /\ refcount' = [refcount EXCEPT ![c] = @ + 1]
      /\ alist' = IF refcount[c] = 0 THEN DlUnlink(alist, c) ELSE alist
      /\ nbRef' = IF refcount[c] = 0 THEN nbRef + 1 ELSE nbRef
  BY <1>1 DEF AreadHit, TakeRef, Begin
<1>4. /\ Held(c)' = Held(c) \cup {h}
      /\ \A b \in Buf \ {c} : Held(b)' = Held(b)
      /\ RefcountExact' /\ NbRefExact'
  BY <1>2, <1>3, HoldCounts
<1>5. /\ alist' \in DlType(Buf) /\ DlConsistent(alist', Buf) /\ DlDetached(alist', c)
      /\ \A x \in Buf : DlDetached(alist, x) => DlDetached(alist', x)
  <2>1. alist \in DlType(Buf) /\ DlConsistent(alist, Buf) /\ c \in Buf /\ pin # c
    BY <1>2 DEF IInv, ListInv, TypeOK
  <2>2. CASE refcount[c] = 0
    BY <2>1, <2>2, <1>2, <1>3, DlUnlinkFacts
  <2>3. CASE refcount[c] # 0
    BY <2>1, <2>3, <1>3, RefcountFacts DEF IInv, ListInv
  <2>4. QED
    BY <2>2, <2>3
<1>6. TypeOK'
  <2>1. call' \in [h : Handle \cup {NULL}, i : 0 .. ReadAhead + 1]
    BY <1>3 DEF ConstantAssumption
  <2>2. refcount' \in [Buf -> Nat] /\ nbRef' \in Nat
    BY <1>2, <1>3 DEF IInv, TypeOK
  <2>3. cce' \in [Handle -> Buf \cup {NULL}] /\ want' \in [Handle -> Chunk \cup {NoChunk}]
    BY <1>2, <1>3 DEF IInv, TypeOK
  <2>4. QED
    BY <1>3, <1>5, <2>1, <2>2, <2>3 DEF IInv, TypeOK
<1>7. ListInv'
  BY <1>2, <1>3, <1>4, <1>5 DEF IInv, ListInv
<1>8. EntryInv'
  BY <1>2, <1>3, <1>4 DEF IInv, EntryInv
<1>9. HandleInv'
  BY <1>2, <1>3 DEF IInv, HandleInv, TypeOK
<1>10. CtlInv'
  BY <1>2, <1>3 DEF IInv, CtlInv, NoCall, AreadHit, Enter
<1>11. PooledIsUnused' /\ OneBufferPerChunk'
  <2>1. PooledIsUnused'
    BY <1>2, <1>3, <1>4 DEF IInv, PooledIsUnused, TypeOK
  <2>2. OneBufferPerChunk'
    BY <1>3 DEF IInv, OneBufferPerChunk
  <2>3. QED
    BY <2>1, <2>2
<1>12. ChainExact'
  <2>1. tok[h] = "none"
    BY <1>2 DEF IInv, HandleInv
  <2>2. QED
    BY <1>2, <1>3, <1>4, <2>1 DEF IInv, ChainExact
<1>13. TokensConserved'
  BY <1>3 DEF IInv, TokensConserved
<1>14. QED
  BY <1>4, <1>6, <1>7, <1>8, <1>9, <1>10, <1>11, <1>12, <1>13 DEF IInv
(* shfs_cache_add could not set up the read: nothing but the buffer it     *)
(* tried to use has changed, and that one is pooled and on no list.        *)
LEMMA AddRefusedIInv ==
  ASSUME ConstantAssumption, IInv, pin = NULL, NEW c \in Buf, CanPick(c) \/ CanEvict(c),
         ~AddFaults(c), NEW a \in Chunk, AddRefused(c, a), UNCHANGED <<userVars, flush, pin, trap>>,
         call' \in [h : Handle \cup {NULL}, i : 0 .. ReadAhead + 1], call'.h = call.h,
         call'.h = NULL => call' = NoCall, call' # NoCall => flush = "idle"
  PROVE  IInv'
<1>1. /\ free' = free \cup {c} /\ clist' = clist \ {c}
      /\ addr' = [addr EXCEPT ![c] = a]
      /\ refcount' = [refcount EXCEPT ![c] = RefOf(c)]
      /\ alist' = DlUnlink(Added(c), c)
      /\ invalid' = [invalid EXCEPT ![c] = @ \/ c \in free]
      /\ chain' = [chain EXCEPT ![c] = IF c \in free THEN {} ELSE @]
      /\ UNCHANGED <<busy, data, nbRef, tokFree, cce, tok, want, flush, pin, trap>>
  BY DEF AddRefused, InitPicked, userVars
<1>2. Held(c) = {} /\ refcount[c] = 0 /\ RefOf(c) = 0 /\ ~busy[c] /\ chain[c] = {}
  BY SpareFacts
<1>3. refcount' = refcount /\ chain' = chain
  BY <1>1, <1>2 DEF IInv, TypeOK
<1>4. \A b \in Buf : Held(b)' = Held(b)
  BY <1>1 DEF Held
<1>5. /\ alist' \in DlType(Buf) /\ DlConsistent(alist', Buf) /\ DlDetached(alist', c)
      /\ \A x \in Buf : DlDetached(alist, x) => DlDetached(alist', x)
  <2>1. /\ Added(c) \in DlType(Buf) /\ DlConsistent(Added(c), Buf) /\ NULL \notin Buf
        /\ \A x \in Buf \ {c} : DlDetached(alist, x) => DlDetached(Added(c), x)
    BY AddedFacts DEF ConstantAssumption
  <2>2. QED
    BY <1>1, <2>1, DlUnlinkFacts
<1>6. TypeOK'
  <2>1. addr' \in [Buf -> Chunk \cup {NoChunk}] /\ invalid' \in [Buf -> BOOLEAN]
    BY <1>1 DEF IInv, TypeOK
  <2>2. QED
    BY <1>1, <1>3, <1>5, <2>1 DEF IInv, TypeOK
<1>7. ListInv'
  BY <1>1, <1>4, <1>5 DEF IInv, ListInv
<1>8. EntryInv'
  BY <1>1, <1>4 DEF IInv, EntryInv, TypeOK
<1>9. HandleInv'
  <2>1. \A h \in Handle : cce[h] # c
    BY <1>2 DEF Held
  <2>2. QED
    BY <1>1, <2>1 DEF IInv, HandleInv, TypeOK
<1>10. CtlInv'
  <2>1. pin' = NULL
    BY <1>1
  <2>2. QED
    BY <1>1, <2>1 DEF CtlInv, NoCall
<1>11. PooledIsUnused'
  <2>1. busy' = busy /\ free' = free \cup {c} /\ clist' = clist \ {c}
    BY <1>1
  <2>2. QED
    BY <2>1, <1>2, <1>3, <1>4 DEF IInv, PooledIsUnused, TypeOK
<1>12. OneBufferPerChunk'
  BY <1>1 DEF IInv, OneBufferPerChunk, TypeOK
<1>13. ChainExact' /\ RefcountExact' /\ NbRefExact' /\ TokensConserved'
  <2>1. ChainExact'
    BY <1>1, <1>3, <1>4 DEF IInv, ChainExact
  <2>2. RefcountExact' /\ NbRefExact'
    BY <1>1, <1>3, <1>4 DEF IInv, RefcountExact, NbRefExact
  <2>3. TokensConserved'
    BY <1>1 DEF IInv, TokensConserved
  <2>4. QED
    BY <2>1, <2>2, <2>3
<1>14. QED
  BY <1>6, <1>7, <1>8, <1>9, <1>10, <1>11, <1>12, <1>13 DEF IInv

(* shfs_cache_add issued the read of chunk a into c: what this means for   *)
(* the entries and the tokens, whoever called it.                          *)
LEMMA AddIssuedFacts ==
  ASSUME ConstantAssumption, IInv, pin = NULL, NEW c \in Buf, CanPick(c) \/ CanEvict(c),
         NEW a \in Chunk, Cached(a) = {}, AioReady, AddIssued(c, a), tok' = tok
  PROVE  /\ free' = free \ {c} /\ clist' = clist \cup {c} /\ data' = data
         /\ addr' = [addr EXCEPT ![c] = a] /\ a # NoChunk
         /\ busy' = [busy EXCEPT ![c] = TRUE]
         /\ invalid' \in [Buf -> BOOLEAN] /\ addr' \in [Buf -> Chunk \cup {NoChunk}]
         /\ \A b \in Buf \ {c} : invalid'[b] = invalid[b]
         /\ chain' = chain /\ tokFree' \in Nat
         /\ OneBufferPerChunk' /\ TokensConserved'
<1>1. /\ free' = free \ {c} /\ clist' = clist \cup {c} /\ data' = data
      /\ addr' = [addr EXCEPT ![c] = a] /\ a # NoChunk
      /\ busy' = [busy EXCEPT ![c] = TRUE]
      /\ tokFree' = tokFree - 1
      /\ invalid' = [invalid EXCEPT ![c] = @ \/ c \in free]
      /\ chain' = [chain EXCEPT ![c] = IF c \in free THEN {} ELSE @]
  BY DEF AddIssued, InitPicked, Chunk, NoChunk
<1>2. ~busy[c] /\ chain[c] = {}
  BY SpareFacts
<1>3. /\ invalid' \in [Buf -> BOOLEAN] /\ addr' \in [Buf -> Chunk \cup {NoChunk}]
      /\ \A b \in Buf \ {c} : invalid'[b] = invalid[b]
      /\ chain' = chain
  BY <1>1, <1>2 DEF IInv, TypeOK
<1>4. tokFree \in Nat /\ tokFree' \in Nat /\ tokFree' = tokFree - 1
  BY <1>1 DEF AioReady, IInv, TypeOK
<1>5. OneBufferPerChunk'
  BY <1>1 DEF IInv, TypeOK, OneBufferPerChunk, Cached
<1>6. TokensConserved'
  <2> DEFINE B == {b \in Buf : busy[b]}
             K == {k \in Handle : tok[k] # "none"}
  <2>1. B \in SUBSET Buf /\ B' \in SUBSET Buf /\ IsFiniteSet(Buf) /\ c \notin B /\ c \in B'
        /\ (\A y \in Buf : y # c => (y \in B <=> y \in B'))
    BY <1>1, <1>2 DEF ConstantAssumption, IInv, TypeOK
  <2>2. K' = K
    OBVIOUS
  <2>3. NbToken = tokFree + Cardinality(B) + Cardinality(K) /\ Cardinality(K) \in Nat
    BY FS_Subset, FS_CardinalityType DEF IInv, TokensConserved, ConstantAssumption
  <2> HIDE DEF B, K
  <2>4. Cardinality(B) \in Nat /\ Cardinality(B') = Cardinality(B) + 1
    BY <2>1, CountUp
  <2>5. NbToken = tokFree' + Cardinality(B') + Cardinality(K')
    BY <2>2, <2>3, <2>4, <1>4
  <2>6. QED
    BY <2>5 DEF TokensConserved, B, K
<1>7. QED
  BY <1>1, <1>3, <1>4, <1>5, <1>6
(* shfs_cache_aread of a chunk that is not cached. *)
LEMMA AreadMissIInv ==
  ASSUME ConstantAssumption, IInv, NEW h \in Handle, NEW a \in Chunk, AreadMiss(h, a)
  PROVE  IInv'
<1>1. PICK c \in Buf :
        /\ CanPick(c) \/ CanEvict(c)
        /\ IF AddFaults(c) THEN Halt
           ELSE IF AioReady
           THEN AddIssued(c, a) /\ TakeRef(c, Added(c), RefOf(c)) /\ Begin(h, c, a)
           ELSE AddRefused(c, a) /\ UNCHANGED <<userVars, ctlVars>>
  BY DEF AreadMiss
<1>2. Cached(a) = {} /\ cce[h] = NULL /\ call = NoCall /\ call.h = NULL /\ flush = "idle"
      /\ pin = NULL /\ NULL \notin Handle /\ NULL \notin Buf
  BY EnterFacts DEF AreadMiss, Enter, ConstantAssumption
<1>3. CASE AddFaults(c)
  BY <1>1, <1>3, UnchangedIInv DEF Halt
<1>4. CASE ~AddFaults(c) /\ ~AioReady
  BY <1>1, <1>2, <1>4, AddRefusedIInv DEF ctlVars, IInv, TypeOK
<1>5. CASE ~AddFaults(c) /\ AioReady
  <2>1. AddIssued(c, a) /\ TakeRef(c, Added(c), RefOf(c)) /\ Begin(h, c, a)
    BY <1>1, <1>5
  <2>2. /\ cce' = [cce EXCEPT ![h] = c] /\ want' = [want EXCEPT ![h] = a]
        /\ call' = [h |-> h, i |-> 1] /\ UNCHANGED <<tok, flush, pin, trap>>
    BY <2>1 DEF Begin
  <2>3. /\ Held(c) = {} /\ refcount[c] = 0 /\ RefOf(c) = 0 /\ ~busy[c] /\ chain[c] = {}
    BY <1>1, <1>2, SpareFacts
  <2>4. /\ refcount' = [refcount EXCEPT ![c] = @ + 1] /\ nbRef' = nbRef + 1
        /\ alist' = DlUnlink(Added(c), c)
    BY <2>1, <2>3 DEF TakeRef
  <2>5. /\ free' = free \ {c} /\ clist' = clist \cup {c} /\ data' = data
        /\ addr' = [addr EXCEPT ![c] = a] /\ a # NoChunk
        /\ busy' = [busy EXCEPT ![c] = TRUE]
        /\ invalid' \in [Buf -> BOOLEAN] /\ addr' \in [Buf -> Chunk \cup {NoChunk}]
        /\ \A b \in Buf \ {c} : invalid'[b] = invalid[b]
        /\ chain' = chain /\ tokFree' \in Nat
        /\ OneBufferPerChunk' /\ TokensConserved'
    BY <1>1, <1>2, <1>5, <2>1, <2>2, AddIssuedFacts
  <2>6. /\ Held(c)' = {h}
        /\ \A b \in Buf \ {c} : Held(b)' = Held(b)
        /\ RefcountExact' /\ NbRefExact'
    BY <1>2, <2>2, <2>3, <2>4, HoldCounts
  <2>7. /\ alist' \in DlType(Buf) /\ DlConsistent(alist', Buf) /\ DlDetached(alist', c)
        /\ \A x \in Buf : DlDetached(alist, x) => DlDetached(alist', x)
    <3>1. /\ Added(c) \in DlType(Buf) /\ DlConsistent(Added(c), Buf)
          /\ \A x \in Buf \ {c} : DlDetached(alist, x) => DlDetached(Added(c), x)
      BY <1>1, <1>2, <1>5, AddedFacts
    <3>2. QED
      BY <1>2, <2>4, <3>1, DlUnlinkFacts
  <2>8. TypeOK'
    <3>1. call' \in [h : Handle \cup {NULL}, i : 0 .. ReadAhead + 1]
      BY <2>2 DEF ConstantAssumption
    <3>2. refcount' \in [Buf -> Nat] /\ nbRef' \in Nat
      BY <2>3, <2>4 DEF IInv, TypeOK
    <3>3. cce' \in [Handle -> Buf \cup {NULL}] /\ want' \in [Handle -> Chunk \cup {NoChunk}]
          /\ busy' \in [Buf -> BOOLEAN]
      BY <2>2, <2>5 DEF IInv, TypeOK
    <3>4. QED
      BY <2>2, <2>5, <2>7, <3>1, <3>2, <3>3 DEF IInv, TypeOK
  <2>9. ListInv'
    BY <2>5, <2>6, <2>7 DEF IInv, ListInv
  <2>10. EntryInv'
    BY <2>3, <2>5, <2>6 DEF IInv, EntryInv, TypeOK
  <2>11. HandleInv'
    <3>1. tok[h] = "none" /\ \A k \in Handle : cce[k] # c
      BY <1>2, <2>3 DEF IInv, HandleInv, Held
    <3>2. QED
      BY <1>2, <2>2, <2>5, <3>1 DEF IInv, HandleInv, TypeOK
  <2>12. CtlInv'
    BY <1>2, <2>2 DEF IInv, CtlInv, NoCall
  <2>13. PooledIsUnused'
    BY <2>5, <2>6 DEF IInv, PooledIsUnused, TypeOK
  <2>14. ChainExact'
    <3>1. tok[h] = "none"
      BY <1>2 DEF IInv, HandleInv
    <3>2. ASSUME NEW b \in Buf \ {c} PROVE chain'[b] = {k \in Held(b)' : tok'[k] = "infly"}
                                        /\ (chain'[b] # {} => busy'[b])
      BY <2>2, <2>5, <2>6 DEF IInv, ChainExact, TypeOK
    <3>3. chain'[c] = {k \in Held(c)' : tok'[k] = "infly"} /\ chain'[c] = {}
      BY <2>2, <2>3, <2>5, <2>6, <3>1
    <3>4. QED
      BY <3>2, <3>3 DEF ChainExact
  <2>15. QED
    BY <2>5, <2>6, <2>8, <2>9, <2>10, <2>11, <2>12, <2>13, <2>14 DEF IInv
<1>6. QED
  BY <1>3, <1>4, <1>5

(* A read-ahead iteration that adds nothing. *)
LEMMA ReadaheadSkipIInv ==
  ASSUME ConstantAssumption, IInv, ReadaheadSkip
  PROVE  IInv'
<1>1. /\ call \in [h : Handle, i : 0 .. ReadAhead + 1] /\ call.i <= ReadAhead
      /\ UNCHANGED <<entryVars, listVars, tokFree, userVars, flush, pin, trap>>
      /\ call' = [call EXCEPT !.i = @ + 1] \/ call' = [call EXCEPT !.i = ReadAhead + 1]
  BY InAreadFacts DEF ReadaheadSkip, NextAhead, StopAhead
<1>2. call' \in [h : Handle, i : 0 .. ReadAhead + 1] /\ call'.h = call.h
  BY <1>1 DEF ConstantAssumption
<1>3. \A b \in Buf : Held(b)' = Held(b)
  BY <1>1 DEF Held, userVars
<1>4. TypeOK'
  BY <1>1, <1>2 DEF IInv, TypeOK, entryVars, listVars, userVars
<1>5. ListInv' /\ EntryInv' /\ PooledIsUnused' /\ OneBufferPerChunk' /\ ChainExact'
  BY <1>1, <1>3 DEF IInv, TypeOK, ListInv, EntryInv, PooledIsUnused, OneBufferPerChunk,
                    ChainExact, entryVars, listVars, userVars
<1>6. HandleInv'
  BY <1>1, <1>2 DEF IInv, HandleInv, entryVars, userVars
<1>7. CtlInv'
  <2>1. call'.h # NULL /\ flush' = "idle" /\ pin' = NULL
    BY <1>1, <1>2, InAreadFacts DEF ReadaheadSkip, ConstantAssumption
  <2>2. QED
    BY <2>1 DEF CtlInv
<1>8. RefcountExact' /\ NbRefExact'
  BY <1>1, <1>3 DEF IInv, RefcountExact, NbRefExact, entryVars, listVars
<1>9. TokensConserved'
  BY <1>1 DEF IInv, TokensConserved, entryVars, userVars
<1>10. QED
  BY <1>4, <1>5, <1>6, <1>7, <1>8, <1>9 DEF IInv
(* A read-ahead iteration that tries to add a chunk. *)
LEMMA ReadaheadAddIInv ==
  ASSUME ConstantAssumption, IInv, ReadaheadAdd
  PROVE  IInv'
<1>1. PICK c \in Buf :
        /\ CanPick(c) \/ CanEvict(c)
        /\ IF AddFaults(c) THEN Halt
           ELSE /\ IF AioReady
                   THEN /\ AddIssued(c, Ahead) /\ NextAhead
                        /\ alist' = Added(c)
                        /\ refcount' = [refcount EXCEPT ![c] = RefOf(c)]
                        /\ UNCHANGED nbRef
                   ELSE AddRefused(c, Ahead) /\ StopAhead
                /\ UNCHANGED <<userVars, flush, pin, trap>>
  BY DEF ReadaheadAdd
<1>2. /\ call \in [h : Handle, i : 0 .. ReadAhead + 1] /\ call.i <= ReadAhead
      /\ flush = "idle" /\ pin = NULL /\ NULL \notin Buf /\ NULL \notin Handle
      /\ want[call.h] \in Chunk /\ Ahead < VolSize /\ Cached(Ahead) = {}
  BY InAreadFacts DEF ReadaheadAdd, ConstantAssumption
<1>3. Ahead \in Chunk
  BY <1>2 DEF Ahead, Chunk, ConstantAssumption
<1>4. CASE AddFaults(c)
  BY <1>1, <1>4, UnchangedIInv DEF Halt
<1>5. CASE ~AddFaults(c) /\ ~AioReady
  <2>1. AddRefused(c, Ahead) /\ call' = [call EXCEPT !.i = ReadAhead + 1]
        /\ UNCHANGED <<userVars, flush, pin, trap>>
    BY <1>1, <1>5 DEF StopAhead
  <2>2. call' \in [h : Handle, i : 0 .. ReadAhead + 1] /\ call'.h = call.h /\ call'.h # NULL
        /\ call' \in [h : Handle \cup {NULL}, i : 0 .. ReadAhead + 1]
    BY <1>2, <2>1 DEF ConstantAssumption
  <2>3. QED
    BY <1>1, <1>2, <1>3, <1>5, <2>1, <2>2, AddRefusedIInv
<1>6. CASE ~AddFaults(c) /\ AioReady
  <2>1. /\ AddIssued(c, Ahead) /\ call' = [call EXCEPT !.i = @ + 1]
        /\ alist' = Added(c) /\ refcount' = [refcount EXCEPT ![c] = RefOf(c)]
        /\ UNCHANGED <<nbRef, cce, tok, want, flush, pin, trap>>
    BY <1>1, <1>6 DEF NextAhead, userVars
  <2>2. call' \in [h : Handle, i : 0 .. ReadAhead + 1] /\ call'.h = call.h /\ call'.h # NULL
    BY <1>2, <2>1 DEF ConstantAssumption
  <2>3. Held(c) = {} /\ refcount[c] = 0 /\ RefOf(c) = 0 /\ ~busy[c] /\ chain[c] = {}
    BY <1>1, <1>2, SpareFacts
  <2>4. refcount' = refcount
    BY <2>1, <2>3 DEF IInv, TypeOK
  <2>5. /\ free' = free \ {c} /\ clist' = clist \cup {c} /\ data' = data
        /\ addr' = [addr EXCEPT ![c] = Ahead] /\ Ahead # NoChunk
        /\ busy' = [busy EXCEPT ![c] = TRUE]
        /\ invalid' \in [Buf -> BOOLEAN] /\ addr' \in [Buf -> Chunk \cup {NoChunk}]
        /\ \A b \in Buf \ {c} : invalid'[b] = invalid[b]
        /\ chain' = chain /\ tokFree' \in Nat
        /\ OneBufferPerChunk' /\ TokensConserved'
    BY <1>1, <1>2, <1>3, <1>6, <2>1, AddIssuedFacts
  <2>6. \A b \in Buf : Held(b)' = Held(b)
    BY <2>1 DEF Held
  <2>7. /\ alist' \in DlType(Buf) /\ DlConsistent(alist', Buf)
        /\ \A x \in Buf \ {c} : DlDetached(alist, x) => DlDetached(alist', x)
    BY <1>1, <1>2, <1>6, <2>1, AddedFacts
  <2>8. TypeOK'
    <3>1. busy' \in [Buf -> BOOLEAN]
      BY <2>5 DEF IInv, TypeOK
    <3>2. QED
      BY <2>1, <2>2, <2>4, <2>5, <2>7, <3>1 DEF IInv, TypeOK
  <2>9. ListInv'
    BY <2>3, <2>5, <2>6, <2>7 DEF IInv, ListInv
  <2>10. EntryInv'
    BY <2>3, <2>5, <2>6 DEF IInv, EntryInv, TypeOK
  <2>11. HandleInv'
    <3>1. \A k \in Handle : cce[k] # c
      BY <2>3 DEF Held
    <3>2. QED
      BY <2>1, <2>2, <2>5, <3>1 DEF IInv, HandleInv, TypeOK
  <2>12. CtlInv'
    BY <1>2, <2>1, <2>2 DEF CtlInv
  <2>13. PooledIsUnused'
    BY <2>5, <2>6 DEF IInv, PooledIsUnused, TypeOK
  <2>14. ChainExact'
    BY <2>1, <2>3, <2>5, <2>6 DEF IInv, ChainExact, TypeOK
  <2>15. RefcountExact' /\ NbRefExact'
    BY <2>1, <2>4, <2>6 DEF IInv, RefcountExact, NbRefExact
  <2>16. QED
    BY <2>5, <2>8, <2>9, <2>10, <2>11, <2>12, <2>13, <2>14, <2>15 DEF IInv
<1>7. QED
  BY <1>4, <1>5, <1>6

(* Dropping one reference, and what becomes of the entry's place: what was *)
(* the last reference of a handle leaves an entry nobody uses.             *)
LEMMA UnrefFacts ==
  ASSUME ConstantAssumption, IInv, pin = NULL, pin' = NULL,
         NEW h \in Handle, NEW c \in Buf, cce[h] = c,
         NEW destroy \in BOOLEAN, ~UnrefFaults(c, destroy), Unref(c, destroy), Drop(h)
  PROVE  /\ Held(c)' = Held(c) \ {h} /\ h \in Held(c) /\ c \notin free
         /\ \A b \in Buf \ {c} : Held(b)' = Held(b)
         /\ RefcountExact' /\ NbRefExact' /\ ListInv'
         /\ refcount' \in [Buf -> Nat] /\ nbRef' \in Nat /\ alist' \in DlType(Buf)
         /\ cce' = [cce EXCEPT ![h] = NULL] /\ want' = [want EXCEPT ![h] = NoChunk]
         /\ cce' \in [Handle -> Buf \cup {NULL}] /\ want' \in [Handle -> Chunk \cup {NoChunk}]
         /\ \/ free' = free /\ clist' = clist /\ (destroy => Held(c)' # {})
            \/ destroy /\ Held(c)' = {} /\ free' = free \cup {c} /\ clist' = clist \ {c}
<1>1. /\ refcount' = [refcount EXCEPT ![c] = @ - 1]
      /\ nbRef' = IF refcount[c] = 1 THEN nbRef - 1 ELSE nbRef
      /\ cce' = [cce EXCEPT ![h] = NULL] /\ want' = [want EXCEPT ![h] = NoChunk]
  BY DEF Unref, Drop
<1>2. /\ Held(c)' = Held(c) \ {h}
      /\ \A b \in Buf \ {c} : Held(b)' = Held(b)
      /\ refcount[c] = 1 <=> Held(c)' = {}
      /\ refcount' \in [Buf -> Nat] /\ nbRef' \in Nat
      /\ RefcountExact' /\ NbRefExact'
  BY <1>1, DropCounts
<1>3. /\ c \notin free /\ h \in Held(c) /\ NULL \notin Buf
      /\ cce' \in [Handle -> Buf \cup {NULL}] /\ want' \in [Handle -> Chunk \cup {NoChunk}]
  BY <1>1 DEF IInv, HandleInv, TypeOK, Held, ConstantAssumption
<1>4. alist \in DlType(Buf) /\ DlConsistent(alist, Buf) /\ DlDetached(alist, c)
      /\ \A b \in Buf : b \in free \/ Held(b) # {} => DlDetached(alist, b)
  BY <1>3 DEF IInv, TypeOK, ListInv
<1>5. CASE refcount[c] # 1
  <2>1. free' = free /\ clist' = clist /\ alist' = alist
    BY <1>5 DEF Unref
  <2>2. ListInv'
    BY <1>2, <1>3, <1>4, <2>1 DEF ListInv
  <2>3. QED
    BY <1>1, <1>2, <1>3, <1>4, <1>5, <2>1, <2>2
<1>6. CASE refcount[c] = 1 /\ ~destroy
  <2>1. free' = free /\ clist' = clist /\ alist' = DlAppend(alist, c) /\ ~DlAppendFaults(alist)
    BY <1>6 DEF Unref, UnrefFaults
  <2>2. /\ alist' \in DlType(Buf) /\ DlConsistent(alist', Buf)
        /\ \A x \in Buf \ {c} : DlDetached(alist, x) => DlDetached(alist', x)
    BY <1>3, <1>4, <2>1, DlAppendFacts
  <2>3. ListInv'
    BY <1>2, <1>3, <1>4, <1>6, <2>1, <2>2 DEF ListInv
  <2>4. QED
    BY <1>1, <1>2, <1>3, <1>6, <2>1, <2>2, <2>3
<1>7. CASE refcount[c] = 1 /\ destroy
  <2>1. Destroy(c)
    BY <1>7 DEF Unref
  <2>2. free' = free \cup {c} /\ clist' = clist \ {c}
    BY <2>1, <1>3 DEF Destroy, IInv, EntryInv
  <2>3. alist' = alist \/ alist' = DlUnlink(alist, c)
    BY <2>1 DEF Destroy
  <2>4. /\ alist' \in DlType(Buf) /\ DlConsistent(alist', Buf)
        /\ \A x \in Buf : DlDetached(alist, x) => DlDetached(alist', x)
    BY <1>3, <1>4, <2>3, DlUnlinkFacts
  <2>5. ListInv'
    BY <1>2, <1>3, <1>4, <1>7, <2>2, <2>4 DEF ListInv
  <2>6. QED
    BY <1>1, <1>2, <1>3, <1>7, <2>2, <2>4, <2>5
<1>8. QED
  BY <1>5, <1>6, <1>7

(* shfs_cache_release. *)
LEMMA ReleaseIInv ==
  ASSUME ConstantAssumption, IInv, NEW h \in Handle, Release(h)
  PROVE  IInv'
<1>0. PICK c \in Buf : c = cce[h]
  BY DEF Release, IInv, TypeOK
<1>1. call = NoCall /\ call.h = NULL /\ pin = NULL /\ tok[h] = "none"
  BY EnterFacts DEF Release
<1>2. CASE refcount[c] = 0 \/ busy[c] \/ UnrefFaults(c, invalid[c])
  BY <1>0, <1>2, UnchangedIInv DEF Release, Halt
<1>3. CASE ~(refcount[c] = 0 \/ busy[c] \/ UnrefFaults(c, invalid[c]))
  <2>1. /\ Unref(c, invalid[c]) /\ Drop(h) /\ ~UnrefFaults(c, invalid[c]) /\ ~busy[c]
        /\ UNCHANGED <<addr, invalid, busy, chain, data, tokFree, tok, call, flush, pin, trap>>
    BY <1>0, <1>3 DEF Release, ctlVars
  <2>2. invalid[c] \in BOOLEAN
    BY DEF IInv, TypeOK
  <2>3. /\ Held(c)' = Held(c) \ {h} /\ h \in Held(c) /\ c \notin free
        /\ \A b \in Buf \ {c} : Held(b)' = Held(b)
        /\ RefcountExact' /\ NbRefExact' /\ ListInv'
        /\ refcount' \in [Buf -> Nat] /\ nbRef' \in Nat /\ alist' \in DlType(Buf)
        /\ cce' = [cce EXCEPT ![h] = NULL] /\ want' = [want EXCEPT ![h] = NoChunk]
        /\ cce' \in [Handle -> Buf \cup {NULL}] /\ want' \in [Handle -> Chunk \cup {NoChunk}]
        /\ \/ free' = free /\ clist' = clist /\ (invalid[c] => Held(c)' # {})
           \/ invalid[c] /\ Held(c)' = {} /\ free' = free \cup {c} /\ clist' = clist \ {c}
    BY <1>0, <1>1, <2>1, <2>2, UnrefFacts, SMTT(30)
  <2>4. TypeOK'
    BY <1>0, <1>1, <2>1, <2>3 DEF IInv, TypeOK
  <2>5. EntryInv'
    BY <1>0, <1>1, <2>1, <2>3 DEF IInv, EntryInv
  <2>6. HandleInv'
    <3>1. free' \subseteq free \cup {c} /\ (c \in free' => Held(c)' = {})
      BY <2>3
    <3>2. \A k \in Handle : k # h => cce'[k] = cce[k] /\ (cce[k] = c => k \in Held(c)')
      BY <1>0, <1>1, <2>3 DEF Held, IInv, TypeOK
    <3>3. QED
      BY <1>0, <1>1, <2>1, <2>3, <3>1, <3>2 DEF IInv, HandleInv, TypeOK
  <2>7. CtlInv'
    BY <1>0, <1>1, <2>1 DEF IInv, CtlInv
  <2>8. chain[c] = {} /\ chain' = chain
    BY <1>0, <1>1, <2>1 DEF IInv, ChainExact
  <2>9. PooledIsUnused' /\ OneBufferPerChunk'
    <3>1. PooledIsUnused'
      BY <1>0, <1>1, <2>1, <2>3, <2>8 DEF IInv, PooledIsUnused, TypeOK
    <3>2. OneBufferPerChunk'
      BY <2>1, <2>3 DEF IInv, OneBufferPerChunk
    <3>3. QED
      BY <3>1, <3>2
  <2>10. ChainExact'
    BY <1>0, <1>1, <2>1, <2>3 DEF IInv, ChainExact
  <2>11. TokensConserved'
    BY <2>1 DEF IInv, TokensConserved
  <2>12. QED
    BY <2>3, <2>4, <2>5, <2>6, <2>7, <2>9, <2>10, <2>11 DEF IInv
<1>4. QED
  BY <1>2, <1>3

(* A token that was some caller's is back in the pool. *)
LEMMA TokenReturned ==
  ASSUME ConstantAssumption, IInv, NEW h \in Handle, tok[h] # "none",
         tok' = [tok EXCEPT ![h] = "none"], tokFree' = tokFree + 1, busy' = busy
  PROVE  TokensConserved' /\ tokFree' \in Nat
<1>1. Cardinality({k \in Handle : tok[k] # "none"}) =
        Cardinality({k \in Handle : tok'[k] # "none"}) + 1
      /\ Cardinality({k \in Handle : tok'[k] # "none"}) \in Nat
  BY CountUp DEF ConstantAssumption, IInv, TypeOK
<1>2. Cardinality({b \in Buf : busy[b]}) \in Nat
  <2>1. IsFiniteSet({b \in Buf : busy[b]})
    BY FS_Subset DEF ConstantAssumption
  <2>2. QED
    BY <2>1, FS_CardinalityType
<1>3. /\ {b \in Buf : busy'[b]} = {b \in Buf : busy[b]}
      /\ tokFree \in Nat
  BY DEF IInv, TypeOK
<1>4. TokensConserved'
  BY <1>1, <1>2, <1>3 DEF IInv, TokensConserved
<1>5. QED
  BY <1>3, <1>4

(* shfs_cache_release_ioabort. *)
LEMMA ReleaseIoabortIInv ==
  ASSUME ConstantAssumption, IInv, NEW h \in Handle, ReleaseIoabort(h)
  PROVE  IInv'
<1>1. PICK c \in Buf : c = cce[h]
  BY DEF ReleaseIoabort, IInv, TypeOK
<1>2. call = NoCall /\ call.h = NULL /\ pin = NULL /\ tok[h] # "none"
  BY EnterFacts DEF ReleaseIoabort
<1>3. PICK destroy \in BOOLEAN : destroy = (~busy[c] /\ invalid[c])
  BY DEF IInv, TypeOK
<1>4. CASE \/ refcount[c] = 0
           \/ ~busy[c] /\ tok[h] = "infly"
           \/ UnrefFaults(c, destroy)
  BY <1>1, <1>3, <1>4, UnchangedIInv DEF ReleaseIoabort, Halt
<1>5. CASE ~(\/ refcount[c] = 0
             \/ ~busy[c] /\ tok[h] = "infly"
             \/ UnrefFaults(c, destroy))
  <2>1. /\ Unref(c, destroy) /\ Drop(h) /\ ~UnrefFaults(c, destroy)
        /\ chain' = [chain EXCEPT ![c] = @ \ {h}]
        /\ tok' = [tok EXCEPT ![h] = "none"] /\ tokFree' = tokFree + 1
        /\ UNCHANGED <<addr, invalid, busy, data, call, flush, pin, trap>>
    BY <1>1, <1>3, <1>5 DEF ReleaseIoabort, ctlVars
  <2>2. /\ Held(c)' = Held(c) \ {h} /\ h \in Held(c) /\ c \notin free
        /\ \A b \in Buf \ {c} : Held(b)' = Held(b)
        /\ RefcountExact' /\ NbRefExact' /\ ListInv'
        /\ refcount' \in [Buf -> Nat] /\ nbRef' \in Nat /\ alist' \in DlType(Buf)
        /\ cce' = [cce EXCEPT ![h] = NULL] /\ want' = [want EXCEPT ![h] = NoChunk]
        /\ cce' \in [Handle -> Buf \cup {NULL}] /\ want' \in [Handle -> Chunk \cup {NoChunk}]
        /\ \/ free' = free /\ clist' = clist /\ (destroy => Held(c)' # {})
           \/ destroy /\ Held(c)' = {} /\ free' = free \cup {c} /\ clist' = clist \ {c}
    BY <1>1, <1>2, <2>1, UnrefFacts
  <2>3. TokensConserved' /\ tokFree' \in Nat
    BY <1>2, <2>1, TokenReturned
  <2>4. chain' \in [Buf -> SUBSET Handle] /\ tok' \in [Handle -> {"none", "infly", "ok", "err"}]
    BY <2>1 DEF IInv, TypeOK
  <2>5. TypeOK'
    BY <2>1, <2>2, <2>3, <2>4 DEF IInv, TypeOK
  <2>6. EntryInv'
    <3>1. addr[c] = NoChunk => destroy
      BY <1>1, <1>3, <2>2 DEF IInv, EntryInv
    <3>2. addr[c] = NoChunk => Held(c)' = {}
      BY <1>1, <2>2 DEF IInv, EntryInv
    <3>3. QED
      BY <1>1, <2>1, <2>2, <3>1, <3>2 DEF IInv, EntryInv
  <2>7. HandleInv'
    <3>1. free' \subseteq free \cup {c} /\ (c \in free' => Held(c)' = {})
      BY <2>2
    <3>2. \A k \in Handle : k # h => cce'[k] = cce[k] /\ tok'[k] = tok[k]
                                     /\ (cce[k] = c => k \in Held(c)')
      BY <1>1, <2>1, <2>2 DEF Held, IInv, TypeOK
    <3>3. QED
      BY <1>1, <1>2, <2>1, <2>2, <2>4, <3>1, <3>2 DEF IInv, HandleInv, TypeOK
  <2>8. CtlInv'
    BY <1>2, <2>1 DEF IInv, CtlInv
  <2>9. ChainExact'
    <3>1. ASSUME NEW b \in Buf \ {c} PROVE chain'[b] = {k \in Held(b)' : tok'[k] = "infly"}
                                        /\ (chain'[b] # {} => busy'[b])
      <4>1. h \notin Held(b)
        BY <1>1, <3>1 DEF Held
      <4>2. \A k \in Held(b) : tok'[k] = tok[k]
        BY <2>1, <4>1 DEF Held, IInv, TypeOK
      <4>3. QED
        BY <2>1, <2>2, <3>1, <4>2 DEF IInv, ChainExact, TypeOK
    <3>2. chain'[c] = {k \in Held(c)' : tok'[k] = "infly"} /\ (chain'[c] # {} => busy'[c])
      <4>1. \A k \in Held(c) \ {h} : tok'[k] = tok[k]
        BY <2>1 DEF Held, IInv, TypeOK
      <4>2. chain'[c] = chain[c] \ {h} /\ chain[c] = {k \in Held(c) : tok[k] = "infly"}
            /\ (chain[c] # {} => busy[c])
        BY <2>1 DEF IInv, ChainExact, TypeOK
      <4>3. QED
        BY <2>1, <2>2, <4>1, <4>2
    <3>3. QED
      BY <3>1, <3>2 DEF ChainExact
  <2>10. PooledIsUnused'
    <3>1. ASSUME NEW b \in free \ {c}
          PROVE  b \notin clist' /\ ~busy'[b] /\ chain'[b] = {} /\ Held(b)' = {}
      BY <2>1, <2>2, <3>1 DEF IInv, PooledIsUnused, TypeOK
    <3>2. c \in free' => c \notin clist' /\ ~busy'[c] /\ chain'[c] = {} /\ Held(c)' = {}
      BY <1>3, <2>1, <2>2, <2>9 DEF ChainExact
    <3>3. QED
      BY <2>2, <3>1, <3>2 DEF PooledIsUnused
  <2>11. OneBufferPerChunk'
    BY <2>1, <2>2 DEF IInv, OneBufferPerChunk
  <2>12. QED
    BY <2>2, <2>3, <2>5, <2>6, <2>7, <2>8, <2>9, <2>10, <2>11 DEF IInv
<1>6. QED
  BY <1>4, <1>5

(* shfs_cache_aread returns: with a ready buffer, with a token on the      *)
(* entry's chain, or without the reference it had taken.                   *)
LEMMA AreadReturnIInv ==
  ASSUME ConstantAssumption, IInv, AreadReturn
  PROVE  IInv'
<1>1. PICK h \in Handle : h = call.h
  BY InAreadFacts DEF AreadReturn
<1>2. PICK c \in Buf : c = cce[h]
  BY <1>1, InAreadFacts DEF AreadReturn
<1>3. /\ c \notin free /\ want[h] \in Chunk /\ tok[h] = "none" /\ pin = NULL /\ flush = "idle"
      /\ h \in Held(c) /\ NULL \notin Handle /\ NULL \notin Buf
      /\ want[h] # NoChunk /\ addr[c] = want[h]
  <2>1. /\ c \notin free /\ want[h] \in Chunk /\ tok[h] = "none" /\ pin = NULL /\ flush = "idle"
    BY <1>1, <1>2, InAreadFacts DEF AreadReturn
  <2>2. addr[c] = want[h] /\ NULL \notin Buf /\ NULL \notin Handle
    BY <1>2 DEF IInv, HandleInv, ConstantAssumption
  <2>3. QED
    BY <1>2, <2>1, <2>2 DEF Held, Chunk, NoChunk
<1>4. NoCall \in [h : Handle \cup {NULL}, i : 0 .. ReadAhead + 1] /\ NoCall.h = NULL
  BY DEF NoCall, ConstantAssumption
<1>5. CASE /\ ~busy[c]
           /\ call' = NoCall
           /\ UNCHANGED <<entryVars, listVars, tokFree, userVars, flush, pin, trap>>
  <2>1. \A b \in Buf : Held(b)' = Held(b)
    BY <1>5 DEF Held, userVars
  <2>2. TypeOK'
    BY <1>4, <1>5 DEF IInv, TypeOK, entryVars, listVars, userVars
  <2>3. ListInv' /\ EntryInv' /\ PooledIsUnused' /\ OneBufferPerChunk' /\ ChainExact'
    BY <1>5, <2>1 DEF IInv, TypeOK, ListInv, EntryInv, PooledIsUnused, OneBufferPerChunk,
                      ChainExact, entryVars, listVars, userVars
  <2>4. HandleInv'
    BY <1>1, <1>2, <1>3, <1>4, <1>5 DEF IInv, HandleInv, entryVars, userVars
  <2>5. CtlInv'
    BY <1>3, <1>5 DEF CtlInv
  <2>6. RefcountExact' /\ NbRefExact'
    BY <1>5, <2>1 DEF IInv, RefcountExact, NbRefExact, entryVars, listVars
  <2>7. TokensConserved'
    BY <1>5 DEF IInv, TokensConserved, entryVars, userVars
  <2>8. QED
    BY <2>2, <2>3, <2>4, <2>5, <2>6, <2>7 DEF IInv
<1>6. CASE /\ busy[c] /\ tokFree > 0
           /\ chain' = [chain EXCEPT ![c] = @ \cup {h}]
           /\ tok' = [tok EXCEPT ![h] = "infly"]
           /\ tokFree' = tokFree - 1
           /\ call' = NoCall
           /\ UNCHANGED <<free, addr, refcount, invalid, busy, data, listVars,
                          cce, want, flush, pin, trap>>
  <2>1. \A b \in Buf : Held(b)' = Held(b)
    BY <1>6 DEF Held
  <2>2. TypeOK'
    <3>1. /\ chain' \in [Buf -> SUBSET Handle]
          /\ tok' \in [Handle -> {"none", "infly", "ok", "err"}]
          /\ tokFree' \in Nat
      BY <1>6 DEF IInv, TypeOK
    <3>2. QED
      BY <1>4, <1>6, <3>1 DEF IInv, TypeOK, listVars
  <2>3. ListInv' /\ EntryInv' /\ OneBufferPerChunk'
    BY <1>6, <2>1 DEF IInv, ListInv, EntryInv, OneBufferPerChunk, listVars
  <2>4. PooledIsUnused'
    BY <1>3, <1>6, <2>1 DEF IInv, PooledIsUnused, TypeOK, listVars
  <2>5. HandleInv'
    BY <1>1, <1>2, <1>3, <1>4, <1>6 DEF IInv, HandleInv, TypeOK
  <2>6. CtlInv'
    BY <1>3, <1>6 DEF CtlInv
  <2>7. ChainExact'
    <3>1. ASSUME NEW b \in Buf \ {c} PROVE chain'[b] = {k \in Held(b)' : tok'[k] = "infly"}
                                        /\ (chain'[b] # {} => busy'[b])
      <4>1. h \notin Held(b)
        BY <1>2, <3>1 DEF Held
      <4>2. \A k \in Held(b) : tok'[k] = tok[k]
        BY <1>6, <4>1 DEF Held, IInv, TypeOK
      <4>3. QED
        BY <1>6, <2>1, <3>1, <4>2 DEF IInv, ChainExact, TypeOK
    <3>2. chain'[c] = {k \in Held(c)' : tok'[k] = "infly"} /\ busy'[c]
      <4>1. /\ \A k \in Held(c) \ {h} : tok'[k] = tok[k]
            /\ tok'[h] = "infly"
        BY <1>6 DEF Held, IInv, TypeOK
      <4>2. chain'[c] = chain[c] \cup {h} /\ chain[c] = {k \in Held(c) : tok[k] = "infly"}
        BY <1>6 DEF IInv, ChainExact, TypeOK
      <4>3. QED
        BY <1>3, <1>6, <2>1, <4>1, <4>2
    <3>3. QED
      BY <3>1, <3>2 DEF ChainExact
  <2>8. RefcountExact' /\ NbRefExact'
    BY <1>6, <2>1 DEF IInv, RefcountExact, NbRefExact, listVars
  <2>9. TokensConserved'
    <3>1. Cardinality({k \in Handle : tok'[k] # "none"}) =
            Cardinality({k \in Handle : tok[k] # "none"}) + 1
          /\ Cardinality({k \in Handle : tok[k] # "none"}) \in Nat
      <4> DEFINE K == {k \in Handle : tok[k] # "none"}
      <4>1. tok[h] = "none" /\ tok'[h] # "none" /\ \A y \in Handle : y # h => tok'[y] = tok[y]
        BY <1>3, <1>6 DEF IInv, TypeOK
      <4>2. /\ K \in SUBSET Handle /\ K' \in SUBSET Handle /\ h \notin K /\ h \in K'
            /\ \A y \in Handle : y # h => (y \in K <=> y \in K')
        BY <4>1
      <4> HIDE DEF K
      <4>3. Cardinality(K) \in Nat /\ Cardinality(K') = Cardinality(K) + 1
        BY <4>2, CountUp DEF ConstantAssumption
      <4>4. QED
        BY <4>3 DEF K
    <3>2. QED
      BY <1>6, <3>1, FS_CardinalityType, FS_Subset, SMTT(30)
         DEF IInv, TokensConserved, TypeOK, ConstantAssumption
  <2>10. QED
    BY <2>2, <2>3, <2>4, <2>5, <2>6, <2>7, <2>8, <2>9 DEF IInv
<1>7. CASE UnrefFaults(c, FALSE) /\ Halt
  BY <1>7, UnchangedIInv DEF Halt
<1>8. CASE /\ ~UnrefFaults(c, FALSE) /\ Unref(c, FALSE) /\ Drop(h)
           /\ call' = NoCall
           /\ UNCHANGED <<addr, invalid, busy, chain, data, tokFree, tok, flush, pin, trap>>
  <2>1. /\ Held(c)' = Held(c) \ {h}
        /\ \A b \in Buf \ {c} : Held(b)' = Held(b)
        /\ RefcountExact' /\ NbRefExact' /\ ListInv'
        /\ refcount' \in [Buf -> Nat] /\ nbRef' \in Nat /\ alist' \in DlType(Buf)
        /\ cce' = [cce EXCEPT ![h] = NULL] /\ want' = [want EXCEPT ![h] = NoChunk]
        /\ cce' \in [Handle -> Buf \cup {NULL}] /\ want' \in [Handle -> Chunk \cup {NoChunk}]
        /\ free' = free /\ clist' = clist
    BY <1>2, <1>3, <1>8, UnrefFacts
  <2>2. TypeOK'
    BY <1>4, <1>8, <2>1 DEF IInv, TypeOK
  <2>3. EntryInv'
    BY <1>3, <1>8, <2>1 DEF IInv, EntryInv
  <2>4. HandleInv'
    BY <1>1, <1>2, <1>3, <1>4, <1>8, <2>1 DEF IInv, HandleInv, TypeOK
  <2>5. CtlInv'
    BY <1>3, <1>8 DEF CtlInv
  <2>6. PooledIsUnused'
    BY <1>3, <1>8, <2>1 DEF IInv, PooledIsUnused, TypeOK
  <2>7. OneBufferPerChunk' /\ ChainExact'
    BY <1>3, <1>8, <2>1 DEF IInv, OneBufferPerChunk, ChainExact
  <2>8. TokensConserved'
    BY <1>8 DEF IInv, TokensConserved
  <2>9. QED
    BY <2>1, <2>2, <2>3, <2>4, <2>5, <2>6, <2>7, <2>8 DEF IInv
<1>9. QED
  BY <1>1, <1>2, <1>5, <1>6, <1>7, <1>8 DEF AreadReturn
(* shfs_cache_eblank. *)
LEMMA EblankIInv ==
  ASSUME ConstantAssumption, IInv, NEW h \in Handle, Eblank(h)
  PROVE  IInv'
<1>1. PICK c \in Buf :
        /\ CanPick(c) \/ CanEvict(c)
        /\ IF RefOf(c) # 0 THEN Halt
           ELSE /\ free' = free \ {c}
                /\ clist' = clist \ {c}
                /\ alist' = AddList(c)
                /\ refcount' = [refcount EXCEPT ![c] = 1]
                /\ nbRef' = nbRef + 1
                /\ addr' = [addr EXCEPT ![c] = NoChunk]
                /\ busy' = [busy EXCEPT ![c] = FALSE]
                /\ invalid' = [invalid EXCEPT ![c] = TRUE]
                /\ chain' = [chain EXCEPT ![c] = IF c \in free THEN {} ELSE @]
                /\ cce' = [cce EXCEPT ![h] = c]
                /\ UNCHANGED <<data, tokFree, tok, want, ctlVars>>
  BY DEF Eblank
<1>2. /\ cce[h] = NULL /\ call = NoCall /\ call.h = NULL /\ pin = NULL /\ NULL \notin Buf
      /\ tok[h] = "none" /\ want[h] = NoChunk
  BY EnterFacts DEF Eblank, IInv, HandleInv, ConstantAssumption
<1>3. /\ Held(c) = {} /\ refcount[c] = 0 /\ RefOf(c) = 0 /\ ~busy[c] /\ chain[c] = {}
      /\ AddList(c) \in DlType(Buf) /\ DlConsistent(AddList(c), Buf)
      /\ DlDetached(AddList(c), c)
      /\ \A x \in Buf : DlDetached(alist, x) => DlDetached(AddList(c), x)
  BY <1>1, <1>2, SpareFacts
<1>4. /\ free' = free \ {c} /\ clist' = clist \ {c} /\ alist' = AddList(c)
      /\ refcount' = [refcount EXCEPT ![c] = @ + 1] /\ nbRef' = nbRef + 1
      /\ addr' = [addr EXCEPT ![c] = NoChunk] /\ invalid' = [invalid EXCEPT ![c] = TRUE]
      /\ busy' = busy /\ chain' = chain /\ cce' = [cce EXCEPT ![h] = c]
      /\ UNCHANGED <<data, tokFree, tok, want, call, flush, pin, trap>>
  <2>1. /\ refcount' = [refcount EXCEPT ![c] = 1]
        /\ busy' = [busy EXCEPT ![c] = FALSE]
        /\ chain' = [chain EXCEPT ![c] = IF c \in free THEN {} ELSE @]
    BY <1>1, <1>3
  <2>2. /\ refcount' = [refcount EXCEPT ![c] = @ + 1]
        /\ busy' = busy /\ chain' = chain
    BY <2>1, <1>3 DEF IInv, TypeOK
  <2>3. QED
    BY <1>1, <1>3, <2>2 DEF ctlVars
<1>5. /\ Held(c)' = {h}
      /\ \A b \in Buf \ {c} : Held(b)' = Held(b)
      /\ RefcountExact' /\ NbRefExact'
  <2>1. /\ cce' = [cce EXCEPT ![h] = c] /\ pin' = NULL
        /\ refcount' = [refcount EXCEPT ![c] = @ + 1]
        /\ nbRef' = IF refcount[c] = 0 THEN nbRef + 1 ELSE nbRef
    BY <1>2, <1>3, <1>4
  <2>2. /\ Held(c)' = Held(c) \cup {h}
        /\ \A b \in Buf \ {c} : Held(b)' = Held(b)
        /\ RefcountExact' /\ NbRefExact'
    BY <1>2, <2>1, HoldCounts
  <2>3. QED
    BY <1>3, <2>2
<1>6. TypeOK'
  <2>1. /\ refcount' \in [Buf -> Nat] /\ nbRef' \in Nat
        /\ addr' \in [Buf -> Chunk \cup {NoChunk}] /\ invalid' \in [Buf -> BOOLEAN]
        /\ cce' \in [Handle -> Buf \cup {NULL}]
    BY <1>3, <1>4 DEF IInv, TypeOK
  <2>2. QED
    BY <1>3, <1>4, <2>1 DEF IInv, TypeOK
<1>7. ListInv'
  BY <1>3, <1>4, <1>5 DEF IInv, ListInv
<1>8. EntryInv'
  <2>1. ASSUME NEW b \in Buf, b # c
        PROVE  /\ addr'[b] = addr[b] /\ invalid'[b] = invalid[b] /\ busy'[b] = busy[b]
               /\ data'[b] = data[b] /\ Held(b)' = Held(b)
               /\ (b \in clist' <=> b \in clist) /\ (b \in free' <=> b \in free)
    BY <1>4, <1>5, <2>1 DEF IInv, TypeOK
  <2>2. addr'[c] = NoChunk /\ invalid'[c] /\ ~busy'[c] /\ c \notin clist' /\ Held(c)' = {h}
    BY <1>3, <1>4, <1>5 DEF IInv, TypeOK
  <2>3. QED
    BY <2>1, <2>2 DEF IInv, EntryInv
<1>9. HandleInv'
  <2>1. \A k \in Handle : cce[k] # c
    BY <1>3 DEF Held
  <2>2. QED
    BY <1>2, <1>3, <1>4, <2>1 DEF IInv, HandleInv, TypeOK
<1>10. CtlInv'
  BY <1>2, <1>4 DEF IInv, CtlInv
<1>11. PooledIsUnused'
  BY <1>4, <1>5 DEF IInv, PooledIsUnused, TypeOK
<1>12. OneBufferPerChunk'
  BY <1>4 DEF IInv, OneBufferPerChunk, TypeOK
<1>13. ChainExact'
  <2>1. chain'[c] = {k \in Held(c)' : tok'[k] = "infly"} /\ chain'[c] = {}
    BY <1>2, <1>3, <1>4, <1>5
  <2>2. ASSUME NEW b \in Buf \ {c} PROVE chain'[b] = {k \in Held(b)' : tok'[k] = "infly"}
                                      /\ (chain'[b] # {} => busy'[b])
    BY <1>4, <1>5, <2>2 DEF IInv, ChainExact
  <2>3. QED
    BY <2>1, <2>2 DEF ChainExact
<1>14. TokensConserved'
  BY <1>4 DEF IInv, TokensConserved
<1>15. QED
  BY <1>5, <1>6, <1>7, <1>8, <1>9, <1>10, <1>11, <1>12, <1>13, <1>14 DEF IInv

(* The completion of an entry's read. *)
LEMMA CompleteIInv ==
  ASSUME ConstantAssumption, IInv, NEW c \in Buf, NEW r \in {"ok", "err"}, Complete(c, r)
  PROVE  IInv'
<1>1. CASE refcount[c] = 0 /\ chain[c] # {}
  BY <1>1, UnchangedIInv DEF Complete, Halt
<1>2. CASE ~(refcount[c] = 0 /\ chain[c] # {})
  <2>1. /\ call = NoCall /\ busy[c] /\ call.h = NULL /\ NULL \notin Buf /\ NULL \notin Handle
        /\ tokFree' = tokFree + 1 /\ busy' = [busy EXCEPT ![c] = FALSE]
        /\ invalid' = [invalid EXCEPT ![c] = r = "err"]
        /\ data' = [data EXCEPT ![c] = IF r = "ok" THEN addr[c] ELSE NoChunk]
        /\ UNCHANGED <<addr, refcount, nbRef, cce, want, call, flush, pin, trap>>
    BY <1>2 DEF Complete, NoCall, ctlVars, ConstantAssumption
  <2>2. \A b \in Buf : Held(b)' = Held(b)
    BY <2>1 DEF Held
  <2>3. /\ invalid' \in [Buf -> BOOLEAN] /\ busy' \in [Buf -> BOOLEAN]
        /\ data' \in [Buf -> Chunk \cup {NoChunk}] /\ tokFree' \in Nat
    BY <2>1 DEF IInv, TypeOK
  <2>4. c \notin free /\ (\A h \in Handle : cce[h] = c => h \in Held(c) /\ tok[h] = "infly")
    <3>1. c \notin free
      BY <2>1 DEF IInv, PooledIsUnused
    <3>2. \A h \in Handle : cce[h] = c => h \in Held(c) /\ tok[h] = "infly"
      BY <2>1 DEF IInv, HandleInv, Held
    <3>3. QED
      BY <3>1, <3>2
  <2>5. CtlInv' /\ RefcountExact' /\ NbRefExact'
    <3>1. RefcountExact' /\ NbRefExact'
      BY <2>1, <2>2 DEF IInv, RefcountExact, NbRefExact
    <3>2. pin # NULL /\ refcount[c] = 0 => pin # c
      BY HeldFacts DEF IInv, RefcountExact
    <3>3. free' = free \/ (refcount[c] = 0 /\ free' = free \cup {c})
      BY <1>2 DEF Complete
    <3>4. pin \in Buf \cup {NULL}
      BY DEF IInv, TypeOK
    <3>5. CtlInv'
      BY <2>1, <2>2, <3>2, <3>3, <3>4 DEF IInv, CtlInv
    <3>6. QED
      BY <3>1, <3>5
  <2>6. ASSUME {k \in Handle : tok'[k] # "none"} = {k \in Handle : tok[k] # "none"}
        PROVE  TokensConserved'
    <3> DEFINE B == {b \in Buf : busy[b]}
               K == {k \in Handle : tok[k] # "none"}
    <3>1. B \in SUBSET Buf /\ B' \in SUBSET Buf /\ IsFiniteSet(Buf) /\ c \in B /\ c \notin B'
          /\ (\A y \in Buf : y # c => (y \in B' <=> y \in B))
      BY <2>1 DEF ConstantAssumption, IInv, TypeOK
    <3>2. K' = K
      BY <2>6
    <3>3. NbToken = tokFree + Cardinality(B) + Cardinality(K) /\ Cardinality(K) \in Nat
          /\ tokFree \in Nat
      BY FS_Subset, FS_CardinalityType DEF IInv, TokensConserved, ConstantAssumption, TypeOK
    <3> HIDE DEF B, K
    <3>4. Cardinality(B') \in Nat /\ Cardinality(B) = Cardinality(B') + 1
      BY <3>1, CountUp
    <3>5. NbToken = tokFree' + Cardinality(B') + Cardinality(K')
      BY <2>1, <3>2, <3>3, <3>4
    <3>6. QED
      BY <3>5 DEF TokensConserved, B, K
  <2>7. CASE refcount[c] = 0 /\ r = "err"
    <3>1. /\ free' = free \cup {c} /\ clist' = clist \ {c} /\ alist' = DlUnlink(alist, c)
          /\ UNCHANGED <<chain, tok>>
      BY <1>2, <2>7 DEF Complete
    <3>2. Held(c) = {} /\ chain[c] = {}
      <4>1. Held(c) = {}
        BY <2>7, HeldFacts DEF IInv, RefcountExact
      <4>2. QED
        BY <4>1, <1>2, <2>7
    <3>3. /\ alist' \in DlType(Buf) /\ DlConsistent(alist', Buf) /\ DlDetached(alist', c)
          /\ \A x \in Buf : DlDetached(alist, x) => DlDetached(alist', x)
      BY <2>1, <3>1, DlUnlinkFacts DEF IInv, TypeOK, ListInv
    <3>4. TypeOK'
      BY <2>1, <2>3, <3>1, <3>3 DEF IInv, TypeOK
    <3>5. ListInv'
      BY <2>2, <3>1, <3>3 DEF IInv, ListInv
    <3>6. EntryInv'
      BY <2>1, <2>2, <3>1 DEF IInv, EntryInv, TypeOK
    <3>7. HandleInv'
      <4>1. \A h \in Handle : cce[h] # c
        BY <3>2 DEF Held
      <4>2. QED
        BY <2>1, <3>1, <4>1 DEF IInv, HandleInv, TypeOK
    <3>8. PooledIsUnused'
      BY <2>1, <2>2, <3>1, <3>2 DEF IInv, PooledIsUnused, TypeOK
    <3>9. OneBufferPerChunk'
      BY <2>1, <3>1 DEF IInv, OneBufferPerChunk
    <3>10. ChainExact'
      BY <2>1, <2>2, <3>1, <3>2 DEF IInv, ChainExact, TypeOK
    <3>11. QED
      BY <2>5, <2>6, <3>1, <3>4, <3>5, <3>6, <3>7, <3>8, <3>9, <3>10 DEF IInv
  <2>8. CASE ~(refcount[c] = 0 /\ r = "err")
    <3>1. /\ chain' = [chain EXCEPT ![c] = {}]
          /\ tok' = [h \in Handle |-> IF h \in chain[c] THEN r ELSE tok[h]]
          /\ UNCHANGED <<free, clist, alist>>
      BY <1>2, <2>8 DEF Complete
    <3>2. chain' \in [Buf -> SUBSET Handle] /\ tok' \in [Handle -> {"none", "infly", "ok", "err"}]
      BY <3>1 DEF IInv, TypeOK
    <3>3. TypeOK'
      BY <2>1, <2>3, <3>1, <3>2 DEF IInv, TypeOK
    <3>4. ListInv' /\ OneBufferPerChunk'
      BY <2>1, <2>2, <3>1 DEF IInv, ListInv, OneBufferPerChunk
    <3>5. EntryInv'
      <4>1. c \in clist => addr[c] # NoChunk
        BY <2>4 DEF IInv, EntryInv
      <4>2. addr[c] # NoChunk
        BY <2>1, <2>4 DEF IInv, EntryInv
      <4>3. QED
        BY <2>1, <2>2, <3>1, <4>2 DEF IInv, EntryInv, TypeOK
    <3>6. chain[c] = {h \in Held(c) : tok[h] = "infly"}
      BY DEF IInv, ChainExact
    <3>7. \A h \in Handle : h \in chain[c] <=> cce[h] = c
      BY <2>4, <3>6 DEF Held
    <3>8. HandleInv'
      <4>1. ~busy'[c] /\ (invalid'[c] <=> r = "err") /\ r # "infly" /\ r # "none"
        BY <2>1 DEF IInv, TypeOK
      <4>2. \A h \in Handle : tok'[h] = IF cce[h] = c THEN r ELSE tok[h]
        BY <3>1, <3>7
      <4>3. \A b \in Buf \ {c} : busy'[b] = busy[b] /\ invalid'[b] = invalid[b]
        BY <2>1 DEF IInv, TypeOK
      <4>4. ASSUME NEW h \in Handle, cce[h] = c
            PROVE  /\ cce'[h] \notin free' /\ want'[h] = addr'[cce'[h]] /\ cce'[h] # NULL
                   /\ call'.h # h
                   /\ busy'[cce'[h]] <=> tok'[h] = "infly"
                   /\ tok'[h] = "ok" => ~invalid'[cce'[h]]
                   /\ tok'[h] = "err" => invalid'[cce'[h]]
        BY <2>1, <2>4, <3>1, <4>1, <4>2, <4>4 DEF IInv, HandleInv
      <4>5. ASSUME NEW h \in Handle, cce[h] \notin {c, NULL}
            PROVE  /\ cce'[h] \notin free' /\ want'[h] = addr'[cce'[h]] /\ cce'[h] # NULL
                   /\ call'.h # h
                   /\ busy'[cce'[h]] <=> tok'[h] = "infly"
                   /\ tok'[h] = "ok" => ~invalid'[cce'[h]]
                   /\ tok'[h] = "err" => invalid'[cce'[h]]
        <5>1. cce[h] \in Buf \ {c} /\ tok'[h] = tok[h] /\ cce'[h] = cce[h] /\ call.h # h
          BY <2>1, <4>2, <4>5 DEF IInv, TypeOK
        <5>2. QED
          BY <2>1, <3>1, <4>3, <4>5, <5>1 DEF IInv, HandleInv
      <4>6. ASSUME NEW h \in Handle, cce[h] = NULL
            PROVE  tok'[h] = "none" /\ want'[h] = NoChunk /\ call'.h # h
        BY <2>1, <4>2, <4>6 DEF IInv, HandleInv
      <4>7. QED
        BY <2>1, <4>4, <4>5, <4>6 DEF HandleInv
    <3>9. PooledIsUnused'
      BY <2>1, <2>2, <3>1 DEF IInv, PooledIsUnused, TypeOK
    <3>10. ChainExact'
      <4>1. ASSUME NEW b \in Buf \ {c} PROVE chain'[b] = {k \in Held(b)' : tok'[k] = "infly"}
                                          /\ (chain'[b] # {} => busy'[b])
        <5>1. \A k \in Held(b) : k \in Handle /\ tok'[k] = tok[k]
          BY <3>1, <3>7, <4>1 DEF Held
        <5>2. chain'[b] = chain[b] /\ busy'[b] = busy[b] /\ Held(b)' = Held(b)
          BY <2>1, <2>2, <3>1, <4>1 DEF IInv, TypeOK
        <5>3. chain[b] = {k \in Held(b) : tok[k] = "infly"} /\ (chain[b] # {} => busy[b])
          BY DEF IInv, ChainExact
        <5>4. QED
          BY <5>1, <5>2, <5>3
      <4>2. chain'[c] = {k \in Held(c)' : tok'[k] = "infly"} /\ chain'[c] = {}
        <5>1. \A k \in Held(c) : tok'[k] = r /\ r # "infly"
          BY <3>1, <3>7 DEF Held
        <5>2. chain'[c] = {} /\ Held(c)' = Held(c)
          BY <2>2, <3>1 DEF IInv, TypeOK
        <5>3. QED
          BY <5>1, <5>2
      <4>3. QED
        BY <4>1, <4>2 DEF ChainExact
    <3>11. {k \in Handle : tok'[k] # "none"} = {k \in Handle : tok[k] # "none"}
      BY <3>1, <3>6
    <3>12. QED
      BY <2>5, <2>6, <3>3, <3>4, <3>5, <3>8, <3>9, <3>10, <3>11 DEF IInv
  <2>9. QED
    BY <2>7, <2>8
<1>3. QED
  BY <1>1, <1>2
(* shfs_cache_flush_alist begins, and ends. *)
LEMMA FlushIdleIInv ==
  ASSUME ConstantAssumption, IInv, FlushBegin \/ FlushEnd
  PROVE  IInv'
<1>1. /\ UNCHANGED <<entryVars, listVars, tokFree, userVars, call, pin, trap>>
      /\ flush' \in {"idle", "run"}
      /\ \/ flush' = "run" /\ call = NoCall
         \/ flush' = "idle" /\ pin = NULL
  <2>1. CASE FlushBegin
    BY <2>1 DEF FlushBegin, Enter
  <2>2. CASE FlushEnd
    BY <2>2 DEF FlushEnd
  <2>3. QED
    BY <2>1, <2>2
<1>2. \A b \in Buf : Held(b)' = Held(b)
  BY <1>1 DEF Held, userVars
<1>3. TypeOK'
  BY <1>1 DEF IInv, TypeOK, entryVars, listVars, userVars
<1>4. ListInv' /\ EntryInv' /\ PooledIsUnused' /\ OneBufferPerChunk' /\ ChainExact'
  BY <1>1, <1>2 DEF IInv, TypeOK, ListInv, EntryInv, PooledIsUnused, OneBufferPerChunk,
                    ChainExact, entryVars, listVars, userVars
<1>5. HandleInv'
  BY <1>1 DEF IInv, HandleInv, entryVars, userVars
<1>6. CtlInv'
  <2>1. pin # NULL => pin \in Buf
    BY DEF IInv, TypeOK
  <2>2. QED
    BY <1>1, <1>2, <2>1 DEF IInv, CtlInv, entryVars
<1>7. RefcountExact' /\ NbRefExact'
  BY <1>1, <1>2 DEF IInv, RefcountExact, NbRefExact, entryVars, listVars
<1>8. TokensConserved'
  BY <1>1 DEF IInv, TokensConserved, entryVars, userVars
<1>9. QED
  BY <1>3, <1>4, <1>5, <1>6, <1>7, <1>8 DEF IInv

(* The flush holds the entry it waits for. *)
LEMMA FlushPinIInv ==
  ASSUME ConstantAssumption, IInv, FlushPin
  PROVE  IInv'
<1>1. PICK c \in Buf \ free : c = alist.first /\ Held(c) = {}
  BY FirstIsUnused DEF FlushPin
<1>2. /\ flush = "run" /\ pin = NULL /\ pin' = c /\ NULL \notin Buf
      /\ refcount' = [refcount EXCEPT ![c] = 1]
      /\ UNCHANGED <<free, addr, invalid, busy, chain, data, clist, alist, nbRef, tokFree,
                     cce, tok, want, call, flush, trap>>
  BY <1>1 DEF FlushPin, listVars, userVars, ConstantAssumption
<1>3. \A b \in Buf : Held(b)' = Held(b)
  BY <1>2 DEF Held
<1>4. TypeOK'
  BY <1>1, <1>2 DEF IInv, TypeOK
<1>5. ListInv' /\ EntryInv' /\ OneBufferPerChunk'
  BY <1>2, <1>3 DEF IInv, ListInv, EntryInv, OneBufferPerChunk
<1>6. PooledIsUnused' /\ ChainExact'
  BY <1>2, <1>3 DEF IInv, TypeOK, PooledIsUnused, ChainExact
<1>7. HandleInv'
  BY <1>2 DEF IInv, HandleInv
<1>8. CtlInv'
  BY <1>1, <1>2, <1>3 DEF IInv, CtlInv
<1>9. RefcountExact'
  <2>1. Cardinality(Held(c)) = 0 /\ pin # c
    BY <1>1, <1>2, HeldFacts
  <2>2. \A b \in Buf : refcount[b] = Cardinality(Held(b)) /\ Cardinality(Held(b)) \in Nat
    BY <1>2, RefcountFacts, HeldFacts
  <2>3. \A b \in Buf : refcount'[b] = IF b = c THEN 1 ELSE refcount[b]
    BY <1>2 DEF IInv, TypeOK
  <2>4. QED
    BY <1>2, <1>3, <2>1, <2>2, <2>3 DEF RefcountExact
<1>10. NbRefExact'
  BY <1>2, <1>3 DEF IInv, NbRefExact
<1>11. TokensConserved'
  BY <1>2 DEF IInv, TokensConserved
<1>12. QED
  BY <1>4, <1>5, <1>6, <1>7, <1>8, <1>9, <1>10, <1>11 DEF IInv

(* The flush puts an entry back. *)
LEMMA FlushDropIInv ==
  ASSUME ConstantAssumption, IInv, FlushDrop
  PROVE  IInv'
<1>1. PICK c \in Buf :
         /\ c = IF pin # NULL THEN pin ELSE alist.first
         /\ ~busy[c]
         /\ IF pin = NULL /\ refcount[c] # 0 THEN Halt
            ELSE /\ refcount' = [refcount EXCEPT ![c] = 0]
                 /\ pin' = NULL
                 /\ free' = free \cup {c}
                 /\ clist' = clist \ {c}
                 /\ alist' = DlUnlink(alist, c)
                 /\ UNCHANGED <<addr, invalid, busy, chain, data, nbRef, tokFree,
                                userVars, call, flush, trap>>
  BY DEF FlushDrop
<1>2. CASE pin = NULL /\ refcount[c] # 0
  BY <1>1, <1>2, UnchangedIInv DEF Halt
<1>3. CASE ~(pin = NULL /\ refcount[c] # 0)
  <2>1. /\ refcount' = [refcount EXCEPT ![c] = 0] /\ pin' = NULL /\ NULL \notin Buf
        /\ free' = free \cup {c} /\ clist' = clist \ {c} /\ alist' = DlUnlink(alist, c)
        /\ UNCHANGED <<addr, invalid, busy, chain, data, nbRef, tokFree,
                       cce, tok, want, call, flush, trap>>
    BY <1>1, <1>3 DEF userVars, ConstantAssumption
  <2>2. \A b \in Buf : Held(b)' = Held(b)
    BY <2>1 DEF Held
  <2>3. Held(c) = {} /\ (pin = NULL \/ pin = c) /\ ~busy[c]
    <3>1. CASE pin # NULL
      BY <1>1, <3>1 DEF IInv, CtlInv
    <3>2. CASE pin = NULL
      BY <1>1, <2>1, <3>2, FirstIsUnused
    <3>3. QED
      BY <3>1, <3>2
  <2>4. chain[c] = {}
    BY <2>3 DEF IInv, ChainExact
  <2>5. /\ alist' \in DlType(Buf) /\ DlConsistent(alist', Buf) /\ DlDetached(alist', c)
        /\ \A x \in Buf : DlDetached(alist, x) => DlDetached(alist', x)
    BY <2>1, DlUnlinkFacts DEF IInv, TypeOK, ListInv
  <2>6. TypeOK'
    <3>1. refcount' \in [Buf -> Nat]
      BY <2>1 DEF IInv, TypeOK
    <3>2. QED
      BY <2>1, <2>5, <3>1 DEF IInv, TypeOK
  <2>7. ListInv'
    BY <2>1, <2>2, <2>3, <2>5 DEF IInv, ListInv
  <2>8. EntryInv'
    BY <2>1, <2>2 DEF IInv, EntryInv
  <2>9. HandleInv'
    <3>1. \A h \in Handle : cce[h] # c
      BY <2>3 DEF Held
    <3>2. QED
      BY <2>1, <3>1 DEF IInv, HandleInv
  <2>10. CtlInv'
    BY <2>1 DEF IInv, CtlInv
  <2>11. PooledIsUnused'
    BY <2>1, <2>2, <2>3, <2>4 DEF IInv, PooledIsUnused, TypeOK
  <2>12. OneBufferPerChunk' /\ ChainExact'
    <3>1. OneBufferPerChunk'
      BY <2>1 DEF IInv, OneBufferPerChunk
    <3>2. ChainExact'
      BY <2>1, <2>2 DEF IInv, ChainExact
    <3>3. QED
      BY <3>1, <3>2
  <2>13. RefcountExact'
    <3>1. Cardinality(Held(c)) = 0
      BY <2>3, HeldFacts
    <3>2. \A b \in Buf \ {c} : refcount[b] = Cardinality(Held(b)) /\ Cardinality(Held(b)) \in Nat
      BY <2>1, <2>3, RefcountFacts, HeldFacts
    <3>3. \A b \in Buf : refcount'[b] = IF b = c THEN 0 ELSE refcount[b]
      BY <2>1 DEF IInv, TypeOK
    <3>4. QED
      BY <2>1, <2>2, <3>1, <3>2, <3>3 DEF RefcountExact
  <2>14. NbRefExact'
    BY <2>1, <2>2 DEF IInv, NbRefExact
  <2>15. TokensConserved'
    BY <2>1 DEF IInv, TokensConserved
  <2>16. QED
    BY <2>6, <2>7, <2>8, <2>9, <2>10, <2>11, <2>12, <2>13, <2>14, <2>15 DEF IInv
<1>4. QED
  BY <1>2, <1>3

(* Every step of the cache preserves the invariant. *)
LEMMA NextIInv == ConstantAssumption /\ IInv /\ [Next]_vars => IInv'
<1> SUFFICES ASSUME ConstantAssumption, IInv, [Next]_vars PROVE IInv'
  OBVIOUS
<1>1. ASSUME NEW h \in Handle, NEW a \in Chunk, AreadHit(h, a) \/ AreadMiss(h, a) PROVE IInv'
  BY <1>1, AreadHitIInv, AreadMissIInv
<1>2. ASSUME Aread PROVE IInv'
  BY <1>2, AreadReturnIInv, ReadaheadSkipIInv, ReadaheadAddIInv DEF Aread
<1>3. ASSUME NEW h \in Handle, Eblank(h) \/ Finalize(h) \/ Release(h) \/ ReleaseIoabort(h)
      PROVE  IInv'
  BY <1>3, EblankIInv, FinalizeIInv, ReleaseIInv, ReleaseIoabortIInv
<1>4. ASSUME NEW c \in Buf, NEW r \in {"ok", "err"}, Complete(c, r) PROVE IInv'
  BY <1>4, CompleteIInv
<1>5. ASSUME FlushBegin \/ Flushing PROVE IInv'
  BY <1>5, FlushIdleIInv, FlushPinIInv, FlushDropIInv DEF Flushing
<1>6. CASE UNCHANGED vars
  <2>1. trap' \in BOOLEAN
    BY <1>6 DEF vars, ctlVars, IInv, TypeOK
  <2>2. QED
    BY <1>6, <2>1, UnchangedIInv DEF vars, ctlVars
<1>7. QED
  BY <1>1, <1>2, <1>3, <1>4, <1>5, <1>6 DEF Next

(* The strengthened invariant, for every size of the cache. *)
THEOREM CacheInvariant == Spec => []IInv
<1>1. Init => IInv
  BY InitIInv, ConstantAssumption
<1>2. IInv /\ [Next]_vars => IInv'
  BY NextIInv, ConstantAssumption
<1>3. QED
  BY <1>1, <1>2, PTL DEF Spec
(* The properties of the runs, from the invariant. *)

(* Every variable keeps the shape its C declaration gives it. *)
THEOREM CacheTypeOK == Spec => []TypeOK
<1>1. IInv => TypeOK
  BY DEF IInv
<1>2. QED
  BY <1>1, CacheInvariant, PTL

(* cce->refcount counts the handles, plus the flush's pin: no buffer in    *)
(* use can be evicted, and none is lost.                                   *)
THEOREM CacheRefcountExact == Spec => []RefcountExact
<1>1. IInv => RefcountExact
  BY DEF IInv
<1>2. QED
  BY <1>1, CacheInvariant, PTL

(* chunkcache->nb_ref_entries counts the entries in use. *)
THEOREM CacheNbRefExact == Spec => []NbRefExact
<1>1. IInv => NbRefExact
  BY DEF IInv
<1>2. QED
  BY <1>1, CacheInvariant, PTL

(* What is returned to the buffer pool is unused. *)
THEOREM CachePooledIsUnused == Spec => []PooledIsUnused
<1>1. IInv => PooledIsUnused
  BY DEF IInv
<1>2. QED
  BY <1>1, CacheInvariant, PTL

(* The hash table holds a chunk at most once. *)
THEOREM CacheOneBufferPerChunk == Spec => []OneBufferPerChunk
<1>1. IInv => OneBufferPerChunk
  BY DEF IInv
<1>2. QED
  BY <1>1, CacheInvariant, PTL

(* The callers on cce->aio_chain are the ones whose token is in flight. *)
THEOREM CacheChainExact == Spec => []ChainExact
<1>1. IInv => ChainExact
  BY DEF IInv
<1>2. QED
  BY <1>1, CacheInvariant, PTL

(* No AIO token is leaked or returned twice. *)
THEOREM CacheTokensConserved == Spec => []TokensConserved
<1>1. IInv => TokensConserved
  BY DEF IInv
<1>2. QED
  BY <1>1, CacheInvariant, PTL

(* A completed read that is not reported as failed gave its caller the     *)
(* bytes of the chunk it asked for.                                        *)
THEOREM CacheReadReturnsChunk == Spec => []ReadReturnsChunk
<1>1. ASSUME IInv, NEW h \in Handle, Holding(h), want[h] # NoChunk, tok[h] # "infly"
      PROVE  IF invalid[cce[h]] THEN tok[h] # "ok"
             ELSE tok[h] # "err" /\ data[cce[h]] = want[h]
  <2>1. cce[h] # NULL /\ call.h # h /\ cce[h] \in Buf
    BY <1>1 DEF Holding, IInv, TypeOK
  <2>2. /\ cce[h] \notin free /\ want[h] = addr[cce[h]] /\ ~busy[cce[h]]
        /\ tok[h] = "ok" => ~invalid[cce[h]]
        /\ tok[h] = "err" => invalid[cce[h]]
    BY <1>1, <2>1 DEF IInv, HandleInv
  <2>3. ~invalid[cce[h]] => data[cce[h]] = addr[cce[h]]
    BY <1>1, <2>1, <2>2 DEF IInv, EntryInv
  <2>4. QED
    BY <2>2, <2>3
<1>2. IInv => ReadReturnsChunk
  BY <1>1 DEF ReadReturnsChunk
<1>3. QED
  BY <1>2, CacheInvariant, PTL

(* The buffer shfs_cache_eblank hands out is its caller's alone. *)
THEOREM CacheBlankIsPrivate == Spec => []BlankIsPrivate
<1>1. ASSUME IInv, NEW h \in Handle, Holding(h), want[h] = NoChunk
      PROVE  Held(cce[h]) = {h} /\ cce[h] \notin clist /\ ~busy[cce[h]]
  <2>1. cce[h] # NULL /\ cce[h] \in Buf /\ h \in Held(cce[h])
    BY <1>1 DEF Holding, IInv, TypeOK, Held
  <2>2. cce[h] \notin free /\ addr[cce[h]] = NoChunk
    BY <1>1, <2>1 DEF IInv, HandleInv
  <2>3. /\ cce[h] \notin clist /\ ~busy[cce[h]]
        /\ \E k \in Handle : Held(cce[h]) = {k}
    BY <1>1, <2>1, <2>2 DEF IInv, EntryInv
  <2>4. QED
    BY <2>1, <2>3
<1>2. IInv => BlankIsPrivate
  BY <1>1 DEF BlankIsPrivate
<1>3. QED
  BY <1>2, CacheInvariant, PTL

(* A step that adds chunk a to the cache leaves every held buffer alone.   *)
LEMMA AddKeepsHeld ==
  ASSUME ConstantAssumption, IInv, pin = NULL, NEW c \in Buf, CanPick(c) \/ CanEvict(c),
         NEW a \in Chunk, AddIssued(c, a) \/ AddRefused(c, a),
         NEW h \in Handle, cce[h] # NULL
  PROVE  addr'[cce[h]] = addr[cce[h]] /\ data'[cce[h]] = data[cce[h]]
<1>1. cce[h] \in Buf /\ cce[h] # c
  BY SpareFacts DEF IInv, TypeOK, Held
<1>2. addr' = [addr EXCEPT ![c] = a] /\ data' = data
  BY DEF AddIssued, AddRefused
<1>3. QED
  BY <1>1, <1>2 DEF IInv, TypeOK

(* A buffer is never evicted, recycled or overwritten while a caller holds *)
(* it.                                                                     *)
THEOREM CacheHeldIsStable == Spec => HeldIsStable
<1> DEFINE Stable(h) == /\ addr'[cce[h]] = addr[cce[h]]
                        /\ data'[cce[h]] # data[cce[h]] => busy[cce[h]] /\ ~busy'[cce[h]]
<1>1. ASSUME ConstantAssumption, IInv, [Next]_vars,
             NEW h \in Handle, cce[h] # NULL, cce'[h] = cce[h]
      PROVE  Stable(h)
  <2>1. PICK b \in Buf : b = cce[h] /\ h \in Held(b) /\ b \notin free
    BY <1>1 DEF IInv, TypeOK, Held, HandleInv
  <2>2. CASE UNCHANGED <<addr, data>>
    BY <2>2
  <2>3. ASSUME NEW k \in Handle, NEW a \in Chunk, AreadHit(k, a) PROVE Stable(h)
    BY <2>2, <2>3 DEF AreadHit
  <2>4. ASSUME NEW k \in Handle, NEW a \in Chunk, AreadMiss(k, a) PROVE Stable(h)
    <3>1. PICK c \in Buf :
            /\ CanPick(c) \/ CanEvict(c)
            /\ Halt \/ AddIssued(c, a) \/ AddRefused(c, a)
      BY <2>4 DEF AreadMiss
    <3>2. pin = NULL
      BY <1>1, <2>4, EnterFacts DEF AreadMiss
    <3>3. QED
      BY <1>1, <2>2, <3>1, <3>2, AddKeepsHeld DEF Halt, entryVars
  <2>5. ASSUME ReadaheadAdd PROVE Stable(h)
    <3>1. PICK c \in Buf :
            /\ CanPick(c) \/ CanEvict(c)
            /\ Halt \/ AddIssued(c, Ahead) \/ AddRefused(c, Ahead)
      BY <2>5 DEF ReadaheadAdd
    <3>2. pin = NULL /\ want[call.h] \in Chunk
          /\ call \in [h : Handle, i : 0 .. ReadAhead + 1] /\ Ahead < VolSize
      BY <1>1, <2>5, InAreadFacts DEF ReadaheadAdd
    <3>3. Ahead \in Chunk
      BY <1>1, <3>2 DEF Ahead, Chunk, ConstantAssumption
    <3>4. QED
      BY <1>1, <2>2, <3>1, <3>2, <3>3, AddKeepsHeld DEF Halt, entryVars
  <2>6. ASSUME ReadaheadSkip \/ AreadReturn PROVE Stable(h)
    <3>1. UNCHANGED <<addr, data>>
      BY <2>6 DEF ReadaheadSkip, AreadReturn, Halt, entryVars
    <3>2. QED
      BY <2>2, <3>1
  <2>7. ASSUME NEW k \in Handle, Eblank(k) PROVE Stable(h)
    <3>1. PICK c \in Buf :
            /\ CanPick(c) \/ CanEvict(c)
            /\ Halt \/ (addr' = [addr EXCEPT ![c] = NoChunk] /\ data' = data)
      BY <2>7 DEF Eblank
    <3>2. Held(c) = {}
      BY <1>1, <2>7, <3>1, EnterFacts, SpareFacts DEF Eblank
    <3>3. c # b
      BY <2>1, <3>2
    <3>4. QED
      BY <1>1, <2>1, <2>2, <3>1, <3>3 DEF Halt, entryVars, IInv, TypeOK
  <2>8. ASSUME NEW k \in Handle, Finalize(k) \/ Release(k) \/ ReleaseIoabort(k) PROVE Stable(h)
    <3>1. UNCHANGED <<addr, data>>
      BY <2>8 DEF Finalize, Release, ReleaseIoabort, Halt, entryVars
    <3>2. QED
      BY <2>2, <3>1
  <2>9. ASSUME NEW c \in Buf, NEW r \in {"ok", "err"}, Complete(c, r) PROVE Stable(h)
    <3>1. CASE UNCHANGED <<addr, data>>
      BY <2>2, <3>1
    <3>2. CASE addr' = addr /\ busy[c] /\ busy' = [busy EXCEPT ![c] = FALSE]
               /\ data' = [data EXCEPT ![c] = IF r = "ok" THEN addr[c] ELSE NoChunk]
      BY <1>1, <2>1, <3>2 DEF IInv, TypeOK
    <3>3. QED
      BY <2>9, <3>1, <3>2 DEF Complete, Halt, entryVars
  <2>10. ASSUME FlushBegin \/ Flushing PROVE Stable(h)
    <3>1. UNCHANGED <<addr, data>>
      BY <2>10 DEF FlushBegin, Flushing, FlushPin, FlushDrop, FlushEnd, Halt, entryVars
    <3>2. QED
      BY <2>2, <3>1
  <2>11. CASE UNCHANGED vars
    BY <2>2, <2>11 DEF vars, entryVars
  <2>12. QED
    BY <1>1, <2>3, <2>4, <2>5, <2>6, <2>7, <2>8, <2>9, <2>10, <2>11 DEF Next, Aread
<1>2. IInv /\ [Next]_vars =>
        [\A h \in Handle : cce[h] # NULL /\ cce'[h] = cce[h] => Stable(h)]_vars
  BY <1>1, ConstantAssumption
<1>3. QED
  BY <1>2, CacheInvariant, PTL DEF Spec, HeldIsStable

(* An append after an eviction faults only if one before it would have.    *)
LEMMA AddFaultsOnlyIf ==
  ASSUME ConstantAssumption, IInv, NEW c \in Buf, CanPick(c) \/ CanEvict(c), AddFaults(c)
  PROVE  DlAppendFaults(alist)
<1>1. CASE c \in free
  BY <1>1 DEF AddFaults, AddList
<1>2. CASE c \notin free
  <2>1. alist.first # NULL
    <3>1. PICK n \in 0 .. Cardinality(Buf) - 1 : \E p \in [0 .. n -> Buf] : DlVisits(alist, p, n)
      BY <1>2 DEF CanPick, CanEvict, FirstIdle
    <3>2. PICK p \in [0 .. n -> Buf] : DlVisits(alist, p, n)
      BY <3>1
    <3>3. p[0] \in Buf /\ alist.first = p[0]
      BY <3>1, <3>2 DEF DlVisits
    <3>4. QED
      BY <3>3 DEF ConstantAssumption
  <2>2. DlAppendFaults(DlUnlink(alist, c))
    BY <1>2 DEF AddFaults, AddList
  <2>3. QED
    BY <2>1, <2>2 DEF DlUnlink, DlAppendFaults
<1>3. QED
  BY <1>1, <1>2

(* The BUG_ONs and ASSERTs on reference counts, tokens and chains never    *)
(* fire, failed reads or not.                                              *)
THEOREM CacheOnlyListTraps == Spec => OnlyListTraps
<1>1. ASSUME ConstantAssumption, IInv, [Next]_vars, trap' # trap
      PROVE  DlAppendFaults(alist)
  <2>1. ASSUME NEW h \in Handle, NEW a \in Chunk, AreadMiss(h, a) PROVE DlAppendFaults(alist)
    BY <1>1, <2>1, AddFaultsOnlyIf DEF AreadMiss, Begin, ctlVars
  <2>2. ASSUME ReadaheadAdd PROVE DlAppendFaults(alist)
    BY <1>1, <2>2, AddFaultsOnlyIf DEF ReadaheadAdd
  <2>3. ASSUME AreadReturn PROVE DlAppendFaults(alist)
    BY <1>1, <2>3 DEF AreadReturn, UnrefFaults
  <2>4. ASSUME NEW h \in Handle, Eblank(h) PROVE DlAppendFaults(alist)
    <3>1. PICK c \in Buf : (CanPick(c) \/ CanEvict(c)) /\ (RefOf(c) # 0 \/ trap' = trap)
      BY <2>4 DEF Eblank, ctlVars
    <3>2. pin = NULL
      BY <1>1, <2>4, EnterFacts DEF Eblank
    <3>3. QED
      BY <1>1, <3>1, <3>2, SpareFacts
  <2>5. ASSUME NEW h \in Handle, Release(h) PROVE DlAppendFaults(alist)
    <3>1. PICK c \in Buf : c = cce[h]
      BY <1>1, <2>5 DEF Release, IInv, TypeOK
    <3>2. h \in Held(c) /\ pin # c /\ ~busy[c]
      BY <1>1, <2>5, <3>1, EnterFacts
         DEF Release, IInv, HandleInv, Held, ConstantAssumption
    <3>3. refcount[c] # 0
      BY <1>1, <3>2, RefcountFacts
    <3>4. QED
      BY <1>1, <2>5, <3>1, <3>2, <3>3 DEF Release, UnrefFaults, ctlVars
  <2>6. ASSUME NEW h \in Handle, ReleaseIoabort(h) PROVE DlAppendFaults(alist)
    <3>1. PICK c \in Buf : c = cce[h]
      BY <1>1, <2>6 DEF ReleaseIoabort, IInv, TypeOK
    <3>2. h \in Held(c) /\ pin # c /\ ~(~busy[c] /\ tok[h] = "infly")
      BY <1>1, <2>6, <3>1, EnterFacts
         DEF ReleaseIoabort, IInv, HandleInv, Held, ConstantAssumption
    <3>3. refcount[c] # 0
      BY <1>1, <3>2, RefcountFacts
    <3>4. QED
      BY <1>1, <2>6, <3>1, <3>2, <3>3 DEF ReleaseIoabort, UnrefFaults, ctlVars
  <2>7. ASSUME NEW c \in Buf, NEW r \in {"ok", "err"}, Complete(c, r) PROVE DlAppendFaults(alist)
    <3>1. refcount[c] = 0 => chain[c] = {}
      <4>1. refcount[c] = 0 => Held(c) = {}
        BY <1>1, HeldFacts DEF IInv, RefcountExact
      <4>2. QED
        BY <1>1, <4>1 DEF IInv, ChainExact
    <3>2. QED
      BY <1>1, <2>7, <3>1 DEF Complete, ctlVars
  <2>8. ASSUME FlushDrop PROVE DlAppendFaults(alist)
    <3>1. PICK c \in Buf : c = (IF pin # NULL THEN pin ELSE alist.first)
                           /\ ((pin = NULL /\ refcount[c] # 0) \/ trap' = trap)
      BY <2>8 DEF FlushDrop
    <3>2. pin = NULL => Held(c) = {} /\ pin # c
      BY <1>1, <3>1, FirstIsUnused DEF ConstantAssumption
    <3>3. QED
      BY <1>1, <3>1, <3>2, RefcountFacts
  <2>9. ASSUME NEW h \in Handle, NEW a \in Chunk, AreadHit(h, a) PROVE trap' = trap
    BY <2>9 DEF AreadHit, Begin
  <2>10. ASSUME ReadaheadSkip \/ FlushBegin \/ FlushPin \/ FlushEnd PROVE trap' = trap
    BY <2>10 DEF ReadaheadSkip, FlushBegin, FlushPin, FlushEnd
  <2>11. ASSUME NEW h \in Handle, Finalize(h) PROVE trap' = trap
    BY <2>11 DEF Finalize, ctlVars
  <2>12. CASE UNCHANGED vars
    BY <1>1, <2>12 DEF vars, ctlVars
  <2>13. QED
    BY <1>1, <2>1, <2>2, <2>3, <2>4, <2>5, <2>6, <2>7, <2>8, <2>9, <2>10, <2>11, <2>12
       DEF Next, Aread, Flushing
<1>2. IInv /\ [Next]_vars => [trap' /\ ~trap => DlAppendFaults(alist)]_vars
  BY <1>1, ConstantAssumption
<1>3. QED
  BY <1>2, CacheInvariant, PTL DEF Spec, OnlyListTraps
-----------------------------------------------------------------------------
(* The available list where no read fails.  It is a chain of exactly the   *)
(* elements of S.                                                          *)
Lists(l, S) ==
  /\ l \in DlType(Buf)
  /\ \E n \in Nat, s \in [Nat -> Buf] :
       /\ Chain(NULL, Buf, l.first, l.last, l.next, l.prev, s, n)
       /\ \A b \in Buf : b \in S <=> \E i \in 1 .. n : s[i] = b

(* An element that is not on the list goes to its tail.                    *)
LEMMA ListsMore ==
  ASSUME ConstantAssumption, NEW l, NEW S \in SUBSET Buf, Lists(l, S), NEW c \in Buf, c \notin S
  PROVE  Lists(DlAppend(l, c), S \cup {c}) /\ ~DlAppendFaults(l)
<1>1. l \in DlType(Buf) /\ NULL \notin Buf
  BY DEF Lists, ConstantAssumption
<1>2. PICK n \in Nat, s \in [Nat -> Buf] :
        /\ Chain(NULL, Buf, l.first, l.last, l.next, l.prev, s, n)
        /\ \A b \in Buf : b \in S <=> \E i \in 1 .. n : s[i] = b
  BY DEF Lists
<1>3. PICK a : a = DlAppend(l, c)
  OBVIOUS
<1>4. /\ a.first = (IF l.first = NULL THEN c ELSE l.first) /\ a.last = c
      /\ \A y \in Buf : a.next[y] = IF y = c THEN NULL ELSE IF l.first # NULL /\ y = l.last THEN c ELSE l.next[y]
      /\ \A y \in Buf : a.prev[y] = IF y = c THEN IF l.first = NULL THEN NULL ELSE l.last ELSE l.prev[y]
  BY <1>1, <1>3, DlFields DEF DlAppend
<1>5. ~DlAppendFaults(l)
  <2>1. n # 0 => 1 \in 1 .. n /\ n \in 1 .. n
    OBVIOUS
  <2>2. QED
    BY <1>1, <1>2, <2>1 DEF Chain, DlAppendFaults
<1>6. a \in DlType(Buf)
  BY <1>1, <1>3, <1>5, DlFields DEF DlAppend, DlType, DlAppendFaults
<1>7. PICK t \in [Nat -> Buf] : t[n + 1] = c /\ \A i \in 1 .. n : t[i] = s[i]
  <2> DEFINE t == [k \in Nat |-> IF k = n + 1 THEN c ELSE s[k]]
  <2>1. t \in [Nat -> Buf]
    OBVIOUS
  <2>2. n + 1 \in Nat /\ \A i \in 1 .. n : i \in Nat /\ i # n + 1
    OBVIOUS
  <2>3. t[n + 1] = c /\ \A i \in 1 .. n : t[i] = s[i]
    BY <2>2
  <2> HIDE DEF t
  <2>4. QED
    BY <2>1, <2>3
<1>8. \A i \in 1 .. n : s[i] # c
  BY <1>2
<1>9. Chain(NULL, Buf, a.first, a.last, a.next, a.prev, t, n + 1)
  <2>1. PICK nx, pv : nx = a.next /\ pv = a.prev
    OBVIOUS
  <2>2. \A y \in Buf : nx[y] = IF y = c THEN NULL ELSE IF l.first # NULL /\ y = l.last THEN c ELSE l.next[y]
    BY <1>4, <2>1
  <2>3. \A y \in Buf : pv[y] = IF y = c THEN IF l.first = NULL THEN NULL ELSE l.last ELSE l.prev[y]
    BY <1>4, <2>1
  <2>4. Chain(NULL, Buf, IF l.first = NULL THEN c ELSE l.first, c, nx, pv, t, n + 1)
    BY <1>1, <1>2, <1>7, <1>8, <2>2, <2>3, ChainMore
  <2>5. QED
    BY <1>4, <2>1, <2>4
<1>10. \A b \in Buf : b \in S \cup {c} <=> \E i \in 1 .. n + 1 : t[i] = b
  <2>1. n + 1 \in 1 .. n + 1 /\ (\A i \in 1 .. n : i \in 1 .. n + 1)
        /\ \A i \in 1 .. n + 1 : i \in 1 .. n \/ i = n + 1
    OBVIOUS
  <2>2. QED
    BY <1>2, <1>7, <2>1
<1>11. n + 1 \in Nat
  OBVIOUS
<1>12. QED
  BY <1>3, <1>5, <1>6, <1>9, <1>10, <1>11 DEF Lists

(* An element of the list leaves it.                                       *)
LEMMA ListsLess ==
  ASSUME ConstantAssumption, NEW l, NEW S \in SUBSET Buf, Lists(l, S), NEW c \in S
  PROVE  Lists(DlUnlink(l, c), S \ {c})
<1>1. l \in DlType(Buf) /\ NULL \notin Buf /\ c \in Buf
  BY DEF Lists, ConstantAssumption
<1>2. PICK n \in Nat, s \in [Nat -> Buf] :
        /\ Chain(NULL, Buf, l.first, l.last, l.next, l.prev, s, n)
        /\ \A b \in Buf : b \in S <=> \E i \in 1 .. n : s[i] = b
  BY DEF Lists
<1>3. PICK u : u = DlUnlink(l, c)
  OBVIOUS
<1>4. PICK i \in 1 .. n : s[i] = c
  BY <1>1, <1>2
<1>5. /\ u.first = (IF l.prev[c] = NULL THEN l.next[c] ELSE l.first)
      /\ u.last = (IF l.next[c] = NULL THEN l.prev[c] ELSE l.last)
      /\ \A y \in Buf : u.next[y] = IF y = c THEN NULL ELSE IF y = l.prev[c] THEN l.next[c] ELSE l.next[y]
      /\ \A y \in Buf : u.prev[y] = IF y = c THEN NULL ELSE IF y = l.next[c] THEN l.prev[c] ELSE l.prev[y]
  BY <1>1, <1>3, DlFields DEF DlUnlink
<1>6. u \in DlType(Buf)
  BY <1>1, <1>3 DEF DlUnlink, DlType
<1>7. PICK t \in [Nat -> Buf] : \A k \in Nat : t[k] = IF k < i THEN s[k] ELSE s[k + 1]
  <2>1. [k \in Nat |-> IF k < i THEN s[k] ELSE s[k + 1]] \in [Nat -> Buf]
    OBVIOUS
  <2>2. QED
    BY <2>1
<1>8. n - 1 \in Nat /\ 1 .. n - 1 \subseteq Nat
  OBVIOUS
<1>9. Chain(NULL, Buf, u.first, u.last, u.next, u.prev, t, n - 1)
  <2>1. Joined(NULL, Buf, c, l.first, l.last, l.next, l.prev, u.first, u.last, u.next, u.prev)
    BY <1>5 DEF Joined
  <2>2. Dropped(s, i, n, t)
    BY <1>7, <1>8 DEF Dropped
  <2>3. QED
    BY <1>1, <1>2, <1>4, <2>1, <2>2, ChainLess
<1>10. ASSUME NEW b \in Buf PROVE b \in S \ {c} <=> \E k \in 1 .. n - 1 : t[k] = b
  <2>1. ASSUME NEW k \in 1 .. n - 1, t[k] = b PROVE b \in S \ {c}
    <3>1. PICK f \in 1 .. n : f # i /\ t[k] = s[f]
      <4>1. k \in Nat /\ k \in 1 .. n /\ k + 1 \in 1 .. n /\ (k < i => k # i) /\ (~(k < i) => k + 1 # i)
        OBVIOUS
      <4>2. QED
        BY <1>7, <4>1
    <3>2. s[f] # s[i]
      BY <1>2, <3>1 DEF Chain
    <3>3. QED
      BY <1>2, <1>4, <2>1, <3>1, <3>2
  <2>2. ASSUME b \in S \ {c} PROVE \E k \in 1 .. n - 1 : t[k] = b
    <3>1. PICK f \in 1 .. n : s[f] = b
      BY <1>2, <2>2
    <3>2. f # i
      BY <1>4, <2>2, <3>1
    <3>3. CASE f < i
      <4>1. f \in 1 .. n - 1 /\ f \in Nat
        BY <3>3
      <4>2. QED
        BY <1>7, <3>1, <3>3, <4>1
    <3>4. CASE f > i
      <4>1. f - 1 \in 1 .. n - 1 /\ f - 1 \in Nat /\ ~(f - 1 < i) /\ f - 1 + 1 = f
        BY <3>4
      <4>2. t[f - 1] = b
        BY <1>7, <3>1, <4>1
      <4>3. QED
        BY <4>1, <4>2
    <3>5. QED
      BY <3>2, <3>3, <3>4
  <2>3. QED
    BY <2>1, <2>2
<1>11. QED
  BY <1>3, <1>6, <1>8, <1>9, <1>10 DEF Lists

(* The head of the list, which is not on it only if nothing is.            *)
LEMMA ListsHead ==
  ASSUME ConstantAssumption, NEW l, NEW S \in SUBSET Buf, Lists(l, S)
  PROVE  l.first = NULL <=> S = {}
<1>1. PICK n \in Nat, s \in [Nat -> Buf] :
        /\ Chain(NULL, Buf, l.first, l.last, l.next, l.prev, s, n)
        /\ \A b \in Buf : b \in S <=> \E i \in 1 .. n : s[i] = b
  BY DEF Lists
<1>2. l.first = IF n = 0 THEN NULL ELSE s[1]
  BY <1>1 DEF Chain
<1>3. NULL \notin Buf /\ s[1] \in Buf
  BY DEF ConstantAssumption
<1>4. CASE n = 0
  BY <1>1, <1>2, <1>4
<1>5. CASE n # 0
  <2>1. 1 \in 1 .. n
    BY <1>5
  <2>2. s[1] \in S
    BY <1>1, <1>3, <2>1
  <2>3. QED
    BY <1>2, <1>3, <1>5, <2>2
<1>6. QED
  BY <1>4, <1>5

(* Such a list is walked as AlistExact says.                               *)
LEMMA ListsExact ==
  ASSUME ConstantAssumption, Lists(alist, Unreferenced)
  PROVE  AlistExact
<1>0. Unreferenced \in SUBSET Buf
  BY DEF Unreferenced
<1>1. PICK m \in Nat, s \in [Nat -> Buf] :
        /\ Chain(NULL, Buf, alist.first, alist.last, alist.next, alist.prev, s, m)
        /\ \A b \in Buf : b \in Unreferenced <=> \E i \in 1 .. m : s[i] = b
  BY DEF Lists
<1>2. CASE m = 0
  BY <1>0, <1>1, <1>2 DEF Chain, AlistExact
<1>3. CASE m # 0
  <2>1. Cardinality(Unreferenced) = m
    <3> DEFINE f == [i \in 1 .. m |-> s[i]]
    <3>1. f \in Bijection(1 .. m, Unreferenced)
      <4>1. f \in [1 .. m -> Unreferenced]
        BY <1>1
      <4>2. \A i, j \in 1 .. m : f[i] = f[j] => i = j
        BY <1>1 DEF Chain
      <4>3. \A b \in Unreferenced : \E i \in 1 .. m : f[i] = b
        BY <1>0, <1>1
      <4> HIDE DEF f
      <4>4. QED
        BY <4>1, <4>2, <4>3 DEF Bijection, Injection, Surjection, IsInjective
    <3>2. IsFiniteSet(1 .. m) /\ Cardinality(1 .. m) = m
      BY FS_Interval
    <3> HIDE DEF f
    <3>3. QED
      BY <3>1, <3>2, FS_Bijection DEF ExistsBijection
  <2> DEFINE n == m - 1
             p == [i \in 0 .. n |-> s[i + 1]]
  <2>2. /\ n \in Nat /\ n + 1 = m /\ 0 \in 0 .. n /\ n \in 0 .. n /\ 1 .. n \subseteq 0 .. n
        /\ \A i \in 0 .. n : i + 1 \in 1 .. m
        /\ \A i \in 1 .. n : i - 1 \in 0 .. n /\ i \in 1 .. m /\ i + 1 # 1 /\ i # m /\ i - 1 + 1 = i /\ i + 1 - 1 = i
    BY <1>3
  <2>3. p \in [0 .. n -> Unreferenced]
    BY <1>1, <2>2
  <2>4. \A i \in 0 .. n : p[i] = s[i + 1]
    OBVIOUS
  <2>5. \A i \in 1 .. n : p[i] = s[i + 1] /\ p[i - 1] = s[i]
    BY <2>2, <2>4
  <2>6. p[0] = s[1] /\ p[n] = s[m]
    BY <2>2, <2>4
  <2> HIDE DEF p, n
  <2>7. \A i, j \in 0 .. n : p[i] = p[j] => i = j
    <3>1. \A i, j \in 0 .. n : p[i] = p[j] => i + 1 = j + 1
      BY <1>1, <2>2, <2>4 DEF Chain
    <3>2. QED
      BY <2>2, <3>1
  <2>8. DlVisits(alist, p, n) /\ alist.next[p[n]] = NULL
    <3>1. p[0] = alist.first
      BY <1>1, <1>3, <2>6 DEF Chain
    <3>2. \A i \in 1 .. n : p[i] = alist.next[p[i - 1]]
      BY <1>1, <2>2, <2>5 DEF Chain
    <3>3. alist.next[p[n]] = NULL
      <4>1. m \in 1 .. m
        BY <1>3
      <4>2. QED
        BY <1>1, <2>6, <4>1 DEF Chain
    <3>4. QED
      BY <3>1, <3>2, <3>3 DEF DlVisits
  <2>9. DlVisitsReverse(alist, p, n) /\ alist.prev[p[0]] = NULL
    <3>1. p[n] = alist.last
      BY <1>1, <1>3, <2>6 DEF Chain
    <3>2. \A i \in 1 .. n : p[i - 1] = alist.prev[p[i]]
      <4>1. TAKE i \in 1 .. n
      <4>2. i + 1 \in 1 .. m /\ i + 1 # 1 /\ i + 1 - 1 = i
        BY <2>2
      <4>3. alist.prev[s[i + 1]] = s[i]
        BY <1>1, <4>2 DEF Chain
      <4>4. QED
        BY <2>5, <4>3
    <3>3. alist.prev[p[0]] = NULL
      <4>1. 1 \in 1 .. m
        BY <1>3
      <4>2. QED
        BY <1>1, <2>6, <4>1 DEF Chain
    <3>4. QED
      BY <3>1, <3>2, <3>3 DEF DlVisitsReverse
  <2>10. Unreferenced # {} /\ n = Cardinality(Unreferenced) - 1
    <3>1. 0 \in 0 .. n
      BY <2>2
    <3>2. QED
      BY <2>1, <2>3, <3>1 DEF n
  <2>11. QED
    BY <2>3, <2>7, <2>8, <2>9, <2>10, Zenon DEF AlistExact
<1>4. QED
  BY <1>2, <1>3

(* An append to such a list does not write through its tail.               *)
LEMMA ListsNoFault ==
  ASSUME ConstantAssumption, NEW l, NEW S, Lists(l, S)
  PROVE  ~DlAppendFaults(l)
<1>1. PICK n \in Nat, s \in [Nat -> Buf] :
        Chain(NULL, Buf, l.first, l.last, l.next, l.prev, s, n)
  BY DEF Lists
<1>2. s[n] \in Buf /\ NULL \notin Buf
  BY DEF ConstantAssumption
<1>3. QED
  BY <1>1, <1>2 DEF Chain, DlAppendFaults

(* The invariant: the list is exactly the unreferenced entries.            *)
AlistInv == Lists(alist, Unreferenced) /\ ReadInv

(* A step that neither takes nor gives back anything.                      *)
LEMMA SameUnreferenced ==
  ASSUME free' = free, cce' = cce
  PROVE  Unreferenced' = Unreferenced
BY DEF Unreferenced, Held

(* A new reference, seen from the buffers.                                 *)
LEMMA HeldMore ==
  ASSUME IInv, NEW h \in Handle, cce[h] = NULL, NULL \notin Buf, NEW c \in Buf,
         cce' = [cce EXCEPT ![h] = c]
  PROVE  Held(c)' # {} /\ \A b \in Buf \ {c} : Held(b)' = Held(b)
<1>1. cce \in [Handle -> Buf \cup {NULL}]
  BY DEF IInv, TypeOK
<1>2. cce'[h] = c /\ \A k \in Handle \ {h} : cce'[k] = cce[k]
  BY <1>1
<1>3. h \in Held(c)'
  BY <1>2 DEF Held
<1>4. QED
  BY <1>2, <1>3 DEF Held

(* The buffer shfs_cache_add or shfs_cache_eblank takes leaves the list,   *)
(* and comes back to it if it is only read ahead.                          *)
LEMMA AddLists ==
  ASSUME ConstantAssumption, IInv, Lists(alist, Unreferenced), pin = NULL,
         NEW c \in Buf, CanPick(c) \/ CanEvict(c)
  PROVE  /\ Lists(AddList(c), Unreferenced \ {c}) /\ ~AddFaults(c)
         /\ Lists(Added(c), Unreferenced \cup {c})
         /\ Lists(DlUnlink(Added(c), c), Unreferenced \ {c})
<1>1. Held(c) = {} /\ Unreferenced \in SUBSET Buf /\ Unreferenced \ {c} \in SUBSET Buf
  BY SpareFacts DEF Unreferenced
<1>2. Lists(AddList(c), Unreferenced \ {c})
  <2>1. CASE c \in free
    <3>1. AddList(c) = alist /\ Unreferenced \ {c} = Unreferenced
      BY <2>1 DEF AddList, Unreferenced
    <3>2. QED
      BY <3>1
  <2>2. CASE c \notin free
    <3>1. AddList(c) = DlUnlink(alist, c) /\ c \in Unreferenced
      BY <1>1, <2>2 DEF AddList, Unreferenced
    <3>2. QED
      BY <1>1, <3>1, ListsLess
  <2>3. QED
    BY <2>1, <2>2
<1>3. Lists(DlAppend(AddList(c), c), (Unreferenced \ {c}) \cup {c}) /\ ~DlAppendFaults(AddList(c))
  BY <1>1, <1>2, ListsMore, ListsNoFault
<1>4. (Unreferenced \ {c}) \cup {c} = Unreferenced \cup {c}
  OBVIOUS
<1>5. Lists(Added(c), Unreferenced \cup {c}) /\ ~AddFaults(c)
  BY <1>3, <1>4 DEF Added, AddFaults
<1>6. Lists(DlUnlink(Added(c), c), (Unreferenced \cup {c}) \ {c})
  BY <1>1, <1>5, ListsLess
<1>7. (Unreferenced \cup {c}) \ {c} = Unreferenced \ {c}
  OBVIOUS
<1>8. QED
  BY <1>2, <1>5, <1>6, <1>7

(* A refused add leaves the buffer to the pool.                            *)
LEMMA RefusedAlistInv ==
  ASSUME ConstantAssumption, IInv, AlistInv, pin = NULL, NEW c \in Buf, CanPick(c) \/ CanEvict(c),
         NEW a, AddRefused(c, a), cce' = cce
  PROVE  AlistInv'
<1>1. /\ free' = free \cup {c} /\ alist' = DlUnlink(Added(c), c) /\ busy' = busy
      /\ addr' = [addr EXCEPT ![c] = a] /\ invalid' = [invalid EXCEPT ![c] = @ \/ c \in free]
  BY DEF AddRefused, InitPicked
<1>2. Unreferenced' = Unreferenced \ {c}
  BY <1>1 DEF Unreferenced, Held
<1>3. Lists(alist', Unreferenced \ {c})
  BY <1>1, AddLists DEF AlistInv
<1>4. ReadInv'
  BY <1>1 DEF AlistInv, ReadInv, IInv, TypeOK
<1>5. QED
  BY <1>2, <1>3, <1>4 DEF AlistInv

(* An issued one makes it an entry that is being read.                     *)
LEMMA IssuedReadInv ==
  ASSUME IInv, ReadInv, NEW c \in Buf, NEW a, AddIssued(c, a)
  PROVE  ReadInv'
<1>1. /\ free' = free \ {c} /\ busy' = [busy EXCEPT ![c] = TRUE]
      /\ addr' = [addr EXCEPT ![c] = a] /\ invalid' = [invalid EXCEPT ![c] = @ \/ c \in free]
  BY DEF AddIssued, InitPicked
<1>2. QED
  BY <1>1 DEF ReadInv, IInv, TypeOK

LEMMA AreadHitAlistInv ==
  ASSUME ConstantAssumption, IInv, AlistInv, NEW h \in Handle, NEW a \in Chunk, AreadHit(h, a)
  PROVE  AlistInv'
<1>1. PICK c \in Cached(a) : TakeRef(c, alist, refcount[c]) /\ Begin(h, c, a)
  BY DEF AreadHit
<1>2. /\ c \in Buf \ free /\ pin = NULL /\ NULL \notin Buf /\ cce[h] = NULL
      /\ cce' = [cce EXCEPT ![h] = c] /\ UNCHANGED <<free, addr, invalid, busy>>
      /\ alist' = IF refcount[c] = 0 THEN DlUnlink(alist, c) ELSE alist
  BY <1>1, EnterFacts
     DEF AreadHit, Cached, Begin, TakeRef, IInv, TypeOK, PooledIsUnused, ConstantAssumption
<1>3. refcount[c] = 0 <=> c \in Unreferenced
  BY <1>2, RefcountFacts DEF Unreferenced
<1>4. Unreferenced' = Unreferenced \ {c}
  BY <1>2, HeldMore DEF Unreferenced
<1>5. Lists(alist', Unreferenced \ {c})
  <2>1. Unreferenced \in SUBSET Buf /\ (c \notin Unreferenced => Unreferenced \ {c} = Unreferenced)
    BY DEF Unreferenced
  <2>2. CASE c \in Unreferenced
    BY <1>2, <1>3, <2>1, <2>2, ListsLess DEF AlistInv
  <2>3. CASE c \notin Unreferenced
    BY <1>2, <1>3, <2>1, <2>3 DEF AlistInv
  <2>4. QED
    BY <2>2, <2>3
<1>6. ReadInv'
  BY <1>2 DEF AlistInv, ReadInv
<1>7. QED
  BY <1>4, <1>5, <1>6 DEF AlistInv

LEMMA AreadMissAlistInv ==
  ASSUME ConstantAssumption, IInv, AlistInv, NEW h \in Handle, NEW a \in Chunk, AreadMiss(h, a)
  PROVE  AlistInv'
<1>1. PICK c \in Buf :
        /\ CanPick(c) \/ CanEvict(c)
        /\ IF AddFaults(c) THEN Halt
           ELSE IF AioReady
           THEN AddIssued(c, a) /\ TakeRef(c, Added(c), RefOf(c)) /\ Begin(h, c, a)
           ELSE AddRefused(c, a) /\ UNCHANGED <<userVars, ctlVars>>
  BY DEF AreadMiss
<1>2. pin = NULL /\ cce[h] = NULL /\ NULL \notin Buf
  BY EnterFacts DEF AreadMiss, ConstantAssumption
<1>3. /\ Held(c) = {} /\ RefOf(c) = 0 /\ ~AddFaults(c)
      /\ Lists(DlUnlink(Added(c), c), Unreferenced \ {c})
  BY <1>1, <1>2, SpareFacts, AddLists DEF AlistInv
<1>4. CASE AioReady
  <2>1. /\ alist' = DlUnlink(Added(c), c) /\ free' = free \ {c} /\ cce' = [cce EXCEPT ![h] = c]
        /\ AddIssued(c, a)
    BY <1>1, <1>3, <1>4 DEF TakeRef, Begin, AddIssued
  <2>2. Unreferenced' = Unreferenced \ {c}
    BY <1>2, <2>1, HeldMore DEF Unreferenced
  <2>3. ReadInv'
    BY <2>1, IssuedReadInv DEF AlistInv
  <2>4. QED
    BY <1>3, <2>1, <2>2, <2>3 DEF AlistInv
<1>5. CASE ~AioReady
  <2>1. AddRefused(c, a) /\ cce' = cce
    BY <1>1, <1>3, <1>5 DEF userVars
  <2>2. QED
    BY <1>1, <1>2, <2>1, RefusedAlistInv
<1>6. QED
  BY <1>4, <1>5

LEMMA ReadaheadAddAlistInv ==
  ASSUME ConstantAssumption, IInv, AlistInv, ReadaheadAdd
  PROVE  AlistInv'
<1>1. PICK c \in Buf :
        /\ CanPick(c) \/ CanEvict(c)
        /\ IF AddFaults(c) THEN Halt
           ELSE /\ IF AioReady
                   THEN /\ AddIssued(c, Ahead) /\ NextAhead
                        /\ alist' = Added(c)
                   ELSE AddRefused(c, Ahead) /\ StopAhead
                /\ UNCHANGED <<userVars, flush, pin, trap>>
  BY DEF ReadaheadAdd
<1>2. pin = NULL
  BY InAreadFacts DEF ReadaheadAdd
<1>3. Held(c) = {} /\ ~AddFaults(c) /\ Lists(Added(c), Unreferenced \cup {c})
  BY <1>1, <1>2, SpareFacts, AddLists DEF AlistInv
<1>4. CASE AioReady
  <2>1. alist' = Added(c) /\ free' = free \ {c} /\ cce' = cce /\ AddIssued(c, Ahead)
    BY <1>1, <1>3, <1>4 DEF AddIssued, userVars
  <2>2. Unreferenced' = Unreferenced \cup {c}
    BY <1>3, <2>1 DEF Unreferenced, Held
  <2>3. ReadInv'
    BY <2>1, IssuedReadInv DEF AlistInv
  <2>4. QED
    BY <1>3, <2>1, <2>2, <2>3 DEF AlistInv
<1>5. CASE ~AioReady
  <2>1. AddRefused(c, Ahead) /\ cce' = cce
    BY <1>1, <1>3, <1>5 DEF userVars
  <2>2. QED
    BY <1>1, <1>2, <2>1, RefusedAlistInv
<1>6. QED
  BY <1>4, <1>5

(* A reference is given back.  Only a blank buffer can be destroyed, and   *)
(* that is on no list.                                                     *)
LEMMA UnrefAlistInv ==
  ASSUME ConstantAssumption, IInv, AlistInv, pin = NULL, pin' = NULL,
         NEW h \in Handle, NEW c \in Buf, cce[h] = c,
         NEW destroy \in BOOLEAN, destroy => addr[c] = NoChunk, Unref(c, destroy), Drop(h),
         UNCHANGED <<addr, invalid, busy>>
  PROVE  AlistInv'
<1>1. ~UnrefFaults(c, destroy)
  BY ListsNoFault DEF AlistInv, UnrefFaults
<1>2. /\ h \in Held(c) /\ c \notin free
      /\ \A b \in Buf \ {c} : Held(b)' = Held(b)
  BY <1>1, UnrefFacts
<1>3. refcount[c] = 1 <=> Held(c)' = {}
  <2>1. /\ refcount' = [refcount EXCEPT ![c] = @ - 1]
        /\ nbRef' = IF refcount[c] = 1 THEN nbRef - 1 ELSE nbRef
        /\ cce' = [cce EXCEPT ![h] = NULL]
    BY DEF Unref, Drop
  <2>2. QED
    BY <2>1, DropCounts
<1>4. c \notin Unreferenced /\ Unreferenced \in SUBSET Buf
  BY <1>2 DEF Unreferenced
<1>5. free \subseteq free'
  BY DEF Unref, Destroy
<1>6. ReadInv'
  BY <1>5 DEF AlistInv, ReadInv
<1>7. CASE refcount[c] # 1
  <2>1. alist' = alist /\ free' = free
    BY <1>7 DEF Unref
  <2>2. Unreferenced' = Unreferenced
    BY <1>2, <1>3, <1>7, <2>1 DEF Unreferenced
  <2>3. QED
    BY <1>6, <2>1, <2>2 DEF AlistInv
<1>8. CASE refcount[c] = 1 /\ destroy
  <2>1. alist' = alist /\ free' = free \cup {c}
    BY <1>8 DEF Unref, Destroy
  <2>2. Unreferenced' = Unreferenced
    BY <1>2, <2>1 DEF Unreferenced
  <2>3. QED
    BY <1>6, <2>1, <2>2 DEF AlistInv
<1>9. CASE refcount[c] = 1 /\ ~destroy
  <2>1. alist' = DlAppend(alist, c) /\ free' = free
    BY <1>9 DEF Unref
  <2>2. Unreferenced' = Unreferenced \cup {c}
    BY <1>2, <1>3, <1>9, <2>1 DEF Unreferenced
  <2>3. Lists(alist', Unreferenced \cup {c})
    BY <1>4, <2>1, ListsMore DEF AlistInv
  <2>4. QED
    BY <1>6, <2>2, <2>3 DEF AlistInv
<1>10. QED
  BY <1>7, <1>8, <1>9

(* Every step keeps it where no read fails.                                *)
LEMMA NextAlistInv ==
  ASSUME ConstantAssumption, ~IoFaults, IInv, AlistInv, [Next]_vars
  PROVE  AlistInv'
<1>1. CASE UNCHANGED <<free, addr, invalid, busy, alist, cce>>
  <2>1. Unreferenced' = Unreferenced
    BY <1>1, SameUnreferenced
  <2>2. QED
    BY <1>1, <2>1 DEF AlistInv, ReadInv
<1>2. CASE UNCHANGED vars \/ Halt \/ FlushBegin \/ FlushEnd \/ FlushPin \/ ReadaheadSkip
  <2>1. UNCHANGED <<free, addr, invalid, busy, alist, cce>>
    BY <1>2 DEF vars, Halt, FlushBegin, FlushEnd, FlushPin, ReadaheadSkip, entryVars, listVars, userVars
  <2>2. QED
    BY <1>1, <2>1
<1>3. ASSUME NEW h \in Handle, NEW a \in Chunk, AreadHit(h, a) \/ AreadMiss(h, a) PROVE AlistInv'
  BY <1>3, AreadHitAlistInv, AreadMissAlistInv
<1>4. ASSUME AreadReturn PROVE AlistInv'
  <2>1. PICK h \in Handle, c \in Buf : h = call.h /\ c = cce[h] /\ pin = NULL
    BY <1>4, InAreadFacts DEF AreadReturn
  <2>2. CASE UNCHANGED <<free, addr, invalid, busy, alist, cce>> \/ Halt
    BY <1>1, <1>2, <2>2
  <2>3. CASE /\ Unref(c, FALSE) /\ Drop(h)
             /\ UNCHANGED <<addr, invalid, busy, pin>>
    BY <2>1, <2>3, UnrefAlistInv
  <2>4. QED
    BY <1>4, <2>1, <2>2, <2>3 DEF AreadReturn, entryVars, listVars, userVars
<1>5. ASSUME NEW h \in Handle, Eblank(h) PROVE AlistInv'
  <2>1. PICK c \in Buf :
          /\ CanPick(c) \/ CanEvict(c)
          /\ IF RefOf(c) # 0 THEN Halt
             ELSE /\ free' = free \ {c} /\ alist' = AddList(c)
                  /\ addr' = [addr EXCEPT ![c] = NoChunk] /\ busy' = [busy EXCEPT ![c] = FALSE]
                  /\ invalid' = [invalid EXCEPT ![c] = TRUE] /\ cce' = [cce EXCEPT ![h] = c]
    BY <1>5 DEF Eblank
  <2>2. pin = NULL /\ cce[h] = NULL /\ NULL \notin Buf
    BY <1>5, EnterFacts DEF Eblank, ConstantAssumption
  <2>3. RefOf(c) = 0 /\ Lists(AddList(c), Unreferenced \ {c})
    BY <2>1, <2>2, SpareFacts, AddLists DEF AlistInv
  <2>4. Unreferenced' = Unreferenced \ {c}
    BY <2>1, <2>2, <2>3, HeldMore DEF Unreferenced
  <2>5. ReadInv'
    BY <2>1, <2>3 DEF AlistInv, ReadInv, IInv, TypeOK
  <2>6. QED
    BY <2>1, <2>3, <2>4, <2>5 DEF AlistInv
<1>6. ASSUME NEW h \in Handle, Finalize(h) PROVE AlistInv'
  BY <1>1, <1>6 DEF Finalize, entryVars, listVars
<1>7. ASSUME NEW h \in Handle, Release(h) \/ ReleaseIoabort(h) PROVE AlistInv'
  <2>1. PICK c \in Buf : c = cce[h]
    BY <1>7 DEF Release, ReleaseIoabort, IInv, TypeOK
  <2>2. pin = NULL /\ c \notin free
    BY <1>7, <2>1, EnterFacts DEF Release, ReleaseIoabort, IInv, HandleInv
  <2>3. PICK destroy \in BOOLEAN :
          /\ destroy => invalid[c] /\ ~busy[c]
          /\ \/ Halt
             \/ Unref(c, destroy) /\ Drop(h) /\ UNCHANGED <<addr, invalid, busy, pin>>
    <3>1. CASE Release(h)
      <4>1. invalid[c] \in BOOLEAN
        BY DEF IInv, TypeOK
      <4>2. Halt \/ (~busy[c] /\ Unref(c, invalid[c]) /\ Drop(h) /\ UNCHANGED <<addr, invalid, busy, pin>>)
        BY <2>1, <3>1 DEF Release, ctlVars
      <4>3. QED
        BY <4>1, <4>2
    <3>2. CASE ReleaseIoabort(h)
      <4>1. (~busy[c] /\ invalid[c]) \in BOOLEAN
        BY DEF IInv, TypeOK
      <4>2. \/ Halt
            \/ /\ Unref(c, ~busy[c] /\ invalid[c]) /\ Drop(h)
               /\ UNCHANGED <<addr, invalid, busy, pin>>
        BY <2>1, <3>2 DEF ReleaseIoabort, ctlVars
      <4>3. QED
        BY <4>1, <4>2
    <3>3. QED
      BY <1>7, <3>1, <3>2
  <2>4. destroy => addr[c] = NoChunk
    BY <2>2, <2>3 DEF AlistInv, ReadInv
  <2>5. QED
    BY <1>2, <2>1, <2>2, <2>3, <2>4, UnrefAlistInv
<1>8. ASSUME NEW c \in Buf, NEW r \in {"ok", "err"}, Complete(c, r) PROVE AlistInv'
  <2>1. \/ Halt
        \/ /\ UNCHANGED <<free, alist, addr, cce>> /\ busy' = [busy EXCEPT ![c] = FALSE]
           /\ invalid' = [invalid EXCEPT ![c] = FALSE]
    BY <1>8 DEF Complete, Outcome
  <2>2. CASE /\ UNCHANGED <<free, alist, addr, cce>> /\ busy' = [busy EXCEPT ![c] = FALSE]
             /\ invalid' = [invalid EXCEPT ![c] = FALSE]
    <3>1. ReadInv'
      BY <2>2 DEF AlistInv, ReadInv, IInv, TypeOK
    <3>2. QED
      BY <2>2, <3>1, SameUnreferenced DEF AlistInv
  <2>3. QED
    BY <1>2, <2>1, <2>2
<1>9. ASSUME FlushDrop PROVE AlistInv'
  <2>1. PICK c \in Buf :
          /\ c = IF pin # NULL THEN pin ELSE alist.first
          /\ \/ Halt
             \/ /\ free' = free \cup {c} /\ alist' = DlUnlink(alist, c)
                /\ UNCHANGED <<addr, invalid, busy, cce>>
    BY <1>9 DEF FlushDrop, userVars
  <2>2. c \in Unreferenced
    BY <2>1, FirstIsUnused DEF IInv, CtlInv, Unreferenced, ConstantAssumption
  <2>3. CASE /\ free' = free \cup {c} /\ alist' = DlUnlink(alist, c)
             /\ UNCHANGED <<addr, invalid, busy, cce>>
    <3>1. Unreferenced \in SUBSET Buf /\ Unreferenced' = Unreferenced \ {c}
      BY <2>3 DEF Unreferenced, Held
    <3>2. Lists(alist', Unreferenced \ {c})
      BY <2>2, <2>3, <3>1, ListsLess DEF AlistInv
    <3>3. ReadInv'
      BY <2>3 DEF AlistInv, ReadInv
    <3>4. QED
      BY <3>1, <3>2, <3>3 DEF AlistInv
  <2>4. QED
    BY <1>2, <2>1, <2>3
<1>10. QED
  BY <1>2, <1>3, <1>4, <1>5, <1>6, <1>7, <1>8, <1>9, ReadaheadAddAlistInv DEF Next, Aread, Flushing

LEMMA InitAlistInv ==
  ASSUME ConstantAssumption, Init
  PROVE  AlistInv
<1>1. NULL \notin Buf /\ Unreferenced = {} /\ alist = DlEmpty(Buf) /\ ReadInv
  BY DEF Init, Unreferenced, ReadInv, ConstantAssumption
<1>2. /\ alist \in DlType(Buf) /\ alist.first = NULL /\ alist.last = NULL
  BY <1>1, DlFields DEF DlEmpty, DlType
<1>3. PICK b \in Buf : TRUE
  BY DEF ConstantAssumption
<1>4. [k \in Nat |-> b] \in [Nat -> Buf] /\ 0 \in Nat /\ 1 .. 0 = {}
  OBVIOUS
<1>5. Chain(NULL, Buf, alist.first, alist.last, alist.next, alist.prev, [k \in Nat |-> b], 0)
  BY <1>2, <1>4 DEF Chain
<1>6. \A x \in Buf : x \in Unreferenced <=> \E i \in 1 .. 0 : [k \in Nat |-> b][i] = x
  BY <1>1, <1>4
<1>7. Lists(alist, Unreferenced)
  BY <1>2, <1>4, <1>5, <1>6 DEF Lists
<1>8. QED
  BY <1>1, <1>7 DEF AlistInv

(* Where no read fails, the available list is in order in every state.     *)
LEMMA ListInOrder == ASSUME ~IoFaults PROVE Spec => []AlistInv
<1>1. Init => AlistInv
  BY InitAlistInv, ConstantAssumption
<1>2. IInv /\ AlistInv /\ [Next]_vars => AlistInv'
  BY NextAlistInv, ConstantAssumption
<1>3. QED
  BY <1>1, <1>2, CacheInvariant, PTL DEF Spec

(* The available list, walked in either direction, is exactly the entries  *)
(* outside the pool that nobody refers to, where no read fails.  Where one *)
(* fails, an entry it did not hold is unlinked from it (run cache_flush).  *)
THEOREM CacheAlistExact == ASSUME ~IoFaults PROVE Spec => []AlistExact
<1>1. AlistInv => AlistExact
  BY ListsExact, ConstantAssumption DEF AlistInv
<1>2. QED
  BY <1>1, ListInOrder, PTL

(* The cache never stops at a BUG_ON or at the null pointer, where no read *)
(* fails: of the two, only the null pointer can be met (OnlyListTraps),    *)
(* and this list always has its tail.                                      *)
THEOREM CacheNeverTraps == ASSUME ~IoFaults PROVE Spec => []~trap
<1>1. Init => ~trap
  BY DEF Init
<1>2. AlistInv => ~DlAppendFaults(alist)
  BY ListsNoFault, ConstantAssumption DEF AlistInv
<1>3. Spec => [][~trap => ~trap']_vars
  <2>1. AlistInv /\ [trap' /\ ~trap => DlAppendFaults(alist)]_vars => [~trap => ~trap']_vars
    BY <1>2
  <2>2. QED
    BY <2>1, ListInOrder, CacheOnlyListTraps, PTL DEF OnlyListTraps
<1>4. ~trap /\ [~trap => ~trap']_vars => ~trap'
  BY DEF vars, ctlVars
<1>5. QED
  BY <1>1, <1>3, <1>4, PTL DEF Spec

(* When shfs_cache_flush_alist returns, every buffer outside the pool is   *)
(* referenced, where no read fails.                                        *)
THEOREM CacheFlushReleases == ASSUME ~IoFaults PROVE Spec => FlushReleases
<1>1. ASSUME IInv, AlistInv, [Next]_vars, flush = "run", flush' = "idle", NEW b \in Buf \ free
      PROVE  refcount[b] > 0
  <2>1. FlushEnd
    <3>1. ~Enter
      BY <1>1 DEF Enter
    <3>2. ~InAread
      BY <1>1, InAreadFacts, ConstantAssumption
    <3>3. flush' = flush \/ FlushEnd
      BY <1>1, <3>1, <3>2
         DEF Next, AreadHit, AreadMiss, Aread, AreadReturn, ReadaheadSkip, ReadaheadAdd, Eblank, Finalize,
             Release, ReleaseIoabort, Complete, FlushBegin, Flushing, FlushPin, FlushDrop, Halt, vars, ctlVars
    <3>4. QED
      BY <1>1, <3>3
  <2>2. pin = NULL /\ Unreferenced = {}
    <3>1. pin = NULL /\ alist.first = NULL /\ Unreferenced \in SUBSET Buf
      BY <2>1 DEF FlushEnd, Unreferenced
    <3>2. QED
      BY <1>1, <3>1, ListsHead, ConstantAssumption DEF AlistInv
  <2>3. Held(b) # {} /\ pin # b
    <3>1. Held(b) = {} => b \in Unreferenced
      BY DEF Unreferenced
    <3>2. b # NULL
      BY ConstantAssumption DEF ConstantAssumption
    <3>3. QED
      BY <2>2, <3>1, <3>2
  <2>4. refcount[b] \in Nat /\ refcount[b] # 0
    BY <1>1, <2>3, RefcountFacts, ConstantAssumption
  <2>5. QED
    BY <2>4
<1>2. IInv /\ AlistInv /\ [Next]_vars =>
        [flush = "run" /\ flush' = "idle" => \A b \in Buf \ free : refcount[b] > 0]_vars
  BY <1>1
<1>3. QED
  BY <1>2, CacheInvariant, ListInOrder, PTL DEF Spec, FlushReleases

-----------------------------------------------------------------------------
(* The refinement of ChunkReads.  View is what its variable stands for.    *)
View == [h \in Handle |-> IF Holding(h) THEN ViewOf(h) ELSE Contract!Idle]

(* What a handle stands for, by the state of its entry.                    *)
ViewShape(h) ==
  IF ~Holding(h) THEN View[h] = Contract!Idle
  ELSE /\ View[h] # Contract!Idle /\ View[h].st # "idle"
       /\ cce[h] \in Buf \ free /\ want[h] = addr[cce[h]]
       /\ want[h] = NoChunk <=> View[h].st = "blank"
       /\ want[h] = NoChunk => View[h] = Contract!Blank
       /\ want[h] # NoChunk =>
            /\ View[h].chunk = want[h] /\ want[h] \in Chunk
            /\ busy[cce[h]] => View[h] = Contract!Waiting(want[h])
            /\ ~busy[cce[h]] /\ invalid[cce[h]] => View[h] = Contract!Failed(want[h])
            /\ ~busy[cce[h]] /\ ~invalid[cce[h]] => View[h] = Contract!Ready(want[h])

LEMMA ViewIs ==
  ASSUME ConstantAssumption, IInv, NEW h \in Handle
  PROVE  ViewShape(h)
<1> USE DEF ViewShape
<1>1. ~Holding(h) => View[h] = Contract!Idle
  BY DEF View
<1>2. ASSUME Holding(h)
      PROVE  /\ View[h] = ViewOf(h) /\ cce[h] \in Buf \ free /\ want[h] = addr[cce[h]]
             /\ want[h] \in Chunk \cup {NoChunk}
             /\ busy[cce[h]] <=> tok[h] = "infly"
             /\ ~busy[cce[h]] /\ ~invalid[cce[h]] => data[cce[h]] = want[h]
  BY <1>2 DEF View, Holding, IInv, HandleInv, TypeOK, EntryInv
<1>3. CASE Holding(h) /\ want[h] = NoChunk
  BY <1>2, <1>3 DEF ViewOf, Contract!Idle, Contract!Blank, NoChunk
<1>4. CASE Holding(h) /\ want[h] # NoChunk
  <2>1. NoChunk \notin Chunk /\ want[h] \in Chunk
    BY <1>2, <1>4 DEF Chunk, NoChunk
  <2>2. CASE busy[cce[h]]
    BY <1>2, <1>4, <2>1, <2>2 DEF ViewOf, Contract!Idle, Contract!Waiting
  <2>3. CASE ~busy[cce[h]] /\ invalid[cce[h]]
    BY <1>2, <1>4, <2>1, <2>3 DEF ViewOf, Contract!Idle, Contract!Failed
  <2>4. CASE ~busy[cce[h]] /\ ~invalid[cce[h]]
    BY <1>2, <1>4, <2>1, <2>4 DEF ViewOf, Contract!Idle, Contract!Ready
  <2>5. QED
    BY <2>2, <2>3, <2>4
<1>5. QED
  BY <1>1, <1>3, <1>4

(* A handle whose own state and whose entry's outcome a step leaves alone. *)
LEMMA SameView ==
  ASSUME NEW h \in Handle, Holding(h)' <=> Holding(h),
         Holding(h) => /\ cce'[h] = cce[h] /\ want'[h] = want[h]
                       /\ tok'[h] = "infly" <=> tok[h] = "infly"
                       /\ invalid'[cce[h]] = invalid[cce[h]] /\ data'[cce[h]] = data[cce[h]]
  PROVE  View'[h] = View[h]
<1>1. CASE Holding(h)
  <2>1. ViewOf(h)' = ViewOf(h)
    BY <1>1 DEF ViewOf
  <2>2. QED
    BY <1>1, <2>1 DEF View
<1>2. CASE ~Holding(h)
  BY <1>2 DEF View, Contract!Idle
<1>3. QED
  BY <1>1, <1>2

LEMMA AllSameView ==
  ASSUME \A h \in Handle : View'[h] = View[h]
  PROVE  View' = View
BY DEF View

LEMMA OneViewChanges ==
  ASSUME NEW h \in Handle, \A k \in Handle \ {h} : View'[k] = View[k]
  PROVE  View' = [View EXCEPT ![h] = View'[h]]
BY DEF View

(* The chunks and the blanks that are in use fit the buffers: each chunk   *)
(* is some entry's address, and each blank has an entry of its own.        *)
LEMMA NeededFits ==
  ASSUME ConstantAssumption, IInv
  PROVE  Contract!Needed(View) <= Cardinality(Buf)
<1> DEFINE U == {x \in Handle : View[x].st \notin {"idle", "blank"}}
           B == {x \in Handle : View[x].st = "blank"}
           C == {View[h].chunk : h \in U}
           D == {cce[h] : h \in U}
           E == {cce[h] : h \in B}
           f == [b \in D |-> addr[b]]
           g == [h \in B |-> cce[h]]
<1>1. \A h \in U : cce[h] \in Buf /\ addr[cce[h]] # NoChunk /\ View[h].chunk = addr[cce[h]]
  BY ViewIs DEF ViewShape, Contract!Idle
<1>2. \A h \in B : cce[h] \in Buf \ free /\ addr[cce[h]] = NoChunk
  BY ViewIs DEF ViewShape, Contract!Idle
<1>3. D \subseteq Buf /\ E \subseteq Buf /\ D \cap E = {}
  BY <1>1, <1>2
<1>4. IsFiniteSet(D) /\ IsFiniteSet(E) /\ IsFiniteSet(Buf)
  BY <1>3, FS_Subset DEF ConstantAssumption
<1>5. Cardinality(C) <= Cardinality(D) /\ IsFiniteSet(C)
  <2>1. f \in [D -> C] /\ \A v \in C : \E b \in D : f[b] = v
    BY <1>1
  <2>2. f \in Surjection(D, C)
    BY <2>1 DEF Surjection
  <2>3. QED
    BY <1>4, <2>2, FS_Surjection
<1>6. Cardinality(B) <= Cardinality(E) /\ IsFiniteSet(B)
  <2>1. ASSUME NEW h \in B, NEW k \in B, cce[h] = cce[k] PROVE h = k
    <3>1. PICK x \in Handle : Held(cce[h]) = {x}
      BY <1>2 DEF IInv, EntryInv
    <3>2. h \in Held(cce[h]) /\ k \in Held(cce[h])
      BY <2>1 DEF Held
    <3>3. QED
      BY <3>1, <3>2
  <2>2. g \in [B -> E] /\ \A h, k \in B : g[h] = g[k] => h = k
    BY <2>1
  <2>3. g \in Injection(B, E)
    BY <2>2 DEF Injection, IsInjective
  <2>4. QED
    BY <1>4, <2>3, FS_Injection
<1>7. Cardinality(D \cup E) = Cardinality(D) + Cardinality(E) /\ Cardinality(D \cup E) <= Cardinality(Buf)
  <2>1. Cardinality(D \cap E) = 0
    BY <1>3, FS_EmptySet
  <2>2. D \cup E \in SUBSET Buf
    BY <1>3
  <2>3. Cardinality(D) \in Nat /\ Cardinality(E) \in Nat
    BY <1>4, FS_CardinalityType
  <2>4. Cardinality(D \cup E) = Cardinality(D) + Cardinality(E) - Cardinality(D \cap E)
    BY <1>4, FS_Union
  <2>5. Cardinality(D \cup E) <= Cardinality(Buf)
    BY <1>4, <2>2, FS_Subset
  <2> HIDE DEF D, E
  <2>6. QED
    BY <2>1, <2>3, <2>4, <2>5
<1>8. /\ Cardinality(B) \in Nat /\ Cardinality(C) \in Nat /\ Cardinality(D) \in Nat
      /\ Cardinality(E) \in Nat /\ Cardinality(Buf) \in Nat
  BY <1>4, <1>5, <1>6, FS_CardinalityType
<1>9. Contract!Needed(View) = Cardinality(C) + Cardinality(B)
  <2>1. Contract!Needed(View) = Contract!Cardinality(C) + Contract!Cardinality(B)
    BY Zenon DEF Contract!Needed
  <2>2. \A S : Contract!Cardinality(S) = Cardinality(S)
    BY Zenon DEF Contract!Cardinality, Cardinality
  <2>3. QED
    BY <2>1, <2>2
<1>10. QED
  BY <1>5, <1>6, <1>7, <1>8, <1>9

(* The same after a step.                                                  *)
LEMMA ViewIsAfter ==
  IInv' => /\ \A h \in Handle : ViewShape(h)'
           /\ Contract!Needed(View') <= Cardinality(Buf)
<1>1. IInv => (\A h \in Handle : ViewShape(h)) /\ Contract!Needed(View) <= Cardinality(Buf)
  BY ViewIs, NeededFits, ConstantAssumption
<1>2. (IInv => (\A h \in Handle : ViewShape(h)) /\ Contract!Needed(View) <= Cardinality(Buf))'
  BY <1>1, PTL
<1>3. QED
  BY <1>2

(* A read or a blank buffer is granted to a caller that had nothing.       *)
LEMMA GrantIs ==
  ASSUME ConstantAssumption, IInv, IInv', NEW h \in Handle, ~Holding(h), NEW v, View'[h] = v,
         \A k \in Handle \ {h} : View'[k] = View[k]
  PROVE  Contract!Grant(h, v)
<1>1. View[h] = Contract!Idle
  BY ViewIs DEF ViewShape
<1>2. View' = [View EXCEPT ![h] = v]
  BY OneViewChanges
<1>3. Contract!Needed(View') <= Cardinality(Buf)
  BY ViewIsAfter
<1>4. QED
  BY <1>1, <1>2, <1>3 DEF Contract!Grant, Contract!Idle, View

(* Somebody gives back what it holds.                                      *)
LEMMA ReleaseIs ==
  ASSUME ConstantAssumption, IInv, NEW h \in Handle, Holding(h), ~Holding(h)',
         \A k \in Handle \ {h} : View'[k] = View[k]
  PROVE  Contract!Release(h)
<1>1. View[h] # Contract!Idle
  BY ViewIs DEF ViewShape
<1>2. View'[h] = Contract!Idle
  BY DEF View, Contract!Idle
<1>3. View' = [View EXCEPT ![h] = Contract!Idle]
  BY <1>2, OneViewChanges
<1>4. QED
  BY <1>1, <1>3 DEF Contract!Release, Contract!Idle, View

(* FailedInv, entry by entry.                                              *)
FailedAt(b) ==
  invalid[b] /\ ~busy[b] /\ addr[b] # NoChunk => pin = b \/ \E h \in Held(b) : Holding(h)

LEMMA FailedKept ==
  ASSUME FailedInv, NEW b \in Buf \ free,
         addr'[b] = addr[b], invalid'[b] = invalid[b], busy'[b] = busy[b], pin = b => pin' = b,
         \A h \in Handle : cce[h] = b /\ Holding(h) => cce'[h] = b /\ Holding(h)'
  PROVE  FailedAt(b)'
BY DEF FailedInv, FailedAt, Held

LEMMA FailedAll ==
  ASSUME \A b \in Buf \ free' : FailedAt(b)'
  PROVE  FailedInv'
BY DEF FailedInv, FailedAt, Held, Holding

(* Steps that no caller sees.                                              *)
LEMMA QuietStep ==
  ASSUME FailedInv, UNCHANGED <<addr, invalid, busy, data, cce, want>>, free \subseteq free',
         call'.h = call.h, \A b \in Buf \ free' : pin = b => pin' = b,
         \A h \in Handle : tok'[h] = "infly" <=> tok[h] = "infly"
  PROVE  FailedInv' /\ View' = View
<1>1. \A h \in Handle : Holding(h)' <=> Holding(h)
  BY DEF Holding
<1>2. \A h \in Handle : View'[h] = View[h]
  BY <1>1, SameView
<1>3. ASSUME NEW b \in Buf \ free' PROVE FailedAt(b)'
  BY <1>1, <1>3, FailedKept
<1>4. QED
  BY <1>2, <1>3, AllSameView, FailedAll

(* A buffer is added to the cache, and is nobody's or the caller's who is  *)
(* not told yet.                                                           *)
LEMMA AddUnseen ==
  ASSUME ConstantAssumption, IInv, FailedInv, pin = NULL, pin' = NULL, tok' = tok,
         NEW c \in Buf, CanPick(c) \/ CanEvict(c), NEW a, AddIssued(c, a) \/ AddRefused(c, a),
         \A h \in Handle : Holding(h)' <=> Holding(h),
         \A h \in Handle : Holding(h) => cce'[h] = cce[h] /\ want'[h] = want[h]
  PROVE  FailedInv' /\ View' = View
<1>1. /\ data' = data /\ \A b \in Buf \ {c} : addr'[b] = addr[b] /\ invalid'[b] = invalid[b] /\ busy'[b] = busy[b]
      /\ \A b \in Buf \ free' : b # c => b \notin free
      /\ c \notin free' => busy'[c]
  BY DEF AddIssued, AddRefused, InitPicked, IInv, TypeOK
<1>2. \A h \in Handle : Holding(h) => cce[h] \in Buf /\ cce[h] # c
  BY SpareFacts DEF Held, Holding, IInv, TypeOK
<1>3. \A h \in Handle : View'[h] = View[h]
  BY <1>1, <1>2, SameView
<1>4. ASSUME NEW b \in Buf \ free' PROVE FailedAt(b)'
  <2>1. CASE b = c
    BY <1>1, <1>4, <2>1 DEF FailedAt
  <2>2. CASE b # c
    BY <1>1, <1>4, <2>2, FailedKept, ConstantAssumption DEF ConstantAssumption
  <2>3. QED
    BY <2>1, <2>2
<1>5. QED
  BY <1>3, <1>4, AllSameView, FailedAll

LEMMA AreadUnseen ==
  ASSUME ConstantAssumption, IInv, FailedInv, NEW h \in Handle, NEW a \in Chunk, AreadHit(h, a) \/ AreadMiss(h, a)
  PROVE  FailedInv' /\ View' = View
<1>1. pin = NULL /\ cce[h] = NULL /\ call.h = NULL /\ NULL \notin Handle /\ cce \in [Handle -> Buf \cup {NULL}]
      /\ want \in [Handle -> Chunk \cup {NoChunk}]
  BY EnterFacts DEF AreadHit, AreadMiss, IInv, TypeOK
<1>2. ASSUME NEW c \in Buf, Begin(h, c, a)
      PROVE  /\ tok' = tok /\ pin' = NULL
             /\ \A k \in Handle : Holding(k)' <=> Holding(k)
             /\ \A k \in Handle : Holding(k) => cce'[k] = cce[k] /\ want'[k] = want[k]
  BY <1>1, <1>2 DEF Begin, Holding
<1>3. CASE AreadHit(h, a)
  <2>1. PICK c \in Cached(a) : TakeRef(c, alist, refcount[c]) /\ Begin(h, c, a)
    BY <1>3 DEF AreadHit
  <2>2. c \in Buf
    BY <2>1 DEF Cached, IInv, TypeOK
  <2>3. UNCHANGED <<free, addr, invalid, busy, data>>
    BY <1>3 DEF AreadHit
  <2>4. \A k \in Handle : View'[k] = View[k]
    BY <1>2, <2>1, <2>2, <2>3, SameView
  <2>5. ASSUME NEW b \in Buf \ free' PROVE FailedAt(b)'
    BY <1>1, <1>2, <2>1, <2>2, <2>3, <2>5, FailedKept
  <2>6. QED
    BY <2>4, <2>5, AllSameView, FailedAll
<1>4. CASE AreadMiss(h, a)
  <2>1. PICK c \in Buf :
          /\ CanPick(c) \/ CanEvict(c)
          /\ \/ Halt
             \/ AddIssued(c, a) /\ Begin(h, c, a)
             \/ AddRefused(c, a) /\ UNCHANGED <<userVars, ctlVars>>
    BY <1>4 DEF AreadMiss
  <2>2. CASE Halt
    BY <2>2, QuietStep DEF Halt, entryVars, userVars
  <2>3. CASE AddIssued(c, a) /\ Begin(h, c, a)
    BY <1>1, <1>2, <2>1, <2>3, AddUnseen
  <2>4. CASE AddRefused(c, a) /\ UNCHANGED <<userVars, ctlVars>>
    BY <1>1, <2>1, <2>4, AddUnseen DEF userVars, ctlVars, Holding
  <2>5. QED
    BY <2>1, <2>2, <2>3, <2>4
<1>5. QED
  BY <1>3, <1>4

LEMMA ReadaheadUnseen ==
  ASSUME ConstantAssumption, IInv, FailedInv, ReadaheadSkip \/ ReadaheadAdd
  PROVE  FailedInv' /\ View' = View
<1>1. call \in [h : Handle, i : 0 .. ReadAhead + 1] /\ pin = NULL
  BY InAreadFacts DEF ReadaheadSkip, ReadaheadAdd
<1>2. NextAhead \/ StopAhead => call'.h = call.h
  BY <1>1 DEF NextAhead, StopAhead
<1>3. CASE ReadaheadSkip
  <2>1. UNCHANGED <<free, addr, invalid, busy, data, cce, want, tok, pin>> /\ call'.h = call.h
    BY <1>2, <1>3 DEF ReadaheadSkip, entryVars, userVars
  <2>2. QED
    BY <2>1, QuietStep
<1>4. CASE ReadaheadAdd
  <2>1. PICK c \in Buf :
          /\ CanPick(c) \/ CanEvict(c)
          /\ \/ Halt
             \/ /\ AddIssued(c, Ahead) \/ AddRefused(c, Ahead)
                /\ NextAhead \/ StopAhead
                /\ UNCHANGED <<userVars, pin>>
    BY <1>4 DEF ReadaheadAdd
  <2>2. CASE Halt
    BY <2>2, QuietStep DEF Halt, entryVars, userVars
  <2>3. CASE /\ AddIssued(c, Ahead) \/ AddRefused(c, Ahead)
             /\ NextAhead \/ StopAhead
             /\ UNCHANGED <<userVars, pin>>
    <3>1. UNCHANGED <<cce, want, tok, pin>> /\ call'.h = call.h
      BY <1>2, <2>3 DEF userVars
    <3>2. \A h \in Handle : Holding(h)' <=> Holding(h)
      BY <3>1 DEF Holding
    <3>3. QED
      BY <1>1, <2>1, <2>3, <3>1, <3>2, AddUnseen
  <2>4. QED
    BY <2>1, <2>2, <2>3
<1>5. QED
  BY <1>3, <1>4

(* What a handle on an entry with a chunk stands for, ...                  *)
Outcomes(a, c) == IF busy[c] THEN Contract!Waiting(a)
                  ELSE IF invalid[c] THEN Contract!Failed(a) ELSE Contract!Ready(a)

LEMMA ViewOn ==
  ASSUME ConstantAssumption, IInv, NEW h \in Handle, Holding(h), want[h] # NoChunk
  PROVE  View[h] = Outcomes(want[h], cce[h])
BY ViewIs DEF ViewShape, Outcomes

(* ... and which entry that is if it stands for a use of the chunk.        *)
LEMMA OnChunk ==
  ASSUME ConstantAssumption, IInv, NEW x \in Handle, NEW c \in Buf \ free, addr[c] \in Chunk,
         View[x] \in {Contract!Waiting(addr[c]), Contract!Failed(addr[c]), Contract!Ready(addr[c])}
  PROVE  Holding(x) /\ cce[x] = c /\ want[x] = addr[c] /\ View[x] = Outcomes(addr[c], c)
<1>1. View[x].chunk = addr[c] /\ View[x].st \notin {"idle", "blank"} /\ addr[c] # NoChunk
  BY DEF Contract!Waiting, Contract!Failed, Contract!Ready, Chunk, NoChunk
<1>2. Holding(x) /\ want[x] # NoChunk
  BY <1>1, ViewIs DEF ViewShape, Contract!Idle
<1>3. cce[x] \in Buf \ free /\ want[x] = addr[cce[x]] /\ want[x] = addr[c]
  BY <1>1, <1>2, ViewIs DEF ViewShape
<1>4. cce[x] = c
  BY <1>1, <1>3 DEF IInv, EntryInv, OneBufferPerChunk
<1>5. QED
  BY <1>2, <1>3, <1>4, ViewOn

(* shfs_cache_aread returns.                                               *)
LEMMA AreadReturnServes ==
  ASSUME ConstantAssumption, IInv, IInv', FailedInv, AreadReturn
  PROVE  FailedInv' /\ (View' = View \/ \E h \in Handle, a \in Chunk : Contract!Serve(h, a))
<1>1. PICK h \in Handle, c \in Buf, a \in Chunk : h = call.h /\ c = cce[h] /\ a = want[h]
  BY InAreadFacts DEF AreadReturn
<1>2. /\ c \notin free /\ addr[c] = a /\ pin = NULL /\ tok[h] = "none" /\ NULL \notin Handle /\ NULL \notin Buf
      /\ cce \in [Handle -> Buf \cup {NULL}] /\ want \in [Handle -> Chunk \cup {NoChunk}] /\ a # NoChunk
      /\ tok \in [Handle -> {"none", "infly", "ok", "err"}]
  BY <1>1, InAreadFacts DEF AreadReturn, IInv, HandleInv, TypeOK, ConstantAssumption, Chunk, NoChunk
<1>3. ~Holding(h)
  BY <1>1 DEF Holding
<1>4. CASE /\ call' = NoCall /\ UNCHANGED <<free, addr, invalid, busy, data, cce, want, pin>>
           /\ \A k \in Handle \ {h} : tok'[k] = tok[k]
  <2>1. Holding(h)' /\ \A k \in Handle \ {h} : Holding(k)' <=> Holding(k)
    BY <1>1, <1>2, <1>4 DEF Holding, NoCall
  <2>2. \A k \in Handle \ {h} : View'[k] = View[k]
    BY <1>4, <2>1, SameView
  <2>3. ASSUME NEW b \in Buf \ free' PROVE FailedAt(b)'
    BY <1>3, <1>4, <2>1, <2>3, FailedKept
  <2>4. View'[h] = Outcomes(a, c)
    <3>1. ViewShape(h)'
      BY ViewIsAfter
    <3>2. cce'[h] = c /\ want'[h] = a /\ busy'[c] = busy[c] /\ invalid'[c] = invalid[c]
      BY <1>1, <1>4
    <3>3. QED
      BY <1>2, <2>1, <3>1, <3>2 DEF ViewShape, Outcomes, Contract!Waiting, Contract!Failed, Contract!Ready
  <2>5. Contract!Grant(h, Outcomes(a, c))
    BY <1>3, <2>2, <2>4, GrantIs
  <2>6. \A x \in Handle :
          View[x] \in {Contract!Waiting(a), Contract!Failed(a), Contract!Ready(a)} => View[x] = Outcomes(a, c)
    BY <1>2, OnChunk
  <2>7. /\ Contract!Waiting(a) # Contract!Failed(a) /\ Contract!Waiting(a) # Contract!Ready(a)
        /\ Contract!Failed(a) # Contract!Ready(a)
    BY DEF Contract!Waiting, Contract!Failed, Contract!Ready
  <2>8. Contract!Serve(h, a)
    <3>1. CASE busy[c]
      <4>1. Outcomes(a, c) = Contract!Waiting(a)
        BY <3>1 DEF Outcomes
      <4>2. \A x \in Handle : View[x] \notin {Contract!Ready(a), Contract!Failed(a)}
        BY <2>6, <2>7, <4>1
      <4>3. QED
        BY <2>5, <4>1, <4>2 DEF Contract!Serve, Contract!Idle, View
    <3>2. CASE ~busy[c] /\ invalid[c]
      <4>1. Outcomes(a, c) = Contract!Failed(a)
        BY <3>2 DEF Outcomes
      <4>2. PICK x \in Handle : cce[x] = c /\ Holding(x)
        BY <1>2, <3>2 DEF FailedInv, Held
      <4>3. View[x] = Contract!Failed(a)
        <5>1. want[x] = a
          BY <1>2, <4>2, ViewIs DEF ViewShape
        <5>2. QED
          BY <1>2, <4>1, <4>2, <5>1, ViewOn
      <4>4. QED
        BY <2>5, <4>1, <4>3 DEF Contract!Serve, Contract!Idle, View
    <3>3. CASE ~busy[c] /\ ~invalid[c]
      <4>1. Outcomes(a, c) = Contract!Ready(a)
        BY <3>3 DEF Outcomes
      <4>2. \A x \in Handle : View[x] \notin {Contract!Waiting(a), Contract!Failed(a)}
        BY <2>6, <2>7, <4>1
      <4>3. QED
        BY <2>5, <4>1, <4>2 DEF Contract!Serve, Contract!Idle, View
    <3>4. QED
      BY <3>1, <3>2, <3>3
  <2>9. QED
    BY <2>3, <2>8, FailedAll
<1>5. CASE /\ busy[c] /\ Unref(c, FALSE) /\ Drop(h) /\ call' = NoCall
           /\ UNCHANGED <<addr, invalid, busy, data, tok, pin>>
  <2>1. /\ free' = free /\ cce' = [cce EXCEPT ![h] = NULL] /\ want' = [want EXCEPT ![h] = NoChunk]
    BY <1>5 DEF Unref, Drop
  <2>2. \A k \in Handle : Holding(k)' <=> Holding(k)
    BY <1>1, <1>2, <1>5, <2>1 DEF Holding, NoCall
  <2>3. \A k \in Handle : View'[k] = View[k]
    BY <1>2, <1>3, <1>5, <2>1, <2>2, SameView
  <2>4. ASSUME NEW b \in Buf \ free' PROVE FailedAt(b)'
    BY <1>2, <1>3, <1>5, <2>1, <2>2, <2>4, FailedKept
  <2>5. QED
    BY <2>3, <2>4, AllSameView, FailedAll
<1>6. CASE Halt
  BY <1>6, QuietStep DEF Halt, entryVars, userVars
<1>7. QED
  <2>1. \/ Halt
        \/ /\ call' = NoCall /\ UNCHANGED <<free, addr, invalid, busy, data, cce, want, pin>>
           /\ tok' = tok \/ tok' = [tok EXCEPT ![h] = "infly"]
        \/ /\ busy[c] /\ Unref(c, FALSE) /\ Drop(h) /\ call' = NoCall
           /\ UNCHANGED <<addr, invalid, busy, data, tok, pin>>
    BY <1>1 DEF AreadReturn, entryVars, userVars
  <2>2. QED
    BY <1>2, <1>4, <1>5, <1>6, <2>1

(* shfs_cache_eblank.                                                      *)
LEMMA EblankGrants ==
  ASSUME ConstantAssumption, IInv, IInv', FailedInv, NEW h \in Handle, Eblank(h)
  PROVE  FailedInv' /\ (View' = View \/ Contract!Grant(h, Contract!Blank))
<1>1. PICK c \in Buf :
        /\ CanPick(c) \/ CanEvict(c)
        /\ \/ Halt
           \/ /\ free' = free \ {c} /\ addr' = [addr EXCEPT ![c] = NoChunk]
              /\ busy' = [busy EXCEPT ![c] = FALSE] /\ invalid' = [invalid EXCEPT ![c] = TRUE]
              /\ cce' = [cce EXCEPT ![h] = c] /\ UNCHANGED <<data, tok, want, ctlVars>>
  BY DEF Eblank
<1>2. /\ pin = NULL /\ cce[h] = NULL /\ call.h = NULL /\ NULL \notin Handle /\ NULL \notin Buf
      /\ cce \in [Handle -> Buf \cup {NULL}] /\ want[h] = NoChunk /\ Held(c) = {}
  BY <1>1, EnterFacts, SpareFacts DEF Eblank, IInv, TypeOK, HandleInv, ConstantAssumption
<1>3. CASE Halt
  BY <1>3, QuietStep DEF Halt, entryVars, userVars
<1>4. CASE /\ free' = free \ {c} /\ addr' = [addr EXCEPT ![c] = NoChunk]
           /\ busy' = [busy EXCEPT ![c] = FALSE] /\ invalid' = [invalid EXCEPT ![c] = TRUE]
           /\ cce' = [cce EXCEPT ![h] = c] /\ UNCHANGED <<data, tok, want, ctlVars>>
  <2>1. /\ ~Holding(h) /\ Holding(h)' /\ \A k \in Handle \ {h} : cce'[k] = cce[k] /\ (Holding(k)' <=> Holding(k))
        /\ call' = call /\ pin' = pin
    BY <1>2, <1>4 DEF Holding, ctlVars
  <2>2. \A b \in Buf \ {c} : addr'[b] = addr[b] /\ invalid'[b] = invalid[b] /\ busy'[b] = busy[b]
    BY <1>4 DEF IInv, TypeOK
  <2>3. addr'[c] = NoChunk
    BY <1>4 DEF IInv, TypeOK
  <2>4. \A k \in Handle \ {h} : View'[k] = View[k]
    <3>1. \A k \in Handle : Holding(k) => cce[k] \in Buf \ {c}
      BY <1>2 DEF Held, Holding
    <3>2. QED
      BY <1>4, <2>1, <2>2, <3>1, SameView
  <2>5. View'[h] = Contract!Blank
    <3>1. ViewShape(h)'
      BY ViewIsAfter
    <3>2. QED
      BY <1>2, <1>4, <2>1, <3>1 DEF ViewShape, Contract!Blank
  <2>6. ASSUME NEW b \in Buf \ free' PROVE FailedAt(b)'
    <3>1. CASE b = c
      BY <2>3, <3>1 DEF FailedAt
    <3>2. CASE b # c
      BY <1>2, <1>4, <2>1, <2>2, <2>6, <3>2, FailedKept
    <3>3. QED
      BY <3>1, <3>2
  <2>7. QED
    BY <2>1, <2>4, <2>5, <2>6, FailedAll, GrantIs
<1>5. QED
  BY <1>1, <1>3, <1>4

(* A reference is given back: an entry whose read failed goes with its     *)
(* last one.                                                               *)
LEMMA UnrefReleases ==
  ASSUME ConstantAssumption, IInv, FailedInv, call = NoCall, pin = NULL,
         NEW h \in Handle, NEW c \in Buf, cce[h] = c,
         NEW destroy \in BOOLEAN, ~busy[c] /\ invalid[c] => destroy,
         ~UnrefFaults(c, destroy), Unref(c, destroy), Drop(h),
         UNCHANGED <<addr, invalid, busy, data, call, pin>>, \A k \in Handle \ {h} : tok'[k] = tok[k]
  PROVE  FailedInv' /\ Contract!Release(h)
<1>1. /\ \A b \in Buf \ {c} : Held(b)' = Held(b)
      /\ cce' = [cce EXCEPT ![h] = NULL] /\ want' = [want EXCEPT ![h] = NoChunk]
      /\ \/ free' = free /\ (destroy => Held(c)' # {})
         \/ free' = free \cup {c}
  BY UnrefFacts
<1>2. /\ NULL \notin Buf /\ NULL \notin Handle /\ call.h = NULL
      /\ cce \in [Handle -> Buf \cup {NULL}] /\ want \in [Handle -> Chunk \cup {NoChunk}]
  BY DEF IInv, TypeOK, ConstantAssumption, NoCall
<1>3. /\ Holding(h) /\ ~Holding(h)' /\ \A k \in Handle : Holding(k)' <=> cce'[k] # NULL
      /\ \A k \in Handle \ {h} : Holding(k)' <=> Holding(k)
  BY <1>1, <1>2 DEF Holding
<1>4. \A k \in Handle \ {h} : View'[k] = View[k]
  BY <1>1, <1>2, <1>3, SameView
<1>5. ASSUME NEW b \in Buf \ free' PROVE FailedAt(b)'
  <2>1. CASE b = c
    <3>1. destroy => \E k \in Handle : cce'[k] = c
      BY <1>1, <1>5, <2>1 DEF Held
    <3>2. QED
      BY <1>2, <1>3, <2>1, <3>1 DEF FailedAt, Held
  <2>2. CASE b # c
    BY <1>1, <1>2, <1>3, <1>5, <2>2, FailedKept
  <2>3. QED
    BY <2>1, <2>2
<1>6. QED
  BY <1>3, <1>4, <1>5, FailedAll, ReleaseIs

LEMMA ReleaseReleases ==
  ASSUME ConstantAssumption, IInv, FailedInv, NEW h \in Handle, Release(h) \/ ReleaseIoabort(h)
  PROVE  FailedInv' /\ (View' = View \/ Contract!Release(h))
<1>1. PICK c \in Buf : c = cce[h]
  BY DEF Release, ReleaseIoabort, IInv, TypeOK
<1>2. call = NoCall /\ pin = NULL
  BY EnterFacts DEF Release, ReleaseIoabort
<1>3. CASE Halt
  BY <1>3, QuietStep DEF Halt, entryVars, userVars
<1>4. ASSUME NEW destroy \in BOOLEAN, ~busy[c] /\ invalid[c] => destroy,
             ~UnrefFaults(c, destroy), Unref(c, destroy), Drop(h),
             UNCHANGED <<addr, invalid, busy, data, ctlVars>>, \A k \in Handle \ {h} : tok'[k] = tok[k]
      PROVE  FailedInv' /\ Contract!Release(h)
  BY <1>1, <1>2, <1>4, UnrefReleases DEF ctlVars
<1>5. invalid[c] \in BOOLEAN /\ (~busy[c] /\ invalid[c]) \in BOOLEAN
      /\ tok \in [Handle -> {"none", "infly", "ok", "err"}]
  BY DEF IInv, TypeOK
<1>6. CASE Release(h)
  <2>1. \/ Halt
        \/ /\ ~UnrefFaults(c, invalid[c]) /\ Unref(c, invalid[c]) /\ Drop(h)
           /\ UNCHANGED <<addr, invalid, busy, data, tok, ctlVars>>
    BY <1>1, <1>6 DEF Release
  <2>2. QED
    BY <1>3, <1>4, <1>5, <2>1
<1>7. CASE ReleaseIoabort(h)
  <2>1. PICK destroy \in BOOLEAN : destroy = (~busy[c] /\ invalid[c])
    BY <1>5
  <2>2. \/ Halt
        \/ /\ ~UnrefFaults(c, destroy) /\ Unref(c, destroy) /\ Drop(h)
           /\ UNCHANGED <<addr, invalid, busy, data, ctlVars>> /\ tok' = [tok EXCEPT ![h] = "none"]
    BY <1>1, <1>7, <2>1 DEF ReleaseIoabort
  <2>3. QED
    BY <1>3, <1>4, <1>5, <2>1, <2>2
<1>8. QED
  BY <1>6, <1>7

(* The device answers a read, and all its callers are told.                *)
LEMMA CompleteAnswers ==
  ASSUME ConstantAssumption, IInv, IInv', FailedInv, NEW c \in Buf, NEW r \in {"ok", "err"}, Complete(c, r)
  PROVE  /\ FailedInv'
         /\ \/ View' = View
            \/ \E a \in Chunk : Contract!Answer(a, Contract!Ready(a)) \/ Contract!Answer(a, Contract!Failed(a))
<1>1. CASE Halt
  BY <1>1, QuietStep DEF Halt, entryVars, userVars
<1>2. CASE ~Halt
  <2>1. /\ call = NoCall /\ busy[c] /\ busy' = [busy EXCEPT ![c] = FALSE]
        /\ invalid' = [invalid EXCEPT ![c] = r = "err"]
        /\ data' = [data EXCEPT ![c] = IF r = "ok" THEN addr[c] ELSE NoChunk]
        /\ UNCHANGED <<addr, cce, want, call, pin>>
        /\ \/ refcount[c] = 0 /\ r = "err" /\ free' = free \cup {c} /\ tok' = tok
           \/ /\ ~(refcount[c] = 0 /\ r = "err") /\ free' = free
              /\ tok' = [h \in Handle |-> IF h \in chain[c] THEN r ELSE tok[h]]
    BY <1>2 DEF Complete, Polled, Outcome, Notify, ctlVars
  <2>2. /\ c \notin free /\ chain[c] \subseteq Held(c) /\ NULL \notin Handle /\ NULL \notin Buf
        /\ refcount[c] = Cardinality(Held(c)) + (IF pin = c THEN 1 ELSE 0)
        /\ cce \in [Handle -> Buf \cup {NULL}] /\ tok \in [Handle -> {"none", "infly", "ok", "err"}]
    BY <2>1 DEF IInv, TypeOK, PooledIsUnused, ChainExact, RefcountExact, ConstantAssumption
  <2>3. \A h \in Handle : (Holding(h) <=> cce[h] # NULL) /\ (Holding(h)' <=> Holding(h))
    BY <2>1, <2>2 DEF Holding, NoCall
  <2>4. \A b \in Buf \ {c} : invalid'[b] = invalid[b] /\ data'[b] = data[b] /\ busy'[b] = busy[b]
    BY <2>1 DEF IInv, TypeOK
  <2>5. ~busy'[c] /\ invalid'[c] = (r = "err")
    BY <2>1 DEF IInv, TypeOK
  <2>6. ASSUME NEW h \in Handle, h \notin Held(c) PROVE View'[h] = View[h]
    <3>1. cce[h] # c /\ tok'[h] = tok[h]
      BY <2>1, <2>2, <2>6 DEF Held
    <3>2. Holding(h) => cce[h] \in Buf \ {c}
      BY <2>2, <2>3, <3>1
    <3>3. QED
      BY <2>1, <2>3, <2>4, <3>1, <3>2, SameView
  <2>7. ASSUME NEW b \in Buf \ free' PROVE FailedAt(b)'
    <3>1. CASE b = c
      <4>1. ~(refcount[c] = 0 /\ r = "err")
        BY <2>1, <2>7, <3>1
      <4>2. r = "err" => Held(c) # {} \/ pin = c
        BY <2>2, <4>1, HeldFacts
      <4>3. \A h \in Held(c) : h \in Held(c)' /\ Holding(h)'
        BY <2>1, <2>2, <2>3 DEF Held
      <4>4. QED
        BY <2>1, <2>5, <3>1, <4>2, <4>3 DEF FailedAt
    <3>2. CASE b # c
      BY <2>1, <2>3, <2>4, <2>7, <3>2, FailedKept
    <3>3. QED
      BY <3>1, <3>2
  <2>8. CASE Held(c) = {}
    BY <2>6, <2>7, <2>8, AllSameView, FailedAll
  <2>9. CASE Held(c) # {}
    <3>1. PICK a \in Chunk : a = addr[c]
      BY <2>1, <2>2 DEF IInv, EntryInv, TypeOK
    <3>2. a # NoChunk
      BY DEF Chunk, NoChunk
    <3>3. PICK v : v = IF r = "ok" THEN Contract!Ready(a) ELSE Contract!Failed(a)
      OBVIOUS
    <3>4. ASSUME NEW h \in Held(c) PROVE View[h] = Contract!Waiting(a) /\ View'[h] = v
      <4>1. h \in Handle /\ cce[h] = c /\ Holding(h) /\ Holding(h)'
        BY <2>2, <2>3 DEF Held
      <4>2. want[h] = a /\ View[h] = Contract!Waiting(a)
        BY <2>1, <3>1, <3>2, <4>1, ViewIs DEF ViewShape
      <4>3. ViewShape(h)' /\ cce'[h] = c /\ want'[h] = a
        BY <2>1, <4>1, <4>2, ViewIsAfter
      <4>4. View'[h] = v
        BY <2>5, <3>2, <3>3, <4>1, <4>3
           DEF ViewShape, Contract!Waiting, Contract!Failed, Contract!Ready
      <4>5. QED
        BY <4>2, <4>4
    <3>5. ASSUME NEW h \in Handle, h \notin Held(c) PROVE View[h] # Contract!Waiting(a)
      BY <2>2, <3>1, <3>5, OnChunk DEF Held
    <3>6. View' = [h \in Handle |-> IF View[h] = Contract!Waiting(a) THEN v ELSE View[h]]
      <4>1. \A h \in Handle : View'[h] = IF View[h] = Contract!Waiting(a) THEN v ELSE View[h]
        BY <2>6, <3>4, <3>5
      <4>2. QED
        BY <4>1 DEF View
    <3>7. \E h \in Handle : View[h] = Contract!Waiting(a)
      BY <2>9, <3>4 DEF Held
    <3>8. Contract!Answer(a, v)
      BY <3>6, <3>7 DEF Contract!Answer, Contract!Idle, View
    <3>9. QED
      BY <2>7, <3>3, <3>8, FailedAll
  <2>10. QED
    BY <2>8, <2>9
<1>3. QED
  BY <1>1, <1>2

LEMMA FlushUnseen ==
  ASSUME ConstantAssumption, IInv, FailedInv, FlushBegin \/ Flushing
  PROVE  FailedInv' /\ View' = View
<1>1. CASE FlushBegin \/ FlushEnd \/ Halt
  BY <1>1, QuietStep DEF FlushBegin, FlushEnd, Halt, entryVars, userVars
<1>2. CASE FlushPin
  <2>1. /\ UNCHANGED <<free, addr, invalid, busy, data, cce, want, tok, call>>
        /\ pin = NULL
    BY <1>2 DEF FlushPin, userVars
  <2>2. QED
    BY <2>1, QuietStep DEF ConstantAssumption
<1>3. CASE FlushDrop
  <2>1. \/ Halt
        \/ \E c \in Buf : /\ c = IF pin # NULL THEN pin ELSE alist.first
                          /\ free' = free \cup {c}
                          /\ UNCHANGED <<addr, invalid, busy, data, cce, want, tok, call>>
    BY <1>3 DEF FlushDrop, userVars
  <2>2. CASE \E c \in Buf : /\ c = IF pin # NULL THEN pin ELSE alist.first
                            /\ free' = free \cup {c}
                            /\ UNCHANGED <<addr, invalid, busy, data, cce, want, tok, call>>
    <3>1. free \subseteq free' /\ \A b \in Buf \ free' : pin # b
      BY <2>2 DEF ConstantAssumption
    <3>2. QED
      BY <2>2, <3>1, QuietStep
  <2>3. QED
    BY <1>1, <2>1, <2>2
<1>4. QED
  BY <1>1, <1>2, <1>3 DEF Flushing

LEMMA NextContract ==
  ASSUME ConstantAssumption, IInv, FailedInv, [Next]_vars
  PROVE  FailedInv' /\ [Contract!Next]_View
<1>0. IInv'
  BY NextIInv
<1>1. ASSUME NEW h \in Handle, NEW a \in Chunk, AreadHit(h, a) \/ AreadMiss(h, a)
      PROVE  FailedInv' /\ View' = View
  BY <1>1, AreadUnseen
<1>2. ASSUME Aread PROVE FailedInv' /\ [Contract!Next]_View
  BY <1>0, <1>2, AreadReturnServes, ReadaheadUnseen DEF Aread, Contract!Next
<1>3. ASSUME NEW h \in Handle, Eblank(h) PROVE FailedInv' /\ [Contract!Next]_View
  BY <1>0, <1>3, EblankGrants DEF Contract!Next
<1>4. ASSUME NEW h \in Handle, Finalize(h) PROVE FailedInv' /\ View' = View
  <2>1. /\ UNCHANGED <<free, addr, invalid, busy, data, cce, want, call, pin>>
        /\ tok[h] \in {"ok", "err"} /\ tok' = [tok EXCEPT ![h] = "none"]
        /\ tok \in [Handle -> {"none", "infly", "ok", "err"}]
    BY <1>4 DEF Finalize, entryVars, ctlVars, IInv, TypeOK
  <2>2. QED
    BY <2>1, QuietStep
<1>5. ASSUME NEW h \in Handle, Release(h) \/ ReleaseIoabort(h) PROVE FailedInv' /\ [Contract!Next]_View
  BY <1>5, ReleaseReleases DEF Contract!Next
<1>6. ASSUME NEW c \in Buf, NEW r \in {"ok", "err"}, Complete(c, r) PROVE FailedInv' /\ [Contract!Next]_View
  BY <1>0, <1>6, CompleteAnswers DEF Contract!Next
<1>7. ASSUME FlushBegin \/ Flushing PROVE FailedInv' /\ View' = View
  BY <1>7, FlushUnseen
<1>8. CASE UNCHANGED vars
  BY <1>8, QuietStep DEF vars, entryVars, userVars, ctlVars
<1>9. QED
  BY <1>1, <1>2, <1>3, <1>4, <1>5, <1>6, <1>7, <1>8 DEF Next

LEMMA InitContract ==
  ASSUME ConstantAssumption, Init
  PROVE  FailedInv /\ Contract!Init
<1>1. FailedInv /\ \A h \in Handle : ~Holding(h)
  BY DEF Init, FailedInv, Holding
<1>2. View = [h \in Handle |-> Contract!Idle]
  BY <1>1 DEF View
<1>3. QED
  BY <1>1, <1>2 DEF Contract!Init, Contract!Idle, View

(* The cache implements ChunkReads, what shfs_cache.h promises its         *)
(* callers: one answer to all who wait for a chunk, the bytes of the chunk *)
(* that was asked for, kept until they are released, and blank buffers     *)
(* that are nobody else's; whether reads fail or not.                      *)
THEOREM CacheImplementsContract == Spec => ImplementsContract
<1>1. Init => FailedInv /\ Contract!Init
  BY InitContract, ConstantAssumption
<1>2. IInv /\ FailedInv /\ [Next]_vars => FailedInv' /\ [Contract!Next]_View
  BY NextContract, ConstantAssumption
<1>3. QED
  BY <1>1, <1>2, CacheInvariant, PTL DEF Spec, ImplementsContract, Contract!Spec, View, Contract!Idle
============================================================================
