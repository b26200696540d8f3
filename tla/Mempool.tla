------------------------------ MODULE Mempool ------------------------------
(***************************************************************************)
(* A pool of objects of mempool.c and its user, who picks objects, moves   *)
(* the ends of their data and puts them back, one by one or many at once.  *)
(* The objects are numbered in the order in which they lie in the pool.    *)
(***************************************************************************)
EXTENDS Ring, FiniteSets, SequencesExt

CONSTANTS Ask,        \* what an allocation may ask for: number of objects and layout
          MinAlign, PoolHdr, ObjHdr   \* MIN_ALIGN and the sizes of the two structures

VARIABLES pool,       \* NoPool, or what was asked for, the layout and the ring of free objects
          area,       \* the data area of each object
          held        \* the objects that are with the user

vars == <<pool, area, held>>

(* The pointer to a pool before alloc_enhanced_mempool and after           *)
(* free_mempool.                                                           *)
NoPool == << >>

Obj == 1 .. pool.ask.nb

Init == pool = NoPool /\ area = << >> /\ held = {}

(* alloc_enhanced_mempool when its allocations succeed: the ring has room  *)
(* for every object, and takes them in order.                              *)
AllocBug(ask) ==
  LET l == MpLayout(ask, MinAlign, PoolHdr, ObjHdr)
  IN  /\ pool = NoPool
      /\ pool' = [ask |-> ask, layout |-> l, ring |-> RgFilled(RingSize[ask.nb] \div 2, ask.nb)]
      /\ area' = [o \in 1 .. ask.nb |-> MpReset(l.head, ask.size, l.tail)]
      /\ UNCHANGED held
Alloc(ask) ==
  LET l == MpLayout(ask, MinAlign, PoolHdr, ObjHdr)
  IN  /\ pool = NoPool
      /\ pool' = [ask |-> ask, layout |-> l, ring |-> RgFilled(RingSize[ask.nb], ask.nb)]
      /\ area' = [o \in 1 .. ask.nb |-> MpReset(l.head, ask.size, l.tail)]
      /\ UNCHANGED held

(* mempool_pick and mempool_pick_multiple: n objects or none; those picked *)
(* are as they were at first, whatever their last user did with them.      *)
PickMultiple(n) ==
  /\ pool # NoPool /\ n <= RgCount(pool.ring)
  /\ LET picked == ToSet(RgHead(pool.ring, n))
     IN  /\ pool' = [pool EXCEPT !.ring = RgDequeue(@, n)]
         /\ held' = held \cup picked
         /\ area' = [o \in Obj |-> IF o \in picked
                                   THEN MpReset(pool.layout.head, pool.ask.size, pool.layout.tail)
                                   ELSE area[o]]

(* mempool_put: the result of the enqueue is not looked at.                *)
Put(o) ==
  /\ o \in held
  /\ pool' = [pool EXCEPT !.ring = RgEnqueue(@, o)]
  /\ held' = held \ {o}
  /\ UNCHANGED area

(* mempool_put_multiple, of at least one object; nor is it here.           *)
PutMultiple(os) ==
  /\ pool' = [pool EXCEPT !.ring = RgEnqueueMultiple(@, os)]
  /\ held' = held \ ToSet(os)
  /\ UNCHANGED area

(* mempool_obj_prepend, mempool_obj_append, by n bytes.                    *)
PrependBytes(o, n) ==
  /\ o \in held /\ area' = [area EXCEPT ![o] = MpPrepend(@, n)] /\ UNCHANGED <<pool, held>>
AppendBytes(o, n) ==
  /\ o \in held /\ area' = [area EXCEPT ![o] = MpAppend(@, n)] /\ UNCHANGED <<pool, held>>

(* The variants that do not check, for giving back what the data has.      *)
ShrinkHead(o, n) ==
  /\ o \in held /\ n <= area[o].len
  /\ area' = [area EXCEPT ![o] = MpGrowHead(@, -n)] /\ UNCHANGED <<pool, held>>
ShrinkTail(o, n) ==
  /\ o \in held /\ n <= area[o].len
  /\ area' = [area EXCEPT ![o] = MpGrowTail(@, -n)] /\ UNCHANGED <<pool, held>>

(* free_mempool traps unless every object is back.                         *)
Free ==
  /\ pool # NoPool /\ RgCount(pool.ring) = pool.ask.nb
  /\ pool' = NoPool /\ area' = << >> /\ UNCHANGED held

Next ==
  \/ \E ask \in Ask : Alloc(ask)
  \/ /\ pool # NoPool
     /\ \/ \E n \in Obj : PickMultiple(n)
        \/ \E os \in SetToSeqs(held) \ {<< >>} : PutMultiple(os)
        \/ \E o \in held : \/ Put(o)
                           \/ \E n \in {-1, 1, 2} : PrependBytes(o, n) \/ AppendBytes(o, n)
                           \/ ShrinkHead(o, 1) \/ ShrinkTail(o, 1)
  \/ Free

-----------------------------------------------------------------------------
(* No object is lost or doubled: the ring holds exactly those that are not *)
(* with the user ("never fails on right usage", mempool.h).                *)
PoolExact ==
  IF pool = NoPool THEN held = {}
  ELSE /\ IsInjective(RgSeq(pool.ring))
       /\ ToSet(RgSeq(pool.ring)) = Obj \ held

(* From b on for n bytes. *)
Bytes(b, n) == b .. b + n - 1

(* An object's data stays inside the memory that was laid out for it, which*)
(* begins aligned and has the room asked for, and shares no byte with that *)
(* of another object or with the meta data.                                *)
AreasApart ==
  pool # NoPool =>
    LET l        == pool.layout
        ask      == pool.ask
        at(o)    == MpObjAt(l, o - 1)
        base(o)  == MpBaseAt(l, ask.sep, o - 1)
        whole(o) == Bytes(base(o), l.head + ask.size + l.tail)
        meta(o)  == Bytes(at(o), ObjHdr + ask.private)
    IN  /\ l.head >= ask.head /\ l.tail >= ask.tail /\ l.first >= PoolHdr
        /\ \A o \in Obj :
             /\ (base(o) + l.head) % l.align = 0 /\ at(o) % MinAlign = 0
             /\ area[o].lhr >= 0 /\ area[o].ltr >= 0 /\ area[o].len >= 0
             /\ area[o].data = area[o].lhr
             /\ area[o].lhr + area[o].len + area[o].ltr = l.head + ask.size + l.tail
             /\ ~ask.sep => whole(o) \cap meta(o) = {}
             /\ \A p \in Obj \ {o} : /\ whole(o) \cap whole(p) = {}
                                     /\ meta(o) \cap meta(p) = {}
                                     /\ ~ask.sep => whole(o) \cap meta(p) = {}
=============================================================================
