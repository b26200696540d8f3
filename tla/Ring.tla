-------------------------------- MODULE Ring --------------------------------
(***************************************************************************)
(* The rings of pointers of ring.h and the pools of objects of mempool.h   *)
(* as operators.  A ring is a record: its slots, which of them is enqueued *)
(* and dequeued next, and its size, a power of two; one slot always stays  *)
(* free, so that the two indices are equal only when the ring is empty.    *)
(***************************************************************************)
EXTENDS Integers, Sequences

CONSTANT NULL      \* the null pointer

(* 1 << (log2(v) + 1): log2 of mempool.c shifts v until nothing is left,   *)
(* and the size doubles with each shift.                                   *)
RingSize[v \in Nat] == IF v = 0 THEN 1 ELSE 2 * RingSize[v \div 2]

(* alloc_ring *)
RgAlloc(n) == [slot |-> [i \in 0 .. n - 1 |-> NULL], enq |-> 0, deq |-> 0, size |-> n]

Masked(r, i) == i % r.size

RgFull(r)  == Masked(r, r.enq + 1) = r.deq
RgEmpty(r) == r.enq = r.deq
RgCount(r) == Masked(r, r.size + r.enq - r.deq)

(* ring_avail *)
RgAvail(r) == Masked(r, r.size - 1 + r.deq - r.enq)

(* ring_enqueue: a full ring refuses.                                      *)
RgEnqueue(r, e) ==
  IF RgFull(r) THEN r
  ELSE [r EXCEPT !.slot[r.enq] = e, !.enq = Masked(r, @ + 1)]

(* The loop of alloc_enhanced_mempool: objects 1 to nb, one by one.        *)
RgFilled(n, nb) ==
  LET ring[i \in 0 .. nb] == IF i = 0 THEN RgAlloc(n) ELSE RgEnqueue(ring[i - 1], i)
  IN  ring[nb]

(* ring_enqueue_multiple: all of the elements, or none of them.            *)
RgEnqueueMultiple(r, es) ==
  IF (r.size - 1) - RgCount(r) < Len(es) THEN r
  ELSE [r EXCEPT !.slot = [i \in DOMAIN @ |->
                             LET k == Masked(r, i + r.size - r.enq) + 1
                             IN  IF k \in DOMAIN es THEN es[k] ELSE @[i]],
                 !.enq  = Masked(r, @ + Len(es))]

(* The first n elements, from the one dequeued next on.                    *)
RgHead(r, n) == [i \in 1 .. n |-> r.slot[Masked(r, r.deq + i - 1)]]

(* ring_dequeue and ring_dequeue_multiple, of rings that hold as many.     *)
RgDequeue(r, n) == [r EXCEPT !.deq = Masked(r, @ + n)]

(* All elements, in the order they leave.                                  *)
RgSeq(r) == RgHead(r, RgCount(r))

-----------------------------------------------------------------------------
(* The data area of an object: its headroom, its length and its tailroom,  *)
(* and where the data begins behind the base of the object.                *)
MpReset(head, len, tail) == [lhr |-> head, len |-> len, ltr |-> tail, data |-> head]

(* mempool_obj_prepend_nocheck and mempool_obj_append_nocheck: n may be    *)
(* negative, which gives room back.                                        *)
MpGrowHead(o, n) == [o EXCEPT !.lhr = @ - n, !.len = @ + n, !.data = @ - n]
MpGrowTail(o, n) == [o EXCEPT !.ltr = @ - n, !.len = @ + n]

(* The tests of mempool_obj_prepend and mempool_obj_append compare a       *)
(* signed length with an unsigned room: a negative length counts as a huge *)
(* one and is refused, whatever the second half of the test says.          *)
MpRefuses(o, room, n) == n < 0 \/ n > room

(* mempool_obj_prepend, mempool_obj_append *)
MpPrepend(o, n) == IF MpRefuses(o, o.lhr, n) THEN o ELSE MpGrowHead(o, n)
MpAppend(o, n)  == IF MpRefuses(o, o.ltr, n) THEN o ELSE MpGrowTail(o, n)

-----------------------------------------------------------------------------
(* alloc_enhanced_mempool: from the number of objects, what the caller     *)
(* asks of each (size, headroom, tailroom, private length, alignment), and *)
(* whether data and meta data are apart, the sizes and the places of       *)
(* everything.  minAlign is MIN_ALIGN; poolHdr and objHdr are the sizes of *)
(* the two structures.                                                     *)
AlignUp(size, align) == ((size + align - 1) \div align) * align

MpLayoutBug(ask, minAlign, poolHdr, objHdr) ==
  LET align == IF ask.align > minAlign THEN ask.align ELSE minAlign
      meta  == AlignUp(objHdr, minAlign)
      priv  == meta + ask.private
      head  == IF ask.sep THEN ask.head ELSE AlignUp(priv + ask.head, align) - priv
      inner == (IF ask.sep THEN 0 ELSE priv) + head + ask.size
      obj   == AlignUp(inner + ask.tail, align)
  IN  [align  |-> align,
       head   |-> head,
       tail   |-> obj - inner,
       stride |-> IF ask.sep THEN AlignUp(priv, minAlign) ELSE obj,
       first  |-> AlignUp(poolHdr, IF ask.sep THEN minAlign ELSE align),
       priv   |-> priv,
       data   |-> obj]
MpLayout(ask, minAlign, poolHdr, objHdr) ==
  LET align == IF ask.align > minAlign THEN ask.align ELSE minAlign
      meta  == AlignUp(objHdr, minAlign)
      priv  == meta + ask.private
      head  == IF ask.sep THEN AlignUp(ask.head, align) ELSE AlignUp(priv + ask.head, align) - priv
      inner == (IF ask.sep THEN 0 ELSE priv) + head + ask.size
      obj   == AlignUp(inner + ask.tail, align)
  IN  [align  |-> align,
       head   |-> head,
       tail   |-> obj - inner,
       stride |-> IF ask.sep THEN AlignUp(priv, minAlign) ELSE obj,
       first  |-> AlignUp(poolHdr, IF ask.sep THEN minAlign ELSE align),
       priv   |-> priv,
       data   |-> obj]

(* Where object i (from 0) has its meta data in the pool, and its base in  *)
(* the pool or in the data area.                                           *)
MpObjAt(l, i)       == l.first + i * l.stride
MpBaseAt(l, sep, i) == IF sep THEN i * l.data ELSE MpObjAt(l, i) + l.priv
=============================================================================
