-------------------------- MODULE StructuresProofs --------------------------
(***************************************************************************)
(* Proofs about the data structures below the file system.                 *)
(***************************************************************************)
EXTENDS Structures, Counting

-----------------------------------------------------------------------------
(* Arithmetic of the layouts.                                              *)
LEMMA DivMod ==
  ASSUME NEW q \in Nat, NEW n \in Nat \ {0}
  PROVE  q % n \in 0 .. n - 1 /\ q \div n \in Nat /\ q = n * (q \div n) + (q % n)
  OBVIOUS

Multiple(x, n) == \E k \in Nat : x = k * n

LEMMA MultipleSum ==
  ASSUME NEW n \in Nat \ {0}, NEW x \in Nat, NEW y \in Nat, Multiple(x, n), Multiple(y, n)
  PROVE  Multiple(x + y, n)
<1>1. PICK k \in Nat : x = k * n
  BY DEF Multiple
<1>2. PICK l \in Nat : y = l * n
  BY DEF Multiple
<1>3. x + y = (k + l) * n /\ k + l \in Nat
  BY <1>1, <1>2
<1>4. QED
  BY <1>3 DEF Multiple

LEMMA MultipleTimes ==
  ASSUME NEW n \in Nat \ {0}, NEW x \in Nat, Multiple(x, n), NEW i \in Nat
  PROVE  i * x \in Nat /\ Multiple(i * x, n)
<1>1. PICK k \in Nat : x = k * n
  BY DEF Multiple
<1>2. i * x = (i * k) * n /\ i * k \in Nat
  BY <1>1
<1>3. QED
  BY <1>2 DEF Multiple

LEMMA MultipleMod ==
  ASSUME NEW n \in Nat \ {0}, NEW x \in Nat
  PROVE  x % n = 0 <=> Multiple(x, n)
<1>1. x % n \in 0 .. n - 1 /\ x \div n \in Nat /\ x = n * (x \div n) + (x % n)
  BY DivMod
<1>2. ASSUME x % n = 0 PROVE Multiple(x, n)
  <2>1. x = (x \div n) * n
    BY <1>1, <1>2
  <2>2. QED
    BY <1>1, <2>1 DEF Multiple
<1>3. ASSUME NEW k \in Nat, x = k * n PROVE x % n = 0
  BY <1>3
<1>4. QED
  BY <1>2, <1>3 DEF Multiple

LEMMA MultipleOf ==
  ASSUME NEW m \in Nat \ {0}, NEW n \in Nat \ {0}, Multiple(n, m), NEW x \in Nat, Multiple(x, n)
  PROVE  Multiple(x, m)
<1>1. PICK k \in Nat : x = k * n
  BY DEF Multiple
<1>2. QED
  BY <1>1, MultipleTimes

(* align_up *)
LEMMA AlignUpIs ==
  ASSUME NEW size \in Nat, NEW align \in Nat \ {0}
  PROVE  LET up == Pool!AlignUp(size, align)
         IN  up \in Nat /\ up >= size /\ Multiple(up, align)
<1> DEFINE q == size + align - 1
<1>1. q \in Nat /\ q - size = align - 1
  OBVIOUS
<1> HIDE DEF q
<1>2. q % align \in 0 .. align - 1 /\ q \div align \in Nat /\ q = align * (q \div align) + (q % align)
  BY <1>1, DivMod
<1>3. Pool!AlignUp(size, align) = (q \div align) * align
  BY DEF Pool!AlignUp, q
<1>4. PICK k \in Nat : k = q \div align
  BY <1>2
<1>5. align * k = k * align /\ k * align \in Nat
  BY <1>4
<1>6. k * align >= size
  BY <1>1, <1>2, <1>4, <1>5
<1>7. QED
  BY <1>3, <1>4, <1>5, <1>6 DEF Multiple

LEMMA RowsApart ==
  ASSUME NEW i \in Nat, NEW j \in Nat, i # j, NEW n \in Nat
  PROVE  /\ i * n \in Nat /\ j * n \in Nat
         /\ i * n + n <= j * n \/ j * n + n <= i * n
<1>1. ASSUME NEW a \in Nat, NEW b \in Nat, a < b PROVE a * n + n <= b * n
  <2>1. PICK k \in Nat : b = a + 1 + k
    BY <1>1
  <2>2. b * n = a * n + n + k * n /\ k * n \in Nat /\ a * n \in Nat
    BY <2>1
  <2>3. QED
    BY <2>2
<1>2. i * n \in Nat /\ j * n \in Nat
  OBVIOUS
<1>3. i < j \/ j < i
  OBVIOUS
<1>4. QED
  BY <1>1, <1>2, <1>3

-----------------------------------------------------------------------------
(* Pools: where the objects lie.                                           *)
LayoutOf(ask) == Pool!MpLayout(ask, MinAlign, PoolHdr, ObjHdr)

Sizes(ask, l) ==
  /\ l.align \in Nat \ {0} /\ Multiple(l.align, MinAlign)
  /\ l.head \in Nat /\ l.tail \in Nat /\ l.first \in Nat /\ l.priv \in Nat /\ l.stride \in Nat /\ l.data \in Nat
  /\ l.head >= ask.head /\ l.tail >= ask.tail /\ l.first >= PoolHdr /\ l.priv >= ObjHdr + ask.private
Together(ask, l) ==
  /\ Multiple(l.priv + l.head, l.align) /\ Multiple(l.stride, l.align) /\ Multiple(l.first, l.align)
  /\ l.stride = l.priv + (l.head + ask.size + l.tail)
Apart(ask, l) ==
  /\ Multiple(l.head, l.align) /\ Multiple(l.data, l.align)
  /\ Multiple(l.stride, MinAlign) /\ Multiple(l.first, MinAlign)
  /\ l.data = l.head + ask.size + l.tail /\ l.stride >= l.priv

LEMMA LayoutIs ==
  ASSUME StructuresAssumption, NEW ask \in Ask
  PROVE  /\ Sizes(ask, LayoutOf(ask))
         /\ ~ask.sep => Together(ask, LayoutOf(ask))
         /\ ask.sep => Apart(ask, LayoutOf(ask))
<1>1. /\ ask.size \in Nat /\ ask.head \in Nat /\ ask.tail \in Nat /\ ask.private \in Nat /\ ask.align \in Nat
      /\ MinAlign \in Nat \ {0} /\ PoolHdr \in Nat /\ ObjHdr \in Nat
      /\ ask.align <= MinAlign \/ ask.align % MinAlign = 0
  BY DEF StructuresAssumption
<1>2. PICK align \in Nat \ {0} : align = IF ask.align > MinAlign THEN ask.align ELSE MinAlign
  BY <1>1
<1>3. Multiple(align, MinAlign)
  <2>1. MinAlign = 1 * MinAlign
    BY <1>1
  <2>2. align = MinAlign \/ align % MinAlign = 0
    BY <1>1, <1>2
  <2>3. QED
    BY <1>1, <2>1, <2>2, MultipleMod DEF Multiple
<1>4. PICK meta \in Nat : meta = Pool!AlignUp(ObjHdr, MinAlign) /\ meta >= ObjHdr
  BY <1>1, AlignUpIs
<1>5. PICK priv \in Nat : priv = meta + ask.private
  BY <1>1
<1>6. CASE ~ask.sep
  <2>1. PICK u \in Nat : u = Pool!AlignUp(priv + ask.head, align) /\ u >= priv + ask.head /\ Multiple(u, align)
    BY <1>1, AlignUpIs, SMTT(30)
  <2>2. PICK obj \in Nat : /\ obj = Pool!AlignUp(priv + (u - priv) + ask.size + ask.tail, align)
                           /\ obj >= priv + (u - priv) + ask.size + ask.tail /\ Multiple(obj, align)
    <3>1. priv + (u - priv) + ask.size + ask.tail \in Nat
      BY <1>1
    <3>2. QED
      BY <3>1, AlignUpIs
  <2>3. PICK first \in Nat : first = Pool!AlignUp(PoolHdr, align) /\ first >= PoolHdr /\ Multiple(first, align)
    BY <1>1, AlignUpIs
  <2>4. LayoutOf(ask) = [align |-> align, head |-> u - priv, tail |-> obj - (priv + (u - priv) + ask.size),
                         stride |-> obj, first |-> first, priv |-> priv, data |-> obj]
    BY <1>2, <1>4, <1>5, <1>6, <2>1, <2>2, <2>3 DEF LayoutOf, Pool!MpLayout
  <2>5. /\ LayoutOf(ask).align = align /\ LayoutOf(ask).head = u - priv
        /\ LayoutOf(ask).tail = obj - (priv + (u - priv) + ask.size)
        /\ LayoutOf(ask).stride = obj /\ LayoutOf(ask).first = first /\ LayoutOf(ask).priv = priv
        /\ LayoutOf(ask).data = obj
    BY <2>4
  <2>6. Sizes(ask, LayoutOf(ask))
    BY <1>1, <1>3, <1>4, <1>5, <2>1, <2>2, <2>3, <2>5 DEF Sizes
  <2>7. Together(ask, LayoutOf(ask))
    <3>1. priv + (u - priv) = u /\ obj = priv + ((u - priv) + ask.size + (obj - (priv + (u - priv) + ask.size)))
      BY <1>1
    <3>2. QED
      BY <2>1, <2>2, <2>3, <2>5, <3>1 DEF Together
  <2>8. QED
    BY <1>6, <2>6, <2>7
<1>7. CASE ask.sep
  <2>1. PICK h \in Nat : h = Pool!AlignUp(ask.head, align) /\ h >= ask.head /\ Multiple(h, align)
    BY <1>1, AlignUpIs
  <2>2. PICK obj \in Nat : /\ obj = Pool!AlignUp(0 + h + ask.size + ask.tail, align)
                           /\ obj >= 0 + h + ask.size + ask.tail /\ Multiple(obj, align)
    <3>1. 0 + h + ask.size + ask.tail \in Nat
      BY <1>1
    <3>2. QED
      BY <3>1, AlignUpIs
  <2>3. PICK first \in Nat : first = Pool!AlignUp(PoolHdr, MinAlign) /\ first >= PoolHdr /\ Multiple(first, MinAlign)
    BY <1>1, AlignUpIs
  <2>4. PICK stride \in Nat : stride = Pool!AlignUp(priv, MinAlign) /\ stride >= priv /\ Multiple(stride, MinAlign)
    BY <1>1, AlignUpIs
  <2>5. LayoutOf(ask) = [align |-> align, head |-> h, tail |-> obj - (0 + h + ask.size),
                         stride |-> stride, first |-> first, priv |-> priv, data |-> obj]
    BY <1>2, <1>4, <1>5, <1>7, <2>1, <2>2, <2>3, <2>4 DEF LayoutOf, Pool!MpLayout
  <2>6. /\ LayoutOf(ask).align = align /\ LayoutOf(ask).head = h /\ LayoutOf(ask).tail = obj - (0 + h + ask.size)
        /\ LayoutOf(ask).stride = stride /\ LayoutOf(ask).first = first /\ LayoutOf(ask).priv = priv
        /\ LayoutOf(ask).data = obj
    BY <2>5
  <2>7. Sizes(ask, LayoutOf(ask))
    BY <1>1, <1>3, <1>4, <1>5, <2>1, <2>2, <2>3, <2>4, <2>6 DEF Sizes
  <2>8. Apart(ask, LayoutOf(ask))
    <3>1. obj = h + ask.size + (obj - (0 + h + ask.size))
      BY <1>1
    <3>2. QED
      BY <2>1, <2>2, <2>3, <2>4, <2>6, <3>1 DEF Apart
  <2>9. QED
    BY <1>7, <2>7, <2>8
<1>8. QED
  BY <1>6, <1>7, <1>1

(* The data area of each object keeps its size, whatever the user does.    *)
Areas == [lhr : Int, len : Int, ltr : Int, data : Int]
AreaOK(r, room) == /\ r \in Areas /\ r.lhr >= 0 /\ r.ltr >= 0 /\ r.len >= 0 /\ r.data = r.lhr
                   /\ r.lhr + r.len + r.ltr = room
Room(p) == p.layout.head + p.ask.size + p.layout.tail
IsPool(p) == /\ \E r : p = [ask |-> p.ask, layout |-> p.layout, ring |-> r]
             /\ p.ask \in Ask /\ p.layout = LayoutOf(p.ask)
PoolInv ==
  pool # Pool!NoPool => /\ IsPool(pool)
                 /\ area = [o \in 1 .. pool.ask.nb |-> area[o]]
                 /\ \A o \in 1 .. pool.ask.nb : AreaOK(area[o], Room(pool))

LEMMA RoomIs ==
  ASSUME StructuresAssumption, NEW ask \in Ask
  PROVE  /\ ask.size \in Nat /\ LayoutOf(ask).head \in Nat /\ LayoutOf(ask).tail \in Nat
         /\ AreaOK(Pool!MpReset(LayoutOf(ask).head, ask.size, LayoutOf(ask).tail),
                   LayoutOf(ask).head + ask.size + LayoutOf(ask).tail)
<1>1. ask.size \in Nat /\ LayoutOf(ask).head \in Nat /\ LayoutOf(ask).tail \in Nat
  BY LayoutIs DEF StructuresAssumption, Sizes
<1>2. PICK h \in Nat, s \in Nat, t \in Nat : h = LayoutOf(ask).head /\ s = ask.size /\ t = LayoutOf(ask).tail
  BY <1>1
<1>3. AreaOK(Pool!MpReset(h, s, t), h + s + t)
  BY DEF AreaOK, Areas, Pool!MpReset
<1>4. QED
  BY <1>1, <1>2, <1>3

(* What moves the ends of the data.                                        *)
LEMMA AreaMoves ==
  ASSUME NEW room, NEW r, AreaOK(r, room), NEW n \in Int
  PROVE  /\ AreaOK(Pool!MpPrepend(r, n), room) /\ AreaOK(Pool!MpAppend(r, n), room)
         /\ n >= 0 /\ n <= r.len => AreaOK(Pool!MpGrowHead(r, -n), room) /\ AreaOK(Pool!MpGrowTail(r, -n), room)
<1>1. r \in Areas
  BY DEF AreaOK
<1>2. PICK a \in Int, l \in Int, t \in Int, d \in Int :
        /\ r.lhr = a /\ r.len = l /\ r.ltr = t /\ r.data = d
        /\ a >= 0 /\ l >= 0 /\ t >= 0 /\ d = a /\ a + l + t = room
  BY DEF AreaOK, Areas
<1>3. ASSUME NEW k \in Int, k <= a, l + k >= 0 PROVE AreaOK(Pool!MpGrowHead(r, k), room)
  <2>1. PICK x \in Int, y \in Int, z \in Int : x = a - k /\ y = l + k /\ z = d - k
    OBVIOUS
  <2>2. PICK q : q = Pool!MpGrowHead(r, k)
    OBVIOUS
  <2>3. q = [r EXCEPT !.lhr = x, !.len = y, !.data = z]
    BY <1>2, <2>1, <2>2, Zenon DEF Pool!MpGrowHead
  <2>4. q \in Areas /\ q.lhr = x /\ q.len = y /\ q.data = z /\ q.ltr = t
    BY <1>1, <1>2, <2>3 DEF Areas
  <2>5. AreaOK(q, room)
    BY <1>2, <1>3, <2>1, <2>4 DEF AreaOK
  <2>6. QED
    BY <2>2, <2>5
<1>4. ASSUME NEW k \in Int, k <= t, l + k >= 0 PROVE AreaOK(Pool!MpGrowTail(r, k), room)
  <2>1. PICK x \in Int, y \in Int : x = t - k /\ y = l + k
    OBVIOUS
  <2>2. PICK q : q = Pool!MpGrowTail(r, k)
    OBVIOUS
  <2>3. q = [r EXCEPT !.ltr = x, !.len = y]
    BY <1>2, <2>1, <2>2, Zenon DEF Pool!MpGrowTail
  <2>4. q \in Areas /\ q.ltr = x /\ q.len = y /\ q.data = d /\ q.lhr = a
    BY <1>1, <1>2, <2>3 DEF Areas
  <2>5. AreaOK(q, room)
    BY <1>2, <1>4, <2>1, <2>4 DEF AreaOK
  <2>6. QED
    BY <2>2, <2>5
<1>5. AreaOK(Pool!MpPrepend(r, n), room)
  BY <1>2, <1>3 DEF Pool!MpPrepend, Pool!MpRefuses
<1>6. AreaOK(Pool!MpAppend(r, n), room)
  BY <1>2, <1>4 DEF Pool!MpAppend, Pool!MpRefuses
<1>7. ASSUME n >= 0, n <= l
      PROVE  AreaOK(Pool!MpGrowHead(r, -n), room) /\ AreaOK(Pool!MpGrowTail(r, -n), room)
  <2>1. -n \in Int /\ -n <= a /\ -n <= t /\ l + -n >= 0
    BY <1>2, <1>7
  <2>2. QED
    BY <2>1, <1>3, <1>4
<1>8. QED
  BY <1>2, <1>5, <1>6, <1>7

(* One object's area changes, or the rings only.                           *)
LEMMA OneArea ==
  ASSUME PoolInv, pool # Pool!NoPool, pool' = pool, NEW o, NEW x, o \in 1 .. pool.ask.nb => AreaOK(x, Room(pool)),
         area' = [area EXCEPT ![o] = x]
  PROVE  PoolInv'
<1>1. \A p \in 1 .. pool.ask.nb : area'[p] = IF p = o THEN x ELSE area[p]
  BY DEF PoolInv
<1>2. area' = [p \in 1 .. pool.ask.nb |-> area'[p]]
  BY DEF PoolInv
<1>3. QED
  BY <1>1, <1>2 DEF PoolInv

LEMMA RingOnly ==
  ASSUME PoolInv, pool # Pool!NoPool, NEW r, pool' = [pool EXCEPT !.ring = r], area' = area
  PROVE  PoolInv'
<1>1. IsPool(pool) /\ pool' = [ask |-> pool.ask, layout |-> pool.layout, ring |-> r]
  BY DEF PoolInv, IsPool
<1>2. pool'.ask = pool.ask /\ pool'.layout = pool.layout
  BY <1>1
<1>3. IsPool(pool')
  BY <1>1, <1>2 DEF IsPool
<1>4. Room(pool') = Room(pool)
  BY <1>2 DEF Room
<1>5. QED
  BY <1>2, <1>3, <1>4 DEF PoolInv

LEMMA AllocStep ==
  ASSUME StructuresAssumption, NEW ask \in Ask, Pool!Alloc(ask)
  PROVE  PoolInv'
<1> DEFINE x == Pool!MpReset(LayoutOf(ask).head, ask.size, LayoutOf(ask).tail)
<1>1. PICK r : pool' = [ask |-> ask, layout |-> LayoutOf(ask), ring |-> r]
  BY DEF Pool!Alloc, LayoutOf
<1>2. area' = [o \in 1 .. ask.nb |-> x]
  BY DEF Pool!Alloc, LayoutOf
<1>3. pool'.ask = ask /\ pool'.layout = LayoutOf(ask)
  BY <1>1
<1>4. IsPool(pool')
  BY <1>1, <1>3 DEF IsPool
<1>5. AreaOK(x, Room(pool'))
  BY <1>3, RoomIs DEF Room
<1> HIDE DEF x
<1>6. QED
  BY <1>2, <1>3, <1>4, <1>5 DEF PoolInv

LEMMA PickStep ==
  ASSUME StructuresAssumption, PoolInv, NEW n, Pool!PickMultiple(n)
  PROVE  PoolInv'
<1> DEFINE picked == Pool!ToSet(Pool!RgHead(pool.ring, n))
           x == Pool!MpReset(pool.layout.head, pool.ask.size, pool.layout.tail)
<1>1. PICK r : pool' = [pool EXCEPT !.ring = r]
  BY DEF Pool!PickMultiple
<1>2. pool # Pool!NoPool /\ area' = [o \in 1 .. pool.ask.nb |-> IF o \in picked THEN x ELSE area[o]]
  BY DEF Pool!PickMultiple, Pool!Obj
<1>3. IsPool(pool) /\ pool' = [ask |-> pool.ask, layout |-> pool.layout, ring |-> r]
  BY <1>1, <1>2 DEF PoolInv, IsPool
<1>4. pool'.ask = pool.ask /\ pool'.layout = pool.layout
  BY <1>3
<1>5. IsPool(pool')
  BY <1>3, <1>4 DEF IsPool
<1>6. Room(pool') = Room(pool)
  BY <1>4 DEF Room
<1>7. AreaOK(x, Room(pool))
  <2>1. pool.ask \in Ask /\ pool.layout = LayoutOf(pool.ask)
    BY <1>3 DEF IsPool
  <2>2. QED
    BY <2>1, RoomIs DEF Room
<1> HIDE DEF x, picked
<1>8. \A o \in 1 .. pool.ask.nb : area'[o] = (IF o \in picked THEN x ELSE area[o]) /\ AreaOK(area[o], Room(pool))
  BY <1>2 DEF PoolInv
<1>9. QED
  BY <1>2, <1>4, <1>5, <1>6, <1>7, <1>8 DEF PoolInv

LEMMA PoolStep ==
  ASSUME StructuresAssumption, PoolInv, Pool!Next
  PROVE  PoolInv'
<1>1. CASE \E ask \in Ask : Pool!Alloc(ask)
  BY <1>1, AllocStep
<1>2. CASE \E n : Pool!PickMultiple(n)
  BY <1>2, PickStep
<1>3. ASSUME NEW os, pool # Pool!NoPool, Pool!PutMultiple(os) PROVE PoolInv'
  <2>1. PICK r : pool' = [pool EXCEPT !.ring = r] /\ area' = area
    BY <1>3 DEF Pool!PutMultiple
  <2>2. QED
    BY <1>3, <2>1, RingOnly
<1>4. ASSUME NEW o \in held, NEW n \in Int, pool # Pool!NoPool,
             \/ Pool!Put(o) \/ Pool!PrependBytes(o, n) \/ Pool!AppendBytes(o, n)
             \/ n >= 0 /\ (Pool!ShrinkHead(o, n) \/ Pool!ShrinkTail(o, n))
      PROVE  PoolInv'
  <2> DEFINE a == area[o]
  <2>1. o \in 1 .. pool.ask.nb => AreaOK(area[o], Room(pool))
    BY <1>4 DEF PoolInv
  <2>2. CASE Pool!Put(o)
    <3>1. PICK r : pool' = [pool EXCEPT !.ring = r] /\ area' = area
      BY <2>2 DEF Pool!Put
    <3>2. QED
      BY <1>4, <3>1, RingOnly
  <2>3. CASE Pool!PrependBytes(o, n)
    <3>1. pool' = pool /\ area' = [area EXCEPT ![o] = Pool!MpPrepend(area[o], n)]
      BY <2>3 DEF Pool!PrependBytes
    <3>2. QED
      BY <1>4, <2>1, <3>1, OneArea, AreaMoves
  <2>4. CASE Pool!AppendBytes(o, n)
    <3>1. pool' = pool /\ area' = [area EXCEPT ![o] = Pool!MpAppend(area[o], n)]
      BY <2>4 DEF Pool!AppendBytes
    <3>2. QED
      BY <1>4, <2>1, <3>1, OneArea, AreaMoves
  <2>5. CASE n >= 0 /\ Pool!ShrinkHead(o, n)
    <3>1. pool' = pool /\ n <= area[o].len /\ area' = [area EXCEPT ![o] = Pool!MpGrowHead(area[o], -n)]
      BY <2>5 DEF Pool!ShrinkHead
    <3>2. QED
      BY <1>4, <2>1, <2>5, <3>1, OneArea, AreaMoves
  <2>6. CASE n >= 0 /\ Pool!ShrinkTail(o, n)
    <3>1. pool' = pool /\ n <= area[o].len /\ area' = [area EXCEPT ![o] = Pool!MpGrowTail(area[o], -n)]
      BY <2>6 DEF Pool!ShrinkTail
    <3>2. QED
      BY <1>4, <2>1, <2>6, <3>1, OneArea, AreaMoves
  <2>7. QED
    BY <1>4, <2>2, <2>3, <2>4, <2>5, <2>6
<1>5. CASE Pool!Free
  BY <1>5 DEF Pool!Free, PoolInv
<1>6. QED
  <2>1. -1 \in Int /\ 1 \in Int /\ 2 \in Int /\ 1 >= 0
    OBVIOUS
  <2>2. CASE /\ pool # Pool!NoPool
             /\ \E o \in held : \/ Pool!Put(o)
                                \/ \E n \in {-1, 1, 2} : Pool!PrependBytes(o, n) \/ Pool!AppendBytes(o, n)
                                \/ Pool!ShrinkHead(o, 1) \/ Pool!ShrinkTail(o, 1)
    BY <1>4, <2>1, <2>2
  <2>3. QED
    BY <1>1, <1>2, <1>3, <1>5, <2>2, Zenon DEF Pool!Next

(* Intervals of bytes that follow each other.                              *)
LEMMA BytesApart ==
  ASSUME NEW a \in Int, NEW m \in Nat, NEW b \in Int, NEW n \in Nat, a + m <= b \/ b + n <= a
  PROVE  Pool!Bytes(a, m) \cap Pool!Bytes(b, n) = {}
  BY DEF Pool!Bytes

(* An object's data and its meta data, when objects are counted from 0.    *)
WholeOf(ask, l, k) == Pool!Bytes(Pool!MpBaseAt(l, ask.sep, k), l.head + ask.size + l.tail)
MetaOf(ask, l, k)  == Pool!Bytes(Pool!MpObjAt(l, k), ObjHdr + ask.private)
Placed(ask, l, k) == /\ (Pool!MpBaseAt(l, ask.sep, k) + l.head) % l.align = 0
                     /\ Pool!MpObjAt(l, k) % MinAlign = 0

LEMMA ObjectsTogether ==
  ASSUME StructuresAssumption, NEW ask \in Ask, ~ask.sep, NEW l, l = LayoutOf(ask), NEW i \in Nat
  PROVE  /\ Placed(ask, l, i)
         /\ WholeOf(ask, l, i) \cap MetaOf(ask, l, i) = {}
         /\ \A j \in Nat \ {i} : /\ WholeOf(ask, l, i) \cap WholeOf(ask, l, j) = {}
                                 /\ MetaOf(ask, l, i) \cap MetaOf(ask, l, j) = {}
                                 /\ WholeOf(ask, l, i) \cap MetaOf(ask, l, j) = {}
<1>1. /\ ask.size \in Nat /\ ask.private \in Nat /\ MinAlign \in Nat \ {0} /\ ObjHdr \in Nat
      /\ Sizes(ask, l) /\ Together(ask, l)
  BY LayoutIs DEF StructuresAssumption
<1>2. PICK al0 \in Nat \ {0}, h \in Nat, f \in Nat, p \in Nat, s \in Nat, room \in Nat, m \in Nat :
        /\ al0 = l.align /\ h = l.head /\ f = l.first /\ p = l.priv /\ s = l.stride
        /\ room = l.head + ask.size + l.tail /\ m = ObjHdr + ask.private
        /\ m <= p /\ s = p + room
        /\ Multiple(al0, MinAlign) /\ Multiple(p + h, al0) /\ Multiple(s, al0) /\ Multiple(f, al0)
  <2>1. /\ l.align \in Nat \ {0} /\ l.head \in Nat /\ l.first \in Nat /\ l.priv \in Nat /\ l.stride \in Nat
        /\ l.head + ask.size + l.tail \in Nat /\ ObjHdr + ask.private \in Nat
        /\ ObjHdr + ask.private <= l.priv
    BY <1>1 DEF Sizes
  <2>2. l.stride = l.priv + (l.head + ask.size + l.tail)
    BY <1>1 DEF Together
  <2>3. Multiple(l.align, MinAlign) /\ Multiple(l.priv + l.head, l.align) /\ Multiple(l.stride, l.align)
        /\ Multiple(l.first, l.align)
    BY <1>1 DEF Sizes, Together
  <2>4. QED
    BY <2>1, <2>2, <2>3, ZenonT(60)
<1>3. \A k \in Nat : /\ k * s \in Nat /\ Pool!MpObjAt(l, k) = f + k * s
                     /\ Pool!MpBaseAt(l, ask.sep, k) = f + k * s + p
  BY <1>2 DEF Pool!MpObjAt, Pool!MpBaseAt
<1>4. Multiple(f + i * s, al0) /\ i * s \in Nat
  BY <1>2, MultipleTimes, MultipleSum
<1>5. PICK x \in Nat : x = i * s
  BY <1>4
<1>6. (f + i * s + p + h) % al0 = 0
  <2>1. f + x \in Nat /\ p + h \in Nat /\ f + x + (p + h) = f + x + p + h
    OBVIOUS
  <2>2. Multiple(f + x + (p + h), al0)
    BY <1>2, <1>4, <1>5, <2>1, MultipleSum
  <2>3. f + x + p + h \in Nat
    OBVIOUS
  <2>4. QED
    BY <1>5, <2>1, <2>2, <2>3, MultipleMod
<1>7. (f + i * s) % MinAlign = 0
  <2>1. f + x \in Nat /\ Multiple(f + x, MinAlign)
    BY <1>1, <1>2, <1>4, <1>5, MultipleOf
  <2>2. QED
    BY <1>1, <1>5, <2>1, MultipleMod
<1>8. Pool!Bytes(f + x + p, room) \cap Pool!Bytes(f + x, m) = {}
  <2>1. f + x + p \in Int /\ f + x \in Int /\ f + x + m <= f + x + p
    BY <1>2
  <2>2. QED
    BY <2>1, BytesApart
<1>9. ASSUME NEW j \in Nat \ {i}
      PROVE  /\ Pool!Bytes(f + i * s + p, room) \cap Pool!Bytes(f + j * s + p, room) = {}
             /\ Pool!Bytes(f + i * s, m) \cap Pool!Bytes(f + j * s, m) = {}
             /\ Pool!Bytes(f + i * s + p, room) \cap Pool!Bytes(f + j * s, m) = {}
  <2>1. /\ i * s \in Nat /\ j * s \in Nat
        /\ i * s + s <= j * s \/ j * s + s <= i * s
    BY RowsApart
  <2>2. PICK y \in Nat : y = j * s
    BY <2>1
  <2>3. x + s <= y \/ y + s <= x
    BY <1>5, <2>1, <2>2
  <2>4. f + x + p \in Int /\ f + x \in Int /\ f + y + p \in Int /\ f + y \in Int
    OBVIOUS
  <2>5. /\ f + x + p + room <= f + y + p \/ f + y + p + room <= f + x + p
        /\ f + x + m <= f + y \/ f + y + m <= f + x
        /\ f + x + p + room <= f + y \/ f + y + m <= f + x + p
    BY <1>2, <2>3
  <2>6. Pool!Bytes(f + x + p, room) \cap Pool!Bytes(f + y + p, room) = {}
    BY <2>4, <2>5, BytesApart
  <2>7. Pool!Bytes(f + x, m) \cap Pool!Bytes(f + y, m) = {}
    BY <2>4, <2>5, BytesApart
  <2>8. Pool!Bytes(f + x + p, room) \cap Pool!Bytes(f + y, m) = {}
    BY <2>4, <2>5, BytesApart
  <2>9. QED
    BY <1>5, <2>2, <2>6, <2>7, <2>8
<1>10. QED
  BY <1>2, <1>3, <1>5, <1>6, <1>7, <1>8, <1>9, ZenonT(60) DEF Placed, WholeOf, MetaOf

LEMMA ObjectsApart ==
  ASSUME StructuresAssumption, NEW ask \in Ask, ask.sep, NEW l, l = LayoutOf(ask), NEW i \in Nat
  PROVE  /\ Placed(ask, l, i)
         /\ \A j \in Nat \ {i} : /\ WholeOf(ask, l, i) \cap WholeOf(ask, l, j) = {}
                                 /\ MetaOf(ask, l, i) \cap MetaOf(ask, l, j) = {}
<1>1. /\ ask.size \in Nat /\ ask.private \in Nat /\ MinAlign \in Nat \ {0} /\ ObjHdr \in Nat
      /\ Sizes(ask, l) /\ Apart(ask, l)
  BY LayoutIs DEF StructuresAssumption
<1>2. PICK al0 \in Nat \ {0}, h \in Nat, f \in Nat, s \in Nat, room \in Nat, m \in Nat :
        /\ al0 = l.align /\ h = l.head /\ f = l.first /\ s = l.stride
        /\ room = l.head + ask.size + l.tail /\ room = l.data /\ m = ObjHdr + ask.private
        /\ m <= s /\ Multiple(h, al0) /\ Multiple(room, al0) /\ Multiple(s, MinAlign) /\ Multiple(f, MinAlign)
  <2>1. l.head + ask.size + l.tail \in Nat /\ ObjHdr + ask.private \in Nat /\ ObjHdr + ask.private <= l.stride
    BY <1>1 DEF Sizes, Apart
  <2>2. QED
    BY <1>1, <2>1 DEF Sizes, Apart
<1>3. \A k \in Nat : /\ k * s \in Nat /\ k * room \in Nat /\ Pool!MpObjAt(l, k) = f + k * s
                     /\ Pool!MpBaseAt(l, ask.sep, k) = k * room
  BY <1>2 DEF Pool!MpObjAt, Pool!MpBaseAt
<1>4. i * s \in Nat /\ i * room \in Nat /\ Multiple(i * s, MinAlign) /\ Multiple(i * room, al0)
  BY <1>1, <1>2, MultipleTimes
<1>5. PICK x \in Nat, w \in Nat : x = i * s /\ w = i * room
  BY <1>4
<1>6. (w + h) % al0 = 0
  <2>1. w + h \in Nat /\ Multiple(w, al0) /\ Multiple(h, al0)
    BY <1>2, <1>4, <1>5
  <2>3. Multiple(w + h, al0)
    BY <2>1, MultipleSum
  <2>2. QED
    BY <2>1, <2>3, MultipleMod
<1>7. (f + x) % MinAlign = 0
  <2>3. f + x \in Nat /\ Multiple(f, MinAlign) /\ Multiple(x, MinAlign)
    BY <1>1, <1>2, <1>4, <1>5
  <2>1. f + x \in Nat /\ Multiple(f + x, MinAlign)
    BY <1>1, <2>3, MultipleSum
  <2>2. QED
    BY <1>1, <2>1, MultipleMod
<1>8. ASSUME NEW j \in Nat \ {i}
      PROVE  /\ Pool!Bytes(i * room, room) \cap Pool!Bytes(j * room, room) = {}
             /\ Pool!Bytes(f + i * s, m) \cap Pool!Bytes(f + j * s, m) = {}
  <2>1. /\ i * s \in Nat /\ j * s \in Nat /\ i * room \in Nat /\ j * room \in Nat
        /\ i * s + s <= j * s \/ j * s + s <= i * s
        /\ i * room + room <= j * room \/ j * room + room <= i * room
    BY RowsApart
  <2>2. PICK y \in Nat, v \in Nat : y = j * s /\ v = j * room
    BY <2>1
  <2>3. (x + s <= y \/ y + s <= x) /\ (w + room <= v \/ v + room <= w)
    BY <1>5, <2>1, <2>2
  <2>4. Pool!Bytes(w, room) \cap Pool!Bytes(v, room) = {}
    BY <2>3, BytesApart
  <2>7. f + x \in Int /\ f + y \in Int /\ (f + x + m <= f + y \/ f + y + m <= f + x)
    BY <1>2, <2>3
  <2>5. Pool!Bytes(f + x, m) \cap Pool!Bytes(f + y, m) = {}
    BY <2>7, BytesApart
  <2>6. QED
    BY <1>5, <2>2, <2>4, <2>5
<1>9. QED
  BY <1>2, <1>3, <1>5, <1>6, <1>7, <1>8 DEF Placed, WholeOf, MetaOf

LEMMA PoolsApart ==
  ASSUME StructuresAssumption, PoolInv
  PROVE  AreasApart
<1> SUFFICES ASSUME pool # Pool!NoPool PROVE AreasApart
  BY DEF AreasApart, Pool!AreasApart
<1>1. PICK ask \in Ask, l \in {LayoutOf(pool.ask)} : /\ ask = pool.ask /\ l = pool.layout /\ l = LayoutOf(ask) /\ ask.nb \in Nat /\ ask.sep \in BOOLEAN
                            /\ ask.private \in Nat /\ l.head \in Nat /\ l.tail \in Nat /\ ask.size \in Nat
  BY RoomIs DEF PoolInv, IsPool, StructuresAssumption
<1>2. l.head >= ask.head /\ l.tail >= ask.tail /\ l.first >= PoolHdr
  BY <1>1, LayoutIs DEF Sizes
<1>3. \A o \in 1 .. ask.nb : o - 1 \in Nat /\ \A p \in 1 .. ask.nb \ {o} : p - 1 \in Nat \ {o - 1}
  BY <1>1
<1>4. \A o \in 1 .. ask.nb : AreaOK(area[o], l.head + ask.size + l.tail)
  BY <1>1 DEF PoolInv, Room
<1> DEFINE at(o)    == Pool!MpObjAt(l, o - 1)
           base(o)  == Pool!MpBaseAt(l, ask.sep, o - 1)
           whole(o) == Pool!Bytes(base(o), l.head + ask.size + l.tail)
           meta(o)  == Pool!Bytes(at(o), ObjHdr + ask.private)
<1>5. ASSUME NEW o \in 1 .. ask.nb
      PROVE  /\ (base(o) + l.head) % l.align = 0 /\ at(o) % MinAlign = 0
             /\ ~ask.sep => whole(o) \cap meta(o) = {}
             /\ \A p \in 1 .. ask.nb \ {o} : /\ whole(o) \cap whole(p) = {} /\ meta(o) \cap meta(p) = {}
                                             /\ ~ask.sep => whole(o) \cap meta(p) = {}
  <2>1. PICK i \in Nat : i = o - 1
    BY <1>3
  <2>2. \A p \in 1 .. ask.nb \ {o} : p - 1 \in Nat \ {i}
    BY <1>3, <2>1
  <2>3. /\ Placed(ask, l, i)
        /\ ~ask.sep => WholeOf(ask, l, i) \cap MetaOf(ask, l, i) = {}
        /\ \A j \in Nat \ {i} : /\ WholeOf(ask, l, i) \cap WholeOf(ask, l, j) = {}
                                /\ MetaOf(ask, l, i) \cap MetaOf(ask, l, j) = {}
                                /\ ~ask.sep => WholeOf(ask, l, i) \cap MetaOf(ask, l, j) = {}
    BY <1>1, ObjectsTogether, ObjectsApart
  <2>4. \A p : whole(p) = WholeOf(ask, l, p - 1) /\ meta(p) = MetaOf(ask, l, p - 1)
    BY DEF WholeOf, MetaOf
  <2>5. (base(o) + l.head) % l.align = 0 /\ at(o) % MinAlign = 0
    BY <2>1, <2>3 DEF Placed
  <2> HIDE DEF whole, meta, base, at
  <2>6. QED
    BY <2>1, <2>2, <2>3, <2>4, <2>5
<1>6. \A o \in 1 .. ask.nb : /\ area[o].lhr >= 0 /\ area[o].ltr >= 0 /\ area[o].len >= 0
                             /\ area[o].data = area[o].lhr
                             /\ area[o].lhr + area[o].len + area[o].ltr = l.head + ask.size + l.tail
  BY <1>4 DEF AreaOK
<1>7. QED
  BY <1>1, <1>2, <1>5, <1>6, ZenonT(60) DEF AreasApart, Pool!AreasApart, Pool!Obj

-----------------------------------------------------------------------------
(* Layouts of volumes.                                                     *)
VolInv ==
  vol = NoVolume \/
  \E nb \in 1 .. MaxMembers : \E mode \in Layout!Modes(nb), ss \in Stripe, size \in [0 .. nb - 1 -> MemberSize] :
    LET lay   == [mode |-> mode, nb |-> nb, stripe |-> ss]
        least == Smallest({size[m] : m \in 0 .. nb - 1})
    IN  vol = [lay |-> lay, size |-> size, volsize |-> Layout!VolSize(lay, least)]

LEMMA SmallestIs ==
  ASSUME NEW T, T \subseteq Nat, T # {}
  PROVE  Smallest(T) \in T /\ \A t \in T : Smallest(T) <= t
  BY NatLeast DEF Smallest

LEMMA ModSmall ==
  ASSUME NEW n \in Nat, NEW x \in Nat, x < n
  PROVE  x % n = x
  OBVIOUS

(* Full quotients: as many as fit.                                         *)
LEMMA DivFits ==
  ASSUME NEW q \in Nat, NEW n \in Nat \ {0}
  PROVE  q \div n \in Nat /\ (q \div n) * n \in Nat /\ (q \div n) * n <= q
<1>1. q % n \in 0 .. n - 1 /\ q \div n \in Nat /\ q = n * (q \div n) + (q % n)
  BY DivMod
<1>2. PICK k \in Nat : k = q \div n
  BY <1>1
<1>3. n * k = k * n /\ k * n \in Nat
  BY <1>2
<1>4. QED
  BY <1>1, <1>2, <1>3

LEMMA MulMono ==
  ASSUME NEW n \in Nat, NEW a \in Nat, NEW b \in Nat, a <= b
  PROVE  a * n \in Nat /\ b * n \in Nat /\ a * n <= b * n /\ (a + 1) * n = a * n + n
  OBVIOUS

(* Stripes c n to c n + n - 1 are row c of n members.                      *)
LEMMA RowOfStripes ==
  ASSUME NEW n \in Nat \ {0}, NEW c \in Nat
  PROVE  {<<q % n, q \div n>> : q \in c * n .. (c + 1) * n - 1} = {<<m, c>> : m \in 0 .. n - 1}
<1>1. c * n \in Nat /\ (c + 1) * n = c * n + n
  OBVIOUS
<1>2. \A m \in 0 .. n - 1 : (c * n + m) \div n = c /\ (c * n + m) % n = m
  OBVIOUS
<1>3. PICK x \in Nat : x = c * n /\ (c + 1) * n - 1 = x + n - 1
  BY <1>1
<1>4. ASSUME NEW q \in x .. x + n - 1 PROVE \E m \in 0 .. n - 1 : q = x + m
  <2>1. q - x \in 0 .. n - 1 /\ q = x + (q - x)
    BY <1>4
  <2>2. QED
    BY <2>1
<1>5. \A m \in 0 .. n - 1 : x + m \in x .. x + n - 1
  OBVIOUS
<1>6. \A m \in 0 .. n - 1 : <<(x + m) % n, (x + m) \div n>> = <<m, c>>
  BY <1>2, <1>3
<1> DEFINE g(q) == <<q % n, q \div n>>
           h(m) == <<m, c>>
<1>7. \A m \in 0 .. n - 1 : g(x + m) = h(m)
  BY <1>6
<1>8. {g(q) : q \in x .. x + n - 1} = {h(m) : m \in 0 .. n - 1}
  <2> HIDE DEF g, h
  <2>1. ASSUME NEW q \in x .. x + n - 1 PROVE g(q) \in {h(m) : m \in 0 .. n - 1}
    BY <1>4, <1>7
  <2>2. ASSUME NEW m \in 0 .. n - 1 PROVE h(m) \in {g(q) : q \in x .. x + n - 1}
    BY <1>5, <1>7
  <2>3. QED
    BY <2>1, <2>2
<1>9. QED
  BY <1>3, <1>8

LEMMA RowCount ==
  ASSUME NEW n \in Nat \ {0}, NEW c
  PROVE  Cardinality({<<m, c>> : m \in 0 .. n - 1}) = n
<1> DEFINE S == {<<m, c>> : m \in 0 .. n - 1}
           f == [m \in 0 .. n - 1 |-> <<m, c>>]
<1>1. IsFiniteSet(0 .. n - 1) /\ Cardinality(0 .. n - 1) = n
  BY FS_Interval
<1>2. f \in Bijection(0 .. n - 1, S)
  <2>1. f \in [0 .. n - 1 -> S] /\ \A m \in 0 .. n - 1 : f[m] = <<m, c>>
    OBVIOUS
  <2>2. \A a, b \in 0 .. n - 1 : f[a] = f[b] => a = b
    BY <2>1
  <2>3. \A s \in S : \E m \in 0 .. n - 1 : f[m] = s
    BY <2>1
  <2> HIDE DEF f, S
  <2>4. QED
    BY <2>1, <2>2, <2>3, Zenon DEF Bijection, Injection, IsInjective, Surjection
<1>3. Cardinality(S) = Cardinality(0 .. n - 1)
  BY <1>1, <1>2, FS_Bijection DEF ExistsBijection
<1>4. QED
  BY <1>1, <1>3

LayOf(mode, nb, ss) == [mode |-> mode, nb |-> nb, stripe |-> ss]

(* What mkfs makes of the size of the smallest member.                     *)
Rows(lay, nb, ss, least, size) ==
  /\ size \in Nat /\ Layout!MinMemberSize(lay, size) <= least /\ Layout!ChunkSize(lay) = ss * nb
  /\ \A c \in 1 .. size - 1 : /\ Layout!Strips(lay, c, 1) = {<<m, c>> : m \in 0 .. nb - 1}
                              /\ (c + 1) * ss <= least
Places(lay, nb, ss, least, size) ==
  /\ size \in Nat /\ Layout!MinMemberSize(lay, size) <= least /\ Layout!ChunkSize(lay) = ss
  /\ \A c \in 1 .. size - 1 :
       \E m \in 0 .. nb - 1, i \in Nat :
         /\ c + nb - 1 = i * nb + m /\ Layout!Strips(lay, c, 1) = {<<m, i>>}
         /\ i >= 1 /\ (i + 1) * ss <= least

LEMMA CombinedFits ==
  ASSUME StructuresAssumption, NEW nb \in Nat, nb >= 2, NEW ss \in Nat \ {0}, NEW least \in Nat, least < Word,
         least >= ss * nb, NEW lay, lay = LayOf("combined", nb, ss), NEW size, size = Layout!VolSize(lay, least)
  PROVE  Rows(lay, nb, ss, least, size)
<1>1. lay.mode = "combined" /\ lay.nb = nb /\ lay.stripe = ss /\ Layout!Combined(lay) /\ Word \in Nat
  BY DEF LayOf, Layout!Combined, StructuresAssumption
<1>2. Layout!ChunkSize(lay) = ss * nb
  BY <1>1 DEF Layout!ChunkSize
<1>3. PICK w \in Nat : w = ss * nb /\ w >= ss + ss
  <2>1. PICK k \in Nat : nb = k + 2
    <3>1. nb - 2 \in Nat /\ nb = (nb - 2) + 2
      OBVIOUS
    <3>2. QED
      BY <3>1
  <2>2. ss * nb = ss * k + ss + ss /\ ss * k \in Nat
    BY <2>1
  <2>3. QED
    BY <2>2
<1>4. PICK r \in Nat : r = least - w + ss /\ r + ss <= least
  BY <1>3
<1>5. size = r \div ss
  <2>1. Layout!VolSize(lay, least) = ((least - ss * nb + ss) % Word) \div ss
    BY <1>1, <1>2 DEF Layout!VolSize, Layout!Wrap
  <2>2. least - ss * nb + ss = r
    BY <1>3, <1>4
  <2>3. r % Word = r
    BY <1>1, <1>4, ModSmall
  <2>4. QED
    BY <2>1, <2>2, <2>3
<1>6. PICK v \in Nat : v = size /\ v * ss \in Nat /\ v * ss <= r
  BY <1>5, DivFits
<1>7. (v + 1) * ss = v * ss + ss
  BY MulMono
<1>8. Layout!MinMemberSize(lay, size) <= least
  BY <1>1, <1>4, <1>6, <1>7 DEF Layout!MinMemberSize
<1>9. ASSUME NEW c \in 1 .. v - 1
      PROVE  /\ Layout!Strips(lay, c, 1) = {<<m, c>> : m \in 0 .. nb - 1}
             /\ (c + 1) * ss <= least
  <2>1. Layout!Strips(lay, c, 1) = {<<q % nb, q \div nb>> : q \in c * nb .. (c + 1) * nb - 1}
    BY <1>1 DEF Layout!Strips, Layout!StripNos
  <2>2. Layout!Strips(lay, c, 1) = {<<m, c>> : m \in 0 .. nb - 1}
    <3>1. nb \in Nat \ {0} /\ c \in Nat
      OBVIOUS
    <3>2. {<<q % nb, q \div nb>> : q \in c * nb .. (c + 1) * nb - 1} = {<<m, c>> : m \in 0 .. nb - 1}
      BY <3>1, RowOfStripes, Zenon
    <3>3. QED
      BY <2>1, <3>2, Zenon
  <2>3. (c + 1) * ss <= v * ss /\ (c + 1) * ss \in Nat
    <3>1. c + 1 \in Nat /\ c + 1 <= v
      OBVIOUS
    <3>2. QED
      BY <3>1, MulMono
  <2>4. QED
    BY <1>4, <1>6, <2>2, <2>3
<1>10. QED
  BY <1>2, <1>6, <1>8, <1>9 DEF Rows

LEMMA IndependentFits ==
  ASSUME StructuresAssumption, NEW nb \in Nat \ {0}, NEW ss \in Nat \ {0}, NEW least \in Nat, least < Word,
         least >= ss, NEW lay, lay = LayOf("independent", nb, ss), NEW size, size = Layout!VolSize(lay, least)
  PROVE  Places(lay, nb, ss, least, size)
<1>1. lay.mode = "independent" /\ lay.nb = nb /\ lay.stripe = ss /\ ~Layout!Combined(lay) /\ Word \in Nat
  BY DEF LayOf, Layout!Combined, StructuresAssumption
<1>2. Layout!ChunkSize(lay) = ss
  BY <1>1 DEF Layout!ChunkSize
<1>3. PICK r \in Nat : r = least - ss /\ r < Word
  OBVIOUS
<1>4. PICK k \in Nat : k = r \div ss /\ k * ss \in Nat /\ k * ss <= r
  BY <1>3, DivFits
<1>5. size = k * nb /\ size \in Nat
  <2>1. Layout!VolSize(lay, least) = (((least - ss) % Word) \div ss) * nb
    BY <1>1, <1>2 DEF Layout!VolSize, Layout!Wrap
  <2>2. r % Word = r
    BY <1>1, <1>3, ModSmall
  <2>3. k * nb \in Nat
    OBVIOUS
  <2>4. QED
    BY <1>3, <1>4, <2>1, <2>2, <2>3, Zenon
<1>6. (k + 1) * ss = k * ss + ss /\ (k + 1) * ss <= least
  BY <1>3, <1>4, MulMono
<1>7. Layout!MinMemberSize(lay, size) <= least
  <2>1. PICK q \in Nat : q = k * nb + 1
    BY <1>5
  <2>2. PICK d \in Nat : d = q \div nb /\ d * nb <= q /\ d * nb \in Nat
    BY DivFits
  <2>3. d <= k + 1
    <3>1. SUFFICES ASSUME d >= k + 2 PROVE FALSE
      OBVIOUS
    <3>2. (k + 2) * nb <= d * nb /\ (k + 2) * nb = k * nb + nb + nb /\ k * nb \in Nat
      BY <3>1, MulMono
    <3>3. QED
      BY <2>1, <2>2, <3>2
  <2>4. d * ss <= (k + 1) * ss /\ d * ss \in Nat /\ (k + 1) * ss \in Nat
    <3>1. k + 1 \in Nat
      OBVIOUS
    <3>2. QED
      BY <2>3, <3>1, MulMono
  <2>5. Layout!MinMemberSize(lay, size) = d * ss
    BY <1>1, <1>5, <2>1, <2>2 DEF Layout!MinMemberSize
  <2>6. QED
    BY <1>6, <2>4, <2>5
<1>8. ASSUME NEW c \in 1 .. size - 1
      PROVE  \E m \in 0 .. nb - 1, i \in Nat :
               /\ c + nb - 1 = i * nb + m /\ Layout!Strips(lay, c, 1) = {<<m, i>>}
               /\ i >= 1 /\ (i + 1) * ss <= least
  <2>1. PICK q \in Nat : q = c + nb - 1 /\ q >= nb
    BY <1>5
  <2>2. PICK i \in Nat, m \in 0 .. nb - 1 : i = q \div nb /\ m = q % nb /\ q = nb * i + m
    <3>1. q % nb \in 0 .. nb - 1 /\ q \div nb \in Nat /\ q = nb * (q \div nb) + (q % nb)
      BY DivMod
    <3>2. QED
      BY <3>1, Zenon
  <2>3. nb * i = i * nb /\ i * nb \in Nat
    OBVIOUS
  <2>4. i >= 1
    <3>1. i = 0 => i * nb = 0
      OBVIOUS
    <3>2. QED
      BY <2>1, <2>2, <2>3, <3>1
  <2>5. i <= k
    <3>1. SUFFICES ASSUME i >= k + 1 PROVE FALSE
      OBVIOUS
    <3>2. (k + 1) * nb <= i * nb /\ (k + 1) * nb = k * nb + nb
      BY <3>1, MulMono
    <3>3. PICK x \in Nat : x = k * nb /\ c <= x - 1
      BY <1>5
    <3>4. PICK y \in Nat : y = i * nb
      BY <2>3
    <3>5. QED
      BY <2>1, <2>2, <2>3, <3>2, <3>3, <3>4
  <2>6. (i + 1) * ss <= (k + 1) * ss /\ (i + 1) * ss \in Nat /\ (k + 1) * ss \in Nat
    <3>1. k + 1 \in Nat /\ i + 1 \in Nat /\ i + 1 <= k + 1
      BY <2>5
    <3>2. QED
      BY <3>1, MulMono
  <2>7. Layout!Strips(lay, c, 1) = {<<m, i>>}
    <3>1. Layout!StripNos(lay, c, 1) = q .. q
      <4>1. c + nb - 1 + 1 - 1 = q
        BY <2>1
      <4>2. QED
        BY <1>1, <2>1, <4>1 DEF Layout!StripNos
    <3>2. q .. q = {q}
      OBVIOUS
    <3>3. QED
      BY <1>1, <2>2, <3>1, <3>2 DEF Layout!Strips
  <2>8. QED
    <3>1. c + nb - 1 = i * nb + m
      BY <2>1, <2>2, <2>3
    <3>2. PICK x, y \in Nat : x = (i + 1) * ss /\ y = (k + 1) * ss
      BY <2>6
    <3>3. (i + 1) * ss <= least
      BY <1>6, <2>6, <3>2
    <3>4. QED
      BY <2>2, <2>4, <2>7, <3>1, <3>3, Zenon
<1>9. QED
  BY <1>2, <1>5, <1>7, <1>8 DEF Places

LEMMA VolumesFit ==
  ASSUME StructuresAssumption, VolInv
  PROVE  LayoutFits
<1>1. CASE vol = NoVolume
  <2>1. vol.size = << >> /\ DOMAIN << >> = {}
    BY <1>1 DEF NoVolume
  <2>2. DOMAIN vol.size = {}
    BY <2>1
  <2>3. QED
    BY <2>2 DEF LayoutFits
<1>2. CASE vol # NoVolume
  <2>a. PICK nb \in 1 .. MaxMembers : \E mode \in Layout!Modes(nb), ss \in Stripe, size \in [0 .. nb - 1 -> MemberSize] :
          vol = [lay |-> LayOf(mode, nb, ss), size |-> size,
                 volsize |-> Layout!VolSize(LayOf(mode, nb, ss), Smallest({size[m] : m \in 0 .. nb - 1}))]
    BY <1>2 DEF VolInv, LayOf
  <2>1. PICK mode \in Layout!Modes(nb), ss \in Stripe, size \in [0 .. nb - 1 -> MemberSize] :
          vol = [lay |-> LayOf(mode, nb, ss), size |-> size,
                 volsize |-> Layout!VolSize(LayOf(mode, nb, ss), Smallest({size[m] : m \in 0 .. nb - 1}))]
    BY <2>a
  <2>2. PICK lay, least, vs : /\ lay = LayOf(mode, nb, ss) /\ least = Smallest({size[m] : m \in 0 .. nb - 1})
                              /\ vs = Layout!VolSize(lay, least)
    OBVIOUS
  <2>3. vol.lay = lay /\ vol.size = size /\ vol.volsize = vs
    BY <2>1, <2>2
  <2>4. /\ nb \in Nat \ {0} /\ ss \in Nat \ {0} /\ Word \in Nat
        /\ \A m \in 0 .. nb - 1 : size[m] \in Nat /\ size[m] < Word
        /\ 0 \in 0 .. nb - 1 /\ DOMAIN size = 0 .. nb - 1 /\ lay.stripe = ss
    <3>1. /\ MaxMembers \in Nat /\ Stripe \subseteq Nat \ {0} /\ Word \in Nat /\ MemberSize \subseteq 0 .. Word - 1
      BY DEF StructuresAssumption
    <3>2. nb \in Nat \ {0} /\ ss \in Nat \ {0} /\ 0 \in 0 .. nb - 1
      BY <3>1
    <3>3. \A m \in 0 .. nb - 1 : size[m] \in 0 .. Word - 1
      BY <3>1
    <3>4. lay.stripe = ss
      BY <2>2 DEF LayOf
    <3>5. QED
      BY <3>1, <3>2, <3>3, <3>4
  <2>5. /\ \E m \in 0 .. nb - 1 : least = size[m]
        /\ \A m \in 0 .. nb - 1 : least <= size[m]
    <3> DEFINE T == {size[m] : m \in 0 .. nb - 1}
    <3>1. T \subseteq Nat /\ size[0] \in T
      BY <2>4
    <3>2. Smallest(T) \in T /\ \A t \in T : Smallest(T) <= t
      BY <3>1, SmallestIs
    <3>3. QED
      BY <2>2, <3>2
  <2>6. least \in Nat /\ least < Word
    BY <2>4, <2>5
  <2> SUFFICES ASSUME \A m \in 0 .. nb - 1 : size[m] >= Layout!ChunkSize(lay),
                      NEW n \in 0 .. nb - 1
               PROVE  /\ size[n] >= Layout!MinMemberSize(lay, vs)
                      /\ \A c \in 1 .. vs - 1 :
                           /\ \A s \in Layout!Strips(lay, c, 1) :
                                s[2] >= 1 /\ (s[1] = n => (s[2] + 1) * ss <= size[n])
                           /\ Cardinality(Layout!Strips(lay, c, 1)) * ss = Layout!ChunkSize(lay)
                           /\ \A d \in (1 .. vs - 1) \ {c} : Layout!Strips(lay, c, 1) \cap Layout!Strips(lay, d, 1) = {}
    BY <2>3, <2>4 DEF LayoutFits
  <2>7. least >= Layout!ChunkSize(lay) /\ size[n] \in Nat /\ least <= size[n]
    BY <2>4, <2>5
  <2>8. CASE mode = "combined"
    <3>1. nb >= 2
      BY <2>4, <2>8 DEF Layout!Modes
    <3>2. Layout!ChunkSize(lay) = ss * nb
      BY <2>2, <2>8 DEF LayOf, Layout!ChunkSize, Layout!Combined
    <3>3. /\ vs \in Nat /\ Layout!MinMemberSize(lay, vs) <= least
          /\ \A c \in 1 .. vs - 1 : /\ Layout!Strips(lay, c, 1) = {<<m, c>> : m \in 0 .. nb - 1}
                                    /\ (c + 1) * ss <= least
      <4>1. nb \in Nat /\ least >= ss * nb /\ lay = LayOf("combined", nb, ss)
        BY <2>2, <2>4, <2>7, <2>8, <3>2
      <4>2. ss \in Nat \ {0} /\ least \in Nat /\ least < Word /\ vs = Layout!VolSize(lay, least)
        BY <2>2, <2>4, <2>6
      <4>3. Rows(lay, nb, ss, least, vs)
        BY <3>1, <4>1, <4>2, <2>4, CombinedFits
      <4>4. QED
        BY <4>3, Zenon DEF Rows
    <3>4. size[n] >= Layout!MinMemberSize(lay, vs)
      <4>1. PICK x \in Nat : x = vs /\ Layout!MinMemberSize(lay, vs) = (x + 1) * ss /\ (x + 1) * ss \in Nat
        <5>1. PICK x \in Nat : x = vs
          BY <3>3
        <5>2. Layout!MinMemberSize(lay, x) = (x + 1) * ss
          BY <2>2, <2>8 DEF LayOf, Layout!MinMemberSize, Layout!Combined
        <5>3. (x + 1) * ss \in Nat
          BY <2>4
        <5>4. QED
          BY <5>1, <5>2, <5>3
      <4>2. QED
        BY <2>6, <2>7, <3>3, <4>1
    <3>5. ASSUME NEW c \in 1 .. vs - 1
          PROVE  /\ \A s \in Layout!Strips(lay, c, 1) : s[2] >= 1 /\ (s[1] = n => (s[2] + 1) * ss <= size[n])
                 /\ Cardinality(Layout!Strips(lay, c, 1)) * ss = Layout!ChunkSize(lay)
                 /\ \A d \in (1 .. vs - 1) \ {c} : Layout!Strips(lay, c, 1) \cap Layout!Strips(lay, d, 1) = {}
      <4>1. PICK y \in Nat : y = (c + 1) * ss
        BY <2>4, <3>3
      <4>2. y <= size[n] /\ c >= 1
        <5>1. PICK z \in Nat : z = size[n] /\ least <= z
          BY <2>7
        <5>2. (c + 1) * ss <= least
          BY <3>3
        <5>3. PICK x \in Nat : x = least /\ y <= x /\ x <= z
          BY <2>6, <4>1, <5>1, <5>2
        <5>4. QED
          BY <5>1, <5>3
      <4>3. \A s \in Layout!Strips(lay, c, 1) : s[2] = c
        BY <3>3
      <4>4. Cardinality(Layout!Strips(lay, c, 1)) = nb /\ nb * ss = ss * nb
        <5>1. Cardinality({<<m, c>> : m \in 0 .. nb - 1}) = nb
          BY <2>4, RowCount, ZenonT(60)
        <5>2. nb * ss = ss * nb
          BY <2>4
        <5>3. QED
          BY <3>3, <5>1, <5>2, Zenon
      <4>5. \A d \in (1 .. vs - 1) \ {c} : \A s \in Layout!Strips(lay, d, 1) : s[2] = d
        BY <3>3
      <4>6. QED
        BY <3>2, <4>1, <4>2, <4>3, <4>4, <4>5
    <3>6. QED
      BY <3>4, <3>5
  <2>9. CASE mode = "independent"
    <3>1. Layout!ChunkSize(lay) = ss
      BY <2>2, <2>9 DEF LayOf, Layout!ChunkSize, Layout!Combined
    <3>2. /\ vs \in Nat /\ Layout!MinMemberSize(lay, vs) <= least
          /\ \A c \in 1 .. vs - 1 :
               \E m \in 0 .. nb - 1, i \in Nat :
                 /\ c + nb - 1 = i * nb + m /\ Layout!Strips(lay, c, 1) = {<<m, i>>}
                 /\ i >= 1 /\ (i + 1) * ss <= least
      <4>1. least >= ss /\ lay = LayOf("independent", nb, ss)
        BY <2>2, <2>7, <2>9, <3>1
      <4>2. nb \in Nat \ {0} /\ ss \in Nat \ {0} /\ least \in Nat /\ least < Word /\ vs = Layout!VolSize(lay, least)
        BY <2>2, <2>4, <2>6
      <4>3. Places(lay, nb, ss, least, vs)
        BY <4>1, <4>2, IndependentFits
      <4>4. QED
        BY <4>3, Zenon DEF Places
    <3>3. size[n] >= Layout!MinMemberSize(lay, vs)
      <4>1. PICK x \in Nat : x = (vs + 1) \div nb
        <5>1. vs + 1 \in Nat
          BY <3>2
        <5>2. (vs + 1) \div nb \in Nat
          BY <2>4, <5>1, DivFits
        <5>3. QED
          BY <5>2
      <4>2. Layout!MinMemberSize(lay, vs) = x * ss /\ x * ss \in Nat
        BY <2>2, <2>4, <2>9, <4>1 DEF LayOf, Layout!MinMemberSize, Layout!Combined
      <4>3. QED
        BY <2>6, <2>7, <3>2, <4>2
    <3>4. ASSUME NEW c \in 1 .. vs - 1
          PROVE  /\ \A s \in Layout!Strips(lay, c, 1) : s[2] >= 1 /\ (s[1] = n => (s[2] + 1) * ss <= size[n])
                 /\ Cardinality(Layout!Strips(lay, c, 1)) * ss = Layout!ChunkSize(lay)
                 /\ \A d \in (1 .. vs - 1) \ {c} : Layout!Strips(lay, c, 1) \cap Layout!Strips(lay, d, 1) = {}
      <4>1. PICK m \in 0 .. nb - 1, i \in Nat :
              /\ c + nb - 1 = i * nb + m /\ Layout!Strips(lay, c, 1) = {<<m, i>>}
              /\ i >= 1 /\ (i + 1) * ss <= least
        BY <3>2
      <4>2. PICK y \in Nat : y = (i + 1) * ss
        BY <2>4
      <4>3. y <= size[n]
        BY <2>6, <2>7, <4>1, <4>2
      <4>4. Cardinality(Layout!Strips(lay, c, 1)) = 1 /\ 1 * ss = ss
        <5>1. Cardinality({<<m, i>>}) = 1
          BY FS_Singleton
        <5>2. 1 * ss = ss
          BY <2>4
        <5>3. QED
          BY <4>1, <5>1, <5>2, Zenon
      <4>5. ASSUME NEW d \in (1 .. vs - 1) \ {c} PROVE Layout!Strips(lay, c, 1) \cap Layout!Strips(lay, d, 1) = {}
        <5>1. PICK k \in 0 .. nb - 1, j \in Nat :
                d + nb - 1 = j * nb + k /\ Layout!Strips(lay, d, 1) = {<<k, j>>}
          BY <3>2
        <5>2. <<m, i>> # <<k, j>>
          <6>1. d + nb - 1 # c + nb - 1
            BY <2>4
          <6>2. QED
            BY <4>1, <5>1, <6>1
        <5>3. QED
          BY <4>1, <5>1, <5>2
      <4>6. QED
        BY <3>1, <4>1, <4>2, <4>3, <4>4, <4>5
    <3>5. QED
      BY <3>3, <3>4
  <2>10. QED
    BY <2>8, <2>9 DEF Layout!Modes
<1>3. QED
  BY <1>1, <1>2

-----------------------------------------------------------------------------
(* Rings.                                                                  *)
LEMMA Halves == \A v \in Nat \ {0} : v \div 2 \in 0 .. v - 1 /\ v <= 2 * (v \div 2) + 1
<1> TAKE v \in Nat \ {0}
<1>1. v % 2 \in 0 .. 1 /\ v \div 2 \in Nat /\ v = 2 * (v \div 2) + (v % 2)
  BY DivMod
<1>2. QED
  BY <1>1

(* The recursion of log2 ends, so that there is such a function.           *)
LEMMA RingSizeIs ==
  Pool!RingSize = [v \in Nat |-> IF v = 0 THEN 1 ELSE 2 * Pool!RingSize[v \div 2]]
<1> DEFINE Step(f, S) == [v \in S |-> IF v = 0 THEN 1 ELSE 2 * f[v \div 2]]
           Has(n) == \E g : g = Step(g, 0 .. n)
<1>1. ASSUME NEW n \in Nat, NEW m \in Nat, NEW g, g = Step(g, 0 .. n), NEW h, h = Step(h, 0 .. m),
             NEW w \in Nat, w <= n, w <= m
      PROVE  g[w] = h[w]
  <2> DEFINE T == {v \in Nat : v <= n /\ v <= m /\ g[v] # h[v]}
  <2>1. SUFFICES ASSUME T # {} PROVE FALSE
    BY <1>1
  <2>2. PICK v \in T : \A u \in T : v <= u
    BY <2>1, NatLeast
  <2>3. v \in Nat /\ v <= n /\ v <= m /\ g[v] # h[v] /\ v \in 0 .. n /\ v \in 0 .. m
    BY <2>2
  <2>4. /\ g[v] = IF v = 0 THEN 1 ELSE 2 * g[v \div 2]
        /\ h[v] = IF v = 0 THEN 1 ELSE 2 * h[v \div 2]
    BY <1>1, <2>3
  <2>5. CASE v = 0
    BY <2>3, <2>4, <2>5
  <2>6. CASE v # 0
    <3>1. PICK u \in Nat : u = v \div 2 /\ u < v
      BY <2>3, <2>6, Halves
    <3>2. u \notin T
      BY <2>2, <3>1
    <3>3. g[u] = h[u]
      BY <2>3, <3>1, <3>2
    <3>4. QED
      BY <2>3, <2>4, <2>6, <3>1, <3>3
  <2>7. QED
    BY <2>5, <2>6
<1>2. ASSUME NEW n \in Nat PROVE Has(n)
  <2> DEFINE T == {k \in Nat : ~Has(k)}
  <2>1. SUFFICES ASSUME T # {} PROVE FALSE
    OBVIOUS
  <2>2. PICK k \in T : \A j \in T : k <= j
    BY <2>1, NatLeast
  <2>3. k \in Nat /\ ~Has(k)
    BY <2>2
  <2>4. k # 0
    <3>1. 0 .. 0 = {0}
      OBVIOUS
    <3>2. Step([v \in {0} |-> 1], 0 .. 0) = [v \in {0} |-> 1]
      BY <3>1
    <3>3. QED
      BY <2>3, <3>2
  <2>5. PICK g : g = Step(g, 0 .. k - 1)
    <3>1. k - 1 \in Nat /\ k - 1 \notin T
      BY <2>2, <2>3, <2>4
    <3>2. QED
      BY <3>1
  <2> DEFINE h == [v \in 0 .. k |-> IF v \in 0 .. k - 1 THEN g[v] ELSE 2 * g[k \div 2]]
  <2>6. \A v \in 0 .. k : h[v] = IF v = 0 THEN 1 ELSE 2 * h[v \div 2]
    <3>1. ASSUME NEW v \in 0 .. k - 1 PROVE h[v] = IF v = 0 THEN 1 ELSE 2 * h[v \div 2]
      <4>1. v \in 0 .. k /\ h[v] = g[v]
        OBVIOUS
      <4>2. g[v] = IF v = 0 THEN 1 ELSE 2 * g[v \div 2]
        BY <2>5
      <4>3. v # 0 => v \div 2 \in 0 .. k - 1 /\ v \div 2 \in 0 .. k
        BY <2>3, Halves
      <4>4. v # 0 => h[v \div 2] = g[v \div 2]
        BY <4>3
      <4>5. QED
        BY <4>1, <4>2, <4>4
    <3>2. h[k] = 2 * h[k \div 2]
      <4>1. k \in 0 .. k /\ k \notin 0 .. k - 1 /\ k \div 2 \in 0 .. k - 1 /\ k \div 2 \in 0 .. k
        BY <2>3, <2>4, Halves
      <4>2. QED
        BY <4>1
    <3>3. \A v \in 0 .. k : v \in 0 .. k - 1 \/ v = k
      BY <2>3
    <3> HIDE DEF h
    <3>4. QED
      BY <2>4, <3>1, <3>2, <3>3
  <2>7. h = Step(h, 0 .. k)
    <3>1. h = [v \in 0 .. k |-> h[v]]
      OBVIOUS
    <3> HIDE DEF h
    <3>2. QED
      BY <2>6, <3>1
  <2>8. QED
    BY <2>3, <2>7
<1> DEFINE part(v) == CHOOSE g : g = Step(g, 0 .. v)
           F == [v \in Nat |-> part(v)[v]]
<1>3. \A v \in Nat : part(v) = Step(part(v), 0 .. v)
  BY <1>2
<1> HIDE DEF part, Has
<1>4. \A v \in Nat : F[v] = IF v = 0 THEN 1 ELSE 2 * F[v \div 2]
  <2> TAKE v \in Nat
  <2>1. v \in 0 .. v /\ F[v] = part(v)[v]
    OBVIOUS
  <2>2. part(v)[v] = IF v = 0 THEN 1 ELSE 2 * part(v)[v \div 2]
    BY <1>3, <2>1
  <2>3. ASSUME v # 0 PROVE F[v \div 2] = part(v)[v \div 2]
    <3>1. PICK u \in Nat : u = v \div 2 /\ u <= v /\ u <= u
      BY <2>3, Halves
    <3>2. part(u)[u] = part(v)[u]
      <4>1. PICK g, h : g = part(u) /\ h = part(v)
        OBVIOUS
      <4>2. g = Step(g, 0 .. u) /\ h = Step(h, 0 .. v)
        BY <1>3, <4>1, Zenon
      <4> HIDE DEF Step
      <4>3. g[u] = h[u]
        BY <1>1, <3>1, <4>2
      <4>4. QED
        BY <4>1, <4>3
    <3>3. QED
      BY <3>1, <3>2
  <2>4. QED
    BY <2>1, <2>2, <2>3
<1>5. F = Step(F, Nat)
  <2>1. F = [v \in Nat |-> F[v]]
    OBVIOUS
  <2> HIDE DEF F
  <2>2. QED
    BY <1>4, <2>1
<1> HIDE DEF F
<1>6. QED
  BY <1>5 DEF Pool!RingSize

LEMMA RoomForAll == \A n \in Nat : Pool!RingSize[n] \in Nat /\ Pool!RingSize[n] > n
<1> DEFINE T == {n \in Nat : ~(Pool!RingSize[n] \in Nat /\ Pool!RingSize[n] > n)}
<1>1. SUFFICES ASSUME T # {} PROVE FALSE
  OBVIOUS
<1>2. PICK n \in T : \A m \in T : n <= m
  BY <1>1, NatLeast
<1>3. Pool!RingSize[n] = IF n = 0 THEN 1 ELSE 2 * Pool!RingSize[n \div 2]
  BY <1>2, RingSizeIs, Zenon
<1>4. n # 0
  BY <1>2, <1>3
<1>5. PICK h \in Nat : h = n \div 2 /\ h < n /\ n <= 2 * h + 1
  BY <1>2, <1>4, Halves
<1>6. Pool!RingSize[h] \in Nat /\ Pool!RingSize[h] > h
  BY <1>2, <1>5
<1>7. PICK s \in Nat : s = Pool!RingSize[h]
  BY <1>6
<1>8. Pool!RingSize[n] = 2 * s
  BY <1>3, <1>4, <1>5, <1>7
<1>9. QED
  BY <1>2, <1>5, <1>6, <1>7, <1>8

(* Where the elements of a ring are, without remainders.                   *)
RingShape(r) ==
  /\ r.size \in Nat \ {0} /\ r.enq \in 0 .. r.size - 1 /\ r.deq \in 0 .. r.size - 1
  /\ r = [slot |-> r.slot, enq |-> r.enq, deq |-> r.deq, size |-> r.size]
  /\ r.slot = [i \in 0 .. r.size - 1 |-> r.slot[i]]
Wrapped(r, x) == IF x < r.size THEN x ELSE x - r.size
Count(r) == IF r.enq < r.deq THEN r.size + r.enq - r.deq ELSE r.enq - r.deq
Slot(r, i) == Wrapped(r, r.deq + i - 1)

LEMMA ModOnce ==
  ASSUME NEW n \in Nat \ {0}, NEW x \in 0 .. 2 * n - 1
  PROVE  x % n = IF x < n THEN x ELSE x - n
<1>1. CASE x < n
  BY <1>1, ModSmall
<1>2. CASE x >= n
  <2>1. PICK y \in 0 .. n - 1 : x = 1 * n + y
    <3>1. x - n \in 0 .. n - 1 /\ x = 1 * n + (x - n)
      BY <1>2
    <3>2. QED
      BY <3>1
  <2>2. (1 * n + y) % n = y
    OBVIOUS
  <2>3. QED
    BY <1>2, <2>1, <2>2
<1>3. QED
  BY <1>1, <1>2

LEMMA RingIs ==
  ASSUME NEW r, RingShape(r)
  PROVE  /\ Pool!RgCount(r) = Count(r) /\ Count(r) \in 0 .. r.size - 1
         /\ \A n \in 0 .. r.size : Pool!RgHead(r, n) = [i \in 1 .. n |-> r.slot[Slot(r, i)]]
         /\ \A n \in 0 .. r.size : /\ Pool!Masked(r, r.enq + n) = Wrapped(r, r.enq + n)
                                   /\ Pool!Masked(r, r.deq + n) = Wrapped(r, r.deq + n)
<1>1. PICK size \in Nat \ {0}, enq \in Nat, deq \in Nat :
        size = r.size /\ enq = r.enq /\ deq = r.deq /\ enq < size /\ deq < size
  BY DEF RingShape
<1>2. \A x \in 0 .. 2 * size - 1 : Pool!Masked(r, x) = Wrapped(r, x)
  BY <1>1, ModOnce DEF Pool!Masked, Wrapped
<1>3. Pool!RgCount(r) = Count(r) /\ Count(r) \in 0 .. size - 1
  <2>1. size + enq - deq \in 0 .. 2 * size - 1
    BY <1>1
  <2>2. QED
    BY <1>1, <1>2, <2>1 DEF Pool!RgCount, Count, Wrapped
<1>4. \A n \in 0 .. size : enq + n \in 0 .. 2 * size - 1 /\ deq + n \in 0 .. 2 * size - 1
  BY <1>1
<1>5. ASSUME NEW n \in 0 .. size PROVE Pool!RgHead(r, n) = [i \in 1 .. n |-> r.slot[Slot(r, i)]]
  <2>1. \A i \in 1 .. n : deq + i - 1 \in 0 .. 2 * size - 1
    BY <1>1
  <2>2. \A i \in 1 .. n : Pool!Masked(r, r.deq + i - 1) = Slot(r, i)
    BY <1>1, <1>2, <2>1 DEF Slot
  <2>3. QED
    BY <2>2 DEF Pool!RgHead
<1>6. QED
  BY <1>1, <1>2, <1>3, <1>4, <1>5

Elem(r, i) == r.slot[Slot(r, i)]

(* Rings that differ in what an operation changes.                         *)
LEMMA RingFields ==
  ASSUME NEW r, RingShape(r), NEW slot, NEW enq, NEW deq
  PROVE  [r EXCEPT !.slot = slot, !.enq = enq] = [slot |-> slot, enq |-> enq, deq |-> r.deq, size |-> r.size]
         /\ [r EXCEPT !.deq = deq] = [slot |-> r.slot, enq |-> r.enq, deq |-> deq, size |-> r.size]
<1>1. PICK s, e, d, n : r = [slot |-> s, enq |-> e, deq |-> d, size |-> n]
  BY DEF RingShape
<1>2. PICK q : q = [r EXCEPT !.slot = slot]
  OBVIOUS
<1>3. q = [slot |-> slot, enq |-> e, deq |-> d, size |-> n]
  BY <1>1, <1>2
<1>4. [q EXCEPT !.enq = enq] = [slot |-> slot, enq |-> enq, deq |-> d, size |-> n]
  BY <1>3
<1>5. [r EXCEPT !.slot = slot, !.enq = enq] = [q EXCEPT !.enq = enq]
  BY <1>2, Zenon
<1>6. [r EXCEPT !.deq = deq] = [slot |-> s, enq |-> e, deq |-> deq, size |-> n]
  BY <1>1
<1>7. QED
  BY <1>1, <1>4, <1>5, <1>6

LEMMA DequeueIs ==
  ASSUME NEW r, RingShape(r), NEW n \in 0 .. Count(r), NEW q, q = Pool!RgDequeue(r, n)
  PROVE  /\ RingShape(q) /\ q.size = r.size /\ Count(q) = Count(r) - n
         /\ \A i \in 1 .. Count(r) - n : Elem(q, i) = Elem(r, i + n)
<1>1. Count(r) \in 0 .. r.size - 1 /\ n \in 0 .. r.size /\ n \in Nat
  BY RingIs DEF RingShape
<1>2. Pool!RgDequeue(r, n) = [r EXCEPT !.deq = Pool!Masked(r, r.deq + n)]
  BY DEF Pool!RgDequeue
<1>3. Pool!Masked(r, r.deq + n) = Wrapped(r, r.deq + n)
  BY <1>1, RingIs
<1>4. q = [slot |-> r.slot, enq |-> r.enq, deq |-> Wrapped(r, r.deq + n), size |-> r.size]
  BY <1>2, <1>3, RingFields
<1>5. q.slot = r.slot /\ q.enq = r.enq /\ q.deq = Wrapped(r, r.deq + n) /\ q.size = r.size
  BY <1>4
<1>6. PICK size \in Nat \ {0}, enq \in Nat, deq \in Nat :
        size = r.size /\ enq = r.enq /\ deq = r.deq /\ enq < size /\ deq < size
  BY DEF RingShape
<1>7. Wrapped(r, r.deq + n) \in 0 .. size - 1
  BY <1>1, <1>6 DEF Wrapped
<1>8. RingShape(q)
  BY <1>4, <1>5, <1>6, <1>7 DEF RingShape
<1>9. Count(q) = Count(r) - n
  BY <1>1, <1>5, <1>6 DEF Count, Wrapped
<1>10. \A i \in 1 .. Count(r) - n : Slot(q, i) = Slot(r, i + n)
  BY <1>1, <1>5, <1>6 DEF Slot, Wrapped
<1>11. QED
  BY <1>5, <1>8, <1>9, <1>10 DEF Elem

LEMMA EnqueueIs ==
  ASSUME NEW r, RingShape(r), Count(r) + 1 < r.size, NEW x, NEW q, q = Pool!RgEnqueue(r, x)
  PROVE  /\ RingShape(q) /\ q.size = r.size /\ Count(q) = Count(r) + 1
         /\ \A i \in 1 .. Count(r) : Elem(q, i) = Elem(r, i)
         /\ Elem(q, Count(r) + 1) = x
<1>1. PICK size \in Nat \ {0}, enq \in Nat, deq \in Nat :
        size = r.size /\ enq = r.enq /\ deq = r.deq /\ enq < size /\ deq < size
  BY DEF RingShape
<1>2. Pool!Masked(r, r.enq + 1) = Wrapped(r, enq + 1) /\ 1 \in 0 .. size
  <2>1. 1 \in 0 .. size
    BY <1>1
  <2>2. QED
    BY <1>1, <2>1, RingIs
<1>3. Count(r) \in 0 .. size - 1
  BY <1>1, RingIs
<1>4. ~Pool!RgFull(r)
  BY <1>1, <1>2, <1>3 DEF Pool!RgFull, Wrapped, Count
<1>5. PICK slot : slot = [r.slot EXCEPT ![enq] = x]
  OBVIOUS
<1>6. q = [r EXCEPT !.slot = slot, !.enq = Wrapped(r, enq + 1)]
  BY <1>1, <1>2, <1>4, <1>5, Zenon DEF Pool!RgEnqueue
<1>7. q = [slot |-> slot, enq |-> Wrapped(r, enq + 1), deq |-> r.deq, size |-> r.size]
  BY <1>6, RingFields
<1>8. q.slot = slot /\ q.enq = Wrapped(r, enq + 1) /\ q.deq = deq /\ q.size = size
  BY <1>1, <1>7
<1>9. /\ slot = [i \in 0 .. size - 1 |-> slot[i]]
      /\ \A i \in 0 .. size - 1 : slot[i] = IF i = enq THEN x ELSE r.slot[i]
  BY <1>1, <1>5 DEF RingShape
<1>10. Wrapped(r, enq + 1) \in 0 .. size - 1
  BY <1>1 DEF Wrapped
<1>11. RingShape(q)
  BY <1>1, <1>7, <1>8, <1>9, <1>10 DEF RingShape
<1>12. Count(q) = Count(r) + 1
  BY <1>1, <1>3, <1>8 DEF Count, Wrapped
<1>13. \A i \in 1 .. Count(r) + 1 : Slot(q, i) = Slot(r, i) /\ Slot(r, i) \in 0 .. size - 1
  BY <1>1, <1>3, <1>8 DEF Slot, Wrapped
<1>14. Slot(r, Count(r) + 1) = enq /\ \A i \in 1 .. Count(r) : Slot(r, i) # enq
  BY <1>1, <1>3 DEF Slot, Wrapped, Count
<1>15. \A i \in 1 .. Count(r) : Elem(q, i) = Elem(r, i)
  BY <1>8, <1>9, <1>3, <1>13, <1>14 DEF Elem
<1>16. Elem(q, Count(r) + 1) = x
  <2>1. Count(r) + 1 \in 1 .. Count(r) + 1
    BY <1>3
  <2>2. QED
    BY <1>1, <1>8, <1>9, <1>13, <1>14, <2>1 DEF Elem
<1>17. QED
  BY <1>1, <1>8, <1>11, <1>12, <1>15, <1>16

(* The places behind those that are taken.                                 *)
LEMMA PlacesBehind ==
  ASSUME NEW r, RingShape(r), NEW len \in Nat, Count(r) + len < r.size,
         NEW q, q.size = r.size, q.deq = r.deq, q.enq = Wrapped(r, r.enq + len)
  PROVE  /\ q.enq \in 0 .. r.size - 1 /\ Count(q) = Count(r) + len
         /\ \A i \in 1 .. Count(r) + len : Slot(q, i) = Slot(r, i) /\ Slot(r, i) \in 0 .. r.size - 1
         /\ \A i \in 1 .. Count(r) :
              LET k == Slot(r, i)
              IN  (IF k < r.enq THEN k + r.size - r.enq + 1 ELSE k - r.enq + 1) > len
         /\ \A t \in 1 .. len :
              LET k == Slot(r, Count(r) + t)
              IN  (IF k < r.enq THEN k + r.size - r.enq + 1 ELSE k - r.enq + 1) = t
<1>1. PICK size \in Nat \ {0}, enq \in Nat, deq \in Nat :
        size = r.size /\ enq = r.enq /\ deq = r.deq /\ enq < size /\ deq < size
  BY DEF RingShape
<1>2. PICK c \in 0 .. size - 1 : c = Count(r) /\ c + len < size /\ c = IF enq < deq THEN size + enq - deq ELSE enq - deq
  BY <1>1, RingIs DEF Count
<1>3. q.enq = IF enq + len < size THEN enq + len ELSE enq + len - size
  BY <1>1 DEF Wrapped
<1>4. Count(q) = c + len /\ q.enq \in 0 .. size - 1
  BY <1>1, <1>2, <1>3 DEF Count
<1>5. \A i \in Nat \ {0} : Slot(r, i) = (IF deq + i - 1 < size THEN deq + i - 1 ELSE deq + i - 1 - size) /\ Slot(q, i) = Slot(r, i)
  BY <1>1 DEF Slot, Wrapped
<1>6. ASSUME NEW i \in 1 .. c + len PROVE Slot(q, i) = Slot(r, i) /\ Slot(r, i) \in 0 .. size - 1
  BY <1>1, <1>2, <1>5
<1>7. ASSUME NEW i \in 1 .. c, NEW k, k = Slot(r, i) PROVE (IF k < enq THEN k + size - enq + 1 ELSE k - enq + 1) > len
  BY <1>1, <1>2, <1>5, <1>7
<1>8. ASSUME NEW t \in 1 .. len, NEW k, k = Slot(r, c + t) PROVE (IF k < enq THEN k + size - enq + 1 ELSE k - enq + 1) = t
  <2>1. k = IF enq + t - 1 < size THEN enq + t - 1 ELSE enq + t - 1 - size
    <3>1. PICK i \in Nat \ {0} : i = c + t /\ k = IF deq + i - 1 < size THEN deq + i - 1 ELSE deq + i - 1 - size
      BY <1>2, <1>5, <1>8
    <3>2. QED
      BY <1>1, <1>2, <3>1
  <2>2. QED
    BY <1>1, <1>2, <2>1
<1>9. QED
  BY <1>1, <1>2, <1>4, <1>6, <1>7, <1>8

(* All of the elements at once find the places that follow.                *)
LEMMA EnqueueMultipleIs ==
  ASSUME NEW r, RingShape(r), NEW S, NEW es \in Seq(S), NEW q
  PROVE  Count(r) + Len(es) < r.size /\ q = Pool!RgEnqueueMultiple(r, es) =>
         /\ RingShape(q) /\ q.size = r.size /\ Count(q) = Count(r) + Len(es)
         /\ \A i \in 1 .. Count(r) : Elem(q, i) = Elem(r, i)
         /\ \A t \in 1 .. Len(es) : Elem(q, Count(r) + t) = es[t]
<1>0. SUFFICES ASSUME Count(r) + Len(es) < r.size, q = Pool!RgEnqueueMultiple(r, es)
               PROVE  /\ RingShape(q) /\ q.size = r.size /\ Count(q) = Count(r) + Len(es)
                      /\ \A i \in 1 .. Count(r) : Elem(q, i) = Elem(r, i)
                      /\ \A t \in 1 .. Len(es) : Elem(q, Count(r) + t) = es[t]
  OBVIOUS
<1>1. PICK size \in Nat \ {0}, enq \in Nat, deq \in Nat :
        size = r.size /\ enq = r.enq /\ deq = r.deq /\ enq < size /\ deq < size
  BY DEF RingShape
<1>2. PICK c \in 0 .. size - 1 : c = Count(r) /\ c = Pool!RgCount(r)
  BY <1>1, RingIs
<1>3. PICK len \in Nat : len = Len(es) /\ DOMAIN es = 1 .. len /\ len \in 0 .. size /\ c + len < size
  BY <1>0, <1>1, <1>2
<1>4. Pool!Masked(r, r.enq + Len(es)) = Wrapped(r, enq + len)
  BY <1>1, <1>3, RingIs
<1> DEFINE At(i) == Pool!Masked(r, i + r.size - r.enq) + 1
           Put(i) == IF At(i) \in DOMAIN es THEN es[At(i)] ELSE r.slot[i]
<1>5. \A i \in 0 .. size - 1 : At(i) = IF i < enq THEN i + size - enq + 1 ELSE i - enq + 1
  <2>1. \A i \in 0 .. size - 1 : i + size - enq \in 0 .. 2 * size - 1
    BY <1>1, SMTT(30)
  <2>2. \A i \in 0 .. size - 1 : Pool!Masked(r, i + size - enq) = Wrapped(r, i + size - enq)
    BY <1>1, <2>1, ModOnce DEF Pool!Masked, Wrapped
  <2>3. QED
    BY <1>1, <2>2, SMTT(30) DEF Wrapped
<1>6. PICK slot : slot = [i \in DOMAIN r.slot |-> Put(i)]
  OBVIOUS
<1>7. q = [r EXCEPT !.slot = slot, !.enq = Wrapped(r, enq + len)]
  <2>1. ~((r.size - 1) - Pool!RgCount(r) < Len(es))
    BY <1>1, <1>2, <1>3
  <2>2. q = [r EXCEPT !.slot = [i \in DOMAIN r.slot |-> Put(i)], !.enq = Pool!Masked(r, r.enq + Len(es))]
    BY <1>0, <2>1, Zenon DEF Pool!RgEnqueueMultiple
  <2>3. QED
    BY <1>4, <1>6, <2>2, Zenon
<1>8. q = [slot |-> slot, enq |-> Wrapped(r, enq + len), deq |-> r.deq, size |-> r.size]
  BY <1>7, RingFields
<1>9. q.slot = slot /\ q.enq = Wrapped(r, enq + len) /\ q.deq = deq /\ q.size = size
  BY <1>1, <1>8
<1>10. /\ slot = [i \in 0 .. size - 1 |-> slot[i]]
       /\ \A i \in 0 .. size - 1 : slot[i] = Put(i)
  <2>1. DOMAIN r.slot = 0 .. size - 1
    BY <1>1 DEF RingShape
  <2> HIDE DEF Put
  <2>2. QED
    BY <1>6, <2>1
<1> HIDE DEF Put, At
<1>11. q.size = r.size /\ q.deq = r.deq /\ q.enq = Wrapped(r, r.enq + len) /\ Count(r) + len < r.size
  BY <1>1, <1>2, <1>3, <1>9
<1>12. /\ q.enq \in 0 .. r.size - 1 /\ Count(q) = Count(r) + len
       /\ \A i \in 1 .. Count(r) + len : Slot(q, i) = Slot(r, i) /\ Slot(r, i) \in 0 .. r.size - 1
       /\ \A i \in 1 .. Count(r) :
            LET k == Slot(r, i)
            IN  (IF k < r.enq THEN k + r.size - r.enq + 1 ELSE k - r.enq + 1) > len
       /\ \A t \in 1 .. len :
            LET k == Slot(r, Count(r) + t)
            IN  (IF k < r.enq THEN k + r.size - r.enq + 1 ELSE k - r.enq + 1) = t
  BY <1>11, PlacesBehind
<1>13. RingShape(q)
  BY <1>1, <1>8, <1>9, <1>10, <1>12 DEF RingShape
<1>14. c \in Nat /\ len \in Nat
  BY <1>2, <1>3
<1>15. ASSUME NEW i \in 1 .. c PROVE Elem(q, i) = Elem(r, i)
  <2>1. i \in 1 .. c + len
    BY <1>14
  <2>2. PICK k \in 0 .. size - 1 : k = Slot(r, i) /\ k = Slot(q, i)
    BY <1>1, <1>2, <1>12, <2>1
  <2>3. At(k) > len /\ At(k) \in Int
    <3>1. (IF k < enq THEN k + size - enq + 1 ELSE k - enq + 1) > len
      BY <1>1, <1>2, <1>12, <2>2
    <3>2. At(k) = IF k < enq THEN k + size - enq + 1 ELSE k - enq + 1
      BY <1>5
    <3>3. QED
      BY <1>1, <3>1, <3>2
  <2>4. slot[k] = r.slot[k]
    BY <1>3, <1>10, <2>3 DEF Put
  <2>5. QED
    BY <1>9, <2>2, <2>4 DEF Elem
<1>16. ASSUME NEW t \in 1 .. len PROVE Elem(q, c + t) = es[t]
  <2>1. c + t \in 1 .. c + len
    BY <1>14
  <2>2. PICK k \in 0 .. size - 1 : k = Slot(r, c + t) /\ k = Slot(q, c + t)
    BY <1>1, <1>2, <1>12, <2>1
  <2>3. At(k) = t
    BY <1>1, <1>2, <1>5, <1>12, <2>2
  <2>4. slot[k] = es[t]
    BY <1>3, <1>10, <2>3 DEF Put
  <2>5. QED
    BY <1>9, <2>2, <2>4 DEF Elem
<1>17. QED
  BY <1>1, <1>2, <1>3, <1>9, <1>12, <1>13, <1>15, <1>16

(* The loop that fills the ring of a new pool.                             *)
LEMMA FilledIs ==
  ASSUME NEW n \in Nat, NEW nb \in Nat, nb < n, NEW r, r = Pool!RgFilled(n, nb)
  PROVE  RingShape(r) /\ r.size = n /\ Count(r) = nb /\ \A i \in 1 .. nb : Elem(r, i) = i
<1> DEFINE At(i) == [slot |-> [j \in 0 .. n - 1 |-> IF j < i THEN j + 1 ELSE NULL],
                     enq |-> i, deq |-> 0, size |-> n]
           Step(f) == [i \in 0 .. nb |-> IF i = 0 THEN Pool!RgAlloc(n) ELSE Pool!RgEnqueue(f[i - 1], i)]
           ring == CHOOSE f : f = Step(f)
           g == [i \in 0 .. nb |-> At(i)]
<1>1. At(0) = Pool!RgAlloc(n)
  BY DEF Pool!RgAlloc
<1>2. ASSUME NEW i \in 1 .. nb PROVE Pool!RgEnqueue(At(i - 1), i) = At(i)
  <2>1. PICK p, slot : p = At(i - 1) /\ slot = [p.slot EXCEPT ![i - 1] = i]
    OBVIOUS
  <2>2. /\ p.enq = i - 1 /\ p.deq = 0 /\ p.size = n
        /\ p.slot = [j \in 0 .. n - 1 |-> IF j < i - 1 THEN j + 1 ELSE NULL]
    BY <2>1
  <2>3. RingShape(p)
    <3>1. p.enq \in 0 .. n - 1 /\ p.deq \in 0 .. n - 1 /\ n \in Nat \ {0}
      BY <2>2
    <3>2. p = [slot |-> p.slot, enq |-> p.enq, deq |-> p.deq, size |-> p.size]
      BY <2>1
    <3>3. p.slot = [j \in 0 .. n - 1 |-> p.slot[j]]
      BY <2>2
    <3>4. QED
      BY <2>2, <3>1, <3>2, <3>3 DEF RingShape
  <2> HIDE DEF At
  <2>4. Pool!Masked(p, p.enq + 1) = i
    BY <2>2, ModSmall DEF Pool!Masked
  <2>5. Pool!RgEnqueue(p, i) = [p EXCEPT !.slot = slot, !.enq = i]
    <3>1. ~Pool!RgFull(p)
      BY <2>2, <2>4 DEF Pool!RgFull
    <3>2. slot = [p.slot EXCEPT ![p.enq] = i]
      BY <2>1, <2>2
    <3>3. QED
      BY <2>4, <3>1, <3>2, Zenon DEF Pool!RgEnqueue
  <2>6. Pool!RgEnqueue(p, i) = [slot |-> slot, enq |-> i, deq |-> 0, size |-> n]
    BY <2>2, <2>3, <2>5, RingFields, ZenonT(60)
  <2>7. slot = [j \in 0 .. n - 1 |-> IF j < i THEN j + 1 ELSE NULL]
    <3>1. \A j \in 0 .. n - 1 : j < i <=> (j = i - 1 \/ j < i - 1)
      OBVIOUS
    <3>2. slot = [j \in 0 .. n - 1 |-> IF j = i - 1 THEN i ELSE p.slot[j]]
      BY <2>1, <2>2
    <3>3. \A j \in 0 .. n - 1 : slot[j] = IF j < i THEN j + 1 ELSE NULL
      BY <2>2, <3>1, <3>2
    <3>4. QED
      BY <3>2, <3>3
  <2>8. QED
    BY <2>1, <2>6, <2>7 DEF At
<1> HIDE DEF At
<1>3. g = Step(g)
  <2>1. \A i \in 0 .. nb : g[i] = IF i = 0 THEN Pool!RgAlloc(n) ELSE Pool!RgEnqueue(g[i - 1], i)
    <3>1. ASSUME NEW i \in 1 .. nb PROVE g[i] = Pool!RgEnqueue(g[i - 1], i)
      <4>1. i - 1 \in 0 .. nb /\ i \in 0 .. nb
        OBVIOUS
      <4>2. QED
        BY <1>2, <4>1
    <3>2. g[0] = Pool!RgAlloc(n)
      BY <1>1
    <3>3. \A i \in 0 .. nb : i = 0 \/ i \in 1 .. nb
      OBVIOUS
    <3> HIDE DEF g
    <3>4. QED
      BY <3>1, <3>2, <3>3
  <2>2. g = [i \in 0 .. nb |-> g[i]]
    OBVIOUS
  <2> HIDE DEF g
  <2>3. QED
    BY <2>1, <2>2
<1>4. ring = Step(ring)
  <2> HIDE DEF Step
  <2>1. QED
    BY <1>3
<1>5. r = ring[nb]
  BY Zenon DEF Pool!RgFilled
<1> HIDE DEF ring, g
<1>6. \A i \in 0 .. nb : ring[i] = IF i = 0 THEN Pool!RgAlloc(n) ELSE Pool!RgEnqueue(ring[i - 1], i)
  BY <1>4
<1> DEFINE T == {i \in 0 .. nb : ring[i] # At(i)}
<1>7. T = {}
  <2>1. SUFFICES ASSUME T # {} PROVE FALSE
    OBVIOUS
  <2>2. PICK i \in T : \A j \in T : i <= j
    <3>1. T \subseteq Nat
      OBVIOUS
    <3>2. QED
      BY <2>1, <3>1, NatLeast
  <2>3. i \in 0 .. nb /\ ring[i] # At(i)
    BY <2>2
  <2>4. i # 0
    BY <1>1, <1>6, <2>3
  <2>5. i \in 1 .. nb /\ i - 1 \in 0 .. nb /\ i - 1 \notin T
    BY <2>2, <2>3, <2>4
  <2>6. ring[i - 1] = At(i - 1)
    BY <2>5
  <2>7. QED
    BY <1>2, <1>6, <2>3, <2>4, <2>5, <2>6
<1>8. r = At(nb)
  <2>1. nb \in 0 .. nb
    OBVIOUS
  <2>2. QED
    BY <1>5, <1>7, <2>1
<1>9. /\ r.enq = nb /\ r.deq = 0 /\ r.size = n
      /\ r.slot = [j \in 0 .. n - 1 |-> IF j < nb THEN j + 1 ELSE NULL]
      /\ r = [slot |-> r.slot, enq |-> r.enq, deq |-> r.deq, size |-> r.size]
  BY <1>8 DEF At
<1>10. RingShape(r)
  <2>1. r.enq \in 0 .. n - 1 /\ r.deq \in 0 .. n - 1 /\ n \in Nat \ {0}
    BY <1>9
  <2>2. r.slot = [j \in 0 .. n - 1 |-> r.slot[j]]
    BY <1>9
  <2>3. QED
    BY <1>9, <2>1, <2>2 DEF RingShape
<1>11. Count(r) = nb
  BY <1>9 DEF Count
<1>12. \A i \in 1 .. nb : Slot(r, i) = i - 1 /\ i - 1 \in 0 .. n - 1 /\ i - 1 < nb /\ i - 1 + 1 = i
  BY <1>9 DEF Slot, Wrapped
<1>13. \A i \in 1 .. nb : Elem(r, i) = i
  BY <1>9, <1>12 DEF Elem
<1>14. QED
  BY <1>9, <1>10, <1>11, <1>13

(* The ring holds each of these once, and nothing else.                    *)
Holds(r, S) == /\ \A i \in 1 .. Count(r) : Elem(r, i) \in S
               /\ \A i, j \in 1 .. Count(r) : Elem(r, i) = Elem(r, j) => i = j
               /\ \A x \in S : \E i \in 1 .. Count(r) : Elem(r, i) = x
RingInv ==
  IF pool = Pool!NoPool THEN held = {}
  ELSE /\ RingShape(pool.ring) /\ pool.ring.size > pool.ask.nb
       /\ held \subseteq 1 .. pool.ask.nb
       /\ Holds(pool.ring, (1 .. pool.ask.nb) \ held)

(* As many are in the ring as are not with the user.                       *)
LEMMA HoldsCount ==
  ASSUME NEW r, RingShape(r), NEW S, Holds(r, S)
  PROVE  IsFiniteSet(S) /\ Cardinality(S) = Count(r) /\ Count(r) \in Nat
<1> DEFINE f == [i \in 1 .. Count(r) |-> Elem(r, i)]
<1>1. Count(r) \in Nat
  BY RingIs DEF RingShape
<1>2. f \in Bijection(1 .. Count(r), S)
  <2>1. f \in [1 .. Count(r) -> S] /\ \A i \in 1 .. Count(r) : f[i] = Elem(r, i)
    BY DEF Holds
  <2> HIDE DEF f
  <2>2. IsInjective(f)
    BY <2>1 DEF Holds, IsInjective
  <2>3. \A x \in S : \E i \in 1 .. Count(r) : f[i] = x
    BY <2>1 DEF Holds
  <2>4. QED
    BY <2>1, <2>2, <2>3 DEF Bijection, Injection, Surjection
<1>3. ExistsBijection(1 .. Count(r), S)
  BY <1>2 DEF ExistsBijection
<1>4. IsFiniteSet(1 .. Count(r)) /\ Cardinality(1 .. Count(r)) = Count(r)
  <2>1. PICK c \in Nat : c = Count(r)
    BY <1>1
  <2>2. 1 \in Int /\ c \in Int /\ (1 > c => c = 0) /\ c - 1 + 1 = c
    OBVIOUS
  <2>3. QED
    BY <2>1, <2>2, FS_Interval
<1>5. QED
  BY <1>1, <1>3, <1>4, FS_Bijection

LEMMA HeldCount ==
  ASSUME StructuresAssumption, PoolInv, RingInv, pool # Pool!NoPool
  PROVE  /\ pool.ask.nb \in Nat /\ IsFiniteSet(held) /\ Cardinality(held) \in Nat
         /\ Count(pool.ring) + Cardinality(held) = pool.ask.nb
         /\ Count(pool.ring) \in Nat
<1>1. PICK nb \in Nat : nb = pool.ask.nb
  BY DEF PoolInv, IsPool, StructuresAssumption
<1>2. IsFiniteSet(1 .. nb) /\ Cardinality(1 .. nb) = nb
  <2>1. 1 \in Int /\ nb \in Int /\ (1 > nb => nb = 0) /\ nb - 1 + 1 = nb
    OBVIOUS
  <2>2. QED
    BY <2>1, FS_Interval
<1>3. held \subseteq 1 .. nb /\ (1 .. nb) \cap held = held
  BY <1>1 DEF RingInv
<1>4. IsFiniteSet(held) /\ Cardinality(held) \in Nat
  BY <1>2, <1>3, CountSubset
<1>5. Cardinality((1 .. nb) \ held) = nb - Cardinality(held)
  BY <1>2, <1>3, FS_Difference
<1>6. Count(pool.ring) \in Nat /\ Cardinality((1 .. nb) \ held) = Count(pool.ring)
  BY <1>1, HoldsCount DEF RingInv
<1>7. QED
  BY <1>1, <1>4, <1>5, <1>6

(* A new ring in the pool.                                                 *)
LEMMA PoolRing ==
  ASSUME PoolInv, pool # Pool!NoPool, NEW q, pool' = [pool EXCEPT !.ring = q]
  PROVE  pool' # Pool!NoPool /\ pool'.ring = q /\ pool'.ask = pool.ask
<1>1. pool = [ask |-> pool.ask, layout |-> pool.layout, ring |-> pool.ring]
  BY DEF PoolInv, IsPool
<1>2. pool' = [ask |-> pool.ask, layout |-> pool.layout, ring |-> q]
  BY <1>1
<1>3. DOMAIN [ask |-> pool.ask, layout |-> pool.layout, ring |-> q] # DOMAIN Pool!NoPool
  <2>1. "ask" \in DOMAIN [ask |-> pool.ask, layout |-> pool.layout, ring |-> q]
    OBVIOUS
  <2>2. DOMAIN Pool!NoPool = {}
    BY DEF Pool!NoPool
  <2>3. QED
    BY <2>1, <2>2
<1>4. QED
  BY <1>2, <1>3

LEMMA RingAllocStep ==
  ASSUME StructuresAssumption, RingInv, NEW ask \in Ask, Pool!Alloc(ask)
  PROVE  RingInv'
<1>1. PICK nb \in Nat \ {0} : nb = ask.nb
  BY DEF StructuresAssumption
<1>2. PICK n \in Nat : n = Pool!RingSize[nb] /\ nb < n
  BY RoomForAll
<1>3. PICK r : r = Pool!RgFilled(n, nb)
  OBVIOUS
<1>4. RingShape(r) /\ r.size = n /\ Count(r) = nb /\ \A i \in 1 .. nb : Elem(r, i) = i
  BY <1>2, <1>3, FilledIs
<1>5. Holds(r, 1 .. nb)
  BY <1>4 DEF Holds
<1>6. PICK l : pool' = [ask |-> ask, layout |-> l, ring |-> r]
  BY <1>1, <1>2, <1>3 DEF Pool!Alloc
<1>7. pool'.ring = r /\ pool'.ask = ask
  BY <1>6
<1>8. held' = {}
  BY DEF Pool!Alloc, RingInv
<1>9. (1 .. nb) \ {} = 1 .. nb
  OBVIOUS
<1>10. QED
  BY <1>1, <1>2, <1>4, <1>5, <1>7, <1>8, <1>9, Zenon DEF RingInv

LEMMA RingPickStep ==
  ASSUME StructuresAssumption, PoolInv, RingInv, NEW n \in Pool!Obj, Pool!PickMultiple(n)
  PROVE  RingInv'
<1> DEFINE r == pool.ring
           nb == pool.ask.nb
           picked == Pool!ToSet(Pool!RgHead(r, n))
<1>1. pool # Pool!NoPool /\ n <= Pool!RgCount(r) /\ held' = held \cup picked
  BY DEF Pool!PickMultiple
<1>2. PICK q : q = Pool!RgDequeue(r, n)
  OBVIOUS
<1>3. pool' = [pool EXCEPT !.ring = q]
  BY <1>2 DEF Pool!PickMultiple
<1>4. RingShape(r) /\ r.size > nb /\ held \subseteq 1 .. nb /\ Holds(r, (1 .. nb) \ held)
  BY <1>1 DEF RingInv
<1>5. nb \in Nat
  BY <1>1 DEF PoolInv, IsPool, StructuresAssumption
<1> HIDE DEF r, nb
<1>6. PICK c \in Nat : c = Count(r) /\ c \in 0 .. r.size - 1 /\ r.size \in Nat
  BY <1>4, RingIs, SMTT(30) DEF RingShape
<1>7. n \in Nat /\ n <= c
  BY <1>1, <1>4, <1>5, <1>6, RingIs DEF Pool!Obj, nb
<1>8. picked = {Elem(r, i) : i \in 1 .. n}
  <2>1. Pool!RgHead(r, n) = [i \in 1 .. n |-> Elem(r, i)]
    <3>1. n \in 0 .. r.size
      BY <1>6, <1>7
    <3>2. QED
      BY <1>4, <3>1, RingIs DEF Elem
  <2>2. QED
    BY <2>1 DEF Pool!ToSet
<1> HIDE DEF picked
<1>9. /\ RingShape(q) /\ q.size = r.size /\ Count(q) = c - n
      /\ \A i \in 1 .. c - n : Elem(q, i) = Elem(r, i + n)
  <2>1. n \in 0 .. Count(r)
    BY <1>6, <1>7
  <2>2. QED
    BY <1>2, <1>4, <1>6, <2>1, DequeueIs
<1>10. pool' # Pool!NoPool /\ pool'.ring = q /\ pool'.ask = pool.ask
  BY <1>1, <1>3, PoolRing
<1>11. held' \subseteq 1 .. nb
  <2>1. \A i \in 1 .. n : i \in 1 .. c
    BY <1>6, <1>7
  <2>2. QED
    <3>1. \A i \in 1 .. n : Elem(r, i) \in 1 .. nb
      BY <1>4, <1>6, <2>1 DEF Holds
    <3>2. QED
      BY <1>1, <1>4, <1>8, <3>1
<1>12. Holds(q, (1 .. nb) \ held')
  <2>1. \A i \in 1 .. c - n : i + n \in 1 .. c /\ i + n \notin 1 .. n
    BY <1>6, <1>7
  <2>2. \A i, j \in 1 .. c : Elem(r, i) = Elem(r, j) => i = j
    BY <1>4, <1>6 DEF Holds
  <2>3. ASSUME NEW i \in 1 .. c - n PROVE Elem(q, i) \in (1 .. nb) \ held'
    <3>1. PICK k \in 1 .. c : k = i + n /\ k \notin 1 .. n /\ Elem(q, i) = Elem(r, k)
      BY <1>9, <2>1
    <3>2. Elem(r, k) \in (1 .. nb) \ held
      BY <1>4, <1>6 DEF Holds
    <3>3. \A j \in 1 .. n : j \in 1 .. c /\ j # k
      BY <1>6, <1>7, <3>1
    <3>4. Elem(r, k) \notin picked
      BY <1>8, <2>2, <3>3
    <3>5. QED
      BY <1>1, <3>1, <3>2, <3>4
  <2>4. ASSUME NEW i \in 1 .. c - n, NEW j \in 1 .. c - n, Elem(q, i) = Elem(q, j) PROVE i = j
    <3>1. i + n = j + n
      BY <1>9, <2>1, <2>2, <2>4
    <3>2. i \in Int /\ j \in Int
      OBVIOUS
    <3>3. QED
      BY <1>7, <3>1, <3>2
  <2>5. ASSUME NEW x \in (1 .. nb) \ held' PROVE \E i \in 1 .. c - n : Elem(q, i) = x
    <3>1. x \in (1 .. nb) \ held /\ x \notin picked
      BY <1>1, <2>5
    <3>2. PICK k \in 1 .. c : Elem(r, k) = x
      BY <1>4, <1>6, <3>1 DEF Holds
    <3>3. k \notin 1 .. n
      BY <1>8, <3>1, <3>2
    <3>4. k - n \in 1 .. c - n /\ (k - n) + n = k
      BY <1>6, <1>7, <3>3
    <3>5. QED
      BY <1>9, <3>2, <3>4
  <2>6. QED
    BY <1>9, <2>3, <2>4, <2>5 DEF Holds
<1>13. QED
  BY <1>1, <1>4, <1>9, <1>10, <1>11, <1>12, Zenon DEF RingInv, nb

LEMMA RingPutStep ==
  ASSUME StructuresAssumption, PoolInv, RingInv, pool # Pool!NoPool, NEW o, Pool!Put(o)
  PROVE  RingInv'
<1> DEFINE r == pool.ring
           nb == pool.ask.nb
<1>1. o \in held /\ held' = held \ {o}
  BY DEF Pool!Put
<1>2. PICK q : q = Pool!RgEnqueue(r, o) /\ pool' = [pool EXCEPT !.ring = q]
  BY DEF Pool!Put
<1>3. RingShape(r) /\ r.size > nb /\ held \subseteq 1 .. nb /\ Holds(r, (1 .. nb) \ held)
  BY DEF RingInv
<1>4. PICK c \in Nat, h \in Nat : c = Count(r) /\ h = Cardinality(held) /\ c + h = nb /\ nb \in Nat
  BY HeldCount
<1>5. h # 0
  BY <1>1, <1>4, HeldCount, FS_EmptySet
<1> HIDE DEF r, nb
<1>6. c + 1 < r.size
  BY <1>3, <1>4, <1>5, SMTT(30) DEF RingShape
<1>7. /\ RingShape(q) /\ q.size = r.size /\ Count(q) = c + 1
      /\ \A i \in 1 .. c : Elem(q, i) = Elem(r, i)
      /\ Elem(q, c + 1) = o
  BY <1>2, <1>3, <1>4, <1>6, EnqueueIs
<1>8. pool' # Pool!NoPool /\ pool'.ring = q /\ pool'.ask = pool.ask
  BY <1>2, PoolRing
<1>9. Holds(q, (1 .. nb) \ held')
  <2>1. \A i \in 1 .. c + 1 : i \in 1 .. c \/ i = c + 1
    BY <1>4
  <2>2. \A i \in 1 .. c : i # c + 1 /\ i \in 1 .. c + 1
    BY <1>4
  <2>3. c + 1 \in 1 .. c + 1
    BY <1>4
  <2>4. \A i \in 1 .. c : Elem(r, i) \in (1 .. nb) \ held
    BY <1>3, <1>4 DEF Holds
  <2>5. \A i, j \in 1 .. c : Elem(r, i) = Elem(r, j) => i = j
    BY <1>3, <1>4 DEF Holds
  <2>6. \A x \in (1 .. nb) \ held : \E i \in 1 .. c : Elem(r, i) = x
    BY <1>3, <1>4 DEF Holds
  <2>7. (1 .. nb) \ held' = ((1 .. nb) \ held) \cup {o}
    BY <1>1, <1>3
  <2>8. \A i \in 1 .. c + 1 : Elem(q, i) \in (1 .. nb) \ held'
    BY <1>7, <2>1, <2>4, <2>7
  <2>9. \A i, j \in 1 .. c + 1 : Elem(q, i) = Elem(q, j) => i = j
    BY <1>1, <1>7, <2>1, <2>4, <2>5
  <2>10. \A x \in (1 .. nb) \ held' : \E i \in 1 .. c + 1 : Elem(q, i) = x
    BY <1>7, <2>2, <2>3, <2>6, <2>7
  <2>11. QED
    BY <1>7, <2>8, <2>9, <2>10 DEF Holds
<1>10. QED
  <2>1. held' \subseteq 1 .. nb
    BY <1>1, <1>3
  <2>2. QED
    BY <1>3, <1>7, <1>8, <1>9, <2>1, Zenon DEF RingInv, nb

(* A sequence of all that the user has, each once.                         *)
LEMMA AllOf ==
  ASSUME NEW S, IsFiniteSet(S), NEW s \in Pool!SetToSeqs(S)
  PROVE  /\ s \in Seq(S) /\ Len(s) = Cardinality(S) /\ Cardinality(S) \in Nat /\ Pool!ToSet(s) = S
         /\ \A i, j \in 1 .. Cardinality(S) : s[i] = s[j] => i = j
<1>1. PICK n \in Nat : n = Cardinality(S)
  BY FS_CardinalityType
<1>2. s \in [1 .. n -> S] /\ \A i, j \in 1 .. n : i # j => s[i] # s[j]
  <2> DEFINE D == 1 .. Cardinality(S)
  <2>1. s \in {f \in [D -> S] : \A i, j \in D : i # j => f[i] # f[j]}
    <3>1. Pool!Cardinality(S) = Cardinality(S)
      BY Zenon DEF Pool!Cardinality, Cardinality
    <3>2. QED
      BY <3>1, Zenon DEF Pool!SetToSeqs
  <2> HIDE DEF D
  <2>2. s \in [D -> S] /\ \A i, j \in D : i # j => s[i] # s[j]
    BY <2>1, Zenon
  <2>3. QED
    BY <1>1, <2>2, Zenon DEF D
<1>3. IsFiniteSet(1 .. n) /\ Cardinality(1 .. n) = n
  <2>1. 1 \in Int /\ n \in Int /\ (1 > n => n = 0) /\ n - 1 + 1 = n
    OBVIOUS
  <2>2. QED
    BY <2>1, FS_Interval
<1>4. s \in Injection(1 .. n, S)
  BY <1>2 DEF Injection, IsInjective
<1>5. s \in Surjection(1 .. n, S)
  BY <1>1, <1>3, <1>4, FS_Injection
<1>6. DOMAIN s = 1 .. n
  BY <1>2
<1>7. Pool!ToSet(s) = S
  BY <1>2, <1>5, <1>6 DEF Pool!ToSet, Surjection
<1>8. s \in Seq(S) /\ Len(s) = n
  BY <1>2
<1>9. QED
  BY <1>1, <1>2, <1>7, <1>8

LEMMA RingPutMultipleStep ==
  ASSUME StructuresAssumption, PoolInv, RingInv, pool # Pool!NoPool,
         NEW os \in Pool!SetToSeqs(held), Pool!PutMultiple(os)
  PROVE  RingInv'
<1> DEFINE r == pool.ring
           nb == pool.ask.nb
<1>1. PICK q : q = Pool!RgEnqueueMultiple(r, os) /\ pool' = [pool EXCEPT !.ring = q]
  BY DEF Pool!PutMultiple
<1>2. RingShape(r) /\ r.size > nb /\ held \subseteq 1 .. nb /\ Holds(r, (1 .. nb) \ held)
  BY DEF RingInv
<1>3. PICK c \in Nat, h \in Nat : c = Count(r) /\ h = Cardinality(held) /\ c + h = nb /\ nb \in Nat
  BY HeldCount
<1>4. /\ os \in Seq(held) /\ Len(os) = h /\ Pool!ToSet(os) = held
      /\ \A i, j \in 1 .. h : os[i] = os[j] => i = j
  BY <1>3, HeldCount, AllOf
<1>5. held' = {}
  BY <1>4 DEF Pool!PutMultiple
<1>6. pool' # Pool!NoPool /\ pool'.ring = q /\ pool'.ask = pool.ask
  BY <1>1, PoolRing
<1> HIDE DEF r, nb
<1>7. Count(r) + Len(os) < r.size
  <2>1. c + h < r.size
    BY <1>2, <1>3
  <2>2. QED
    BY <1>3, <1>4, <2>1
<1>8. /\ RingShape(q) /\ q.size = r.size /\ Count(q) = c + h
      /\ \A i \in 1 .. c : Elem(q, i) = Elem(r, i)
      /\ \A t \in 1 .. h : Elem(q, c + t) = os[t]
  <2>1. /\ RingShape(q) /\ q.size = r.size /\ Count(q) = Count(r) + Len(os)
        /\ \A i \in 1 .. Count(r) : Elem(q, i) = Elem(r, i)
        /\ \A t \in 1 .. Len(os) : Elem(q, Count(r) + t) = os[t]
    BY <1>1, <1>2, <1>4, <1>7, EnqueueMultipleIs
  <2>2. QED
    BY <1>3, <1>4, <2>1, Zenon
<1>9. (\A t \in 1 .. h : os[t] \in held) /\ \A x \in held : \E t \in 1 .. h : os[t] = x
  <2>1. DOMAIN os = 1 .. h
    BY <1>4
  <2>2. QED
    BY <1>4, <2>1 DEF Pool!ToSet
<1>10. Holds(q, 1 .. nb)
  <2> DEFINE S == (1 .. nb) \ held
  <2>1. PICK g : \A t \in 1 .. h : g[t] = os[t]
    OBVIOUS
  <2>2. \A i \in 1 .. c + h : i \in 1 .. c \/ (i - c \in 1 .. h /\ c + (i - c) = i)
    BY <1>3
  <2>3. (\A i \in 1 .. c : i \in 1 .. c + h) /\ (\A t \in 1 .. h : c + t \in 1 .. c + h)
    BY <1>3
  <2>4. \A i \in 1 .. c : Elem(r, i) \in S
    BY <1>2, <1>3 DEF Holds
  <2>5. \A i, j \in 1 .. c : Elem(r, i) = Elem(r, j) => i = j
    BY <1>2, <1>3 DEF Holds
  <2>6. \A x \in S : \E i \in 1 .. c : Elem(r, i) = x
    BY <1>2, <1>3 DEF Holds
  <2> HIDE DEF S
  <2>7. \A i \in 1 .. c + h : i \notin 1 .. c => Elem(q, i) = os[i - c] /\ os[i - c] \in held
    BY <1>8, <1>9, <2>2
  <2>8. \A x : x \in S => x \in 1 .. nb /\ x \notin held
    BY DEF S
  <2>9. \A i \in 1 .. c + h : Elem(q, i) \in 1 .. nb
    BY <1>2, <1>8, <2>4, <2>7, <2>8
  <2>10. ASSUME NEW i \in 1 .. c + h, NEW j \in 1 .. c + h, Elem(q, i) = Elem(q, j) PROVE i = j
    <3>1. CASE i \in 1 .. c /\ j \in 1 .. c
      BY <1>8, <2>5, <2>10, <3>1
    <3>2. CASE i \notin 1 .. c /\ j \notin 1 .. c
      <4>1. os[i - c] = os[j - c]
        BY <2>7, <2>10, <3>2
      <4>2. i - c = j - c
        BY <1>4, <2>2, <3>2, <4>1
      <4>3. i \in Int /\ j \in Int /\ c \in Int
        BY <1>3
      <4>4. QED
        BY <4>2, <4>3
    <3>3. CASE ~(i \in 1 .. c <=> j \in 1 .. c)
      BY <1>8, <2>4, <2>7, <2>8, <2>10, <3>3
    <3>4. QED
      BY <3>1, <3>2, <3>3
  <2>11. ASSUME NEW x \in 1 .. nb PROVE \E i \in 1 .. c + h : Elem(q, i) = x
    <3>1. CASE x \in held
      BY <1>8, <1>9, <2>3, <3>1
    <3>2. CASE x \in S
      BY <1>8, <2>3, <2>6, <3>2
    <3>3. QED
      BY <3>1, <3>2 DEF S
  <2>12. QED
    BY <1>8, <2>9, <2>10, <2>11 DEF Holds
<1>11. QED
  <2>1. (1 .. nb) \ {} = 1 .. nb /\ {} \subseteq 1 .. nb
    OBVIOUS
  <2>2. QED
    BY <1>2, <1>5, <1>6, <1>8, <1>10, <2>1, Zenon DEF RingInv, nb

LEMMA RingFreeStep ==
  ASSUME StructuresAssumption, PoolInv, RingInv, Pool!Free
  PROVE  RingInv'
<1>1. pool # Pool!NoPool /\ Pool!RgCount(pool.ring) = pool.ask.nb /\ pool' = Pool!NoPool /\ held' = held
  BY DEF Pool!Free
<1>2. Count(pool.ring) = pool.ask.nb
  BY <1>1, RingIs DEF RingInv
<1>3. PICK c \in Nat, h \in Nat : c + h = c /\ h = Cardinality(held) /\ IsFiniteSet(held)
  BY <1>1, <1>2, HeldCount
<1>4. held = {}
  <2>1. h = 0
    BY <1>3
  <2>2. QED
    BY <1>3, <2>1, FS_EmptySet
<1>5. QED
  BY <1>1, <1>4 DEF RingInv

(* The user's moves of the ends of the data touch neither.                 *)
LEMMA RingStep ==
  ASSUME StructuresAssumption, PoolInv, RingInv, Pool!Next
  PROVE  RingInv'
<1>1. CASE \E ask \in Ask : Pool!Alloc(ask)
  BY <1>1, RingAllocStep
<1>2. ASSUME NEW n \in Pool!Obj, Pool!PickMultiple(n) PROVE RingInv'
  BY <1>2, RingPickStep
<1>3. ASSUME pool # Pool!NoPool, NEW os \in Pool!SetToSeqs(held), Pool!PutMultiple(os) PROVE RingInv'
  BY <1>3, RingPutMultipleStep
<1>4. ASSUME pool # Pool!NoPool, NEW o \in held, Pool!Put(o) PROVE RingInv'
  BY <1>4, RingPutStep
<1>5. ASSUME NEW o, NEW n, \/ Pool!PrependBytes(o, n) \/ Pool!AppendBytes(o, n)
                           \/ Pool!ShrinkHead(o, n) \/ Pool!ShrinkTail(o, n)
      PROVE  RingInv'
  <2>1. pool' = pool /\ held' = held
    BY <1>5 DEF Pool!PrependBytes, Pool!AppendBytes, Pool!ShrinkHead, Pool!ShrinkTail
  <2>2. QED
    BY <2>1 DEF RingInv
<1>6. CASE Pool!Free
  BY <1>6, RingFreeStep
<1>7. QED
  BY <1>1, <1>2, <1>3, <1>4, <1>5, <1>6, Zenon DEF Pool!Next

LEMMA PoolsExact ==
  ASSUME StructuresAssumption, PoolInv, RingInv
  PROVE  PoolExact
<1>1. CASE pool = Pool!NoPool
  BY <1>1 DEF RingInv, PoolExact, Pool!PoolExact
<1>2. CASE pool # Pool!NoPool
  <2> DEFINE r == pool.ring
             S == (1 .. pool.ask.nb) \ held
             s == Pool!RgSeq(r)
  <2>1. RingShape(r) /\ Holds(r, S)
    BY <1>2 DEF RingInv
  <2> HIDE DEF r, S
  <2>2. s = [i \in 1 .. Count(r) |-> Elem(r, i)]
    <3>1. Count(r) \in 0 .. r.size
      BY <2>1, RingIs, SMTT(30) DEF RingShape
    <3>2. QED
      BY <2>1, <3>1, RingIs DEF Pool!RgSeq, Elem
  <2> HIDE DEF s
  <2>3. DOMAIN s = 1 .. Count(r) /\ \A i \in 1 .. Count(r) : s[i] = Elem(r, i)
    BY <2>2
  <2>4. Pool!IsInjective(s)
    BY <2>1, <2>3 DEF Pool!IsInjective, Holds
  <2>5. Pool!ToSet(s) = S
    BY <2>1, <2>3 DEF Pool!ToSet, Holds
  <2>6. QED
    BY <1>2, <2>4, <2>5, Zenon DEF PoolExact, Pool!PoolExact, Pool!Obj, r, s, S
<1>3. QED
  BY <1>1, <1>2

-----------------------------------------------------------------------------
(* The ranges of an ordered list that keep apart.                          *)
Ends(rs, j) == j < Len(rs) => rs[j + 1].start > rs[j].end
Ordered(rs, n) ==
  /\ n \in Nat \ {0} /\ Len(rs) = n /\ DOMAIN rs = 1 .. n
  /\ \A k \in 1 .. n : /\ rs[k].start \in Nat /\ rs[k].end \in Nat
                       /\ rs[k].start < rs[k].end /\ rs[k].end <= AreaEnd
  /\ \A i, j \in 1 .. n : i < j => rs[i].end <= rs[j].start
  /\ rs[1].start = 0 /\ rs[1].end = 2

(* In such a list a run goes to where the next range leaves room.          *)
LEMMA RunIs ==
  ASSUME NEW rs, NEW n, Ordered(rs, n), NEW i \in 1 .. n
  PROVE  LET r == Alloc!RunEnd(rs, i)
         IN  /\ r \in i .. n /\ Ends(rs, r) /\ Alloc!FreeStart(rs, i) = rs[r].end
             /\ \A j \in i .. n : Ends(rs, j) => r <= j
<1> DEFINE J == {j \in i .. n : Ends(rs, j)}
           Run(j) == /\ \A k \in i .. j - 1 : rs[k + 1].start <= rs[k].end
                     /\ j < Len(rs) => rs[j + 1].start > rs[j].end
<1>1. n \in Nat \ {0} /\ Len(rs) = n /\ \A k \in 1 .. n : rs[k].start \in Nat /\ rs[k].end \in Nat
  BY DEF Ordered
<1>2. J \subseteq Nat /\ n \in J
  BY <1>1 DEF Ends
<1>3. PICK r \in J : \A k \in J : r <= k
  BY <1>2, NatLeast
<1>4. r \in i .. n /\ Run(r)
  <2>1. ASSUME NEW k \in i .. r - 1 PROVE rs[k + 1].start <= rs[k].end
    <3>1. k \in i .. n /\ ~(r <= k) /\ k \in 1 .. n
      BY <1>1, <1>3
    <3>2. ~Ends(rs, k)
      BY <1>3, <3>1
    <3>3. k < n /\ ~(rs[k + 1].start > rs[k].end)
      BY <1>1, <3>2 DEF Ends
    <3>4. k + 1 \in 1 .. n
      BY <1>1, <3>1, <3>3
    <3>5. QED
      BY <1>1, <3>1, <3>3, <3>4
  <2>2. QED
    BY <1>3, <2>1 DEF Ends
<1>5. ASSUME NEW x \in i .. n, Run(x) PROVE x = r
  <2>1. x \in J /\ x \in 1 .. n /\ r \in 1 .. n
    BY <1>1, <1>3, <1>5 DEF Ends
  <2>2. r <= x
    BY <1>3, <2>1
  <2>3. CASE r < x
    <3>1. r \in i .. x - 1 /\ r + 1 \in 1 .. n
      BY <1>1, <1>3, <1>5, <2>1, <2>3
    <3>2. rs[r + 1].start <= rs[r].end
      BY <1>5, <3>1
    <3>3. rs[r + 1].start > rs[r].end
      BY <1>1, <1>4, <2>1, <2>3
    <3>4. QED
      BY <1>1, <2>1, <3>1, <3>2, <3>3
  <2>4. QED
    BY <2>1, <2>2, <2>3
<1>6. Alloc!RunEnd(rs, i) = r
  <2>1. Alloc!RunEnd(rs, i) = CHOOSE x \in i .. n : Run(x)
    BY <1>1 DEF Alloc!RunEnd
  <2> HIDE DEF Run
  <2>2. QED
    BY <1>4, <1>5, <2>1
<1>7. \A k \in i .. r : rs[k].end <= rs[r].end
  <2> TAKE k \in i .. r
  <2>1. k \in 1 .. n /\ r \in 1 .. n /\ (k < r \/ k = r)
    BY <1>1, <1>4
  <2>2. k < r => rs[k].end <= rs[r].start /\ rs[r].start < rs[r].end
    BY <2>1 DEF Ordered
  <2>3. QED
    BY <1>1, <2>1, <2>2
<1>8. Alloc!FreeStart(rs, i) = rs[r].end
  <2> DEFINE E == {rs[k].end : k \in i .. r}
             Top(e) == \A k \in i .. r : rs[k].end <= e
  <2>1. Alloc!FreeStart(rs, i) = CHOOSE e \in E : Top(e)
    BY <1>6 DEF Alloc!FreeStart
  <2>2. r \in i .. r /\ \A k \in i .. r : k \in 1 .. n
    BY <1>1, <1>4
  <2>3. rs[r].end \in E /\ Top(rs[r].end) /\ rs[r].end \in Nat
    BY <1>1, <1>7, <2>2
  <2>4. ASSUME NEW e \in E, Top(e) PROVE e = rs[r].end
    <3>1. e \in Nat /\ e <= rs[r].end
      BY <1>1, <1>7, <2>2
    <3>2. rs[r].end <= e
      BY <2>2, <2>4
    <3>3. QED
      BY <2>3, <3>1, <3>2
  <2> HIDE DEF E, Top
  <2>5. QED
    BY <2>1, <2>3, <2>4
<1>9. QED
  BY <1>3, <1>4, <1>6, <1>8

(* Every run is reached from the first one.                                *)
LEMMA RunReached ==
  ASSUME NEW rs, NEW n, Ordered(rs, n), NEW k \in 1 .. n, Ends(rs, k)
  PROVE  \E i \in Alloc!Runs(rs) : i \in 1 .. n /\ Alloc!RunEnd(rs, i) = k
<1>1. n \in Nat \ {0} /\ DOMAIN rs = 1 .. n
  BY DEF Ordered
<1> DEFINE T == {k - i : i \in {j \in Alloc!Runs(rs) : j <= k}}
<1>2. \A i \in Alloc!Runs(rs) : i \in 1 .. n
  BY <1>1 DEF Alloc!Runs
<1>3. T \subseteq Nat
  BY <1>2
<1>4. T # {}
  <2>1. 1 \in Alloc!Runs(rs) /\ 1 <= k
    BY <1>1 DEF Alloc!Runs
  <2>2. QED
    BY <2>1
<1>5. PICK d \in T : \A t \in T : d <= t
  BY <1>3, <1>4, NatLeast
<1>6. PICK i \in Alloc!Runs(rs) : i <= k /\ d = k - i
  BY <1>5
<1>7. \A j \in Alloc!Runs(rs) : j <= k => j <= i
  <2> TAKE j \in Alloc!Runs(rs)
  <2>1. j <= k => k - i <= k - j
    BY <1>5, <1>6
  <2>2. i \in Int /\ j \in Int /\ k \in Int
    BY <1>2
  <2>3. QED
    BY <2>1, <2>2
<1>8. PICK r \in i .. n : r = Alloc!RunEnd(rs, i) /\ \A j \in i .. n : Ends(rs, j) => r <= j
  BY <1>2, RunIs
<1>9. r <= k
  <2>1. k \in i .. n
    BY <1>2, <1>6
  <2>2. QED
    BY <1>8, <2>1
<1>10. ~(r < k)
  <2>1. SUFFICES ASSUME r < k PROVE FALSE
    OBVIOUS
  <2>2. r + 1 \in 1 .. n /\ i \in 1 .. r /\ r + 1 - 1 = r /\ r + 1 <= k
    BY <1>1, <1>2, <1>6, <1>8, <2>1
  <2>3. i \in 1 .. (r + 1) - 1 /\ Alloc!RunEnd(rs, i) = (r + 1) - 1
    BY <1>8, <2>2
  <2>4. r + 1 \in Alloc!Runs(rs)
    BY <1>1, <2>2, <2>3 DEF Alloc!Runs
  <2>5. r + 1 <= i
    BY <1>7, <2>2, <2>4
  <2>6. QED
    BY <1>2, <1>8, <2>5
<1>11. QED
  BY <1>2, <1>8, <1>9, <1>10

(* The room behind a range, and what the search makes of it.               *)
Gap(rs, n, r) == (IF r < n THEN rs[r + 1].start ELSE AreaEnd) - rs[r].end
Roomy(rs, n, len) == {r \in 1 .. n : Ends(rs, r) /\ Gap(rs, n, r) >= len}

LEMMA FoundIs ==
  ASSUME AreaEnd \in Nat, NEW rs, NEW n, Ordered(rs, n), NEW len \in Nat \ {0}, NEW i \in 1 .. n,
         NEW r, r = Alloc!RunEnd(rs, i)
  PROVE  /\ Alloc!Fits(rs, i, AreaEnd, len) /\ ~(Alloc!RunEnd(rs, i) = Len(rs) /\ Alloc!FreeStart(rs, i) = AreaEnd)
            <=> r \in Roomy(rs, n, len)
         /\ r \in i .. n /\ Alloc!FreeStart(rs, i) = rs[r].end
<1>1. r \in i .. n /\ r \in 1 .. n /\ Ends(rs, r) /\ Alloc!FreeStart(rs, i) = rs[r].end /\ Len(rs) = n /\ n \in Nat
  <2>1. n \in Nat /\ Len(rs) = n
    BY DEF Ordered
  <2>2. r \in i .. n /\ Ends(rs, r) /\ Alloc!FreeStart(rs, i) = rs[r].end
    BY RunIs
  <2>3. QED
    BY <2>1, <2>2
<1>2. PICK e \in Nat : e = rs[r].end /\ e <= AreaEnd
  BY <1>1 DEF Ordered
<1>3. PICK x \in Nat : x = IF r < n THEN rs[r + 1].start ELSE AreaEnd
  <2>1. CASE r < n
    <3>1. r + 1 \in 1 .. n
      BY <1>1, <2>1
    <3>2. rs[r + 1].start \in Nat
      BY <3>1 DEF Ordered
    <3>3. QED
      BY <2>1, <3>2
  <2>2. CASE ~(r < n)
    BY <2>2
  <2>3. QED
    BY <2>1, <2>2
<1>4. e <= x
  <2>1. r < n => rs[r].end <= rs[r + 1].start
    <3>1. SUFFICES ASSUME r < n PROVE rs[r].end <= rs[r + 1].start
      OBVIOUS
    <3>2. r + 1 \in 1 .. n /\ r < r + 1
      BY <1>1, <3>1
    <3>3. QED
      BY <1>1, <3>2 DEF Ordered
  <2>2. QED
    BY <1>2, <1>3, <2>1
<1>5. Alloc!Fits(rs, i, AreaEnd, len) <=> (x - e < 0 \/ x - e >= len)
  BY <1>1, <1>2, <1>3 DEF Alloc!Fits, Alloc!FreeEnd
<1>6. r \in Roomy(rs, n, len) <=> x - e >= len
  BY <1>1, <1>2, <1>3 DEF Roomy, Gap
<1>7. r = n => x = AreaEnd
  BY <1>1, <1>3
<1>8. QED
  BY <1>1, <1>2, <1>4, <1>5, <1>6, <1>7

LEMMA FindIs ==
  ASSUME AreaEnd \in Nat, NEW rs, NEW n, Ordered(rs, n), NEW len \in Nat \ {0},
         NEW got, got = Alloc!FindFirst(rs, AreaEnd, len)
  PROVE  /\ Roomy(rs, n, len) = {} => got = 0
         /\ Roomy(rs, n, len) # {} => \E r \in Roomy(rs, n, len) : got = rs[r].end /\ \A q \in Roomy(rs, n, len) : r <= q
<1> DEFINE found == {i \in Alloc!Runs(rs) : /\ Alloc!Fits(rs, i, AreaEnd, len)
                                            /\ ~(Alloc!RunEnd(rs, i) = Len(rs) /\ Alloc!FreeStart(rs, i) = AreaEnd)}
           first == CHOOSE i \in found : \A j \in found : i <= j
<1>1. got = IF found = {} THEN 0 ELSE Alloc!FreeStart(rs, first)
  BY DEF Alloc!FindFirst
<1>2. n \in Nat \ {0} /\ DOMAIN rs = 1 .. n
  BY DEF Ordered
<1>3. \A i \in Alloc!Runs(rs) : i \in 1 .. n
  BY <1>2 DEF Alloc!Runs
<1>4. \A i \in Alloc!Runs(rs) : i \in found <=> Alloc!RunEnd(rs, i) \in Roomy(rs, n, len)
  <2> TAKE i \in Alloc!Runs(rs)
  <2>1. i \in 1 .. n
    BY <1>3
  <2>2. QED
    BY <2>1, FoundIs
<1>5. found \subseteq Alloc!Runs(rs) /\ found \subseteq Nat
  BY <1>3
<1> HIDE DEF found
<1>6. \A q \in Roomy(rs, n, len) : \E i \in found : Alloc!RunEnd(rs, i) = q
  <2> TAKE q \in Roomy(rs, n, len)
  <2>1. q \in 1 .. n /\ Ends(rs, q)
    BY DEF Roomy
  <2>2. PICK i \in Alloc!Runs(rs) : Alloc!RunEnd(rs, i) = q
    BY <2>1, RunReached
  <2>3. QED
    BY <1>4, <2>2
<1>7. ASSUME Roomy(rs, n, len) = {} PROVE got = 0
  <2>1. found = {}
    BY <1>4, <1>5, <1>7
  <2>2. QED
    BY <1>1, <2>1
<1>8. ASSUME Roomy(rs, n, len) # {}
      PROVE  \E r \in Roomy(rs, n, len) : got = rs[r].end /\ \A q \in Roomy(rs, n, len) : r <= q
  <2>1. found # {}
    BY <1>6, <1>8
  <2>2. PICK i \in found : \A j \in found : i <= j
    BY <1>5, <2>1, NatLeast
  <2>3. first \in found /\ \A j \in found : first <= j
    BY <2>2
  <2>4. PICK f \in 1 .. n : f = first /\ f \in Alloc!Runs(rs) /\ got = Alloc!FreeStart(rs, f)
    BY <1>1, <1>3, <1>5, <2>1, <2>3
  <2>5. PICK r \in f .. n : /\ r = Alloc!RunEnd(rs, f) /\ got = rs[r].end
                            /\ \A j \in f .. n : Ends(rs, j) => r <= j
    BY <2>4, RunIs
  <2>6. r \in Roomy(rs, n, len)
    BY <1>4, <2>3, <2>4, <2>5
  <2>7. ASSUME NEW q \in Roomy(rs, n, len) PROVE r <= q
    <3>1. PICK j \in found : Alloc!RunEnd(rs, j) = q
      BY <1>6
    <3>2. j \in 1 .. n /\ f <= j
      BY <1>3, <1>5, <2>3, <2>4, <3>1
    <3>3. q \in j .. n /\ Ends(rs, q)
      BY <3>1, <3>2, RunIs DEF Roomy
    <3>4. q \in f .. n
      BY <1>2, <2>4, <3>2, <3>3
    <3>5. QED
      BY <2>5, <3>3, <3>4
  <2>8. QED
    BY <2>5, <2>6, <2>7
<1>9. QED
  BY <1>7, <1>8

(* Room behind a range is free, and free chunks are behind a range.        *)
Free(rs, c) == c \in 0 .. AreaEnd - 1 /\ \A i \in DOMAIN rs : c < rs[i].start \/ c >= rs[i].end

LEMMA RoomIsFree ==
  ASSUME AreaEnd \in Nat, NEW rs, NEW n, Ordered(rs, n), NEW len \in Nat \ {0}, NEW r \in Roomy(rs, n, len)
  PROVE  /\ rs[r].end \in 2 .. AreaEnd - len
         /\ \A c \in rs[r].end .. rs[r].end + len - 1 : Free(rs, c)
         /\ r < n => rs[r].end + len <= rs[r + 1].start
<1>1. n \in Nat /\ r \in 1 .. n /\ Ends(rs, r) /\ Gap(rs, n, r) >= len /\ DOMAIN rs = 1 .. n
  BY DEF Roomy, Ordered
<1>2. \A k \in 1 .. n : rs[k].start \in Nat /\ rs[k].end \in Nat /\ rs[k].start < rs[k].end /\ rs[k].end <= AreaEnd
  BY DEF Ordered
<1>3. PICK e \in Nat : e = rs[r].end
  BY <1>1, <1>2
<1>4. e >= 2
  <2>1. 1 \in 1 .. n /\ (r = 1 \/ 1 < r)
    BY <1>1
  <2>2. rs[1].end = 2 /\ (1 < r => rs[1].end <= rs[r].start)
    BY <1>1, <2>1 DEF Ordered
  <2>3. rs[r].start < rs[r].end /\ rs[r].start \in Nat /\ rs[r].end \in Nat
    BY <1>1, <1>2
  <2>4. QED
    BY <1>3, <2>1, <2>2, <2>3
<1>5. ASSUME r < n PROVE e + len <= rs[r + 1].start /\ rs[r + 1].start < AreaEnd /\ rs[r + 1].start \in Nat
  <2>1. r + 1 \in 1 .. n
    BY <1>1, <1>5
  <2>2. rs[r + 1].start \in Nat /\ rs[r + 1].end \in Nat /\ rs[r + 1].start < rs[r + 1].end /\ rs[r + 1].end <= AreaEnd
    BY <1>2, <2>1
  <2>3. rs[r + 1].start - e >= len
    BY <1>1, <1>3, <1>5 DEF Gap
  <2>4. QED
    BY <1>3, <2>2, <2>3
<1>6. e + len <= AreaEnd
  <2>1. ~(r < n) => AreaEnd - e >= len
    BY <1>1, <1>3 DEF Gap
  <2>2. QED
    BY <1>3, <1>5, <2>1
<1>7. ASSUME NEW c \in e .. e + len - 1, NEW k \in 1 .. n PROVE c < rs[k].start \/ c >= rs[k].end
  <2>1. rs[k].start \in Nat /\ rs[k].end \in Nat /\ rs[k].start < rs[k].end
    BY <1>2
  <2>2. CASE k = r
    BY <1>3, <1>7, <2>2
  <2>3. CASE k < r
    <3>1. rs[k].end <= rs[r].start
      BY <1>1, <2>3 DEF Ordered
    <3>2. rs[r].start < rs[r].end /\ rs[r].start \in Nat
      BY <1>1, <1>2
    <3>3. QED
      BY <1>3, <1>7, <2>1, <3>1, <3>2
  <2>4. CASE k > r
    <3>1. r < n /\ r + 1 \in 1 .. n /\ (k = r + 1 \/ r + 1 < k)
      BY <1>1, <2>4
    <3>2. r + 1 < k => rs[r + 1].end <= rs[k].start
      BY <3>1 DEF Ordered
    <3>3. rs[r + 1].start < rs[r + 1].end /\ rs[r + 1].start \in Nat /\ rs[r + 1].end \in Nat
      BY <1>2, <3>1
    <3>4. QED
      BY <1>3, <1>5, <1>7, <2>1, <3>1, <3>2, <3>3
  <2>5. QED
    BY <1>1, <2>2, <2>3, <2>4
<1>8. e \in 2 .. AreaEnd - len /\ \A c \in e .. e + len - 1 : c \in 0 .. AreaEnd - 1
  BY <1>3, <1>4, <1>6
<1>9. QED
  BY <1>1, <1>3, <1>5, <1>7, <1>8 DEF Free

LEMMA FreeIsRoom ==
  ASSUME AreaEnd \in Nat, NEW rs, NEW n, Ordered(rs, n), NEW len \in Nat \ {0}, NEW c \in 1 .. AreaEnd - len,
         \A x \in c .. c + len - 1 : Free(rs, x)
  PROVE  \E r \in Roomy(rs, n, len) : rs[r].end <= c
<1>1. n \in Nat \ {0} /\ DOMAIN rs = 1 .. n
  BY DEF Ordered
<1>2. \A k \in 1 .. n : rs[k].start \in Nat /\ rs[k].end \in Nat /\ rs[k].start < rs[k].end
  BY DEF Ordered
<1>3. ASSUME NEW x \in c .. c + len - 1, NEW k \in 1 .. n PROVE x < rs[k].start \/ x >= rs[k].end
  BY <1>1, <1>3 DEF Free
<1>4. c \in c .. c + len - 1
  OBVIOUS
<1> DEFINE T == {n - k : k \in {j \in 1 .. n : rs[j].end <= c}}
<1>5. T \subseteq Nat /\ T # {}
  <2>1. 1 \in 1 .. n /\ rs[1].start = 0 /\ rs[1].end = 2
    BY <1>1 DEF Ordered
  <2>2. rs[1].end <= c
    BY <1>3, <1>4, <2>1
  <2>3. QED
    BY <1>1, <2>1, <2>2
<1>6. PICK d \in T : \A t \in T : d <= t
  BY <1>5, NatLeast
<1>7. PICK r \in 1 .. n : rs[r].end <= c /\ d = n - r
  BY <1>6
<1>8. ASSUME r < n PROVE r + 1 \in 1 .. n /\ c < rs[r + 1].start
  <2>1. r + 1 \in 1 .. n /\ n - (r + 1) < n - r
    BY <1>1, <1>7, <1>8
  <2>2. ~(rs[r + 1].end <= c)
    <3>1. rs[r + 1].end <= c => n - (r + 1) \in T
      BY <2>1
    <3>2. n - (r + 1) \in T => n - r <= n - (r + 1)
      BY <1>6, <1>7
    <3>3. QED
      BY <1>1, <1>7, <2>1, <3>1, <3>2
  <2>3. QED
    BY <1>2, <1>3, <1>4, <2>1, <2>2
<1> HIDE DEF T
<1>9. ASSUME r < n PROVE c + len <= rs[r + 1].start
  <2>1. PICK s \in Nat : s = rs[r + 1].start /\ c < s /\ s < rs[r + 1].end /\ rs[r + 1].end \in Nat
    BY <1>2, <1>8, <1>9
  <2>2. ~(s \in c .. c + len - 1)
    BY <1>3, <1>8, <1>9, <2>1
  <2>3. QED
    BY <2>1, <2>2
<1>10. rs[r].end \in Nat /\ (r < n => rs[r + 1].start \in Nat)
  BY <1>2, <1>7, <1>8
<1>11. Gap(rs, n, r) >= len
  BY <1>7, <1>9, <1>10 DEF Gap
<1>12. Ends(rs, r)
  BY <1>1, <1>7, <1>8, <1>10 DEF Ends, Ordered
<1>13. QED
  BY <1>7, <1>11, <1>12 DEF Roomy

LEMMA FitFirst ==
  ASSUME StructuresAssumption, NEW n, Ordered(al, n), NEW len \in Nat \ {0}
  PROVE  LET fits == {c \in 1 .. AreaEnd - len : c .. c + len - 1 \subseteq FreeChunks}
             got  == Alloc!FindFree(al, "first fit", AreaEnd, len)
         IN  IF fits = {} THEN got = 0 ELSE got = Smallest(fits)
<1>0. AreaEnd \in Nat
  BY DEF StructuresAssumption
<1> DEFINE fits == {c \in 1 .. AreaEnd - len : c .. c + len - 1 \subseteq FreeChunks}
<1>1. PICK got : got = Alloc!FindFirst(al, AreaEnd, len)
  OBVIOUS
<1>2. Alloc!FindFree(al, "first fit", AreaEnd, len) = got
  BY <1>1, Zenon DEF Alloc!FindFree
<1>3. \A c : c \in FreeChunks <=> Free(al, c)
  BY DEF FreeChunks, Free
<1>4. \A c : c \in fits => c \in 1 .. AreaEnd - len /\ \E r \in Roomy(al, n, len) : al[r].end <= c
  <2> SUFFICES ASSUME NEW c \in fits PROVE c \in 1 .. AreaEnd - len /\ \E r \in Roomy(al, n, len) : al[r].end <= c
    OBVIOUS
  <2>1. c \in 1 .. AreaEnd - len /\ \A x \in c .. c + len - 1 : Free(al, x)
    BY <1>3
  <2>2. QED
    BY <1>0, <2>1, FreeIsRoom
<1>5. \A r \in Roomy(al, n, len) : al[r].end \in fits
  <2> TAKE r \in Roomy(al, n, len)
  <2>1. PICK e : e = al[r].end
    OBVIOUS
  <2>2. e \in 2 .. AreaEnd - len /\ \A c \in e .. e + len - 1 : Free(al, c)
    BY <1>0, <2>1, RoomIsFree
  <2>3. e \in 1 .. AreaEnd - len
    BY <1>0, <2>2
  <2>4. QED
    BY <1>3, <2>1, <2>2, <2>3
<1>6. fits \subseteq Nat
  BY <1>0
<1> HIDE DEF fits
<1>7. ASSUME fits = {} PROVE got = 0
  BY <1>0, <1>1, <1>5, <1>7, FindIs
<1>8. ASSUME fits # {} PROVE got = Smallest(fits)
  <2>1. Roomy(al, n, len) # {}
    BY <1>4, <1>8
  <2>2. PICK r \in Roomy(al, n, len) : got = al[r].end /\ \A q \in Roomy(al, n, len) : r <= q
    BY <1>0, <1>1, <2>1, FindIs
  <2>3. got \in fits /\ got \in Nat
    BY <1>5, <1>6, <2>2
  <2>4. ASSUME NEW c \in fits PROVE got <= c
    <3>1. PICK q \in Roomy(al, n, len) : al[q].end <= c
      BY <1>4
    <3>2. r <= q /\ r \in 1 .. n /\ q \in 1 .. n /\ n \in Nat
      BY <2>2 DEF Roomy, Ordered
    <3>3. al[q].end \in Nat /\ al[q].start \in Nat /\ al[q].start < al[q].end /\ (r < q => al[r].end <= al[q].start)
      BY <3>2 DEF Ordered
    <3>4. r = q \/ r < q
      BY <3>2
    <3>5. c \in Nat
      BY <1>6
    <3>6. QED
      BY <2>2, <2>3, <3>1, <3>3, <3>4, <3>5
  <2>5. \A s, t \in fits : (\A c \in fits : s <= c) /\ (\A c \in fits : t <= c) => s = t
    <3> TAKE s, t \in fits
    <3>1. s \in Nat /\ t \in Nat
      BY <1>6
    <3>2. QED
      BY <3>1
  <2>6. QED
    BY <2>3, <2>4, <2>5 DEF Smallest
<1>9. QED
  BY <1>2, <1>7, <1>8 DEF fits

(* The list of ranges as it changes.                                       *)
AreaSet == [start : Nat, end : Nat]
RangesInv == al \in Seq(AreaSet) /\ Ordered(al, Len(al))

Inserted(s, i, e, b) ==
  /\ Len(b) = Len(s) + 1
  /\ \A k \in 1 .. Len(s) + 1 : b[k] = IF k < i THEN s[k] ELSE IF k = i THEN e ELSE s[k - 1]

LEMMA AllocInsert ==
  ASSUME NEW s \in Seq(AreaSet), NEW i \in 1 .. Len(s) + 1, NEW e \in AreaSet,
         NEW b, b = Alloc!InsertAt(s, i, e)
  PROVE  b \in Seq(AreaSet) /\ Inserted(s, i, e, b)
<1>1. b = InsertAt(s, i, e)
  BY Zenon DEF Alloc!InsertAt, InsertAt
<1>2. QED
  <2>1. /\ InsertAt(s, i, e) \in Seq(AreaSet) /\ Len(InsertAt(s, i, e)) = Len(s) + 1
        /\ \A k \in 1 .. Len(s) + 1 :
             InsertAt(s, i, e)[k] = IF k < i THEN s[k] ELSE IF k = i THEN e ELSE s[k - 1]
    BY InsertAtIs, SMTT(60)
  <2>2. QED
    BY <1>1, <2>1, Zenon DEF Inserted

LEMMA AllocRemove ==
  ASSUME NEW S, NEW s \in Seq(S), NEW i \in 1 .. Len(s)
  PROVE  /\ Alloc!RemoveAt(s, i) \in Seq(S) /\ Len(Alloc!RemoveAt(s, i)) = Len(s) - 1
         /\ \A k \in 1 .. Len(s) - 1 : Alloc!RemoveAt(s, i)[k] = IF k < i THEN s[k] ELSE s[k + 1]
<1>1. Alloc!RemoveAt(s, i) = RemoveAt(s, i)
  BY Zenon DEF Alloc!RemoveAt, RemoveAt
<1>2. QED
  BY <1>1, RemoveAtIs

(* An element more or less keeps the order, if it fits in between.         *)
LEMMA OrderedMore ==
  ASSUME AreaEnd \in Nat, NEW a, NEW n, Ordered(a, n), NEW r \in 1 .. n, NEW x, NEW y,
         x.start \in Nat, x.end \in Nat, x.start < x.end, x.end <= AreaEnd,
         a[r].end <= x.start, r < n => x.end <= a[r + 1].start,
         NEW b, Len(b) = n + 1, DOMAIN b = 1 .. n + 1,
         \A k \in 1 .. n + 1 : b[k] = IF k < r + 1 THEN a[k] ELSE IF k = r + 1 THEN x ELSE a[k - 1]
  PROVE  Ordered(b, n + 1)
<1>1. n \in Nat \ {0} /\ n + 1 \in Nat \ {0}
  BY DEF Ordered
<1>2. \A k \in 1 .. n : a[k].start \in Nat /\ a[k].end \in Nat /\ a[k].start < a[k].end /\ a[k].end <= AreaEnd
  BY DEF Ordered
<1>3. \A i, j \in 1 .. n : i < j => a[i].end <= a[j].start
  BY DEF Ordered
<1>4. \A k \in 1 .. n + 1 : \/ k \in 1 .. r /\ k \in 1 .. n /\ b[k] = a[k]
                            \/ k = r + 1 /\ b[k] = x
                            \/ k \in r + 2 .. n + 1 /\ k - 1 \in r + 1 .. n /\ k - 1 \in 1 .. n /\ b[k] = a[k - 1]
  <2> TAKE k \in 1 .. n + 1
  <2>1. CASE k < r + 1
    <3>1. k \in 1 .. r /\ k \in 1 .. n
      BY <1>1, <2>1
    <3>2. QED
      BY <2>1, <3>1
  <2>2. CASE k = r + 1
    BY <2>2
  <2>3. CASE k > r + 1
    <3>1. k \in r + 2 .. n + 1 /\ k - 1 \in r + 1 .. n /\ k - 1 \in 1 .. n /\ ~(k < r + 1) /\ k # r + 1
      BY <1>1, <2>3
    <3>2. QED
      BY <3>1
  <2>4. QED
    BY <1>1, <2>1, <2>2, <2>3
<1>5. \A k \in 1 .. n + 1 : b[k].start \in Nat /\ b[k].end \in Nat /\ b[k].start < b[k].end /\ b[k].end <= AreaEnd
  BY <1>2, <1>4
<1>6. \A k \in 1 .. r : a[k].end <= x.start
  <2> TAKE k \in 1 .. r
  <2>1. k \in 1 .. n /\ (k = r \/ k < r)
    BY <1>1
  <2>2. k < r => a[k].end <= a[r].start /\ a[r].start < a[r].end
    BY <1>2, <1>3, <2>1
  <2>3. a[k].end \in Nat /\ a[r].end \in Nat /\ a[r].start \in Nat
    BY <1>2, <2>1
  <2>4. QED
    BY <2>1, <2>2, <2>3
<1>7. \A k \in r + 1 .. n : x.end <= a[k].start
  <2> TAKE k \in r + 1 .. n
  <2>1. k \in 1 .. n /\ r < n /\ r + 1 \in 1 .. n /\ (k = r + 1 \/ r + 1 < k)
    BY <1>1
  <2>2. r + 1 < k => a[r + 1].end <= a[k].start
    BY <1>3, <2>1
  <2>3. a[r + 1].start < a[r + 1].end /\ a[r + 1].start \in Nat /\ a[r + 1].end \in Nat /\ a[k].start \in Nat
    BY <1>2, <2>1
  <2>4. QED
    BY <2>1, <2>2, <2>3
<1>8. ASSUME NEW i \in 1 .. n + 1, NEW j \in 1 .. n + 1, i < j PROVE b[i].end <= b[j].start
  <2>1. CASE i \in 1 .. r /\ i \in 1 .. n /\ b[i] = a[i]
    <3>1. CASE j \in 1 .. r /\ j \in 1 .. n /\ b[j] = a[j]
      BY <1>3, <1>8, <2>1, <3>1
    <3>2. CASE j = r + 1 /\ b[j] = x
      BY <1>6, <2>1, <3>2
    <3>3. CASE j - 1 \in r + 1 .. n /\ j - 1 \in 1 .. n /\ b[j] = a[j - 1]
      <4>1. i < j - 1
        BY <1>1, <2>1, <3>3
      <4>2. QED
        BY <1>3, <2>1, <3>3, <4>1
    <3>4. QED
      BY <1>4, <3>1, <3>2, <3>3
  <2>2. CASE i = r + 1 /\ b[i] = x
    <3>1. j - 1 \in r + 1 .. n /\ b[j] = a[j - 1]
      <4>1. j > r + 1 /\ j # r + 1 /\ ~(j \in 1 .. r)
        BY <1>1, <1>8, <2>2
      <4>2. QED
        BY <1>4, <4>1
    <3>2. QED
      BY <1>7, <2>2, <3>1
  <2>3. CASE i - 1 \in r + 1 .. n /\ i - 1 \in 1 .. n /\ b[i] = a[i - 1]
    <3>1. j > r + 1 /\ j # r + 1 /\ ~(j \in 1 .. r) /\ i - 1 < j - 1
      BY <1>1, <1>8, <2>3
    <3>2. j - 1 \in 1 .. n /\ b[j] = a[j - 1]
      BY <1>4, <3>1
    <3>3. QED
      BY <1>3, <2>3, <3>1, <3>2
  <2>4. QED
    BY <1>4, <2>1, <2>2, <2>3
<1>9. b[1].start = 0 /\ b[1].end = 2
  <2>1. 1 \in 1 .. n + 1 /\ 1 < r + 1 /\ a[1].start = 0 /\ a[1].end = 2
    BY <1>1 DEF Ordered
  <2>2. b[1] = a[1]
    BY <2>1
  <2>3. QED
    BY <2>1, <2>2
<1>10. QED
  BY <1>1, <1>5, <1>8, <1>9 DEF Ordered

LEMMA OrderedLess ==
  ASSUME NEW a, NEW n, Ordered(a, n), NEW i \in 2 .. n,
         NEW b, Len(b) = n - 1, DOMAIN b = 1 .. n - 1,
         \A k \in 1 .. n - 1 : b[k] = IF k < i THEN a[k] ELSE a[k + 1]
  PROVE  Ordered(b, n - 1)
<1>1. n \in Nat \ {0} /\ n - 1 \in Nat \ {0}
  BY DEF Ordered
<1> DEFINE from(k) == IF k < i THEN k ELSE k + 1
<1>2. \A k \in 1 .. n - 1 : from(k) \in 1 .. n /\ b[k] = a[from(k)]
  BY <1>1
<1>3. \A k, l \in 1 .. n - 1 : k < l => from(k) < from(l)
  BY <1>1
<1>4. from(1) = 1 /\ 1 \in 1 .. n - 1
  BY <1>1
<1> HIDE DEF from
<1>5. \A k \in 1 .. n - 1 : b[k].start \in Nat /\ b[k].end \in Nat /\ b[k].start < b[k].end /\ b[k].end <= AreaEnd
  BY <1>2 DEF Ordered
<1>6. \A k, l \in 1 .. n - 1 : k < l => b[k].end <= b[l].start
  BY <1>2, <1>3 DEF Ordered
<1>7. b[1].start = 0 /\ b[1].end = 2
  BY <1>2, <1>4 DEF Ordered
<1>8. QED
  BY <1>1, <1>5, <1>6, <1>7 DEF Ordered

(* Where a range goes, and which one goes.                                 *)
LEMMA RegisterIs ==
  ASSUME NEW s, NEW start, NEW len
  PROVE  LET later == {i \in DOMAIN s : s[i].start > start}
             first == CHOOSE i \in later : \A j \in later : i <= j
         IN  /\ later = {} => Alloc!Register(s, start, len) = Alloc!InsertAt(s, Len(s) + 1, Alloc!Area(start, len))
             /\ later # {} => Alloc!Register(s, start, len) = Alloc!InsertAt(s, first, Alloc!Area(start, len))
  BY DEF Alloc!Register

LEMMA UnregisterIs ==
  ASSUME NEW s, NEW start, NEW len, NEW x, x = Alloc!Area(start, len)
  PROVE  LET same == {i \in DOMAIN s : s[i] = x}
             first == CHOOSE i \in same : \A j \in same : i <= j
         IN  same # {} => Alloc!Unregister(s, start, len) = Alloc!RemoveAt(s, first)
  BY DEF Alloc!Unregister

LEMMA AreaIs ==
  ASSUME NEW x \in Nat, NEW n \in Nat
  PROVE  Alloc!Area(x, n) \in AreaSet /\ Alloc!Area(x, n).start = x /\ Alloc!Area(x, n).end = x + n
  BY DEF Alloc!Area, AreaSet

LEMMA RangesInit ==
  ASSUME StructuresAssumption, al = Alloc!Register(<< >>, 0, 2)
  PROVE  RangesInv
<1> DEFINE x == Alloc!Area(0, 2)
<1>1. x \in AreaSet /\ x.start = 0 /\ x.end = 2
  <2>1. 0 \in Nat /\ 2 \in Nat /\ 0 + 2 = 2
    OBVIOUS
  <2>2. QED
    BY <2>1, AreaIs
<1> HIDE DEF x
<1>2. al = Alloc!InsertAt(<< >>, 1, x)
  <2>1. {i \in DOMAIN << >> : << >>[i].start > 0} = {} /\ Len(<< >>) + 1 = 1
    OBVIOUS
  <2>2. QED
    BY <2>1 DEF Alloc!Register, x
<1>3. al \in Seq(AreaSet) /\ Len(al) = 1 /\ al[1] = x
  <2>1. << >> \in Seq(AreaSet) /\ 1 \in 1 .. Len(<< >>) + 1 /\ Len(<< >>) = 0
    OBVIOUS
  <2>2. PICK s \in Seq(AreaSet) : s = << >> /\ Len(s) = 0
    BY <2>1
  <2>3. 1 \in 1 .. Len(s) + 1
    BY <2>2
  <2>4. al \in Seq(AreaSet) /\ Inserted(s, 1, x, al)
    BY <1>1, <1>2, <2>2, <2>3, AllocInsert
  <2>5. 1 \in 1 .. Len(s) + 1 /\ Len(s) + 1 = 1
    BY <2>2
  <2>6. Len(al) = Len(s) + 1 /\ al[1] = IF 1 < 1 THEN s[1] ELSE IF 1 = 1 THEN x ELSE s[1 - 1]
    BY <2>4, <2>5, Zenon DEF Inserted
  <2>7. Len(al) = 1 /\ al[1] = x
    <3>1. PICK n : n = Len(s) + 1
      OBVIOUS
    <3>2. n = 1 /\ Len(al) = n
      BY <2>5, <2>6, <3>1, Zenon
    <3>3. al[1] = x
      BY <2>6
    <3>4. QED
      BY <3>2, <3>3
  <2>8. QED
    BY <2>4, <2>7
<1>4. DOMAIN al = 1 .. 1 /\ 1 .. 1 = {1} /\ AreaEnd \in Nat /\ AreaEnd > 2
  BY <1>3 DEF StructuresAssumption
<1>5. Ordered(al, 1)
  BY <1>1, <1>3, <1>4 DEF Ordered
<1>6. QED
  BY <1>3, <1>5 DEF RangesInv

LEMMA TakeStep ==
  ASSUME StructuresAssumption, RangesInv, NEW len \in 1 .. MaxLen, TakeRoom(len)
  PROVE  RangesInv'
<1>0. AreaEnd \in Nat
  BY DEF StructuresAssumption
<1>1. PICK n : n = Len(al) /\ Ordered(al, n) /\ n \in Nat /\ DOMAIN al = 1 .. n
  BY DEF RangesInv, Ordered
<1>2. len \in Nat \ {0}
  OBVIOUS
<1>3. PICK got : got = Alloc!FindFirst(al, AreaEnd, len) /\ got # 0 /\ al' = Alloc!Register(al, got, len)
  <2>1. Alloc!FindFree(al, "first fit", AreaEnd, len) = Alloc!FindFirst(al, AreaEnd, len)
    BY Zenon DEF Alloc!FindFree
  <2>2. QED
    BY <2>1 DEF TakeRoom
<1>4. PICK r \in Roomy(al, n, len) : got = al[r].end
  BY <1>0, <1>1, <1>2, <1>3, FindIs
<1>5. /\ got \in 2 .. AreaEnd - len /\ (r < n => got + len <= al[r + 1].start)
      /\ r \in 1 .. n
  BY <1>0, <1>1, <1>2, <1>4, RoomIsFree DEF Roomy
<1>6. PICK x : x = Alloc!Area(got, len) /\ x \in AreaSet /\ x.start = got /\ x.end = got + len
  <2>1. got \in Nat /\ len \in Nat
    BY <1>5
  <2>2. QED
    BY <2>1, AreaIs
<1> DEFINE later == {k \in DOMAIN al : al[k].start > got}
<1>7. \A k \in 1 .. n : al[k].start > got <=> k >= r + 1
  <2> TAKE k \in 1 .. n
  <2>1. al[k].start \in Nat /\ al[k].start < al[k].end /\ al[k].end \in Nat /\ al[r].start \in Nat /\ al[r].start < al[r].end
    BY <1>1, <1>5 DEF Ordered
  <2>2. CASE k < r
    <3>1. al[k].end <= al[r].start
      BY <1>1, <1>5, <2>2 DEF Ordered
    <3>2. QED
      BY <1>1, <1>4, <1>5, <2>1, <2>2, <3>1
  <2>3. CASE k = r
    BY <1>1, <1>4, <1>5, <2>1, <2>3
  <2>4. CASE k > r
    <3>1. r < n /\ r + 1 \in 1 .. n /\ (k = r + 1 \/ r + 1 < k)
      BY <1>1, <1>5, <2>4
    <3>2. al[r + 1].start \in Nat /\ al[r + 1].end \in Nat /\ al[r + 1].start < al[r + 1].end
      BY <1>1, <3>1 DEF Ordered
    <3>3. r + 1 < k => al[r + 1].end <= al[k].start
      BY <1>1, <3>1 DEF Ordered
    <3>4. al[k].start > got
      BY <1>2, <1>5, <2>1, <3>1, <3>2, <3>3
    <3>5. QED
      BY <1>1, <1>5, <2>4, <3>4
  <2>5. QED
    BY <1>1, <1>5, <2>2, <2>3, <2>4
<1>8. al' = Alloc!InsertAt(al, r + 1, x)
  <2>1. PICK at : at = IF later = {} THEN Len(al) + 1 ELSE CHOOSE i \in later : \A j \in later : i <= j
    OBVIOUS
  <2>2. al' = Alloc!InsertAt(al, at, x)
    <3>1. Alloc!Register(al, got, len) = Alloc!InsertAt(al, at, Alloc!Area(got, len))
      BY <2>1, RegisterIs
    <3>2. QED
      BY <1>3, <1>6, <3>1
  <2>3. later = r + 1 .. n
    <3>1. \A k : k \in r + 1 .. n <=> (k \in 1 .. n /\ k >= r + 1)
      BY <1>1, <1>5
    <3>2. QED
      BY <1>1, <1>7, <3>1
  <2> HIDE DEF later
  <2>4. at = r + 1
    <3>1. CASE r = n
      <4>1. later = {}
        BY <1>1, <2>3, <3>1
      <4>2. QED
        BY <1>1, <2>1, <3>1, <4>1
    <3>2. CASE r # n
      <4>1. r + 1 \in later /\ \A j \in later : r + 1 <= j
        BY <1>1, <1>5, <2>3, <3>2
      <4>2. \A i \in later : i <= r + 1 => i = r + 1
        BY <1>1, <1>5, <2>3
      <4>3. QED
        BY <2>1, <4>1, <4>2
    <3>3. QED
      BY <3>1, <3>2
  <2>5. QED
    BY <2>2, <2>4
<1> HIDE DEF later
<1>9. /\ al' \in Seq(AreaSet) /\ Len(al') = n + 1
      /\ \A k \in 1 .. n + 1 : al'[k] = IF k < r + 1 THEN al[k] ELSE IF k = r + 1 THEN x ELSE al[k - 1]
  <2>1. al \in Seq(AreaSet) /\ r + 1 \in 1 .. Len(al) + 1
    BY <1>1, <1>5 DEF RangesInv
  <2>2. al' \in Seq(AreaSet) /\ Inserted(al, r + 1, x, al')
    BY <1>6, <1>8, <2>1, AllocInsert
  <2>3. QED
    BY <1>1, <2>2, Zenon DEF Inserted
<1>10. DOMAIN al' = 1 .. n + 1
  BY <1>9
<1>11. /\ x.start \in Nat /\ x.end \in Nat /\ x.start < x.end /\ x.end <= AreaEnd
       /\ al[r].end <= x.start /\ (r < n => x.end <= al[r + 1].start)
  BY <1>0, <1>2, <1>4, <1>5, <1>6
<1>12. Ordered(al', n + 1)
  BY <1>0, <1>1, <1>5, <1>9, <1>10, <1>11, OrderedMore
<1>13. Ordered(al, Len(al))'
  BY <1>9, <1>12 DEF Ordered
<1>14. QED
  BY <1>9, <1>13 DEF RangesInv

LEMMA GiveStep ==
  ASSUME StructuresAssumption, RangesInv, NEW i \in 2 .. Len(al), GiveBack(i)
  PROVE  RangesInv'
<1>1. PICK n : n = Len(al) /\ Ordered(al, n) /\ n \in Nat /\ DOMAIN al = 1 .. n
  BY DEF RangesInv, Ordered
<1>2. i \in 1 .. n /\ i \in 2 .. n
  BY <1>1
<1>3. \A k \in 1 .. n : al[k] = [start |-> al[k].start, end |-> al[k].end] /\ al[k].start \in Nat /\ al[k].end \in Nat
  <2> TAKE k \in 1 .. n
  <2>1. al[k] \in AreaSet
    BY <1>1 DEF RangesInv
  <2>2. QED
    BY <2>1 DEF AreaSet
<1>4. Alloc!Area(al[i].start, al[i].end - al[i].start) = al[i]
  <2>1. PICK x \in Nat, y \in Nat : al[i] = [start |-> x, end |-> y]
    BY <1>2, <1>3
  <2>2. x + (y - x) = y
    OBVIOUS
  <2>3. QED
    BY <2>1, <2>2 DEF Alloc!Area
<1> DEFINE same == {j \in DOMAIN al : al[j] = al[i]}
<1>5. same = {i}
  <2>1. ASSUME NEW j \in 1 .. n, al[j] = al[i] PROVE j = i
    <3>1. al[j].start < al[j].end /\ al[j].start \in Nat /\ al[j].end \in Nat
      BY <1>1 DEF Ordered
    <3>2. j < i => al[j].end <= al[i].start
      BY <1>1, <1>2 DEF Ordered
    <3>3. i < j => al[i].end <= al[j].start
      BY <1>1, <1>2 DEF Ordered
    <3>4. j < i \/ i < j \/ i = j
      BY <1>1, <1>2
    <3>5. QED
      BY <2>1, <3>1, <3>2, <3>3, <3>4
  <2>2. QED
    BY <1>1, <1>2, <2>1
<1>6. al' = Alloc!RemoveAt(al, i)
  <2>1. same # {} => al' = Alloc!RemoveAt(al, CHOOSE k \in same : \A j \in same : k <= j)
    BY <1>4, UnregisterIs, SMTT(30) DEF GiveBack
  <2> HIDE DEF same
  <2>2. same # {} /\ (CHOOSE k \in same : \A j \in same : k <= j) = i
    BY <1>1, <1>2, <1>5
  <2>3. QED
    BY <2>1, <2>2
<1> HIDE DEF same
<1>7. /\ al' \in Seq(AreaSet) /\ Len(al') = n - 1
      /\ \A k \in 1 .. n - 1 : al'[k] = IF k < i THEN al[k] ELSE al[k + 1]
  <2>1. al \in Seq(AreaSet) /\ i \in 1 .. Len(al)
    BY <1>1, <1>2 DEF RangesInv
  <2>2. QED
    BY <1>1, <1>6, <2>1, AllocRemove
<1>8. DOMAIN al' = 1 .. n - 1
  BY <1>7
<1>9. Ordered(al', n - 1)
  BY <1>1, <1>2, <1>7, <1>8, OrderedLess
<1>10. Ordered(al, Len(al))'
  BY <1>7, <1>9 DEF Ordered
<1>11. QED
  BY <1>7, <1>10 DEF RangesInv

LEMMA RangesFit ==
  ASSUME StructuresAssumption, RangesInv
  PROVE  FirstFitExact
<1>1. PICK n : n = Len(al) /\ Ordered(al, n) /\ DOMAIN al = 1 .. n
  BY DEF RangesInv, Ordered
<1>2. \A i, j \in DOMAIN al : i < j => al[i].end <= al[j].start
  BY <1>1 DEF Ordered
<1>3. \A len \in 1 .. MaxLen : len \in Nat \ {0}
  OBVIOUS
<1>4. \A len \in 1 .. MaxLen :
        LET fits == {c \in 1 .. AreaEnd - len : c .. c + len - 1 \subseteq FreeChunks}
            got  == Alloc!FindFree(al, "first fit", AreaEnd, len)
        IN  IF fits = {} THEN got = 0 ELSE got = Smallest(fits)
  BY <1>1, <1>3, FitFirst
<1>5. QED
  BY <1>2, <1>4, Zenon DEF FirstFitExact

-----------------------------------------------------------------------------
(* Elements that are chained by their pointers.                            *)

(* The steps of a walk from `from' on along ptr.                           *)
Stepped(from, ptr, at, N) ==
  [i \in 1 .. N |-> IF i = 1 THEN from ELSE IF at[i - 1] = NULL THEN NULL ELSE ptr[at[i - 1]]]

LEMMA SteppedIs ==
  ASSUME NEW S, NULL \notin S, NEW first, NEW last, NEW nx, NEW pv, NEW s, NEW n, Chain(NULL, S, first, last, nx, pv, s, n),
         NEW N \in Nat, NEW w, w = [i \in 1 .. N |-> IF i <= n THEN s[i] ELSE NULL]
  PROVE  /\ w = Stepped(first, nx, w, N)
         /\ \A at : at = Stepped(first, nx, at, N) => at = w
<1>1. n \in Nat /\ \A i \in 1 .. n : s[i] # NULL
  BY DEF Chain
<1>2. \A i \in 1 .. N : i # 1 => i - 1 \in 1 .. N /\ (i - 1 \in 1 .. n <=> i - 1 <= n) /\ (i <= n <=> i - 1 <= n /\ i - 1 # n)
  BY <1>1
<1>3. \A i \in 1 .. N : w[i] = IF i = 1 THEN first ELSE IF w[i - 1] = NULL THEN NULL ELSE nx[w[i - 1]]
  <2> TAKE i \in 1 .. N
  <2>1. CASE i = 1
    <3>1. 1 <= n <=> n # 0
      BY <1>1
    <3>2. QED
      BY <2>1, <3>1 DEF Chain
  <2>2. CASE i # 1 /\ i - 1 <= n
    <3>1. w[i - 1] = s[i - 1] /\ w[i - 1] # NULL /\ i - 1 \in 1 .. n /\ i - 1 + 1 = i
      BY <1>1, <1>2, <2>2
    <3>2. nx[s[i - 1]] = IF i - 1 = n THEN NULL ELSE s[i]
      BY <3>1 DEF Chain
    <3>3. w[i] = IF i - 1 = n THEN NULL ELSE s[i]
      BY <1>2, <2>2
    <3>4. QED
      BY <2>2, <3>1, <3>2, <3>3
  <2>3. CASE i # 1 /\ ~(i - 1 <= n)
    <3>1. w[i - 1] = NULL /\ w[i] = NULL
      BY <1>2, <2>3
    <3>2. QED
      BY <2>3, <3>1
  <2>4. QED
    BY <2>1, <2>2, <2>3
<1>4. w = [i \in 1 .. N |-> w[i]]
  OBVIOUS
<1>5. w = Stepped(first, nx, w, N)
  BY <1>3, <1>4 DEF Stepped
<1>6. ASSUME NEW at, at = Stepped(first, nx, at, N) PROVE at = w
  <2>1. /\ \A i \in 1 .. N : at[i] = IF i = 1 THEN first ELSE IF at[i - 1] = NULL THEN NULL ELSE nx[at[i - 1]]
        /\ at = [i \in 1 .. N |-> at[i]]
    <3>1. at = [i \in 1 .. N |-> IF i = 1 THEN first ELSE IF at[i - 1] = NULL THEN NULL ELSE nx[at[i - 1]]]
      BY <1>6 DEF Stepped
    <3>2. \A i \in 1 .. N : at[i] = IF i = 1 THEN first ELSE IF at[i - 1] = NULL THEN NULL ELSE nx[at[i - 1]]
      BY <3>1, Zenon
    <3>3. QED
      BY <3>1, <3>2
  <2> DEFINE T == {i \in 1 .. N : at[i] # w[i]}
  <2>2. SUFFICES ASSUME T # {} PROVE FALSE
    BY <1>4, <2>1
  <2>3. PICK i \in T : \A j \in T : i <= j
    <3>1. T \subseteq Nat
      OBVIOUS
    <3> HIDE DEF T
    <3>2. QED
      BY <2>2, <3>1, NatLeast
  <2>4. i \in 1 .. N /\ at[i] # w[i]
    BY <2>3
  <2>5. CASE i = 1
    BY <1>3, <2>1, <2>4, <2>5
  <2>6. CASE i # 1
    <3>1. i - 1 \in 1 .. N /\ ~(i <= i - 1)
      BY <2>4, <2>6
    <3>2. i - 1 \notin T
      BY <2>3, <3>1
    <3>3. at[i - 1] = w[i - 1]
      BY <3>1, <3>2
    <3>4. /\ at[i] = IF at[i - 1] = NULL THEN NULL ELSE nx[at[i - 1]]
          /\ w[i] = IF w[i - 1] = NULL THEN NULL ELSE nx[w[i - 1]]
      BY <1>3, <2>1, <2>4, <2>6
    <3>5. QED
      BY <2>4, <3>3, <3>4
  <2>7. QED
    BY <2>5, <2>6
<1>7. QED
  BY <1>5, <1>6

(* The steps that meet an element, and what the first of them meet.        *)
Met(at, m) == {i \in 1 .. m : at[i] # NULL}
Firsts(s, n) == [i \in 1 .. n |-> s[i]]

LEMMA SteppedCount ==
  ASSUME NEW S, NULL \notin S, NEW first, NEW last, NEW nx, NEW pv, NEW s, NEW n, Chain(NULL, S, first, last, nx, pv, s, n),
         NEW N \in Nat, NEW m \in Nat, n <= m, m <= N,
         NEW w, w = [i \in 1 .. N |-> IF i <= n THEN s[i] ELSE NULL]
  PROVE  Cardinality(Met(w, m)) = n /\ SubSeq(w, 1, n) = Firsts(s, n)
<1>1. n \in Nat /\ \A i \in 1 .. n : s[i] # NULL /\ s[i] \in S
  BY DEF Chain
<1>2. Met(w, m) = 1 .. n
  BY <1>1 DEF Met
<1>3. Cardinality(1 .. n) = n
  BY <1>1, FS_Interval
<1>4. /\ \A i \in 1 .. n : w[i] = s[i] /\ w[i] \in S /\ 1 + i - 1 = i
      /\ 1 \in Int /\ n \in Int /\ n - 1 + 1 = n /\ (IF 1 <= n THEN n - 1 + 1 ELSE 0) = n
  BY <1>1
<1>5. /\ SubSeq(w, 1, n) \in Seq(S) /\ Len(SubSeq(w, 1, n)) = n
      /\ \A i \in 1 .. n : SubSeq(w, 1, n)[i] = s[i]
  <2>1. /\ SubSeq(w, 1, n) \in Seq(S)
        /\ Len(SubSeq(w, 1, n)) = IF 1 <= n THEN n - 1 + 1 ELSE 0
        /\ \A i \in 1 .. n - 1 + 1 : SubSeq(w, 1, n)[i] = w[1 + i - 1]
    BY <1>4, SubSeqProperties
  <2>2. QED
    BY <1>4, <2>1
<1>6. SubSeq(w, 1, n) = Firsts(s, n)
  <2>1. PICK q : q = SubSeq(w, 1, n)
    OBVIOUS
  <2>2. q = [i \in 1 .. Len(q) |-> q[i]]
    BY <1>5, <2>1
  <2>3. QED
    BY <1>5, <2>1, <2>2 DEF Firsts
<1>7. QED
  BY <1>2, <1>3, <1>6

(* The two walks of the model, along a chain.                              *)
Stepping(from, ptr, N) == CHOOSE at : at = Stepped(from, ptr, at, N)

LEMMA SteppingIs ==
  ASSUME NEW S, IsFiniteSet(S), NULL \notin S, NEW first, NEW last, NEW nx, NEW pv, NEW s, NEW n,
         Chain(NULL, S, first, last, nx, pv, s, n), NEW m \in Nat, NEW N \in Nat, Cardinality(S) <= m, m <= N
  PROVE  Cardinality(Met(Stepping(first, nx, N), m)) = n /\ SubSeq(Stepping(first, nx, N), 1, n) = Firsts(s, n)
<1>1. n \in Nat /\ n <= m
  <2>1. Cardinality(S) \in Nat /\ n <= Cardinality(S)
    BY ChainShort
  <2>2. n \in Nat
    BY DEF Chain
  <2>3. QED
    BY <2>1, <2>2
<1>2. PICK w : w = [i \in 1 .. N |-> IF i <= n THEN s[i] ELSE NULL]
  OBVIOUS
<1>3. w = Stepped(first, nx, w, N) /\ \A at : at = Stepped(first, nx, at, N) => at = w
  BY <1>2, SteppedIs
<1>4. Stepping(first, nx, N) = w
  BY <1>3 DEF Stepping
<1>5. Cardinality(Met(w, m)) = n /\ SubSeq(w, 1, n) = Firsts(s, n)
  BY <1>1, <1>2, SteppedCount
<1>6. QED
  BY <1>4, <1>5

LEMMA ListWalkIs ==
  ASSUME StructuresAssumption, NEW first, NEW last, NEW nx, NEW pv, NEW s, NEW n, Chain(NULL, El, first, last, nx, pv, s, n)
  PROVE  List!Walk(first, nx) = Firsts(s, n)
<1>1. \A T : List!Cardinality(T) = Cardinality(T)
  BY Zenon DEF List!Cardinality, Cardinality
<1>2. IsFiniteSet(El) /\ NULL \notin El
  BY DEF StructuresAssumption
<1> DEFINE m == List!Cardinality(El)
<1>3. m \in Nat /\ m + 1 \in Nat /\ Cardinality(El) <= m /\ m <= m + 1
  <2>1. m = Cardinality(El) /\ Cardinality(El) \in Nat
    BY <1>1, <1>2, FS_CardinalityType
  <2>2. QED
    BY <2>1
<1> HIDE DEF m
<1>4. Cardinality(Met(Stepping(first, nx, m + 1), m)) = n /\ SubSeq(Stepping(first, nx, m + 1), 1, n) = Firsts(s, n)
  BY <1>2, <1>3, SteppingIs
<1>5. List!Cardinality(Met(Stepping(first, nx, m + 1), m)) = n
  BY <1>1, <1>4, Zenon
<1>6. List!Walk(first, nx) = SubSeq(Stepping(first, nx, m + 1), 1, List!Cardinality(Met(Stepping(first, nx, m + 1), m)))
  BY Zenon DEF List!Walk, Stepping, Stepped, Met, m
<1>7. QED
  BY <1>4, <1>5, <1>6, Zenon

LEMMA TableWalkIs ==
  ASSUME StructuresAssumption, NULL \notin Table!Place, IsFiniteSet(Table!Place), NEW t, NEW s, NEW n,
         Chain(NULL, Table!Place, t.head, t.tail, t.next, t.prev, s, n)
  PROVE  Table!Walk(t) = Firsts(s, n)
<1>1. \A T : Table!Cardinality(T) = Cardinality(T)
  BY Zenon DEF Table!Cardinality, Cardinality
<1> DEFINE m == Table!Cardinality(Table!Place) + 1
<1>3. m \in Nat /\ Cardinality(Table!Place) <= m /\ m <= m
  <2>1. Table!Cardinality(Table!Place) = Cardinality(Table!Place) /\ Cardinality(Table!Place) \in Nat
    BY <1>1, FS_CardinalityType
  <2>2. QED
    BY <2>1
<1> HIDE DEF m
<1>4. Cardinality(Met(Stepping(t.head, t.next, m), m)) = n /\ SubSeq(Stepping(t.head, t.next, m), 1, n) = Firsts(s, n)
  BY <1>3, SteppingIs
<1>5. Table!Cardinality(Met(Stepping(t.head, t.next, m), m)) = n
  BY <1>1, <1>4, Zenon
<1>6. Table!Walk(t) = SubSeq(Stepping(t.head, t.next, m), 1, Table!Cardinality(Met(Stepping(t.head, t.next, m), m)))
  BY Zenon DEF Table!Walk, Stepping, Stepped, Met, m
<1>7. QED
  BY <1>4, <1>5, <1>6, Zenon

-----------------------------------------------------------------------------
(* The pointer lists.                                                      *)
OnList(l, o) ==
  /\ l \in List!DlType(El) /\ o \in Seq(El)
  /\ Chain(NULL, El, l.first, l.last, l.next, l.prev, o, Len(o))
  /\ \A e \in El : (\A i \in 1 .. Len(o) : o[i] # e) => l.next[e] = NULL /\ l.prev[e] = NULL

ListInv == \E o \in Seq(El) : OnList(list, o)

LEMMA ListFields ==
  ASSUME NEW l, l \in List!DlType(El)
  PROVE  /\ l.first \in El \cup {NULL} /\ l.last \in El \cup {NULL}
         /\ l.next \in [El -> El \cup {NULL}] /\ l.prev \in [El -> El \cup {NULL}]
BY DEF List!DlType

(* What the two walks meet.                                                *)
LEMMA WalksAre ==
  ASSUME StructuresAssumption, NEW l, NEW o, OnList(l, o)
  PROVE  List!Walk(l.first, l.next) = o /\ List!Walk(l.last, l.prev) = List!Reverse(o)
<1> DEFINE n == Len(o)
<1>1. Chain(NULL, El, l.first, l.last, l.next, l.prev, o, n) /\ o \in Seq(El) /\ n \in Nat
  BY DEF OnList
<1>2. Firsts(o, n) = o
  BY <1>1 DEF Firsts
<1>3. List!Walk(l.first, l.next) = o
  BY <1>1, <1>2, ListWalkIs
<1>4. PICK r : r = [i \in 1 .. n |-> o[(n - i) + 1]]
  OBVIOUS
<1>5. \A i \in 1 .. n : r[i] = o[n + 1 - i]
  <2>1. \A i \in 1 .. n : (n - i) + 1 = n + 1 - i
    BY <1>1
  <2>2. QED
    BY <1>4, <2>1
<1>6. Chain(NULL, El, l.last, l.first, l.prev, l.next, r, n)
  BY <1>1, <1>5, ChainBackwards
<1>7. Firsts(r, n) = r /\ r = List!Reverse(o)
  BY <1>4 DEF Firsts, List!Reverse
<1>8. List!Walk(l.last, l.prev) = r
  BY <1>6, <1>7, ListWalkIs
<1>9. QED
  BY <1>3, <1>7, <1>8

LEMMA IsLinkedIs ==
  ASSUME StructuresAssumption, NEW l, NEW o, OnList(l, o), NEW e \in El
  PROVE  List!DlIsLinked(l, e) <=> \E i \in 1 .. Len(o) : o[i] = e
<1> DEFINE n == Len(o)
<1>1. Chain(NULL, El, l.first, l.last, l.next, l.prev, o, n) /\ n \in Nat /\ NULL \notin El
  BY DEF OnList, StructuresAssumption
<1>2. n # 0 => 1 \in 1 .. n /\ n \in 1 .. n
  BY <1>1
<1>3. ASSUME NEW i \in 1 .. n, o[i] = e PROVE List!DlIsLinked(l, e)
  <2>1. CASE i = 1
    BY <1>1, <1>3, <2>1 DEF Chain, List!DlIsLinked
  <2>2. CASE i # 1
    <3>1. i - 1 \in 1 .. n
      BY <1>1, <2>2
    <3>2. l.prev[e] = o[i - 1] /\ o[i - 1] \in El
      BY <1>1, <1>3, <2>2, <3>1 DEF Chain
    <3>3. QED
      BY <1>1, <3>2 DEF List!DlIsLinked
  <2>3. QED
    BY <2>1, <2>2
<1>4. ASSUME \A i \in 1 .. n : o[i] # e PROVE ~List!DlIsLinked(l, e)
  <2>1. l.next[e] = NULL /\ l.prev[e] = NULL
    BY <1>4 DEF OnList
  <2>2. l.first # e /\ l.last # e
    BY <1>1, <1>2, <1>4 DEF Chain
  <2>3. QED
    BY <2>1, <2>2 DEF List!DlIsLinked
<1>5. QED
  BY <1>3, <1>4

LEMMA ListsExact ==
  ASSUME StructuresAssumption, ListInv
  PROVE  ListExact
<1>1. PICK o \in Seq(El) : OnList(list, o)
  BY DEF ListInv
<1>2. List!Forward = o /\ List!Backward = List!Reverse(o)
  BY <1>1, WalksAre DEF List!Forward, List!Backward
<1>3. \A e \in El : List!DlIsLinked(list, e) <=> e \in List!ToSet(o)
  <2>1. \A e : e \in List!ToSet(o) <=> \E i \in 1 .. Len(o) : o[i] = e
    BY DEF List!ToSet
  <2>2. QED
    BY <1>1, <2>1, IsLinkedIs
<1>4. QED
  BY <1>2, <1>3, Zenon DEF ListExact, List!ListExact

(* dlist_append.                                                           *)
LEMMA AppendIs ==
  ASSUME StructuresAssumption, NEW l, NEW o, OnList(l, o), NEW e \in El, \A i \in 1 .. Len(o) : o[i] # e
  PROVE  OnList(List!DlAppend(l, e), o \o <<e>>)
<1> DEFINE n == Len(o)
           a == List!DlAppend(l, e)
           q == o \o <<e>>
<1>1. /\ Chain(NULL, El, l.first, l.last, l.next, l.prev, o, n) /\ o \in Seq(El) /\ n \in Nat /\ NULL \notin El
      /\ l \in List!DlType(El)
  BY DEF OnList, StructuresAssumption
<1>2. /\ l.first \in El \cup {NULL} /\ l.last \in El \cup {NULL}
      /\ l.next \in [El -> El \cup {NULL}] /\ l.prev \in [El -> El \cup {NULL}]
  BY <1>1, ListFields
<1>3. /\ a.first = (IF l.first = NULL THEN e ELSE l.first) /\ a.last = e
      /\ \A y \in El : a.next[y] = IF y = e THEN NULL ELSE IF l.first # NULL /\ y = l.last THEN e ELSE l.next[y]
      /\ \A y \in El : a.prev[y] = IF y = e THEN IF l.first = NULL THEN NULL ELSE l.last ELSE l.prev[y]
  BY <1>2 DEF List!DlAppend
<1>4. a \in List!DlType(El)
  BY <1>1, <1>2 DEF List!DlAppend, List!DlType
<1>5. /\ q \in Seq(El) /\ Len(q) = n + 1 /\ q[n + 1] = e
      /\ \A i \in 1 .. n : q[i] = o[i]
  BY <1>1
<1> HIDE DEF a, q
<1>6. Chain(NULL, El, a.first, a.last, a.next, a.prev, q, n + 1)
  <2>1. Chain(NULL, El, IF l.first = NULL THEN e ELSE l.first, e, a.next, a.prev, q, n + 1)
    BY <1>1, <1>3, <1>5, ChainMore
  <2>2. QED
    BY <1>3, <2>1
<1>7. ASSUME NEW x \in El, \A i \in 1 .. Len(q) : q[i] # x PROVE a.next[x] = NULL /\ a.prev[x] = NULL
  <2>1. n + 1 \in 1 .. n + 1 /\ \A i \in 1 .. n : i \in 1 .. n + 1
    BY <1>1
  <2>2. x # e /\ \A i \in 1 .. n : o[i] # x
    BY <1>5, <1>7, <2>1
  <2>3. l.next[x] = NULL /\ l.prev[x] = NULL
    BY <2>2 DEF OnList
  <2>4. l.first # NULL => l.last # x
    <3>1. n # 0 => n \in 1 .. n
      BY <1>1
    <3>2. QED
      BY <1>1, <2>2, <3>1 DEF Chain
  <2>5. QED
    BY <1>3, <2>2, <2>3, <2>4
<1>8. QED
  BY <1>4, <1>5, <1>6, <1>7 DEF OnList, a, q

(* dlist_prepend.                                                          *)
LEMMA PrependIs ==
  ASSUME StructuresAssumption, NEW l, NEW o, OnList(l, o), NEW e \in El, \A i \in 1 .. Len(o) : o[i] # e
  PROVE  OnList(List!DlPrepend(l, e), <<e>> \o o)
<1> DEFINE n == Len(o)
           a == List!DlPrepend(l, e)
           q == <<e>> \o o
<1>1. /\ Chain(NULL, El, l.first, l.last, l.next, l.prev, o, n) /\ o \in Seq(El) /\ n \in Nat /\ NULL \notin El
      /\ l \in List!DlType(El)
  BY DEF OnList, StructuresAssumption
<1>2. /\ l.first \in El \cup {NULL} /\ l.last \in El \cup {NULL}
      /\ l.next \in [El -> El \cup {NULL}] /\ l.prev \in [El -> El \cup {NULL}]
  BY <1>1, ListFields
<1>3. /\ a.first = e /\ a.last = (IF l.first = NULL THEN e ELSE l.last)
      /\ \A y \in El : a.next[y] = IF y = e THEN l.first ELSE l.next[y]
      /\ \A y \in El : a.prev[y] = IF y = e THEN NULL ELSE IF y = l.first THEN e ELSE l.prev[y]
  BY <1>2 DEF List!DlPrepend
<1>4. a \in List!DlType(El)
  BY <1>1, <1>2 DEF List!DlPrepend, List!DlType
<1>5. /\ q \in Seq(El) /\ Len(q) = n + 1 /\ q[1] = e
      /\ \A i \in 1 .. n : q[i + 1] = o[i]
  BY <1>1
<1> HIDE DEF a, q
<1>6. Chain(NULL, El, a.first, a.last, a.next, a.prev, q, n + 1)
  <2>1. Chain(NULL, El, e, IF l.first = NULL THEN e ELSE l.last, a.next, a.prev, q, n + 1)
    <3>1. \A y \in El : a.next[y] = IF y = e THEN l.first ELSE l.next[y]
      BY <1>3
    <3>2. \A y \in El : a.prev[y] = IF y = e THEN NULL ELSE IF y = l.first THEN e ELSE l.prev[y]
      BY <1>3
    <3>3. Chain(NULL, El, l.first, l.last, l.next, l.prev, o, n) /\ NULL \notin El /\ e \in El /\ \A i \in 1 .. n : o[i] # e
      BY <1>1
    <3>4. q[1] = e /\ \A i \in 1 .. n : q[i + 1] = o[i]
      BY <1>5
    <3> HIDE DEF n
    <3>5. QED
      BY <3>1, <3>2, <3>3, <3>4, ChainFront
  <2>2. QED
    BY <1>3, <2>1
<1>7. ASSUME NEW x \in El, \A i \in 1 .. Len(q) : q[i] # x PROVE a.next[x] = NULL /\ a.prev[x] = NULL
  <2>1. 1 \in 1 .. n + 1 /\ \A i \in 1 .. n : i + 1 \in 1 .. n + 1
    BY <1>1
  <2>2. x # e /\ \A i \in 1 .. n : o[i] # x
    BY <1>5, <1>7, <2>1
  <2>3. l.next[x] = NULL /\ l.prev[x] = NULL
    BY <2>2 DEF OnList
  <2>4. l.first # x
    <3>1. n # 0 => 1 \in 1 .. n
      BY <1>1
    <3>2. QED
      BY <1>1, <2>2, <3>1 DEF Chain
  <2>5. QED
    BY <1>3, <2>2, <2>3, <2>4
<1>8. QED
  BY <1>4, <1>5, <1>6, <1>7 DEF OnList, a, q

(* dlist_unlink of an element that is on the list.                         *)
LEMMA UnlinkIs ==
  ASSUME StructuresAssumption, NEW l, NEW o, OnList(l, o), NEW e \in El, NEW i \in 1 .. Len(o), o[i] = e
  PROVE  /\ OnList(List!DlUnlink(l, e), RemoveAt(o, i))
         /\ \A k \in 1 .. Len(RemoveAt(o, i)) : RemoveAt(o, i)[k] # e
<1>1. PICK n : n = Len(o) /\ n \in Nat
  BY DEF OnList
<1>2. PICK q : q = RemoveAt(o, i)
  OBVIOUS
<1>3. PICK u : u = List!DlUnlink(l, e)
  OBVIOUS
<1>4. /\ Chain(NULL, El, l.first, l.last, l.next, l.prev, o, n) /\ NULL \notin El /\ i \in 1 .. n
      /\ l \in List!DlType(El)
  BY <1>1 DEF OnList, StructuresAssumption
<1>5. /\ l.first \in El \cup {NULL} /\ l.last \in El \cup {NULL}
      /\ l.next \in [El -> El \cup {NULL}] /\ l.prev \in [El -> El \cup {NULL}]
  BY <1>4, ListFields
<1>6. /\ u.first = (IF l.prev[e] = NULL THEN l.next[e] ELSE l.first)
      /\ u.last = (IF l.next[e] = NULL THEN l.prev[e] ELSE l.last)
      /\ \A y \in El : u.next[y] = IF y = e THEN NULL ELSE IF y = l.prev[e] THEN l.next[e] ELSE l.next[y]
      /\ \A y \in El : u.prev[y] = IF y = e THEN NULL ELSE IF y = l.next[e] THEN l.prev[e] ELSE l.prev[y]
  BY <1>3, <1>5 DEF List!DlUnlink
<1>7. u \in List!DlType(El)
  BY <1>3, <1>5 DEF List!DlUnlink, List!DlType
<1>8. /\ q \in Seq(El) /\ Len(q) = n - 1
      /\ \A k \in 1 .. n - 1 : q[k] = IF k < i THEN o[k] ELSE o[k + 1]
  <2>1. o \in Seq(El)
    BY DEF OnList
  <2>2. QED
    BY <1>1, <1>2, <2>1, RemoveAtIs
<1>9. Chain(NULL, El, u.first, u.last, u.next, u.prev, q, n - 1)
  <2>1. Joined(NULL, El, e, l.first, l.last, l.next, l.prev, u.first, u.last, u.next, u.prev)
    BY <1>6 DEF Joined
  <2>2. Dropped(o, i, n, q)
    BY <1>8 DEF Dropped
  <2>3. Chain(NULL, El, l.first, l.last, l.next, l.prev, o, n) /\ NULL \notin El /\ i \in 1 .. n /\ e = o[i]
    BY <1>4
  <2>4. QED
    BY <2>1, <2>2, <2>3, ChainLess
<1>10. ASSUME NEW k \in 1 .. n - 1 PROVE q[k] # e
  <2>1. PICK f \in 1 .. n : f # i /\ q[k] = o[f]
    <3>1. k \in 1 .. n /\ k + 1 \in 1 .. n /\ (k < i => k # i) /\ (~(k < i) => k + 1 # i)
      BY <1>1, <1>4
    <3>2. QED
      BY <1>8, <3>1
  <2>2. QED
    BY <1>4, <2>1 DEF Chain
<1>11. ASSUME NEW x \in El, \A k \in 1 .. n - 1 : q[k] # x PROVE u.next[x] = NULL /\ u.prev[x] = NULL
  <2>1. CASE x = e
    BY <1>6, <2>1
  <2>2. CASE x # e
    <3>1. ASSUME NEW k \in 1 .. n PROVE o[k] # x
      <4>1. CASE k = i
        BY <2>2, <4>1
      <4>2. CASE k < i
        <5>1. k \in 1 .. n - 1
          BY <1>1, <1>4, <4>2
        <5>2. QED
          BY <1>8, <1>11, <4>2, <5>1
      <4>3. CASE i < k
        <5>1. k - 1 \in 1 .. n - 1 /\ ~(k - 1 < i) /\ k - 1 + 1 = k
          BY <1>1, <1>4, <4>3
        <5>2. q[k - 1] = o[k]
          BY <1>8, <5>1
        <5>3. QED
          BY <1>11, <5>1, <5>2
      <4>4. k = i \/ k < i \/ i < k
        BY <1>1, <1>4
      <4>5. QED
        BY <4>1, <4>2, <4>3, <4>4
    <3>2. l.next[x] = NULL /\ l.prev[x] = NULL
      BY <1>1, <3>1 DEF OnList
    <3>3. x # l.prev[e] /\ x # l.next[e]
      <4>1. l.prev[e] = (IF i = 1 THEN NULL ELSE o[i - 1]) /\ l.next[e] = (IF i = n THEN NULL ELSE o[i + 1])
        BY <1>4 DEF Chain
      <4>2. (i # 1 => i - 1 \in 1 .. n) /\ (i # n => i + 1 \in 1 .. n) /\ x # NULL
        BY <1>1, <1>4
      <4>3. QED
        BY <3>1, <4>1, <4>2
    <3>4. QED
      BY <1>6, <2>2, <3>2, <3>3
  <2>3. QED
    BY <2>1, <2>2
<1>12. OnList(u, q)
  BY <1>7, <1>8, <1>9, <1>11 DEF OnList
<1>13. QED
  BY <1>2, <1>3, <1>8, <1>10, <1>12

(* One operation on a list, and what becomes of the order.                 *)
OrderStep(o, q) ==
  \E e \in El :
    \/ (\A i \in 1 .. Len(o) : o[i] # e) /\ q \in {o \o <<e>>, <<e>> \o o}
    \/ \E i \in 1 .. Len(o) :
         o[i] = e /\ q \in {RemoveAt(o, i), RemoveAt(o, i) \o <<e>>, <<e>> \o RemoveAt(o, i)}

LEMMA ListStep ==
  ASSUME StructuresAssumption, NEW o, OnList(list, o), List!Next
  PROVE  \E q : OnList(list', q) /\ OrderStep(o, q)
<1>1. PICK e \in El : List!AppendEl(e) \/ List!PrependEl(e) \/ List!UnlinkEl(e) \/ List!RelinkTail(e) \/ List!RelinkHead(e)
  BY DEF List!Next
<1>2. CASE List!AppendEl(e) \/ List!PrependEl(e)
  <2>1. \A i \in 1 .. Len(o) : o[i] # e
    BY <1>2, IsLinkedIs DEF List!AppendEl, List!PrependEl
  <2>2. CASE List!AppendEl(e)
    <3>1. OnList(list', o \o <<e>>)
      BY <2>1, <2>2, AppendIs DEF List!AppendEl
    <3>2. OrderStep(o, o \o <<e>>)
      BY <2>1, Zenon DEF OrderStep
    <3>3. QED
      BY <3>1, <3>2
  <2>3. CASE List!PrependEl(e)
    <3>1. OnList(list', <<e>> \o o)
      BY <2>1, <2>3, PrependIs DEF List!PrependEl
    <3>2. OrderStep(o, <<e>> \o o)
      BY <2>1, Zenon DEF OrderStep
    <3>3. QED
      BY <3>1, <3>2
  <2>4. QED
    BY <1>2, <2>2, <2>3
<1>3. CASE List!UnlinkEl(e) \/ List!RelinkTail(e) \/ List!RelinkHead(e)
  <2>1. PICK i \in 1 .. Len(o) : o[i] = e
    BY <1>3, IsLinkedIs DEF List!UnlinkEl, List!RelinkTail, List!RelinkHead
  <2>2. PICK r, u : r = RemoveAt(o, i) /\ u = List!DlUnlink(list, e)
    OBVIOUS
  <2>3. OnList(u, r) /\ \A k \in 1 .. Len(r) : r[k] # e
    BY <2>1, <2>2, UnlinkIs
  <2>4. OrderStep(o, r) /\ OrderStep(o, r \o <<e>>) /\ OrderStep(o, <<e>> \o r)
    BY <2>1, <2>2, Zenon DEF OrderStep
  <2>5. CASE List!UnlinkEl(e)
    <3>1. list' = u
      BY <2>2, <2>5 DEF List!UnlinkEl
    <3>2. QED
      BY <2>3, <2>4, <3>1
  <2>6. CASE List!RelinkTail(e)
    <3>1. list' = List!DlAppend(u, e)
      BY <2>2, <2>6 DEF List!RelinkTail, List!DlRelinkTail
    <3>2. OnList(list', r \o <<e>>)
      BY <2>3, <3>1, AppendIs
    <3>3. QED
      BY <2>4, <3>2
  <2>7. CASE List!RelinkHead(e)
    <3>1. list' = List!DlPrepend(u, e)
      BY <2>2, <2>7 DEF List!RelinkHead, List!DlRelinkHead
    <3>2. OnList(list', <<e>> \o r)
      BY <2>3, <3>1, PrependIs
    <3>3. QED
      BY <2>4, <3>2
  <2>8. QED
    BY <1>3, <2>5, <2>6, <2>7
<1>4. QED
  BY <1>1, <1>2, <1>3

(* Such a step is one of ElementOrder.                                     *)
LEMMA OrderStepIs ==
  ASSUME StructuresAssumption, NEW o, OnList(list, o), NEW q, OnList(list, q)', OrderStep(o, q)
  PROVE  List!Elements!Next
<1>1. List!Forward = o
  BY WalksAre DEF List!Forward
<1>2. List!Forward' = q
  <2>1. OnList(list', q) /\ (List!Forward)' = List!Walk(list'.first, list'.next)
    BY DEF OnList, List!Forward
  <2>2. QED
    BY <2>1, WalksAre
<1>3. PICK e \in El :
        \/ (\A i \in 1 .. Len(o) : o[i] # e) /\ q \in {o \o <<e>>, <<e>> \o o}
        \/ \E i \in 1 .. Len(o) :
             o[i] = e /\ q \in {RemoveAt(o, i), RemoveAt(o, i) \o <<e>>, <<e>> \o RemoveAt(o, i)}
  BY Zenon DEF OrderStep
<1>4. List!Elements!Member(e) <=> \E i \in 1 .. Len(o) : o[i] = e
  <2>1. DOMAIN o = 1 .. Len(o)
    BY DEF OnList
  <2>2. List!Elements!Member(e) <=> \E i \in DOMAIN o : o[i] = e
    BY <1>1, Zenon DEF List!Elements!Member, List!Elements!ToSet
  <2>3. QED
    BY <2>1, <2>2, Zenon
<1>5. CASE (\A i \in 1 .. Len(o) : o[i] # e) /\ q \in {o \o <<e>>, <<e>> \o o}
  BY <1>1, <1>2, <1>4, <1>5, Zenon DEF List!Elements!Next
<1>6. ASSUME NEW i \in 1 .. Len(o), o[i] = e, q \in {RemoveAt(o, i), RemoveAt(o, i) \o <<e>>, <<e>> \o RemoveAt(o, i)}
      PROVE  List!Elements!Next
  <2>1. (CHOOSE k \in DOMAIN o : o[k] = e) = i
    <3>1. DOMAIN o = 1 .. Len(o) /\ \A k \in 1 .. Len(o) : o[k] = e => k = i
      BY <1>6 DEF OnList, Chain
    <3>2. QED
      BY <1>6, <3>1
  <2>2. List!Elements!Without(e) = RemoveAt(o, i)
    BY <1>1, <2>1, Zenon DEF List!Elements!Without, List!Elements!RemoveAt, RemoveAt
  <2>3. List!Elements!Member(e)
    BY <1>4, <1>6
  <2>4. QED
    BY <1>2, <1>6, <2>2, <2>3, Zenon DEF List!Elements!Next
<1>7. QED
  BY <1>3, <1>5, <1>6

-----------------------------------------------------------------------------
(* The hash table.                                                         *)
Place == Table!Place
Ptr == Place \cup {NULL}
TableType == [h : [Place -> Nat], head : Ptr, tail : Ptr, prev : [Place -> Ptr], next : [Place -> Ptr]]

(* Digest d belongs to the bucket of place p.                              *)
Belongs(d, p) == Table!BktNo(d) = p \div PerBkt

InUse(t, s, n) ==
  /\ t \in TableType
  /\ Chain(NULL, Place, t.head, t.tail, t.next, t.prev, s, n)
  /\ \A p \in Place : t.h[p] # 0 <=> \E i \in 1 .. n : s[i] = p
  /\ \A p \in Place : t.h[p] # 0 => Belongs(t.h[p], p)

TableOk(t) == \E s, n : InUse(t, s, n)
TableInv == TableOk(ht)

LEMMA PlaceFacts ==
  ASSUME StructuresAssumption
  PROVE  Place \subseteq Nat /\ IsFiniteSet(Place) /\ NULL \notin Place
<1>1. Place \subseteq Nat /\ NULL \notin Nat
  BY DEF Place, Table!Place, StructuresAssumption
<1>2. NbBkts * PerBkt \in Nat /\ NbBkts * PerBkt - 1 \in Int
  <2>1. NbBkts \in Nat /\ PerBkt \in Nat
    BY DEF StructuresAssumption
  <2>2. QED
    BY <2>1
<1>3. IsFiniteSet(Place)
  BY <1>2, FS_Interval DEF Place, Table!Place
<1>4. QED
  BY <1>1, <1>3

LEMMA TableFields ==
  ASSUME NEW t, t \in TableType
  PROVE  /\ t.h \in [Place -> Nat] /\ t.head \in Ptr /\ t.tail \in Ptr
         /\ t.prev \in [Place -> Ptr] /\ t.next \in [Place -> Ptr]
BY DEF TableType

(* The pointers of an element that becomes the last, or leaves.            *)
LEMMA LinkedIs ==
  ASSUME NEW t, t \in TableType, NEW p \in Place
  PROVE  LET u == Table!Linked(t, p)
         IN  /\ u \in TableType /\ u.h = t.h
             /\ u.head = (IF t.head = NULL THEN p ELSE t.head) /\ u.tail = p
             /\ \A q \in Place : u.next[q] = IF q = p THEN NULL ELSE IF t.head # NULL /\ q = t.tail THEN p ELSE t.next[q]
             /\ \A q \in Place : u.prev[q] = IF q = p THEN IF t.head = NULL THEN NULL ELSE t.tail ELSE t.prev[q]
<1>1. /\ t.h \in [Place -> Nat] /\ t.head \in Ptr /\ t.tail \in Ptr
      /\ t.prev \in [Place -> Ptr] /\ t.next \in [Place -> Ptr] /\ p \in Ptr /\ NULL \in Ptr
  BY TableFields DEF Ptr
<1>2. QED
  BY <1>1 DEF Table!Linked, TableType, Place

LEMMA UnlinkedIs ==
  ASSUME NEW t, t \in TableType, NEW p \in Place
  PROVE  LET u == Table!Unlinked(t, p)
         IN  /\ u \in TableType /\ u.h = t.h
             /\ u.head = (IF t.prev[p] = NULL THEN t.next[p] ELSE t.head)
             /\ u.tail = (IF t.next[p] = NULL THEN t.prev[p] ELSE t.tail)
             /\ \A q \in Place : u.next[q] = IF q = t.prev[p] THEN t.next[p] ELSE t.next[q]
             /\ \A q \in Place : u.prev[q] = IF q = t.next[p] THEN t.prev[p] ELSE t.prev[q]
<1>1. /\ t.h \in [Place -> Nat] /\ t.head \in Ptr /\ t.tail \in Ptr
      /\ t.prev \in [Place -> Ptr] /\ t.next \in [Place -> Ptr] /\ t.prev[p] \in Ptr /\ t.next[p] \in Ptr
  BY TableFields
<1>2. QED
  BY <1>1 DEF Table!Unlinked, TableType, Place

(* A place gets a digest.                                                  *)
LEMMA DigestIs ==
  ASSUME NEW t, t \in TableType, NEW p \in Place, NEW d \in Nat
  PROVE  LET u == [t EXCEPT !.h[p] = d]
         IN  /\ u \in TableType /\ u.head = t.head /\ u.tail = t.tail /\ u.prev = t.prev /\ u.next = t.next
             /\ u.h = [t.h EXCEPT ![p] = d]
             /\ u.h[p] = d /\ \A q \in Place : q # p => u.h[q] = t.h[q]
<1>1. t.h \in [Place -> Nat]
  BY TableFields
<1>2. QED
  BY <1>1 DEF TableType

(* A digest goes into a free place of its bucket.                          *)
LEMMA PutIn ==
  ASSUME StructuresAssumption, NEW t, TableOk(t), NEW p \in Place, t.h[p] = 0,
         NEW d \in Nat, d # 0, Belongs(d, p)
  PROVE  TableOk(Table!Linked([t EXCEPT !.h[p] = d], p))
<1>1. PICK s, n : InUse(t, s, n)
  BY DEF TableOk
<1>2. t \in TableType /\ Chain(NULL, Place, t.head, t.tail, t.next, t.prev, s, n) /\ n \in Nat
  BY <1>1 DEF InUse, Chain
<1>3. PICK v : v = [t EXCEPT !.h[p] = d]
  OBVIOUS
<1>4. /\ v \in TableType /\ v.head = t.head /\ v.tail = t.tail /\ v.prev = t.prev /\ v.next = t.next
      /\ v.h[p] = d /\ \A q \in Place : q # p => v.h[q] = t.h[q]
  BY <1>2, <1>3, DigestIs
<1>5. PICK u : u = Table!Linked(v, p)
  OBVIOUS
<1>6. /\ u \in TableType /\ u.h = v.h
      /\ u.head = (IF t.head = NULL THEN p ELSE t.head) /\ u.tail = p
      /\ \A q \in Place : u.next[q] = IF q = p THEN NULL ELSE IF t.head # NULL /\ q = t.tail THEN p ELSE t.next[q]
      /\ \A q \in Place : u.prev[q] = IF q = p THEN IF t.head = NULL THEN NULL ELSE t.tail ELSE t.prev[q]
  BY <1>4, <1>5, LinkedIs
<1>7. \A i \in 1 .. n : s[i] # p
  BY <1>1 DEF InUse
<1>8. PICK r : r = [i \in 1 .. n + 1 |-> IF i = n + 1 THEN p ELSE s[i]]
  OBVIOUS
<1>9. r[n + 1] = p /\ \A i \in 1 .. n : r[i] = s[i]
  <2>1. n + 1 \in 1 .. n + 1 /\ \A i \in 1 .. n : i \in 1 .. n + 1 /\ i # n + 1
    BY <1>2
  <2>2. QED
    BY <1>8, <2>1
<1>10. Chain(NULL, Place, u.head, u.tail, u.next, u.prev, r, n + 1)
  <2>1. \A q \in Place : u.next[q] = IF q = p THEN NULL ELSE IF t.head # NULL /\ q = t.tail THEN p ELSE t.next[q]
    BY <1>6
  <2>2. \A q \in Place : u.prev[q] = IF q = p THEN IF t.head = NULL THEN NULL ELSE t.tail ELSE t.prev[q]
    BY <1>6
  <2>3. NULL \notin Place
    BY PlaceFacts
  <2>4. Chain(NULL, Place, IF t.head = NULL THEN p ELSE t.head, p, u.next, u.prev, r, n + 1)
    BY <1>2, <1>7, <1>9, <2>1, <2>2, <2>3, ChainMore
  <2>5. QED
    BY <1>6, <2>4
<1>11. ASSUME NEW q \in Place PROVE u.h[q] # 0 <=> \E i \in 1 .. n + 1 : r[i] = q
  <2>1. n + 1 \in 1 .. n + 1 /\ \A i \in 1 .. n + 1 : i \in 1 .. n \/ i = n + 1
    BY <1>2
  <2>2. \A i \in 1 .. n : i \in 1 .. n + 1
    BY <1>2
  <2>3. CASE q = p
    BY <1>4, <1>6, <1>9, <2>1, <2>3
  <2>4. CASE q # p
    <3>1. u.h[q] = t.h[q]
      BY <1>4, <1>6, <2>4
    <3>2. t.h[q] # 0 <=> \E i \in 1 .. n : s[i] = q
      BY <1>1 DEF InUse
    <3>3. QED
      BY <1>9, <2>1, <2>2, <2>4, <3>1, <3>2
  <2>5. QED
    BY <2>3, <2>4
<1>12. \A q \in Place : u.h[q] # 0 => Belongs(u.h[q], q)
  BY <1>1, <1>4, <1>6 DEF InUse
<1>13. InUse(u, r, n + 1)
  BY <1>6, <1>10, <1>11, <1>12 DEF InUse
<1>14. QED
  BY <1>3, <1>5, <1>13 DEF TableOk

(* A digest leaves its place.                                              *)
LEMMA TakeOut ==
  ASSUME StructuresAssumption, NEW t, TableOk(t), NEW p \in Place, t.h[p] # 0
  PROVE  TableOk([Table!Unlinked(t, p) EXCEPT !.h[p] = 0])
<1>1. PICK s, n : InUse(t, s, n)
  BY DEF TableOk
<1>2. t \in TableType /\ Chain(NULL, Place, t.head, t.tail, t.next, t.prev, s, n) /\ n \in Nat
  BY <1>1 DEF InUse, Chain
<1>3. PICK v : v = Table!Unlinked(t, p)
  OBVIOUS
<1>4. /\ v \in TableType /\ v.h = t.h
      /\ v.head = (IF t.prev[p] = NULL THEN t.next[p] ELSE t.head)
      /\ v.tail = (IF t.next[p] = NULL THEN t.prev[p] ELSE t.tail)
      /\ \A q \in Place : v.next[q] = IF q = t.prev[p] THEN t.next[p] ELSE t.next[q]
      /\ \A q \in Place : v.prev[q] = IF q = t.next[p] THEN t.prev[p] ELSE t.prev[q]
  BY <1>2, <1>3, UnlinkedIs
<1>5. PICK u : u = [v EXCEPT !.h[p] = 0]
  OBVIOUS
<1>6. /\ u \in TableType /\ u.head = v.head /\ u.tail = v.tail /\ u.prev = v.prev /\ u.next = v.next
      /\ u.h[p] = 0 /\ \A q \in Place : q # p => u.h[q] = v.h[q]
  BY <1>4, <1>5, DigestIs
<1>7. PICK i \in 1 .. n : s[i] = p
  BY <1>1 DEF InUse
<1>8. PICK r : r = [k \in 1 .. n - 1 |-> IF k < i THEN s[k] ELSE s[k + 1]]
  OBVIOUS
<1>9. \A k \in 1 .. n - 1 : r[k] = IF k < i THEN s[k] ELSE s[k + 1]
  BY <1>8
<1>10. Chain(NULL, Place, u.head, u.tail, u.next, u.prev, r, n - 1)
  <2>1. Joined(NULL, Place, p, t.head, t.tail, t.next, t.prev, v.head, v.tail, v.next, v.prev)
    BY <1>4 DEF Joined
  <2>2. Dropped(s, i, n, r)
    BY <1>9 DEF Dropped
  <2>3. NULL \notin Place /\ p = s[i] /\ i \in 1 .. n
    BY <1>7, PlaceFacts
  <2>4. Chain(NULL, Place, v.head, v.tail, v.next, v.prev, r, n - 1)
    BY <1>2, <2>1, <2>2, <2>3, ChainLess
  <2>5. QED
    BY <1>6, <2>4
<1>11. ASSUME NEW q \in Place PROVE u.h[q] # 0 <=> \E k \in 1 .. n - 1 : r[k] = q
  <2>1. ASSUME NEW k \in 1 .. n - 1
        PROVE  \E f \in 1 .. n : f # i /\ r[k] = s[f]
    <3>1. k \in 1 .. n /\ k + 1 \in 1 .. n /\ (k < i => k # i) /\ (~(k < i) => k + 1 # i)
      BY <1>2
    <3>2. QED
      BY <1>9, <3>1
  <2>2. ASSUME NEW f \in 1 .. n, f # i
        PROVE  \E k \in 1 .. n - 1 : r[k] = s[f]
    <3>1. CASE f < i
      <4>1. f \in 1 .. n - 1
        BY <1>2, <3>1
      <4>2. QED
        BY <1>9, <3>1, <4>1
    <3>2. CASE i < f
      <4>1. f - 1 \in 1 .. n - 1 /\ ~(f - 1 < i) /\ f - 1 + 1 = f
        BY <1>2, <3>2
      <4>2. QED
        BY <1>9, <4>1
    <3>3. f < i \/ i < f
      BY <1>2, <2>2
    <3>4. QED
      BY <3>1, <3>2, <3>3
  <2>3. CASE q = p
    <3>1. \A k \in 1 .. n - 1 : r[k] # p
      BY <1>2, <1>7, <2>1 DEF Chain
    <3>2. QED
      BY <1>6, <2>3, <3>1
  <2>4. CASE q # p
    <3>1. u.h[q] = t.h[q]
      BY <1>4, <1>6, <2>4
    <3>2. t.h[q] # 0 <=> \E f \in 1 .. n : s[f] = q
      BY <1>1 DEF InUse
    <3>3. QED
      BY <1>7, <2>1, <2>2, <2>4, <3>1, <3>2
  <2>5. QED
    BY <2>3, <2>4
<1>12. \A q \in Place : u.h[q] # 0 => Belongs(u.h[q], q)
  BY <1>1, <1>4, <1>6 DEF InUse
<1>13. InUse(u, r, n - 1)
  BY <1>6, <1>10, <1>11, <1>12 DEF InUse
<1>14. QED
  BY <1>3, <1>5, <1>13 DEF TableOk

(* The first of some places.                                               *)
LEMMA FirstOfIs ==
  ASSUME NEW T, T \subseteq Nat
  PROVE  IF T = {} THEN Table!FirstOf(T) = NULL ELSE Table!FirstOf(T) \in T
<1>1. CASE T = {}
  BY <1>1 DEF Table!FirstOf
<1>2. CASE T # {}
  <2>1. \E p \in T : \A q \in T : p <= q
    BY <1>2, NatLeast
  <2>2. Table!FirstOf(T) = CHOOSE p \in T : \A q \in T : p <= q
    BY <1>2 DEF Table!FirstOf
  <2>3. QED
    BY <1>2, <2>1, <2>2
<1>3. QED
  BY <1>1, <1>2

(* Where a digest can be found, and where there is room for one.           *)
LEMMA LookupIs ==
  ASSUME StructuresAssumption, NEW t, TableOk(t), NEW d \in Nat, d # 0
  PROVE  LET at == {p \in Place : t.h[p] = d}
         IN  IF at = {} THEN Table!Lookup(t, d) = NULL ELSE Table!Lookup(t, d) \in at
<1>1. PICK s, n : InUse(t, s, n)
  BY DEF TableOk
<1> DEFINE at == {p \in Place : t.h[p] = d}
           found == {p \in Table!InBkt(Table!BktNo(d)) : d # 0 /\ t.h[p] = d}
<1>2. found = at
  <2>1. \A p \in Place : t.h[p] = d => Table!BktNo(d) = p \div PerBkt
    BY <1>1 DEF InUse, Belongs
  <2>2. QED
    BY <2>1 DEF Table!InBkt, Place
<1>3. at \subseteq Nat
  BY PlaceFacts
<1>4. Table!Lookup(t, d) = Table!FirstOf(at)
  BY <1>2, Zenon DEF Table!Lookup
<1> HIDE DEF at, found
<1>5. IF at = {} THEN Table!FirstOf(at) = NULL ELSE Table!FirstOf(at) \in at
  BY <1>3, FirstOfIs
<1>6. IF at = {} THEN Table!Lookup(t, d) = NULL ELSE Table!Lookup(t, d) \in at
  BY <1>4, <1>5
<1>7. QED
  BY <1>6 DEF at

LEMMA FreePlaceIs ==
  ASSUME StructuresAssumption, NEW t, NEW d, Table!FreePlace(t, d) # NULL
  PROVE  LET p == Table!FreePlace(t, d) IN p \in Place /\ t.h[p] = 0 /\ Belongs(d, p)
<1> DEFINE free == {p \in Table!InBkt(Table!BktNo(d)) : t.h[p] = 0}
<1>1. free \subseteq Nat
  BY PlaceFacts DEF Table!InBkt, Place
<1>2. Table!FreePlace(t, d) = Table!FirstOf(free)
  BY Zenon DEF Table!FreePlace
<1>3. IF free = {} THEN Table!FirstOf(free) = NULL ELSE Table!FirstOf(free) \in free
  <2> HIDE DEF free
  <2>1. QED
    BY <1>1, FirstOfIs
<1>4. Table!FreePlace(t, d) \in free
  <2> HIDE DEF free
  <2>1. QED
    BY <1>2, <1>3
<1>5. QED
  BY <1>4 DEF Table!InBkt, Belongs, Place

(* The operations.                                                         *)
LEMMA AddStep ==
  ASSUME StructuresAssumption, TableInv, NEW d \in Digest, Table!Add(d)
  PROVE  TableInv'
<1>1. d \in Nat /\ d # 0
  BY DEF StructuresAssumption
<1>2. PICK p : p = Table!FreePlace(ht, d)
  OBVIOUS
<1>3. p # NULL /\ ht' = Table!Linked([ht EXCEPT !.h[p] = d], p)
  BY <1>2, Zenon DEF Table!Add
<1>4. p \in Place /\ ht.h[p] = 0 /\ Belongs(d, p)
  BY <1>2, <1>3, FreePlaceIs
<1>5. TableOk(ht')
  BY <1>1, <1>3, <1>4, PutIn DEF TableInv
<1>6. QED
  BY <1>5 DEF TableInv, TableOk, InUse

LEMMA RemoveStep ==
  ASSUME StructuresAssumption, TableInv, NEW d \in Digest, Table!Remove(d)
  PROVE  TableInv'
<1>1. d \in Nat /\ d # 0
  BY DEF StructuresAssumption
<1>2. PICK p : p = Table!Lookup(ht, d)
  OBVIOUS
<1>3. p # NULL /\ ht' = [Table!Unlinked(ht, p) EXCEPT !.h[p] = 0]
  BY <1>2, Zenon DEF Table!Remove
<1>4. p \in Place /\ ht.h[p] = d
  BY <1>1, <1>2, <1>3, LookupIs DEF TableInv
<1>5. TableOk(ht')
  BY <1>1, <1>3, <1>4, TakeOut DEF TableInv
<1>6. QED
  BY <1>5 DEF TableInv, TableOk, InUse

LEMMA FeedStep ==
  ASSUME StructuresAssumption, TableInv, NEW p \in Place, NEW d \in Digest \cup {0}, Table!Feed(p, d)
  PROVE  TableInv'
<1>1. PICK t : t = ht
  OBVIOUS
<1>2. d \in Nat /\ TableOk(t) /\ t \in TableType /\ t.h \in [Place -> Nat]
  <2>1. d \in Nat /\ TableOk(t)
    BY <1>1 DEF StructuresAssumption, TableInv
  <2>2. t \in TableType
    BY <2>1 DEF TableOk, InUse
  <2>3. QED
    BY <2>1, <2>2, TableFields
<1>3. PICK v : v = IF t.h[p] = 0 THEN t ELSE Table!Unlinked(t, p)
  OBVIOUS
<1>4. PICK u : u = [v EXCEPT !.h[p] = 0]
  OBVIOUS
<1>5. PICK w : w = [v EXCEPT !.h[p] = d]
  OBVIOUS
<1>6. v \in TableType
  BY <1>2, <1>3, UnlinkedIs
<1>7. TableOk(u) /\ u.h[p] = 0 /\ u \in TableType
  <2>1. u.h[p] = 0 /\ u \in TableType
    BY <1>4, <1>6, DigestIs
  <2>2. CASE t.h[p] = 0
    <3>1. [t EXCEPT !.h[p] = 0] = t
      BY <1>2, <2>2 DEF TableType
    <3>2. QED
      BY <1>2, <1>3, <1>4, <2>1, <2>2, <3>1
  <2>3. CASE t.h[p] # 0
    <3>1. u = [Table!Unlinked(t, p) EXCEPT !.h[p] = 0]
      BY <1>3, <1>4, <2>3
    <3>2. QED
      BY <1>2, <2>1, <2>3, <3>1, TakeOut
  <2>4. QED
    BY <2>2, <2>3
<1>8. w = [u EXCEPT !.h[p] = d]
  <2>1. v.h \in [Place -> Nat]
    BY <1>6, TableFields
  <2>2. QED
    BY <1>4, <1>5, <1>6, <2>1 DEF TableType
<1>9. (d # 0 => Belongs(d, p)) /\ ht' = IF d = 0 THEN w ELSE Table!Linked(w, p)
  BY <1>1, <1>3, <1>5, Zenon DEF Table!Feed, Belongs
<1>10. TableOk(ht')
  <2>1. CASE d = 0
    BY <1>4, <1>5, <1>7, <1>9, <2>1
  <2>2. CASE d # 0
    BY <1>2, <1>7, <1>8, <1>9, <2>2, PutIn
  <2>3. QED
    BY <2>1, <2>2
<1>11. QED
  BY <1>10 DEF TableInv, TableOk, InUse

(* What foreach_htable_el meets.                                           *)
LEMMA WalkIs ==
  ASSUME StructuresAssumption, NEW t, NEW s, NEW n, InUse(t, s, n)
  PROVE  Len(Table!Walk(t)) = n /\ \A i \in 1 .. n : Table!Walk(t)[i] = s[i]
<1>1. Table!Walk(t) = Firsts(s, n)
  BY PlaceFacts, TableWalkIs DEF InUse, Place
<1>2. n \in Nat
  BY DEF InUse, Chain
<1>3. QED
  BY <1>1, <1>2 DEF Firsts

LEMMA ClearStep ==
  ASSUME StructuresAssumption, TableInv, Table!Clear
  PROVE  TableInv'
<1>1. PICK s, n : InUse(ht, s, n)
  BY DEF TableInv, TableOk
<1>2. ht \in TableType /\ ht.h \in [Place -> Nat] /\ NULL \in Ptr
  BY <1>1, TableFields DEF InUse, Ptr
<1>3. PICK h : h = [p \in Place |-> IF \E i \in 1 .. Len(Table!Walk(ht)) : Table!Walk(ht)[i] = p THEN 0 ELSE ht.h[p]]
  OBVIOUS
<1>4. \A p \in Place : h[p] = 0
  <2>1. Len(Table!Walk(ht)) = n /\ \A i \in 1 .. n : Table!Walk(ht)[i] = s[i]
    BY <1>1, WalkIs
  <2>2. \A p \in Place : ht.h[p] # 0 => \E i \in 1 .. n : s[i] = p
    BY <1>1 DEF InUse
  <2>3. QED
    BY <1>3, <2>1, <2>2
<1>5. ht' = [ht EXCEPT !.h = h, !.head = NULL, !.tail = NULL]
  BY <1>3, Zenon DEF Table!Clear, Place
<1>6. ht' \in TableType /\ ht'.h = h /\ ht'.head = NULL /\ ht'.tail = NULL
  <2>1. h \in [Place -> Nat]
    BY <1>2, <1>3
  <2>2. QED
    BY <1>2, <1>5, <2>1 DEF TableType
<1>7. InUse(ht', << >>, 0)
  BY <1>4, <1>6 DEF InUse, Chain
<1>8. QED
  BY <1>7 DEF TableInv, TableOk, InUse

LEMMA TableStep ==
  ASSUME StructuresAssumption, TableInv, Table!Next
  PROVE  TableInv'
<1>1. CASE \E d \in Digest : Table!Add(d) \/ Table!Remove(d)
  BY <1>1, AddStep, RemoveStep
<1>2. CASE \E p \in Table!Place, d \in Digest \cup {0} : Table!Feed(p, d)
  BY <1>2, FeedStep DEF Place
<1>3. CASE Table!Clear
  BY <1>3, ClearStep
<1>4. QED
  BY <1>1, <1>2, <1>3 DEF Table!Next

LEMMA TablesExact ==
  ASSUME StructuresAssumption, TableInv
  PROVE  TableExact
<1>1. PICK s, n : InUse(ht, s, n)
  BY DEF TableInv, TableOk
<1>2. PICK walk : walk = Table!Walk(ht)
  OBVIOUS
<1>3. Len(walk) = n /\ \A i \in 1 .. n : walk[i] = s[i]
  BY <1>1, <1>2, WalkIs
<1>4. PICK used : used = {p \in Place : ht.h[p] # 0}
  OBVIOUS
<1>5. n \in Nat /\ \A p : p \in used <=> \E i \in 1 .. n : s[i] = p
  BY <1>1, <1>4 DEF InUse, Chain
<1>6. {walk[i] : i \in 1 .. Len(walk)} = used
  BY <1>3, <1>5
<1>7. Len(walk) = Table!Cardinality(used)
  <2> DEFINE f == [i \in 1 .. n |-> s[i]]
  <2>1. \A i, j \in 1 .. n : s[i] = s[j] => i = j
    BY <1>1 DEF InUse, Chain
  <2>2. f \in Surjection(1 .. n, used) /\ f \in Injection(1 .. n, used)
    BY <1>5, <2>1 DEF Surjection, Injection, IsInjective
  <2>3. IsFiniteSet(1 .. n) /\ Cardinality(1 .. n) = n
    BY <1>5, FS_Interval
  <2> HIDE DEF f
  <2>4. Cardinality(used) = n
    BY <2>2, <2>3, FS_Surjection
  <2>5. Table!Cardinality(used) = Cardinality(used)
    BY Zenon DEF Table!Cardinality, Cardinality
  <2>6. QED
    BY <1>3, <2>4, <2>5
<1>8. \A d \in Digest : LET at == {p \in Place : ht.h[p] = d}
                        IN  IF at = {} THEN Table!Lookup(ht, d) = NULL ELSE Table!Lookup(ht, d) \in at
  <2>1. \A d \in Digest : d \in Nat /\ d # 0
    BY DEF StructuresAssumption
  <2>2. QED
    BY <2>1, LookupIs DEF TableInv
<1>9. QED
  <2>1. /\ {Table!Walk(ht)[i] : i \in 1 .. Len(Table!Walk(ht))} = {p \in Table!Place : ht.h[p] # 0}
        /\ Len(Table!Walk(ht)) = Table!Cardinality({p \in Table!Place : ht.h[p] # 0})
    BY <1>2, <1>4, <1>6, <1>7, ZenonT(40) DEF Place
  <2>2. \A d \in Digest : LET at == {p \in Table!Place : ht.h[p] = d}
                          IN  IF at = {} THEN Table!Lookup(ht, d) = NULL ELSE Table!Lookup(ht, d) \in at
    BY <1>8, Zenon DEF Place
  <2>3. QED
    BY <2>1, <2>2, Zenon DEF TableExact, Table!TableExact

(* The empty structures.                                                   *)
LEMMA ListInit ==
  ASSUME StructuresAssumption, List!Init
  PROVE  ListInv /\ OnList(list, << >>)
<1>1. list \in List!DlType(El) /\ list.first = NULL /\ list.last = NULL
      /\ \A e \in El : list.next[e] = NULL /\ list.prev[e] = NULL
  BY DEF List!Init, List!DlEmpty, List!DlType
<1>2. << >> \in Seq(El) /\ Len(<< >>) = 0
  OBVIOUS
<1>3. OnList(list, << >>)
  BY <1>1, <1>2 DEF OnList, Chain
<1>4. QED
  BY <1>2, <1>3 DEF ListInv

LEMMA TableInit ==
  ASSUME StructuresAssumption, Table!Init
  PROVE  TableInv
<1>1. ht \in TableType /\ ht.head = NULL /\ ht.tail = NULL /\ \A p \in Place : ht.h[p] = 0
  BY DEF Table!Init, TableType, Ptr, Place
<1>2. InUse(ht, << >>, 0)
  BY <1>1 DEF InUse, Chain
<1>3. QED
  BY <1>2 DEF TableInv, TableOk

-----------------------------------------------------------------------------
(* The specification.                                                      *)
StructuresInv == ListInv /\ PoolInv /\ RingInv /\ TableInv /\ RangesInv /\ VolInv

LEMMA StructuresInit ==
  ASSUME StructuresAssumption, Init
  PROVE  StructuresInv
<1>1. PoolInv /\ RingInv
  BY DEF Init, Pool!Init, PoolInv, RingInv
<1>2. VolInv
  BY DEF Init, VolInv
<1>3. RangesInv
  BY RangesInit DEF Init
<1>4. ListInv /\ TableInv
  BY ListInit, TableInit DEF Init
<1>5. QED
  BY <1>1, <1>2, <1>3, <1>4 DEF StructuresInv

LEMMA StructuresNext ==
  ASSUME StructuresAssumption, StructuresInv, [Next]_vars
  PROVE  StructuresInv'
<1> USE DEF StructuresInv
<1>1. ASSUME UNCHANGED <<pool, area, held>> PROVE PoolInv' /\ RingInv'
  BY <1>1 DEF PoolInv, IsPool, Room, RingInv
<1>2. ASSUME UNCHANGED vol PROVE VolInv'
  BY <1>2 DEF VolInv
<1>3. ASSUME UNCHANGED al PROVE RangesInv'
  BY <1>3 DEF RangesInv, Ordered
<1>4. ASSUME UNCHANGED list PROVE ListInv'
  BY <1>4 DEF ListInv, OnList
<1>5. ASSUME UNCHANGED ht PROVE TableInv'
  BY <1>5 DEF TableInv, TableOk, InUse
<1>7. CASE kind = "pool" /\ Pool!Next /\ UNCHANGED <<list, ht, al, vol>>
  BY <1>2, <1>3, <1>4, <1>5, <1>7, PoolStep, RingStep
<1>6. CASE kind = "list" /\ List!Next /\ UNCHANGED <<poolVars, ht, al, vol>>
  <2>1. ListInv'
    <3>1. PICK o : OnList(list, o)
      BY DEF ListInv
    <3>2. PICK q : OnList(list', q)
      BY <1>6, <3>1, ListStep
    <3>3. QED
      BY <3>2 DEF ListInv, OnList
  <2>2. QED
    BY <1>1, <1>2, <1>3, <1>5, <1>6, <2>1 DEF poolVars
<1>8. CASE kind = "table" /\ Table!Next /\ UNCHANGED <<list, poolVars, al, vol>>
  BY <1>1, <1>2, <1>3, <1>4, <1>8, TableStep DEF poolVars
<1>9. CASE /\ kind = "ranges" /\ UNCHANGED <<list, poolVars, ht, vol>>
           /\ \/ \E len \in 1 .. MaxLen : TakeRoom(len)
              \/ \E i \in 2 .. Len(al) : GiveBack(i)
  <2>1. RangesInv'
    BY <1>9, TakeStep, GiveStep
  <2>2. QED
    BY <1>1, <1>2, <1>4, <1>5, <1>9, <2>1 DEF poolVars
<1>10. CASE kind = "layout" /\ vol = NoVolume /\ Format /\ UNCHANGED <<list, poolVars, ht, al>>
  <2>1. VolInv'
    BY <1>10 DEF Format, VolInv
  <2>2. QED
    BY <1>1, <1>3, <1>4, <1>5, <1>10, <2>1 DEF poolVars
<1>11. CASE UNCHANGED vars
  BY <1>1, <1>2, <1>3, <1>4, <1>5, <1>11 DEF vars
<1>12. QED
  BY <1>7, <1>6, <1>8, <1>9, <1>10, <1>11 DEF Next

(* The inductive invariant: the elements of a list form one chain, and the *)
(* others have no pointers; a pool and its areas are laid out as asked     *)
(* for, its ring holds once each object that is not with the user; the     *)
(* places of a hash table that are in use form one chain and are in the    *)
(* bucket of their digest; the ranges of used chunks follow each other     *)
(* without overlap inside the volume; a layout is what shfs_mkfs computes. *)
THEOREM StructuresInvariant == Spec => []StructuresInv
<1>1. Init => StructuresInv
  BY StructuresAssumption, StructuresInit
<1>2. StructuresInv /\ [Next]_vars => StructuresInv'
  BY StructuresAssumption, StructuresNext
<1>3. QED
  BY <1>1, <1>2, PTL DEF Spec

(* For every number of objects, and every size, room and alignment that    *)
(* the assertions of alloc_enhanced_mempool let through, the objects of a  *)
(* pool share no byte, and prepend and append keep the data inside.        *)
THEOREM PoolAreasApart == Spec => []AreasApart
<1>1. StructuresInv => AreasApart
  BY StructuresAssumption, PoolsApart DEF StructuresInv
<1>2. QED
  BY <1>1, StructuresInvariant, PTL

(* However many objects are picked and put, one by one or all at once, the *)
(* ring never loses or doubles one: "never fails on right usage".          *)
THEOREM PoolsStayExact == Spec => []PoolExact
<1>1. StructuresInv => PoolExact
  BY StructuresAssumption, PoolsExact DEF StructuresInv
<1>2. QED
  BY <1>1, StructuresInvariant, PTL

(* What shfs_mkfs computes from any number of members and any stripe fits  *)
(* the members, and the mount's test of their sizes accepts it.            *)
THEOREM LayoutsFit == Spec => []LayoutFits
<1>1. StructuresInv => LayoutFits
  BY StructuresAssumption, VolumesFit DEF StructuresInv
<1>2. QED
  BY <1>1, StructuresInvariant, PTL

(* For every volume and every sequence of files added and removed, the     *)
(* used ranges keep apart and the search of shfs_alist_find_free finds the *)
(* first room that is long enough, or none when there is none.             *)
THEOREM FirstFitFinds == Spec => []FirstFitExact
<1>1. StructuresInv => FirstFitExact
  BY StructuresAssumption, RangesFit DEF StructuresInv
<1>2. QED
  BY <1>1, StructuresInvariant, PTL

(* Linked and unlinked as the macros of dlist.h ask for, the elements of a *)
(* list are met in one order forwards and in its reverse backwards, and    *)
(* dlist_is_linked tells them from the others, for every set of elements.  *)
THEOREM ListsStayExact == Spec => []ListExact
<1>1. StructuresInv => ListExact
  BY StructuresAssumption, ListsExact DEF StructuresInv
<1>2. QED
  BY <1>1, StructuresInvariant, PTL

(* What dlist_foreach meets changes as the operation on the list says: an  *)
(* element comes to an end of the order, leaves it, or moves to an end.    *)
THEOREM ListsImplementOrder == Spec => ImplementsOrder
<1>1. Init => List!Elements!Init
  <2>1. SUFFICES ASSUME Init PROVE List!Elements!Init
    OBVIOUS
  <2>2. OnList(list, << >>)
    BY <2>1, StructuresAssumption, ListInit DEF Init
  <2>3. QED
    BY <2>2, StructuresAssumption, WalksAre DEF List!Elements!Init, List!Forward
<1>2. StructuresInv /\ [Next]_vars => [List!Elements!Next]_(List!Forward)
  <2>1. SUFFICES ASSUME StructuresInv, [Next]_vars PROVE [List!Elements!Next]_(List!Forward)
    OBVIOUS
  <2>2. CASE UNCHANGED list
    BY <2>2 DEF List!Forward, List!Walk
  <2>3. CASE List!Next
    <3>1. PICK o : OnList(list, o)
      BY <2>1 DEF StructuresInv, ListInv
    <3>2. PICK q : OnList(list', q) /\ OrderStep(o, q)
      BY <2>3, <3>1, StructuresAssumption, ListStep
    <3>3. OnList(list, q)'
      BY <3>2 DEF OnList
    <3>4. QED
      BY <3>1, <3>2, <3>3, StructuresAssumption, OrderStepIs
  <2>4. QED
    BY <2>1, <2>2, <2>3 DEF Next, vars
<1>3. QED
  BY <1>1, <1>2, StructuresInvariant, PTL DEF Spec, ImplementsOrder, List!ImplementsOrder, List!Elements!Spec

(* Through adding, removing, feeding and clearing, the list of the hash    *)
(* table meets each place in use once and no other, and a digest that is   *)
(* in the table is found where it is, for every number of buckets.         *)
THEOREM TablesStayExact == Spec => []TableExact
<1>1. StructuresInv => TableExact
  BY StructuresAssumption, TablesExact DEF StructuresInv
<1>2. QED
  BY <1>1, StructuresInvariant, PTL
=============================================================================
