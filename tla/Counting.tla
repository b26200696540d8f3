------------------------------ MODULE Counting ------------------------------
(* Counts that follow the size of a set, as reference and open counts do;  *)
(* the least element of a set of naturals, with which the proofs do        *)
(* induction: of what holds for no number there would be a least one; and  *)
(* chains, the orders that doubly linked lists keep in their pointers.     *)
EXTENDS Integers, SequencesExt, SequenceTheorems, FiniteSetTheorems, WellFoundedInduction, TLAPS

(* Sets that differ in one element, counted. *)
LEMMA CountUp ==
  ASSUME NEW S, IsFiniteSet(S), NEW T \in SUBSET S, NEW U \in SUBSET S,
         NEW x \in S, x \notin T, x \in U,
         \A y \in S : y # x => (y \in T <=> y \in U)
  PROVE  /\ Cardinality(T) \in Nat /\ Cardinality(U) \in Nat
         /\ Cardinality(U) = Cardinality(T) + 1
<1>1. U = T \cup {x}
  OBVIOUS
<1>2. IsFiniteSet(T) /\ IsFiniteSet(U)
  BY FS_Subset
<1>3. QED
  BY <1>1, <1>2, FS_AddElement, FS_CardinalityType

(* A subset of a finite set, counted. *)
LEMMA CountSubset ==
  ASSUME NEW S, IsFiniteSet(S), NEW T \in SUBSET S
  PROVE  /\ IsFiniteSet(T) /\ Cardinality(T) \in Nat
         /\ Cardinality(T) = 0 <=> T = {}
<1>1. IsFiniteSet(T)
  BY FS_Subset
<1>2. QED
  BY <1>1, FS_CardinalityType, FS_EmptySet

(* Every set of naturals has a least element: finite initial segments are  *)
(* well-founded under inclusion.                                           *)
LEMMA NatLeast ==
  ASSUME NEW T, T \subseteq Nat, T # {}
  PROVE  \E n \in T : \A m \in T : n <= m
<1> DEFINE F == {0 .. n : n \in T}
<1>1. \A n \in T : IsFiniteSet(0 .. n) /\ 0 .. n \subseteq Nat
  BY FS_Interval
<1>2. F \subseteq FiniteSubsetsOf(Nat) /\ F # {}
  BY <1>1 DEF FiniteSubsetsOf
<1>3. PICK A \in F : \A B \in F : ~ (<<B, A>> \in StrictSubsetOrdering(Nat))
  BY <1>2, FS_StrictSubsetOrderingWellFounded, WFMin
<1>4. PICK n \in T : A = 0 .. n
  OBVIOUS
<1>5. ASSUME NEW m \in T, m < n PROVE FALSE
  <2>1. 0 .. m \in F /\ 0 .. m \subseteq 0 .. n /\ n \in 0 .. n /\ n \notin 0 .. m /\ m \in Nat /\ n \in Nat
    BY <1>5
  <2>2. <<0 .. m, 0 .. n>> \in StrictSubsetOrdering(Nat)
    BY <2>1, <1>1, <1>4 DEF StrictSubsetOrdering
  <2>3. QED
    BY <2>1, <2>2, <1>3, <1>4
<1>6. QED
  BY <1>5

(* One of finitely many values is the greatest.                            *)
LEMMA MaxInRange ==
  ASSUME NEW i \in Nat, NEW n \in Nat, i <= n, NEW f, \A k \in i .. n : f[k] \in Nat
  PROVE  \E k \in i .. n : \A l \in i .. n : f[l] <= f[k]
<1> DEFINE Has(m) == \E k \in i .. m : \A l \in i .. m : f[l] <= f[k]
           T == {m \in i .. n : ~Has(m)}
<1>1. SUFFICES ASSUME T # {} PROVE FALSE
  <2>1. n \in i .. n
    OBVIOUS
  <2>2. QED
    BY <1>1, <2>1
<1>2. T \subseteq Nat
  OBVIOUS
<1>3. PICK m \in T : \A j \in T : m <= j
  BY <1>1, <1>2, NatLeast
<1>4. m # i
  <2>1. \A k, l \in i .. i : k = i /\ l = i /\ f[l] <= f[k]
    OBVIOUS
  <2>2. QED
    BY <2>1
<1>5. m - 1 \in i .. n /\ m - 1 \notin T
  <2>1. m \in i .. n /\ m - 1 \in i .. n /\ m - 1 \in Int /\ m \in Int /\ ~(m <= m - 1)
    <3>1. m \in i .. n /\ m # i
      BY <1>3, <1>4
    <3> HIDE DEF T
    <3>2. QED
      BY <3>1
  <2>2. m - 1 \notin T
    <3> HIDE DEF T
    <3>1. QED
      BY <1>3, <2>1
  <2>3. QED
    BY <2>1, <2>2
<1>6. PICK k \in i .. m - 1 : \A l \in i .. m - 1 : f[l] <= f[k]
  BY <1>5
<1>7. \A l \in i .. m : l = m \/ l \in i .. m - 1
  OBVIOUS
<1>8. CASE f[m] <= f[k]
  <2>1. k \in i .. m /\ \A l \in i .. m : f[l] <= f[k]
    BY <1>6, <1>7, <1>8
  <2>2. QED
    BY <2>1
<1>9. CASE ~(f[m] <= f[k])
  <2>1. m \in i .. m /\ \A l \in i .. m : f[l] <= f[m]
    <3>1. f[m] \in Nat /\ f[k] \in Nat /\ f[k] <= f[m]
      BY <1>9
    <3>2. ASSUME NEW l \in i .. m - 1 PROVE f[l] <= f[m]
      <4>1. f[l] \in Nat /\ f[l] <= f[k]
        BY <1>6
      <4>2. QED
        BY <3>1, <4>1
    <3>3. QED
      BY <1>7, <3>1, <3>2
  <2>2. QED
    BY <2>1
<1>10. QED
  BY <1>8, <1>9

(* A sequence with an element more, or less.                               *)
LEMMA InsertAtIs ==
  ASSUME NEW S, NEW s \in Seq(S), NEW i \in 1 .. Len(s) + 1, NEW e \in S
  PROVE  /\ InsertAt(s, i, e) \in Seq(S) /\ Len(InsertAt(s, i, e)) = Len(s) + 1
         /\ \A k \in 1 .. Len(s) + 1 :
              InsertAt(s, i, e)[k] = IF k < i THEN s[k] ELSE IF k = i THEN e ELSE s[k - 1]
<1> DEFINE a == SubSeq(s, 1, i - 1)
           b == SubSeq(s, i, Len(s))
           ae == a \o <<e>>
<1>1. /\ a \in Seq(S) /\ Len(a) = i - 1 /\ \A k \in 1 .. i - 1 : a[k] = s[k]
  <2>1. 1 \in Int /\ i - 1 \in Int /\ (\A k \in 1 .. i - 1 : s[k] \in S) /\ i - 1 - 1 + 1 = i - 1
    OBVIOUS
  <2>2. /\ a \in Seq(S) /\ Len(a) = IF 1 <= i - 1 THEN i - 1 - 1 + 1 ELSE 0
        /\ \A k \in 1 .. i - 1 - 1 + 1 : a[k] = s[1 + k - 1]
    BY <2>1, SubSeqProperties
  <2> HIDE DEF a
  <2>3. QED
    BY <2>1, <2>2
<1>2. /\ b \in Seq(S) /\ Len(b) = Len(s) - i + 1 /\ \A k \in 1 .. Len(s) - i + 1 : b[k] = s[i + k - 1]
  <2>1. i \in Int /\ Len(s) \in Int /\ (\A k \in i .. Len(s) : s[k] \in S)
    OBVIOUS
  <2>2. /\ b \in Seq(S) /\ Len(b) = IF i <= Len(s) THEN Len(s) - i + 1 ELSE 0
        /\ \A k \in 1 .. Len(s) - i + 1 : b[k] = s[i + k - 1]
    BY <2>1, SubSeqProperties
  <2> HIDE DEF b
  <2>3. QED
    BY <2>1, <2>2
<1> HIDE DEF a, b
<1>3. /\ ae \in Seq(S) /\ Len(ae) = i
      /\ \A k \in 1 .. i : ae[k] = IF k < i THEN s[k] ELSE e
  <2>1. <<e>> \in Seq(S) /\ Len(<<e>>) = 1 /\ <<e>>[1] = e
    OBVIOUS
  <2>2. /\ ae \in Seq(S) /\ Len(ae) = Len(a) + 1
        /\ \A k \in 1 .. Len(a) + 1 : ae[k] = IF k <= Len(a) THEN a[k] ELSE <<e>>[k - Len(a)]
    BY <1>1, <2>1, ConcatProperties
  <2> HIDE DEF ae
  <2>3. QED
    BY <1>1, <2>1, <2>2
<1> HIDE DEF ae
<1>4. /\ ae \o b \in Seq(S) /\ Len(ae \o b) = Len(ae) + Len(b)
      /\ \A k \in 1 .. Len(ae) + Len(b) : (ae \o b)[k] = IF k <= Len(ae) THEN ae[k] ELSE b[k - Len(ae)]
  BY <1>2, <1>3, ConcatProperties
<1>5. InsertAt(s, i, e) = ae \o b
  BY DEF InsertAt, a, ae, b
<1>6. Len(ae) + Len(b) = Len(s) + 1
  BY <1>2, <1>3
<1>7. ASSUME NEW k \in 1 .. Len(s) + 1
      PROVE  InsertAt(s, i, e)[k] = IF k < i THEN s[k] ELSE IF k = i THEN e ELSE s[k - 1]
  <2>1. CASE k <= i
    BY <1>3, <1>4, <1>5, <1>6, <2>1
  <2>2. CASE k > i
    <3>1. InsertAt(s, i, e)[k] = b[k - i]
      BY <1>3, <1>4, <1>5, <1>6, <2>2
    <3>2. k - i \in 1 .. Len(s) - i + 1 /\ i + (k - i) - 1 = k - 1
      BY <2>2
    <3>3. QED
      BY <1>2, <2>2, <3>1, <3>2
  <2>3. QED
    BY <2>1, <2>2
<1>8. QED
  BY <1>4, <1>5, <1>6, <1>7

LEMMA RemoveAtIs ==
  ASSUME NEW S, NEW s \in Seq(S), NEW i \in 1 .. Len(s)
  PROVE  /\ RemoveAt(s, i) \in Seq(S) /\ Len(RemoveAt(s, i)) = Len(s) - 1
         /\ \A k \in 1 .. Len(s) - 1 : RemoveAt(s, i)[k] = IF k < i THEN s[k] ELSE s[k + 1]
<1> DEFINE a == SubSeq(s, 1, i - 1)
           b == SubSeq(s, i + 1, Len(s))
<1>1. /\ a \in Seq(S) /\ Len(a) = i - 1 /\ \A k \in 1 .. i - 1 : a[k] = s[k]
  <2>1. 1 \in Int /\ i - 1 \in Int /\ (\A k \in 1 .. i - 1 : s[k] \in S) /\ i - 1 - 1 + 1 = i - 1
    OBVIOUS
  <2>2. /\ a \in Seq(S) /\ Len(a) = IF 1 <= i - 1 THEN i - 1 - 1 + 1 ELSE 0
        /\ \A k \in 1 .. i - 1 - 1 + 1 : a[k] = s[1 + k - 1]
    BY <2>1, SubSeqProperties
  <2> HIDE DEF a
  <2>3. QED
    BY <2>1, <2>2
<1>2. /\ b \in Seq(S) /\ Len(b) = Len(s) - i /\ \A k \in 1 .. Len(s) - i : b[k] = s[i + k]
  <2>1. i + 1 \in Int /\ Len(s) \in Int /\ (\A k \in i + 1 .. Len(s) : s[k] \in S) /\ Len(s) - (i + 1) + 1 = Len(s) - i
    OBVIOUS
  <2>2. /\ b \in Seq(S) /\ Len(b) = IF i + 1 <= Len(s) THEN Len(s) - (i + 1) + 1 ELSE 0
        /\ \A k \in 1 .. Len(s) - (i + 1) + 1 : b[k] = s[i + 1 + k - 1]
    BY <2>1, SubSeqProperties
  <2> HIDE DEF a, b
  <2>3. Len(b) = Len(s) - i
    <3>1. PICK n \in Nat : n = Len(s) /\ i \in 1 .. n
      <4>1. Len(s) \in Nat /\ i \in 1 .. Len(s)
        OBVIOUS
      <4>2. QED
        BY <4>1
    <3>2. Len(b) = IF i + 1 <= n THEN n - (i + 1) + 1 ELSE 0
      BY <2>2, <3>1
    <3>3. (IF i + 1 <= n THEN n - (i + 1) + 1 ELSE 0) = n - i
      BY <3>1
    <3>4. QED
      BY <3>1, <3>2, <3>3
  <2>4. ASSUME NEW k \in 1 .. Len(s) - i PROVE b[k] = s[i + k]
    <3>1. i + 1 + k - 1 = i + k /\ k \in 1 .. Len(s) - (i + 1) + 1
      BY <2>1
    <3>2. QED
      BY <2>2, <3>1
  <2>5. QED
    BY <2>2, <2>3, <2>4
<1> HIDE DEF a, b
<1>3. /\ a \o b \in Seq(S) /\ Len(a \o b) = Len(a) + Len(b)
      /\ \A k \in 1 .. Len(a) + Len(b) : (a \o b)[k] = IF k <= Len(a) THEN a[k] ELSE b[k - Len(a)]
  BY <1>1, <1>2, ConcatProperties
<1>4. RemoveAt(s, i) = a \o b /\ Len(a) + Len(b) = Len(s) - 1
  <2>1. RemoveAt(s, i) = a \o b
    BY DEF RemoveAt, a, b
  <2>2. QED
    BY <1>1, <1>2, <2>1
<1>5. ASSUME NEW k \in 1 .. Len(s) - 1
      PROVE  RemoveAt(s, i)[k] = IF k < i THEN s[k] ELSE s[k + 1]
  <2>1. CASE k < i
    BY <1>1, <1>3, <1>4, <2>1
  <2>2. CASE ~(k < i)
    <3>1. RemoveAt(s, i)[k] = b[k - (i - 1)]
      BY <1>1, <1>3, <1>4, <2>2
    <3>2. k - (i - 1) \in 1 .. Len(s) - i /\ i + (k - (i - 1)) = k + 1
      BY <2>2
    <3>3. QED
      BY <1>2, <2>2, <3>1, <3>2
  <2>3. QED
    BY <2>1, <2>2
<1>6. QED
  BY <1>3, <1>4, <1>5
-----------------------------------------------------------------------------
(* Elements that are chained by their pointers, as the lists of dlist.h    *)
(* and of htable.h are.                                                    *)

(* Elements of S chained by their pointers in the order s.                 *)
Chain(null, S, first, last, nx, pv, s, n) ==
  /\ n \in Nat
  /\ \A i \in 1 .. n : s[i] \in S
  /\ \A i, j \in 1 .. n : s[i] = s[j] => i = j
  /\ first = IF n = 0 THEN null ELSE s[1]
  /\ last = IF n = 0 THEN null ELSE s[n]
  /\ \A i \in 1 .. n : nx[s[i]] = IF i = n THEN null ELSE s[i + 1]
  /\ \A i \in 1 .. n : pv[s[i]] = IF i = 1 THEN null ELSE s[i - 1]

LEMMA ChainBackwards ==
  ASSUME NEW null, NEW S, NEW first, NEW last, NEW nx, NEW pv, NEW s, NEW n, Chain(null, S, first, last, nx, pv, s, n),
         NEW t, \A i \in 1 .. n : t[i] = s[n + 1 - i]
  PROVE  Chain(null, S, last, first, pv, nx, t, n)
<1>1. n \in Nat
  BY DEF Chain
<1> DEFINE back(i) == n + 1 - i
<1>2. \A i \in 1 .. n : /\ back(i) \in 1 .. n /\ t[i] = s[back(i)]
                        /\ (i = n <=> back(i) = 1) /\ (i = 1 <=> back(i) = n)
                        /\ (i # n => i + 1 \in 1 .. n /\ back(i + 1) = back(i) - 1)
                        /\ (i # 1 => i - 1 \in 1 .. n /\ back(i - 1) = back(i) + 1)
  BY <1>1
<1>3. \A i, j \in 1 .. n : back(i) = back(j) => i = j
  BY <1>1
<1>4. n # 0 => 1 \in 1 .. n /\ n \in 1 .. n /\ back(1) = n /\ back(n) = 1
  BY <1>1
<1> HIDE DEF back
<1>5. \A i \in 1 .. n : t[i] \in S
  BY <1>2 DEF Chain
<1>6. \A i, j \in 1 .. n : t[i] = t[j] => i = j
  BY <1>2, <1>3 DEF Chain
<1>7. last = (IF n = 0 THEN null ELSE t[1]) /\ first = (IF n = 0 THEN null ELSE t[n])
  BY <1>2, <1>4 DEF Chain
<1>8. \A i \in 1 .. n : pv[t[i]] = IF i = n THEN null ELSE t[i + 1]
  <2> TAKE i \in 1 .. n
  <2>1. PICK k \in 1 .. n : k = back(i) /\ t[i] = s[k] /\ (i = n <=> k = 1)
    BY <1>2
  <2>2. pv[s[k]] = IF k = 1 THEN null ELSE s[k - 1]
    BY DEF Chain
  <2>3. i # n => t[i + 1] = s[k - 1]
    BY <1>2, <2>1
  <2>4. QED
    BY <2>1, <2>2, <2>3
<1>9. \A i \in 1 .. n : nx[t[i]] = IF i = 1 THEN null ELSE t[i - 1]
  <2> TAKE i \in 1 .. n
  <2>1. PICK k \in 1 .. n : k = back(i) /\ t[i] = s[k] /\ (i = 1 <=> k = n)
    BY <1>2
  <2>2. nx[s[k]] = IF k = n THEN null ELSE s[k + 1]
    BY DEF Chain
  <2>3. i # 1 => i - 1 \in 1 .. n /\ back(i - 1) = k + 1
    BY <1>2, <2>1
  <2>5. i # 1 => t[i - 1] = s[k + 1]
    BY <1>2, <2>3
  <2>4. QED
    BY <2>1, <2>2, <2>5
<1>10. QED
  BY <1>1, <1>5, <1>6, <1>7, <1>8, <1>9 DEF Chain

(* One more at the end.                                                    *)
LEMMA ChainMore ==
  ASSUME NEW null, NEW S, null \notin S, NEW first, NEW last, NEW nx, NEW pv, NEW s, NEW n,
         Chain(null, S, first, last, nx, pv, s, n), NEW x \in S, \A i \in 1 .. n : s[i] # x,
         NEW nx2, \A y \in S : nx2[y] = IF y = x THEN null ELSE IF first # null /\ y = last THEN x ELSE nx[y],
         NEW pv2, \A y \in S : pv2[y] = IF y = x THEN IF first = null THEN null ELSE last ELSE pv[y],
         NEW t, \A i \in 1 .. n : t[i] = s[i], t[n + 1] = x
  PROVE  Chain(null, S, IF first = null THEN x ELSE first, x, nx2, pv2, t, n + 1)
<1>1. n \in Nat /\ n + 1 \in Nat /\ n + 1 # 0
  BY DEF Chain
<1>2. first = null <=> n = 0
  <2>1. n # 0 => 1 \in 1 .. n
    BY <1>1
  <2>2. QED
    BY <2>1 DEF Chain
<1>3. \A i \in 1 .. n + 1 : i \in 1 .. n \/ i = n + 1
  BY <1>1
<1>4. \A i \in 1 .. n : i # n + 1 /\ i \in 1 .. n + 1 /\ (i # n => i + 1 \in 1 .. n) /\ (i # 1 => i - 1 \in 1 .. n)
  BY <1>1
<1>5. \A i \in 1 .. n + 1 : t[i] \in S
  BY <1>3 DEF Chain
<1>6. \A i, j \in 1 .. n + 1 : t[i] = t[j] => i = j
  BY <1>3 DEF Chain
<1>7. (IF first = null THEN x ELSE first) = t[1]
  <2>1. n # 0 => 1 \in 1 .. n
    BY <1>1
  <2>2. QED
    BY <1>1, <1>2, <2>1 DEF Chain
<1>8. ASSUME NEW i \in 1 .. n + 1 PROVE nx2[t[i]] = IF i = n + 1 THEN null ELSE t[i + 1]
  <2>1. CASE i = n + 1
    BY <2>1
  <2>2. CASE i = n
    <3>1. n # 0 /\ i \in 1 .. n /\ i # n + 1
      BY <1>1, <2>2
    <3>2. t[i] = last /\ t[i] # x /\ first # null /\ t[i] \in S
      BY <1>2, <1>5, <2>2, <3>1 DEF Chain
    <3>3. QED
      BY <2>2, <3>1, <3>2
  <2>3. CASE i # n /\ i # n + 1
    <3>1. i \in 1 .. n /\ i + 1 \in 1 .. n /\ n \in 1 .. n
      BY <1>1, <2>3
    <3>2. t[i] # x /\ t[i] \in S /\ t[i] = s[i] /\ t[i + 1] = s[i + 1] /\ last = s[n] /\ s[i] # s[n]
      BY <1>1, <1>5, <2>3, <3>1 DEF Chain
    <3>3. nx[s[i]] = s[i + 1]
      BY <2>3, <3>1 DEF Chain
    <3>4. QED
      BY <2>3, <3>2, <3>3
  <2>4. QED
    BY <2>1, <2>2, <2>3
<1>9. ASSUME NEW i \in 1 .. n + 1 PROVE pv2[t[i]] = IF i = 1 THEN null ELSE t[i - 1]
  <2>1. CASE i = n + 1
    <3>1. i # 1 => n # 0 /\ n \in 1 .. n /\ i - 1 = n
      BY <1>1, <2>1
    <3>2. i = 1 => n = 0
      BY <1>1, <2>1
    <3>3. n # 0 => last = s[n]
      BY DEF Chain
    <3>4. QED
      BY <1>2, <2>1, <3>1, <3>2, <3>3
  <2>2. CASE i \in 1 .. n
    <3>1. t[i] = s[i] /\ t[i] # x /\ t[i] \in S /\ (i # 1 => i - 1 \in 1 .. n /\ t[i - 1] = s[i - 1])
      BY <1>4, <1>5, <2>2
    <3>2. pv[s[i]] = IF i = 1 THEN null ELSE s[i - 1]
      BY <2>2 DEF Chain
    <3>3. QED
      BY <3>1, <3>2
  <2>3. QED
    BY <1>3, <2>1, <2>2
<1>10. QED
  BY <1>1, <1>5, <1>6, <1>7, <1>8, <1>9 DEF Chain

(* One more at the front.                                                  *)
LEMMA ChainFront ==
  ASSUME NEW null, NEW S, null \notin S, NEW first, NEW last, NEW nx, NEW pv, NEW s, NEW n,
         Chain(null, S, first, last, nx, pv, s, n), NEW x \in S, \A i \in 1 .. n : s[i] # x,
         NEW nx2, \A y \in S : nx2[y] = IF y = x THEN first ELSE nx[y],
         NEW pv2, \A y \in S : pv2[y] = IF y = x THEN null ELSE IF y = first THEN x ELSE pv[y],
         NEW t, \A i \in 1 .. n : t[i + 1] = s[i], t[1] = x
  PROVE  Chain(null, S, x, IF first = null THEN x ELSE last, nx2, pv2, t, n + 1)
<1>1. n \in Nat /\ n + 1 \in Nat
  BY DEF Chain
<1>2. PICK r : r = [i \in 1 .. n |-> s[n + 1 - i]]
  OBVIOUS
<1>3. PICK q : q = [i \in 1 .. n + 1 |-> t[n + 2 - i]]
  OBVIOUS
<1>4. Chain(null, S, last, first, pv, nx, r, n)
  BY <1>2, ChainBackwards
<1>5. \A i \in 1 .. n : r[i] # x
  <2>1. \A i \in 1 .. n : n + 1 - i \in 1 .. n
    BY <1>1
  <2>2. QED
    BY <1>2, <2>1
<1>6. (last = null <=> first = null) /\ (first = null => last = first)
  <2>1. n # 0 => 1 \in 1 .. n /\ n \in 1 .. n
    BY <1>1
  <2>2. QED
    BY <2>1 DEF Chain
<1>7. \A i \in 1 .. n : q[i] = r[i]
  <2>1. \A i \in 1 .. n : n + 1 - i \in 1 .. n /\ n + 1 - i + 1 = n + 2 - i /\ i \in 1 .. n + 1
    BY <1>1
  <2>2. QED
    BY <1>2, <1>3, <2>1
<1>8. q[n + 1] = x
  <2>1. n + 1 \in 1 .. n + 1 /\ n + 2 - (n + 1) = 1
    BY <1>1
  <2>2. QED
    BY <1>3, <2>1
<1>9. \A y \in S : pv2[y] = IF y = x THEN null ELSE IF last # null /\ y = first THEN x ELSE pv[y]
  <2>1. \A y \in S : y = first => last # null
    BY <1>6
  <2>2. QED
    BY <2>1
<1>10. \A y \in S : nx2[y] = IF y = x THEN IF last = null THEN null ELSE first ELSE nx[y]
  BY <1>6
<1>11. Chain(null, S, IF last = null THEN x ELSE last, x, pv2, nx2, q, n + 1)
  BY <1>4, <1>5, <1>7, <1>8, <1>9, <1>10, ChainMore
<1>12. \A i \in 1 .. n + 1 : t[i] = q[n + 1 + 1 - i]
  <2>1. \A i \in 1 .. n + 1 : n + 1 + 1 - i \in 1 .. n + 1 /\ n + 2 - (n + 1 + 1 - i) = i
    BY <1>1
  <2>2. QED
    BY <1>3, <2>1
<1>13. Chain(null, S, x, IF last = null THEN x ELSE last, nx2, pv2, t, n + 1)
  BY <1>11, <1>12, ChainBackwards
<1>14. QED
  BY <1>6, <1>13

(* The pointers past e are joined, and the order is without its i-th.      *)
Joined(null, S, e, first, last, nx, pv, first2, last2, nx2, pv2) ==
  /\ first2 = IF pv[e] = null THEN nx[e] ELSE first
  /\ last2 = IF nx[e] = null THEN pv[e] ELSE last
  /\ \A y \in S \ {e} : nx2[y] = IF y = pv[e] THEN nx[e] ELSE nx[y]
  /\ \A y \in S \ {e} : pv2[y] = IF y = nx[e] THEN pv[e] ELSE pv[y]
Dropped(s, i, n, t) == \A k \in 1 .. n - 1 : t[k] = IF k < i THEN s[k] ELSE s[k + 1]

(* One less.                                                               *)
LEMMA ChainLess ==
  ASSUME NEW null, NEW S, null \notin S, NEW first, NEW last, NEW nx, NEW pv, NEW s, NEW n,
         Chain(null, S, first, last, nx, pv, s, n), NEW e, NEW i, i \in 1 .. n, e = s[i],
         NEW first2, NEW last2, NEW nx2, NEW pv2, Joined(null, S, e, first, last, nx, pv, first2, last2, nx2, pv2),
         NEW t, Dropped(s, i, n, t)
  PROVE  Chain(null, S, first2, last2, nx2, pv2, t, n - 1)
<1>1. n \in Nat /\ n - 1 \in Nat /\ n # 0
  BY DEF Chain
<1> DEFINE from(k) == IF k < i THEN k ELSE k + 1
<1>2. \A k \in 1 .. n - 1 : from(k) \in 1 .. n /\ from(k) # i /\ t[k] = s[from(k)]
  BY <1>1 DEF Dropped
<1>3. \A k, l \in 1 .. n - 1 : from(k) = from(l) => k = l
  BY <1>1
<1>4. \A k \in 1 .. n - 1 : t[k] \in S \ {e}
  <2>1. \A k \in 1 .. n - 1 : s[from(k)] \in S /\ s[from(k)] # s[i]
    BY <1>2 DEF Chain
  <2>2. QED
    BY <1>2, <2>1
<1>5. \A k, l \in 1 .. n - 1 : t[k] = t[l] => k = l
  BY <1>2, <1>3 DEF Chain
<1>6. pv[e] = (IF i = 1 THEN null ELSE s[i - 1]) /\ nx[e] = (IF i = n THEN null ELSE s[i + 1])
  BY DEF Chain
<1>7. /\ (i # 1 => i - 1 \in 1 .. n /\ s[i - 1] \in S /\ s[i - 1] # null)
      /\ (i # n => i + 1 \in 1 .. n /\ s[i + 1] \in S /\ s[i + 1] # null)
  BY <1>1 DEF Chain
<1>8. pv[e] = null <=> i = 1
  BY <1>6, <1>7
<1>9. nx[e] = null <=> i = n
  BY <1>6, <1>7
<1>10. (IF pv[e] = null THEN nx[e] ELSE first) = IF n - 1 = 0 THEN null ELSE t[1]
  <2>1. CASE i = 1 /\ n = 1
    BY <1>1, <1>6, <2>1
  <2>2. CASE i = 1 /\ n # 1
    <3>1. 1 \in 1 .. n - 1 /\ from(1) = 2 /\ 1 + 1 = 2 /\ n - 1 # 0
      BY <1>1, <2>2
    <3>2. t[1] = s[2] /\ nx[e] = s[2]
      BY <1>2, <1>6, <2>2, <3>1
    <3>3. QED
      BY <1>8, <2>2, <3>1, <3>2
  <2>3. CASE i # 1
    <3>1. 1 \in 1 .. n - 1 /\ from(1) = 1 /\ n - 1 # 0
      BY <1>1, <2>3
    <3>2. t[1] = s[1] /\ first = s[1]
      BY <1>1, <1>2, <3>1 DEF Chain
    <3>3. QED
      BY <1>8, <2>3, <3>1, <3>2
  <2>4. QED
    BY <2>1, <2>2, <2>3
<1>11. (IF nx[e] = null THEN pv[e] ELSE last) = IF n - 1 = 0 THEN null ELSE t[n - 1]
  <2>1. CASE i = n /\ n = 1
    BY <1>1, <1>6, <2>1
  <2>2. CASE i = n /\ n # 1
    <3>1. n - 1 \in 1 .. n - 1 /\ from(n - 1) = n - 1 /\ n - 1 # 0
      BY <1>1, <2>2
    <3>2. t[n - 1] = s[n - 1] /\ pv[e] = s[n - 1]
      BY <1>2, <1>6, <2>2, <3>1
    <3>3. QED
      BY <1>9, <2>2, <3>1, <3>2
  <2>3. CASE i # n
    <3>1. n - 1 \in 1 .. n - 1 /\ from(n - 1) = n /\ n - 1 # 0
      BY <1>1, <2>3
    <3>2. t[n - 1] = s[n] /\ last = s[n]
      BY <1>1, <1>2, <3>1 DEF Chain
    <3>3. QED
      BY <1>9, <2>3, <3>1, <3>2
  <2>4. QED
    BY <2>1, <2>2, <2>3
<1>12. ASSUME NEW k \in 1 .. n - 1 PROVE nx2[t[k]] = IF k = n - 1 THEN null ELSE t[k + 1]
  <2>1. PICK f \in 1 .. n : f = from(k) /\ t[k] = s[f] /\ f # i
    BY <1>2
  <2>2. nx2[s[f]] = IF s[f] = pv[e] THEN nx[e] ELSE nx[s[f]]
    BY <1>4, <2>1 DEF Joined
  <2>3. nx[s[f]] = IF f = n THEN null ELSE s[f + 1]
    BY DEF Chain
  <2>4. CASE f = i - 1
    <3>1. s[f] = pv[e]
      BY <1>1, <1>6, <2>1, <2>4
    <3>2. k = i - 1 /\ (k = n - 1 <=> i = n) /\ (k # n - 1 => k + 1 \in 1 .. n - 1 /\ from(k + 1) = i + 1)
      BY <1>1, <2>1, <2>4
    <3>3. k # n - 1 => t[k + 1] = s[i + 1]
      BY <1>2, <3>2
    <3>4. QED
      BY <1>6, <2>1, <2>2, <3>1, <3>2, <3>3
  <2>5. CASE f # i - 1
    <3>1. s[f] # pv[e]
      <4>1. i # 1 => s[f] # s[i - 1]
        BY <1>7, <2>1, <2>5 DEF Chain
      <4>2. s[f] # null
        BY <2>1 DEF Chain
      <4>3. QED
        BY <1>6, <4>1, <4>2
    <3>2. (k = n - 1 <=> f = n) /\ (k # n - 1 => k + 1 \in 1 .. n - 1 /\ from(k + 1) = f + 1)
      BY <1>1, <2>1, <2>5
    <3>3. k # n - 1 => t[k + 1] = s[f + 1]
      BY <1>2, <3>2
    <3>4. QED
      BY <2>1, <2>2, <2>3, <3>1, <3>2, <3>3
  <2>6. QED
    BY <2>4, <2>5
<1>13. ASSUME NEW k \in 1 .. n - 1 PROVE pv2[t[k]] = IF k = 1 THEN null ELSE t[k - 1]
  <2>1. PICK f \in 1 .. n : f = from(k) /\ t[k] = s[f] /\ f # i
    BY <1>2
  <2>2. pv2[s[f]] = IF s[f] = nx[e] THEN pv[e] ELSE pv[s[f]]
    BY <1>4, <2>1 DEF Joined
  <2>3. pv[s[f]] = IF f = 1 THEN null ELSE s[f - 1]
    BY DEF Chain
  <2>4. CASE f = i + 1
    <3>1. s[f] = nx[e]
      BY <1>1, <1>6, <2>1, <2>4
    <3>2. k = i /\ (k # 1 => k - 1 \in 1 .. n - 1 /\ from(k - 1) = i - 1)
      BY <1>1, <2>1, <2>4
    <3>3. k # 1 => t[k - 1] = s[i - 1]
      BY <1>2, <3>2
    <3>4. QED
      BY <1>6, <2>1, <2>2, <3>1, <3>2, <3>3
  <2>5. CASE f # i + 1
    <3>1. s[f] # nx[e]
      <4>1. i # n => s[f] # s[i + 1]
        BY <1>7, <2>1, <2>5 DEF Chain
      <4>2. s[f] # null
        BY <2>1 DEF Chain
      <4>3. QED
        BY <1>6, <4>1, <4>2
    <3>2. (k = 1 <=> f = 1) /\ (k # 1 => k - 1 \in 1 .. n - 1 /\ from(k - 1) = f - 1)
      BY <1>1, <2>1, <2>5
    <3>3. k # 1 => t[k - 1] = s[f - 1]
      BY <1>2, <3>2
    <3>4. QED
      BY <2>1, <2>2, <2>3, <3>1, <3>2, <3>3
  <2>6. QED
    BY <2>4, <2>5
<1> HIDE DEF from
<1>14. QED
  <2>1. first2 = (IF pv[e] = null THEN nx[e] ELSE first) /\ last2 = (IF nx[e] = null THEN pv[e] ELSE last)
    BY DEF Joined
  <2>2. QED
    BY <1>1, <1>4, <1>5, <1>10, <1>11, <1>12, <1>13, <2>1 DEF Chain

(* A chain is no longer than there are elements.                           *)
LEMMA ChainShort ==
  ASSUME NEW null, NEW S, IsFiniteSet(S), NEW first, NEW last, NEW nx, NEW pv, NEW s, NEW n, Chain(null, S, first, last, nx, pv, s, n)
  PROVE  Cardinality(S) \in Nat /\ n <= Cardinality(S)
<1>1. n \in Nat /\ IsFiniteSet(1 .. n) /\ Cardinality(1 .. n) = n
  <2>1. n \in Nat
    BY DEF Chain
  <2>2. QED
    BY <2>1, FS_Interval
<1> DEFINE f == [i \in 1 .. n |-> s[i]]
<1>2. f \in Injection(1 .. n, S)
  BY DEF Chain, Injection, IsInjective
<1> HIDE DEF f
<1>3. QED
  BY <1>1, <1>2, FS_Injection, FS_CardinalityType

============================================================================
