---------------------------- MODULE DlistProofs ----------------------------
(***************************************************************************)
(* What the list macros of shfs/dlist.h preserve even when they are        *)
(* misused: unlinking an element that is on no list can lose the rest of   *)
(* the list, but never makes the list reach a detached element.            *)
(***************************************************************************)
EXTENDS Dlist, TLAPS

(* dlist_init_head and dlist_init_el. *)
LEMMA DlEmptyFacts ==
  ASSUME NEW S, NULL \notin S
  PROVE  /\ DlEmpty(S) \in DlType(S)
         /\ DlConsistent(DlEmpty(S), S)
         /\ \A x \in S : DlDetached(DlEmpty(S), x)
BY DEF DlEmpty, DlType, DlConsistent, DlDetached

(* The pointers of a list. *)
LEMMA DlFields ==
  ASSUME NEW S, NEW l \in DlType(S)
  PROVE  /\ l.first \in S \cup {NULL} /\ l.last \in S \cup {NULL}
         /\ l.next \in [S -> S \cup {NULL}] /\ l.prev \in [S -> S \cup {NULL}]
BY DEF DlType

(* The pairing of links, with the pointers as plain functions: e is taken  *)
(* out and its neighbours are joined.                                      *)
LEMMA UnlinkPairs ==
  ASSUME NEW S, NULL \notin S, NEW e \in S,
         NEW nx \in [S -> S \cup {NULL}], NEW pv \in [S -> S \cup {NULL}],
         \A x, y \in S : nx[x] = y <=> pv[y] = x,
         NEW x \in S, NEW y \in S
  PROVE  (IF x = e THEN NULL ELSE IF x = pv[e] THEN nx[e] ELSE nx[x]) = y
           <=> (IF y = e THEN NULL ELSE IF y = nx[e] THEN pv[e] ELSE pv[y]) = x
<1>1. /\ nx[x] = y <=> pv[y] = x
      /\ nx[x] = e <=> pv[e] = x
      /\ nx[e] = y <=> pv[y] = e
  OBVIOUS
<1>2. NULL # x /\ NULL # y
  OBVIOUS
<1>3. QED
  BY <1>1, <1>2

(* The ends of the list: the first element has no predecessor (and, with   *)
(* the roles of the pointers exchanged, the last one no successor).        *)
LEMMA UnlinkEnd ==
  ASSUME NEW S, NULL \notin S, NEW e \in S, NEW f \in S \cup {NULL},
         NEW nx \in [S -> S \cup {NULL}], NEW pv \in [S -> S \cup {NULL}],
         \A x, y \in S : nx[x] = y <=> pv[y] = x,
         f # NULL => pv[f] = NULL,
         NEW g, g = IF pv[e] = NULL THEN nx[e] ELSE f, g # NULL
  PROVE  /\ g \in S /\ g # e
         /\ (IF g = nx[e] THEN pv[e] ELSE pv[g]) = NULL
<1>1. g \in S
  OBVIOUS
<1>2. /\ nx[e] = g <=> pv[g] = e
      /\ nx[e] = e <=> pv[e] = e
  BY <1>1
<1>3. CASE pv[e] = NULL
  BY <1>1, <1>2, <1>3
<1>4. CASE pv[e] # NULL
  BY <1>1, <1>2, <1>4
<1>5. QED
  BY <1>3, <1>4

(* dlist_unlink of any element, linked or not: afterwards it is detached,  *)
(* and what was detached still is.                                         *)
LEMMA DlUnlinkFacts ==
  ASSUME NEW S, NULL \notin S, NEW l \in DlType(S), DlConsistent(l, S), NEW e \in S
  PROVE  /\ DlUnlink(l, e) \in DlType(S)
         /\ DlConsistent(DlUnlink(l, e), S)
         /\ DlDetached(DlUnlink(l, e), e)
         /\ \A x \in S : DlDetached(l, x) => DlDetached(DlUnlink(l, e), x)
<1> DEFINE u == DlUnlink(l, e)
           p == l.prev[e]
           n == l.next[e]
<1>1. u \in DlType(S)
  BY DEF DlUnlink, DlType
<1>2. /\ \A x \in S : u.next[x] = IF x = e THEN NULL ELSE IF x = p THEN n ELSE l.next[x]
      /\ \A x \in S : u.prev[x] = IF x = e THEN NULL ELSE IF x = n THEN p ELSE l.prev[x]
      /\ u.first = IF p = NULL THEN n ELSE l.first
      /\ u.last = IF n = NULL THEN p ELSE l.last
  BY DlFields DEF DlUnlink
<1>3. /\ \A x, y \in S : l.next[x] = y <=> l.prev[y] = x
      /\ \A x, y \in S : l.prev[x] = y <=> l.next[y] = x
      /\ l.first # NULL => l.prev[l.first] = NULL
      /\ l.last # NULL => l.next[l.last] = NULL
  BY DEF DlConsistent
<1> HIDE DEF u
<1>4. \A x, y \in S : u.next[x] = y <=> u.prev[y] = x
  BY <1>2, <1>3, UnlinkPairs, DlFields
<1>5. u.first # NULL => u.first # e /\ u.prev[u.first] = NULL
  BY <1>2, <1>3, UnlinkEnd, DlFields
<1>6. u.last # NULL => u.last # e /\ u.next[u.last] = NULL
  BY <1>2, <1>3, UnlinkEnd, DlFields
<1>7. DlConsistent(u, S)
  BY <1>4, <1>5, <1>6 DEF DlConsistent
<1>8. DlDetached(u, e)
  BY <1>2, <1>5, <1>6 DEF DlDetached
<1>9. ASSUME NEW x \in S, DlDetached(l, x) PROVE DlDetached(u, x)
  <2>1. p # x /\ n # x
    BY <1>9, <1>3 DEF DlDetached
  <2>2. QED
    BY <2>1, <1>9, <1>2 DEF DlDetached
<1>10. QED
  BY <1>1, <1>7, <1>8, <1>9 DEF u

(* dlist_append of a detached element, where it does not fault: only that  *)
(* element becomes linked.                                                 *)
LEMMA DlAppendFacts ==
  ASSUME NEW S, NULL \notin S, NEW l \in DlType(S), DlConsistent(l, S),
         NEW e \in S, DlDetached(l, e), ~DlAppendFaults(l)
  PROVE  /\ DlAppend(l, e) \in DlType(S)
         /\ DlConsistent(DlAppend(l, e), S)
         /\ \A x \in S \ {e} : DlDetached(l, x) => DlDetached(DlAppend(l, e), x)
<1> DEFINE a == DlAppend(l, e)
<1>1. a \in DlType(S)
  BY DEF DlAppend, DlType, DlAppendFaults
<1>2. /\ \A x \in S : a.next[x] = IF x = e THEN NULL
                                 ELSE IF l.first # NULL /\ x = l.last THEN e ELSE l.next[x]
      /\ \A x \in S : a.prev[x] = IF x = e THEN IF l.first = NULL THEN NULL ELSE l.last
                                 ELSE l.prev[x]
      /\ a.first = IF l.first = NULL THEN e ELSE l.first
      /\ a.last = e
  BY DlFields DEF DlAppend
<1>3. /\ \A x, y \in S : l.next[x] = y <=> l.prev[y] = x
      /\ l.first # NULL => l.first \in S /\ l.prev[l.first] = NULL
      /\ l.first # NULL => l.last \in S /\ l.next[l.last] = NULL
      /\ l.first # e /\ l.last # e /\ l.next[e] = NULL /\ l.prev[e] = NULL
  BY DlFields DEF DlConsistent, DlAppendFaults, DlDetached
<1> HIDE DEF a
<1>4. ASSUME NEW x \in S, NEW y \in S PROVE a.next[x] = y <=> a.prev[y] = x
  <2>1. /\ l.next[x] = y <=> l.prev[y] = x
        /\ l.next[e] = y <=> l.prev[y] = e
        /\ l.next[x] = e <=> l.prev[e] = x
        /\ l.first # NULL => (l.next[l.last] = y <=> l.prev[y] = l.last)
    BY <1>3
  <2>2. x # NULL /\ y # NULL
    OBVIOUS
  <2>3. QED
    BY <1>2, <1>3, <2>1, <2>2
<1>5. a.first # NULL => a.prev[a.first] = NULL
  BY <1>2, <1>3
<1>6. a.last # NULL => a.next[a.last] = NULL
  BY <1>2
<1>7. ASSUME NEW x \in S \ {e}, DlDetached(l, x) PROVE DlDetached(a, x)
  BY <1>2, <1>3, <1>7 DEF DlDetached
<1>8. QED
  BY <1>1, <1>4, <1>5, <1>6, <1>7 DEF DlConsistent, a

(* What a walk of the list visits is linked: dlist_foreach never yields a  *)
(* detached element.                                                       *)
LEMMA DlVisitsLinked ==
  ASSUME NEW S, NULL \notin S, NEW l \in DlType(S), DlConsistent(l, S),
         NEW n \in Nat, NEW p \in [0 .. n -> S], DlVisits(l, p, n)
  PROVE  ~DlDetached(l, p[n])
<1>1. CASE n = 0
  BY <1>1 DEF DlVisits, DlDetached
<1>2. CASE n # 0
  <2>1. n \in 1 .. n /\ n - 1 \in 0 .. n /\ n \in 0 .. n
    BY <1>2
  <2>2. p[n] = l.next[p[n - 1]] /\ p[n - 1] \in S /\ p[n] \in S
    BY <2>1 DEF DlVisits
  <2>3. l.prev[p[n]] = p[n - 1]
    BY <2>2 DEF DlConsistent
  <2>4. QED
    BY <2>2, <2>3 DEF DlDetached
<1>3. QED
  BY <1>1, <1>2
============================================================================
