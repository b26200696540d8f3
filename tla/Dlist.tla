------------------------------- MODULE Dlist -------------------------------
(***************************************************************************)
(* The intrusive doubly linked lists of shfs/dlist.h, pointer by pointer.  *)
(* A list is a record: the head's first and last pointers, and the next    *)
(* and prev pointers of every element that may be linked into it.  The C   *)
(* macros do not know whether an element is on the list they are given,    *)
(* and neither do these operators: unlinking an element that is on no list *)
(* is defined, and it is not a no-op.                                      *)
(***************************************************************************)

EXTENDS Naturals

CONSTANT NULL      \* the null pointer

(* The shape of a list over the elements S. *)
DlType(S) == [first : S \cup {NULL}, last : S \cup {NULL},
              next : [S -> S \cup {NULL}], prev : [S -> S \cup {NULL}]]

(* dlist_init_head and dlist_init_el: nothing is linked. *)
DlEmpty(S) == [first |-> NULL, last |-> NULL,
               next |-> [e \in S |-> NULL], prev |-> [e \in S |-> NULL]]

(* dlist_unlink: an element without neighbours resets the head's pointers, *)
(* whether or not the head points to it.  Operators whose name ends in Bug *)
(* are the ones that follow them with a plausible mistake.                 *)
DlUnlinkStaleBug(l, e) ==
  LET p == l.prev[e]
      n == l.next[e]
  IN  [first |-> IF p = NULL THEN n ELSE l.first,
       last  |-> IF n = NULL THEN p ELSE l.last,
       next  |-> [x \in DOMAIN l.next |-> IF x = p THEN n ELSE l.next[x]],
       prev  |-> [x \in DOMAIN l.prev |-> IF x = n THEN p ELSE l.prev[x]]]
DlUnlink(l, e) ==
  LET p == l.prev[e]
      n == l.next[e]
  IN  [first |-> IF p = NULL THEN n ELSE l.first,
       last  |-> IF n = NULL THEN p ELSE l.last,
       next  |-> [x \in DOMAIN l.next |->
                    IF x = e THEN NULL ELSE IF x = p THEN n ELSE l.next[x]],
       prev  |-> [x \in DOMAIN l.prev |->
                    IF x = e THEN NULL ELSE IF x = n THEN p ELSE l.prev[x]]]

(* dlist_append writes through head.last as soon as head.first is set.     *)
DlAppendFaults(l) == l.first # NULL /\ l.last = NULL

(* dlist_append, where it does not dereference the null pointer. *)
DlAppend(l, e) ==
  [first |-> IF l.first = NULL THEN e ELSE l.first,
   last  |-> e,
   next  |-> [x \in DOMAIN l.next |->
                IF x = e THEN NULL
                ELSE IF l.first # NULL /\ x = l.last THEN e ELSE l.next[x]],
   prev  |-> [l.prev EXCEPT ![e] = IF l.first = NULL THEN NULL ELSE l.last]]

(* dlist_prepend *)
DlPrependBug(l, e) ==
  [first |-> e,
   last  |-> IF l.last = l.first THEN e ELSE l.last,
   next  |-> [l.next EXCEPT ![e] = l.first],
   prev  |-> [x \in DOMAIN l.prev |->
                IF x = e THEN NULL ELSE IF x = l.first THEN e ELSE l.prev[x]]]
DlPrepend(l, e) ==
  [first |-> e,
   last  |-> IF l.first = NULL THEN e ELSE l.last,
   next  |-> [l.next EXCEPT ![e] = l.first],
   prev  |-> [x \in DOMAIN l.prev |->
                IF x = e THEN NULL ELSE IF x = l.first THEN e ELSE l.prev[x]]]

(* dlist_relink_tail and dlist_relink_head. *)
DlRelinkTail(l, e) == DlAppend(DlUnlink(l, e), e)
DlRelinkHead(l, e) == DlPrepend(DlUnlink(l, e), e)

(* dlist_is_linked *)
DlIsLinked(l, e) == l.prev[e] # NULL \/ l.next[e] # NULL \/ l.first = e \/ l.last = e

(* dlist_foreach visits p[0], p[1], ... p[n]; dlist_foreach_reverse visits *)
(* the same elements backwards.  The walk is complete when it meets NULL.  *)
DlVisits(l, p, n) == /\ p[0] = l.first
                     /\ \A i \in 1..n : p[i] = l.next[p[i - 1]]
DlVisitsReverse(l, p, n) == /\ p[n] = l.last
                            /\ \A i \in 1..n : p[i - 1] = l.prev[p[i]]

(* e is not linked, and the head does not point to it.  By DlConsistent no *)
(* element points to it either.                                            *)
DlDetached(l, e) == l.next[e] = NULL /\ l.prev[e] = NULL /\ l.first # e /\ l.last # e

(* Links come in pairs, and the ends have no outer neighbours.  This is    *)
(* less than being one list: elements may be linked to each other and not  *)
(* reachable from the head.                                                *)
DlConsistent(l, S) ==
  /\ \A x, y \in S : l.next[x] = y <=> l.prev[y] = x
  /\ l.first # NULL => l.prev[l.first] = NULL
  /\ l.last # NULL => l.next[l.last] = NULL
============================================================================
