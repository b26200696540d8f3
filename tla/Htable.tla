------------------------------- MODULE Htable -------------------------------
(***************************************************************************)
(* The hash table of digests of htable.h, as shfs_btable.h, shfs_admin and *)
(* the statistics use it: buckets of places for digests, and one list of   *)
(* the elements in use through all buckets.  A digest is a number, zero    *)
(* the digest that marks a place as free.                                  *)
(***************************************************************************)
EXTENDS Integers, Sequences, FiniteSets

CONSTANTS NULL,          \* the null pointer
          NbBkts,        \* nb_bkts
          PerBkt,        \* el_per_bkt
          Digest         \* the digests callers may use, not zero

VARIABLE ht              \* the digest of each place, the ends of the list,
                         \* and the pointers of the elements

Place == 0 .. NbBkts * PerBkt - 1
InBkt(b) == {p \in Place : p \div PerBkt = b}

(* alloc_htable clears everything. *)
Init == ht = [h |-> [p \in Place |-> 0], head |-> NULL, tail |-> NULL,
              prev |-> [p \in Place |-> NULL], next |-> [p \in Place |-> NULL]]

(* _htable_bkt_no.  What it takes of a digest, the lower half of the first *)
(* eight bytes (h64 has 32 bits), is the number that stands for it here.   *)
BktNo(d) == d % NbBkts

FirstOf(places) == IF places = {} THEN NULL ELSE CHOOSE p \in places : \A q \in places : p <= q

(* htable_lookup: the zero digest is never found. *)
Lookup(t, d) == FirstOf({p \in InBkt(BktNo(d)) : d # 0 /\ t.h[p] = d})

(* Where htable_add and htable_lookup_add put a digest. *)
FreePlace(t, d) == FirstOf({p \in InBkt(BktNo(d)) : t.h[p] = 0})

(* An element becomes the last of the list; its old pointers are ignored.  *)
Linked(t, p) ==
  [t EXCEPT !.head = IF @ = NULL THEN p ELSE @,
            !.prev[p] = IF t.head = NULL THEN NULL ELSE t.tail,
            !.next = [q \in Place |-> IF q = p THEN NULL
                                      ELSE IF t.head # NULL /\ q = t.tail THEN p ELSE @[q]],
            !.tail = p]

(* An element leaves the list and keeps its own pointers. *)
Unlinked(t, p) ==
  [t EXCEPT !.head = IF t.prev[p] = NULL THEN t.next[p] ELSE @,
            !.tail = IF t.next[p] = NULL THEN t.prev[p] ELSE @,
            !.next = [q \in Place |-> IF q = t.prev[p] THEN t.next[p] ELSE @[q]],
            !.prev = [q \in Place |-> IF q = t.next[p] THEN t.prev[p] ELSE @[q]]]

(* htable_lookup_add of the statistics when it has to add, and             *)
(* shfs_btable_addentry, which shfs_admin calls after a look-up that finds *)
(* nothing: htable_add itself does not look for the digest.                *)
Add(d) ==
  /\ Lookup(ht, d) = NULL /\ FreePlace(ht, d) # NULL
  /\ LET p == FreePlace(ht, d) IN ht' = Linked([ht EXCEPT !.h[p] = d], p)

(* htable_rm through shfs_btable_rmentry. *)
Remove(d) ==
  /\ Lookup(ht, d) # NULL
  /\ LET p == Lookup(ht, d) IN ht' = [Unlinked(ht, p) EXCEPT !.h[p] = 0]

(* shfs_btable_feed: what was at the place is replaced by the digest the   *)
(* volume has there, which is zero or one of that bucket; a digest moves   *)
(* to the end of the list even if it was there before.                     *)
FeedBug(p, d) ==
  LET out == [ht EXCEPT !.h[p] = d]
  IN  /\ d # 0 => BktNo(d) = p \div PerBkt
      /\ ht' = IF d = 0 THEN out ELSE Linked(out, p)
Feed(p, d) ==
  LET out == [(IF ht.h[p] = 0 THEN ht ELSE Unlinked(ht, p)) EXCEPT !.h[p] = d]
  IN  /\ d # 0 => BktNo(d) = p \div PerBkt
      /\ ht' = IF d = 0 THEN out ELSE Linked(out, p)

-----------------------------------------------------------------------------
(* The elements met by foreach_htable_el; a list longer than the places it *)
(* could have is cut off.                                                  *)
Walk(t) ==
  LET n == Cardinality(Place) + 1
      at[i \in 1 .. n] == IF i = 1 THEN t.head
                          ELSE IF at[i - 1] = NULL THEN NULL ELSE t.next[at[i - 1]]
  IN  SubSeq(at, 1, Cardinality({i \in 1 .. n : at[i] # NULL}))

(* htable_clear clears the digests of the elements on the list. *)
Clear ==
  ht' = [ht EXCEPT !.h = [p \in Place |-> IF \E i \in 1 .. Len(Walk(ht)) : Walk(ht)[i] = p
                                          THEN 0 ELSE @[p]],
                   !.head = NULL, !.tail = NULL]

Next ==
  \/ \E d \in Digest : Add(d) \/ Remove(d)
  \/ \E p \in Place, d \in Digest \cup {0} : Feed(p, d)
  \/ Clear

(* The list meets every place in use once and no other, and a digest that  *)
(* is anywhere in the table is found, at a place that has it.              *)
TableExact ==
  LET walk == Walk(ht)
  IN  /\ {walk[i] : i \in 1 .. Len(walk)} = {p \in Place : ht.h[p] # 0}
      /\ Len(walk) = Cardinality({p \in Place : ht.h[p] # 0})
      /\ \A d \in Digest : LET at == {p \in Place : ht.h[p] = d}
                           IN  IF at = {} THEN Lookup(ht, d) = NULL ELSE Lookup(ht, d) \in at
=============================================================================
