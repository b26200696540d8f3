------------------------------ MODULE DlistOps ------------------------------
(***************************************************************************)
(* One list of shfs/dlist.h and its elements, used as the macros ask for:  *)
(* an element is linked when it is not on the list and unlinked or         *)
(* relinked when it is.                                                    *)
(***************************************************************************)
EXTENDS Dlist, SequencesExt

CONSTANT El

VARIABLE list

Init == list = DlEmpty(El)

AppendEl(e)    == ~DlIsLinked(list, e) /\ list' = DlAppend(list, e)
PrependEl(e)    == ~DlIsLinked(list, e) /\ list' = DlPrepend(list, e)
UnlinkEl(e)     == DlIsLinked(list, e) /\ list' = DlUnlink(list, e)
RelinkTail(e) == DlIsLinked(list, e) /\ list' = DlRelinkTail(list, e)
RelinkHead(e) == DlIsLinked(list, e) /\ list' = DlRelinkHead(list, e)

Next == \E e \in El : AppendEl(e) \/ PrependEl(e) \/ UnlinkEl(e) \/ RelinkTail(e) \/ RelinkHead(e)

Spec == Init /\ [][Next]_list

-----------------------------------------------------------------------------
(* The elements met from `from' on along the pointers `ptr'; a walk that   *)
(* does not end is cut off after as many steps as there are elements.      *)
Walk(from, ptr) ==
  LET n == Cardinality(El)
      at[i \in 1 .. n + 1] == IF i = 1 THEN from
                              ELSE IF at[i - 1] = NULL THEN NULL ELSE ptr[at[i - 1]]
  IN  SubSeq(at, 1, Cardinality({i \in 1 .. n : at[i] # NULL}))

Forward  == Walk(list.first, list.next)
Backward == Walk(list.last, list.prev)

(* dlist_foreach meets the elements that were linked and not unlinked, in  *)
(* the order the operations leave them in.                                 *)
Elements == INSTANCE ElementOrder WITH order <- Forward
ImplementsOrder == Elements!Spec

(* dlist_foreach_reverse meets the same elements in the reverse order, and *)
(* dlist_is_linked tells the elements on the list from the others.         *)
ListExact ==
  /\ Backward = Reverse(Forward)
  /\ \A e \in El : DlIsLinked(list, e) <=> e \in ToSet(Forward)
=============================================================================
