---------------------------- MODULE ElementOrder ----------------------------
(***************************************************************************)
(* What a list of shfs/dlist.h stands for: some elements, each once, in an *)
(* order.                                                                  *)
(***************************************************************************)
EXTENDS SequencesExt

CONSTANT El
VARIABLE order

Without(e) == RemoveAt(order, CHOOSE i \in DOMAIN order : order[i] = e)
Member(e)  == e \in ToSet(order)

Init == order = << >>

Next ==
  \E e \in El :
    \/ ~Member(e) /\ order' \in {order \o <<e>>, <<e>> \o order}
    \/ Member(e)  /\ order' \in {Without(e), Without(e) \o <<e>>, <<e>> \o Without(e)}

Spec == Init /\ [][Next]_order
=============================================================================
