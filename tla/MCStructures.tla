---- MODULE MCStructures ----
(* Values for the constants of Structures that a .cfg cannot write. *)
EXTENDS Structures

(* Pools of one large, two small and three empty objects. *)
MCAsk ==
  [nb : {1}, size : {3}, head : {0, 1, 3}, tail : {0, 1}, private : {0, 3}, align : {0, 4}, sep : BOOLEAN]
  \cup [nb : {2}, size : {1}, head : {0}, tail : {1}, private : {0, 1}, align : {0}, sep : BOOLEAN]
  \cup [nb : {3}, size : {0}, head : {0}, tail : {0}, private : {1}, align : {0}, sep : BOOLEAN]
====
