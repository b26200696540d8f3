----------------------------- MODULE MCShfsFio -----------------------------
(* Instances of ShfsFio for TLC. *)
EXTENDS ShfsFio, TLC

CONSTANTS f, g      \* two digests

(* A volume with two files, g before f, of which f is the default, ... *)
WithDefault == [e \in Entry |->
  CASE e = 1 -> [file |-> g, at |-> 2, def |-> FALSE]
    [] e = 2 -> [file |-> f, at |-> 1, def |-> TRUE]
    [] OTHER -> [file |-> NoFile, at |-> 1, def |-> FALSE]]
TwoFiles == {WithDefault}

(* ... the same volume without a default file, ... *)
NoDefault == {[e \in Entry |-> [WithDefault[e] EXCEPT !.def = FALSE]]}

(* ... and a volume with one file and a free entry before it. *)
OneFile == [e \in Entry |-> [file |-> IF e = 2 THEN f ELSE NoFile, at |-> 1, def |-> FALSE]]
TwoVolumes == {WithDefault, OneFile}

Symmetry == Permutations(Client)
============================================================================
