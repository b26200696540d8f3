---- MODULE MCVolume ----
(* Values for the constants of Volume that a .cfg cannot write. *)
EXTENDS Volume
CONSTANTS d1, d2, d3

(* The first volume and the later ones share a member.                     *)
MCMembersOf == [v \in Volume |-> IF v = 1 THEN <<d1, d3>> ELSE <<d1, d2>>]
MCDeviceList == {<<d1, d2>>, <<d3, d1>>, <<d1, d2, d3>>}

(* A file of one full chunk, whose digest is that of nothing, and a longer *)
(* one.                                                                    *)
MCFile == {[blocks |-> <<"a">>, full |-> TRUE], [blocks |-> <<"b", "c">>, full |-> FALSE]}
====
