---------------------------- MODULE MCShfsCache ----------------------------
(* Instances of ShfsCache for TLC. *)
EXTENDS ShfsCache, TLC

(* The buffers of the pool are interchangeable, and so are the handles.    *)
(* This is sound for invariants and action properties; the runs with       *)
(* liveness properties do without it.                                      *)
Symmetry == Permutations(PoolBuf) \cup Permutations(Handle)
============================================================================
