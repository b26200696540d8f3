---------------------------- MODULE ChunkReads -----------------------------
(***************************************************************************)
(* What the chunk cache promises its callers (the contract in the comments *)
(* of shfs/shfs_cache.h), without buffers, lists, tokens or reference      *)
(* counts: a caller gets the bytes of the chunk it asked for, at once or   *)
(* after waiting; one read answers all the callers waiting for a chunk,    *)
(* alike; what a caller was given stays as it is until it releases it; a   *)
(* blank buffer is its own; and at most NbBuf buffers' worth of different  *)
(* chunks and blanks is in use at a time.                                  *)
(***************************************************************************)
EXTENDS Naturals, FiniteSets

CONSTANTS Handle, Chunk, NbBuf

VARIABLE view       \* what each handle stands for, as its caller sees it

Idle     == [st |-> "idle", chunk |-> 0, bytes |-> 0]
Waiting(a) == [st |-> "waiting", chunk |-> a, bytes |-> 0]
Ready(a) == [st |-> "ready", chunk |-> a, bytes |-> a]
Failed(a) == [st |-> "failed", chunk |-> a, bytes |-> 0]
Blank    == [st |-> "blank", chunk |-> 0, bytes |-> 0]

(* The buffers a view needs: one for each chunk in use, one for each blank. *)
Needed(v) ==
  Cardinality({v[h].chunk : h \in {x \in Handle : v[x].st \notin {"idle", "blank"}}})
    + Cardinality({h \in Handle : v[h].st = "blank"})

Init == view = [h \in Handle |-> Idle]

(* A read or a blank buffer is granted if a buffer can be had. *)
Grant(h, v) ==
  /\ view[h] = Idle
  /\ view' = [view EXCEPT ![h] = v]
  /\ Needed(view') <= NbBuf

(* A failed read is handed out again only while somebody still holds it.   *)
Serve(h, a) ==
  \/ Grant(h, Ready(a)) /\ \A x \in Handle : view[x] \notin {Waiting(a), Failed(a)}
  \/ Grant(h, Waiting(a)) /\ \A x \in Handle : view[x] \notin {Ready(a), Failed(a)}
  \/ Grant(h, Failed(a)) /\ \E x \in Handle : view[x] = Failed(a)

Answer(a, v) ==
  /\ \E h \in Handle : view[h] = Waiting(a)
  /\ view' = [h \in Handle |-> IF view[h] = Waiting(a) THEN v ELSE view[h]]

Release(h) == view[h] # Idle /\ view' = [view EXCEPT ![h] = Idle]

Next ==
  \/ \E h \in Handle : Release(h) \/ Grant(h, Blank)
  \/ \E h \in Handle, a \in Chunk : Serve(h, a)
  \/ \E a \in Chunk : Answer(a, Ready(a)) \/ Answer(a, Failed(a))

Spec == Init /\ [][Next]_view
============================================================================
