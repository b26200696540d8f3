------------------------------ MODULE ShfsAlloc ------------------------------
(***************************************************************************)
(* The list of used ranges that shfs_admin searches for room (shfs_alloc): *)
(* half-open ranges of chunks, ordered by where they start.                *)
(***************************************************************************)
EXTENDS Integers, Sequences, SequencesExt

Area(start, len) == [start |-> start, end |-> start + len]

(* shfs_alist_register: before the first range that starts later. *)
Register(al, start, len) ==
  LET later == {i \in DOMAIN al : al[i].start > start}
  IN  InsertAt(al, IF later = {} THEN Len(al) + 1 ELSE CHOOSE i \in later : \A j \in later : i <= j,
               Area(start, len))

(* shfs_alist_unregister: the first range that is exactly this one.        *)
Unregister(al, start, len) ==
  LET same == {i \in DOMAIN al : al[i] = Area(start, len)}
  IN  IF same = {} THEN al ELSE RemoveAt(al, CHOOSE i \in same : \A j \in same : i <= j)

-----------------------------------------------------------------------------
(* _shfs_alist_find_ff, range by range.  From range i on it skips those    *)
(* that start no later than the end of the one before, which need not be   *)
(* the greatest end so far.                                                *)
RunEnd(al, i) ==
  CHOOSE j \in i .. Len(al) : /\ \A k \in i .. j - 1 : al[k + 1].start <= al[k].end
                              /\ j < Len(al) => al[j + 1].start > al[j].end

(* The free segment behind that run: it may be empty or, seen as a         *)
(* difference of unsigned numbers, enormous.                               *)
FreeStart(al, i) ==
  CHOOSE e \in {al[k].end : k \in i .. RunEnd(al, i)} : \A k \in i .. RunEnd(al, i) : al[k].end <= e
FreeEnd(al, i, end) == IF RunEnd(al, i) < Len(al) THEN al[RunEnd(al, i) + 1].start ELSE end
FitsBug(al, i, end, len) == FreeEnd(al, i, end) - FreeStart(al, i) > len
Fits(al, i, end, len) ==
  LET room == FreeEnd(al, i, end) - FreeStart(al, i)
  IN  room < 0 \/ room >= len

(* The runs the search looks at, one after the other: a run that fills the *)
(* volume ends it.                                                         *)
Runs(al) == {i \in DOMAIN al : i = 1 \/ \E j \in 1 .. i - 1 : RunEnd(al, j) = i - 1}
FindFirst(al, end, len) ==
  LET found == {i \in Runs(al) : /\ Fits(al, i, end, len)
                                 /\ ~(RunEnd(al, i) = Len(al) /\ FreeStart(al, i) = end)}
  IN  IF found = {} THEN 0 ELSE FreeStart(al, CHOOSE i \in found : \A j \in found : i <= j)

(* shfs_alist_find_free: the best fit prints the segments and finds none.  *)
FindFree(al, allocator, end, len) == IF allocator = "first fit" THEN FindFirst(al, end, len) ELSE 0
==============================================================================
