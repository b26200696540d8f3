----------------------------- MODULE Structures -----------------------------
(***************************************************************************)
(* The data structures below the file system, each with the users it has:  *)
(* the pointer lists of dlist.h, the pools of mempool.h, the hash table of *)
(* htable.h, the list of used ranges of shfs_alloc and the layout of a     *)
(* volume.  They share nothing, so that a behaviour uses one of them only. *)
(***************************************************************************)
EXTENDS Integers, Sequences, FiniteSets

CONSTANTS NULL,
          El,                                  \* elements of a pointer list
          Ask, MinAlign, PoolHdr, ObjHdr,      \* as in Mempool
          NbBkts, PerBkt, Digest,              \* as in Htable
          AreaEnd, MaxLen,                     \* chunks of a volume, and of a file
          Word, MaxMembers, Stripe, MemberSize \* as in ShfsLayout

ASSUME StructuresAssumption ==
  /\ IsFiniteSet(El) /\ NULL \notin El \cup Nat
  /\ MinAlign \in Nat \ {0} /\ PoolHdr \in Nat /\ ObjHdr \in Nat
  /\ Ask \subseteq [nb : Nat \ {0}, size : Nat, head : Nat, tail : Nat, private : Nat, align : Nat, sep : BOOLEAN]
  /\ \A ask \in Ask : ask.align <= MinAlign \/ ask.align % MinAlign = 0   \* both powers of two
  /\ NbBkts \in Nat \ {0} /\ PerBkt \in Nat \ {0} /\ Digest \subseteq Nat \ {0}
  /\ AreaEnd \in Nat /\ AreaEnd > 2 /\ MaxLen \in Nat
  /\ Word \in Nat /\ MaxMembers \in Nat /\ Stripe \subseteq Nat \ {0} /\ MemberSize \subseteq 0 .. Word - 1

VARIABLES kind,              \* the structure that is in use
          list,              \* of DlistOps
          pool, area, held,  \* of Mempool
          ht,                \* of Htable
          al,                \* the list of used ranges
          vol                \* a volume: its layout, the sizes of its members, its size

List    == INSTANCE DlistOps
Pool    == INSTANCE Mempool
Table   == INSTANCE Htable
Alloc   == INSTANCE ShfsAlloc
Layout  == INSTANCE ShfsLayout

poolVars == <<pool, area, held>>
vars == <<kind, list, pool, area, held, ht, al, vol>>

NoVolume == [lay |-> [mode |-> "none", nb |-> 0, stripe |-> 1], size |-> << >>, volsize |-> 0]

(* load_vol_alist of shfs_admin begins with the label and the              *)
(* configuration.                                                          *)
Init ==
  /\ kind \in {"list", "pool", "table", "ranges", "layout"}
  /\ List!Init /\ Pool!Init /\ Table!Init
  /\ al = Alloc!Register(<< >>, 0, 2)
  /\ vol = NoVolume

(* A file takes the room that is found, or none; its removal gives it back.*)
TakeRoom(len) ==
  LET start == Alloc!FindFree(al, "first fit", AreaEnd, len)
  IN  start # 0 /\ al' = Alloc!Register(al, start, len)
GiveBack(i) == al' = Alloc!Unregister(al, al[i].start, al[i].end - al[i].start)

Smallest(sizes) == CHOOSE s \in sizes : \A t \in sizes : s <= t

(* shfs_mkfs sizes a volume for members of these sizes.                    *)
Format ==
  \E nb \in 1 .. MaxMembers : \E mode \in Layout!Modes(nb), ss \in Stripe, size \in [0 .. nb - 1 -> MemberSize] :
    LET lay   == [mode |-> mode, nb |-> nb, stripe |-> ss]
        least == Smallest({size[m] : m \in 0 .. nb - 1})
    IN  vol' = [lay |-> lay, size |-> size, volsize |-> Layout!VolSize(lay, least)]

Next ==
  /\ UNCHANGED kind
  /\ \/ kind = "list"   /\ List!Next   /\ UNCHANGED <<poolVars, ht, al, vol>>
     \/ kind = "pool"   /\ Pool!Next   /\ UNCHANGED <<list, ht, al, vol>>
     \/ kind = "table"  /\ Table!Next  /\ UNCHANGED <<list, poolVars, al, vol>>
     \/ /\ kind = "ranges" /\ UNCHANGED <<list, poolVars, ht, vol>>
        /\ \/ \E len \in 1 .. MaxLen : TakeRoom(len)
           \/ \E i \in 2 .. Len(al) : GiveBack(i)
     \/ kind = "layout" /\ vol = NoVolume /\ Format /\ UNCHANGED <<list, poolVars, ht, al>>

Spec == Init /\ [][Next]_vars

-----------------------------------------------------------------------------
(* The macros of dlist.h keep an ordered collection.                       *)
ImplementsOrder == List!ImplementsOrder

(* Both walks along a list agree, and dlist_is_linked with them.           *)
ListExact == List!ListExact

(* No object of a pool is lost or doubled.                                 *)
PoolExact == Pool!PoolExact

(* The data of two objects of a pool never overlap.                        *)
AreasApart == Pool!AreasApart

(* The hash table of digests lists and finds what is in it.                *)
TableExact == Table!TableExact

(* Chunks that no range covers. *)
FreeChunks == {c \in 0 .. AreaEnd - 1 : \A i \in DOMAIN al : c < al[i].start \/ c >= al[i].end}

(* As long as only shfs_admin's own files are on the volume their ranges   *)
(* never overlap, and the first fit finds the first room there is, or none *)
(* when there is none.                                                     *)
FirstFitExact ==
  /\ \A i, j \in DOMAIN al : i < j => al[i].end <= al[j].start
  /\ \A len \in 1 .. MaxLen :
       LET fits == {c \in 1 .. AreaEnd - len : c .. c + len - 1 \subseteq FreeChunks}
           got  == Alloc!FindFree(al, "first fit", AreaEnd, len)
       IN  IF fits = {} THEN got = 0 ELSE got = Smallest(fits)

(* What shfs_mkfs formats the mount accepts: its members are large enough, *)
(* every chunk but the first has stripes of its own, the same number on    *)
(* each member or one, inside the members and apart from the labels.  Not  *)
(* so if a member is smaller than a chunk, when the size wraps around.     *)
LayoutFits ==
  LET lay    == vol.lay
      Chunks == 1 .. vol.volsize - 1
      at(c)  == Layout!Strips(lay, c, 1)
  IN  (\A m \in DOMAIN vol.size : vol.size[m] >= Layout!ChunkSize(lay)) =>
      \A m \in DOMAIN vol.size :
        /\ vol.size[m] >= Layout!MinMemberSize(lay, vol.volsize)
        /\ \A c \in Chunks :
             /\ \A s \in at(c) : s[2] >= 1 /\ (s[1] = m => (s[2] + 1) * lay.stripe <= vol.size[m])
             /\ Cardinality(at(c)) * lay.stripe = Layout!ChunkSize(lay)
             /\ \A d \in Chunks \ {c} : at(c) \cap at(d) = {}
=============================================================================
