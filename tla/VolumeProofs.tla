---------------------------- MODULE VolumeProofs ----------------------------
(***************************************************************************)
(* Proofs about volumes: a mount opens and closes devices and allocates    *)
(* and frees what it should, what is mounted was formatted to the end, and *)
(* files keep the blocks that shfs_admin wrote.                            *)
(***************************************************************************)
EXTENDS Volume, Counting

On(ds, d) == \E i \in DOMAIN ds : ds[i] = d
Distinct(ds) == \A i, j \in DOMAIN ds : ds[i] = ds[j] => i = j

-----------------------------------------------------------------------------
(* The labels on the devices.                                              *)

DiskShape == disk = [dev \in Device |-> [i \in 0 .. NbStripe - 1 |-> disk[dev][i]]]

Meta == MetadataSize(NbEntry, PerChunk)

(* The metadata fit in a volume, and the volume on its members.            *)
Roomy(v) == Meta <= VolChunks(MembersOf[v])
Fitting(ms) == MinMemberSize(Lay(ms), VolChunks(ms)) <= NbStripe

(* The label of volume v lies where it says.                               *)
LabelOf(dev, v, m) == /\ v \in Volume /\ m \in DOMAIN MembersOf[v] /\ MembersOf[v][m] = dev
                      /\ disk[dev][0] = Label(v, m) /\ Roomy(v)
LabelsOK == \A dev \in Device : IsLabel(dev) => \E v, m : LabelOf(dev, v, m)

MkOK == /\ mk \in [pc : {"idle", "unlabel", "erase", "config", "label"}, vol : Volume, next : Nat, last : Int]
        /\ Roomy(mk.vol)
        /\ mk.pc \in {"unlabel", "label"} => mk.next \in DOMAIN MembersMade

(* What formatting has done so far.                                        *)
Unlabelled(v) == \A m \in DOMAIN MembersOf[v] : ~IsLabel(MembersOf[v][m])
ZeroTable(v) == \A c \in TableChunks : Chunk(MembersOf[v], c) = Zero
MkErased ==
  LET v == mk.vol
  IN  /\ mk.pc = "unlabel" => \A m \in DOMAIN MembersOf[v] : ~(m < mk.next /\ IsLabel(MembersOf[v][m]))
      /\ mk.pc \in {"unlabel", "erase"} => mk.last >= Meta - 1
      /\ mk.pc \in {"erase", "config"} => Unlabelled(v)
      /\ mk.pc = "erase" =>
           /\ mk.next >= 2
           /\ Fitting(MembersOf[v]) => \A c \in TableChunks : c >= mk.next \/ Chunk(MembersOf[v], c) = Zero
      /\ mk.pc \in {"config", "label"} /\ Fitting(MembersOf[v]) => ZeroTable(v)
      /\ mk.pc = "label" =>
           /\ Fitting(MembersOf[v]) => Chunk(MembersOf[v], 1) = Config(v)
           /\ \A m \in DOMAIN MembersOf[v] : IsLabel(MembersOf[v][m]) => disk[MembersOf[v][m]][0].vol = v

-----------------------------------------------------------------------------
(* What is on a formatted volume.                                          *)
Entries ==
  {h \in [is : {"free", "file", "link"}, what : File \cup Link \cup {<< >>}, at : Nat,
          def : BOOLEAN, done : BOOLEAN] : (h.is # "free" => h.at >= Meta) /\ (h.is = "file" => h.what \in File)}

TableChunkOK(v, c, x) == x = Zero \/ \E ent \in [EntriesOf(c) -> Entries] : x = Table(v, ent)
ContentsOK(v) == /\ Chunk(MembersOf[v], 1) = Config(v)
                 /\ \A c \in TableChunks : TableChunkOK(v, c, Chunk(MembersOf[v], c))
FormattedOK == \A v \in Volume : Formatted(v) /\ Fitting(MembersOf[v]) => ContentsOK(v)

(* The list of used ranges begins with the metadata.                       *)
AreaSet == [start : Nat, end : Nat]
RangesOK(al) ==
  /\ al \in Seq(AreaSet) /\ Len(al) >= 2 /\ al[1] = Area(0, 2) /\ al[2] = Area(2, Meta - 2)
  /\ \A i \in DOMAIN al : i >= 3 => al[i].start >= Meta /\ al[i].end >= al[i].start

Sessions == [pc : {"idle", "ready", "copy", "umount"}, members : Seq(Device),
             tab : {<< >>} \cup [Entry -> Entries], modified : SUBSET TableChunks, al : Seq(AreaSet),
             def : 0 .. NbEntry, job : 0 .. NbEntry, next : Nat]
AdOK ==
  /\ ad \in Sessions
  /\ ad.pc = "idle" => ad.members = << >>
  /\ ad.pc # "idle" =>
       /\ \E v \in Volume : ad.members = MembersOf[v] /\ Formatted(v) /\ Fitting(MembersOf[v])
       /\ ad.tab \in [Entry -> Entries] /\ RangesOK(ad.al)
  /\ ad.pc = "copy" => ad.job \in Entry /\ ad.tab[ad.job].is = "file" /\ ad.next >= 1

DiskInv == DiskShape /\ LabelsOK /\ MkOK /\ MkErased /\ FormattedOK

-----------------------------------------------------------------------------
(* The devices a mount has open.                                           *)

Mounts == [pc : {"idle", "probe", "close", "pool", "hconf", "htable", "buffer", "cache"},
          probe : Seq(Device), det : Seq(Device), members : Seq(Device), close : Seq(Device),
          then : {"idle", "pool"}]
KmType ==
  /\ km \in Mounts
  /\ mounted \in BOOLEAN /\ refs \in [Device -> Nat] /\ heap \in [Things -> Nat]

(* Where the members are open, or will be left open.                       *)
HasMembers == \/ km.pc = "close" /\ km.then = "pool"
              \/ km.pc \in {"pool", "hconf", "htable", "buffer", "cache"}
              \/ km.pc = "idle" /\ mounted

InUse(d) == \/ km.pc = "probe" /\ On(km.det, d)
            \/ km.pc = "close" /\ On(km.close, d)
            \/ HasMembers /\ On(km.members, d)

RefsExact == \A d \in Device : refs[d] = IF InUse(d) THEN 1 ELSE 0

Probing ==
  km.pc = "probe" =>
    /\ ~mounted /\ Distinct(km.det) /\ Distinct(km.probe)
    /\ \A i \in DOMAIN km.det, j \in DOMAIN km.probe : km.det[i] # km.probe[j]
    /\ \A i \in DOMAIN km.det : IsLabel(km.det[i])
ClosingOK ==
  km.pc = "close" =>
    /\ km.close # << >> /\ Distinct(km.close)
    /\ km.then = "pool" => ~mounted
MembersOK ==
  HasMembers => \E v \in Volume : km.members = MembersOf[v] /\ Formatted(v) /\ Fitting(km.members)

HeapExact ==
  LET whole == km.pc = "idle" /\ mounted
  IN  /\ heap["table"] = IF km.pc \in {"buffer", "cache"} \/ whole THEN 1 ELSE 0
      /\ heap["buffer"] = IF km.pc = "cache" \/ whole THEN 1 ELSE 0
      /\ heap["cache"] = IF whole THEN 1 ELSE 0
      /\ km.pc \in {"hconf", "htable", "buffer", "cache"} \/ whole => heap["pool"] >= 1
MountedLate ==
  /\ km.pc = "pool" => ~mounted
  /\ km.pc \in {"hconf", "htable", "buffer", "cache"} => mounted

KmInv == KmType /\ RefsExact /\ Probing /\ ClosingOK /\ MembersOK /\ HeapExact /\ MountedLate

IInv == DiskInv /\ AdOK /\ KmInv

-----------------------------------------------------------------------------
(* What FoundMembers finds are the members of a formatted volume.          *)
LEMMA FoundAreMembers ==
  ASSUME VolumeAssumption, LabelsOK, NEW list \in Seq(Device), list # << >>,
         \A i \in DOMAIN list : IsLabel(list[i]), AllFound(list)
  PROVE  LET v == VolumeOf(list)
         IN  /\ v \in Volume /\ FoundMembers(list) = MembersOf[v] /\ Formatted(v)
             /\ MembersOf[v] \in Seq(Device) /\ MembersOf[v] # << >> /\ Distinct(MembersOf[v])
             /\ \A d \in Device : On(MembersOf[v], d) => On(list, d)
<1> DEFINE v == VolumeOf(list)
<1>1. 1 \in DOMAIN list /\ \A i \in DOMAIN list : list[i] \in Device
  OBVIOUS
<1>2. PICK w, n : LabelOf(list[1], w, n)
  BY <1>1 DEF LabelsOK
<1>3. v = w /\ v \in Volume
  BY <1>2 DEF LabelOf, VolumeOf, Label
<1>4. MembersOf[v] \in Seq(Device) /\ MembersOf[v] # << >> /\ Distinct(MembersOf[v])
  BY <1>3 DEF VolumeAssumption, IsInjective, Distinct
<1>5. ASSUME NEW m \in DOMAIN MembersOf[v]
      PROVE  /\ FoundMembers(list)[m] = MembersOf[v][m]
             /\ disk[MembersOf[v][m]][0] = Label(v, m)
             /\ On(list, MembersOf[v][m])
  <2> DEFINE W == WithUuid(list, v, m)
  <2>1. W \subseteq Nat /\ W # {} /\ W \subseteq DOMAIN list
    BY DEF AllFound, WithUuid
  <2>2. PICK i \in W : \A j \in W : i <= j
    BY <2>1, NatLeast
  <2>3. PICK k \in W : k = CHOOSE x \in W : \A j \in W : x <= j
    BY <2>2
  <2>4. disk[list[k]][0] = Label(v, m) /\ list[k] \in Device /\ k \in DOMAIN list
    BY <2>1, <1>1 DEF WithUuid
  <2>5. IsLabel(list[k])
    BY <2>4 DEF IsLabel, Label
  <2>6. MembersOf[v][m] = list[k]
    <3>1. PICK u, j : LabelOf(list[k], u, j)
      BY <2>4, <2>5 DEF LabelsOK
    <3>2. Label(u, j) = Label(v, m)
      BY <2>4, <3>1 DEF LabelOf
    <3>3. u = v /\ j = m
      BY <3>2 DEF Label
    <3>4. QED
      BY <3>1, <3>3 DEF LabelOf
  <2>7. FoundMembers(list)[m] = list[k]
    BY <2>3 DEF FoundMembers
  <2>8. QED
    BY <2>4, <2>6, <2>7 DEF On
<1>6. FoundMembers(list) = [m \in DOMAIN MembersOf[v] |-> FoundMembers(list)[m]]
  BY DEF FoundMembers
<1>7. FoundMembers(list) = MembersOf[v]
  <2>1. MembersOf[v] = [m \in DOMAIN MembersOf[v] |-> MembersOf[v][m]]
    BY <1>4
  <2>2. QED
    BY <1>5, <1>6, <2>1
<1>8. QED
  BY <1>3, <1>4, <1>5, <1>7 DEF Formatted, On

-----------------------------------------------------------------------------
(* The first element of a sequence of devices and the rest.                *)
LEMMA HeadTail ==
  ASSUME NEW ds \in Seq(Device), ds # << >>
  PROVE  /\ Head(ds) \in Device /\ Head(ds) = ds[1] /\ 1 \in DOMAIN ds /\ Tail(ds) \in Seq(Device)
         /\ \A j \in DOMAIN Tail(ds) : j + 1 \in DOMAIN ds /\ j + 1 # 1 /\ Tail(ds)[j] = ds[j + 1]
         /\ \A j \in DOMAIN ds : j = 1 \/ (j - 1 \in DOMAIN Tail(ds) /\ Tail(ds)[j - 1] = ds[j])
  OBVIOUS

LEMMA DistinctTail ==
  ASSUME NEW ds \in Seq(Device), ds # << >>, Distinct(ds)
  PROVE  /\ Distinct(Tail(ds)) /\ ~On(Tail(ds), Head(ds))
         /\ \A d \in Device : On(ds, d) <=> (d = Head(ds) \/ On(Tail(ds), d))
<1>1. Distinct(Tail(ds))
  <2>1. SUFFICES ASSUME NEW i \in DOMAIN Tail(ds), NEW j \in DOMAIN Tail(ds), Tail(ds)[i] = Tail(ds)[j]
                 PROVE  i = j
    BY DEF Distinct
  <2>2. i + 1 = j + 1
    BY <2>1, HeadTail DEF Distinct
  <2>3. QED
    BY <2>2, HeadTail
<1>2. ~On(Tail(ds), Head(ds))
  BY HeadTail DEF Distinct, On
<1>3. ASSUME NEW d \in Device
      PROVE  On(ds, d) <=> (d = Head(ds) \/ On(Tail(ds), d))
  <2>1. ASSUME On(ds, d) PROVE d = Head(ds) \/ On(Tail(ds), d)
    <3>1. PICK i \in DOMAIN ds : ds[i] = d
      BY <2>1 DEF On
    <3>2. i = 1 \/ (i - 1 \in DOMAIN Tail(ds) /\ Tail(ds)[i - 1] = d)
      BY <3>1, HeadTail
    <3>3. QED
      BY <3>1, <3>2, HeadTail DEF On
  <2>2. ASSUME d = Head(ds) \/ On(Tail(ds), d) PROVE On(ds, d)
    BY <2>2, HeadTail DEF On
  <2>3. QED
    BY <2>1, <2>2
<1>4. QED
  BY <1>1, <1>2, <1>3

LEMMA AppendIs ==
  ASSUME NEW ds \in Seq(Device), NEW x \in Device
  PROVE  /\ Append(ds, x) \in Seq(Device)
         /\ DOMAIN Append(ds, x) = DOMAIN ds \cup {Len(ds) + 1} /\ Len(ds) + 1 \notin DOMAIN ds
         /\ \A i \in DOMAIN ds : Append(ds, x)[i] = ds[i]
         /\ Append(ds, x)[Len(ds) + 1] = x
  OBVIOUS

-----------------------------------------------------------------------------
(* Each step of a mount.                                                   *)
LEMMA BeginStep ==
  ASSUME VolumeAssumption, KmInv, NEW list \in DeviceList, MountBegin(list)
  PROVE  KmInv'
<1>1. /\ km.pc = "idle" /\ ~mounted /\ list # << >> /\ list \in Seq(Device) /\ Distinct(list)
      /\ km' = [KmIdle EXCEPT !.pc = "probe", !.probe = list]
      /\ mounted' = mounted /\ refs' = refs /\ heap' = heap
  BY DEF MountBegin, VolumeAssumption, IsInjective, Distinct
<1>2. /\ km'.pc = "probe" /\ km'.probe = list /\ km'.det = << >> /\ km'.members = << >>
      /\ km'.close = << >> /\ km'.then = "idle"
  BY <1>1 DEF KmIdle
<1>3. KmType'
  <2>1. KmIdle \in Mounts
    BY DEF KmIdle, Mounts
  <2>2. km' \in Mounts
    BY <1>1, <2>1 DEF Mounts
  <2>3. QED
    BY <1>1, <2>2 DEF KmInv, KmType
<1>4. \A d \in Device : ~InUse(d) /\ ~InUse(d)'
  BY <1>1, <1>2 DEF InUse, HasMembers, On
<1>5. RefsExact'
  BY <1>1, <1>4 DEF KmInv, RefsExact
<1>6. Probing' /\ ClosingOK' /\ MembersOK'
  BY <1>1, <1>2 DEF Probing, ClosingOK, MembersOK, HasMembers, Distinct
<1>7. HeapExact' /\ MountedLate'
  BY <1>1, <1>2 DEF KmInv, HeapExact, MountedLate
<1>8. QED
  BY <1>3, <1>5, <1>6, <1>7 DEF KmInv

LEMMA ProbeStep ==
  ASSUME VolumeAssumption, KmInv, Probe
  PROVE  KmInv'
<1> DEFINE dev == Head(km.probe)
<1>1. /\ km.pc = "probe" /\ km.probe # << >> /\ disk' = disk /\ mounted' = mounted /\ heap' = heap
      /\ dev \in Device /\ km.probe \in Seq(Device) /\ km.det \in Seq(Device)
      /\ refs \in [Device -> Nat] /\ ~mounted /\ km \in Mounts
  BY HeadTail DEF Probe, KmInv, KmType, Probing, Mounts
<1>2. /\ Tail(km.probe) \in Seq(Device) /\ Distinct(Tail(km.probe)) /\ ~On(Tail(km.probe), dev)
      /\ \A j \in DOMAIN Tail(km.probe) : On(km.probe, Tail(km.probe)[j])
      /\ On(km.probe, dev)
  BY <1>1, HeadTail, DistinctTail DEF KmInv, Probing, On
<1>3. CASE km' = [km EXCEPT !.probe = Tail(@)] /\ UNCHANGED refs
  <2>1. KmType'
    BY <1>1, <1>2, <1>3 DEF KmInv, KmType, Mounts
  <2>2. /\ km'.pc = "probe" /\ km'.probe = Tail(km.probe) /\ km'.det = km.det
    BY <1>1, <1>3 DEF KmInv, KmType, Mounts
  <2>3. RefsExact'
    <3>1. ~HasMembers /\ ~HasMembers'
      BY <1>1, <2>2 DEF HasMembers
    <3>2. \A d \in Device : InUse(d)' <=> InUse(d)
      BY <1>1, <2>2, <3>1 DEF InUse
    <3>3. RefsExact /\ refs' = refs
      BY <1>3 DEF KmInv
    <3>4. QED
      BY <3>2, <3>3 DEF RefsExact
  <2>4. Probing'
    BY <1>1, <1>2, <2>2, SMTT(30) DEF KmInv, Probing, IsLabel, On
  <2>5. QED
    BY <1>1, <2>1, <2>2, <2>3, <2>4 DEF KmInv, ClosingOK, MembersOK, HasMembers, HeapExact, MountedLate
<1>4. CASE /\ IsLabel(dev) /\ km' = [km EXCEPT !.probe = Tail(@), !.det = Append(@, dev)]
           /\ refs' = [refs EXCEPT ![dev] = @ + 1]
  <2>1. Append(km.det, dev) \in Seq(Device)
    BY <1>1, AppendIs
  <2>2. KmType' /\ km'.pc = "probe" /\ km'.probe = Tail(km.probe) /\ km'.det = Append(km.det, dev)
    <3>1. km' = [km EXCEPT !.probe = Tail(km.probe), !.det = Append(km.det, dev)]
      BY <1>4
    <3>2. km' \in Mounts /\ km'.pc = "probe" /\ km'.probe = Tail(km.probe) /\ km'.det = Append(km.det, dev)
      BY <1>1, <1>2, <2>1, <3>1 DEF Mounts
    <3>3. refs' \in [Device -> Nat]
      BY <1>1, <1>4, SMTT(30)
    <3>4. QED
      BY <1>1, <3>2, <3>3 DEF KmInv, KmType
  <2>3. /\ ~On(km.det, dev) /\ On(km'.det, dev)
        /\ \A d \in Device : d # dev => (On(km'.det, d) <=> On(km.det, d))
    <3>1. ~On(km.det, dev)
      BY <1>1, <1>2 DEF KmInv, Probing, On
    <3>2. On(km'.det, dev)
      BY <1>1, <2>2, AppendIs, SMTT(30) DEF On
    <3>3. ASSUME NEW d \in Device, d # dev PROVE On(km'.det, d) <=> On(km.det, d)
      BY <1>1, <2>2, <3>3, AppendIs, SMTT(30) DEF On
    <3>4. QED
      BY <3>1, <3>2, <3>3
  <2>4. \A d \in Device : (InUse(d) <=> On(km.det, d)) /\ (InUse(d)' <=> On(km'.det, d))
    BY <1>1, <2>2 DEF InUse, HasMembers
  <2>5. RefsExact'
    BY <1>1, <1>4, <2>3, <2>4 DEF KmInv, RefsExact
  <2>6. Probing'
    <3>1. Distinct(km'.det)
      BY <1>1, <2>2, <2>3, AppendIs, SMTT(30) DEF KmInv, Probing, Distinct, On
    <3>2. \A i \in DOMAIN km'.det : km'.det[i] = dev \/ (i \in DOMAIN km.det /\ km'.det[i] = km.det[i])
      BY <1>1, <2>2, AppendIs, SMTT(30)
    <3>3. ASSUME NEW i \in DOMAIN km'.det, NEW j \in DOMAIN km'.probe PROVE km'.det[i] # km'.probe[j]
      <4>1. PICK k \in DOMAIN km.probe : km'.probe[j] = km.probe[k]
        BY <1>2, <2>2 DEF On
      <4>2. km'.probe[j] # dev
        BY <1>2, <2>2 DEF On
      <4>3. \A l \in DOMAIN km.det : km.det[l] # km.probe[k]
        BY <1>1 DEF KmInv, Probing
      <4>4. QED
        BY <3>2, <4>1, <4>2, <4>3
    <3>4. \A i \in DOMAIN km'.det : disk'[km'.det[i]][0].type = "label"
      BY <1>1, <1>4, <3>2, SMTT(60) DEF KmInv, Probing, IsLabel
    <3>5. QED
      BY <1>1, <1>2, <2>2, <3>1, <3>3, <3>4 DEF Probing, IsLabel
  <2>7. QED
    BY <1>1, <2>2, <2>5, <2>6 DEF KmInv, ClosingOK, MembersOK, HasMembers, HeapExact, MountedLate
<1>5. QED
  BY <1>3, <1>4 DEF Probe

(* What Closing makes of the state, when there is something to close.      *)
LEMMA ClosingIs ==
  ASSUME NEW k, NEW ds \in Seq(Device), NEW pc \in {"idle", "pool"},
         k \in Mounts
  PROVE  /\ Closing(k, ds, pc) \in Mounts
         /\ Closing(k, ds, pc).members = k.members
         /\ ds # << >> => /\ Closing(k, ds, pc).pc = "close" /\ Closing(k, ds, pc).close = ds
                          /\ Closing(k, ds, pc).then = pc
         /\ ds = << >> => /\ Closing(k, ds, pc).pc = pc
  BY DEF Closing, Mounts

LEMMA DetectStep ==
  ASSUME VolumeAssumption, LabelsOK, KmInv, Detect
  PROVE  KmInv'
<1> DEFINE ms == FoundMembers(km.det)
<1>1. /\ km.pc = "probe" /\ km.probe = << >> /\ disk' = disk /\ mounted' = mounted /\ refs' = refs /\ heap' = heap
      /\ km.det \in Seq(Device) /\ ~mounted /\ Distinct(km.det) /\ km \in Mounts
  BY DEF Detect, KmInv, KmType, Probing, Mounts
<1>2. \A d \in Device : InUse(d) <=> On(km.det, d)
  BY <1>1 DEF InUse, HasMembers
<1>3. CASE km' = Closing(km, km.det, "idle")
  <2>0. /\ km' \in Mounts
        /\ km.det # << >> => km'.pc = "close" /\ km'.then = "idle" /\ km'.close = km.det
        /\ km.det = << >> => km'.pc = "idle"
    BY <1>1, <1>3, ClosingIs
  <2>1. CASE km.det = << >>
    <3>1. km'.pc = "idle" /\ km' \in Mounts
      BY <2>0, <2>1
    <3>2. \A d \in Device : ~InUse(d) /\ ~InUse(d)'
      BY <1>1, <1>2, <2>1, <3>1 DEF InUse, HasMembers, On
    <3>3. RefsExact'
      BY <1>1, <3>2 DEF KmInv, RefsExact
    <3>4. QED
      BY <1>1, <3>1, <3>3 DEF KmInv, KmType, Probing, ClosingOK, MembersOK, HasMembers, HeapExact, MountedLate
  <2>2. CASE km.det # << >>
    <3>1. km'.pc = "close" /\ km'.then = "idle" /\ km'.close = km.det /\ KmType'
      BY <1>1, <1>3, <2>2, ClosingIs DEF KmInv, KmType
    <3>2. \A d \in Device : InUse(d)' <=> On(km.det, d)
      BY <3>1 DEF InUse, HasMembers
    <3>3. RefsExact'
      BY <1>1, <1>2, <3>2 DEF KmInv, RefsExact
    <3>4. QED
      BY <1>1, <2>2, <3>1, <3>3 DEF KmInv, Probing, ClosingOK, MembersOK, HasMembers, HeapExact, MountedLate
  <2>3. QED
    BY <2>1, <2>2
<1>4. CASE /\ km.det # << >> /\ AllFound(km.det) /\ MinMemberSize(Lay(ms), VolChunks(ms)) <= NbStripe
           /\ km' = Closing([km EXCEPT !.members = ms], km.det, "pool")
  <2>1. PICK v \in Volume : /\ ms = MembersOf[v] /\ Formatted(v) /\ ms \in Seq(Device)
                            /\ \A d \in Device : On(ms, d) => On(km.det, d)
    <3>1. \A i \in DOMAIN km.det : IsLabel(km.det[i])
      BY <1>1 DEF KmInv, Probing
    <3>2. QED
      BY <1>1, <1>4, <3>1, FoundAreMembers, SMTT(60) DEF KmInv
  <2>2. [km EXCEPT !.members = ms]
          \in Mounts /\ [km EXCEPT !.members = ms].members = ms
    BY <2>1 DEF KmInv, KmType, Mounts
  <2>3. /\ km'.pc = "close" /\ km'.then = "pool" /\ km'.close = km.det /\ km'.members = ms /\ km' \in Mounts
    <3> DEFINE k == [km EXCEPT !.members = ms]
    <3>1. k \in Mounts /\ k.members = ms /\ km' = Closing(k, km.det, "pool")
      BY <1>4, <2>2
    <3> HIDE DEF k, ms
    <3>2. QED
      BY <1>1, <1>4, <3>1, ClosingIs
  <2>4. \A d \in Device : InUse(d)' <=> On(km.det, d)
    BY <2>1, <2>3 DEF InUse, HasMembers
  <2>5. RefsExact'
    BY <1>1, <1>2, <2>4 DEF KmInv, RefsExact
  <2>6. MembersOK'
    BY <1>1, <1>4, <2>1, <2>3 DEF MembersOK, Formatted, Fitting
  <2>7. QED
    BY <1>1, <1>4, <2>3, <2>5, <2>6 DEF KmInv, KmType, Probing, ClosingOK, HeapExact, MountedLate
<1>5. QED
  BY <1>3, <1>4 DEF Detect

LEMMA CloseStep ==
  ASSUME VolumeAssumption, KmInv, CloseOne
  PROVE  KmInv'
<1> DEFINE dev == Head(km.close)
           k == Closing(km, Tail(km.close), km.then)
<1>1. /\ km.pc = "close" /\ km.close # << >> /\ km.close \in Seq(Device) /\ Distinct(km.close)
      /\ km.then \in {"idle", "pool"} /\ (km.then = "pool" => ~mounted)
      /\ disk' = disk /\ heap' = heap /\ km \in Mounts /\ mounted \in BOOLEAN /\ refs \in [Device -> Nat]
      /\ mounted' = (mounted /\ k.pc # "idle")
  BY DEF CloseOne, KmInv, KmType, ClosingOK, Mounts
<1>2. /\ dev \in Device /\ Tail(km.close) \in Seq(Device) /\ Distinct(Tail(km.close))
      /\ ~On(Tail(km.close), dev)
      /\ \A d \in Device : On(km.close, d) <=> (d = dev \/ On(Tail(km.close), d))
  BY <1>1, HeadTail, DistinctTail
<1>3. /\ k \in Mounts /\ k.members = km.members
      /\ Tail(km.close) # << >> => k.pc = "close" /\ k.close = Tail(km.close) /\ k.then = km.then
      /\ Tail(km.close) = << >> => k.pc = km.then
  <2>1. ASSUME NEW ds \in Seq(Device), NEW pc \in {"idle", "pool"}
        PROVE  /\ Closing(km, ds, pc) \in Mounts /\ Closing(km, ds, pc).members = km.members
               /\ ds # << >> => /\ Closing(km, ds, pc).pc = "close" /\ Closing(km, ds, pc).close = ds
                                /\ Closing(km, ds, pc).then = pc
               /\ ds = << >> => Closing(km, ds, pc).pc = pc
    BY <1>1, ClosingIs, SMTT(30)
  <2>2. QED
    BY <1>1, <1>2, <2>1, ZenonT(40)
<1>4. refs' = IF Stays(dev) THEN refs ELSE [refs EXCEPT ![dev] = @ - 1]
  BY DEF CloseOne
<1>5. Stays(dev) <=> km.then = "pool" /\ On(km.members, dev)
  BY DEF Stays, On
<1>6. km' = IF k.pc = "idle" THEN KmIdle ELSE k
  BY DEF CloseOne
<1> HIDE DEF k, dev
<1>7. refs[dev] = 1 /\ refs' \in [Device -> Nat]
  <2>1. InUse(dev)
    BY <1>1, <1>2 DEF InUse
  <2>2. QED
    BY <1>1, <1>2, <1>4, <2>1 DEF KmInv, RefsExact
<1>8. ASSUME NEW d \in Device, NEW inUse \in BOOLEAN,
             inUse <=> On(Tail(km.close), d) \/ (km.then = "pool" /\ On(km.members, d))
      PROVE  refs'[d] = IF inUse THEN 1 ELSE 0
  <2>1. refs[d] = IF On(km.close, d) \/ (km.then = "pool" /\ On(km.members, d)) THEN 1 ELSE 0
    BY <1>1 DEF KmInv, RefsExact, InUse, HasMembers
  <2>2. CASE d = dev
    BY <1>1, <1>2, <1>4, <1>5, <1>7, <1>8, <2>1, <2>2
  <2>3. CASE d # dev
    BY <1>1, <1>2, <1>4, <1>8, <2>1, <2>3
  <2>4. QED
    BY <2>2, <2>3
<1>9. CASE Tail(km.close) # << >>
  <2>1. km' = k /\ km'.pc = "close" /\ km'.close = Tail(km.close) /\ km'.then = km.then
    BY <1>3, <1>6, <1>9
  <2>2. \A d \in Device : InUse(d)' <=> On(Tail(km.close), d) \/ (km.then = "pool" /\ On(km.members, d))
    BY <1>3, <2>1 DEF InUse, HasMembers
  <2>3. RefsExact'
    BY <1>8, <2>2 DEF RefsExact
  <2>4. MembersOK'
    BY <1>1, <1>3, <2>1 DEF KmInv, MembersOK, HasMembers, Formatted
  <2>5. mounted' = mounted
    BY <1>1, <1>3, <1>9
  <2>6. QED
    BY <1>1, <1>2, <1>3, <1>7, <1>9, <2>1, <2>3, <2>4, <2>5
    DEF KmInv, KmType, Probing, ClosingOK, HeapExact, MountedLate
<1>10. CASE Tail(km.close) = << >> /\ km.then = "pool"
  <2>1. km' = k /\ km'.pc = "pool"
    BY <1>3, <1>6, <1>10
  <2>2. \A d \in Device : InUse(d)' <=> On(Tail(km.close), d) \/ (km.then = "pool" /\ On(km.members, d))
    BY <1>3, <1>10, <2>1 DEF InUse, HasMembers, On
  <2>3. RefsExact'
    BY <1>8, <2>2 DEF RefsExact
  <2>4. MembersOK'
    BY <1>1, <1>3, <1>10, <2>1 DEF KmInv, MembersOK, HasMembers, Formatted
  <2>5. QED
    BY <1>1, <1>3, <1>7, <1>10, <2>1, <2>3, <2>4
    DEF KmInv, KmType, Probing, ClosingOK, HeapExact, MountedLate
<1>11. CASE Tail(km.close) = << >> /\ km.then = "idle"
  <2>1. km' = KmIdle /\ km'.pc = "idle" /\ ~mounted' /\ mounted' \in BOOLEAN /\ km' \in Mounts
    <3>1. KmIdle \in Mounts
      BY DEF KmIdle, Mounts
    <3>2. QED
      BY <1>1, <1>3, <1>6, <1>11, <3>1 DEF KmIdle
  <2>2. \A d \in Device : ~InUse(d)' /\ ~On(Tail(km.close), d)
    BY <1>11, <2>1 DEF InUse, HasMembers, On
  <2>3. RefsExact'
    BY <1>8, <1>11, <2>2 DEF RefsExact
  <2>4. QED
    BY <1>1, <1>7, <2>1, <2>3
    DEF KmInv, KmType, Probing, ClosingOK, MembersOK, HasMembers, HeapExact, MountedLate
<1>12. QED
  BY <1>1, <1>9, <1>10, <1>11

(* A mount that fails and an umount begin to close the members.            *)
LEMMA CloseMembers ==
  ASSUME VolumeAssumption, KmInv, HasMembers, km.pc # "close",
         km' = Closing(km, km.members, "idle"), disk' = disk, refs' = refs,
         mounted' \in BOOLEAN, heap' \in [Things -> Nat],
         heap'["table"] = 0, heap'["buffer"] = 0, heap'["cache"] = 0
  PROVE  KmInv'
<1>1. PICK v \in Volume : km.members = MembersOf[v]
  BY DEF KmInv, MembersOK
<1>2. km.members \in Seq(Device) /\ km.members # << >> /\ Distinct(km.members) /\ km \in Mounts
  BY <1>1 DEF VolumeAssumption, IsInjective, Distinct, KmInv, KmType
<1>3. km' \in Mounts /\ km'.pc = "close" /\ km'.close = km.members /\ km'.then = "idle"
  BY <1>2, ClosingIs
<1>4. \A d \in Device : (InUse(d) <=> On(km.members, d)) /\ (InUse(d)' <=> On(km.members, d))
  BY <1>3 DEF InUse, HasMembers
<1>5. RefsExact'
  BY <1>4 DEF KmInv, RefsExact
<1>6. QED
  BY <1>2, <1>3, <1>5
  DEF KmInv, KmType, Probing, ClosingOK, MembersOK, HasMembers, HeapExact, MountedLate

(* A step of a mount that succeeds.                                        *)
LEMMA StepOn ==
  ASSUME VolumeAssumption, KmInv, HasMembers, km.pc # "close", NEW pc,
         pc \in {"hconf", "htable", "buffer", "cache", "idle"},
         km' = [km EXCEPT !.pc = pc], disk' = disk, refs' = refs, mounted' = TRUE,
         heap' \in [Things -> Nat], HeapExact'
  PROVE  KmInv'
<1>1. km \in Mounts
  BY DEF KmInv, KmType
<1>2. km' \in Mounts /\ km'.pc = pc /\ km'.members = km.members
  BY <1>1 DEF Mounts
<1>3. HasMembers'
  BY <1>2 DEF HasMembers
<1>4. \A d \in Device : (InUse(d) <=> On(km.members, d)) /\ (InUse(d)' <=> On(km.members, d))
  BY <1>2, <1>3 DEF InUse, HasMembers
<1>5. RefsExact'
  BY <1>4 DEF KmInv, RefsExact
<1>6. MembersOK'
  BY <1>2, <1>3 DEF KmInv, MembersOK, Formatted
<1>7. QED
  BY <1>2, <1>5, <1>6 DEF KmInv, KmType, Probing, ClosingOK, MountedLate

LEMMA AllocSteps ==
  ASSUME VolumeAssumption, KmInv, AllocPool \/ LoadHconf \/ LoadHtable \/ AllocBuffer \/ AllocCache
  PROVE  KmInv'
<1>1. /\ km.pc \in {"pool", "hconf", "htable", "buffer", "cache"} /\ HasMembers /\ km.pc # "close"
      /\ mounted \in BOOLEAN /\ heap \in [Things -> Nat]
      /\ km.pc # "pool" => mounted /\ mounted = TRUE
  BY DEF AllocPool, LoadHconf, LoadHtable, AllocBuffer, AllocCache, HasMembers, KmInv, KmType, MountedLate
<1>2. ASSUME NEW things \in SUBSET Things, Fails(things), \A t \in things : heap[t] >= 1,
             \A t \in {"table", "buffer", "cache"} \ things : heap[t] = 0,
             \A t \in things \ {"pool"} : heap[t] = 1
      PROVE  KmInv'
  <2>1. heap' = [t \in Things |-> IF t \in things THEN heap[t] - 1 ELSE heap[t]]
    BY <1>2 DEF Fails, Freed
  <2>2. heap' \in [Things -> Nat]
    BY <1>1, <1>2, <2>1
  <2>3. heap'["table"] = 0 /\ heap'["buffer"] = 0 /\ heap'["cache"] = 0
    BY <1>1, <1>2, <2>1 DEF Things
  <2>4. QED
    BY <1>1, <1>2, <2>2, <2>3, CloseMembers DEF Fails
<1>3. CASE AllocPool
  <2>1. CASE Fails({})
    BY <1>2, <1>3, <2>1 DEF AllocPool, KmInv, HeapExact
  <2>2. CASE km' = [km EXCEPT !.pc = "hconf"] /\ mounted' = TRUE /\ heap' = Made("pool") /\ UNCHANGED <<disk, refs>>
    <3>1. km'.pc = "hconf" /\ heap' \in [Things -> Nat] /\ heap'["pool"] >= 1
          /\ \A t \in Things \ {"pool"} : heap'[t] = heap[t]
      BY <1>1, <2>2, SMTT(30) DEF Made, Things, KmInv, KmType, Mounts
    <3>2. HeapExact'
      BY <1>3, <3>1 DEF AllocPool, KmInv, HeapExact, Things
    <3>3. QED
      BY <1>1, <2>2, <3>1, <3>2, StepOn
  <2>3. QED
    BY <1>3, <2>1, <2>2 DEF AllocPool
<1>4. CASE LoadHconf
  <2>1. CASE Fails({"pool"})
    BY <1>2, <1>4, <2>1 DEF LoadHconf, KmInv, HeapExact, Things
  <2>2. CASE km' = [km EXCEPT !.pc = "htable"] /\ UNCHANGED <<disk, mounted, refs, heap>>
    <3>1. km'.pc = "htable"
      BY <2>2 DEF KmInv, KmType, Mounts
    <3>2. HeapExact'
      BY <1>4, <2>2, <3>1 DEF LoadHconf, KmInv, HeapExact
    <3>3. QED
      BY <1>1, <1>4, <2>2, <3>2, StepOn DEF LoadHconf
  <2>3. QED
    BY <1>4, <2>1, <2>2 DEF LoadHconf
<1>5. CASE LoadHtable
  <2>1. CASE Fails({})
    BY <1>2, <1>5, <2>1 DEF LoadHtable, KmInv, HeapExact
  <2>2. CASE km' = [km EXCEPT !.pc = "buffer"] /\ heap' = Made("table") /\ UNCHANGED <<disk, mounted, refs>>
    <3>1. km'.pc = "buffer" /\ heap' \in [Things -> Nat] /\ heap'["table"] = heap["table"] + 1
          /\ \A t \in Things \ {"table"} : heap'[t] = heap[t]
      BY <1>1, <2>2, SMTT(30) DEF Made, Things, KmInv, KmType, Mounts
    <3>2. HeapExact'
      BY <1>1, <1>5, <3>1 DEF LoadHtable, KmInv, HeapExact, Things
    <3>3. QED
      BY <1>1, <1>5, <2>2, <3>1, <3>2, StepOn DEF LoadHtable
  <2>3. QED
    BY <1>5, <2>1, <2>2 DEF LoadHtable
<1>6. CASE AllocBuffer
  <2>1. CASE Fails({"table", "pool"})
    BY <1>2, <1>6, <2>1 DEF AllocBuffer, KmInv, HeapExact, Things
  <2>2. CASE km' = [km EXCEPT !.pc = "cache"] /\ heap' = Made("buffer") /\ UNCHANGED <<disk, mounted, refs>>
    <3>1. km'.pc = "cache" /\ heap' \in [Things -> Nat] /\ heap'["buffer"] = heap["buffer"] + 1
          /\ \A t \in Things \ {"buffer"} : heap'[t] = heap[t]
      BY <1>1, <2>2, SMTT(30) DEF Made, Things, KmInv, KmType, Mounts
    <3>2. HeapExact'
      BY <1>1, <1>6, <3>1 DEF AllocBuffer, KmInv, HeapExact, Things
    <3>3. QED
      BY <1>1, <1>6, <2>2, <3>1, <3>2, StepOn DEF AllocBuffer
  <2>3. QED
    BY <1>6, <2>1, <2>2 DEF AllocBuffer
<1>7. CASE AllocCache
  <2>1. CASE Fails({"buffer", "table", "pool"})
    BY <1>2, <1>7, <2>1 DEF AllocCache, KmInv, HeapExact, Things
  <2>2. CASE km' = [km EXCEPT !.pc = "idle"] /\ heap' = Made("cache") /\ UNCHANGED <<disk, mounted, refs>>
    <3>1. km'.pc = "idle" /\ heap' \in [Things -> Nat] /\ heap'["cache"] = heap["cache"] + 1
          /\ \A t \in Things \ {"cache"} : heap'[t] = heap[t]
      BY <1>1, <2>2, SMTT(30) DEF Made, Things, KmInv, KmType, Mounts
    <3>2. HeapExact'
      BY <1>1, <1>7, <2>2, <3>1 DEF AllocCache, KmInv, HeapExact, Things
    <3>3. QED
      BY <1>1, <1>7, <2>2, <3>1, <3>2, StepOn DEF AllocCache
  <2>3. QED
    BY <1>7, <2>1, <2>2 DEF AllocCache
<1>8. QED
  BY <1>3, <1>4, <1>5, <1>6, <1>7

LEMMA UmountStep ==
  ASSUME VolumeAssumption, KmInv, Umount
  PROVE  KmInv'
<1>1. /\ km.pc = "idle" /\ mounted /\ HasMembers /\ mounted' = FALSE /\ heap' = Freed(Things)
      /\ km' = Closing(km, km.members, "idle") /\ disk' = disk /\ refs' = refs
      /\ heap \in [Things -> Nat]
  BY DEF Umount, HasMembers, KmInv, KmType
<1>2. \A t \in Things : heap[t] >= 1
  BY <1>1 DEF KmInv, HeapExact, Things
<1>3. heap' = [t \in Things |-> heap[t] - 1]
  BY <1>1 DEF Freed
<1>4. heap' \in [Things -> Nat]
  BY <1>1, <1>2, <1>3
<1>5. heap'["table"] = 0 /\ heap'["buffer"] = 0 /\ heap'["cache"] = 0
  BY <1>1, <1>3 DEF KmInv, HeapExact, Things
<1>6. QED
  BY <1>1, <1>4, <1>5, CloseMembers

LEMMA MountStep ==
  ASSUME VolumeAssumption, LabelsOK, KmInv, KmNext
  PROVE  KmInv'
  BY BeginStep, ProbeStep, DetectStep, CloseStep, AllocSteps, UmountStep DEF KmNext

-----------------------------------------------------------------------------
(* Where the chunks of a volume lie.                                       *)
LEMMA DivMod ==
  ASSUME NEW q \in Nat, NEW n \in Nat \ {0}
  PROVE  q % n \in 0 .. n - 1 /\ q \div n \in Nat /\ q = n * (q \div n) + (q % n)
  OBVIOUS
LEMMA ModSmall ==
  ASSUME NEW n \in Nat, NEW x \in Nat, x < n
  PROVE  x % n = x
  OBVIOUS
LEMMA DivPos ==
  ASSUME NEW q \in Nat, NEW n \in Nat \ {0}, q >= n
  PROVE  q \div n >= 1
  OBVIOUS
LEMMA DivLess ==
  ASSUME NEW q \in Nat, NEW n \in Nat \ {0}, NEW k \in Nat, q < k * n
  PROVE  q \div n < k
  OBVIOUS
LEMMA MulMono ==
  ASSUME NEW n \in Nat, NEW a \in Nat, NEW b \in Nat, a <= b
  PROVE  a * n <= b * n /\ (a + 1) * n = a * n + n
  OBVIOUS

StripsOf(ms, c) == Strips(Lay(ms), c, 1)

(* Stripes c n to c n + n - 1 are row c of n members.                      *)
LEMMA RowOfStripes ==
  ASSUME NEW n \in Nat \ {0}, NEW c \in Nat, NEW q \in c * n .. (c + 1) * n - 1
  PROVE  q \in Nat /\ q % n \in 0 .. n - 1 /\ q \div n = c
<1>1. c * n \in Nat /\ (c + 1) * n = c * n + n
  OBVIOUS
<1>2. q \in Nat /\ q - c * n \in 0 .. n - 1
  BY <1>1
<1>3. PICK i \in 0 .. n - 1 : q = c * n + i
  BY <1>1, <1>2
<1>4. (c * n + i) \div n = c /\ (c * n + i) % n = i
  OBVIOUS
<1>5. QED
  BY <1>2, <1>3, <1>4

LEMMA StripFacts ==
  ASSUME VolumeAssumption, NEW ms \in Seq(Device), ms # << >>, NEW c \in Nat, c >= 1
  PROVE  /\ \E s \in StripsOf(ms, c) : TRUE
         /\ \A s \in StripsOf(ms, c) :
              /\ s[1] + 1 \in DOMAIN ms /\ s[2] \in Nat /\ s[2] >= 1
              /\ Fitting(ms) /\ c < VolChunks(ms) => s[2] < NbStripe
              /\ \A d \in Nat : s \in StripsOf(ms, d) /\ d >= 1 => d = c
<1>1. PICK nb \in Nat \ {0} : nb = Len(ms) /\ DOMAIN ms = 1 .. nb
  OBVIOUS
<1>2. PICK lay : lay = Lay(ms) /\ lay.nb = nb /\ lay.stripe = 1
  <2>1. Lay(ms).nb = nb /\ Lay(ms).stripe = 1
    BY <1>1 DEF Lay
  <2>2. QED
    BY <2>1
<1>3. NbStripe \in Nat \ {0} /\ Word \in Nat /\ NbStripe < Word
  BY DEF VolumeAssumption
<1>4. \A i \in 0 .. nb - 1 : i + 1 \in DOMAIN ms
  BY <1>1
<1>5. CASE Combined(lay)
  <2>1. \A d \in Nat : StripsOf(ms, d) = {<<q % nb, q \div nb>> : q \in d * nb .. (d + 1) * nb - 1}
    BY <1>2, <1>5 DEF StripsOf, Strips, StripNos
  <2>2. \A d \in Nat : \A s \in StripsOf(ms, d) : s[1] + 1 \in DOMAIN ms /\ s[2] = d
    <3>1. SUFFICES ASSUME NEW d \in Nat, NEW s \in StripsOf(ms, d)
                   PROVE  s[1] + 1 \in DOMAIN ms /\ s[2] = d
      OBVIOUS
    <3>2. PICK q \in d * nb .. (d + 1) * nb - 1 : s = <<q % nb, q \div nb>>
      <4>1. s \in {<<q % nb, q \div nb>> : q \in d * nb .. (d + 1) * nb - 1}
        BY <2>1
      <4>2. QED
        BY <4>1
    <3>3. q % nb \in 0 .. nb - 1 /\ q \div nb = d
      BY RowOfStripes
    <3>4. QED
      BY <1>4, <3>2, <3>3
  <2>3. \E s \in StripsOf(ms, c) : TRUE
    <3>1. c * nb \in c * nb .. (c + 1) * nb - 1
      <4>1. c * nb \in Nat /\ (c + 1) * nb = c * nb + nb
        OBVIOUS
      <4>2. QED
        BY <4>1
    <3>2. <<(c * nb) % nb, (c * nb) \div nb>> \in StripsOf(ms, c)
      BY <2>1, <3>1
    <3>3. QED
      BY <3>2
  <2>4. ASSUME Fitting(ms), c < VolChunks(ms) PROVE c < NbStripe
    <3>1. VolChunks(ms) = Wrap(NbStripe - nb + 1) \div 1
      BY <1>2, <1>5 DEF ChunkSize, VolChunks, VolSize
    <3>2. Wrap(NbStripe - nb + 1) \in Nat
      BY <1>3 DEF Wrap
    <3>3. VolChunks(ms) \in Nat
      BY <3>1, <3>2
    <3>4. (VolChunks(ms) + 1) * 1 <= NbStripe
      BY <1>2, <1>5, <2>4 DEF Fitting, MinMemberSize
    <3>5. QED
      BY <1>3, <2>4, <3>3, <3>4
  <2>5. QED
    BY <2>2, <2>3, <2>4
<1>6. CASE ~Combined(lay)
  <2>1. \A d \in Nat : StripsOf(ms, d) = {<<q % nb, q \div nb>> : q \in d + nb - 1 .. d + nb - 1 + 1 - 1}
    BY <1>2, <1>6 DEF StripsOf, Strips, StripNos
  <2>2. ASSUME NEW d \in Nat, d >= 1
        PROVE  StripsOf(ms, d) = {<<(d + nb - 1) % nb, (d + nb - 1) \div nb>>}
    <3>1. d + nb - 1 .. d + nb - 1 + 1 - 1 = {d + nb - 1}
      OBVIOUS
    <3>2. StripsOf(ms, d) = {<<q % nb, q \div nb>> : q \in {d + nb - 1}}
      BY <2>1, <3>1
    <3>3. QED
      BY <3>2
  <2>3. ASSUME NEW d \in Nat, d >= 1
        PROVE  /\ d + nb - 1 \in Nat /\ d + nb - 1 >= nb
               /\ (d + nb - 1) % nb \in 0 .. nb - 1
               /\ (d + nb - 1) \div nb \in Nat /\ (d + nb - 1) \div nb >= 1
               /\ d + nb - 1 = nb * ((d + nb - 1) \div nb) + ((d + nb - 1) % nb)
    <3>1. d + nb - 1 \in Nat /\ d + nb - 1 >= nb
      BY <2>3
    <3>2. QED
      BY <3>1, DivMod, DivPos
  <2>4. ASSUME NEW s \in StripsOf(ms, c)
        PROVE  s[1] + 1 \in DOMAIN ms /\ s[2] \in Nat /\ s[2] >= 1
    <3>1. s = <<(c + nb - 1) % nb, (c + nb - 1) \div nb>>
      BY <2>2, <2>4
    <3>2. QED
      BY <1>4, <2>3, <3>1
  <2>5. ASSUME NEW s \in StripsOf(ms, c), NEW d \in Nat, s \in StripsOf(ms, d), d >= 1 PROVE d = c
    <3>1. /\ (d + nb - 1) % nb = (c + nb - 1) % nb
          /\ (d + nb - 1) \div nb = (c + nb - 1) \div nb
      BY <2>2, <2>5
    <3>2. d + nb - 1 = c + nb - 1
      <4>1. d + nb - 1 = nb * ((d + nb - 1) \div nb) + ((d + nb - 1) % nb)
        BY <2>3, <2>5
      <4>2. c + nb - 1 = nb * ((c + nb - 1) \div nb) + ((c + nb - 1) % nb)
        BY <2>3
      <4>3. QED
        BY <3>1, <4>1, <4>2
    <3>3. QED
      BY <3>2
  <2>6. ASSUME NEW s \in StripsOf(ms, c), c < VolChunks(ms) PROVE s[2] < NbStripe
    <3>1. VolChunks(ms) = (Wrap(NbStripe - 1) \div 1) * nb
      BY <1>2, <1>6 DEF ChunkSize, VolChunks, VolSize
    <3>2. Wrap(NbStripe - 1) = NbStripe - 1
      <4>1. NbStripe - 1 \in 0 .. Word - 1
        BY <1>3
      <4>2. PICK x \in Nat : x = NbStripe - 1 /\ x < Word
        BY <1>3, <4>1
      <4>3. x % Word = x
        BY <1>3, <4>2, ModSmall
      <4>4. QED
        BY <4>2, <4>3 DEF Wrap
    <3>3. VolChunks(ms) = (NbStripe - 1) * nb
      BY <1>3, <3>1, <3>2
    <3>4. (NbStripe - 1) * nb + nb = NbStripe * nb /\ (NbStripe - 1) * nb \in Nat
      BY <1>3
    <3>5. c + nb - 1 < NbStripe * nb
      BY <2>6, <3>3, <3>4
    <3>6. (c + nb - 1) \div nb < NbStripe
      BY <1>3, <2>3, <3>5, DivLess
    <3>7. QED
      BY <2>2, <2>6, <3>6
  <2>7. QED
    BY <2>2, <2>4, <2>5, <2>6
<1>7. QED
  BY <1>5, <1>6

LEMMA StripAt ==
  ASSUME VolumeAssumption, NEW ms \in Seq(Device), ms # << >>, NEW c \in Nat, c >= 1,
         NEW s \in StripsOf(ms, c)
  PROVE  /\ s[1] + 1 \in DOMAIN ms /\ ms[s[1] + 1] \in Device /\ s = <<s[1], s[2]>>
         /\ s[2] # 0 /\ (Fitting(ms) /\ c < VolChunks(ms) => s[2] \in 0 .. NbStripe - 1)
         /\ s[1] \in Int /\ \A d \in Nat : s \in StripsOf(ms, d) /\ d >= 1 => d = c
<1>1. /\ s[1] + 1 \in DOMAIN ms /\ s[2] \in Nat /\ s[2] >= 1
      /\ Fitting(ms) /\ c < VolChunks(ms) => s[2] < NbStripe
      /\ \A d \in Nat : s \in StripsOf(ms, d) /\ d >= 1 => d = c
  BY StripFacts
<1>2. NbStripe \in Nat
  BY DEF VolumeAssumption
<1>3. PICK q \in StripNos(Lay(ms), c, 1) : s = <<q % Lay(ms).nb, q \div Lay(ms).nb>>
  BY DEF StripsOf, Strips
<1>4. Lay(ms).nb = Len(ms) /\ Len(ms) \in Nat \ {0}
  BY DEF Lay
<1>5. q \in Int
  BY <1>4 DEF StripNos
<1>6. s = <<s[1], s[2]>> /\ s[1] \in Int
  BY <1>3, <1>4, <1>5
<1>7. QED
  BY <1>1, <1>2, <1>6

-----------------------------------------------------------------------------
(* What a write to the devices does to what can be read.                   *)
LEMMA LabelWritten ==
  ASSUME VolumeAssumption, DiskShape, NEW dev \in Device, NEW x, WriteLabel0(dev, x)
  PROVE  /\ DiskShape'
         /\ \A d \in Device : disk'[d][0] = IF d = dev THEN x ELSE disk[d][0]
         /\ \A d \in Device, i \in 0 .. NbStripe - 1 : i # 0 => disk'[d][i] = disk[d][i]
<1>1. disk' = [disk EXCEPT ![dev][0] = x] /\ 0 \in 0 .. NbStripe - 1
  BY DEF WriteLabel0, VolumeAssumption
<1>2. disk = [d \in Device |-> [i \in 0 .. NbStripe - 1 |-> disk[d][i]]]
  BY DEF DiskShape
<1>3. DOMAIN disk = Device /\ \A d \in Device : disk[d] = [i \in 0 .. NbStripe - 1 |-> disk[d][i]]
  BY <1>2
<1>4. disk' = [d \in Device |-> IF d = dev THEN [disk[dev] EXCEPT ![0] = x] ELSE disk[d]]
  BY <1>1, <1>3
<1>5. disk' = [d \in Device |-> [i \in 0 .. NbStripe - 1 |-> IF d = dev /\ i = 0 THEN x ELSE disk[d][i]]]
  BY <1>1, <1>3, <1>4, ZenonT(40)
<1>6. \A d \in Device, i \in 0 .. NbStripe - 1 : disk'[d][i] = IF d = dev /\ i = 0 THEN x ELSE disk[d][i]
  BY <1>5
<1>7. DiskShape'
  BY <1>5 DEF DiskShape
<1>8. QED
  BY <1>1, <1>6, <1>7

LEMMA ChunkWritten ==
  ASSUME VolumeAssumption, NEW ms \in Seq(Device), ms # << >>, NEW c \in Nat, c >= 1, NEW x,
         WriteChunk(ms, c, x)
  PROVE  /\ DiskShape'
         /\ \A d \in Device : disk'[d][0] = disk[d][0]
<1>1. disk' = [d \in Device |-> [i \in 0 .. NbStripe - 1 |->
                 IF \E s \in StripsOf(ms, c) : ms[s[1] + 1] = d /\ s[2] = i THEN x ELSE disk[d][i]]]
  BY DEF WriteChunk, WithChunk, StripsOf
<1>2. 0 \in 0 .. NbStripe - 1 /\ \A s \in StripsOf(ms, c) : s[2] # 0
  BY StripAt, SMTT(30) DEF VolumeAssumption
<1>3. DiskShape'
  BY <1>1 DEF DiskShape
<1>4. QED
  BY <1>1, <1>2, <1>3

LEMMA ChunkHit ==
  ASSUME NEW ms, NEW c, NEW x, WriteChunk(ms, c, x), NEW s \in StripsOf(ms, c),
         ms[s[1] + 1] \in Device, s[2] \in 0 .. NbStripe - 1
  PROVE  disk'[ms[s[1] + 1]][s[2]] = x
  BY DEF WriteChunk, WithChunk, StripsOf

LEMMA ChunkMiss ==
  ASSUME NEW ms, NEW c, NEW x, WriteChunk(ms, c, x), NEW d \in Device, NEW i \in 0 .. NbStripe - 1,
         ~ \E s \in StripsOf(ms, c) : ms[s[1] + 1] = d /\ s[2] = i
  PROVE  disk'[d][i] = disk[d][i]
  BY DEF WriteChunk, WithChunk, StripsOf

(* What a chunk holds is what one of its stripes holds.                    *)
LEMMA ChunkIs ==
  ASSUME VolumeAssumption, NEW ms \in Seq(Device), ms # << >>, NEW c \in Nat, c >= 1
  PROVE  \E s \in StripsOf(ms, c) : /\ Chunk(ms, c) = disk[ms[s[1] + 1]][s[2]]
                                    /\ Chunk(ms, c)' = disk'[ms[s[1] + 1]][s[2]]
<1>1. PICK s \in StripsOf(ms, c) : s = CHOOSE t \in StripsOf(ms, c) : TRUE
  BY StripFacts
<1>2. /\ Chunk(ms, c) = disk[ms[s[1] + 1]][s[2]]
      /\ Chunk(ms, c)' = disk'[ms[s[1] + 1]][s[2]]
  BY <1>1 DEF Chunk, StripsOf
<1>3. QED
  BY <1>2

LEMMA ChunkReadBack ==
  ASSUME VolumeAssumption, NEW ms \in Seq(Device), ms # << >>, NEW c \in Nat, c >= 1,
         Fitting(ms), c < VolChunks(ms), NEW x, WriteChunk(ms, c, x)
  PROVE  Chunk(ms, c)' = x
<1>1. PICK s \in StripsOf(ms, c) : Chunk(ms, c)' = disk'[ms[s[1] + 1]][s[2]]
  BY ChunkIs
<1>2. ms[s[1] + 1] \in Device /\ s[2] \in 0 .. NbStripe - 1
  BY <1>1, StripAt DEF VolumeAssumption
<1>3. disk'[ms[s[1] + 1]][s[2]] = x
  BY <1>2, ChunkHit
<1>4. QED
  BY <1>1, <1>3

(* Other chunks, and the chunks of volumes on other devices, keep what     *)
(* they hold.                                                              *)
Writes(ms, c, x) == ms \in Seq(Device) /\ ms # << >> /\ c \in Nat /\ c >= 1 /\ WriteChunk(ms, c, x)
InVolume(ms, c) ==
  ms \in Seq(Device) /\ ms # << >> /\ c \in Nat /\ c >= 1 /\ Fitting(ms) /\ c < VolChunks(ms)
Elsewhere(ms, c, os, d) ==
  \/ os = ms /\ Distinct(ms) /\ d # c
  \/ \A i \in DOMAIN ms, j \in DOMAIN os : ms[i] # os[j]
LEMMA ChunkOther ==
  ASSUME VolumeAssumption, NEW ms, NEW c, NEW x, NEW os, NEW d,
         Writes(ms, c, x), InVolume(os, d), Elsewhere(ms, c, os, d)
  PROVE  Chunk(os, d)' = Chunk(os, d)
<1> USE DEF Writes, InVolume
<1>1. PICK s \in StripsOf(os, d) : /\ Chunk(os, d) = disk[os[s[1] + 1]][s[2]]
                                   /\ Chunk(os, d)' = disk'[os[s[1] + 1]][s[2]]
  BY ChunkIs
<1>2. s[1] + 1 \in DOMAIN os /\ os[s[1] + 1] \in Device /\ s[2] \in 0 .. NbStripe - 1
  BY <1>1, StripAt DEF VolumeAssumption
<1>3. ASSUME NEW t \in StripsOf(ms, c), ms[t[1] + 1] = os[s[1] + 1], t[2] = s[2]
      PROVE  FALSE
  <2>1. t[1] + 1 \in DOMAIN ms
    BY StripFacts
  <2>2. os = ms /\ Distinct(ms) /\ d # c
    BY <1>2, <1>3, <2>1 DEF Elsewhere
  <2>3. t[1] + 1 = s[1] + 1
    BY <1>2, <1>3, <2>1, <2>2 DEF Distinct
  <2>4. t = s
    <3>1. t = <<t[1], t[2]>> /\ s = <<s[1], s[2]>> /\ t[1] \in Int /\ s[1] \in Int
      BY StripAt
    <3>2. t[1] = s[1]
      BY <2>3, <3>1
    <3>3. QED
      BY <1>3, <3>1, <3>2
  <2>5. QED
    BY <2>2, <2>4, StripAt
<1>4. disk'[os[s[1] + 1]][s[2]] = disk[os[s[1] + 1]][s[2]]
  <2>1. ~ \E t \in StripsOf(ms, c) : ms[t[1] + 1] = os[s[1] + 1] /\ t[2] = s[2]
    BY <1>3
  <2>2. PICK e \in Device, i \in 0 .. NbStripe - 1 : e = os[s[1] + 1] /\ i = s[2]
    BY <1>2
  <2>3. ~ \E t \in StripsOf(ms, c) : ms[t[1] + 1] = e /\ t[2] = i
    BY <2>1, <2>2
  <2>4. disk'[e][i] = disk[e][i]
    BY <2>3, ChunkMiss
  <2>5. QED
    BY <2>2, <2>4
<1>5. QED
  BY <1>1, <1>4

LEMMA ChunkUnderLabels ==
  ASSUME VolumeAssumption, DiskShape, NEW dev \in Device, NEW x, WriteLabel0(dev, x),
         NEW os \in Seq(Device), os # << >>, NEW d \in Nat, d >= 1, Fitting(os), d < VolChunks(os)
  PROVE  Chunk(os, d)' = Chunk(os, d)
<1>1. PICK s \in StripsOf(os, d) : /\ Chunk(os, d) = disk[os[s[1] + 1]][s[2]]
                                   /\ Chunk(os, d)' = disk'[os[s[1] + 1]][s[2]]
  BY ChunkIs
<1>2. os[s[1] + 1] \in Device /\ s[2] \in 0 .. NbStripe - 1 /\ s[2] # 0
  BY <1>1, StripAt DEF VolumeAssumption
<1>3. QED
  BY <1>1, <1>2, LabelWritten

-----------------------------------------------------------------------------
(* Facts about volumes and their labels.                                   *)
LEMMA MembersFacts ==
  ASSUME VolumeAssumption, NEW v \in Volume
  PROVE  /\ MembersOf[v] \in Seq(Device) /\ MembersOf[v] # << >> /\ Distinct(MembersOf[v])
         /\ 1 \in DOMAIN MembersOf[v] /\ \A m \in DOMAIN MembersOf[v] : MembersOf[v][m] \in Device
<1>1. MembersOf[v] \in Seq(Device) /\ MembersOf[v] # << >> /\ Distinct(MembersOf[v])
  BY DEF VolumeAssumption, IsInjective, Distinct
<1>2. QED
  BY <1>1

LEMMA MetaFacts ==
  ASSUME VolumeAssumption
  PROVE  /\ Meta \in Nat /\ Meta >= 2 /\ Meta - 2 = HtableChunks(NbEntry, PerChunk)
         /\ TableChunks = 2 .. Meta - 1
<1>1. NbEntry + PerChunk - 1 \in Nat /\ PerChunk \in Nat \ {0}
  BY DEF VolumeAssumption
<1>2. HtableChunks(NbEntry, PerChunk) \in Nat
  BY <1>1, DivMod DEF HtableChunks
<1>3. QED
  BY <1>2 DEF Meta, MetadataSize, TableChunks

LEMMA VolChunksNat ==
  ASSUME VolumeAssumption, NEW ms \in Seq(Device), ms # << >>
  PROVE  VolChunks(ms) \in Nat
<1>1. PICK nb \in Nat \ {0} : nb = Len(ms)
  OBVIOUS
<1>2. Lay(ms).nb = nb /\ Lay(ms).stripe = 1
  BY <1>1 DEF Lay
<1>3. NbStripe \in Nat \ {0} /\ Word \in Nat \ {0}
  BY DEF VolumeAssumption
<1>4. ASSUME NEW x \in Int PROVE Wrap(x) \in Nat
  BY <1>3 DEF Wrap
<1>5. CASE Combined(Lay(ms))
  <2>1. VolChunks(ms) = Wrap(NbStripe - nb + 1) \div 1
    BY <1>2, <1>5 DEF ChunkSize, VolChunks, VolSize
  <2>2. QED
    BY <1>3, <1>4, <2>1
<1>6. CASE ~Combined(Lay(ms))
  <2>1. VolChunks(ms) = (Wrap(NbStripe - 1) \div 1) * nb
    BY <1>2, <1>6 DEF ChunkSize, VolChunks, VolSize
  <2>2. PICK w \in Nat : w = Wrap(NbStripe - 1)
    BY <1>3, <1>4
  <2>3. QED
    BY <2>1, <2>2
<1>7. QED
  BY <1>5, <1>6

(* The chunks of the metadata that ContentsOK is about.                    *)
LEMMA MetaChunk ==
  ASSUME VolumeAssumption, NEW v \in Volume, Roomy(v), NEW c, c = 1 \/ c \in TableChunks
  PROVE  c \in Nat /\ c >= 1 /\ c < VolChunks(MembersOf[v])
<1>1. VolChunks(MembersOf[v]) \in Nat
  BY MembersFacts, VolChunksNat
<1>2. /\ Meta \in Nat /\ Meta >= 2 /\ TableChunks = 2 .. Meta - 1
      /\ Meta <= VolChunks(MembersOf[v])
  BY MetaFacts DEF Roomy
<1> HIDE DEF Meta
<1>3. c \in Nat /\ c >= 1 /\ c < Meta
  BY <1>2
<1>4. QED
  BY <1>1, <1>2, <1>3

LEMMA FormattedRoomy ==
  ASSUME VolumeAssumption, LabelsOK, NEW v \in Volume, Formatted(v)
  PROVE  Roomy(v)
<1>1. 1 \in DOMAIN MembersOf[v] /\ MembersOf[v][1] \in Device
  BY MembersFacts
<1>2. disk[MembersOf[v][1]][0] = Label(v, 1)
  BY <1>1 DEF Formatted
<1>3. IsLabel(MembersOf[v][1])
  BY <1>2 DEF IsLabel, Label
<1>4. PICK u, j : LabelOf(MembersOf[v][1], u, j)
  BY <1>1, <1>3 DEF LabelsOK
<1>5. u = v
  <2>1. Label(u, j) = Label(v, 1)
    BY <1>2, <1>4 DEF LabelOf
  <2>2. QED
    BY <2>1 DEF Label
<1>6. QED
  BY <1>4, <1>5 DEF LabelOf

(* Formatted volumes share no device.                                      *)
LEMMA FormattedApart ==
  ASSUME VolumeAssumption, NEW u \in Volume, NEW v \in Volume, Formatted(u), Formatted(v), u # v
  PROVE  \A i \in DOMAIN MembersOf[u], j \in DOMAIN MembersOf[v] : MembersOf[u][i] # MembersOf[v][j]
<1>1. SUFFICES ASSUME NEW i \in DOMAIN MembersOf[u], NEW j \in DOMAIN MembersOf[v],
                      MembersOf[u][i] = MembersOf[v][j]
               PROVE  FALSE
  OBVIOUS
<1>2. Label(u, i) = Label(v, j)
  BY <1>1 DEF Formatted
<1>3. QED
  BY <1>2 DEF Label

LEMMA LabelsSame ==
  ASSUME VolumeAssumption, LabelsOK, \A d \in Device : disk'[d][0] = disk[d][0]
  PROVE  /\ LabelsOK'
         /\ \A d \in Device : IsLabel(d)' <=> IsLabel(d)
         /\ \A v \in Volume : Formatted(v)' <=> Formatted(v)
<1>1. \A d \in Device : IsLabel(d)' <=> IsLabel(d)
  BY DEF IsLabel
<1>2. \A v \in Volume : Formatted(v)' <=> Formatted(v)
  BY MembersFacts DEF Formatted
<1>3. ASSUME NEW d \in Device, IsLabel(d)' PROVE \E v, m : LabelOf(d, v, m)'
  <2>1. PICK v, m : LabelOf(d, v, m)
    BY <1>1, <1>3 DEF LabelsOK
  <2>2. LabelOf(d, v, m)'
    BY <2>1 DEF LabelOf, Roomy
  <2>3. QED
    BY <2>2
<1>4. QED
  BY <1>1, <1>2, <1>3 DEF LabelsOK

LEMMA ContentsSame ==
  ASSUME NEW v \in Volume, ContentsOK(v),
         \A c : c = 1 \/ c \in TableChunks => Chunk(MembersOf[v], c)' = Chunk(MembersOf[v], c)
  PROVE  ContentsOK(v)'
  BY DEF ContentsOK, TableChunkOK, TableChunks

(* A label that is written over.                                           *)
LEMMA LabelGone ==
  ASSUME VolumeAssumption, DiskShape, LabelsOK, FormattedOK, NEW dev \in Device,
         NEW x, x.type # "label", WriteLabel0(dev, x)
  PROVE  /\ DiskShape' /\ LabelsOK' /\ FormattedOK'
         /\ ~IsLabel(dev)' /\ \A d \in Device : d # dev => (IsLabel(d)' <=> IsLabel(d))
<1>1. /\ DiskShape' /\ \A d \in Device : disk'[d][0] = IF d = dev THEN x ELSE disk[d][0]
  BY LabelWritten
<1>2. ~IsLabel(dev)' /\ \A d \in Device : d # dev => (IsLabel(d)' <=> IsLabel(d))
  BY <1>1 DEF IsLabel
<1>3. ASSUME NEW d \in Device, IsLabel(d)' PROVE \E v, m : LabelOf(d, v, m)'
  <2>1. PICK v, m : LabelOf(d, v, m)
    BY <1>2, <1>3 DEF LabelsOK
  <2>2. LabelOf(d, v, m)'
    BY <1>1, <1>2, <1>3, <2>1 DEF LabelOf, Roomy
  <2>3. QED
    BY <2>2
<1>4. ASSUME NEW v \in Volume, Formatted(v)', Fitting(MembersOf[v])' PROVE ContentsOK(v)'
  <2>1. Formatted(v)
    <3>1. ASSUME NEW m \in DOMAIN MembersOf[v] PROVE disk[MembersOf[v][m]][0] = Label(v, m)
      <4>1. disk'[MembersOf[v][m]][0] = Label(v, m) /\ MembersOf[v][m] \in Device
        BY <1>4, MembersFacts DEF Formatted
      <4>2. MembersOf[v][m] # dev
        BY <1>1, <4>1 DEF Label
      <4>3. QED
        BY <1>1, <4>1, <4>2
    <3>2. QED
      BY <3>1 DEF Formatted
  <2>2. Fitting(MembersOf[v]) /\ ContentsOK(v) /\ Roomy(v)
    BY <1>4, <2>1, FormattedRoomy DEF FormattedOK, Fitting
  <2>3. ASSUME NEW c, c = 1 \/ c \in TableChunks PROVE Chunk(MembersOf[v], c)' = Chunk(MembersOf[v], c)
    <3>1. c \in Nat /\ c >= 1 /\ c < VolChunks(MembersOf[v])
      BY <2>2, <2>3, MetaChunk
    <3>2. QED
      BY <2>2, <3>1, MembersFacts, ChunkUnderLabels
  <2>4. QED
    BY <2>2, <2>3, ContentsSame
<1>5. QED
  BY <1>1, <1>2, <1>3, <1>4 DEF LabelsOK, FormattedOK

LEMMA ChunkReadBackIn ==
  ASSUME VolumeAssumption, NEW v \in Volume, NEW c \in Nat, c >= 1, NEW x, WriteChunk(MembersOf[v], c, x),
         Fitting(MembersOf[v]), c < VolChunks(MembersOf[v])
  PROVE  Chunk(MembersOf[v], c)' = x
<1>1. PICK ms \in Seq(Device) : ms = MembersOf[v] /\ ms # << >>
  BY MembersFacts
<1>2. Chunk(ms, c)' = x
  BY <1>1, ChunkReadBack
<1>3. QED
  BY <1>1, <1>2

LEMMA ChunkOtherIn ==
  ASSUME VolumeAssumption, NEW v \in Volume, NEW c \in Nat, c >= 1, NEW x, WriteChunk(MembersOf[v], c, x),
         NEW d \in Nat, d >= 1, d # c, Fitting(MembersOf[v]), d < VolChunks(MembersOf[v])
  PROVE  Chunk(MembersOf[v], d)' = Chunk(MembersOf[v], d)
<1>1. Writes(MembersOf[v], c, x) /\ InVolume(MembersOf[v], d)
  BY MembersFacts DEF Writes, InVolume
<1>2. Elsewhere(MembersOf[v], c, MembersOf[v], d)
  BY MembersFacts DEF Elsewhere
<1>3. QED
  BY <1>1, <1>2, ChunkOther

LEMMA ChunkApart ==
  ASSUME VolumeAssumption, NEW v \in Volume, NEW c \in Nat, c >= 1, NEW x, WriteChunk(MembersOf[v], c, x),
         NEW u \in Volume, NEW d \in Nat, d >= 1, Fitting(MembersOf[u]), d < VolChunks(MembersOf[u]),
         \A i \in DOMAIN MembersOf[v], j \in DOMAIN MembersOf[u] : MembersOf[v][i] # MembersOf[u][j]
  PROVE  Chunk(MembersOf[u], d)' = Chunk(MembersOf[u], d)
<1>1. Writes(MembersOf[v], c, x) /\ InVolume(MembersOf[u], d)
  BY MembersFacts DEF Writes, InVolume
<1>2. Elsewhere(MembersOf[v], c, MembersOf[u], d)
  BY DEF Elsewhere
<1>3. QED
  BY <1>1, <1>2, ChunkOther, ZenonT(40)

(* The chunks of a volume that has no labels any more are written.         *)
LEMMA FormattingWrites ==
  ASSUME VolumeAssumption, LabelsOK, FormattedOK, NEW w \in Volume, Unlabelled(w),
         NEW n \in Nat, n >= 1, NEW x, WriteChunk(MembersOf[w], n, x)
  PROVE  /\ DiskShape' /\ LabelsOK' /\ FormattedOK' /\ Unlabelled(w)'
<1>1. DiskShape' /\ \A d \in Device : disk'[d][0] = disk[d][0]
  BY MembersFacts, ChunkWritten
<1>2. /\ LabelsOK' /\ \A d \in Device : IsLabel(d)' <=> IsLabel(d)
      /\ \A v \in Volume : Formatted(v)' <=> Formatted(v)
  BY <1>1, LabelsSame
<1>3. ASSUME NEW v \in Volume, Formatted(v)', Fitting(MembersOf[v])' PROVE ContentsOK(v)'
  <2>1. Formatted(v) /\ Fitting(MembersOf[v]) /\ ContentsOK(v) /\ Roomy(v)
    BY <1>2, <1>3, FormattedRoomy DEF FormattedOK, Fitting
  <2>2. ASSUME NEW i \in DOMAIN MembersOf[w], NEW j \in DOMAIN MembersOf[v], MembersOf[w][i] = MembersOf[v][j]
        PROVE  FALSE
    <3>1. disk[MembersOf[v][j]][0] = Label(v, j)
      BY <2>1 DEF Formatted
    <3>2. ~IsLabel(MembersOf[w][i])
      BY DEF Unlabelled
    <3>3. QED
      BY <2>2, <3>1, <3>2 DEF IsLabel, Label
  <2>3. ASSUME NEW c, c = 1 \/ c \in TableChunks PROVE Chunk(MembersOf[v], c)' = Chunk(MembersOf[v], c)
    <3>1. c \in Nat /\ c >= 1 /\ c < VolChunks(MembersOf[v])
      BY <2>1, <2>3, MetaChunk
    <3>2. QED
      BY <2>1, <2>2, <3>1, ChunkApart, ZenonT(40)
  <2>4. QED
    BY <2>1, <2>3, ContentsSame
<1>4. Unlabelled(w)'
  BY <1>2, MembersFacts DEF Unlabelled
<1>5. QED
  BY <1>1, <1>2, <1>3, <1>4 DEF FormattedOK

(* The table stays zero under the writes that shfs_mkfs has left.          *)
LEMMA MetaAfter ==
  ASSUME VolumeAssumption, NEW w \in Volume, Roomy(w), Fitting(MembersOf[w]), NEW n \in Nat, n >= 1, NEW x,
         WriteChunk(MembersOf[w], n, x)
  PROVE  \A c : c = 1 \/ c \in TableChunks =>
           Chunk(MembersOf[w], c)' = IF c = n THEN x ELSE Chunk(MembersOf[w], c)
<1> SUFFICES ASSUME NEW c, c = 1 \/ c \in TableChunks
             PROVE  Chunk(MembersOf[w], c)' = IF c = n THEN x ELSE Chunk(MembersOf[w], c)
  OBVIOUS
<1>1. c \in Nat /\ c >= 1 /\ c < VolChunks(MembersOf[w])
  BY MetaChunk
<1>2. CASE c = n
  BY <1>1, <1>2, ChunkReadBackIn
<1>3. CASE c # n
  BY <1>1, <1>3, ChunkOtherIn
<1>4. QED
  BY <1>2, <1>3

-----------------------------------------------------------------------------
(* Each step of shfs_mkfs.                                                 *)
MkStates == [pc : {"idle", "unlabel", "erase", "config", "label"}, vol : Volume, next : Nat, last : Int]

LEMMA MkMoves ==
  ASSUME NEW s \in MkStates, NEW n \in Nat
  PROVE  LET r == [s EXCEPT !.next = n]
         IN  r \in MkStates /\ r.pc = s.pc /\ r.vol = s.vol /\ r.next = n /\ r.last = s.last
  BY DEF MkStates

LEMMA DiskSame ==
  ASSUME disk' = disk, DiskShape, LabelsOK, FormattedOK
  PROVE  DiskShape' /\ LabelsOK' /\ FormattedOK'
<1>1. DiskShape'
  BY DEF DiskShape
<1>2. LabelsOK'
  BY DEF LabelsOK, LabelOf, IsLabel, Roomy
<1>3. FormattedOK'
  BY DEF FormattedOK, Formatted, Fitting, ContentsOK, Chunk, TableChunkOK
<1>4. QED
  BY <1>1, <1>2, <1>3

LEMMA MkBeginStep ==
  ASSUME VolumeAssumption, DiskInv, MkBegin
  PROVE  DiskInv'
<1>1. PICK v \in Volume : /\ v = mk.vol + 1 /\ disk' = disk /\ Roomy(v)
                          /\ \E last \in {Meta - 1, VolChunks(MembersOf[v]) - 1} : mk' = FirstStep(v, last)
  BY DEF MkBegin, Roomy, Meta
<1>2. PICK last \in {Meta - 1, VolChunks(MembersOf[v]) - 1} : mk' = FirstStep(v, last)
  BY <1>1
<1>3. last \in Int /\ last >= Meta - 1
  <2>1. VolChunks(MembersOf[v]) \in Nat /\ Meta \in Nat /\ Meta <= VolChunks(MembersOf[v])
    BY <1>1, MembersFacts, VolChunksNat, MetaFacts DEF Roomy
  <2> HIDE DEF Meta
  <2>2. QED
    BY <1>2, <2>1
<1>4. /\ mk'.pc = "unlabel" /\ mk'.vol = v /\ mk'.next = 1 /\ mk'.last = last /\ mk' \in MkStates
  BY <1>1, <1>2, <1>3 DEF FirstStep, MkStates
<1>5. MkOK'
  BY <1>1, <1>4, MembersFacts DEF MkOK, Roomy, MembersMade, MkStates
<1>6. MkErased'
  <2>1. \A m \in DOMAIN MembersOf[v] : ~(m < 1)
    <3>1. MembersOf[v] \in Seq(Device)
      BY MembersFacts
    <3>2. QED
      BY <3>1
  <2>2. QED
    BY <1>3, <1>4, <2>1 DEF MkErased, Meta
<1>7. QED
  BY <1>1, <1>5, <1>6, DiskSame DEF DiskInv

LEMMA EraseLabelStep ==
  ASSUME VolumeAssumption, DiskInv, EraseLabel
  PROVE  DiskInv'
<1>1. PICK w \in Volume : w = mk.vol
  BY DEF DiskInv, MkOK
<1>2. PICK n \in Nat : n = mk.next /\ n \in DOMAIN MembersOf[w]
  BY <1>1 DEF EraseLabel, DiskInv, MkOK, MembersMade
<1>3. PICK dev \in Device : dev = MembersOf[w][n]
  BY <1>2, MembersFacts
<1>4. /\ mk.pc = "unlabel" /\ WriteLabel0(dev, Zero)
      /\ mk.last \in Int /\ mk.last >= Meta - 1 /\ Roomy(w) /\ mk \in MkStates
      /\ mk' = IF n < Len(MembersOf[w]) THEN [mk EXCEPT !.next = n + 1]
               ELSE [mk EXCEPT !.pc = "erase", !.next = 2]
      /\ \A m \in DOMAIN MembersOf[w] : ~(m < n /\ IsLabel(MembersOf[w][m]))
  BY <1>1, <1>2, <1>3 DEF EraseLabel, MembersMade, DiskInv, MkOK, MkErased, MkStates
<1>5. /\ DiskShape' /\ LabelsOK' /\ FormattedOK'
      /\ ~IsLabel(dev)' /\ \A d \in Device : d # dev => (IsLabel(d)' <=> IsLabel(d))
  <2>1. Zero.type # "label"
    BY DEF Zero
  <2>2. QED
    BY <1>4, <2>1, LabelGone DEF DiskInv
<1>6. DOMAIN MembersOf[w] = 1 .. Len(MembersOf[w]) /\ Len(MembersOf[w]) \in Nat
  BY MembersFacts
<1>7. \A m \in DOMAIN MembersOf[w] : m <= n => ~IsLabel(MembersOf[w][m])'
  <2>1. SUFFICES ASSUME NEW m \in DOMAIN MembersOf[w], m <= n PROVE ~IsLabel(MembersOf[w][m])'
    OBVIOUS
  <2>2. MembersOf[w][m] = dev \/ ~IsLabel(MembersOf[w][m])
    BY <1>3, <1>4, <1>6, <2>1
  <2>3. QED
    BY <1>5, <2>2, MembersFacts
<1>8. CASE n < Len(MembersOf[w])
  <2>1. /\ mk'.pc = "unlabel" /\ mk'.vol = w /\ mk'.next = n + 1 /\ mk'.last = mk.last /\ mk' \in MkStates
    <3>1. mk' = [mk EXCEPT !.next = n + 1] /\ n + 1 \in Nat /\ mk \in MkStates /\ mk.pc = "unlabel"
      BY <1>4, <1>8
    <3>2. QED
      BY <1>1, <3>1, MkMoves
  <2>2. MkOK'
    BY <1>2, <1>4, <1>6, <1>8, <2>1 DEF MkOK, Roomy, MembersMade, MkStates
  <2>3. \A m \in DOMAIN MembersOf[w] : ~(m < n + 1 /\ IsLabel(MembersOf[w][m])')
    BY <1>6, <1>7
  <2>4. MkErased'
    BY <1>4, <2>1, <2>3 DEF MkErased, Meta
  <2>5. QED
    BY <1>5, <2>2, <2>4 DEF DiskInv
<1>9. CASE ~(n < Len(MembersOf[w]))
  <2>1. /\ mk'.pc = "erase" /\ mk'.vol = w /\ mk'.next = 2 /\ mk'.last = mk.last /\ mk' \in MkStates
    BY <1>1, <1>4, <1>9 DEF MkStates
  <2>2. MkOK'
    BY <1>4, <2>1 DEF MkOK, Roomy, MkStates
  <2>3. Unlabelled(w)'
    BY <1>6, <1>7, <1>9 DEF Unlabelled
  <2>4. \A c \in TableChunks : c >= 2
    <3>1. Meta \in Nat /\ TableChunks = 2 .. Meta - 1
      BY MetaFacts
    <3> HIDE DEF Meta
    <3>2. QED
      BY <3>1
  <2>5. MkErased'
    BY <1>4, <2>1, <2>3, <2>4 DEF MkErased, Meta
  <2>6. QED
    BY <1>5, <2>2, <2>5 DEF DiskInv
<1>10. QED
  BY <1>8, <1>9

LEMMA EraseChunkStep ==
  ASSUME VolumeAssumption, DiskInv, EraseChunk
  PROVE  DiskInv'
<1>1. PICK w \in Volume : w = mk.vol
  BY DEF DiskInv, MkOK
<1>2. PICK n \in Nat : n = mk.next /\ n >= 2
  BY DEF EraseChunk, DiskInv, MkOK, MkErased
<1>3. /\ mk.pc = "erase" /\ WriteChunk(MembersOf[w], n, Zero) /\ Unlabelled(w)
      /\ mk.last \in Int /\ mk.last >= Meta - 1 /\ Roomy(w) /\ mk \in MkStates
      /\ mk' = IF n < mk.last THEN [mk EXCEPT !.next = n + 1] ELSE [mk EXCEPT !.pc = "config"]
      /\ Fitting(MembersOf[w]) => \A c \in TableChunks : c >= n \/ Chunk(MembersOf[w], c) = Zero
  BY <1>1, <1>2 DEF EraseChunk, MembersMade, DiskInv, MkOK, MkErased, MkStates
<1>4. DiskShape' /\ LabelsOK' /\ FormattedOK' /\ Unlabelled(w)'
  <2>1. n >= 1 /\ LabelsOK /\ FormattedOK /\ Unlabelled(w) /\ WriteChunk(MembersOf[w], n, Zero)
    BY <1>2, <1>3 DEF DiskInv
  <2>2. QED
    BY <2>1, FormattingWrites
<1>5. /\ Meta \in Nat /\ TableChunks = 2 .. Meta - 1
  BY MetaFacts
<1> HIDE DEF Meta
<1>6. ASSUME Fitting(MembersOf[w]), NEW c \in TableChunks
      PROVE  c >= n + 1 \/ Chunk(MembersOf[w], c)' = Zero
  <2>1. Chunk(MembersOf[w], c)' = IF c = n THEN Zero ELSE Chunk(MembersOf[w], c)
    <3>1. n >= 1 /\ Roomy(w) /\ WriteChunk(MembersOf[w], n, Zero)
      BY <1>2, <1>3
    <3>2. QED
      BY <1>6, <3>1, MetaAfter
  <2>2. c \in Nat
    BY <1>5
  <2>3. c >= n \/ Chunk(MembersOf[w], c) = Zero
    BY <1>3, <1>6
  <2>4. QED
    BY <1>2, <2>1, <2>2, <2>3
<1>7. CASE n < mk.last
  <2>1. mk'.pc = "erase" /\ mk'.vol = w /\ mk'.next = n + 1 /\ mk'.last = mk.last /\ mk' \in MkStates
    <3>1. mk' = [mk EXCEPT !.next = n + 1] /\ n + 1 \in Nat /\ mk \in MkStates /\ mk.pc = "erase"
      BY <1>3, <1>7
    <3>2. QED
      BY <1>1, <3>1, MkMoves
  <2>2. MkOK'
    BY <1>3, <2>1 DEF MkOK, Roomy, MkStates, Meta
  <2>3. MkErased'
    BY <1>2, <1>3, <1>4, <1>6, <2>1 DEF MkErased, Fitting, Meta
  <2>4. QED
    BY <1>4, <2>2, <2>3 DEF DiskInv
<1>8. CASE ~(n < mk.last)
  <2>1. mk'.pc = "config" /\ mk'.vol = w /\ mk' \in MkStates
    BY <1>1, <1>2, <1>3, <1>8 DEF MkStates
  <2>2. MkOK'
    BY <1>3, <2>1 DEF MkOK, Roomy, MkStates, Meta
  <2>3. \A c \in TableChunks : ~(c >= n + 1)
    <3>1. PICK m \in Nat : m = Meta /\ TableChunks = 2 .. m - 1
      BY <1>5
    <3>2. PICK last \in Int : last = mk.last /\ last >= m - 1 /\ ~(n < last)
      BY <1>3, <1>8, <3>1
    <3>3. n >= m - 1
      BY <1>2, <3>1, <3>2
    <3>4. ASSUME NEW c \in 2 .. m - 1 PROVE ~(c >= n + 1)
      BY <1>2, <3>3
    <3>5. QED
      BY <3>1, <3>4
  <2>4. Fitting(MembersOf[w]) => ZeroTable(w)'
    BY <1>6, <2>3 DEF ZeroTable, TableChunks
  <2>5. MkErased'
    BY <1>4, <2>1, <2>4 DEF MkErased, Fitting
  <2>6. QED
    BY <1>4, <2>2, <2>5 DEF DiskInv
<1>9. QED
  BY <1>7, <1>8

LEMMA WriteConfigStep ==
  ASSUME VolumeAssumption, DiskInv, WriteConfig
  PROVE  DiskInv'
<1>1. PICK w \in Volume : w = mk.vol
  BY DEF DiskInv, MkOK
<1>2. /\ mk.pc = "config" /\ WriteChunk(MembersOf[w], 1, Config(w)) /\ Unlabelled(w)
      /\ Roomy(w) /\ mk \in MkStates /\ mk' = [mk EXCEPT !.pc = "label", !.next = 1]
      /\ Fitting(MembersOf[w]) => ZeroTable(w)
  BY <1>1 DEF WriteConfig, MembersMade, DiskInv, MkOK, MkErased, MkStates
<1>3. DiskShape' /\ LabelsOK' /\ FormattedOK' /\ Unlabelled(w)'
  <2>1. PICK n \in Nat : n = 1 /\ n >= 1
    OBVIOUS
  <2>2. LabelsOK /\ FormattedOK /\ Unlabelled(w) /\ WriteChunk(MembersOf[w], n, Config(w))
    BY <1>2, <2>1 DEF DiskInv
  <2>3. QED
    BY <2>1, <2>2, FormattingWrites
<1>4. ASSUME Fitting(MembersOf[w])
      PROVE  Chunk(MembersOf[w], 1)' = Config(w) /\ ZeroTable(w)'
  <2>1. \A c : c = 1 \/ c \in TableChunks =>
               Chunk(MembersOf[w], c)' = IF c = 1 THEN Config(w) ELSE Chunk(MembersOf[w], c)
    <3>1. PICK n \in Nat : n = 1 /\ n >= 1
      OBVIOUS
    <3>2. Roomy(w) /\ WriteChunk(MembersOf[w], n, Config(w))
      BY <1>2, <3>1
    <3>3. PICK x : x = Config(w)
      OBVIOUS
    <3>4. WriteChunk(MembersOf[w], n, x) /\ n >= 1 /\ Fitting(MembersOf[w])
      BY <1>4, <3>1, <3>2, <3>3
    <3>5. \A c : c = 1 \/ c \in TableChunks =>
               Chunk(MembersOf[w], c)' = IF c = n THEN x ELSE Chunk(MembersOf[w], c)
      BY <3>2, <3>4, MetaAfter
    <3>6. QED
      BY <3>1, <3>3, <3>5
  <2>2. 1 \notin TableChunks
    BY DEF TableChunks
  <2>3. QED
    BY <1>2, <1>4, <2>1, <2>2 DEF ZeroTable, TableChunks
<1>5. mk'.pc = "label" /\ mk'.vol = w /\ mk'.next = 1 /\ mk' \in MkStates
  BY <1>1, <1>2 DEF MkStates
<1>6. MkOK'
  BY <1>2, <1>5, MembersFacts DEF MkOK, Roomy, MkStates, MembersMade
<1>7. MkErased'
  BY <1>3, <1>4, <1>5 DEF MkErased, Fitting, Unlabelled
<1>8. QED
  BY <1>3, <1>6, <1>7 DEF DiskInv

LEMMA WriteLabelStep ==
  ASSUME VolumeAssumption, DiskInv, WriteLabel
  PROVE  DiskInv'
<1>1. PICK w \in Volume : w = mk.vol
  BY DEF DiskInv, MkOK
<1>2. PICK n \in Nat : n = mk.next /\ n \in DOMAIN MembersOf[w]
  BY <1>1 DEF WriteLabel, DiskInv, MkOK, MembersMade
<1>3. PICK dev \in Device : dev = MembersOf[w][n]
  BY <1>2, MembersFacts
<1>4. /\ mk.pc = "label" /\ WriteLabel0(dev, Label(w, n)) /\ Roomy(w) /\ mk \in MkStates
      /\ mk' = IF n < Len(MembersOf[w]) THEN [mk EXCEPT !.next = n + 1] ELSE MkIdle(w)
      /\ \A m \in DOMAIN MembersOf[w] : IsLabel(MembersOf[w][m]) => disk[MembersOf[w][m]][0].vol = w
      /\ Fitting(MembersOf[w]) => ZeroTable(w) /\ Chunk(MembersOf[w], 1) = Config(w)
  BY <1>1, <1>2, <1>3 DEF WriteLabel, MembersMade, DiskInv, MkOK, MkErased, MkStates
<1>5. DiskShape' /\ \A d \in Device : disk'[d][0] = IF d = dev THEN Label(w, n) ELSE disk[d][0]
  BY <1>4, LabelWritten DEF DiskInv
<1>6. \A d \in Device : d # dev => (IsLabel(d)' <=> IsLabel(d))
  BY <1>5 DEF IsLabel
<1>7. LabelsOK'
  <2>1. ASSUME NEW d \in Device, IsLabel(d)' PROVE \E v, m : LabelOf(d, v, m)'
    <3>1. CASE d = dev
      <4>1. LabelOf(d, w, n)'
        BY <1>2, <1>3, <1>4, <1>5, <3>1 DEF LabelOf, Roomy
      <4>2. QED
        BY <4>1
    <3>2. CASE d # dev
      <4>1. PICK v, m : LabelOf(d, v, m)
        BY <1>6, <2>1, <3>2 DEF DiskInv, LabelsOK
      <4>2. LabelOf(d, v, m)'
        BY <1>5, <3>2, <4>1 DEF LabelOf, Roomy
      <4>3. QED
        BY <4>2
    <3>3. QED
      BY <3>1, <3>2
  <2>2. QED
    BY <2>1 DEF LabelsOK
<1>8. \A m \in DOMAIN MembersOf[w] : IsLabel(MembersOf[w][m])' => disk'[MembersOf[w][m]][0].vol = w
  <2>1. SUFFICES ASSUME NEW m \in DOMAIN MembersOf[w], IsLabel(MembersOf[w][m])'
                 PROVE  disk'[MembersOf[w][m]][0].vol = w
    OBVIOUS
  <2>2. MembersOf[w][m] \in Device
    BY MembersFacts
  <2>3. QED
    BY <1>4, <1>5, <1>6, <2>1, <2>2 DEF Label
<1>9. ASSUME NEW v \in Volume, Roomy(v), Fitting(MembersOf[v])
      PROVE  \A c : c = 1 \/ c \in TableChunks => Chunk(MembersOf[v], c)' = Chunk(MembersOf[v], c)
  <2>1. SUFFICES ASSUME NEW c, c = 1 \/ c \in TableChunks PROVE Chunk(MembersOf[v], c)' = Chunk(MembersOf[v], c)
    OBVIOUS
  <2>2. c \in Nat /\ c >= 1 /\ c < VolChunks(MembersOf[v])
    BY <1>9, <2>1, MetaChunk
  <2>3. QED
    BY <1>4, <1>9, <2>2, MembersFacts, ChunkUnderLabels DEF DiskInv
<1>10. ASSUME NEW v \in Volume, Formatted(v)', Fitting(MembersOf[v]) PROVE ContentsOK(v)'
  <2>1. CASE v = w
    <3>1. Chunk(MembersOf[w], 1)' = Config(w) /\ \A c \in TableChunks : Chunk(MembersOf[w], c)' = Zero
      BY <1>4, <1>9, <1>10, <2>1 DEF ZeroTable
    <3>2. QED
      BY <2>1, <3>1 DEF ContentsOK, TableChunkOK, TableChunks
  <2>2. CASE v # w
    <3>1. ASSUME NEW m \in DOMAIN MembersOf[v] PROVE disk[MembersOf[v][m]][0] = Label(v, m)
      <4>1. disk'[MembersOf[v][m]][0] = Label(v, m) /\ MembersOf[v][m] \in Device
        BY <1>10, MembersFacts DEF Formatted
      <4>2. MembersOf[v][m] # dev
        <5>1. Label(v, m) # Label(w, n)
          BY <2>2 DEF Label
        <5>2. QED
          BY <1>5, <4>1, <5>1
      <4>3. QED
        BY <1>5, <4>1, <4>2
    <3>2. Formatted(v)
      BY <3>1 DEF Formatted
    <3>3. ContentsOK(v) /\ Roomy(v)
      BY <1>10, <3>2, FormattedRoomy DEF DiskInv, FormattedOK
    <3>4. QED
      BY <1>9, <1>10, <3>3, ContentsSame
  <2>3. QED
    BY <2>1, <2>2
<1>11. FormattedOK'
  BY <1>10 DEF FormattedOK, Fitting
<1>12. DOMAIN MembersOf[w] = 1 .. Len(MembersOf[w]) /\ Len(MembersOf[w]) \in Nat
  BY MembersFacts
<1>13. CASE n < Len(MembersOf[w])
  <2>1. mk'.pc = "label" /\ mk'.vol = w /\ mk'.next = n + 1 /\ mk' \in MkStates
    BY <1>1, <1>4, <1>13, SMTT(30) DEF MkStates
  <2>2. MkOK'
    BY <1>2, <1>4, <1>12, <1>13, <2>1 DEF MkOK, Roomy, MkStates, MembersMade
  <2>3. Fitting(MembersOf[w]) => ZeroTable(w)' /\ Chunk(MembersOf[w], 1)' = Config(w)
    BY <1>4, <1>9 DEF ZeroTable, TableChunks
  <2>4. MkErased'
    BY <1>8, <2>1, <2>3 DEF MkErased, Fitting
  <2>5. QED
    BY <1>5, <1>7, <1>11, <2>2, <2>4 DEF DiskInv
<1>14. CASE ~(n < Len(MembersOf[w]))
  <2>1. mk'.pc = "idle" /\ mk'.vol = w /\ mk' \in MkStates
    BY <1>4, <1>14 DEF MkStates, MkIdle
  <2>2. MkOK' /\ MkErased'
    BY <1>4, <2>1 DEF MkOK, Roomy, MkStates, MkErased
  <2>3. QED
    BY <1>5, <1>7, <1>11, <2>2 DEF DiskInv
<1>15. QED
  BY <1>13, <1>14

LEMMA MkStep ==
  ASSUME VolumeAssumption, DiskInv, MkNext
  PROVE  DiskInv'
<1>1. CASE MkStop
  <2>1. mk' = MkIdle(mk.vol) /\ disk' = disk /\ mk.vol \in Volume /\ Roomy(mk.vol)
    BY <1>1 DEF MkStop, DiskInv, MkOK
  <2>2. MkOK' /\ MkErased'
    BY <2>1 DEF MkOK, MkErased, MkIdle, Roomy
  <2>3. QED
    BY <2>1, <2>2, DiskSame DEF DiskInv
<1>2. QED
  BY <1>1, MkBeginStep, EraseLabelStep, EraseChunkStep, WriteConfigStep, WriteLabelStep DEF MkNext

-----------------------------------------------------------------------------
(* The list of used ranges keeps the metadata at its front.                *)
LEMMA AreaIs ==
  ASSUME NEW start \in Nat, NEW len \in Nat
  PROVE  /\ Area(start, len) \in AreaSet /\ Area(start, len).start = start
         /\ Area(start, len).end = start + len /\ start + len >= start
  BY DEF Area, AreaSet

Inserted(s, i, e, r) ==
  /\ r \in Seq(AreaSet) /\ Len(r) = Len(s) + 1
  /\ \A k \in 1 .. Len(s) + 1 : r[k] = IF k < i THEN s[k] ELSE IF k = i THEN e ELSE s[k - 1]
Removed(s, i, r) ==
  /\ r \in Seq(AreaSet) /\ Len(r) = Len(s) - 1
  /\ \A k \in 1 .. Len(s) - 1 : r[k] = IF k < i THEN s[k] ELSE s[k + 1]

LEMMA AreaInserted ==
  ASSUME NEW s \in Seq(AreaSet), NEW i \in 1 .. Len(s) + 1, NEW e \in AreaSet
  PROVE  Inserted(s, i, e, InsertAt(s, i, e))
<1> DEFINE r == InsertAt(s, i, e)
<1>1. PICK S : S = AreaSet
  OBVIOUS
<1>2. s \in Seq(S) /\ i \in 1 .. Len(s) + 1 /\ e \in S
  BY <1>1
<1>3. /\ r \in Seq(S) /\ Len(r) = Len(s) + 1
      /\ \A k \in 1 .. Len(s) + 1 : r[k] = IF k < i THEN s[k] ELSE IF k = i THEN e ELSE s[k - 1]
  BY <1>2, InsertAtIs
<1> HIDE DEF r
<1>4. QED
  BY <1>1, <1>3 DEF Inserted, r

LEMMA AreaRemoved ==
  ASSUME NEW s \in Seq(AreaSet), NEW i \in 1 .. Len(s)
  PROVE  Removed(s, i, RemoveAt(s, i))
<1> DEFINE r == RemoveAt(s, i)
<1>1. PICK S : S = AreaSet
  OBVIOUS
<1>2. s \in Seq(S) /\ i \in 1 .. Len(s)
  BY <1>1
<1>3. /\ r \in Seq(S) /\ Len(r) = Len(s) - 1
      /\ \A k \in 1 .. Len(s) - 1 : r[k] = IF k < i THEN s[k] ELSE s[k + 1]
  BY <1>2, RemoveAtIs
<1> HIDE DEF r
<1>4. QED
  BY <1>1, <1>3 DEF Removed, r

LEMMA RegisterIs ==
  ASSUME NEW al \in Seq(AreaSet), NEW start \in Nat, NEW len \in Nat
  PROVE  \E i \in 1 .. Len(al) + 1 :
           /\ Register(al, start, len) = InsertAt(al, i, Area(start, len))
           /\ i = Len(al) + 1 => \A j \in DOMAIN al : ~(al[j].start > start)
           /\ i # Len(al) + 1 => al[i].start > start
           /\ \A j \in 1 .. i - 1 : ~(al[j].start > start)
<1> DEFINE later == {i \in DOMAIN al : al[i].start > start}
<1>1. DOMAIN al = 1 .. Len(al) /\ Len(al) \in Nat /\ later \subseteq 1 .. Len(al)
  OBVIOUS
<1>2. CASE later = {}
  <2>1. Register(al, start, len) = InsertAt(al, Len(al) + 1, Area(start, len))
    BY <1>2 DEF Register
  <2>2. \A j \in DOMAIN al : ~(al[j].start > start)
    BY <1>2
  <2>3. Len(al) + 1 \in 1 .. Len(al) + 1
    BY <1>1
  <2>4. QED
    BY <2>1, <2>2, <2>3
<1>3. CASE later # {}
  <2>1. PICK i \in later : \A j \in later : i <= j
    <3>1. later \subseteq Nat
      BY <1>1
    <3>2. QED
      BY <1>3, <3>1, NatLeast
  <2>2. PICK k \in later : k = CHOOSE x \in later : \A j \in later : x <= j
    BY <2>1
  <2>3. Register(al, start, len) = InsertAt(al, k, Area(start, len))
    BY <1>3, <2>2 DEF Register
  <2>4. k \in 1 .. Len(al) + 1 /\ k # Len(al) + 1 /\ al[k].start > start
    BY <1>1
  <2>5. ASSUME NEW j \in 1 .. k - 1 PROVE ~(al[j].start > start)
    <3>1. j \in DOMAIN al /\ ~(k <= j)
      BY <1>1, <2>4
    <3>2. j \notin later
      BY <2>1, <2>2, <3>1
    <3>3. QED
      BY <3>1, <3>2
  <2>6. QED
    BY <2>3, <2>4, <2>5
<1>4. QED
  BY <1>2, <1>3

LEMMA RegisterKeeps ==
  ASSUME VolumeAssumption, NEW al, RangesOK(al), NEW start \in Nat, start >= Meta, NEW len \in Nat
  PROVE  RangesOK(Register(al, start, len))
<1> DEFINE a == Area(start, len)
<1>1. /\ al \in Seq(AreaSet) /\ Len(al) >= 2 /\ al[1] = Area(0, 2) /\ al[2] = Area(2, Meta - 2)
      /\ \A i \in DOMAIN al : i >= 3 => al[i].start >= Meta /\ al[i].end >= al[i].start
      /\ DOMAIN al = 1 .. Len(al) /\ Len(al) \in Nat
  BY DEF RangesOK
<1>2. PICK i \in 1 .. Len(al) + 1 :
        /\ Register(al, start, len) = InsertAt(al, i, a)
        /\ i # Len(al) + 1 => al[i].start > start
  BY <1>1, RegisterIs
<1>3. Meta \in Nat /\ Meta >= 2
  BY MetaFacts
<1>4. a \in AreaSet /\ a.start = start /\ a.end = start + len /\ a.start >= Meta /\ a.end >= a.start
  BY AreaIs, ZenonT(40)
<1> HIDE DEF a, Meta
<1>5. i # 1 /\ i # 2 /\ i >= 3
  <2>1. al[1].start = 0 /\ al[2].start = 2
    BY <1>1 DEF Area
  <2>2. i # 1
    BY <1>1, <1>2, <1>3, <2>1
  <2>3. i # 2
    BY <1>1, <1>2, <1>3, <2>1
  <2>4. QED
    BY <1>1, <2>2, <2>3
<1>6. PICK r : r = InsertAt(al, i, a)
  OBVIOUS
<1>7. Inserted(al, i, a, r)
  <2>1. al \in Seq(AreaSet) /\ i \in 1 .. Len(al) + 1 /\ a \in AreaSet
    BY <1>1, <1>4
  <2>2. QED
    BY <1>6, <2>1, AreaInserted, Zenon
<1>8. r \in Seq(AreaSet) /\ Len(r) >= 2 /\ r[1] = al[1] /\ r[2] = al[2]
  BY <1>1, <1>5, <1>7 DEF Inserted
<1>9. ASSUME NEW k \in DOMAIN r, k >= 3 PROVE r[k].start >= Meta /\ r[k].end >= r[k].start
  <2>1. k \in 1 .. Len(al) + 1 /\ r[k] = IF k < i THEN al[k] ELSE IF k = i THEN a ELSE al[k - 1]
    BY <1>1, <1>7 DEF Inserted
  <2>2. CASE k < i
    BY <1>1, <1>9, <2>1, <2>2
  <2>3. CASE k = i
    BY <1>4, <2>1, <2>3
  <2>4. CASE k > i
    <3>1. r[k] = al[k - 1] /\ k - 1 \in DOMAIN al /\ k - 1 >= 3
      BY <1>1, <1>5, <2>1, <2>4
    <3>2. QED
      BY <1>1, <3>1
  <2>5. QED
    BY <1>1, <2>1, <2>2, <2>3, <2>4
<1>10. QED
  BY <1>1, <1>2, <1>6, <1>8, <1>9 DEF RangesOK

LEMMA UnregisterKeeps ==
  ASSUME VolumeAssumption, NEW al, RangesOK(al), NEW start \in Nat, start >= Meta, Meta > 2, NEW len \in Nat
  PROVE  RangesOK(Unregister(al, start, len))
<1> DEFINE a == Area(start, len)
           same == {i \in DOMAIN al : al[i] = a}
<1>1. /\ al \in Seq(AreaSet) /\ Len(al) >= 2 /\ al[1] = Area(0, 2) /\ al[2] = Area(2, Meta - 2)
      /\ \A i \in DOMAIN al : i >= 3 => al[i].start >= Meta /\ al[i].end >= al[i].start
      /\ DOMAIN al = 1 .. Len(al) /\ Len(al) \in Nat
  BY DEF RangesOK
<1>2. CASE same = {}
  BY <1>2 DEF Unregister
<1>3. CASE same # {}
  <2>1. PICK i \in same : \A j \in same : i <= j
    <3>1. same \subseteq Nat
      BY <1>1
    <3>2. QED
      BY <1>3, <3>1, NatLeast
  <2>2. PICK k \in same : k = CHOOSE x \in same : \A j \in same : x <= j
    BY <2>1
  <2>3. Unregister(al, start, len) = RemoveAt(al, k) /\ k \in DOMAIN al /\ al[k] = a
    BY <1>3, <2>2 DEF Unregister
  <2>4. Meta \in Nat /\ a.start = start
    BY MetaFacts, AreaIs
  <2> HIDE DEF a, same, Meta
  <2>5. k # 1 /\ k # 2 /\ k >= 3
    <3>1. al[1].start = 0 /\ al[2].start = 2
      BY <1>1 DEF Area
    <3>2. k # 1 /\ k # 2
      BY <2>3, <2>4, <3>1
    <3>3. QED
      BY <1>1, <2>3, <3>2
  <2>6. PICK r : r = RemoveAt(al, k)
    OBVIOUS
  <2>7. Removed(al, k, r)
    <3>1. al \in Seq(AreaSet) /\ k \in 1 .. Len(al)
      BY <1>1, <2>3
    <3>2. QED
      BY <2>6, <3>1, AreaRemoved, Zenon
  <2>8. r \in Seq(AreaSet) /\ Len(r) >= 2 /\ r[1] = al[1] /\ r[2] = al[2]
    BY <1>1, <2>3, <2>5, <2>7 DEF Removed
  <2>9. ASSUME NEW j \in DOMAIN r, j >= 3 PROVE r[j].start >= Meta /\ r[j].end >= r[j].start
    <3>1. j \in 1 .. Len(al) - 1 /\ r[j] = IF j < k THEN al[j] ELSE al[j + 1]
      BY <1>1, <2>7 DEF Removed
    <3>2. j \in DOMAIN al /\ j + 1 \in DOMAIN al /\ j + 1 >= 3
      BY <1>1, <2>9, <3>1
    <3>3. QED
      BY <1>1, <2>9, <3>1, <3>2
  <2>10. QED
    BY <1>1, <2>3, <2>6, <2>8, <2>9 DEF RangesOK
<1>4. QED
  BY <1>2, <1>3

LEMMA MetaRanges ==
  ASSUME VolumeAssumption
  PROVE  RangesOK(Register(Register(<< >>, 0, 2), 2, HtableChunks(NbEntry, PerChunk)))
<1>1. PICK h \in Nat : h = HtableChunks(NbEntry, PerChunk) /\ h = Meta - 2
  BY MetaFacts
<1>2. Area(0, 2) \in AreaSet /\ Area(2, h) \in AreaSet /\ Area(0, 2).start = 0
  BY AreaIs
<1>3. PICK r : r = Register(<< >>, 0, 2)
  OBVIOUS
<1>4. r \in Seq(AreaSet) /\ Len(r) = 1 /\ r[1] = Area(0, 2)
  <2>1. PICK s \in Seq(AreaSet) : s = << >> /\ Len(s) = 0
    <3>1. << >> \in Seq(AreaSet) /\ Len(<< >>) = 0
      OBVIOUS
    <3>2. QED
      BY <3>1
  <2>2. PICK i \in 1 .. Len(s) + 1 : Register(s, 0, 2) = InsertAt(s, i, Area(0, 2))
    BY RegisterIs
  <2>3. i = 1 /\ i \in 1 .. Len(s) + 1 /\ r = InsertAt(s, i, Area(0, 2))
    BY <1>3, <2>1, <2>2
  <2>4. Inserted(s, i, Area(0, 2), r)
    BY <1>2, <2>3, AreaInserted, Zenon
  <2>5. QED
    BY <2>1, <2>3, <2>4 DEF Inserted
<1>5. PICK q : q = Register(r, 2, h)
  OBVIOUS
<1>6. q \in Seq(AreaSet) /\ Len(q) = 2 /\ q[1] = Area(0, 2) /\ q[2] = Area(2, h)
  <2>1. PICK i \in 1 .. Len(r) + 1 : /\ Register(r, 2, h) = InsertAt(r, i, Area(2, h))
                                     /\ i # Len(r) + 1 => r[i].start > 2
    BY <1>4, RegisterIs
  <2>2. i = 2 /\ i \in 1 .. Len(r) + 1 /\ r \in Seq(AreaSet) /\ q = InsertAt(r, i, Area(2, h))
    <3>1. i # 1
      BY <1>2, <1>4, <2>1
    <3>2. QED
      BY <1>4, <1>5, <2>1, <3>1
  <2>3. Inserted(r, i, Area(2, h), q)
    BY <1>2, <2>2, AreaInserted, Zenon
  <2>4. QED
    BY <1>4, <2>2, <2>3 DEF Inserted
<1>7. \A i \in DOMAIN q : ~(i >= 3)
  BY <1>6
<1>8. RangesOK(q)
  BY <1>1, <1>6, <1>7 DEF RangesOK
<1>9. QED
  BY <1>1, <1>3, <1>5, <1>8

-----------------------------------------------------------------------------
(* Entries and the chunks of the table.                                    *)
LEMMA EntryFacts ==
  ASSUME VolumeAssumption, NEW e \in Entry
  PROVE  TableChunkOf(e) \in TableChunks /\ Meta > 2 /\ e \in EntriesOf(TableChunkOf(e))
<1>1. PICK p \in Nat \ {0} : p = PerChunk
  BY DEF VolumeAssumption
<1>2. PICK n \in Nat : n = NbEntry /\ e \in Nat /\ e <= n - 1
  BY DEF VolumeAssumption, Entry
<1>3. PICK q \in Nat : q = e \div p /\ p * q <= e
  <2>1. e \div p \in Nat /\ e % p \in 0 .. p - 1 /\ e = p * (e \div p) + (e % p)
    BY <1>2, DivMod
  <2>2. QED
    BY <1>2, <2>1
<1>4. PICK h \in Nat : h = (n + p - 1) \div p /\ n + p - 1 < p * h + p
  <2>1. n + p - 1 \in Nat
    BY <1>2
  <2>2. /\ (n + p - 1) \div p \in Nat /\ (n + p - 1) % p \in 0 .. p - 1
        /\ n + p - 1 = p * ((n + p - 1) \div p) + ((n + p - 1) % p)
    BY <2>1, DivMod
  <2>3. PICK x \in Nat : x = (n + p - 1) \div p
    BY <2>2
  <2>4. PICK y \in Nat : y = (n + p - 1) % p /\ y < p
    BY <2>2
  <2>5. n + p - 1 = p * x + y /\ p * x \in Nat
    BY <2>2, <2>3, <2>4
  <2>6. n + p - 1 < p * x + p
    BY <2>4, <2>5
  <2>7. QED
    BY <2>3, <2>6
<1>5. p * q + p < p * h + p + 1
  BY <1>2, <1>3, <1>4
<1>6. q < h
  <2>1. SUFFICES ASSUME ~(q < h) PROVE FALSE
    OBVIOUS
  <2>2. p * h <= p * q
    BY <2>1, MulMono
  <2>3. p * q \in Nat /\ p * h \in Nat
    OBVIOUS
  <2>4. QED
    BY <1>2, <1>3, <1>4, <2>2, <2>3
<1>7. h = HtableChunks(NbEntry, PerChunk)
  BY <1>1, <1>2, <1>4 DEF HtableChunks
<1>8. TableChunkOf(e) = 2 + q
  BY <1>1, <1>3 DEF TableChunkOf
<1>9. 2 + q \in TableChunks
  BY <1>6, <1>7 DEF TableChunks
<1>10. Meta > 2
  BY <1>6, <1>7 DEF Meta, MetadataSize
<1>11. e \in EntriesOf(2 + q)
  BY <1>1, <1>3 DEF EntriesOf
<1>12. QED
  BY <1>8, <1>9, <1>10, <1>11

LEMMA HeldAt ==
  ASSUME VolumeAssumption, NEW h \in Entries
  PROVE  /\ h.at \in Nat /\ Chunks(h) \in Nat /\ (~IsFree(h) => h.at >= Meta)
         /\ h.is = "file" => Chunks(h) = Len(h.what.blocks)
<1>1. h.at \in Nat /\ (~IsFree(h) => h.at >= Meta) /\ (h.is = "file" => h.what \in File)
  BY DEF Entries, IsFree
<1>2. h.is = "file" => Len(h.what.blocks) \in Nat
  <2>1. SUFFICES ASSUME h.is = "file" PROVE Len(h.what.blocks) \in Nat
    OBVIOUS
  <2>2. h.what.blocks \in Seq({h.what.blocks[i] : i \in DOMAIN h.what.blocks})
    BY <1>1, <2>1 DEF VolumeAssumption
  <2>3. QED
    BY <2>2
<1>3. QED
  BY <1>1, <1>2 DEF Chunks

(* The ranges that a session starts with: one step more of the recursion   *)
(* keeps what is wanted of them.                                           *)
NextRanges(tab, x, n) == IF IsFree(tab[n - 1]) THEN x ELSE Register(x, tab[n - 1].at, Chunks(tab[n - 1]))
MetaOnly == Register(Register(<< >>, 0, 2), 2, HtableChunks(NbEntry, PerChunk))
IsRanges(tab, f, k) == f = [n \in 0 .. k |-> IF n = 0 THEN MetaOnly ELSE NextRanges(tab, f[n - 1], n)]

LEMMA RangesExist ==
  ASSUME NEW tab, NEW N \in Nat
  PROVE  \E f : IsRanges(tab, f, N)
<1> DEFINE T == {k \in Nat : ~ \E f : IsRanges(tab, f, k)}
<1>1. SUFFICES ASSUME T # {} PROVE FALSE
  BY <1>1
<1>2. T \subseteq Nat
  OBVIOUS
<1>3. PICK k \in T : \A j \in T : k <= j
  BY <1>1, <1>2, NatLeast
<1>4. k # 0
  <2>1. PICK f : f = [n \in 0 .. 0 |-> MetaOnly]
    OBVIOUS
  <2>2. f = [n \in 0 .. 0 |-> IF n = 0 THEN MetaOnly ELSE NextRanges(tab, f[n - 1], n)]
    BY <2>1
  <2>3. IsRanges(tab, f, 0)
    BY <2>2 DEF IsRanges
  <2>4. QED
    BY <2>3
<1>5. k \in Nat /\ k - 1 \in Nat /\ ~(k <= k - 1)
  BY <1>4
<1>6. PICK f : IsRanges(tab, f, k - 1)
  <2>1. k - 1 \notin T
    BY <1>3, <1>5
  <2>2. QED
    BY <1>5, <2>1
<1>7. PICK g : g = [n \in 0 .. k |-> IF n = k THEN NextRanges(tab, f[k - 1], k) ELSE f[n]]
  OBVIOUS
<1>8. \A n \in 0 .. k - 1 : g[n] = f[n] /\ f[n] = IF n = 0 THEN MetaOnly ELSE NextRanges(tab, f[n - 1], n)
  BY <1>5, <1>6, <1>7 DEF IsRanges
<1>9. ASSUME NEW n \in 0 .. k PROVE g[n] = IF n = 0 THEN MetaOnly ELSE NextRanges(tab, g[n - 1], n)
  <2>1. CASE n = k
    BY <1>4, <1>5, <1>7, <1>8, <2>1
  <2>2. CASE n # k
    <3>1. n \in 0 .. k - 1 /\ (n # 0 => n - 1 \in 0 .. k - 1)
      BY <1>5, <2>2
    <3>2. QED
      BY <1>8, <3>1
  <2>3. QED
    BY <2>1, <2>2
<1>10. IsRanges(tab, g, k)
  BY <1>7, <1>9 DEF IsRanges
<1>11. QED
  BY <1>10

LEMMA RangesAre ==
  ASSUME VolumeAssumption, NEW tab
  PROVE  \E f : IsRanges(tab, f, NbEntry) /\ Ranges(tab) = f[NbEntry]
<1>1. PICK N \in Nat : N = NbEntry
  BY DEF VolumeAssumption
<1>2. PICK g : IsRanges(tab, g, N)
  BY RangesExist
<1>3. PICK f : f = CHOOSE al : IsRanges(tab, al, N)
  OBVIOUS
<1>4. IsRanges(tab, f, N)
  BY <1>2, <1>3
<1>5. Ranges(tab) = f[N]
  BY <1>1, <1>3 DEF Ranges, IsRanges, MetaOnly, NextRanges
<1>6. QED
  BY <1>1, <1>4, <1>5

LEMMA RangesKept ==
  ASSUME VolumeAssumption, NEW tab \in [Entry -> Entries]
  PROVE  RangesOK(Ranges(tab))
<1>1. PICK N \in Nat : N = NbEntry
  BY DEF VolumeAssumption
<1>2. PICK f : IsRanges(tab, f, N) /\ Ranges(tab) = f[N]
  BY <1>1, RangesAre
<1> DEFINE T == {k \in 0 .. N : ~RangesOK(f[k])}
<1>3. SUFFICES ASSUME T # {} PROVE FALSE
  BY <1>2, <1>3
<1>4. T \subseteq Nat
  OBVIOUS
<1>5. PICK k \in T : \A j \in T : k <= j
  BY <1>3, <1>4, NatLeast
<1>6. k \in 0 .. N /\ f[k] = IF k = 0 THEN MetaOnly ELSE NextRanges(tab, f[k - 1], k)
  BY <1>2 DEF IsRanges
<1>7. k # 0
  BY <1>6, MetaRanges DEF MetaOnly
<1>8. k - 1 \in 0 .. N /\ ~(k <= k - 1) /\ k - 1 \in Entry
  BY <1>1, <1>6, <1>7 DEF Entry
<1>9. RangesOK(f[k - 1])
  BY <1>5, <1>8
<1>10. PICK h \in Entries : h = tab[k - 1]
  BY <1>8
<1>11. CASE IsFree(h)
  BY <1>6, <1>7, <1>9, <1>10, <1>11 DEF NextRanges
<1>12. CASE ~IsFree(h)
  <2>1. f[k] = Register(f[k - 1], h.at, Chunks(h))
    BY <1>6, <1>7, <1>10, <1>12 DEF NextRanges
  <2>2. h.at \in Nat /\ h.at >= Meta /\ Chunks(h) \in Nat
    BY <1>12, HeldAt
  <2>3. RangesOK(f[k])
    BY <1>9, <2>1, <2>2, RegisterKeeps
  <2>4. QED
    BY <2>3
<1>13. QED
  BY <1>11, <1>12

(* What a search finds is not in the metadata.                             *)
LEMMA RunEndIs ==
  ASSUME NEW al \in Seq(AreaSet), NEW i \in 1 .. Len(al)
  PROVE  /\ RunEnd(al, i) \in i .. Len(al)
         /\ \A k \in i .. RunEnd(al, i) - 1 : al[k + 1].start <= al[k].end
         /\ RunEnd(al, i) < Len(al) => al[RunEnd(al, i) + 1].start > al[RunEnd(al, i)].end
<1> DEFINE Stops(j) == j < Len(al) => al[j + 1].start > al[j].end
           J == {j \in i .. Len(al) : Stops(j)}
           Run(j) == /\ \A k \in i .. j - 1 : al[k + 1].start <= al[k].end
                     /\ Stops(j)
<1>1. J \subseteq Nat /\ Len(al) \in J
  OBVIOUS
<1>2. PICK j \in J : \A k \in J : j <= k
  BY <1>1, NatLeast
<1>3. j \in i .. Len(al) /\ Run(j)
  <2>1. ASSUME NEW k \in i .. j - 1 PROVE al[k + 1].start <= al[k].end
    <3>1. k \in i .. Len(al) /\ ~(j <= k)
      BY <1>2
    <3>2. k \notin J
      BY <1>2, <3>1
    <3>3. ~Stops(k)
      BY <3>1, <3>2
    <3>4. k < Len(al) /\ ~(al[k + 1].start > al[k].end)
      BY <3>3
    <3>5. al[k + 1] \in AreaSet /\ al[k] \in AreaSet
      BY <3>1, <3>4
    <3>6. QED
      BY <3>4, <3>5 DEF AreaSet
  <2>2. QED
    BY <2>1
<1>4. RunEnd(al, i) \in i .. Len(al) /\ Run(RunEnd(al, i))
  <2>1. RunEnd(al, i) = CHOOSE x \in i .. Len(al) : Run(x)
    BY DEF RunEnd
  <2> HIDE DEF Run
  <2>2. QED
    BY <1>3, <2>1
<1>5. QED
  BY <1>4

LEMMA FreeStartIs ==
  ASSUME NEW al \in Seq(AreaSet), NEW i \in 1 .. Len(al)
  PROVE  /\ FreeStart(al, i) \in Nat
         /\ \A k \in i .. RunEnd(al, i) : al[k].end <= FreeStart(al, i)
         /\ \E k \in i .. RunEnd(al, i) : al[k].end = FreeStart(al, i)
<1>1. PICK r \in i .. Len(al) : r = RunEnd(al, i)
  BY RunEndIs
<1>2. PICK f : f = [k \in i .. r |-> al[k].end]
  OBVIOUS
<1>3. i \in Nat /\ r \in Nat /\ i <= r /\ \A k \in i .. r : f[k] \in Nat /\ f[k] = al[k].end
  <2>1. ASSUME NEW k \in i .. r PROVE f[k] \in Nat /\ f[k] = al[k].end
    <3>1. k \in 1 .. Len(al)
      OBVIOUS
    <3>2. al[k] \in AreaSet
      BY <3>1
    <3>3. QED
      BY <1>2, <3>2 DEF AreaSet
  <2>2. QED
    BY <2>1
<1>4. PICK m \in i .. r : \A l \in i .. r : f[l] <= f[m]
  BY <1>3, MaxInRange
<1> DEFINE E == {al[k].end : k \in i .. r}
           Top(e) == \A k \in i .. r : al[k].end <= e
<1>5. al[m].end \in E /\ Top(al[m].end)
  BY <1>3, <1>4
<1>6. FreeStart(al, i) = CHOOSE e \in E : Top(e)
  BY <1>1 DEF FreeStart
<1>7. FreeStart(al, i) \in E /\ Top(FreeStart(al, i))
  <2> HIDE DEF E, Top
  <2>1. QED
    BY <1>5, <1>6
<1>8. QED
  BY <1>1, <1>3, <1>7

LEMMA FoundRun ==
  ASSUME NEW al \in Seq(AreaSet), NEW bound, NEW size, FindFirst(al, bound, size) # 0
  PROVE  \E i \in Runs(al) : /\ FindFirst(al, bound, size) = FreeStart(al, i) /\ i \in 1 .. Len(al)
                             /\ Fits(al, i, bound, size)
<1> DEFINE found == {i \in Runs(al) : /\ Fits(al, i, bound, size)
                                      /\ ~(RunEnd(al, i) = Len(al) /\ FreeStart(al, i) = bound)}
<1>1. found # {} /\ FindFirst(al, bound, size) = FreeStart(al, CHOOSE i \in found : \A j \in found : i <= j)
  BY DEF FindFirst
<1>2. found \subseteq Runs(al) /\ Runs(al) \subseteq 1 .. Len(al) /\ \A i \in found : Fits(al, i, bound, size)
  BY DEF Runs
<1> HIDE DEF found
<1>3. PICK i \in found : \A j \in found : i <= j
  <2>1. found \subseteq Nat
    BY <1>2
  <2>2. QED
    BY <1>1, <2>1, NatLeast
<1>4. (CHOOSE x \in found : \A j \in found : x <= j) \in found
  BY <1>3
<1>5. QED
  BY <1>1, <1>2, <1>4

LEMMA FoundFirst ==
  ASSUME VolumeAssumption, NEW al, RangesOK(al), NEW bound, NEW size, FindFirst(al, bound, size) # 0
  PROVE  FindFirst(al, bound, size) \in Nat /\ FindFirst(al, bound, size) >= Meta
<1>1. /\ al \in Seq(AreaSet) /\ Len(al) >= 2 /\ al[1] = Area(0, 2) /\ al[2] = Area(2, Meta - 2)
      /\ \A i \in DOMAIN al : i >= 3 => al[i].start >= Meta /\ al[i].end >= al[i].start
      /\ DOMAIN al = 1 .. Len(al) /\ Len(al) \in Nat
  BY DEF RangesOK
<1>4. PICK i \in Runs(al) : FindFirst(al, bound, size) = FreeStart(al, i) /\ i \in 1 .. Len(al)
  BY <1>1, FoundRun
<1>5. Meta \in Nat /\ Meta >= 2
  BY MetaFacts
<1> HIDE DEF Meta
<1>6. /\ al[1].end = 2 /\ al[2].start = 2 /\ al[2].end = Meta
  BY <1>1, <1>5 DEF Area
<1>7. PICK r \in 1 .. Len(al) : r = RunEnd(al, 1) /\ r >= 2
  <2>1. 1 \in 1 .. Len(al)
    BY <1>1
  <2>2. PICK r \in 1 .. Len(al) : r = RunEnd(al, 1) /\ (r < Len(al) => al[r + 1].start > al[r].end)
    BY <1>1, <2>1, RunEndIs
  <2>3. r # 1
    BY <1>1, <1>6, <2>2
  <2>4. QED
    BY <2>2, <2>3
<1>8. /\ FreeStart(al, i) \in Nat
      /\ \A k \in i .. RunEnd(al, i) : al[k].end <= FreeStart(al, i)
      /\ RunEnd(al, i) \in i .. Len(al)
  BY <1>1, <1>4, FreeStartIs, RunEndIs
<1>9. CASE i = 1
  BY <1>1, <1>6, <1>7, <1>8, <1>9, <1>4, <1>5
<1>10. CASE i # 1
  <2>1. i >= 3
    <3>1. PICK j \in 1 .. i - 1 : RunEnd(al, j) = i - 1
      BY <1>10, <1>4 DEF Runs
    <3>2. i # 2
      <4>1. SUFFICES ASSUME i = 2 PROVE FALSE
        OBVIOUS
      <4>2. j = 1
        BY <3>1, <4>1
      <4>3. QED
        BY <1>7, <3>1, <4>1, <4>2
    <3>3. QED
      BY <1>4, <1>10, <3>2
  <2>2. al[i].start >= Meta /\ al[i].end >= al[i].start /\ al[i] \in AreaSet
    BY <1>1, <1>4, <2>1
  <2>3. al[i].end <= FreeStart(al, i)
    BY <1>4, <1>8
  <2>4. al[i].start \in Nat /\ al[i].end \in Nat
    BY <2>2 DEF AreaSet
  <2>5. QED
    BY <1>4, <1>5, <1>8, <2>2, <2>3, <2>4, SMTT(30)
<1>11. QED
  BY <1>9, <1>10

LEMMA FirstFitIs ==
  ASSUME NEW al, NEW bound, NEW size
  PROVE  FindFree(al, "first fit", bound, size) = FindFirst(al, bound, size)
  BY Zenon DEF FindFree

-----------------------------------------------------------------------------
(* A session writes into its volume.                                       *)
MkRests == mk.pc = "idle" /\ mk' = mk

LEMMA MkAtRest ==
  ASSUME MkRests, MkOK
  PROVE  MkOK' /\ MkErased'
  BY DEF MkRests, MkOK, MkErased, Roomy, MembersMade

LEMMA SessionWrite ==
  ASSUME VolumeAssumption, DiskInv, MkRests, NEW v \in Volume, Formatted(v), Fitting(MembersOf[v]),
         NEW n \in Nat, n >= 2, NEW x, n \in TableChunks => TableChunkOK(v, n, x),
         WriteChunk(MembersOf[v], n, x)
  PROVE  DiskInv' /\ \A u \in Volume : Formatted(u)' <=> Formatted(u)
<1>1. n >= 1 /\ DiskShape /\ LabelsOK /\ MkOK /\ FormattedOK
  BY DEF DiskInv
<1>2. DiskShape' /\ \A d \in Device : disk'[d][0] = disk[d][0]
  BY <1>1, MembersFacts, ChunkWritten
<1>3. LabelsOK' /\ \A u \in Volume : Formatted(u)' <=> Formatted(u)
  BY <1>1, <1>2, LabelsSame
<1>4. ASSUME NEW u \in Volume, Formatted(u)', Fitting(MembersOf[u]) PROVE ContentsOK(u)'
  <2>1. Formatted(u) /\ ContentsOK(u) /\ Roomy(u)
    BY <1>1, <1>3, <1>4, FormattedRoomy DEF FormattedOK
  <2>2. CASE u = v
    <3>1. \A c : c = 1 \/ c \in TableChunks =>
             Chunk(MembersOf[v], c)' = IF c = n THEN x ELSE Chunk(MembersOf[v], c)
      BY <1>1, <2>1, <2>2, MetaAfter
    <3>2. Chunk(MembersOf[v], 1)' = Config(v)
      BY <2>1, <2>2, <3>1 DEF ContentsOK
    <3>3. ASSUME NEW c \in TableChunks PROVE TableChunkOK(v, c, Chunk(MembersOf[v], c)')
      <4>1. CASE c = n
        BY <3>1, <3>3, <4>1
      <4>2. CASE c # n
        BY <2>1, <2>2, <3>1, <3>3, <4>2 DEF ContentsOK
      <4>3. QED
        BY <4>1, <4>2
    <3>4. QED
      BY <2>2, <3>2, <3>3 DEF ContentsOK, TableChunkOK, TableChunks
  <2>3. CASE u # v
    <3>1. \A i \in DOMAIN MembersOf[v], j \in DOMAIN MembersOf[u] : MembersOf[v][i] # MembersOf[u][j]
      BY <2>1, <2>3, FormattedApart
    <3>2. ASSUME NEW c, c = 1 \/ c \in TableChunks PROVE Chunk(MembersOf[u], c)' = Chunk(MembersOf[u], c)
      <4>1. c \in Nat /\ c >= 1 /\ c < VolChunks(MembersOf[u])
        BY <2>1, <3>2, MetaChunk
      <4>2. QED
        BY <1>1, <1>4, <3>1, <4>1, ChunkApart
    <3>3. QED
      BY <2>1, <3>2, ContentsSame
  <2>4. QED
    BY <2>2, <2>3
<1>5. FormattedOK'
  BY <1>4 DEF FormattedOK, Fitting
<1>6. QED
  BY <1>1, <1>2, <1>3, <1>5, MkAtRest DEF DiskInv

LEMMA SessionReads ==
  ASSUME DiskInv, MkRests, disk' = disk
  PROVE  DiskInv' /\ \A u \in Volume : Formatted(u)' <=> Formatted(u)
<1>1. DiskInv'
  BY DiskSame, MkAtRest DEF DiskInv
<1>2. QED
  BY <1>1 DEF Formatted

(* What every step of a session leaves as it was.                          *)
InSession == ad.pc # "idle" /\ AdOK
LEMMA SessionFacts ==
  ASSUME VolumeAssumption, InSession
  PROVE  /\ ad \in Sessions /\ ad.tab \in [Entry -> Entries] /\ RangesOK(ad.al)
         /\ \E v \in Volume : ad.members = MembersOf[v] /\ Formatted(v) /\ Fitting(MembersOf[v])
         /\ ad.pc = "copy" => ad.job \in Entry /\ ad.tab[ad.job].is = "file" /\ ad.next >= 1
  BY DEF InSession, AdOK

LEMMA SessionGoesOn ==
  ASSUME VolumeAssumption, InSession, \A u \in Volume : Formatted(u)' <=> Formatted(u),
         ad' \in Sessions, ad'.pc # "idle", ad'.members = ad.members,
         ad'.tab \in [Entry -> Entries], RangesOK(ad'.al),
         ad'.pc = "copy" => ad'.job \in Entry /\ ad'.tab[ad'.job].is = "file" /\ ad'.next >= 1
  PROVE  AdOK'
<1>1. PICK v \in Volume : ad.members = MembersOf[v] /\ Formatted(v) /\ Fitting(MembersOf[v])
  BY SessionFacts
<1>2. ad'.members = MembersOf[v] /\ Formatted(v)' /\ Fitting(MembersOf[v])'
  BY <1>1 DEF Fitting
<1>3. \E u \in Volume : ad'.members = MembersOf[u] /\ Formatted(u)' /\ Fitting(MembersOf[u])'
  BY <1>2
<1>4. RangesOK(ad.al)' /\ ad' \in Sessions'
  BY DEF RangesOK, Sessions, Entries, AreaSet, TableChunks, Entry
<1>5. (ad.tab \in [Entry -> Entries])'
  BY DEF Entries, Entry
<1>6. QED
  BY <1>3, <1>4, <1>5 DEF AdOK, Entry

LEMMA SessionEnds ==
  ASSUME VolumeAssumption, ad' = NoSession
  PROVE  AdOK'
<1>1. NoSession.pc = "idle" /\ NoSession.members = << >>
  BY DEF NoSession
<1>2. NbEntry \in 0 .. NbEntry /\ << >> \in Seq(Device) /\ << >> \in Seq(AreaSet)
  BY DEF VolumeAssumption
<1>3. NoSession \in Sessions
  BY <1>2 DEF NoSession, Sessions
<1>4. QED
  BY <1>1, <1>3 DEF AdOK, Entry, Sessions, Entries, AreaSet, TableChunks

Edited(s, e, h) == [s EXCEPT !.tab[e] = h, !.modified = @ \cup {TableChunkOf(e)}]
EditOf(s, e, h, r) ==
  /\ r \in Sessions /\ r.tab \in [Entry -> Entries] /\ r.tab[e] = h
  /\ r.pc = s.pc /\ r.members = s.members /\ r.al = s.al /\ r.job = s.job /\ r.next = s.next
  /\ r.def = s.def /\ \A f \in Entry : f # e => r.tab[f] = s.tab[f]
LEMMA EditIs ==
  ASSUME VolumeAssumption, NEW s \in Sessions, s.tab \in [Entry -> Entries], NEW e \in Entry, NEW h \in Entries
  PROVE  EditOf(s, e, h, Edited(s, e, h))
<1> DEFINE r == Edited(s, e, h)
<1>1. TableChunkOf(e) \in TableChunks
  BY EntryFacts
<1>2. PICK t : t = [s.tab EXCEPT ![e] = h]
  OBVIOUS
<1>3. t \in [Entry -> Entries] /\ t[e] = h /\ \A f \in Entry : f # e => t[f] = s.tab[f]
  BY <1>2
<1>4. PICK m \in SUBSET TableChunks : m = s.modified \cup {TableChunkOf(e)}
  BY <1>1 DEF Sessions
<1>5. r = [s EXCEPT !.tab = t, !.modified = m]
  BY <1>2, <1>4 DEF Edited
<1> HIDE DEF r
<1>6. r \in Sessions /\ r.tab = t /\ r.pc = s.pc /\ r.members = s.members /\ r.al = s.al /\ r.job = s.job
      /\ r.next = s.next /\ r.def = s.def
  BY <1>3, <1>4, <1>5 DEF Sessions
<1>7. QED
  BY <1>3, <1>6 DEF r, EditOf

LEMMA PlaceIs ==
  ASSUME VolumeAssumption, NEW h, PlaceFor(h) # NbEntry
  PROVE  PlaceFor(h) \in Entry
<1> DEFINE free == {e \in Entry : IsFree(ad.tab[e])}
<1>1. free # {} /\ PlaceFor(h) = Smallest(free)
  BY DEF PlaceFor
<1>2. free \subseteq Nat /\ free \subseteq Entry
  BY DEF Entry, VolumeAssumption
<1> HIDE DEF free
<1>3. PICK e \in free : \A f \in free : e <= f
  BY <1>1, <1>2, NatLeast
<1>4. Smallest(free) \in free
  BY <1>3 DEF Smallest
<1>5. QED
  BY <1>1, <1>2, <1>4

LEMMA GreatestIs ==
  ASSUME NEW N \in Nat, NEW d, d \subseteq 0 .. N, d # {}
  PROVE  \E e \in d : \A f \in d : f <= e
<1> DEFINE T == {N - e : e \in d}
<1>1. T \subseteq Nat /\ T # {}
  <2>1. ASSUME NEW e \in d PROVE N - e \in Nat
    <3>1. e \in 0 .. N
      OBVIOUS
    <3>2. QED
      BY <3>1
  <2>2. PICK e \in d : TRUE
    OBVIOUS
  <2>3. N - e \in T
    OBVIOUS
  <2>4. QED
    BY <2>1, <2>3
<1>2. PICK m \in T : \A j \in T : m <= j
  BY <1>1, NatLeast
<1>3. PICK e \in d : m = N - e
  OBVIOUS
<1>4. ASSUME NEW f \in d PROVE f <= e
  <2>1. m <= N - f
    BY <1>2
  <2>2. e \in 0 .. N /\ f \in 0 .. N
    OBVIOUS
  <2>3. QED
    BY <1>3, <2>1, <2>2
<1>5. QED
  BY <1>4

(* The table of a formatted volume.                                        *)
LEMMA FreeIs == Free \in Entries
  BY DEF Free, Entries

LEMMA TableOnIs ==
  ASSUME VolumeAssumption, NEW v \in Volume, ContentsOK(v), NEW e \in Entry
  PROVE  TableOn(MembersOf[v])[e] \in Entries
<1>1. PICK c \in TableChunks : c = TableChunkOf(e) /\ e \in EntriesOf(c) /\ c = 2 + e \div PerChunk
  BY EntryFacts DEF TableChunkOf
<1>2. PICK x : x = Chunk(MembersOf[v], c)
  OBVIOUS
<1>3. TableOn(MembersOf[v])[e] = IF x.type = "table" THEN x.ent[e] ELSE Free
  BY <1>1, <1>2 DEF TableOn
<1>4. TableChunkOK(v, c, x)
  BY <1>1, <1>2 DEF ContentsOK
<1>5. CASE x = Zero
  <2>1. x.type = "zero"
    BY <1>5 DEF Zero
  <2>2. QED
    BY <1>3, <2>1, FreeIs
<1>6. ASSUME NEW ent \in [EntriesOf(c) -> Entries], x = Table(v, ent) PROVE TableOn(MembersOf[v])[e] \in Entries
  <2>1. x.type = "table" /\ x.ent = ent
    BY <1>6 DEF Table
  <2>2. ent[e] \in Entries
    BY <1>1
  <2>3. QED
    BY <1>3, <2>1, <2>2
<1>7. QED
  BY <1>4, <1>5, <1>6 DEF TableChunkOK

-----------------------------------------------------------------------------
(* Each step of shfs_admin.                                                *)
LEMMA LoadStep ==
  ASSUME VolumeAssumption, DiskInv, AdOK, MkRests, NEW list \in DeviceList, AdLoad(list)
  PROVE  DiskInv' /\ AdOK'
<1> DEFINE tab == [e \in Entry |-> [TableOn(FoundMembers(list))[e] EXCEPT !.done = @ /\ <<VolumeOf(list), e>> \notin lost]]
           last == LET d == {e \in Entry : tab[e].def}
                   IN  IF d = {} THEN NbEntry ELSE CHOOSE e \in d : \A f \in d : f <= e
<1>1. /\ list \in Seq(Device) /\ list # << >> /\ \A i \in DOMAIN list : IsLabel(list[i])
      /\ AllFound(list) /\ Len(FoundMembers(list)) = Len(list)
      /\ MinMemberSize(Lay(list), VolChunks(list)) <= NbStripe
      /\ ad' = [NoSession EXCEPT !.pc = "ready", !.members = FoundMembers(list), !.tab = tab,
                                 !.al = Ranges(tab), !.def = last]
      /\ disk' = disk /\ LabelsOK
  BY DEF AdLoad, VolumeAssumption, DiskInv
<1>2. PICK v \in Volume : FoundMembers(list) = MembersOf[v] /\ Formatted(v)
  BY <1>1, FoundAreMembers
<1>3. Fitting(MembersOf[v])
  <2>1. Lay(MembersOf[v]) = Lay(list)
    BY <1>1, <1>2 DEF Lay
  <2>2. QED
    BY <1>1, <2>1 DEF Fitting, VolChunks
<1>4. ContentsOK(v)
  BY <1>2, <1>3 DEF DiskInv, FormattedOK
<1>5. tab \in [Entry -> Entries]
  <2>1. ASSUME NEW e \in Entry, NEW h \in Entries, NEW b \in BOOLEAN PROVE [h EXCEPT !.done = b] \in Entries
    BY DEF Entries
  <2>2. ASSUME NEW e \in Entry PROVE tab[e] \in Entries
    <3>1. PICK h \in Entries : h = TableOn(MembersOf[v])[e]
      BY <1>4, TableOnIs
    <3>2. PICK b \in BOOLEAN : b = (h.done /\ <<VolumeOf(list), e>> \notin lost)
      OBVIOUS
    <3>3. tab[e] = [h EXCEPT !.done = b]
      BY <1>2, <3>1, <3>2
    <3>4. QED
      BY <2>1, <3>3
  <2>3. QED
    BY <2>2
<1>6. last \in 0 .. NbEntry
  <2> DEFINE d == {e \in Entry : tab[e].def}
  <2>1. PICK N \in Nat : N = NbEntry /\ Entry \subseteq 0 .. N
    BY DEF VolumeAssumption, Entry
  <2>2. d \subseteq 0 .. N
    BY <2>1
  <2> HIDE DEF d
  <2>3. last = IF d = {} THEN NbEntry ELSE CHOOSE e \in d : \A f \in d : f <= e
    BY DEF d
  <2> HIDE DEF last
  <2>4. CASE d = {}
    BY <2>1, <2>3, <2>4
  <2>5. CASE d # {}
    <3>1. PICK e \in d : \A f \in d : f <= e
      BY <2>2, <2>5, GreatestIs
    <3>2. last \in d
      BY <2>3, <2>5, <3>1
    <3>3. QED
      BY <2>1, <2>2, <3>2
  <2>6. QED
    BY <2>4, <2>5
<1>7. PICK t \in [Entry -> Entries] : t = tab
  BY <1>5
<1>8. PICK al : al = Ranges(t) /\ RangesOK(al)
  BY RangesKept
<1>9. PICK df \in 0 .. NbEntry : df = last
  <2> HIDE DEF last
  <2>1. QED
    BY <1>6
<1>10. PICK ms \in Seq(Device) : ms = MembersOf[v]
  BY MembersFacts
<1> HIDE DEF tab, last
<1>11. ad' = [NoSession EXCEPT !.pc = "ready", !.members = ms, !.tab = t, !.al = al, !.def = df]
  <2>1. Ranges(tab) = al
    BY <1>7, <1>8
  <2>2. FoundMembers(list) = ms
    BY <1>2, <1>10
  <2>3. QED
    BY <1>1, <1>7, <1>9, <2>1, <2>2
<1>12. /\ ad' \in Sessions /\ ad'.pc = "ready" /\ ad'.members = ms /\ ad'.tab = t /\ ad'.al = al
  <2>1. al \in Seq(AreaSet) /\ NbEntry \in 0 .. NbEntry
    BY <1>8 DEF RangesOK, VolumeAssumption
  <2>2. QED
    BY <1>11, <2>1 DEF NoSession, Sessions
<1>13. DiskInv' /\ \A u \in Volume : Formatted(u)' <=> Formatted(u)
  BY <1>1, SessionReads
<1>14. (\E u \in Volume : ad.members = MembersOf[u] /\ Formatted(u) /\ Fitting(MembersOf[u]))'
  BY <1>2, <1>3, <1>10, <1>12, <1>13 DEF Fitting
<1>15. (ad \in Sessions)'
  BY <1>1, <1>12 DEF AdOK, Sessions, Entries, AreaSet, TableChunks, Entry
<1>16. (ad.tab \in [Entry -> Entries] /\ RangesOK(ad.al))'
  BY <1>8, <1>12 DEF RangesOK, Entries, Entry, AreaSet
<1>17. QED
  BY <1>12, <1>13, <1>14, <1>15, <1>16 DEF AdOK

LEMMA AddFileStep ==
  ASSUME VolumeAssumption, DiskInv, AdOK, MkRests, NEW f \in File, AddFile(f)
  PROVE  DiskInv' /\ AdOK'
<1> DEFINE at == FindFree(ad.al, "first fit", VolChunks(ad.members), Len(f.blocks))
<1>1. PICK n : n = FindFirst(ad.al, VolChunks(ad.members), Len(f.blocks)) /\ n = at
  BY FirstFitIs, Zenon
<1>2. PICK h : h = [is |-> "file", what |-> f, at |-> n, def |-> FALSE, done |-> FALSE]
  OBVIOUS
<1>3. PICK e : e = PlaceFor(h)
  OBVIOUS
<1>4. PICK al : al = Reserve(n, Len(f.blocks))
  OBVIOUS
<1>5. /\ ad.pc = "ready" /\ n # 0 /\ e # NbEntry
      /\ ad' = [Edit(e, h) EXCEPT !.pc = "copy", !.job = e, !.next = 1, !.al = al]
      /\ disk' = disk
  BY <1>1, <1>2, <1>3, <1>4, Zenon DEF AddFile
<1> HIDE DEF at
<1>6. InSession
  BY <1>5 DEF InSession
<1>7. /\ ad \in Sessions /\ ad.tab \in [Entry -> Entries] /\ RangesOK(ad.al)
  BY <1>6, SessionFacts
<1>8. n \in Nat /\ n >= Meta
  BY <1>1, <1>5, <1>7, FoundFirst, ZenonT(60)
<1>9. Len(f.blocks) \in Nat
  <2>1. f.blocks \in Seq({f.blocks[i] : i \in DOMAIN f.blocks})
    BY DEF VolumeAssumption
  <2>2. QED
    BY <2>1
<1>10. RangesOK(al)
  BY <1>4, <1>7, <1>8, <1>9, RegisterKeeps DEF Reserve
<1>11. h \in Entries /\ h.is = "file"
  BY <1>2, <1>8 DEF Entries
<1>12. e \in Entry
  BY <1>3, <1>5, PlaceIs
<1>13. PICK r : r = Edit(e, h) /\ r = Edited(ad, e, h)
  BY DEF Edit, Edited
<1>14. /\ r \in Sessions /\ r.tab \in [Entry -> Entries] /\ r.tab[e] = h /\ r.members = ad.members
  <2>1. EditOf(ad, e, h, r)
    BY <1>7, <1>11, <1>12, <1>13, EditIs
  <2>2. QED
    BY <2>1 DEF EditOf
<1>15. ad' = [r EXCEPT !.pc = "copy", !.job = e, !.next = 1, !.al = al]
  BY <1>5, <1>13
<1>16. /\ ad' \in Sessions /\ ad'.pc = "copy" /\ ad'.members = ad.members /\ ad'.tab = r.tab
       /\ ad'.al = al /\ ad'.job = e /\ ad'.next = 1
  <2>1. al \in Seq(AreaSet) /\ e \in 0 .. NbEntry
    BY <1>10, <1>12 DEF RangesOK, Entry, VolumeAssumption
  <2>2. QED
    BY <1>14, <1>15, <2>1 DEF Sessions
<1>17. DiskInv' /\ \A u \in Volume : Formatted(u)' <=> Formatted(u)
  BY <1>5, SessionReads
<1>18. AdOK'
  <2>1. ad'.pc # "idle" /\ ad'.tab \in [Entry -> Entries] /\ RangesOK(ad'.al)
    BY <1>5, <1>7, <1>10, <1>14, <1>16
  <2>2. ad'.pc = "copy" => ad'.job \in Entry /\ ad'.tab[ad'.job].is = "file" /\ ad'.next >= 1
    BY <1>11, <1>12, <1>14, <1>16
  <2>3. QED
    BY <1>6, <1>16, <1>17, <2>1, <2>2, SessionGoesOn
<1>19. QED
  BY <1>17, <1>18

LEMMA CopyBlockStep ==
  ASSUME VolumeAssumption, DiskInv, AdOK, MkRests, CopyBlock
  PROVE  DiskInv' /\ AdOK'
<1>1. InSession
  BY DEF InSession, CopyBlock
<1>2. /\ ad \in Sessions /\ ad.tab \in [Entry -> Entries] /\ RangesOK(ad.al)
      /\ ad.pc = "copy" /\ ad.job \in Entry /\ ad.tab[ad.job].is = "file" /\ ad.next >= 1
      /\ ad' = [ad EXCEPT !.next = @ + 1]
  BY <1>1, SessionFacts DEF CopyBlock
<1>3. PICK v \in Volume : ad.members = MembersOf[v] /\ Formatted(v) /\ Fitting(MembersOf[v])
  BY <1>1, SessionFacts
<1>4. PICK h \in Entries : h = Job
  BY <1>2 DEF Job
<1>5. h.at \in Nat /\ h.at >= Meta
  BY <1>2, <1>4, HeldAt DEF IsFree, Job
<1>6. PICK k \in Nat : k = ad.next /\ k >= 1
  BY <1>2 DEF Sessions
<1>7. PICK n : n = h.at + k - 1
  OBVIOUS
<1>8. PICK x : x = Data(h.what.blocks[k])
  OBVIOUS
<1>9. n \in Nat /\ n >= 2 /\ n \notin TableChunks
  <2>1. Meta \in Nat /\ Meta >= 2 /\ TableChunks = 2 .. Meta - 1
    BY MetaFacts
  <2> HIDE DEF Meta
  <2>2. PICK m \in Nat : m = Meta /\ m >= 2
    BY <2>1
  <2>3. PICK at \in Nat : at = h.at /\ at >= m
    BY <1>5, <2>2
  <2>4. at >= m /\ k >= 1
    BY <1>6, <2>3
  <2>5. at + k - 1 \in Nat /\ at + k - 1 >= m
    BY <2>4
  <2>6. n \in Nat /\ n >= m
    BY <1>7, <2>3, <2>5
  <2>7. TableChunks = 2 .. m - 1
    BY <2>1, <2>2
  <2>8. QED
    BY <2>2, <2>6, <2>7
<1>10. WriteChunk(MembersOf[v], n, x)
  BY <1>3, <1>4, <1>6, <1>7, <1>8 DEF CopyBlock
<1>11. DiskInv' /\ \A u \in Volume : Formatted(u)' <=> Formatted(u)
  BY <1>3, <1>9, <1>10, SessionWrite
<1>12. /\ ad' \in Sessions /\ ad'.pc = "copy" /\ ad'.members = ad.members /\ ad'.tab = ad.tab
       /\ ad'.al = ad.al /\ ad'.job = ad.job /\ ad'.next = k + 1
  <2>1. ad \in Sessions /\ ad.pc = "copy" /\ ad' = [ad EXCEPT !.next = k + 1] /\ k + 1 \in Nat
    BY <1>2, <1>6
  <2>2. QED
    BY <2>1 DEF Sessions
<1>13. AdOK'
  <2>1. ad'.pc # "idle" /\ ad'.tab \in [Entry -> Entries] /\ RangesOK(ad'.al)
    BY <1>2, <1>12
  <2>2. ad'.pc = "copy" => ad'.job \in Entry /\ ad'.tab[ad'.job].is = "file" /\ ad'.next >= 1
    BY <1>2, <1>6, <1>12
  <2>3. QED
    BY <1>1, <1>11, <1>12, <2>1, <2>2, SessionGoesOn
<1>14. QED
  BY <1>11, <1>13

(* The step of a session that leaves the devices alone.                    *)
LEMMA QuietStep ==
  ASSUME VolumeAssumption, DiskInv, InSession, MkRests, disk' = disk,
         ad' \in Sessions, ad'.pc \in {"ready", "umount"}, ad'.members = ad.members,
         ad'.tab \in [Entry -> Entries], RangesOK(ad'.al)
  PROVE  DiskInv' /\ AdOK'
<1>1. DiskInv' /\ \A u \in Volume : Formatted(u)' <=> Formatted(u)
  BY SessionReads
<1>2. ad'.pc # "idle" /\ ad'.pc # "copy"
  BY SessionFacts
<1>3. QED
  BY <1>1, <1>2, SessionGoesOn

LEMMA CopyEndStep ==
  ASSUME VolumeAssumption, DiskInv, AdOK, MkRests, CopyEnd
  PROVE  DiskInv' /\ AdOK'
<1>1. InSession
  BY DEF InSession, CopyEnd
<1>2. /\ ad \in Sessions /\ ad.tab \in [Entry -> Entries] /\ RangesOK(ad.al)
      /\ ad.job \in Entry /\ disk' = disk
      /\ ad' = [ad EXCEPT !.pc = "ready", !.tab[ad.job].done = TRUE, !.job = NbEntry, !.next = 0]
  BY <1>1, SessionFacts DEF CopyEnd
<1>3. PICK h : h = [ad.tab[ad.job] EXCEPT !.done = TRUE]
  OBVIOUS
<1>4. h \in Entries
  <2>1. ad.tab[ad.job] \in Entries
    BY <1>2
  <2>2. QED
    BY <1>3, <2>1 DEF Entries
<1>5. PICK t : t = [ad.tab EXCEPT ![ad.job] = h]
  OBVIOUS
<1>6. t \in [Entry -> Entries]
  BY <1>2, <1>4, <1>5
<1>7. ad' = [ad EXCEPT !.pc = "ready", !.tab = t, !.job = NbEntry, !.next = 0]
  BY <1>2, <1>3, <1>5
<1>8. NbEntry \in 0 .. NbEntry
  BY DEF VolumeAssumption
<1>9. ad' \in Sessions /\ ad'.pc = "ready" /\ ad'.members = ad.members /\ ad'.tab = t /\ ad'.al = ad.al
  <2>1. ad \in Sessions
    BY <1>2
  <2>2. QED
    BY <1>6, <1>7, <1>8, <2>1 DEF Sessions
<1>10. QED
  BY <1>1, <1>2, <1>6, <1>9, QuietStep

LEMMA CopyFailsStep ==
  ASSUME VolumeAssumption, DiskInv, AdOK, MkRests, CopyFails
  PROVE  DiskInv' /\ AdOK'
<1>1. InSession
  BY DEF InSession, CopyFails
<1>2. /\ ad \in Sessions /\ ad.tab \in [Entry -> Entries] /\ RangesOK(ad.al)
      /\ ad.job \in Entry /\ ad.tab[ad.job].is = "file" /\ disk' = disk
      /\ ad' = [ad EXCEPT !.pc = "ready", !.al = Unregister(@, Job.at, Chunks(Job)), !.job = NbEntry, !.next = 0]
  BY <1>1, SessionFacts DEF CopyFails
<1>3. PICK h \in Entries : h = Job
  BY <1>2 DEF Job
<1>4. h.at \in Nat /\ h.at >= Meta /\ Chunks(h) \in Nat /\ Meta > 2
  BY <1>2, <1>3, HeldAt, EntryFacts DEF IsFree, Job
<1>5. PICK al : al = Unregister(ad.al, h.at, Chunks(h)) /\ RangesOK(al)
  BY <1>2, <1>4, UnregisterKeeps
<1>6. ad' = [ad EXCEPT !.pc = "ready", !.al = al, !.job = NbEntry, !.next = 0]
  BY <1>2, <1>3, <1>5
<1>7. NbEntry \in 0 .. NbEntry /\ al \in Seq(AreaSet)
  BY <1>5 DEF VolumeAssumption, RangesOK
<1>8. ad' \in Sessions /\ ad'.pc = "ready" /\ ad'.members = ad.members /\ ad'.tab = ad.tab /\ ad'.al = al
  <2>1. ad \in Sessions
    BY <1>2
  <2>2. QED
    BY <1>6, <1>7, <2>1 DEF Sessions
<1>9. QED
  BY <1>1, <1>2, <1>5, <1>8, QuietStep

LEMMA AddLinkStep ==
  ASSUME VolumeAssumption, DiskInv, AdOK, MkRests, NEW l \in Link, AddLink(l)
  PROVE  DiskInv' /\ AdOK'
<1>1. PICK h : h = [is |-> "link", what |-> l, at |-> FarAway, def |-> FALSE, done |-> FALSE]
  OBVIOUS
<1>2. PICK e : e = PlaceFor(h)
  OBVIOUS
<1>3. ad.pc = "ready" /\ e # NbEntry /\ ad' = Edited(ad, e, h) /\ disk' = disk
  BY <1>1, <1>2 DEF AddLink, Edit, Edited
<1>4. InSession
  BY <1>3 DEF InSession
<1>5. ad \in Sessions /\ ad.tab \in [Entry -> Entries] /\ RangesOK(ad.al)
  BY <1>4, SessionFacts
<1>6. FarAway \in Nat /\ FarAway >= Meta
  BY DEF VolumeAssumption, Meta
<1>7. h \in Entries /\ e \in Entry
  BY <1>1, <1>2, <1>3, <1>6, PlaceIs DEF Entries
<1>8. EditOf(ad, e, h, ad')
  BY <1>3, <1>5, <1>7, EditIs
<1>9. QED
  BY <1>3, <1>4, <1>5, <1>8, QuietStep DEF EditOf

LEMMA RemoveStep ==
  ASSUME VolumeAssumption, DiskInv, AdOK, MkRests, NEW e \in Entry, RemoveObj(e)
  PROVE  DiskInv' /\ AdOK'
<1>1. InSession /\ ad.pc = "ready"
  BY DEF InSession, RemoveObj
<1>2. ad \in Sessions /\ ad.tab \in [Entry -> Entries] /\ RangesOK(ad.al)
  BY <1>1, SessionFacts
<1>3. PICK h \in Entries : h = ad.tab[e] /\ ~IsFree(h)
  BY <1>2 DEF RemoveObj
<1>4. h.at \in Nat /\ h.at >= Meta /\ Chunks(h) \in Nat /\ Meta > 2
  BY <1>3, HeldAt, EntryFacts
<1>5. RangesOK(Unregister(ad.al, h.at, Chunks(h)))
  BY <1>2, <1>4, UnregisterKeeps
<1>6. PICK al : RangesOK(al) /\ al = IF h.is = "file" THEN Unregister(ad.al, h.at, Chunks(h)) ELSE ad.al
  BY <1>2, <1>5
<1>7. PICK g : g = [Free EXCEPT !.def = h.def]
  OBVIOUS
<1>8. g \in Entries
  BY <1>3, <1>7 DEF Free, Entries
<1>9. PICK r : r = Edited(ad, e, g)
  OBVIOUS
<1>10. EditOf(ad, e, g, r)
  BY <1>2, <1>8, <1>9, EditIs
<1>11. ad' = [r EXCEPT !.al = al] /\ disk' = disk
  <2>1. r.al = ad.al
    BY <1>10 DEF EditOf
  <2>2. r = Edit(e, g)
    BY <1>9 DEF Edit, Edited
  <2>3. ad' = [r EXCEPT !.al = IF h.is = "file" THEN Unregister(ad.al, h.at, Chunks(h)) ELSE r.al]
    BY <1>3, <1>7, <2>2 DEF RemoveObj
  <2>4. QED
    BY <1>6, <2>1, <2>3 DEF RemoveObj
<1>12. /\ ad' \in Sessions /\ ad'.pc = "ready" /\ ad'.members = ad.members /\ ad'.tab = r.tab /\ ad'.al = al
       /\ r.tab \in [Entry -> Entries]
  <2>1. al \in Seq(AreaSet)
    BY <1>6 DEF RangesOK
  <2>2. r \in Sessions /\ r.pc = "ready" /\ r.members = ad.members /\ r.tab \in [Entry -> Entries]
    BY <1>1, <1>10 DEF EditOf
  <2>3. QED
    BY <1>11, <2>1, <2>2 DEF Sessions
<1>13. QED
  BY <1>1, <1>6, <1>11, <1>12, QuietStep

LEMMA UndefaultedIs ==
  ASSUME VolumeAssumption, InSession
  PROVE  /\ Undefaulted \in Sessions /\ Undefaulted.tab \in [Entry -> Entries] /\ Undefaulted.pc = ad.pc
         /\ Undefaulted.members = ad.members /\ Undefaulted.al = ad.al
<1>1. ad \in Sessions /\ ad.tab \in [Entry -> Entries]
  BY SessionFacts
<1>2. CASE ad.def = NbEntry
  BY <1>1, <1>2 DEF Undefaulted
<1>3. CASE ad.def # NbEntry
  <2>1. PICK e \in Entry : e = ad.def
    BY <1>1, <1>3 DEF Sessions, Entry, VolumeAssumption
  <2>2. PICK h \in Entries : h = [ad.tab[e] EXCEPT !.def = FALSE]
    <3>1. ad.tab[e] \in Entries
      BY <1>1
    <3>2. [ad.tab[e] EXCEPT !.def = FALSE] \in Entries
      BY <3>1 DEF Entries
    <3>3. QED
      BY <3>2
  <2>3. PICK r : r = Edited(ad, e, h)
    OBVIOUS
  <2>4. EditOf(ad, e, h, r)
    BY <1>1, <2>3, EditIs
  <2>5. Undefaulted = [r EXCEPT !.def = NbEntry]
    BY <1>3, <2>1, <2>2, <2>3 DEF Undefaulted, Edit, Edited
  <2>6. NbEntry \in 0 .. NbEntry
    BY DEF VolumeAssumption
  <2>7. /\ r \in Sessions /\ r.tab \in [Entry -> Entries] /\ r.pc = ad.pc
        /\ r.members = ad.members /\ r.al = ad.al
    BY <2>4 DEF EditOf
  <2>8. QED
    BY <2>5, <2>6, <2>7 DEF Sessions
<1>4. QED
  BY <1>2, <1>3

LEMMA ClearDefaultStep ==
  ASSUME VolumeAssumption, DiskInv, AdOK, MkRests, ClearDefault
  PROVE  DiskInv' /\ AdOK'
<1>1. ad.pc = "ready" /\ InSession /\ ad' = Undefaulted /\ disk' = disk
  BY DEF ClearDefault, InSession
<1>2. RangesOK(ad.al)
  BY <1>1, SessionFacts
<1>3. QED
  BY <1>1, <1>2, UndefaultedIs, QuietStep

LEMMA SetDefaultStep ==
  ASSUME VolumeAssumption, DiskInv, AdOK, MkRests, NEW e \in Entry, SetDefault(e)
  PROVE  DiskInv' /\ AdOK'
<1>1. ad.pc = "ready" /\ InSession /\ disk' = disk
  BY DEF SetDefault, InSession
<1>2. RangesOK(ad.al)
  BY <1>1, SessionFacts
<1>3. PICK s \in Sessions : /\ s = Undefaulted /\ s.tab \in [Entry -> Entries] /\ s.pc = "ready"
                            /\ s.members = ad.members /\ s.al = ad.al
  BY <1>1, UndefaultedIs
<1>4. PICK h \in Entries : h = [s.tab[e] EXCEPT !.def = TRUE]
  <2>1. s.tab[e] \in Entries
    BY <1>3
  <2>2. [s.tab[e] EXCEPT !.def = TRUE] \in Entries
    BY <2>1 DEF Entries
  <2>3. QED
    BY <2>2
<1>5. PICK r : r = Edited(s, e, h)
  OBVIOUS
<1>6. EditOf(s, e, h, r)
  BY <1>3, <1>5, EditIs
<1>7. ad' = [r EXCEPT !.def = e]
  <2>1. ad' = [s EXCEPT !.tab[e].def = TRUE, !.modified = @ \cup {TableChunkOf(e)}, !.def = e]
    BY <1>3 DEF SetDefault
  <2>2. QED
    BY <1>4, <1>5, <2>1 DEF Edited
<1>8. /\ ad' \in Sessions /\ ad'.pc = "ready" /\ ad'.members = ad.members /\ ad'.tab \in [Entry -> Entries]
      /\ ad'.al = ad.al
  <2>1. e \in 0 .. NbEntry
    BY DEF Entry, VolumeAssumption
  <2>2. /\ r \in Sessions /\ r.tab \in [Entry -> Entries] /\ r.pc = "ready"
        /\ r.members = ad.members /\ r.al = ad.al
    BY <1>3, <1>6 DEF EditOf
  <2>3. QED
    BY <1>7, <2>1, <2>2 DEF Sessions
<1>9. QED
  BY <1>1, <1>2, <1>8, QuietStep

LEMMA WriteBackStep ==
  ASSUME VolumeAssumption, DiskInv, AdOK, MkRests, WriteBack
  PROVE  DiskInv' /\ AdOK'
<1>1. InSession /\ ad.pc = "umount" /\ ad.modified # {}
  BY DEF InSession, WriteBack
<1>2. ad \in Sessions /\ ad.tab \in [Entry -> Entries] /\ RangesOK(ad.al)
  BY <1>1, SessionFacts
<1>3. PICK v \in Volume : ad.members = MembersOf[v] /\ Formatted(v) /\ Fitting(MembersOf[v])
  BY <1>1, SessionFacts
<1>4. PICK c \in TableChunks : c = Smallest(ad.modified)
  <2>1. TableChunks \subseteq Nat
    BY DEF TableChunks
  <2>2. ad.modified \subseteq TableChunks /\ ad.modified \subseteq Nat
    BY <1>2, <2>1 DEF Sessions
  <2>3. PICK e \in ad.modified : \A f \in ad.modified : e <= f
    BY <1>1, <2>2, NatLeast
  <2>4. Smallest(ad.modified) \in ad.modified
    BY <2>3 DEF Smallest
  <2>5. QED
    BY <2>2, <2>4
<1>5. VolumeOf(ad.members) = v
  <2>1. disk[MembersOf[v][1]][0] = Label(v, 1)
    BY <1>3, MembersFacts DEF Formatted
  <2>2. QED
    BY <1>3, <2>1 DEF Label, VolumeOf
<1>6. PICK ent \in [EntriesOf(c) -> Entries] : ent = [e \in EntriesOf(c) |-> ad.tab[e]]
  BY <1>2 DEF EntriesOf
<1>7. PICK x : x = Table(v, ent)
  OBVIOUS
<1>8. /\ WriteChunk(MembersOf[v], c, x) /\ ad' = [ad EXCEPT !.modified = @ \ {c}]
  BY <1>3, <1>4, <1>5, <1>6, <1>7 DEF WriteBack
<1>9. TableChunkOK(v, c, x) /\ c \in Nat /\ c >= 2
  <2>1. TableChunkOK(v, c, x)
    BY <1>6, <1>7 DEF TableChunkOK
  <2>2. c \in Nat /\ c >= 2
    BY DEF TableChunks
  <2>3. QED
    BY <2>1, <2>2
<1>10. DiskInv' /\ \A u \in Volume : Formatted(u)' <=> Formatted(u)
  BY <1>3, <1>8, <1>9, SessionWrite
<1>11. /\ ad' \in Sessions /\ ad'.pc = "umount" /\ ad'.members = ad.members /\ ad'.tab = ad.tab /\ ad'.al = ad.al
  BY <1>1, <1>2, <1>8 DEF Sessions
<1>12. ad'.pc # "idle" /\ ad'.pc # "copy" /\ ad'.tab \in [Entry -> Entries] /\ RangesOK(ad'.al)
  BY <1>2, <1>8, <1>11
<1>13. QED
  BY <1>1, <1>10, <1>11, <1>12, SessionGoesOn

LEMMA SessionStep ==
  ASSUME VolumeAssumption, DiskInv, AdOK, MkRests, AdNext \/ \E list \in DeviceList : AdLoad(list)
  PROVE  DiskInv' /\ AdOK'
<1>1. CASE WriteBackBegin
  <2>1. InSession /\ ad.pc = "ready" /\ ad' = [ad EXCEPT !.pc = "umount"] /\ disk' = disk
    BY <1>1 DEF WriteBackBegin, InSession
  <2>2. ad \in Sessions /\ ad.tab \in [Entry -> Entries] /\ RangesOK(ad.al)
    BY <2>1, SessionFacts
  <2>3. ad' \in Sessions /\ ad'.pc = "umount" /\ ad'.members = ad.members /\ ad'.tab = ad.tab /\ ad'.al = ad.al
    BY <2>1, <2>2 DEF Sessions
  <2>4. QED
    BY <2>1, <2>2, <2>3, QuietStep
<1>2. CASE AdEnd \/ AdStop
  <2>1. ad' = NoSession /\ disk' = disk
    BY <1>2 DEF AdEnd, AdStop, Forgotten, AdOK
  <2>2. QED
    BY <2>1, SessionReads, SessionEnds
<1>3. CASE Command
  BY <1>3, AddFileStep, AddLinkStep, RemoveStep, SetDefaultStep, ClearDefaultStep DEF Command
<1>4. CASE \E list \in DeviceList : AdLoad(list)
  BY <1>4, LoadStep
<1>5. QED
  BY <1>1, <1>2, <1>3, <1>4, CopyBlockStep, CopyEndStep, CopyFailsStep, WriteBackStep DEF AdNext

-----------------------------------------------------------------------------
(* The state that everything starts in.                                    *)
LEMMA DiskStarts ==
  ASSUME VolumeAssumption, DiskInit, MkInit
  PROVE  DiskInv
<1>1. PICK ms \in Seq(Device) : ms = MembersOf[1] /\ ms # << >> /\ Distinct(ms)
  BY MembersFacts DEF VolumeAssumption
<1>2. 1 \in Volume /\ Roomy(1)
  BY DEF VolumeAssumption, Roomy, Meta
<1>3. DOMAIN ms = 1 .. Len(ms) /\ Len(ms) \in Nat
  BY <1>1
<1> DEFINE has(d) == \E m \in DOMAIN ms : ms[m] = d
           place(d) == CHOOSE m \in DOMAIN ms : ms[m] = d
           first(d, i) == IF i = 0 /\ has(d) THEN Label(1, place(d)) ELSE Zero
           hit(d, i) == \E s \in StripsOf(ms, 1) : ms[s[1] + 1] = d /\ s[2] = i
<1>4. disk = [d \in Device |-> [i \in 0 .. NbStripe - 1 |-> IF hit(d, i) THEN Config(1) ELSE first(d, i)]]
  <2>1. PICK labels : labels = [d \in Device |-> [i \in 0 .. NbStripe - 1 |-> first(d, i)]]
    OBVIOUS
  <2>2. disk = WithChunk(labels, ms, 1, Config(1))
    BY <1>1, <2>1 DEF DiskInit
  <2>3. disk = [d \in Device |-> [i \in 0 .. NbStripe - 1 |-> IF hit(d, i) THEN Config(1) ELSE labels[d][i]]]
    BY <2>2 DEF WithChunk, StripsOf
  <2>4. \A d \in Device, i \in 0 .. NbStripe - 1 : labels[d][i] = first(d, i)
    <3> HIDE DEF first
    <3>1. QED
      BY <2>1
  <2> HIDE DEF hit, first
  <2>5. QED
    BY <2>3, <2>4
<1> HIDE DEF hit, first
<1>5. \A d \in Device, i \in 0 .. NbStripe - 1 : disk[d][i] = IF hit(d, i) THEN Config(1) ELSE first(d, i)
  BY <1>4
<1>6. DiskShape
  <2>1. disk = [d \in Device |-> [i \in 0 .. NbStripe - 1 |-> disk[d][i]]]
    BY <1>4, <1>5
  <2>2. QED
    BY <2>1 DEF DiskShape
<1>7. 0 \in 0 .. NbStripe - 1 /\ \A d \in Device : ~hit(d, 0)
  BY <1>1, StripAt, SMTT(30) DEF VolumeAssumption, hit
<1>8. ASSUME NEW d \in Device
      PROVE  disk[d][0] = IF has(d) THEN Label(1, place(d)) ELSE Zero
  BY <1>5, <1>7 DEF first
<1>9. ASSUME NEW d \in Device, has(d)
      PROVE  place(d) \in DOMAIN ms /\ ms[place(d)] = d
  BY <1>9
<1>10. LabelsOK
  <2>1. ASSUME NEW d \in Device, IsLabel(d) PROVE \E v, m : LabelOf(d, v, m)
    <3>1. has(d)
      BY <1>8, <2>1 DEF IsLabel, Zero
    <3>2. PICK m \in DOMAIN ms : m = place(d) /\ ms[m] = d
      BY <1>9, <3>1
    <3>3. disk[d][0] = Label(1, m)
      BY <1>8, <3>1, <3>2
    <3>4. LabelOf(d, 1, m)
      BY <1>1, <1>2, <3>2, <3>3 DEF LabelOf
    <3>5. QED
      BY <3>4
  <2>2. QED
    BY <2>1 DEF LabelsOK
<1>11. MkOK /\ MkErased
  <2>1. mk = [pc |-> "idle", vol |-> 1, next |-> 0, last |-> 0]
    BY DEF MkInit, MkIdle
  <2>2. QED
    BY <1>2, <2>1 DEF MkOK, MkErased
<1>12. ASSUME NEW v \in Volume, Formatted(v), Fitting(MembersOf[v]) PROVE ContentsOK(v)
  <2>1. v = 1
    <3>1. PICK d \in Device : d = MembersOf[v][1] /\ disk[d][0] = Label(v, 1)
      BY <1>12, MembersFacts DEF Formatted
    <3>2. PICK j : disk[d][0] = Label(1, j) \/ disk[d][0] = Zero
      BY <1>8
    <3>3. disk[d][0] # Zero
      BY <3>1 DEF Label, Zero
    <3>4. QED
      BY <3>1, <3>2, <3>3 DEF Label
  <2>2. ASSUME NEW c, c = 1 \/ c \in TableChunks
        PROVE  Chunk(ms, c) = IF c = 1 THEN Config(1) ELSE Zero
    <3>1. c \in Nat /\ c >= 1 /\ c < VolChunks(ms) /\ Fitting(ms)
      BY <1>1, <1>2, <1>12, <2>1, <2>2, MetaChunk
    <3>2. PICK s \in StripsOf(ms, c) : Chunk(ms, c) = disk[ms[s[1] + 1]][s[2]]
      BY <1>1, <3>1, ChunkIs
    <3>3. /\ s[1] + 1 \in DOMAIN ms /\ ms[s[1] + 1] \in Device /\ s[2] # 0 /\ s[2] \in 0 .. NbStripe - 1
          /\ s = <<s[1], s[2]>> /\ s[1] \in Int
          /\ \A k \in Nat : s \in StripsOf(ms, k) /\ k >= 1 => k = c
      BY <1>1, <3>1, <3>2, StripAt, SMTT(40)
    <3>4. PICK d \in Device, i \in 0 .. NbStripe - 1 : d = ms[s[1] + 1] /\ i = s[2] /\ i # 0
      BY <3>3
    <3>5. CASE c = 1
      <4>1. hit(d, i)
        BY <3>4, <3>5 DEF hit
      <4>2. QED
        BY <1>5, <3>2, <3>4, <3>5, <4>1
    <3>6. CASE c # 1
      <4>1. ASSUME NEW t \in StripsOf(ms, 1), ms[t[1] + 1] = d, t[2] = i PROVE FALSE
        <5>1. t[1] + 1 \in DOMAIN ms /\ t = <<t[1], t[2]>> /\ t[1] \in Int
          <6>1. PICK n \in Nat : n = 1 /\ n >= 1
            OBVIOUS
          <6>2. t \in StripsOf(ms, n)
            BY <6>1
          <6>3. QED
            BY <1>1, <6>1, <6>2, StripAt
        <5>2. t[1] + 1 = s[1] + 1
          BY <1>1, <3>3, <3>4, <4>1, <5>1 DEF Distinct
        <5>3. t[1] = s[1]
          BY <3>3, <5>1, <5>2, SMTT(30)
        <5>4. t = s
          BY <3>3, <3>4, <4>1, <5>1, <5>3
        <5>5. QED
          BY <3>3, <3>6, <5>4
      <4>2. ~hit(d, i)
        BY <4>1 DEF hit
      <4>3. disk[d][i] = Zero
        BY <1>5, <3>4, <4>2 DEF first
      <4>4. QED
        BY <3>2, <3>4, <3>6, <4>3
    <3>7. QED
      BY <3>5, <3>6
  <2>3. 1 \notin TableChunks
    BY DEF TableChunks
  <2>4. QED
    BY <1>1, <2>1, <2>2, <2>3 DEF ContentsOK, TableChunkOK
<1>13. QED
  BY <1>6, <1>10, <1>11, <1>12 DEF DiskInv, FormattedOK

LEMMA VolumeStarts ==
  ASSUME VolumeAssumption, Init
  PROVE  IInv
<1>1. DiskInv
  BY DiskStarts DEF Init
<1>2. AdOK
  <2>1. ad = NoSession
    BY DEF Init, AdInit
  <2>2. NoSession.pc = "idle" /\ NoSession.members = << >>
    BY DEF NoSession
  <2>3. NbEntry \in 0 .. NbEntry /\ << >> \in Seq(Device) /\ << >> \in Seq(AreaSet)
    BY DEF VolumeAssumption
  <2>4. NoSession \in Sessions
    BY <2>3 DEF NoSession, Sessions
  <2>5. QED
    BY <2>1, <2>2, <2>4 DEF AdOK
<1>3. KmInv
  <2>1. /\ km = KmIdle /\ mounted = FALSE /\ refs = [d \in Device |-> 0] /\ heap = [t \in Things |-> 0]
    BY DEF Init, KmInit
  <2>2. KmIdle \in Mounts /\ km.pc = "idle"
    BY <2>1 DEF KmIdle, Mounts
  <2>3. KmType
    BY <2>1, <2>2 DEF KmType
  <2>4. RefsExact
    BY <2>1, <2>2 DEF RefsExact, InUse, HasMembers
  <2>5. HeapExact
    BY <2>1, <2>2 DEF HeapExact, Things
  <2>6. QED
    BY <2>1, <2>2, <2>3, <2>4, <2>5 DEF KmInv, Probing, ClosingOK, MembersOK, HasMembers, MountedLate
<1>4. QED
  BY <1>1, <1>2, <1>3 DEF IInv

(* While nothing is mounted, and without a session, the devices may change.*)
LEMMA UnmountedSame ==
  ASSUME KmInv, Unmounted, UNCHANGED mountVars
  PROVE  KmInv'
<1>1. /\ km.pc = "idle" /\ ~mounted /\ km' = km /\ mounted' = mounted /\ refs' = refs /\ heap' = heap
  BY DEF Unmounted, mountVars
<1>2. KmType' /\ RefsExact' /\ HeapExact' /\ MountedLate' /\ ClosingOK'
  BY <1>1 DEF KmInv, KmType, RefsExact, HeapExact, MountedLate, ClosingOK, InUse, HasMembers, On
<1>3. Probing' /\ MembersOK'
  BY <1>1 DEF Probing, MembersOK, HasMembers
<1>4. QED
  BY <1>2, <1>3 DEF KmInv

LEMMA NoSessionSame ==
  ASSUME AdOK, AdminIdle, ad' = ad
  PROVE  AdOK'
  BY DEF AdOK, AdminIdle, Sessions, Entries, AreaSet, TableChunks, Entry

LEMMA VolumeStep ==
  ASSUME VolumeAssumption, IInv, [Next]_vars
  PROVE  IInv'
<1>1. CASE AdminIdle /\ Unmounted /\ MkNext /\ UNCHANGED <<adVars, mountVars>>
  <2>1. DiskInv'
    BY <1>1, MkStep DEF IInv
  <2>3. AdOK'
    BY <1>1, NoSessionSame DEF IInv, adVars
  <2>4. KmInv'
    BY <1>1, UnmountedSame DEF IInv, mountVars
  <2>5. QED
    BY <2>1, <2>3, <2>4 DEF IInv
<1>2. CASE MkfsIdle /\ Unmounted /\ (AdNext \/ Session) /\ UNCHANGED <<mk, mountVars>>
  <2>1. MkRests
    BY <1>2 DEF MkRests, MkfsIdle
  <2>2. AdNext \/ \E list \in DeviceList : AdLoad(list)
    BY <1>2 DEF Session
  <2>3. DiskInv' /\ AdOK'
    BY <2>1, <2>2, SessionStep DEF IInv
  <2>4. KmInv'
    BY <1>2, UnmountedSame DEF IInv, mountVars
  <2>5. QED
    BY <2>3, <2>4 DEF IInv
<1>3. CASE MkfsIdle /\ AdminIdle /\ KmNext /\ UNCHANGED <<mk, adVars>>
  <2>1. disk' = disk
    BY <1>3 DEF KmNext, MountBegin, Probe, Detect, CloseOne, AllocPool, LoadHconf, LoadHtable, AllocBuffer,
                AllocCache, Umount, Fails
  <2>2. MkRests
    BY <1>3 DEF MkRests, MkfsIdle
  <2>3. DiskInv'
    BY <2>1, <2>2, SessionReads DEF IInv
  <2>4. ad' = ad
    BY <1>3 DEF adVars, IInv, AdOK
  <2>5. AdOK'
    BY <1>3, <2>4, NoSessionSame DEF IInv
  <2>6. KmInv'
    BY <1>3, MountStep DEF IInv, DiskInv
  <2>7. QED
    BY <2>3, <2>5, <2>6 DEF IInv
<1>4. CASE UNCHANGED vars
  <2>1. disk' = disk /\ mk' = mk /\ ad' = ad /\ km' = km /\ mounted' = mounted /\ refs' = refs
        /\ heap' = heap
    BY <1>4 DEF vars, adVars, mountVars
  <2>2. DiskInv'
    <3>1. DiskShape' /\ LabelsOK' /\ FormattedOK'
      BY <2>1, DiskSame DEF IInv, DiskInv
    <3>2. MkOK'
      BY <2>1 DEF IInv, DiskInv, MkOK, Roomy, MembersMade
    <3>3. MkErased'
      BY <2>1 DEF IInv, DiskInv, MkErased, Chunk, IsLabel, Unlabelled, ZeroTable, Fitting, TableChunks
    <3>4. QED
      BY <3>1, <3>2, <3>3 DEF DiskInv
  <2>3. AdOK'
    BY <2>1 DEF IInv, AdOK, Sessions, Entries, AreaSet, TableChunks, Entry, Formatted, Fitting, RangesOK
  <2>4. KmInv'
    BY <2>1 DEF IInv, KmInv, KmType, RefsExact, HeapExact, MountedLate, ClosingOK, InUse, HasMembers, On, Probing,
                MembersOK, IsLabel, Distinct, Formatted, Fitting
  <2>5. QED
    BY <2>2, <2>3, <2>4 DEF IInv
<1>5. QED
  BY <1>1, <1>2, <1>3, <1>4 DEF Next

-----------------------------------------------------------------------------
(* Labels, tables, the session and the mount belong together, whatever     *)
(* shfs_mkfs, shfs_admin and the kernel do to the devices in turn and      *)
(* wherever the first two end.                                             *)
THEOREM VolumeInvariant == Spec => []IInv
<1>1. Init => IInv
  BY VolumeStarts, VolumeAssumption
<1>2. IInv /\ [Next]_vars => IInv'
  BY VolumeStep, VolumeAssumption
<1>3. QED
  BY <1>1, <1>2, PTL DEF Spec

(* close_blkdev is called as often as open_blkdev for every device that a  *)
(* mount tried, on every path out of mount_shfs and umount_shfs.           *)
THEOREM DevicesAreReleased == Spec => []DevicesReleased
<1>1. IInv => DevicesReleased
  <2> SUFFICES ASSUME KmInv PROVE DevicesReleased
    BY DEF IInv
  <2>1. \A d \in Device : refs[d] \in Nat
    BY DEF KmInv, KmType
  <2>2. ASSUME km.pc = "idle", NEW d \in Device
        PROVE  refs[d] = IF mounted /\ \E i \in DOMAIN km.members : km.members[i] = d THEN 1 ELSE 0
    <3>1. refs[d] = IF InUse(d) THEN 1 ELSE 0
      BY DEF KmInv, RefsExact
    <3>2. InUse(d) <=> mounted /\ \E i \in DOMAIN km.members : km.members[i] = d
      BY <2>2 DEF InUse, HasMembers, On
    <3>3. QED
      BY <3>1, <3>2
  <2>3. QED
    BY <2>1, <2>2 DEF DevicesReleased
<1>2. QED
  BY <1>1, VolumeInvariant, PTL

(* What mount_shfs allocated is freed on every path out of it, and by      *)
(* umount_shfs: but for the tokens when load_vol_htable fails.             *)
THEOREM MountsCleanUp == Spec => []MountCleansUp
<1>1. IInv => MountCleansUp
  <2> SUFFICES ASSUME KmInv PROVE MountCleansUp
    BY DEF IInv
  <2>1. \A t \in Things : heap[t] \in Nat
    BY DEF KmInv, KmType
  <2>2. ASSUME km.pc = "idle", NEW t \in Things \ {"pool"} PROVE heap[t] = IF mounted THEN 1 ELSE 0
    BY <2>2 DEF KmInv, HeapExact, Things
  <2>3. mounted /\ km.pc = "idle" => heap["pool"] >= 1
    BY DEF KmInv, HeapExact
  <2>4. QED
    BY <2>1, <2>2, <2>3 DEF MountCleansUp
<1>2. QED
  BY <1>1, VolumeInvariant, PTL

(* What load_vol_cconf accepts, in the kernel and in shfs_admin, has the   *)
(* configuration and the table of the volume that its label names: labels  *)
(* are erased first and written last.                                      *)
THEOREM MountedIsFormatted == Spec => []WhatMountsIsFormatted
<1>1. IInv => WhatMountsIsFormatted
  <2> SUFFICES ASSUME IInv, NEW ms \in {ad.members, MountedMembers} \ {<< >>}
               PROVE  LET v == disk[ms[1]][0].vol
                      IN  /\ ms = MembersOf[v] /\ Formatted(v) /\ Chunk(ms, 1) = Config(v)
                          /\ \A c \in TableChunks : Chunk(ms, c).type # "zero"
                                                      => Chunk(ms, c).type = "table" /\ Chunk(ms, c).vol = v
    BY DEF WhatMountsIsFormatted
  <2>1. PICK v \in Volume : ms = MembersOf[v] /\ Formatted(v) /\ Fitting(MembersOf[v])
    <3>1. CASE ms = ad.members
      BY <3>1 DEF IInv, AdOK
    <3>2. CASE ms = MountedMembers
      <4>1. HasMembers /\ ms = km.members
        BY <3>2 DEF MountedMembers, HasMembers
      <4>2. QED
        BY <4>1 DEF IInv, KmInv, MembersOK
    <3>3. QED
      BY <3>1, <3>2
  <2>2. disk[ms[1]][0].vol = v
    <3>1. disk[MembersOf[v][1]][0] = Label(v, 1)
      BY <2>1, MembersFacts, VolumeAssumption DEF Formatted
    <3>2. QED
      BY <2>1, <3>1 DEF Label
  <2>3. ContentsOK(v)
    BY <2>1 DEF IInv, DiskInv, FormattedOK
  <2>4. ASSUME NEW c \in TableChunks, Chunk(ms, c).type # "zero"
        PROVE  Chunk(ms, c).type = "table" /\ Chunk(ms, c).vol = v
    <3>1. PICK x : x = Chunk(ms, c) /\ TableChunkOK(v, c, x)
      BY <2>1, <2>3 DEF ContentsOK
    <3>2. x # Zero
      BY <2>4, <3>1 DEF Zero
    <3>3. PICK ent : x = Table(v, ent)
      BY <3>1, <3>2 DEF TableChunkOK
    <3>4. QED
      BY <3>1, <3>3 DEF Table
  <2>5. QED
    BY <2>1, <2>2, <2>3, <2>4 DEF ContentsOK
<1>2. QED
  BY <1>1, VolumeInvariant, PTL

-----------------------------------------------------------------------------
(* What ContentsKept rests on.  A block of a file that is where it should  *)
(* be, the range of an entry, and ranges that have nothing in common.      *)
BlockKept(ms, h, i) == h.at + i - 1 < VolChunks(ms) /\ Chunk(ms, h.at + i - 1) = Data(h.what.blocks[i])
Span(h) == Area(h.at, Chunks(h))
Clear(a, b) == a.end <= b.start \/ b.end <= a.start

IsFile(h) == h.is = "file"
FilesApart(tab) ==
  \A e, f \in Held(tab) : e # f /\ IsFile(tab[e]) /\ IsFile(tab[f]) => Clear(Span(tab[e]), Span(tab[f]))

(* Entries that no overlap can come from: of files without contents, all   *)
(* of which have the same digest, there is one.                            *)
Orderly(tab) ==
  /\ \A e, f \in Held(tab) : e # f => Clear(Span(tab[e]), Span(tab[f]))
  /\ \A e \in Held(tab) : IF IsFile(tab[e]) THEN Span(tab[e]).end <= FarAway ELSE tab[e].at = FarAway
  /\ \A e, f \in Held(tab) :
       IsFile(tab[e]) /\ IsFile(tab[f]) /\ Chunks(tab[e]) = 0 /\ Chunks(tab[f]) = 0 => e = f

(* Ranges in order, and a range for every file.                            *)
Sorted(al) ==
  /\ \A i, j \in DOMAIN al : i < j => al[i].start <= al[j].start /\ Clear(al[i], al[j])
  /\ \A i \in DOMAIN al : al[i].start <= al[i].end /\ al[i].end <= FarAway
HasFiles(al, tab) == \A e \in Held(tab) : IsFile(tab[e]) => \E i \in DOMAIN al : al[i] = Span(tab[e])

(* A volume that no session is on, and the one of the session: its table   *)
(* is the one on the devices where it was not changed.                     *)
OnDisk(v) ==
  LET tab == TableOn(MembersOf[v])
  IN  /\ v \notin tainted =>
           \A e \in Held(tab) : tab[e].done /\ <<v, e>> \notin lost => Kept(MembersOf[v], tab[e])
      /\ v \notin faulted => Orderly(tab)
Read(v, h, e) == [h EXCEPT !.done = @ /\ <<v, e>> \notin lost]
FilesKept(v, s) ==
  v \notin tainted =>
    /\ FilesApart(s.tab)
    /\ \A e \in Held(s.tab) : s.tab[e].done => Kept(MembersOf[v], s.tab[e])
    /\ s.pc = "copy" => \A i \in 1 .. s.next - 1 : BlockKept(MembersOf[v], s.tab[s.job], i)
CopyGoes(s) ==
  s.pc = "copy" =>
    ~s.tab[s.job].done /\ s.next <= Chunks(s.tab[s.job]) + 1 /\ TableChunkOf(s.job) \in s.modified
TableRead(v, s) == \A e \in Entry : TableChunkOf(e) \notin s.modified => s.tab[e] = Read(v, TableOn(MembersOf[v])[e], e)
Registered(v, s) == v \notin faulted => Orderly(s.tab) /\ Sorted(s.al) /\ HasFiles(s.al, s.tab)
InMemory(v) == FilesKept(v, ad) /\ CopyGoes(ad) /\ TableRead(v, ad) /\ Registered(v, ad)
ContentsInv ==
  /\ tainted \subseteq faulted
  /\ \A v \in Volume : Mountable(v) => IF ad.members = MembersOf[v] THEN InMemory(v) ELSE OnDisk(v)

LEMMA SpanIs ==
  ASSUME VolumeAssumption, NEW h \in Entries
  PROVE  /\ Span(h) \in AreaSet /\ Span(h).start = h.at /\ Span(h).end = h.at + Chunks(h) /\ h.at + Chunks(h) >= h.at
         /\ h.at \in Nat /\ Chunks(h) \in Nat /\ (~IsFree(h) => h.at >= Meta)
<1>1. h.at \in Nat /\ Chunks(h) \in Nat /\ (~IsFree(h) => h.at >= Meta)
  BY HeldAt
<1>2. QED
  BY <1>1, AreaIs DEF Span

-----------------------------------------------------------------------------
(* Ranges in order.  What the first fit finds ends before whatever starts  *)
(* behind it, and there is nothing it would share a chunk with.            *)
LEMMA RangeFacts ==
  ASSUME NEW al \in Seq(AreaSet), Sorted(al)
  PROVE  /\ DOMAIN al = 1 .. Len(al) /\ Len(al) \in Nat
         /\ \A k \in DOMAIN al : /\ al[k] \in AreaSet /\ al[k].start \in Nat /\ al[k].end \in Nat
                                 /\ al[k].start <= al[k].end /\ al[k].end <= FarAway
         /\ \A k, l \in DOMAIN al : k < l => al[k].start <= al[l].start /\ Clear(al[k], al[l])
<1>1. DOMAIN al = 1 .. Len(al) /\ Len(al) \in Nat
  OBVIOUS
<1>2. \A k \in DOMAIN al : al[k] \in AreaSet
  BY <1>1
<1>3. \A x \in AreaSet : x.start \in Nat /\ x.end \in Nat
  BY DEF AreaSet
<1>4. QED
  BY <1>1, <1>2, <1>3 DEF Sorted

(* Two ranges of which one starts behind the end of a third, that starts   *)
(* no later than the other.                                                *)
LEMMA Behind ==
  ASSUME NEW ps \in Nat, NEW pe \in Nat, NEW is \in Nat, NEW ie \in Nat, NEW ks \in Nat, NEW ke \in Nat,
         ps <= pe, is > pe, is <= ie, ks <= ps, ke <= is \/ ie <= ks
  PROVE  ke <= is
  OBVIOUS

LEMMA FoundIsClear ==
  ASSUME NEW al \in Seq(AreaSet), Sorted(al), FarAway \in Nat, NEW bound \in Nat, bound <= FarAway,
         NEW size \in Nat, NEW at, at = FindFirst(al, bound, size), at # 0, at < bound
  PROVE  /\ at \in Nat /\ at + size <= FarAway
         /\ \A k \in DOMAIN al : al[k].end <= at \/ at + size <= al[k].start
<1>1. /\ al \in Seq(AreaSet) /\ DOMAIN al = 1 .. Len(al) /\ Len(al) \in Nat
      /\ \A k \in DOMAIN al : al[k].start \in Nat /\ al[k].end \in Nat /\ al[k].start <= al[k].end /\ al[k].end <= FarAway
      /\ FarAway \in Nat
  BY RangeFacts
<1>2. \A k, l \in DOMAIN al : k < l => al[k].start <= al[l].start /\ (al[k].end <= al[l].start \/ al[l].end <= al[k].start)
  BY <1>1, RangeFacts DEF Clear
<1>3. PICK i \in 1 .. Len(al) : at = FreeStart(al, i) /\ i \in Runs(al) /\ Fits(al, i, bound, size)
  BY <1>1, FoundRun
<1>4. PICK r \in i .. Len(al) : r = RunEnd(al, i) /\ (r < Len(al) => al[r + 1].start > al[r].end)
  BY <1>1, <1>3, RunEndIs
<1>5. at \in Nat /\ \A k \in i .. r : al[k].end <= at
  BY <1>1, <1>3, <1>4, FreeStartIs
<1>6. PICK m \in i .. r : al[m].end = at
  BY <1>1, <1>3, <1>4, FreeStartIs
<1>7. ASSUME NEW k \in DOMAIN al, k < i PROVE al[k].end <= at
  <2>1. PICK j \in 1 .. i - 1 : RunEnd(al, j) = i - 1
    BY <1>1, <1>3, <1>7 DEF Runs
  <2>2. i - 1 \in DOMAIN al /\ i \in DOMAIN al /\ i - 1 < Len(al) /\ j \in 1 .. Len(al)
    BY <1>1, <1>3, <1>7
  <2>3. al[i].start > al[i - 1].end
    <3>1. RunEnd(al, j) + 1 = i
      BY <1>3, <2>1
    <3>2. QED
      BY <1>1, <2>1, <2>2, <3>1, RunEndIs
  <2>4. al[k].start <= al[i - 1].start
    <3>1. k = i - 1 \/ k < i - 1
      BY <1>1, <1>3, <1>7
    <3>2. QED
      BY <1>1, <1>2, <2>2, <3>1
  <2>5. al[k].end <= al[i].start \/ al[i].end <= al[k].start
    BY <1>2, <1>7, <2>2
  <2>6. al[i].end <= at
    BY <1>3, <1>4, <1>5
  <2>7. /\ al[k].start \in Nat /\ al[k].end \in Nat /\ al[i].start \in Nat /\ al[i].end \in Nat
        /\ al[i - 1].start \in Nat /\ al[i - 1].end \in Nat
        /\ al[i].start <= al[i].end /\ al[i - 1].start <= al[i - 1].end
    BY <1>1, <2>2
  <2>8. at \in Nat /\ i \in Nat /\ k \in Nat /\ i - 1 \in Nat
    BY <1>5, <1>1, <2>2
  <2>9. al[k].end <= al[i].start
    <3>1. PICK x : x = al[k]
      OBVIOUS
    <3>2. PICK y : y = al[i - 1]
      OBVIOUS
    <3>3. PICK z : z = al[i]
      OBVIOUS
    <3>4. /\ x.start \in Nat /\ x.end \in Nat /\ y.start \in Nat /\ y.end \in Nat /\ z.start \in Nat /\ z.end \in Nat
          /\ y.start <= y.end /\ z.start <= z.end /\ z.start > y.end /\ x.start <= y.start
          /\ (x.end <= z.start \/ z.end <= x.start)
      BY <2>3, <2>4, <2>5, <2>7, <3>1, <3>2, <3>3
    <3>5. x.end <= z.start
      BY <3>4, Behind
    <3>6. QED
      BY <3>1, <3>3, <3>5
  <2>10. QED
    BY <2>6, <2>7, <2>8, <2>9, SMTT(30)
<1>8. ASSUME r < Len(al) PROVE at + size <= al[r + 1].start
  <2>1. r \in DOMAIN al /\ r + 1 \in DOMAIN al /\ m \in DOMAIN al
    BY <1>1, <1>3, <1>4, <1>6, <1>8
  <2>2. at <= al[r + 1].start
    <3>1. CASE m = r
      BY <1>1, <1>4, <1>6, <1>8, <2>1, <3>1
    <3>2. CASE m # r
      <4>1. m < r /\ m < r + 1
        BY <1>4, <1>6, <3>2
      <4>2. al[m].start <= al[r].start /\ (al[m].end <= al[r + 1].start \/ al[r + 1].end <= al[m].start)
        BY <1>2, <2>1, <4>1
      <4>3. /\ al[m].start \in Nat /\ al[m].end \in Nat /\ al[r].start \in Nat /\ al[r].end \in Nat
            /\ al[r + 1].start \in Nat /\ al[r + 1].end \in Nat
            /\ al[r].start <= al[r].end /\ al[r + 1].start <= al[r + 1].end
            /\ r \in Nat /\ m \in Nat
        BY <1>1, <2>1
      <4>4. al[r + 1].start > al[r].end
        BY <1>4, <1>8
      <4>5. al[m].end <= al[r + 1].start
        <5>1. PICK x \in AreaSet : x = al[m] /\ x.start = al[m].start
          BY <1>1, <2>1
        <5>2. PICK y : y = al[r]
          OBVIOUS
        <5>3. PICK z : z = al[r + 1]
          OBVIOUS
        <5>4. /\ x.start \in Nat /\ x.end \in Nat /\ y.start \in Nat /\ y.end \in Nat /\ z.start \in Nat /\ z.end \in Nat
              /\ y.start <= y.end /\ z.start <= z.end /\ z.start > y.end /\ x.start <= y.start
              /\ (x.end <= z.start \/ z.end <= x.start)
          BY <4>2, <4>3, <4>4, <5>1, <5>2, <5>3
        <5>5. x.end <= z.start
          BY <5>4, Behind
        <5>6. QED
          BY <5>1, <5>3, <5>5
      <4>6. QED
        BY <1>6, <4>5
    <3>3. QED
      BY <3>1, <3>2
  <2>3. FreeEnd(al, i, bound) = al[r + 1].start
    BY <1>4, <1>8 DEF FreeEnd
  <2>4. al[r + 1].start - at < 0 \/ al[r + 1].start - at >= size
    BY <1>3, <2>3 DEF Fits
  <2>5. QED
    BY <1>1, <1>5, <2>1, <2>2, <2>4
<1>9. ASSUME NEW k \in DOMAIN al, k > r PROVE at + size <= al[k].start
  <2>1. r < Len(al) /\ r + 1 \in DOMAIN al
    BY <1>1, <1>3, <1>4, <1>9
  <2>2. al[r + 1].start <= al[k].start
    <3>1. k = r + 1 \/ r + 1 < k
      BY <1>1, <1>4, <1>9
    <3>2. QED
      BY <1>1, <1>2, <2>1, <3>1
  <2>3. at + size <= al[r + 1].start /\ al[r + 1].start \in Nat /\ al[k].start \in Nat /\ at \in Nat
    BY <1>1, <1>5, <1>8, <2>1
  <2>4. QED
    BY <2>2, <2>3
<1>10. at + size <= FarAway
  <2>1. CASE r < Len(al)
    <3>1. r + 1 \in DOMAIN al
      BY <1>1, <1>3, <1>4, <2>1
    <3>2. at + size <= al[r + 1].start /\ al[r + 1].start \in Nat /\ al[r + 1].end \in Nat /\ at \in Nat
          /\ al[r + 1].start <= al[r + 1].end /\ al[r + 1].end <= FarAway /\ FarAway \in Nat
      BY <1>1, <1>5, <1>8, <2>1, <3>1
    <3>3. QED
      BY <3>2
  <2>2. CASE ~(r < Len(al))
    <3>1. FreeEnd(al, i, bound) = bound
      BY <1>4, <2>2 DEF FreeEnd
    <3>2. bound - at < 0 \/ bound - at >= size
      BY <1>3, <3>1 DEF Fits
    <3>3. QED
      BY <1>1, <1>5, <3>2
  <2>3. QED
    BY <2>1, <2>2
<1>11. ASSUME NEW k \in DOMAIN al PROVE al[k].end <= at \/ at + size <= al[k].start
  <2>1. k < i \/ k \in i .. r \/ k > r
    BY <1>1, <1>3, <1>4
  <2>2. QED
    BY <2>1, <1>5, <1>7, <1>9
<1>12. QED
  BY <1>5, <1>10, <1>11

(* A range that is clear of the others is put in its place.                *)
Ranged(al, a, r) ==
  /\ r \in Seq(AreaSet) /\ Sorted(r)
  /\ \E i \in DOMAIN r : r[i] = a
  /\ \A i \in DOMAIN al : \E j \in DOMAIN r : r[j] = al[i]
  /\ \A j \in DOMAIN r : r[j] = a \/ \E i \in DOMAIN al : r[j] = al[i]

LEMMA SortedRegister ==
  ASSUME NEW al \in Seq(AreaSet), Sorted(al), NEW start \in Nat, NEW len \in Nat, FarAway \in Nat,
         start + len <= FarAway, \A i \in DOMAIN al : Clear(al[i], Area(start, len))
  PROVE  Ranged(al, Area(start, len), Register(al, start, len))
<1>1. PICK a \in AreaSet : a = Area(start, len) /\ a.start = start /\ a.end = start + len /\ a.start <= a.end
  BY AreaIs, ZenonT(40)
<1>2. PICK i \in 1 .. Len(al) + 1 :
        /\ Register(al, start, len) = InsertAt(al, i, a)
        /\ i = Len(al) + 1 => \A j \in DOMAIN al : ~(al[j].start > start)
        /\ i # Len(al) + 1 => al[i].start > start
        /\ \A j \in 1 .. i - 1 : ~(al[j].start > start)
  BY <1>1, RegisterIs
<1>3. PICK r : r = Register(al, start, len)
  OBVIOUS
<1>4. r \in Seq(AreaSet) /\ Len(r) = Len(al) + 1
      /\ \A k \in 1 .. Len(al) + 1 : r[k] = IF k < i THEN al[k] ELSE IF k = i THEN a ELSE al[k - 1]
  <2>1. r = InsertAt(al, i, a)
    BY <1>2, <1>3
  <2>2. Inserted(al, i, a, r)
    BY <2>1, AreaInserted, Zenon
  <2>3. QED
    BY <2>2 DEF Inserted
<1>5. /\ DOMAIN al = 1 .. Len(al) /\ Len(al) \in Nat /\ DOMAIN r = 1 .. Len(al) + 1
      /\ \A k \in DOMAIN al : al[k].start \in Nat /\ al[k].end \in Nat /\ al[k].start <= al[k].end /\ al[k].end <= FarAway
  BY <1>4, RangeFacts
<1>6. \A k, l \in DOMAIN al : k < l => al[k].start <= al[l].start /\ Clear(al[k], al[l])
  BY RangeFacts
<1>7. \A k \in DOMAIN r : /\ k < i => k \in DOMAIN al /\ r[k] = al[k]
                          /\ k = i => r[k] = a
                          /\ k > i => k - 1 \in DOMAIN al /\ r[k] = al[k - 1]
  BY <1>2, <1>4, <1>5
<1>8. ASSUME NEW k \in DOMAIN al, k >= i PROVE al[k].start >= start
  <2>1. i # Len(al) + 1 /\ i \in DOMAIN al /\ al[i].start > start
    BY <1>2, <1>5, <1>8
  <2>2. k = i \/ i < k
    BY <1>5, <1>8
  <2>3. QED
    BY <1>5, <1>6, <2>1, <2>2
<1>9. ASSUME NEW k \in DOMAIN al, k < i PROVE al[k].start <= start
  BY <1>2, <1>5, <1>9
<1>10. ASSUME NEW k \in DOMAIN r, NEW l \in DOMAIN r, k < l
       PROVE  r[k].start <= r[l].start /\ Clear(r[k], r[l])
  <2>1. CASE l < i
    BY <1>5, <1>6, <1>7, <1>10, <2>1
  <2>2. CASE l = i
    <3>1. r[k] = al[k] /\ k \in DOMAIN al /\ r[l] = a /\ k < i
      BY <1>7, <1>10, <2>2
    <3>2. Clear(al[k], a)
      BY <1>1, <3>1
    <3>3. QED
      BY <1>1, <1>9, <3>1, <3>2
  <2>3. CASE l > i /\ k = i
    <3>1. r[k] = a /\ r[l] = al[l - 1] /\ l - 1 \in DOMAIN al /\ l - 1 >= i
      BY <1>2, <1>5, <1>7, <2>3
    <3>2. Clear(al[l - 1], a)
      BY <1>1, <3>1
    <3>3. QED
      BY <1>1, <1>8, <3>1, <3>2 DEF Clear
  <2>4. CASE l > i /\ k < i
    <3>1. r[k] = al[k] /\ k \in DOMAIN al /\ r[l] = al[l - 1] /\ l - 1 \in DOMAIN al /\ k < l - 1
      BY <1>2, <1>5, <1>7, <2>4
    <3>2. QED
      BY <1>6, <3>1
  <2>5. CASE k > i
    <3>1. r[k] = al[k - 1] /\ k - 1 \in DOMAIN al /\ r[l] = al[l - 1] /\ l - 1 \in DOMAIN al /\ k - 1 < l - 1
      BY <1>2, <1>5, <1>7, <1>10, <2>5
    <3>2. QED
      BY <1>6, <3>1
  <2>6. QED
    BY <1>2, <1>5, <2>1, <2>2, <2>3, <2>4, <2>5
<1>11. ASSUME NEW k \in DOMAIN r PROVE r[k].start <= r[k].end /\ r[k].end <= FarAway
  <2>1. r[k] = a \/ \E j \in DOMAIN al : r[k] = al[j]
    BY <1>2, <1>5, <1>7
  <2>2. QED
    BY <1>1, <1>5, <2>1
<1>12. Sorted(r)
  BY <1>10, <1>11 DEF Sorted
<1>13. i \in DOMAIN r /\ r[i] = a
  BY <1>5, <1>7
<1>14. ASSUME NEW k \in DOMAIN al PROVE \E j \in DOMAIN r : r[j] = al[k]
  <2>1. CASE k < i
    <3>1. k \in DOMAIN r /\ r[k] = al[k]
      BY <1>5, <1>7, <2>1
    <3>2. QED
      BY <3>1
  <2>2. CASE ~(k < i)
    <3>1. k + 1 \in DOMAIN r /\ k + 1 > i /\ (k + 1) - 1 = k
      BY <1>5, <2>2
    <3>2. r[k + 1] = al[k]
      BY <1>7, <3>1
    <3>3. QED
      BY <3>1, <3>2
  <2>3. QED
    BY <2>1, <2>2
<1>15. ASSUME NEW j \in DOMAIN r PROVE r[j] = a \/ \E k \in DOMAIN al : r[j] = al[k]
  BY <1>2, <1>5, <1>7
<1>16. Ranged(al, a, r)
  BY <1>4, <1>12, <1>13, <1>14, <1>15 DEF Ranged
<1>17. QED
  BY <1>1, <1>3, <1>16

(* A range that is taken out.                                              *)
LEMMA SortedUnregister ==
  ASSUME NEW al \in Seq(AreaSet), Sorted(al), NEW start \in Nat, NEW len \in Nat
  PROVE  LET r == Unregister(al, start, len)
         IN  /\ Sorted(r)
             /\ \A i \in DOMAIN al : al[i] # Area(start, len) => \E j \in DOMAIN r : r[j] = al[i]
<1> DEFINE same == {i \in DOMAIN al : al[i] = Area(start, len)}
<1>1. CASE same = {}
  BY <1>1 DEF Unregister
<1>2. CASE same # {}
  <2>1. same \subseteq Nat
    OBVIOUS
  <2>2. PICK i \in same : \A j \in same : i <= j
    BY <1>2, <2>1, NatLeast
  <2>3. PICK k \in same : k = CHOOSE x \in same : \A j \in same : x <= j
    BY <2>2
  <2>4. PICK r : r = RemoveAt(al, k)
    OBVIOUS
  <2>5. Unregister(al, start, len) = r
    BY <1>2, <2>3, <2>4 DEF Unregister
  <2>6. k \in 1 .. Len(al) /\ al[k] = Area(start, len) /\ DOMAIN al = 1 .. Len(al) /\ Len(al) \in Nat
    OBVIOUS
  <2> HIDE DEF same
  <2>7. /\ r \in Seq(AreaSet) /\ Len(r) = Len(al) - 1
        /\ \A j \in 1 .. Len(al) - 1 : r[j] = IF j < k THEN al[j] ELSE al[j + 1]
    BY <2>4, <2>6, AreaRemoved DEF Removed
  <2>8. PICK o : o = [j \in DOMAIN r |-> IF j < k THEN j ELSE j + 1]
    OBVIOUS
  <2>9. /\ \A j \in DOMAIN r : o[j] \in DOMAIN al /\ r[j] = al[o[j]]
        /\ \A j, l \in DOMAIN r : j < l => o[j] < o[l]
    <3>1. PICK n \in Nat : n = Len(al)
      BY <2>6
    <3>2. k \in 1 .. n /\ DOMAIN al = 1 .. n /\ DOMAIN r = 1 .. n - 1
      BY <2>6, <2>7, <3>1
    <3>3. ASSUME NEW j \in DOMAIN r PROVE o[j] \in DOMAIN al /\ r[j] = al[o[j]]
      <4>1. j \in DOMAIN al /\ j + 1 \in DOMAIN al
        BY <3>2
      <4>2. r[j] = IF j < k THEN al[j] ELSE al[j + 1]
        BY <2>7, <3>1, <3>2
      <4>3. o[j] = IF j < k THEN j ELSE j + 1
        BY <2>8
      <4>4. QED
        BY <4>1, <4>2, <4>3
    <3>4. ASSUME NEW j \in DOMAIN r, NEW l \in DOMAIN r, j < l PROVE o[j] < o[l]
      <4>1. o[j] = (IF j < k THEN j ELSE j + 1) /\ o[l] = (IF l < k THEN l ELSE l + 1)
        BY <2>8
      <4>2. j \in Nat /\ l \in Nat /\ k \in Nat
        BY <3>2
      <4>3. QED
        BY <3>4, <4>1, <4>2
    <3>5. QED
      BY <3>3, <3>4
  <2>10. Sorted(r)
    BY <2>9 DEF Sorted
  <2>11. ASSUME NEW l \in DOMAIN al, al[l] # Area(start, len) PROVE \E j \in DOMAIN r : r[j] = al[l]
    <3>1. l # k
      BY <2>6, <2>11
    <3>2. CASE l < k
      <4>1. l \in DOMAIN r /\ r[l] = al[l]
        BY <2>6, <2>7, <3>2
      <4>2. QED
        BY <4>1
    <3>3. CASE l > k
      <4>1. l - 1 \in DOMAIN r /\ r[l - 1] = al[l]
        BY <2>6, <2>7, <3>3
      <4>2. QED
        BY <4>1
    <3>4. QED
      BY <2>6, <3>1, <3>2, <3>3
  <2>12. QED
    BY <2>5, <2>10, <2>11
<1>3. QED
  BY <1>1, <1>2

(* The ranges a session starts with, if the entries are orderly.           *)
LEMMA HeldSpan ==
  ASSUME VolumeAssumption, NEW tab \in [Entry -> Entries], Orderly(tab), NEW e \in Held(tab)
  PROVE  /\ e \in Entry /\ tab[e] \in Entries /\ ~IsFree(tab[e])
         /\ tab[e].at \in Nat /\ tab[e].at >= Meta /\ Chunks(tab[e]) \in Nat
         /\ tab[e].at + Chunks(tab[e]) <= FarAway
         /\ Span(tab[e]).start = tab[e].at /\ Span(tab[e]).end = tab[e].at + Chunks(tab[e])
         /\ (IsFile(tab[e]) \/ Chunks(tab[e]) = 0)
<1>1. e \in Entry /\ ~IsFree(tab[e])
  BY DEF Held
<1>2. PICK h \in Entries : h = tab[e]
  BY <1>1
<1>3. Span(h).start = h.at /\ Span(h).end = h.at + Chunks(h) /\ h.at \in Nat /\ Chunks(h) \in Nat /\ h.at >= Meta
  BY <1>1, <1>2, SpanIs
<1>4. IsFile(h) \/ Chunks(h) = 0
  BY DEF IsFile, Chunks
<1>5. IF IsFile(h) THEN Span(h).end <= FarAway ELSE h.at = FarAway
  BY <1>2 DEF Orderly
<1>6. FarAway \in Nat
  BY DEF VolumeAssumption
<1>7. h.at + Chunks(h) <= FarAway
  BY <1>3, <1>4, <1>5, <1>6
<1>8. QED
  BY <1>1, <1>2, <1>3, <1>4, <1>7

RangesSoFar(al, tab, k) ==
  /\ al \in Seq(AreaSet) /\ Sorted(al)
  /\ \A e \in Held(tab) : e < k => \E i \in DOMAIN al : al[i] = Span(tab[e])
  /\ \A i \in DOMAIN al : al[i].end <= Meta \/ \E e \in Held(tab) : e < k /\ al[i] = Span(tab[e])

LEMMA MetaSoFar ==
  ASSUME VolumeAssumption, NEW tab \in [Entry -> Entries]
  PROVE  RangesSoFar(MetaOnly, tab, 0)
<1>1. Meta \in Nat /\ Meta >= 2 /\ HtableChunks(NbEntry, PerChunk) = Meta - 2
  BY MetaFacts
<1>2. FarAway \in Nat /\ Meta <= FarAway
  BY DEF VolumeAssumption, Meta
<1>3. PICK s \in Seq(AreaSet) : s = << >> /\ DOMAIN s = {}
  <2>1. << >> \in Seq(AreaSet) /\ DOMAIN << >> = {}
    OBVIOUS
  <2>2. QED
    BY <2>1
<1>4. Sorted(s)
  BY <1>3 DEF Sorted
<1>5. PICK r : r = Register(s, 0, 2)
  OBVIOUS
<1>6. r \in Seq(AreaSet) /\ Sorted(r) /\ \A j \in DOMAIN r : r[j] = Area(0, 2)
  <2>1. 0 + 2 <= FarAway
    BY <1>1, <1>2
  <2>2. \A i \in DOMAIN s : Clear(s[i], Area(0, 2))
    BY <1>3
  <2>3. Ranged(s, Area(0, 2), Register(s, 0, 2))
    BY <1>2, <1>4, <2>1, <2>2, SortedRegister
  <2>4. QED
    BY <1>3, <1>5, <2>3 DEF Ranged
<1>7. PICK m \in Nat : m = Meta - 2 /\ m = HtableChunks(NbEntry, PerChunk) /\ 2 + m = Meta
  BY <1>1
<1>8. Clear(Area(0, 2), Area(2, m))
  BY DEF Clear, Area
<1>9. PICK q : q = Register(r, 2, m)
  OBVIOUS
<1>10. q \in Seq(AreaSet) /\ Sorted(q) /\ \A j \in DOMAIN q : q[j] = Area(2, m) \/ q[j] = Area(0, 2)
  <2>1. 2 + m <= FarAway
    BY <1>2, <1>7
  <2>2. \A i \in DOMAIN r : Clear(r[i], Area(2, m))
    BY <1>6, <1>8
  <2>3. r \in Seq(AreaSet) /\ Sorted(r)
    BY <1>6
  <2>4. Ranged(r, Area(2, m), Register(r, 2, m))
    BY <1>2, <2>1, <2>2, <2>3, SortedRegister
  <2>5. /\ q \in Seq(AreaSet) /\ Sorted(q)
        /\ \A j \in DOMAIN q : q[j] = Area(2, m) \/ \E i \in DOMAIN r : q[j] = r[i]
    BY <1>9, <2>4 DEF Ranged
  <2>6. QED
    BY <1>6, <2>5
<1>11. q = MetaOnly
  BY <1>3, <1>5, <1>7, <1>9 DEF MetaOnly
<1>12. \A j \in DOMAIN q : q[j].end <= Meta
  <2>1. Area(2, m).end = Meta
    BY <1>7 DEF Area
  <2>2. Area(0, 2).end = 2
    BY DEF Area
  <2>3. QED
    BY <1>1, <1>10, <2>1, <2>2
<1>13. \A e \in Held(tab) : ~(e < 0)
  <2>1. Held(tab) \subseteq Nat
    BY DEF Held, Entry, VolumeAssumption
  <2>2. QED
    BY <2>1
<1>14. QED
  BY <1>10, <1>11, <1>12, <1>13 DEF RangesSoFar

LEMMA OneMore ==
  ASSUME VolumeAssumption, NEW tab \in [Entry -> Entries], Orderly(tab), NEW k \in Nat, k # 0, k - 1 \in Entry,
         NEW al, RangesSoFar(al, tab, k - 1)
  PROVE  RangesSoFar(NextRanges(tab, al, k), tab, k)
<1>1. al \in Seq(AreaSet) /\ Sorted(al)
  BY DEF RangesSoFar
<1>2. Held(tab) \subseteq Nat
  BY DEF Held, Entry, VolumeAssumption
<1>3. \A e \in Held(tab) : e < k <=> (e = k - 1 \/ e < k - 1)
  BY <1>2
<1>4. CASE IsFree(tab[k - 1])
  <2>1. k - 1 \notin Held(tab) /\ NextRanges(tab, al, k) = al
    BY <1>4 DEF Held, NextRanges
  <2>2. \A e \in Held(tab) : e < k <=> e < k - 1
    BY <1>3, <2>1
  <2>3. QED
    BY <2>1, <2>2 DEF RangesSoFar
<1>5. CASE ~IsFree(tab[k - 1])
  <2>1. PICK d \in Held(tab) : d = k - 1
    BY <1>5 DEF Held
  <2>2. PICK h \in Entries : h = tab[d] /\ h.at \in Nat /\ h.at >= Meta /\ Chunks(h) \in Nat
                             /\ h.at + Chunks(h) <= FarAway /\ Span(h).start = h.at
    BY <2>1, HeldSpan
  <2>3. PICK r : r = Register(al, h.at, Chunks(h))
    OBVIOUS
  <2>4. NextRanges(tab, al, k) = r
    BY <1>5, <2>1, <2>2, <2>3 DEF NextRanges
  <2>5. \A i \in DOMAIN al : Clear(al[i], Span(h))
    <3>1. SUFFICES ASSUME NEW i \in DOMAIN al PROVE Clear(al[i], Span(h))
      OBVIOUS
    <3>2. CASE al[i].end <= Meta
      <4>1. al[i].end \in Nat /\ Meta \in Nat
        BY <1>1, RangeFacts, MetaFacts
      <4>2. al[i].end <= Span(h).start
        BY <2>2, <3>2, <4>1
      <4>3. QED
        BY <4>2 DEF Clear
    <3>3. CASE \E e \in Held(tab) : e < k - 1 /\ al[i] = Span(tab[e])
      <4>1. PICK e \in Held(tab) : e < k - 1 /\ al[i] = Span(tab[e])
        BY <3>3
      <4>2. e # d
        BY <1>2, <2>1, <4>1
      <4>3. QED
        BY <2>1, <2>2, <4>1, <4>2 DEF Orderly
    <3>4. QED
      BY <3>2, <3>3 DEF RangesSoFar
  <2>6. FarAway \in Nat /\ Span(h) = Area(h.at, Chunks(h))
    BY DEF VolumeAssumption, Span
  <2>7. /\ r \in Seq(AreaSet) /\ Sorted(r)
        /\ \E i \in DOMAIN r : r[i] = Span(h)
        /\ \A i \in DOMAIN al : \E j \in DOMAIN r : r[j] = al[i]
        /\ \A j \in DOMAIN r : r[j] = Span(h) \/ \E i \in DOMAIN al : r[j] = al[i]
    <3>1. PICK at \in Nat : at = h.at
      BY <2>2
    <3>2. PICK len \in Nat : len = Chunks(h)
      BY <2>2
    <3>3. at + len <= FarAway /\ Span(h) = Area(at, len) /\ r = Register(al, at, len)
      BY <2>2, <2>3, <2>6, <3>1, <3>2
    <3>4. \A i \in DOMAIN al : Clear(al[i], Area(at, len))
      BY <2>5, <3>3
    <3>5. al \in Seq(AreaSet) /\ Sorted(al) /\ FarAway \in Nat /\ at + len <= FarAway
      BY <1>1, <2>6, <3>3 DEF RangesSoFar
    <3>6. Ranged(al, Area(at, len), Register(al, at, len))
      BY <3>4, <3>5, SortedRegister
    <3>7. QED
      BY <3>3, <3>6 DEF Ranged
  <2>8. ASSUME NEW e \in Held(tab), e < k PROVE \E j \in DOMAIN r : r[j] = Span(tab[e])
    <3>1. CASE e = k - 1
      BY <2>1, <2>2, <2>7, <3>1
    <3>2. CASE e < k - 1
      <4>1. PICK i \in DOMAIN al : al[i] = Span(tab[e])
        BY <3>2 DEF RangesSoFar
      <4>2. QED
        BY <2>7, <4>1
    <3>3. QED
      BY <1>3, <2>8, <3>1, <3>2
  <2>9. ASSUME NEW j \in DOMAIN r PROVE r[j].end <= Meta \/ \E e \in Held(tab) : e < k /\ r[j] = Span(tab[e])
    <3>1. CASE r[j] = Span(h)
      BY <1>3, <2>1, <2>2, <3>1
    <3>2. CASE \E i \in DOMAIN al : r[j] = al[i]
      <4>1. PICK i \in DOMAIN al : r[j] = al[i]
        BY <3>2
      <4>2. al[i].end <= Meta \/ \E e \in Held(tab) : e < k - 1 /\ al[i] = Span(tab[e])
        BY DEF RangesSoFar
      <4>3. QED
        BY <1>3, <4>1, <4>2
    <3>3. QED
      BY <2>7, <3>1, <3>2
  <2>10. QED
    BY <2>4, <2>7, <2>8, <2>9 DEF RangesSoFar
<1>6. QED
  BY <1>4, <1>5

LEMMA RangesSorted ==
  ASSUME VolumeAssumption, NEW tab \in [Entry -> Entries], Orderly(tab)
  PROVE  Sorted(Ranges(tab)) /\ HasFiles(Ranges(tab), tab)
<1>1. PICK N \in Nat : N = NbEntry
  BY DEF VolumeAssumption
<1>2. PICK f : IsRanges(tab, f, N) /\ Ranges(tab) = f[N]
  BY <1>1, RangesAre
<1> DEFINE T == {k \in 0 .. N : ~RangesSoFar(f[k], tab, k)}
<1>3. ASSUME T # {} PROVE FALSE
  <2>1. T \subseteq Nat
    OBVIOUS
  <2>2. PICK k \in T : \A j \in T : k <= j
    BY <1>3, <2>1, NatLeast
  <2>3. k \in 0 .. N /\ f[k] = IF k = 0 THEN MetaOnly ELSE NextRanges(tab, f[k - 1], k)
    BY <1>2 DEF IsRanges
  <2>4. k # 0
    BY <2>3, MetaSoFar
  <2>5. k \in Nat /\ k - 1 \in 0 .. N /\ ~(k <= k - 1) /\ k - 1 \in Entry
    BY <1>1, <2>3, <2>4 DEF Entry
  <2>6. RangesSoFar(f[k - 1], tab, k - 1)
    BY <2>2, <2>5
  <2>7. RangesSoFar(f[k], tab, k)
    BY <2>3, <2>4, <2>5, <2>6, OneMore
  <2>8. QED
    BY <2>7
<1>4. RangesSoFar(f[N], tab, N)
  BY <1>3
<1>5. \A e \in Held(tab) : e < N
  BY <1>1 DEF Held, Entry
<1>6. QED
  BY <1>2, <1>4, <1>5 DEF RangesSoFar, HasFiles

-----------------------------------------------------------------------------
(* Tables whose entries are those of another.                              *)
Alike(g, h) == g.is = h.is /\ g.what = h.what /\ g.at = h.at
Subtable(t, s) == \A e \in Entry : ~IsFree(t[e]) => Alike(t[e], s[e])

LEMMA AlikeSame ==
  ASSUME NEW g, NEW h, Alike(g, h)
  PROVE  /\ (IsFree(g) <=> IsFree(h)) /\ (IsFile(g) <=> IsFile(h))
         /\ Chunks(g) = Chunks(h) /\ Span(g) = Span(h) /\ Digest(g) = Digest(h)
         /\ \A ms : Kept(ms, g) <=> Kept(ms, h)
<1>1. (IsFree(g) <=> IsFree(h)) /\ (IsFile(g) <=> IsFile(h)) /\ Chunks(g) = Chunks(h)
  BY DEF Alike, IsFree, IsFile, Chunks
<1>2. Span(g) = Span(h) /\ Digest(g) = Digest(h)
  BY <1>1 DEF Alike, Span, Digest
<1>3. \A ms : Kept(ms, g) <=> Kept(ms, h)
  BY <1>1 DEF Alike, Kept
<1>4. QED
  BY <1>1, <1>2, <1>3

LEMMA SubtableKeeps ==
  ASSUME NEW s, NEW t, Subtable(t, s)
  PROVE  /\ \A e \in Held(t) : e \in Held(s) /\ Alike(t[e], s[e])
         /\ FilesApart(s) => FilesApart(t)
         /\ Orderly(s) => Orderly(t)
         /\ \A al : HasFiles(al, s) => HasFiles(al, t)
<1>1. \A e \in Held(t) : /\ e \in Held(s) /\ Alike(t[e], s[e])
                         /\ (IsFile(t[e]) <=> IsFile(s[e])) /\ Chunks(t[e]) = Chunks(s[e]) /\ Span(t[e]) = Span(s[e])
                         /\ t[e].at = s[e].at
  <2>1. SUFFICES ASSUME NEW e \in Entry, ~IsFree(t[e])
                 PROVE  /\ ~IsFree(s[e]) /\ Alike(t[e], s[e])
                        /\ (IsFile(t[e]) <=> IsFile(s[e])) /\ Chunks(t[e]) = Chunks(s[e]) /\ Span(t[e]) = Span(s[e])
                        /\ t[e].at = s[e].at
    BY DEF Held
  <2>2. Alike(t[e], s[e])
    BY <2>1 DEF Subtable
  <2>3. QED
    BY <2>1, <2>2, AlikeSame DEF Alike
<1>2. FilesApart(s) => FilesApart(t)
  BY <1>1 DEF FilesApart
<1>3. ASSUME Orderly(s) PROVE Orderly(t)
  <2>1. \A e, f \in Held(t) : e # f => Clear(Span(t[e]), Span(t[f]))
    BY <1>1, <1>3 DEF Orderly
  <2>2. \A e \in Held(t) : IF IsFile(t[e]) THEN Span(t[e]).end <= FarAway ELSE t[e].at = FarAway
    BY <1>1, <1>3 DEF Orderly
  <2>3. \A e, f \in Held(t) :
          IsFile(t[e]) /\ IsFile(t[f]) /\ Chunks(t[e]) = 0 /\ Chunks(t[f]) = 0 => e = f
    BY <1>1, <1>3 DEF Orderly
  <2>4. QED
    BY <2>1, <2>2, <2>3 DEF Orderly
<1>4. \A al : HasFiles(al, s) => HasFiles(al, t)
  BY <1>1 DEF HasFiles
<1>5. QED
  BY <1>1, <1>2, <1>3, <1>4

(* Two entries overlap when their spans do.                                *)
LEMMA OverlapIs ==
  ASSUME VolumeAssumption, NEW tab \in [Entry -> Entries]
  PROVE  Overlap(tab) <=> \E e, f \in Held(tab) : e # f /\ ~Clear(Span(tab[e]), Span(tab[f]))
<1>1. ASSUME NEW e \in Held(tab), NEW f \in Held(tab)
      PROVE  ~Clear(Span(tab[e]), Span(tab[f]))
               <=> tab[e].at < tab[f].at + Chunks(tab[f]) /\ tab[f].at < tab[e].at + Chunks(tab[e])
  <2>1. PICK g \in Entries : g = tab[e]
    BY DEF Held
  <2>2. PICK h \in Entries : h = tab[f]
    BY DEF Held
  <2>3. g.at \in Nat /\ Chunks(g) \in Nat /\ Span(g).start = g.at /\ Span(g).end = g.at + Chunks(g)
    BY SpanIs
  <2>4. h.at \in Nat /\ Chunks(h) \in Nat /\ Span(h).start = h.at /\ Span(h).end = h.at + Chunks(h)
    BY SpanIs
  <2>5. ~Clear(Span(g), Span(h)) <=> g.at < h.at + Chunks(h) /\ h.at < g.at + Chunks(g)
    BY <2>3, <2>4 DEF Clear
  <2>6. QED
    BY <2>1, <2>2, <2>5
<1>2. QED
  BY <1>1 DEF Overlap

LEMMA OverlapNot ==
  ASSUME VolumeAssumption, NEW tab \in [Entry -> Entries]
  PROVE  (Orderly(tab) => ~Overlap(tab)) /\ (~Overlap(tab) => FilesApart(tab))
  BY OverlapIs DEF Orderly, FilesApart

(* An entry that is clear of the others is added.                          *)
LEMMA OrderlyMore ==
  ASSUME NEW s, Orderly(s), NEW e \in Entry, NEW h, ~IsFree(h), NEW t,
         t[e] = h, \A f \in Entry : f # e => t[f] = s[f],
         \A f \in Held(s) : Clear(Span(s[f]), Span(h)),
         IF IsFile(h) THEN Span(h).end <= FarAway ELSE h.at = FarAway,
         IsFile(h) /\ Chunks(h) = 0 => \A f \in Held(s) : ~(IsFile(s[f]) /\ Chunks(s[f]) = 0)
  PROVE  Orderly(t)
<1>1. ASSUME NEW f \in Held(t), f # e PROVE f \in Held(s) /\ t[f] = s[f]
  <2>1. f \in Entry /\ ~IsFree(t[f])
    BY DEF Held
  <2>2. t[f] = s[f]
    BY <1>1, <2>1
  <2>3. QED
    BY <2>1, <2>2 DEF Held
<1>2. ASSUME NEW f \in Held(t), NEW g \in Held(t), f # g PROVE Clear(Span(t[f]), Span(t[g]))
  <2>1. CASE f = e
    <3>1. g \in Held(s) /\ t[g] = s[g]
      BY <1>1, <1>2, <2>1
    <3>2. Clear(Span(t[g]), Span(h))
      BY <3>1
    <3>3. QED
      BY <2>1, <3>2 DEF Clear
  <2>2. CASE g = e
    <3>1. f \in Held(s) /\ t[f] = s[f]
      BY <1>1, <1>2, <2>2
    <3>2. QED
      BY <2>2, <3>1
  <2>3. CASE f # e /\ g # e
    BY <1>1, <1>2, <2>3 DEF Orderly
  <2>4. QED
    BY <2>1, <2>2, <2>3
<1>3. \A f \in Held(t) : IF IsFile(t[f]) THEN Span(t[f]).end <= FarAway ELSE t[f].at = FarAway
  BY <1>1 DEF Orderly
<1>4. ASSUME NEW f \in Held(t), NEW g \in Held(t), IsFile(t[f]), IsFile(t[g]), Chunks(t[f]) = 0, Chunks(t[g]) = 0
      PROVE  f = g
  BY <1>1, <1>4 DEF Orderly
<1>5. QED
  BY <1>2, <1>3, <1>4 DEF Orderly

(* Two files without blocks have the same digest.                          *)
LEMMA EmptyDigest ==
  ASSUME VolumeAssumption, NEW g \in Entries, IsFile(g), Chunks(g) = 0
  PROVE  Digest(g) = << >>
<1>1. g.what \in File /\ g.is = "file"
  BY DEF Entries, IsFile
<1>2. PICK b : b = g.what.blocks
  OBVIOUS
<1>3. b \in Seq({b[i] : i \in DOMAIN b})
  BY <1>1, <1>2 DEF VolumeAssumption
<1>4. Len(b) = 0
  BY <1>1, <1>2 DEF Chunks
<1>5. b = << >>
  BY <1>3, <1>4
<1>6. Front(<< >>) = << >>
  BY DEF Front
<1>7. QED
  BY <1>1, <1>2, <1>5, <1>6 DEF Digest

(* A volume ends before what a link is registered for.                     *)
LEMMA StripesBounded ==
  ASSUME NEW s \in Nat \ {0}, NEW nb \in Nat \ {0}, NEW d \in Nat, nb <= d, NEW far \in Nat, far > s * d
  PROVE  s <= far /\ (s - 1) * nb <= far
<1>1. PICK all \in Nat : all = s * d /\ far > all
  OBVIOUS
<1>2. 1 * s <= d * s /\ nb * s <= d * s
  BY MulMono
<1>3. (s - 1) * nb <= s * nb
  BY MulMono
<1>4. 1 * s = s /\ d * s = s * d /\ nb * s = s * nb
  OBVIOUS
<1>5. PICK x \in Nat : x = (s - 1) * nb
  OBVIOUS
<1>6. PICK y \in Nat : y = s * nb
  OBVIOUS
<1>7. s <= all /\ x <= y /\ y <= all
  BY <1>1, <1>2, <1>3, <1>4, <1>5, <1>6
<1>8. s <= far /\ x <= far
  BY <1>1, <1>7
<1>9. QED
  BY <1>5, <1>8

LEMMA VolBounded ==
  ASSUME VolumeAssumption, NEW v \in Volume, Fitting(MembersOf[v])
  PROVE  VolChunks(MembersOf[v]) \in Nat /\ VolChunks(MembersOf[v]) <= FarAway
<1>1. PICK ms \in Seq(Device) : ms = MembersOf[v] /\ ms # << >> /\ Distinct(ms)
  BY MembersFacts
<1>2. PICK nb \in Nat \ {0} : nb = Len(ms)
  BY <1>1
<1>3. VolChunks(ms) \in Nat
  BY <1>1, VolChunksNat
<1>4. nb <= Cardinality(Device) /\ Cardinality(Device) \in Nat
  <2>1. ms \in Injection(1 .. nb, Device)
    <3>1. DOMAIN ms = 1 .. nb /\ \A i \in 1 .. nb : ms[i] \in Device
      BY <1>2
    <3>2. ms \in [1 .. nb -> Device]
      BY <1>2
    <3>3. IsInjective(ms)
      BY <1>1 DEF VolumeAssumption
    <3>4. QED
      BY <3>2, <3>3 DEF Injection
  <2>2. IsFiniteSet(Device)
    BY DEF VolumeAssumption
  <2>3. Cardinality(1 .. nb) <= Cardinality(Device)
    BY <2>1, <2>2, FS_Injection
  <2>4. Cardinality(1 .. nb) = nb
    <3>1. 1 \in Int /\ nb \in Int
      OBVIOUS
    <3>2. Cardinality(1 .. nb) = IF 1 > nb THEN 0 ELSE nb - 1 + 1
      BY <3>1, FS_Interval
    <3>3. QED
      BY <3>2
  <2>5. Cardinality(Device) \in Nat
    BY <2>2, FS_CardinalityType
  <2>6. QED
    BY <2>3, <2>4, <2>5
<1>5. PICK s \in Nat \ {0} : s = NbStripe /\ s < Word /\ Word \in Nat
  BY DEF VolumeAssumption
<1>6. PICK d \in Nat : d = Cardinality(Device)
  BY <1>4
<1>7. s <= FarAway /\ (s - 1) * nb <= FarAway /\ FarAway \in Nat
  <2>1. FarAway \in Nat /\ FarAway > s * d
    BY <1>5, <1>6 DEF VolumeAssumption
  <2>2. QED
    BY <1>4, <1>6, <2>1, StripesBounded
<1>8. Lay(ms).nb = nb /\ Lay(ms).stripe = 1
  BY <1>2 DEF Lay
<1>9. CASE Combined(Lay(ms))
  <2>1. (VolChunks(ms) + 1) * 1 <= s
    BY <1>1, <1>5, <1>8, <1>9 DEF Fitting, MinMemberSize
  <2>2. PICK c \in Nat : c = VolChunks(ms)
    BY <1>3
  <2>3. c <= FarAway
    BY <1>7, <2>1, <2>2
  <2>4. QED
    BY <1>1, <2>2, <2>3
<1>10. CASE ~Combined(Lay(ms))
  <2>1. VolChunks(ms) = (Wrap(s - 1) \div 1) * nb
    BY <1>5, <1>8, <1>10 DEF ChunkSize, VolChunks, VolSize
  <2>2. Wrap(s - 1) = s - 1 /\ s - 1 \in Nat
    <3>1. Word \in Nat \ {0} /\ s - 1 \in Nat /\ s - 1 < Word
      BY <1>5
    <3>2. QED
      BY <3>1, ModSmall DEF Wrap
  <2>3. VolChunks(ms) = (s - 1) * nb
    BY <2>1, <2>2
  <2>4. QED
    BY <1>1, <1>3, <1>7, <2>3
<1>11. QED
  BY <1>9, <1>10

-----------------------------------------------------------------------------
(* A table that is still on the devices, and its files.                    *)
ChunksSame(v) ==
  \A d \in Nat : d >= 1 /\ d < VolChunks(MembersOf[v]) => Chunk(MembersOf[v], d)' = Chunk(MembersOf[v], d)

LEMMA TableOnSame ==
  ASSUME VolumeAssumption, NEW v \in Volume, Roomy(v),
         \A c \in TableChunks : Chunk(MembersOf[v], c)' = Chunk(MembersOf[v], c)
  PROVE  TableOn(MembersOf[v])' = TableOn(MembersOf[v])
<1>1. \A e \in Entry : Chunk(MembersOf[v], 2 + e \div PerChunk)' = Chunk(MembersOf[v], 2 + e \div PerChunk)
  BY EntryFacts DEF TableChunkOf
<1>2. QED
  BY <1>1 DEF TableOn

LEMMA KeptSame ==
  ASSUME VolumeAssumption, NEW v \in Volume, NEW h \in Entries, ~IsFree(h), Kept(MembersOf[v], h),
         \A d \in Nat : d >= Meta /\ d >= h.at /\ d < h.at + Chunks(h) /\ d < VolChunks(MembersOf[v])
                        => Chunk(MembersOf[v], d)' = Chunk(MembersOf[v], d)
  PROVE  Kept(MembersOf[v], h)'
<1>1. h.at \in Nat /\ h.at >= Meta /\ Chunks(h) \in Nat
  BY SpanIs
<1>2. PICK m \in Nat : m = Meta
  BY MetaFacts
<1>3. ASSUME NEW i \in 1 .. Chunks(h)
      PROVE  /\ h.at + i - 1 < VolChunks(MembersOf[v])
             /\ Chunk(MembersOf[v], h.at + i - 1)' = Data(h.what.blocks[i])
  <2>1. PICK d \in Nat : d = h.at + i - 1 /\ d >= m /\ d >= h.at /\ d < h.at + Chunks(h)
    BY <1>1, <1>2
  <2>2. d < VolChunks(MembersOf[v]) /\ Chunk(MembersOf[v], d) = Data(h.what.blocks[i])
    BY <2>1 DEF Kept
  <2>3. Chunk(MembersOf[v], d)' = Chunk(MembersOf[v], d)
    BY <1>2, <2>1, <2>2
  <2>4. QED
    BY <2>1, <2>2, <2>3
<1>4. QED
  BY <1>3 DEF Kept

LEMMA MetaSmall ==
  ASSUME VolumeAssumption, NEW v \in Volume, Roomy(v), NEW c \in TableChunks
  PROVE  c \in Nat /\ c >= 1 /\ c < Meta /\ c < VolChunks(MembersOf[v])
<1>1. c \in Nat /\ c >= 1 /\ c < VolChunks(MembersOf[v])
  BY MetaChunk
<1>2. Meta \in Nat /\ c \in 2 .. Meta - 1
  BY MetaFacts
<1>3. c < Meta
  <2> HIDE DEF Meta
  <2>1. QED
    BY <1>2
<1>4. QED
  BY <1>1, <1>3

LEMMA OnDiskSame ==
  ASSUME VolumeAssumption, NEW v \in Volume, Roomy(v), ContentsOK(v), OnDisk(v), ChunksSame(v),
         v \notin tainted' => v \notin tainted, v \notin faulted' => v \notin faulted,
         \A e \in Entry : <<v, e>> \notin lost' => <<v, e>> \notin lost
  PROVE  OnDisk(v)'
<1>1. PICK tab : tab = TableOn(MembersOf[v])
  OBVIOUS
<1>2. TableOn(MembersOf[v])' = tab
  <2>1. \A c \in TableChunks : Chunk(MembersOf[v], c)' = Chunk(MembersOf[v], c)
    BY MetaSmall DEF ChunksSame
  <2>2. QED
    BY <1>1, <2>1, TableOnSame
<1>3. \A e \in Entry : tab[e] \in Entries
  BY <1>1, TableOnIs
<1>4. v \notin faulted' => Orderly(tab)
  BY <1>1 DEF OnDisk
<1>5. ASSUME v \notin tainted', NEW e \in Held(tab), tab[e].done, <<v, e>> \notin lost'
      PROVE  Kept(MembersOf[v], tab[e])'
  <2>1. e \in Entry /\ ~IsFree(tab[e])
    BY DEF Held
  <2>2. PICK h \in Entries : h = tab[e]
    BY <1>3, <2>1
  <2>3. Kept(MembersOf[v], h)
    BY <1>1, <1>5, <2>1, <2>2 DEF OnDisk
  <2>4. \A d \in Nat : d >= Meta /\ d < VolChunks(MembersOf[v]) => Chunk(MembersOf[v], d)' = Chunk(MembersOf[v], d)
    <3>1. PICK m \in Nat : m = Meta /\ m >= 2
      BY MetaFacts
    <3>2. \A d \in Nat : d >= m => d >= 1
      BY <3>1
    <3>3. QED
      BY <3>1, <3>2 DEF ChunksSame
  <2>5. Kept(MembersOf[v], h)'
    BY <2>1, <2>2, <2>3, <2>4, KeptSame
  <2>6. QED
    BY <2>2, <2>5
<1>6. QED
  BY <1>2, <1>4, <1>5 DEF OnDisk

-----------------------------------------------------------------------------
(* A session writes to the chunks of its volume, and changes the histories *)
(* of no other.                                                            *)
Touches(v) == disk' = disk \/ \E n \in Nat : \E x : n >= 1 /\ WriteChunk(MembersOf[v], n, x)
GhostsBut(v) ==
  /\ tainted \subseteq tainted' /\ tainted' \subseteq tainted \cup {v}
  /\ faulted \subseteq faulted' /\ faulted' \subseteq faulted \cup {v}
  /\ \A u \in Volume, e \in Entry : u # v => (<<u, e>> \in lost' <=> <<u, e>> \in lost)

LEMMA MountableIs ==
  ASSUME NEW v \in Volume
  PROVE  /\ Mountable(v) <=> Formatted(v) /\ Fitting(MembersOf[v])
         /\ Mountable(v)' <=> Formatted(v)' /\ Fitting(MembersOf[v])
  BY DEF Mountable, Fitting

LEMMA OthersKeep ==
  ASSUME VolumeAssumption, DiskInv, NEW v \in Volume, Formatted(v), Touches(v), GhostsBut(v),
         NEW u \in Volume, u # v, Formatted(u), Fitting(MembersOf[u]), OnDisk(u)
  PROVE  OnDisk(u)'
<1>1. Roomy(u) /\ ContentsOK(u)
  BY FormattedRoomy DEF DiskInv, FormattedOK
<1>2. ChunksSame(u)
  <2>1. CASE disk' = disk
    BY <2>1 DEF ChunksSame, Chunk
  <2>2. ASSUME NEW n \in Nat, NEW x, n >= 1, WriteChunk(MembersOf[v], n, x) PROVE ChunksSame(u)
    <3>1. \A i \in DOMAIN MembersOf[v], j \in DOMAIN MembersOf[u] : MembersOf[v][i] # MembersOf[u][j]
      BY FormattedApart
    <3>2. ASSUME NEW d \in Nat, d >= 1, d < VolChunks(MembersOf[u])
          PROVE  Chunk(MembersOf[u], d)' = Chunk(MembersOf[u], d)
      BY <2>2, <3>1, <3>2, ChunkApart
    <3>3. QED
      BY <3>2 DEF ChunksSame
  <2>3. QED
    BY <2>1, <2>2 DEF Touches
<1>3. /\ u \notin tainted' => u \notin tainted
      /\ u \notin faulted' => u \notin faulted
      /\ \A e \in Entry : <<u, e>> \notin lost' => <<u, e>> \notin lost
  BY DEF GhostsBut
<1>4. QED
  BY <1>1, <1>2, <1>3, OnDiskSame

LEMMA MembersDiffer ==
  ASSUME VolumeAssumption, NEW u \in Volume, NEW v \in Volume, Formatted(u), Formatted(v), u # v
  PROVE  MembersOf[u] # MembersOf[v]
  BY FormattedApart, MembersFacts

LEMMA SessionKeeps ==
  ASSUME VolumeAssumption, DiskInv, ContentsInv, NEW v \in Volume, Formatted(v), Fitting(MembersOf[v]),
         Touches(v), GhostsBut(v), \A u \in Volume : Formatted(u)' <=> Formatted(u),
         ad.members \in {<< >>, MembersOf[v]}, v \in tainted' => v \in faulted',
         \/ ad'.members = MembersOf[v] /\ InMemory(v)'
         \/ ad'.members = << >> /\ OnDisk(v)'
  PROVE  ContentsInv'
<1>1. tainted' \subseteq faulted'
  BY DEF GhostsBut, ContentsInv
<1>2. ASSUME NEW u \in Volume, Mountable(u)'
      PROVE  IF ad'.members = MembersOf[u] THEN InMemory(u)' ELSE OnDisk(u)'
  <2>1. Formatted(u) /\ Fitting(MembersOf[u]) /\ Mountable(u) /\ MembersOf[u] # << >>
    BY <1>2, MountableIs, MembersFacts
  <2>2. CASE u = v
    BY <2>1, <2>2
  <2>3. CASE u # v
    <3>1. MembersOf[u] # MembersOf[v]
      BY <2>1, <2>3, MembersDiffer
    <3>2. OnDisk(u)
      BY <2>1, <3>1 DEF ContentsInv
    <3>3. OnDisk(u)'
      BY <2>1, <2>3, <3>2, OthersKeep
    <3>4. ad'.members # MembersOf[u]
      BY <2>1, <3>1
    <3>5. QED
      BY <3>3, <3>4
  <2>4. QED
    BY <2>2, <2>3
<1>3. QED
  BY <1>1, <1>2 DEF ContentsInv

(* The session after a step, r.                                            *)
LEMMA InMemoryAfter ==
  ASSUME NEW v, NEW r, ad' = r, FilesKept(v, r)', CopyGoes(r), TableRead(v, r)', Registered(v, r)'
  PROVE  InMemory(v)'
<1>1. FilesKept(v, ad)'
  BY DEF FilesKept
<1>2. CopyGoes(ad)'
  BY DEF CopyGoes
<1>3. TableRead(v, ad)'
  BY DEF TableRead
<1>4. Registered(v, ad)'
  BY DEF Registered
<1>5. QED
  BY <1>1, <1>2, <1>3, <1>4 DEF InMemory

(* What a session knows of its volume.                                     *)
SessionOf(v, s) ==
  /\ v \in Volume /\ Formatted(v) /\ Fitting(MembersOf[v]) /\ Roomy(v) /\ ContentsOK(v)
  /\ ad = s /\ s.pc # "idle" /\ s.members = MembersOf[v] /\ VolumeOf(s.members) = v
  /\ s \in Sessions /\ s.tab \in [Entry -> Entries] /\ RangesOK(s.al)
  /\ FilesKept(v, s) /\ CopyGoes(s) /\ TableRead(v, s) /\ Registered(v, s)
  /\ s.pc = "copy" => s.job \in Entry /\ s.tab[s.job].is = "file" /\ s.next >= 1

LEMMA InSessionIs ==
  ASSUME VolumeAssumption, DiskInv, AdOK, ContentsInv, ad.pc # "idle"
  PROVE  \E v, s : SessionOf(v, s)
<1>1. PICK s : s = ad
  OBVIOUS
<1>2. /\ s \in Sessions /\ s.tab \in [Entry -> Entries] /\ RangesOK(s.al)
      /\ s.pc = "copy" => s.job \in Entry /\ s.tab[s.job].is = "file" /\ s.next >= 1
  BY <1>1, SessionFacts DEF InSession
<1>3. PICK v \in Volume : s.members = MembersOf[v] /\ Formatted(v) /\ Fitting(MembersOf[v])
  BY <1>1, SessionFacts DEF InSession
<1>4. Roomy(v) /\ ContentsOK(v)
  BY <1>3, FormattedRoomy DEF DiskInv, FormattedOK
<1>5. VolumeOf(s.members) = v
  <2>1. disk[MembersOf[v][1]][0] = Label(v, 1)
    BY <1>3, MembersFacts DEF Formatted
  <2>2. QED
    BY <1>3, <2>1 DEF Label, VolumeOf
<1>6. InMemory(v)
  BY <1>1, <1>3, MountableIs DEF ContentsInv
<1>7. FilesKept(v, s) /\ CopyGoes(s) /\ TableRead(v, s) /\ Registered(v, s)
  BY <1>1, <1>6 DEF InMemory
<1>8. QED
  BY <1>1, <1>2, <1>3, <1>4, <1>5, <1>7 DEF SessionOf

(* A step of a session that changes neither the devices nor what became of *)
(* the volume.                                                             *)
LEMMA DiskRests ==
  ASSUME disk' = disk
  PROVE  /\ \A v : Touches(v) /\ TableOn(MembersOf[v])' = TableOn(MembersOf[v])
         /\ \A v \in Volume : Formatted(v)' <=> Formatted(v)
         /\ \A v, h : Kept(MembersOf[v], h)' <=> Kept(MembersOf[v], h)
         /\ \A v, h, i : BlockKept(MembersOf[v], h, i)' <=> BlockKept(MembersOf[v], h, i)
<1>1. \A v, c : Chunk(MembersOf[v], c)' = Chunk(MembersOf[v], c)
  BY DEF Chunk
<1>2. \A v : Touches(v) /\ TableOn(MembersOf[v])' = TableOn(MembersOf[v])
  BY <1>1 DEF Touches, TableOn
<1>3. \A v \in Volume : Formatted(v)' <=> Formatted(v)
  BY DEF Formatted
<1>4. \A v, h : Kept(MembersOf[v], h)' <=> Kept(MembersOf[v], h)
  BY <1>1 DEF Kept
<1>5. \A v, h, i : BlockKept(MembersOf[v], h, i)' <=> BlockKept(MembersOf[v], h, i)
  BY <1>1 DEF BlockKept
<1>6. QED
  BY <1>2, <1>3, <1>4, <1>5

-----------------------------------------------------------------------------
(* Each step of a session keeps ContentsInv; those first that leave the    *)
(* devices as they are.                                                    *)
LEMMA QuietKeeps ==
  ASSUME VolumeAssumption, DiskInv, ContentsInv, NEW v, NEW s, SessionOf(v, s),
         disk' = disk, lost' = lost, tainted' \in {tainted, tainted \cup {v}}, faulted' \in {faulted, faulted \cup {v}},
         v \in tainted' => v \in faulted', NEW r, ad' = r, r.members = s.members,
         FilesKept(v, r)', CopyGoes(r), TableRead(v, r)', Registered(v, r)'
  PROVE  ContentsInv'
<1>1. v \in Volume /\ Formatted(v) /\ Fitting(MembersOf[v]) /\ ad.members = MembersOf[v] /\ r.members = MembersOf[v]
  BY DEF SessionOf
<1>2. Touches(v) /\ \A u \in Volume : Formatted(u)' <=> Formatted(u)
  BY DiskRests
<1>3. GhostsBut(v)
  BY DEF GhostsBut
<1>4. InMemory(v)'
  BY InMemoryAfter
<1>5. ad.members \in {<< >>, MembersOf[v]} /\ ad'.members = MembersOf[v]
  BY <1>1
<1>6. QED
  BY <1>1, <1>2, <1>3, <1>4, <1>5, SessionKeeps

LEMMA TableReadStill ==
  ASSUME NEW v, NEW s, NEW r, TableRead(v, s), disk' = disk, lost' = lost, s.modified \subseteq r.modified,
         \A e \in Entry : TableChunkOf(e) \notin r.modified => r.tab[e] = s.tab[e]
  PROVE  TableRead(v, r)'
<1>1. PICK tab : tab = TableOn(MembersOf[v]) /\ TableOn(MembersOf[v])' = tab
  BY DiskRests
<1>2. ASSUME NEW e \in Entry, TableChunkOf(e) \notin r.modified
      PROVE  r.tab[e] = Read(v, tab[e], e)'
  <2>1. s.tab[e] = Read(v, tab[e], e)
    BY <1>1, <1>2 DEF TableRead
  <2>2. Read(v, tab[e], e)' = Read(v, tab[e], e)
    BY DEF Read
  <2>3. QED
    BY <1>2, <2>1, <2>2
<1>3. QED
  BY <1>1, <1>2 DEF TableRead, Read

LEMMA FilesKeptStill ==
  ASSUME NEW v, NEW s, NEW r, FilesKept(v, s), disk' = disk, v \notin tainted' => v \notin tainted /\ FilesApart(r.tab),
         \A e \in Held(r.tab) : r.tab[e].done => e \in Held(s.tab) /\ s.tab[e].done /\ Alike(r.tab[e], s.tab[e]),
         r.pc = "copy" => r.next = 1
  PROVE  FilesKept(v, r)'
<1>1. ASSUME v \notin tainted', NEW e \in Held(r.tab), r.tab[e].done PROVE Kept(MembersOf[v], r.tab[e])'
  <2>1. e \in Held(s.tab) /\ s.tab[e].done /\ Alike(r.tab[e], s.tab[e])
    BY <1>1
  <2>2. Kept(MembersOf[v], s.tab[e])
    BY <1>1, <2>1 DEF FilesKept
  <2>3. Kept(MembersOf[v], r.tab[e])
    BY <2>1, <2>2, AlikeSame
  <2>4. QED
    BY <2>3, DiskRests
<1>2. r.pc = "copy" => 1 .. r.next - 1 = {}
  OBVIOUS
<1>3. QED
  BY <1>1, <1>2 DEF FilesKept

(* An edit marks the table chunk of its entry: what is not marked is as it *)
(* was.                                                                    *)
EditKept(s, e, h, r) ==
  /\ EditOf(s, e, h, r) /\ r.modified = s.modified \cup {TableChunkOf(e)} /\ s.modified \subseteq r.modified
  /\ \A f \in Entry : TableChunkOf(f) \notin r.modified => r.tab[f] = s.tab[f]

LEMMA EditedMore ==
  ASSUME VolumeAssumption, NEW s \in Sessions, s.tab \in [Entry -> Entries], NEW e \in Entry, NEW h \in Entries
  PROVE  EditKept(s, e, h, Edited(s, e, h))
<1>1. PICK r : r = Edited(s, e, h)
  OBVIOUS
<1>2. EditOf(s, e, h, r)
  BY <1>1, EditIs
<1>3. r.modified = s.modified \cup {TableChunkOf(e)}
  BY <1>1 DEF Edited, Sessions
<1>4. \A f \in Entry : f # e => r.tab[f] = s.tab[f]
  BY <1>2 DEF EditOf
<1>5. \A f \in Entry : TableChunkOf(f) \notin r.modified => r.tab[f] = s.tab[f]
  BY <1>3, <1>4
<1>6. s.modified \subseteq r.modified
  BY <1>3
<1>7. EditKept(s, e, h, r)
  BY <1>2, <1>3, <1>5, <1>6 DEF EditKept
<1>8. QED
  BY <1>1, <1>7

LEMMA AddLinkKeeps ==
  ASSUME VolumeAssumption, DiskInv, AdOK, ContentsInv, NEW l \in Link, AddLink(l)
  PROVE  ContentsInv'
<1>1. ad.pc = "ready"
  BY DEF AddLink
<1>2. PICK v, s : SessionOf(v, s)
  BY <1>1, InSessionIs
<1>3. PICK h : h = [is |-> "link", what |-> l, at |-> FarAway, def |-> FALSE, done |-> FALSE]
  OBVIOUS
<1>4. PICK e : e = PlaceFor(h)
  OBVIOUS
<1>5. PICK r : r = Edited(s, e, h)
  OBVIOUS
<1>6. s \in Sessions /\ s.tab \in [Entry -> Entries] /\ ad = s /\ s.pc = "ready"
  BY <1>1, <1>2 DEF SessionOf
<1>7. e # NbEntry /\ ad' = r /\ disk' = disk /\ lost' = lost /\ tainted' = tainted /\ faulted' = faulted
  BY <1>3, <1>4, <1>5, <1>6 DEF AddLink, Edit, Edited
<1>8. FarAway \in Nat /\ FarAway >= Meta
  BY DEF VolumeAssumption, Meta
<1>9. h \in Entries /\ e \in Entry /\ ~IsFree(h) /\ ~IsFile(h) /\ h.at = FarAway /\ Chunks(h) = 0 /\ ~h.done
  BY <1>3, <1>4, <1>7, <1>8, PlaceIs DEF Entries, IsFree, IsFile, Chunks
<1>10. /\ EditOf(s, e, h, r) /\ r.modified = s.modified \cup {TableChunkOf(e)} /\ s.modified \subseteq r.modified
       /\ \A f \in Entry : TableChunkOf(f) \notin r.modified => r.tab[f] = s.tab[f]
  <2>1. s \in Sessions /\ s.tab \in [Entry -> Entries] /\ e \in Entry /\ h \in Entries
    BY <1>6, <1>9
  <2>2. EditKept(s, e, h, Edited(s, e, h))
    BY <2>1, EditedMore
  <2>3. QED
    BY <1>5, <2>2 DEF EditKept
<1>11. /\ r.tab[e] = h /\ \A f \in Entry : f # e => r.tab[f] = s.tab[f]
       /\ r.pc = "ready" /\ r.members = s.members /\ r.al = s.al
  BY <1>6, <1>10 DEF EditOf
<1>12. \A f \in Held(r.tab) : f = e \/ (f \in Held(s.tab) /\ r.tab[f] = s.tab[f])
  BY <1>11 DEF Held
<1>13. FilesKept(v, r)'
  <2>1. FilesApart(s.tab) => FilesApart(r.tab)
    BY <1>9, <1>11, <1>12 DEF FilesApart
  <2>2. \A f \in Held(r.tab) : r.tab[f].done => f \in Held(s.tab) /\ s.tab[f].done /\ Alike(r.tab[f], s.tab[f])
    BY <1>9, <1>11, <1>12 DEF Alike
  <2>3. FilesKept(v, s) /\ (v \notin tainted => FilesApart(s.tab))
    BY <1>2 DEF SessionOf, FilesKept
  <2>4. QED
    BY <1>7, <1>11, <2>1, <2>2, <2>3, FilesKeptStill
<1>14. CopyGoes(r)
  BY <1>11 DEF CopyGoes
<1>15. TableRead(v, r)'
  BY <1>2, <1>7, <1>10, TableReadStill DEF SessionOf
<1>16. Registered(v, r)'
  <2>1. SUFFICES ASSUME v \notin faulted PROVE Orderly(r.tab) /\ Sorted(r.al) /\ HasFiles(r.al, r.tab)
    BY <1>7 DEF Registered
  <2>2. Orderly(s.tab) /\ Sorted(s.al) /\ HasFiles(s.al, s.tab)
    BY <1>2, <2>1 DEF SessionOf, Registered
  <2>3. ASSUME NEW f \in Held(s.tab) PROVE Clear(Span(s.tab[f]), Span(h))
    <3>1. Span(s.tab[f]).end <= FarAway
      BY <1>6, <2>2, HeldSpan
    <3>2. Span(h).start = FarAway
      BY <1>9, SpanIs
    <3>3. QED
      BY <3>1, <3>2 DEF Clear
  <2>4. Orderly(r.tab)
    BY <1>9, <1>11, <2>2, <2>3, OrderlyMore
  <2>5. HasFiles(r.al, r.tab)
    BY <1>9, <1>11, <1>12, <2>2 DEF HasFiles
  <2>6. QED
    BY <1>11, <2>2, <2>4, <2>5
<1>17. v \in tainted' => v \in faulted'
  BY <1>7 DEF ContentsInv
<1>18. QED
  BY <1>2, <1>7, <1>11, <1>13, <1>14, <1>15, <1>16, <1>17, QuietKeeps

(* Flags of entries change.                                                *)
Relabelled(s, r) ==
  /\ s.modified \subseteq r.modified /\ r.members = s.members /\ r.al = s.al
  /\ \A e \in Entry : /\ Alike(r.tab[e], s.tab[e]) /\ r.tab[e].done = s.tab[e].done
                      /\ TableChunkOf(e) \notin r.modified => r.tab[e] = s.tab[e]

LEMMA RelabelKeeps ==
  ASSUME VolumeAssumption, DiskInv, ContentsInv, NEW v, NEW s, SessionOf(v, s),
         UNCHANGED <<disk, lost, tainted, faulted>>, NEW r, ad' = r, Relabelled(s, r), r.pc # "copy"
  PROVE  ContentsInv'
<1>1. disk' = disk /\ lost' = lost /\ tainted' = tainted /\ faulted' = faulted
  OBVIOUS
<1>2. Subtable(r.tab, s.tab)
  BY DEF Relabelled, Subtable
<1>3. \A e \in Held(r.tab) : e \in Held(s.tab) /\ r.tab[e].done = s.tab[e].done /\ Alike(r.tab[e], s.tab[e])
  <2>1. \A e \in Held(r.tab) : e \in Held(s.tab) /\ Alike(r.tab[e], s.tab[e])
    BY <1>2, SubtableKeeps
  <2>2. QED
    BY <2>1 DEF Relabelled, Held
<1>4. FilesKept(v, r)'
  <2>1. FilesKept(v, s) /\ (v \notin tainted => FilesApart(s.tab))
    BY DEF SessionOf, FilesKept
  <2>2. FilesApart(s.tab) => FilesApart(r.tab)
    BY <1>2, SubtableKeeps
  <2>3. \A e \in Held(r.tab) : r.tab[e].done => e \in Held(s.tab) /\ s.tab[e].done /\ Alike(r.tab[e], s.tab[e])
    BY <1>3
  <2>4. QED
    BY <1>1, <2>1, <2>2, <2>3, FilesKeptStill
<1>5. CopyGoes(r)
  BY DEF CopyGoes
<1>6. TableRead(v, r)'
  BY <1>1, TableReadStill DEF SessionOf, Relabelled
<1>7. Registered(v, r)'
  <2>1. SUFFICES ASSUME v \notin faulted PROVE Orderly(r.tab) /\ Sorted(r.al) /\ HasFiles(r.al, r.tab)
    BY <1>1 DEF Registered
  <2>2. Orderly(s.tab) /\ Sorted(s.al) /\ HasFiles(s.al, s.tab)
    BY <2>1 DEF SessionOf, Registered
  <2>3. QED
    BY <1>2, <2>2, SubtableKeeps DEF Relabelled
<1>8. r.members = s.members /\ (v \in tainted' => v \in faulted')
  BY <1>1 DEF Relabelled, ContentsInv
<1>9. QED
  BY <1>1, <1>4, <1>5, <1>6, <1>7, <1>8, QuietKeeps

LEMMA AlikeRefl ==
  ASSUME NEW s
  PROVE  s.modified \subseteq s.modified /\ \A e \in Entry : Alike(s.tab[e], s.tab[e])
  BY DEF Alike

LEMMA UndefaultedMore ==
  ASSUME VolumeAssumption, NEW v, NEW s, SessionOf(v, s), NEW u, u = Undefaulted
  PROVE  /\ Relabelled(s, u) /\ u.pc = s.pc /\ u \in Sessions /\ u.tab \in [Entry -> Entries]
<1>1. s \in Sessions /\ s.tab \in [Entry -> Entries] /\ ad = s
  BY DEF SessionOf
<1>2. CASE s.def = NbEntry
  BY <1>1, <1>2, AlikeRefl DEF Undefaulted, Relabelled
<1>3. CASE s.def # NbEntry
  <2>1. PICK e \in Entry : e = s.def
    BY <1>1, <1>3 DEF Sessions, Entry, VolumeAssumption
  <2>2. PICK g \in Entries : g = s.tab[e]
    BY <1>1
  <2>3. PICK h \in Entries : h = [g EXCEPT !.def = FALSE] /\ Alike(h, g) /\ h.done = g.done
    <3>1. [g EXCEPT !.def = FALSE] \in Entries
      BY DEF Entries
    <3>2. PICK h \in Entries : h = [g EXCEPT !.def = FALSE]
      BY <3>1
    <3>3. h.is = g.is /\ h.what = g.what /\ h.at = g.at /\ h.done = g.done
      BY <3>2 DEF Entries
    <3>4. QED
      BY <3>2, <3>3 DEF Alike
  <2>4. PICK r : r = Edited(s, e, h)
    OBVIOUS
  <2>5. /\ EditOf(s, e, h, r) /\ s.modified \subseteq r.modified
        /\ \A f \in Entry : TableChunkOf(f) \notin r.modified => r.tab[f] = s.tab[f]
    <3>1. s \in Sessions /\ s.tab \in [Entry -> Entries]
      BY <1>1
    <3>2. EditKept(s, e, h, Edited(s, e, h))
      BY <3>1, EditedMore
    <3>3. QED
      BY <2>4, <3>2 DEF EditKept
  <2>6. u = [r EXCEPT !.def = NbEntry]
    BY <1>1, <1>3, <2>1, <2>2, <2>3, <2>4 DEF Undefaulted, Edit, Edited
  <2>7. NbEntry \in 0 .. NbEntry
    BY DEF VolumeAssumption
  <2>8. /\ r \in Sessions /\ r.tab \in [Entry -> Entries] /\ r.pc = s.pc /\ r.members = s.members /\ r.al = s.al
        /\ r.tab[e] = h /\ \A f \in Entry : f # e => r.tab[f] = s.tab[f]
    BY <2>5 DEF EditOf
  <2>9. /\ u \in Sessions /\ u.pc = r.pc /\ u.members = r.members /\ u.al = r.al /\ u.tab = r.tab
        /\ u.modified = r.modified
    BY <2>6, <2>7, <2>8 DEF Sessions
  <2>10. ASSUME NEW f \in Entry PROVE Alike(r.tab[f], s.tab[f]) /\ r.tab[f].done = s.tab[f].done
    <3>1. CASE f = e
      BY <2>2, <2>3, <2>8, <3>1
    <3>2. CASE f # e
      BY <2>8, <3>2 DEF Alike
    <3>3. QED
      BY <3>1, <3>2
  <2>11. QED
    BY <2>5, <2>8, <2>9, <2>10 DEF Relabelled
<1>4. QED
  BY <1>2, <1>3

LEMMA ClearDefaultKeeps ==
  ASSUME VolumeAssumption, DiskInv, AdOK, ContentsInv, ClearDefault
  PROVE  ContentsInv'
<1>1. ad.pc = "ready" /\ ad' = Undefaulted /\ UNCHANGED <<disk, lost, tainted, faulted>>
  BY DEF ClearDefault
<1>2. PICK v, s : SessionOf(v, s)
  BY <1>1, InSessionIs
<1>3. PICK r : r = Undefaulted /\ Relabelled(s, r) /\ r.pc = s.pc
  BY <1>2, UndefaultedMore
<1>4. ad' = r /\ r.pc # "copy"
  BY <1>1, <1>2, <1>3 DEF SessionOf
<1>5. QED
  BY <1>1, <1>2, <1>3, <1>4, RelabelKeeps

LEMMA SetDefaultKeeps ==
  ASSUME VolumeAssumption, DiskInv, AdOK, ContentsInv, NEW e \in Entry, SetDefault(e)
  PROVE  ContentsInv'
<1>1. ad.pc = "ready" /\ UNCHANGED <<disk, lost, tainted, faulted>>
  BY DEF SetDefault
<1>2. PICK v, s : SessionOf(v, s)
  BY <1>1, InSessionIs
<1>3. PICK u \in Sessions : u = Undefaulted /\ Relabelled(s, u) /\ u.pc = s.pc /\ u.tab \in [Entry -> Entries]
  BY <1>2, UndefaultedMore
<1>4. PICK g \in Entries : g = u.tab[e]
  BY <1>3
<1>5. PICK h \in Entries : h = [g EXCEPT !.def = TRUE] /\ Alike(h, g) /\ h.done = g.done
  <2>1. [g EXCEPT !.def = TRUE] \in Entries
    BY DEF Entries
  <2>2. PICK h \in Entries : h = [g EXCEPT !.def = TRUE]
    BY <2>1
  <2>3. h.is = g.is /\ h.what = g.what /\ h.at = g.at /\ h.done = g.done
    BY <2>2 DEF Entries
  <2>4. QED
    BY <2>2, <2>3 DEF Alike
<1>6. PICK r : r = Edited(u, e, h)
  OBVIOUS
<1>7. /\ EditOf(u, e, h, r) /\ u.modified \subseteq r.modified
      /\ \A f \in Entry : TableChunkOf(f) \notin r.modified => r.tab[f] = u.tab[f]
  <2>1. u \in Sessions /\ u.tab \in [Entry -> Entries] /\ e \in Entry /\ h \in Entries
    BY <1>3, <1>5
  <2>2. EditKept(u, e, h, Edited(u, e, h))
    BY <2>1, EditedMore
  <2>3. QED
    BY <1>6, <2>2 DEF EditKept
<1>8. PICK q : q = ad' /\ q = [r EXCEPT !.def = e]
  <2>1. ad' = [u EXCEPT !.tab[e].def = TRUE, !.modified = @ \cup {TableChunkOf(e)}, !.def = e]
    BY <1>3 DEF SetDefault
  <2>2. QED
    BY <1>4, <1>5, <1>6, <2>1 DEF Edited
<1>9. /\ r \in Sessions /\ r.pc = u.pc /\ r.members = u.members /\ r.al = u.al
      /\ r.tab[e] = h /\ \A f \in Entry : f # e => r.tab[f] = u.tab[f]
  BY <1>7 DEF EditOf
<1>10. q.pc = r.pc /\ q.members = r.members /\ q.al = r.al /\ q.tab = r.tab /\ q.modified = r.modified
  BY <1>8, <1>9 DEF Sessions
<1>11. ASSUME NEW f \in Entry
       PROVE  /\ Alike(q.tab[f], s.tab[f]) /\ q.tab[f].done = s.tab[f].done
              /\ TableChunkOf(f) \notin q.modified => q.tab[f] = s.tab[f]
  <2>1. Alike(q.tab[f], u.tab[f]) /\ q.tab[f].done = u.tab[f].done
    <3>1. CASE f = e
      BY <1>4, <1>5, <1>9, <1>10, <3>1
    <3>2. CASE f # e
      BY <1>9, <1>10, <3>2 DEF Alike
    <3>3. QED
      BY <3>1, <3>2
  <2>2. Alike(u.tab[f], s.tab[f]) /\ u.tab[f].done = s.tab[f].done
    BY <1>3 DEF Relabelled
  <2>3. TableChunkOf(f) \notin q.modified => q.tab[f] = s.tab[f]
    BY <1>3, <1>7, <1>10 DEF Relabelled
  <2>4. QED
    BY <2>1, <2>2, <2>3 DEF Alike
<1>12. Relabelled(s, q)
  BY <1>3, <1>7, <1>9, <1>10, <1>11 DEF Relabelled
<1>13. q.pc # "copy" /\ ad' = q
  BY <1>1, <1>2, <1>3, <1>8, <1>9, <1>10 DEF SessionOf
<1>14. QED
  BY <1>1, <1>2, <1>12, <1>13, RelabelKeeps

LEMMA WriteBackBeginKeeps ==
  ASSUME VolumeAssumption, DiskInv, AdOK, ContentsInv, WriteBackBegin
  PROVE  ContentsInv'
<1>1. ad.pc = "ready" /\ UNCHANGED <<disk, lost, tainted, faulted>> /\ ad' = [ad EXCEPT !.pc = "umount"]
  BY DEF WriteBackBegin
<1>2. PICK v, s : SessionOf(v, s)
  BY <1>1, InSessionIs
<1>3. PICK r : r = ad' /\ r = [s EXCEPT !.pc = "umount"]
  BY <1>1, <1>2 DEF SessionOf
<1>4. r.pc = "umount" /\ r.members = s.members /\ r.al = s.al /\ r.tab = s.tab /\ r.modified = s.modified
  BY <1>2, <1>3 DEF SessionOf, Sessions
<1>5. Relabelled(s, r)
  BY <1>4, AlikeRefl DEF Relabelled
<1>6. QED
  BY <1>1, <1>2, <1>3, <1>4, <1>5, RelabelKeeps

LEMMA CopyEndKeeps ==
  ASSUME VolumeAssumption, DiskInv, AdOK, ContentsInv, CopyEnd
  PROVE  ContentsInv'
<1>1. ad.pc = "copy"
  BY DEF CopyEnd
<1>2. PICK v, s : SessionOf(v, s)
  BY <1>1, InSessionIs
<1>3. /\ s \in Sessions /\ s.tab \in [Entry -> Entries] /\ ad = s /\ s.pc = "copy" /\ s.job \in Entry /\ s.next >= 1
      /\ s.tab[s.job].is = "file"
  BY <1>1, <1>2 DEF SessionOf
<1>4. PICK j \in Entry : j = s.job
  BY <1>3
<1>5. PICK g \in Entries : g = s.tab[j]
  BY <1>3
<1>6. PICK h : h = [g EXCEPT !.done = TRUE] /\ Alike(h, g)
  <2>1. PICK h : h = [g EXCEPT !.done = TRUE]
    OBVIOUS
  <2>2. h.is = g.is /\ h.what = g.what /\ h.at = g.at
    BY <2>1 DEF Entries
  <2>3. QED
    BY <2>1, <2>2 DEF Alike
<1>7. PICK t : t = [s.tab EXCEPT ![j] = h]
  OBVIOUS
<1>8. t[j] = h /\ \A f \in Entry : f # j => t[f] = s.tab[f]
  BY <1>3, <1>7
<1>9. PICK r : r = ad' /\ r = [s EXCEPT !.pc = "ready", !.tab = t, !.job = NbEntry, !.next = 0]
  BY <1>3, <1>4, <1>5, <1>6, <1>7 DEF CopyEnd
<1>10. r.pc = "ready" /\ r.tab = t /\ r.members = s.members /\ r.al = s.al /\ r.modified = s.modified
  BY <1>3, <1>9 DEF Sessions
<1>11. UNCHANGED <<disk, lost, tainted, faulted>> /\ s.next > Chunks(g)
  BY <1>3, <1>4, <1>5 DEF CopyEnd, Job
<1>12. s.next = Chunks(g) + 1 /\ TableChunkOf(j) \in s.modified /\ Chunks(g) \in Nat
  <2>1. s.next <= Chunks(g) + 1 /\ TableChunkOf(j) \in s.modified
    BY <1>2, <1>3, <1>4, <1>5 DEF SessionOf, CopyGoes
  <2>2. s.next \in Nat /\ Chunks(g) \in Nat
    BY <1>3, SpanIs DEF Sessions
  <2>3. QED
    BY <1>11, <2>1, <2>2
<1>13. \A f \in Entry : Alike(t[f], s.tab[f]) /\ (f # j => t[f].done = s.tab[f].done)
  <2>1. SUFFICES ASSUME NEW f \in Entry PROVE Alike(t[f], s.tab[f]) /\ (f # j => t[f].done = s.tab[f].done)
    OBVIOUS
  <2>2. CASE f = j
    BY <1>5, <1>6, <1>8, <2>2
  <2>3. CASE f # j
    BY <1>8, <2>3 DEF Alike
  <2>4. QED
    BY <2>2, <2>3
<1>14. Subtable(r.tab, s.tab)
  BY <1>10, <1>13 DEF Subtable
<1>15. FilesKept(v, r)'
  <2>1. SUFFICES ASSUME v \notin tainted
                 PROVE  /\ FilesApart(r.tab)
                        /\ \A e \in Held(r.tab) : r.tab[e].done => Kept(MembersOf[v], r.tab[e])'
    BY <1>10, <1>11 DEF FilesKept
  <2>2. /\ FilesApart(s.tab)
        /\ \A e \in Held(s.tab) : s.tab[e].done => Kept(MembersOf[v], s.tab[e])
        /\ \A i \in 1 .. s.next - 1 : BlockKept(MembersOf[v], s.tab[s.job], i)
    BY <1>2, <1>3, <2>1 DEF SessionOf, FilesKept
  <2>3. FilesApart(r.tab) /\ \A e \in Held(r.tab) : e \in Held(s.tab) /\ Alike(r.tab[e], s.tab[e])
    BY <1>14, <2>2, SubtableKeeps
  <2>4. ASSUME NEW e \in Held(r.tab), r.tab[e].done PROVE Kept(MembersOf[v], s.tab[e])
    <3>1. CASE e = j
      <4>1. \A i \in 1 .. Chunks(g) : BlockKept(MembersOf[v], g, i)
        BY <1>4, <1>5, <1>12, <2>2
      <4>2. Kept(MembersOf[v], g)
        BY <4>1 DEF Kept, BlockKept
      <4>3. QED
        BY <1>5, <3>1, <4>2
    <3>2. CASE e # j
      BY <1>10, <1>13, <2>2, <2>3, <2>4, <3>2 DEF Held
    <3>3. QED
      BY <3>1, <3>2
  <2>5. ASSUME NEW e \in Held(r.tab), r.tab[e].done PROVE Kept(MembersOf[v], r.tab[e])'
    <3>1. Kept(MembersOf[v], r.tab[e])
      BY <2>3, <2>4, <2>5, AlikeSame
    <3>2. QED
      BY <1>11, <3>1, DiskRests
  <2>6. QED
    BY <2>3, <2>5
<1>16. CopyGoes(r)
  BY <1>10 DEF CopyGoes
<1>17. TableRead(v, r)'
  <2>1. \A e \in Entry : TableChunkOf(e) \notin r.modified => r.tab[e] = s.tab[e]
    BY <1>8, <1>10, <1>12
  <2>2. s.modified \subseteq r.modified
    BY <1>10
  <2>3. QED
    BY <1>2, <1>11, <2>1, <2>2, TableReadStill DEF SessionOf
<1>18. Registered(v, r)'
  <2>1. SUFFICES ASSUME v \notin faulted PROVE Orderly(r.tab) /\ Sorted(r.al) /\ HasFiles(r.al, r.tab)
    BY <1>11 DEF Registered
  <2>2. Orderly(s.tab) /\ Sorted(s.al) /\ HasFiles(s.al, s.tab)
    BY <1>2, <2>1 DEF SessionOf, Registered
  <2>3. QED
    BY <1>10, <1>14, <2>2, SubtableKeeps
<1>19. v \in tainted' => v \in faulted'
  BY <1>11 DEF ContentsInv
<1>20. QED
  BY <1>2, <1>9, <1>10, <1>11, <1>15, <1>16, <1>17, <1>18, <1>19, QuietKeeps

LEMMA CopyFailsKeeps ==
  ASSUME VolumeAssumption, DiskInv, AdOK, ContentsInv, CopyFails
  PROVE  ContentsInv'
<1>1. ad.pc = "copy"
  BY DEF CopyFails
<1>2. PICK v, s : SessionOf(v, s)
  BY <1>1, InSessionIs
<1>3. s \in Sessions /\ ad = s /\ VolumeOf(ad.members) = v
  BY <1>2 DEF SessionOf
<1>4. PICK al : al = Unregister(ad.al, Job.at, Chunks(Job))
  OBVIOUS
<1>5. PICK r : r = ad' /\ r = [s EXCEPT !.pc = "ready", !.al = al, !.job = NbEntry, !.next = 0]
  BY <1>3, <1>4 DEF CopyFails
<1>6. r.pc = "ready" /\ r.tab = s.tab /\ r.members = s.members /\ r.modified = s.modified
  BY <1>3, <1>5 DEF Sessions
<1>7. disk' = disk /\ lost' = lost /\ tainted' = tainted /\ faulted' = faulted \cup {v}
  BY <1>3 DEF CopyFails
<1>8. FilesKept(v, r)'
  <2>1. FilesKept(v, s) /\ (v \notin tainted => FilesApart(s.tab))
    BY <1>2 DEF SessionOf, FilesKept
  <2>2. \A e \in Held(r.tab) : r.tab[e].done => e \in Held(s.tab) /\ s.tab[e].done /\ Alike(r.tab[e], s.tab[e])
    BY <1>6 DEF Alike
  <2>3. QED
    BY <1>6, <1>7, <2>1, <2>2, FilesKeptStill
<1>9. CopyGoes(r)
  BY <1>6 DEF CopyGoes
<1>10. TableRead(v, r)'
  BY <1>2, <1>6, <1>7, TableReadStill DEF SessionOf
<1>11. Registered(v, r)'
  BY <1>7 DEF Registered
<1>12. v \in faulted'
  BY <1>7
<1>13. QED
  BY <1>2, <1>5, <1>6, <1>7, <1>8, <1>9, <1>10, <1>11, <1>12, QuietKeeps

(* The container that the first fit finds for a new file.                  *)
LEMMA NewFileClear ==
  ASSUME VolumeAssumption, NEW v, NEW s, SessionOf(v, s), v \notin faulted, NEW n, NEW len \in Nat,
         n = FindFirst(s.al, VolChunks(s.members), len), n # 0, n < VolChunks(s.members),
         NEW h \in Entries, IsFile(h), h.at = n, Chunks(h) = len
  PROVE  /\ Span(h).end <= FarAway
         /\ \A i \in DOMAIN s.al : Clear(s.al[i], Span(h))
         /\ \A f \in Held(s.tab) : Clear(Span(s.tab[f]), Span(h))
<1>1. s.members = MembersOf[v] /\ v \in Volume /\ Fitting(MembersOf[v]) /\ s.tab \in [Entry -> Entries]
  BY DEF SessionOf
<1>2. s.al \in Seq(AreaSet) /\ Sorted(s.al) /\ Orderly(s.tab) /\ HasFiles(s.al, s.tab)
  BY DEF SessionOf, RangesOK, Registered
<1>3. PICK bound \in Nat : bound = VolChunks(s.members) /\ bound <= FarAway
  BY <1>1, VolBounded
<1>4. FarAway \in Nat
  BY DEF VolumeAssumption
<1>5. PICK al \in Seq(AreaSet) : al = s.al /\ Sorted(al)
  BY <1>2
<1>6. n \in Nat /\ n + len <= FarAway /\ \A k \in DOMAIN al : al[k].end <= n \/ n + len <= al[k].start
  <2>1. n = FindFirst(al, bound, len) /\ n < bound
    BY <1>3, <1>5
  <2>2. QED
    BY <1>3, <1>4, <1>5, <2>1, FoundIsClear
<1>7. Span(h).start = n /\ Span(h).end = n + len
  BY SpanIs
<1>8. \A i \in DOMAIN s.al : Clear(s.al[i], Span(h))
  BY <1>5, <1>6, <1>7 DEF Clear
<1>9. ASSUME NEW f \in Held(s.tab) PROVE Clear(Span(s.tab[f]), Span(h))
  <2>1. CASE IsFile(s.tab[f])
    <3>1. PICK i \in DOMAIN s.al : s.al[i] = Span(s.tab[f])
      BY <1>2, <2>1 DEF HasFiles
    <3>2. QED
      BY <1>8, <3>1
  <2>2. CASE ~IsFile(s.tab[f])
    <3>1. Span(s.tab[f]).start = FarAway
      BY <1>1, <1>2, <2>2, HeldSpan DEF Orderly
    <3>2. QED
      BY <1>6, <1>7, <3>1 DEF Clear
  <2>3. QED
    BY <2>1, <2>2
<1>10. QED
  BY <1>6, <1>7, <1>8, <1>9

LEMMA NoOtherEmpty ==
  ASSUME VolumeAssumption, NEW s, ad = s, s.tab \in [Entry -> Entries], NEW h \in Entries, IsFile(h), Chunks(h) = 0,
         PlaceFor(h) # NbEntry
  PROVE  \A f \in Held(s.tab) : ~(IsFile(s.tab[f]) /\ Chunks(s.tab[f]) = 0)
<1>1. SUFFICES ASSUME NEW f \in Held(s.tab), IsFile(s.tab[f]), Chunks(s.tab[f]) = 0 PROVE FALSE
  OBVIOUS
<1>2. PICK g \in Entries : g = s.tab[f]
  BY DEF Held
<1>3. Digest(g) = << >> /\ Digest(h) = << >>
  BY <1>1, <1>2, EmptyDigest
<1>4. PlaceFor(h) = NbEntry
  BY <1>2, <1>3 DEF PlaceFor
<1>5. QED
  BY <1>4

LEMMA PlaceFree ==
  ASSUME VolumeAssumption, NEW h, PlaceFor(h) # NbEntry
  PROVE  PlaceFor(h) \in Entry /\ IsFree(ad.tab[PlaceFor(h)])
<1> DEFINE free == {e \in Entry : IsFree(ad.tab[e])}
<1>1. free # {} /\ PlaceFor(h) = Smallest(free)
  BY DEF PlaceFor
<1>2. free \subseteq Nat /\ free \subseteq Entry /\ \A e \in free : IsFree(ad.tab[e])
  BY DEF Entry, VolumeAssumption
<1> HIDE DEF free
<1>3. PICK e \in free : \A f \in free : e <= f
  BY <1>1, <1>2, NatLeast
<1>4. Smallest(free) \in free
  BY <1>3 DEF Smallest
<1>5. QED
  BY <1>1, <1>2, <1>4

LEMMA AddFileKeeps ==
  ASSUME VolumeAssumption, DiskInv, AdOK, ContentsInv, NEW f \in File, AddFile(f)
  PROVE  ContentsInv'
<1> DEFINE at == FindFree(ad.al, "first fit", VolChunks(ad.members), Len(f.blocks))
<1>1. PICK n : n = FindFirst(ad.al, VolChunks(ad.members), Len(f.blocks)) /\ n = at
  BY FirstFitIs, Zenon
<1>2. PICK h : h = [is |-> "file", what |-> f, at |-> n, def |-> FALSE, done |-> FALSE]
  OBVIOUS
<1>3. PICK e : e = PlaceFor(h)
  OBVIOUS
<1>4. PICK al : al = Reserve(n, Len(f.blocks))
  OBVIOUS
<1>5. /\ ad.pc = "ready" /\ n # 0 /\ n < VolChunks(ad.members) /\ e # NbEntry
      /\ ad' = [Edit(e, h) EXCEPT !.pc = "copy", !.job = e, !.next = 1, !.al = al]
      /\ disk' = disk /\ lost' = lost /\ faulted' = faulted
      /\ tainted' = tainted \cup {v \in {VolumeOf(ad.members)} : Overlap(ad'.tab)}
  BY <1>1, <1>2, <1>3, <1>4, Zenon DEF AddFile
<1> HIDE DEF at
<1>6. PICK v, s : SessionOf(v, s)
  BY <1>5, InSessionIs
<1>7. /\ s \in Sessions /\ s.tab \in [Entry -> Entries] /\ RangesOK(s.al) /\ ad = s /\ VolumeOf(ad.members) = v
      /\ v \in Volume
  BY <1>6 DEF SessionOf
<1>8. PICK len \in Nat : len = Len(f.blocks)
  <2>1. f.blocks \in Seq({f.blocks[i] : i \in DOMAIN f.blocks})
    BY DEF VolumeAssumption
  <2>2. QED
    BY <2>1
<1>9. n \in Nat /\ n >= Meta
  BY <1>1, <1>5, <1>7, FoundFirst
<1>10. h \in Entries /\ ~IsFree(h) /\ IsFile(h) /\ h.at = n /\ Chunks(h) = len /\ ~h.done
  BY <1>2, <1>8, <1>9 DEF Entries, IsFree, IsFile, Chunks
<1>11. e \in Entry /\ IsFree(s.tab[e])
  BY <1>3, <1>5, <1>7, PlaceFree
<1>12. PICK r : r = Edit(e, h) /\ r = Edited(s, e, h)
  BY <1>7 DEF Edit, Edited
<1>13. /\ EditOf(s, e, h, r) /\ r.modified = s.modified \cup {TableChunkOf(e)} /\ s.modified \subseteq r.modified
       /\ \A g \in Entry : TableChunkOf(g) \notin r.modified => r.tab[g] = s.tab[g]
  <2>1. s \in Sessions /\ s.tab \in [Entry -> Entries] /\ e \in Entry /\ h \in Entries
    BY <1>7, <1>10, <1>11
  <2>2. EditKept(s, e, h, Edited(s, e, h))
    BY <2>1, EditedMore
  <2>3. QED
    BY <1>12, <2>2 DEF EditKept
<1>14. /\ r \in Sessions /\ r.tab[e] = h /\ \A g \in Entry : g # e => r.tab[g] = s.tab[g]
       /\ r.members = s.members /\ r.tab \in [Entry -> Entries]
  BY <1>13 DEF EditOf
<1>15. PICK q : q = ad' /\ q = [r EXCEPT !.pc = "copy", !.job = e, !.next = 1, !.al = al]
  BY <1>5, <1>12
<1>16. /\ q.pc = "copy" /\ q.members = s.members /\ q.tab = r.tab /\ q.al = al /\ q.job = e /\ q.next = 1
       /\ q.modified = r.modified
  BY <1>14, <1>15 DEF Sessions
<1>17. ASSUME NEW g \in Held(q.tab), g # e PROVE g \in Held(s.tab) /\ q.tab[g] = s.tab[g]
  BY <1>14, <1>16, <1>17 DEF Held
<1>18. tainted' = tainted \cup {x \in {v} : Overlap(q.tab)}
  BY <1>5, <1>7, <1>15
<1>19. ASSUME v \notin faulted PROVE Orderly(q.tab) /\ Sorted(q.al) /\ HasFiles(q.al, q.tab)
  <2>1. Orderly(s.tab) /\ Sorted(s.al) /\ HasFiles(s.al, s.tab) /\ s.al \in Seq(AreaSet)
    BY <1>6, <1>19 DEF SessionOf, Registered, RangesOK
  <2>2. n = FindFirst(s.al, VolChunks(s.members), len) /\ n < VolChunks(s.members)
    BY <1>1, <1>5, <1>7, <1>8
  <2>3. /\ Span(h).end <= FarAway
        /\ \A i \in DOMAIN s.al : Clear(s.al[i], Span(h))
        /\ \A g \in Held(s.tab) : Clear(Span(s.tab[g]), Span(h))
    BY <1>5, <1>6, <1>10, <1>19, <2>2, NewFileClear
  <2>4. IsFile(h) /\ Chunks(h) = 0 => \A g \in Held(s.tab) : ~(IsFile(s.tab[g]) /\ Chunks(s.tab[g]) = 0)
    BY <1>3, <1>5, <1>7, <1>10, NoOtherEmpty
  <2>5. Orderly(q.tab)
    BY <1>10, <1>11, <1>14, <1>16, <2>1, <2>3, <2>4, OrderlyMore
  <2>6. /\ Sorted(al) /\ \E i \in DOMAIN al : al[i] = Span(h)
        /\ \A i \in DOMAIN s.al : \E j \in DOMAIN al : al[j] = s.al[i]
    <3>1. PICK m \in Nat : m = n
      BY <1>9
    <3>2. al = Register(s.al, m, len) /\ Span(h) = Area(m, len) /\ m + len <= FarAway /\ FarAway \in Nat
      <4>1. Span(h).end = n + len
        BY <1>10, SpanIs
      <4>2. QED
        BY <1>4, <1>7, <1>8, <1>10, <2>3, <3>1, <4>1 DEF Reserve, Span, VolumeAssumption
    <3>3. \A i \in DOMAIN s.al : Clear(s.al[i], Area(m, len))
      BY <2>3, <3>2
    <3>4. PICK a \in Seq(AreaSet) : a = s.al /\ Sorted(a)
      BY <2>1
    <3>5. m + len <= FarAway /\ FarAway \in Nat /\ \A i \in DOMAIN a : Clear(a[i], Area(m, len))
      BY <3>2, <3>3, <3>4
    <3>6. Ranged(a, Area(m, len), Register(a, m, len))
      BY <1>7, <1>9, <3>4, <3>5, SortedRegister
    <3>7. QED
      BY <3>2, <3>4, <3>6 DEF Ranged
  <2>7. ASSUME NEW g \in Held(q.tab), IsFile(q.tab[g]) PROVE \E j \in DOMAIN al : al[j] = Span(q.tab[g])
    <3>1. CASE g = e
      BY <1>14, <1>16, <2>6, <3>1
    <3>2. CASE g # e
      <4>1. g \in Held(s.tab) /\ q.tab[g] = s.tab[g]
        BY <1>17, <3>2
      <4>2. PICK i \in DOMAIN s.al : s.al[i] = Span(s.tab[g])
        BY <2>1, <2>7, <4>1 DEF HasFiles
      <4>3. QED
        BY <2>6, <4>1, <4>2
    <3>3. QED
      BY <3>1, <3>2
  <2>8. QED
    BY <1>16, <2>5, <2>6, <2>7 DEF HasFiles
<1>20. q.tab \in [Entry -> Entries]
  BY <1>14, <1>16
<1>21. v \in tainted' => v \in faulted'
  BY <1>5, <1>18, <1>19, <1>20, OverlapNot DEF ContentsInv
<1>22. FilesKept(v, q)'
  <2>1. FilesKept(v, s)
    BY <1>6 DEF SessionOf
  <2>2. v \notin tainted' => v \notin tainted /\ FilesApart(q.tab)
    BY <1>18, <1>20, OverlapNot
  <2>3. \A g \in Held(q.tab) : q.tab[g].done => g \in Held(s.tab) /\ s.tab[g].done /\ Alike(q.tab[g], s.tab[g])
    BY <1>10, <1>14, <1>16, <1>17 DEF Alike
  <2>4. QED
    BY <1>5, <1>16, <2>1, <2>2, <2>3, FilesKeptStill
<1>23. CopyGoes(q)
  <2>1. 1 <= len + 1
    OBVIOUS
  <2>2. QED
    BY <1>10, <1>13, <1>14, <1>16, <2>1 DEF CopyGoes
<1>24. TableRead(v, q)'
  <2>1. TableRead(v, s)
    BY <1>6 DEF SessionOf
  <2>2. QED
    BY <1>5, <1>13, <1>16, <2>1, TableReadStill
<1>25. Registered(v, q)'
  BY <1>5, <1>19 DEF Registered
<1>26. tainted' \in {tainted, tainted \cup {v}}
  BY <1>18
<1>27. QED
  BY <1>5, <1>6, <1>15, <1>16, <1>21, <1>22, <1>23, <1>24, <1>25, <1>26, QuietKeeps

LEMMA RemoveKeeps ==
  ASSUME VolumeAssumption, DiskInv, AdOK, ContentsInv, NEW e \in Entry, RemoveObj(e)
  PROVE  ContentsInv'
<1>1. ad.pc = "ready" /\ UNCHANGED <<disk, lost, tainted, faulted>>
  BY DEF RemoveObj
<1>2. PICK v, s : SessionOf(v, s)
  BY <1>1, InSessionIs
<1>3. s \in Sessions /\ s.tab \in [Entry -> Entries] /\ ad = s /\ s.pc = "ready" /\ s.al \in Seq(AreaSet)
  BY <1>1, <1>2 DEF SessionOf, RangesOK
<1>4. PICK h \in Entries : h = s.tab[e] /\ ~IsFree(h)
  BY <1>3 DEF RemoveObj
<1>5. PICK al : al = IF h.is = "file" THEN Unregister(s.al, h.at, Chunks(h)) ELSE s.al
  OBVIOUS
<1>6. PICK g : g = [Free EXCEPT !.def = h.def]
  OBVIOUS
<1>7. g \in Entries /\ IsFree(g)
  BY <1>4, <1>6 DEF Free, Entries, IsFree
<1>8. PICK r : r = Edited(s, e, g)
  OBVIOUS
<1>9. /\ EditOf(s, e, g, r) /\ s.modified \subseteq r.modified
      /\ \A f \in Entry : TableChunkOf(f) \notin r.modified => r.tab[f] = s.tab[f]
  <2>1. s \in Sessions /\ s.tab \in [Entry -> Entries] /\ g \in Entries
    BY <1>3, <1>7
  <2>2. EditKept(s, e, g, Edited(s, e, g))
    BY <2>1, EditedMore
  <2>3. QED
    BY <1>8, <2>2 DEF EditKept
<1>10. /\ r \in Sessions /\ r.tab[e] = g /\ \A f \in Entry : f # e => r.tab[f] = s.tab[f]
       /\ r.pc = "ready" /\ r.members = s.members /\ r.al = s.al
  BY <1>3, <1>9 DEF EditOf
<1>11. PICK q : q = ad' /\ q = [r EXCEPT !.al = al]
  <2>1. r = Edit(e, g)
    BY <1>3, <1>8 DEF Edit, Edited
  <2>2. ad' = [r EXCEPT !.al = IF h.is = "file" THEN Unregister(s.al, h.at, Chunks(h)) ELSE r.al]
    BY <1>3, <1>4, <1>6, <2>1 DEF RemoveObj
  <2>3. QED
    BY <1>5, <1>10, <2>2
<1>12. q.pc = "ready" /\ q.members = s.members /\ q.tab = r.tab /\ q.al = al /\ q.modified = r.modified
  BY <1>10, <1>11 DEF Sessions
<1>13. \A f \in Held(q.tab) : f # e /\ f \in Held(s.tab) /\ q.tab[f] = s.tab[f]
  BY <1>7, <1>10, <1>12 DEF Held
<1>14. Subtable(q.tab, s.tab)
  BY <1>13 DEF Subtable, Held, Alike
<1>15. FilesKept(v, q)'
  <2>1. FilesKept(v, s) /\ (v \notin tainted => FilesApart(s.tab))
    BY <1>2 DEF SessionOf, FilesKept
  <2>2. FilesApart(s.tab) => FilesApart(q.tab)
    BY <1>14, SubtableKeeps
  <2>3. \A f \in Held(q.tab) : q.tab[f].done => f \in Held(s.tab) /\ s.tab[f].done /\ Alike(q.tab[f], s.tab[f])
    BY <1>13 DEF Alike
  <2>4. QED
    BY <1>1, <1>12, <2>1, <2>2, <2>3, FilesKeptStill
<1>16. CopyGoes(q)
  BY <1>12 DEF CopyGoes
<1>17. TableRead(v, q)'
  <2>1. TableRead(v, s)
    BY <1>2 DEF SessionOf
  <2>2. QED
    BY <1>1, <1>9, <1>12, <2>1, TableReadStill
<1>18. Registered(v, q)'
  <2>1. SUFFICES ASSUME v \notin faulted PROVE Orderly(q.tab) /\ Sorted(q.al) /\ HasFiles(q.al, q.tab)
    BY <1>1 DEF Registered
  <2>2. Orderly(s.tab) /\ Sorted(s.al) /\ HasFiles(s.al, s.tab)
    BY <1>2, <2>1 DEF SessionOf, Registered
  <2>3. Orderly(q.tab) /\ HasFiles(s.al, q.tab)
    BY <1>14, <2>2, SubtableKeeps
  <2>4. CASE h.is # "file"
    BY <1>5, <1>12, <2>2, <2>3, <2>4
  <2>5. CASE h.is = "file"
    <3>1. h.at \in Nat /\ Chunks(h) \in Nat /\ Span(h) = Area(h.at, Chunks(h))
          /\ Span(h).start = h.at /\ Span(h).end = h.at + Chunks(h)
      BY SpanIs DEF Span
    <3>2. al = Unregister(s.al, h.at, Chunks(h))
      BY <1>5, <2>5
    <3>3. Sorted(al) /\ \A i \in DOMAIN s.al : s.al[i] # Span(h) => \E j \in DOMAIN al : al[j] = s.al[i]
      BY <1>3, <2>2, <3>1, <3>2, SortedUnregister
    <3>4. ASSUME NEW f \in Held(q.tab), IsFile(q.tab[f]) PROVE Span(q.tab[f]) # Span(h)
      <4>1. SUFFICES ASSUME Span(q.tab[f]) = Span(h) PROVE FALSE
        OBVIOUS
      <4>2. f # e /\ f \in Held(s.tab) /\ q.tab[f] = s.tab[f] /\ e \in Held(s.tab)
        BY <1>4, <1>13 DEF Held
      <4>3. PICK k \in Entries : k = s.tab[f] /\ IsFile(k) /\ Span(k) = Span(h)
        BY <1>3, <3>4, <4>1, <4>2 DEF Held
      <4>4. Clear(Span(k), Span(h))
        BY <1>4, <2>2, <4>2, <4>3 DEF Orderly
      <4>5. Span(k).start = k.at /\ Span(k).end = k.at + Chunks(k) /\ k.at \in Nat /\ Chunks(k) \in Nat
        BY SpanIs
      <4>6. Chunks(k) = 0 /\ Chunks(h) = 0
        BY <3>1, <4>3, <4>4, <4>5 DEF Clear
      <4>7. e = f
        BY <1>4, <2>2, <2>5, <4>2, <4>3, <4>6 DEF Orderly, IsFile
      <4>8. QED
        BY <4>2, <4>7
    <3>5. HasFiles(al, q.tab)
      <4>1. ASSUME NEW f \in Held(q.tab), IsFile(q.tab[f]) PROVE \E j \in DOMAIN al : al[j] = Span(q.tab[f])
        <5>1. PICK i \in DOMAIN s.al : s.al[i] = Span(q.tab[f])
          BY <2>3, <4>1 DEF HasFiles
        <5>2. Span(q.tab[f]) # Span(h)
          BY <3>4, <4>1
        <5>3. QED
          BY <3>3, <5>1, <5>2
      <4>2. QED
        BY <4>1 DEF HasFiles
    <3>6. QED
      BY <1>12, <2>3, <3>3, <3>5
  <2>6. QED
    BY <2>4, <2>5
<1>19. v \in tainted' => v \in faulted'
  BY <1>1 DEF ContentsInv
<1>20. QED
  BY <1>1, <1>2, <1>11, <1>12, <1>15, <1>16, <1>17, <1>18, <1>19, QuietKeeps

-----------------------------------------------------------------------------
(* The steps of a session that write, and those it begins and ends with.   *)
LEMMA WriteTouches ==
  ASSUME VolumeAssumption, DiskInv, NEW v \in Volume, NEW n \in Nat, n >= 1, NEW x, WriteChunk(MembersOf[v], n, x)
  PROVE  Touches(v) /\ \A u \in Volume : Formatted(u)' <=> Formatted(u)
<1>1. \A d \in Device : disk'[d][0] = disk[d][0]
  BY MembersFacts, ChunkWritten
<1>2. \A u \in Volume : Formatted(u)' <=> Formatted(u)
  BY <1>1, LabelsSame DEF DiskInv
<1>3. QED
  BY <1>2 DEF Touches

LEMMA CopyBlockKeeps ==
  ASSUME VolumeAssumption, DiskInv, AdOK, ContentsInv, CopyBlock
  PROVE  ContentsInv'
<1>1. ad.pc = "copy"
  BY DEF CopyBlock
<1>2. PICK v, s : SessionOf(v, s)
  BY <1>1, InSessionIs
<1>3. /\ s \in Sessions /\ s.tab \in [Entry -> Entries] /\ ad = s /\ s.pc = "copy" /\ s.members = MembersOf[v]
      /\ s.job \in Entry /\ s.tab[s.job].is = "file" /\ s.next >= 1
      /\ v \in Volume /\ Formatted(v) /\ Fitting(MembersOf[v]) /\ Roomy(v)
  BY <1>1, <1>2 DEF SessionOf
<1>4. PICK j \in Entry : j = s.job
  BY <1>3
<1>5. PICK h \in Entries : h = s.tab[j] /\ IsFile(h) /\ ~IsFree(h)
  BY <1>3, <1>4 DEF IsFile, IsFree
<1>6. PICK k \in Nat : k = s.next /\ k >= 1
  BY <1>3 DEF Sessions
<1>7. PICK m \in Nat : m = Meta /\ m >= 2
  BY MetaFacts
<1>8. PICK n \in Nat : n = h.at + k - 1 /\ n >= m /\ n >= 1 /\ n >= h.at /\ h.at \in Nat /\ Chunks(h) \in Nat
  <2>1. h.at \in Nat /\ Chunks(h) \in Nat /\ h.at >= m
    BY <1>5, <1>7, SpanIs
  <2>2. QED
    BY <1>6, <1>7, <2>1
<1>9. PICK x : x = Data(h.what.blocks[k])
  OBVIOUS
<1>10. /\ WriteChunk(MembersOf[v], n, x) /\ n < VolChunks(MembersOf[v]) /\ k <= Chunks(h)
       /\ ad' = [s EXCEPT !.next = k + 1] /\ lost' = lost /\ tainted' = tainted /\ faulted' = faulted
  BY <1>3, <1>4, <1>5, <1>6, <1>8, <1>9 DEF CopyBlock, Job
<1>11. PICK r : r = ad' /\ r = [s EXCEPT !.next = k + 1]
  BY <1>10
<1>12. /\ r.pc = "copy" /\ r.members = s.members /\ r.tab = s.tab /\ r.al = s.al /\ r.job = j /\ r.next = k + 1
       /\ r.modified = s.modified
  BY <1>3, <1>4, <1>11 DEF Sessions
<1>13. Chunk(MembersOf[v], n)' = x
  BY <1>3, <1>8, <1>10, ChunkReadBackIn
<1>14. \A d \in Nat : d >= 1 /\ d # n /\ d < VolChunks(MembersOf[v]) => Chunk(MembersOf[v], d)' = Chunk(MembersOf[v], d)
  <2>1. v \in Volume /\ Fitting(MembersOf[v]) /\ n >= 1 /\ WriteChunk(MembersOf[v], n, x)
    BY <1>3, <1>8, <1>10
  <2>2. QED
    BY <2>1, ChunkOtherIn
<1>15. TableOn(MembersOf[v])' = TableOn(MembersOf[v])
  <2>1. ASSUME NEW c \in TableChunks PROVE Chunk(MembersOf[v], c)' = Chunk(MembersOf[v], c)
    <3>1. c \in Nat /\ c >= 1 /\ c < m /\ c < VolChunks(MembersOf[v])
      BY <1>3, <1>7, MetaSmall
    <3>2. c # n
      BY <1>8, <3>1
    <3>3. QED
      BY <1>14, <3>1, <3>2
  <2>2. QED
    BY <1>3, <2>1, TableOnSame
<1>16. ~h.done /\ TableChunkOf(j) \in s.modified
  BY <1>2, <1>3, <1>4, <1>5 DEF SessionOf, CopyGoes
<1>17. FilesKept(v, r)'
  <2>1. SUFFICES ASSUME v \notin tainted
                 PROVE  /\ FilesApart(s.tab)
                        /\ \A e \in Held(s.tab) : s.tab[e].done => Kept(MembersOf[v], s.tab[e])'
                        /\ \A i \in 1 .. k : BlockKept(MembersOf[v], h, i)'
    <3>1. k + 1 - 1 = k
      OBVIOUS
    <3>2. QED
      BY <1>4, <1>5, <1>10, <1>12, <3>1 DEF FilesKept
  <2>2. /\ FilesApart(s.tab)
        /\ \A e \in Held(s.tab) : s.tab[e].done => Kept(MembersOf[v], s.tab[e])
        /\ \A i \in 1 .. k - 1 : BlockKept(MembersOf[v], h, i)
    BY <1>2, <1>3, <1>4, <1>5, <1>6, <2>1 DEF SessionOf, FilesKept
  <2>3. ASSUME NEW e \in Held(s.tab), s.tab[e].done PROVE Kept(MembersOf[v], s.tab[e])'
    <3>1. PICK g \in Entries : g = s.tab[e] /\ ~IsFree(g) /\ Kept(MembersOf[v], g)
      BY <1>3, <2>2, <2>3 DEF Held
    <3>2. e # j /\ j \in Held(s.tab)
      BY <1>5, <1>16, <2>3 DEF Held
    <3>3. ASSUME NEW d \in Nat, d >= m, d >= g.at, d < g.at + Chunks(g), d < VolChunks(MembersOf[v])
          PROVE  Chunk(MembersOf[v], d)' = Chunk(MembersOf[v], d)
      <4>1. /\ g.at \in Nat /\ Chunks(g) \in Nat /\ Span(g).start = g.at /\ Span(g).end = g.at + Chunks(g)
            /\ Span(h).start = h.at /\ Span(h).end = h.at + Chunks(h)
        BY SpanIs
      <4>2. IsFile(g)
        <5>1. ~IsFile(g) => Chunks(g) = 0
          BY DEF IsFile, Chunks
        <5>2. QED
          BY <3>3, <4>1, <5>1
      <4>3. Clear(Span(g), Span(h))
        BY <1>5, <2>2, <3>1, <3>2, <4>2 DEF FilesApart
      <4>4. g.at + Chunks(g) <= h.at \/ h.at + Chunks(h) <= g.at
        BY <4>1, <4>3 DEF Clear
      <4>5. n < h.at + Chunks(h)
        BY <1>6, <1>8, <1>10, SMTT(30)
      <4>6. d # n /\ d >= 1
        BY <1>7, <1>8, <3>3, <4>1, <4>4, <4>5, SMTT(30)
      <4>7. QED
        BY <1>14, <3>3, <4>6
    <3>4. Kept(MembersOf[v], g)'
      BY <1>3, <1>7, <3>1, <3>3, KeptSame
    <3>5. QED
      BY <3>1, <3>4
  <2>4. ASSUME NEW i \in 1 .. k PROVE BlockKept(MembersOf[v], h, i)'
    <3>1. CASE i = k
      BY <1>8, <1>9, <1>10, <1>13, <3>1 DEF BlockKept
    <3>2. CASE i # k
      <4>1. PICK d \in Nat : d = h.at + i - 1 /\ d >= 1 /\ d # n
        <5>1. PICK at \in Nat : at = h.at /\ at >= m
          BY <1>5, <1>7, <1>8, SpanIs
        <5>2. i \in Nat /\ i >= 1 /\ n = at + k - 1 /\ m >= 2 /\ at >= 2
          BY <1>6, <1>7, <1>8, <2>4, <5>1
        <5>3. at + i - 1 \in Nat /\ at + i - 1 >= 1 /\ at + i - 1 # n
          <6>1. at + i - 1 # at + k - 1
            BY <3>2, <5>1, <5>2
          <6>2. QED
            BY <5>1, <5>2, <6>1, SMTT(30)
        <5>4. QED
          BY <5>1, <5>3
      <4>2. i \in 1 .. k - 1
        BY <1>6, <3>2
      <4>3. d < VolChunks(MembersOf[v]) /\ Chunk(MembersOf[v], d) = Data(h.what.blocks[i])
        BY <2>2, <4>1, <4>2 DEF BlockKept
      <4>4. Chunk(MembersOf[v], d)' = Data(h.what.blocks[i])
        BY <1>14, <4>1, <4>3
      <4>5. QED
        BY <4>1, <4>3, <4>4 DEF BlockKept
    <3>3. QED
      BY <3>1, <3>2
  <2>5. QED
    BY <2>2, <2>3, <2>4
<1>18. CopyGoes(r)
  <2>1. k + 1 <= Chunks(h) + 1
    BY <1>6, <1>8, <1>10
  <2>2. QED
    BY <1>4, <1>5, <1>12, <1>16, <2>1 DEF CopyGoes
<1>19. TableRead(v, r)'
  <2>1. TableRead(v, s)
    BY <1>2 DEF SessionOf
  <2>2. QED
    BY <1>10, <1>12, <1>15, <2>1 DEF TableRead, Read
<1>20. Registered(v, r)'
  <2>1. Registered(v, s)
    BY <1>2 DEF SessionOf
  <2>2. QED
    BY <1>10, <1>12, <2>1 DEF Registered
<1>21. InMemory(v)'
  BY <1>11, <1>17, <1>18, <1>19, <1>20, InMemoryAfter
<1>22. GhostsBut(v) /\ (v \in tainted' => v \in faulted')
  BY <1>10 DEF GhostsBut, ContentsInv
<1>23. Touches(v) /\ \A u \in Volume : Formatted(u)' <=> Formatted(u)
  BY <1>3, <1>8, <1>10, WriteTouches
<1>24. ad.members \in {<< >>, MembersOf[v]} /\ ad'.members = MembersOf[v]
  BY <1>3, <1>11, <1>12
<1>25. v \in Volume /\ Formatted(v) /\ Fitting(MembersOf[v])
  BY <1>3
<1>26. QED
  BY <1>21, <1>22, <1>23, <1>24, <1>25, SessionKeeps

LEMMA WriteBackKeeps ==
  ASSUME VolumeAssumption, DiskInv, AdOK, ContentsInv, WriteBack
  PROVE  ContentsInv'
<1>1. ad.pc = "umount" /\ ad.modified # {}
  BY DEF WriteBack
<1>2. PICK v, s : SessionOf(v, s)
  BY <1>1, InSessionIs
<1>3. /\ s \in Sessions /\ s.tab \in [Entry -> Entries] /\ ad = s /\ s.pc = "umount" /\ s.members = MembersOf[v]
      /\ VolumeOf(s.members) = v /\ v \in Volume /\ Formatted(v) /\ Fitting(MembersOf[v]) /\ Roomy(v) /\ ContentsOK(v)
  BY <1>1, <1>2 DEF SessionOf
<1>4. PICK c \in TableChunks : c = Smallest(s.modified)
  <2>1. TableChunks \subseteq Nat
    BY DEF TableChunks
  <2>2. s.modified \subseteq TableChunks /\ s.modified \subseteq Nat
    BY <1>3, <2>1 DEF Sessions
  <2>3. PICK e \in s.modified : \A f \in s.modified : e <= f
    BY <1>1, <1>3, <2>2, NatLeast
  <2>4. Smallest(s.modified) \in s.modified
    BY <2>3 DEF Smallest
  <2>5. QED
    BY <2>2, <2>4
<1>5. PICK ent : ent = [e \in EntriesOf(c) |-> s.tab[e]]
  OBVIOUS
<1>6. PICK x : x = Table(v, ent) /\ x.type = "table" /\ x.ent = ent
  <2>1. Table(v, ent).type = "table" /\ Table(v, ent).ent = ent
    BY DEF Table
  <2>2. QED
    BY <2>1
<1>7. /\ WriteChunk(MembersOf[v], c, x) /\ ad' = [s EXCEPT !.modified = @ \ {c}]
      /\ lost' = lost \ ({v} \X EntriesOf(c)) /\ tainted' = tainted /\ faulted' = faulted
  BY <1>3, <1>4, <1>5, <1>6 DEF WriteBack
<1>8. PICK r : r = ad' /\ r = [s EXCEPT !.modified = @ \ {c}]
  BY <1>7
<1>9. /\ r.pc = "umount" /\ r.members = s.members /\ r.tab = s.tab /\ r.al = s.al /\ r.modified = s.modified \ {c}
  BY <1>3, <1>8 DEF Sessions
<1>10. c \in Nat /\ c >= 1 /\ c < Meta /\ c < VolChunks(MembersOf[v])
  BY <1>3, MetaSmall
<1>11. Chunk(MembersOf[v], c)' = x
  BY <1>3, <1>7, <1>10, ChunkReadBackIn
<1>12. \A d \in Nat : d >= 1 /\ d # c /\ d < VolChunks(MembersOf[v]) => Chunk(MembersOf[v], d)' = Chunk(MembersOf[v], d)
  <2>1. v \in Volume /\ Fitting(MembersOf[v]) /\ c \in Nat /\ c >= 1 /\ WriteChunk(MembersOf[v], c, x)
    BY <1>3, <1>7, <1>10
  <2>2. QED
    BY <2>1, ChunkOtherIn
<1>13. FilesKept(v, r)'
  <2>1. SUFFICES ASSUME v \notin tainted
                 PROVE  /\ FilesApart(s.tab)
                        /\ \A e \in Held(s.tab) : s.tab[e].done => Kept(MembersOf[v], s.tab[e])'
    BY <1>7, <1>9 DEF FilesKept
  <2>2. /\ FilesApart(s.tab)
        /\ \A e \in Held(s.tab) : s.tab[e].done => Kept(MembersOf[v], s.tab[e])
    BY <1>2, <2>1 DEF SessionOf, FilesKept
  <2>3. ASSUME NEW e \in Held(s.tab), s.tab[e].done PROVE Kept(MembersOf[v], s.tab[e])'
    <3>1. PICK g \in Entries : g = s.tab[e] /\ ~IsFree(g) /\ Kept(MembersOf[v], g)
      BY <1>3, <2>2, <2>3 DEF Held
    <3>2. PICK m \in Nat : m = Meta /\ m >= 2
      BY MetaFacts
    <3>3. \A d \in Nat : d >= m /\ d < VolChunks(MembersOf[v]) => Chunk(MembersOf[v], d)' = Chunk(MembersOf[v], d)
      <4>1. \A d \in Nat : d >= m => d >= 1 /\ d # c
        BY <1>10, <3>2
      <4>2. QED
        BY <1>12, <4>1
    <3>4. Kept(MembersOf[v], g)'
      BY <1>3, <3>1, <3>2, <3>3, KeptSame
    <3>5. QED
      BY <3>1, <3>4
  <2>4. QED
    BY <2>2, <2>3
<1>14. CopyGoes(r)
  BY <1>9 DEF CopyGoes
<1>15. TableRead(v, r)'
  <2>1. PICK tab : tab = TableOn(MembersOf[v])
    OBVIOUS
  <2>2. PICK new : new = TableOn(MembersOf[v])'
    OBVIOUS
  <2>3. ASSUME NEW e \in Entry, TableChunkOf(e) \notin s.modified \ {c}
        PROVE  s.tab[e] = [new[e] EXCEPT !.done = @ /\ <<v, e>> \notin lost']
    <3>1. PICK d \in TableChunks : d = TableChunkOf(e) /\ e \in EntriesOf(d) /\ d = 2 + e \div PerChunk
      BY EntryFacts DEF TableChunkOf
    <3>2. new[e] = IF Chunk(MembersOf[v], d)'.type = "table" THEN Chunk(MembersOf[v], d)'.ent[e] ELSE Free
      BY <2>2, <3>1 DEF TableOn
    <3>3. tab[e] = IF Chunk(MembersOf[v], d).type = "table" THEN Chunk(MembersOf[v], d).ent[e] ELSE Free
      BY <2>1, <3>1 DEF TableOn
    <3>4. CASE d = c
      <4>1. new[e] = s.tab[e]
        BY <1>5, <1>6, <1>11, <3>1, <3>2, <3>4
      <4>2. <<v, e>> \notin lost'
        BY <1>7, <3>1, <3>4
      <4>3. PICK h \in Entries : h = s.tab[e] /\ h.done \in BOOLEAN
        BY <1>3 DEF Entries
      <4>4. [h EXCEPT !.done = @ /\ TRUE] = h
        BY <4>3 DEF Entries
      <4>5. QED
        BY <4>1, <4>2, <4>3, <4>4
    <3>5. CASE d # c
      <4>1. Chunk(MembersOf[v], d)' = Chunk(MembersOf[v], d)
        <5>1. d \in Nat /\ d >= 1 /\ d < VolChunks(MembersOf[v])
          BY <1>3, MetaSmall
        <5>2. QED
          BY <1>12, <3>5, <5>1
      <4>2. new[e] = tab[e]
        BY <3>2, <3>3, <4>1
      <4>3. s.tab[e] = Read(v, tab[e], e)
        BY <1>2, <2>1, <2>3, <3>1, <3>5 DEF SessionOf, TableRead
      <4>4. e \notin EntriesOf(c)
        <5>1. PICK q : q = e \div PerChunk
          OBVIOUS
        <5>2. d \in Int /\ c \in Int /\ d = 2 + q /\ d # c
          BY <1>10, <3>1, <3>5, <5>1 DEF TableChunks
        <5>3. q \in Int
          BY <5>1 DEF Entry, VolumeAssumption
        <5>4. q # c - 2
          BY <5>2, <5>3
        <5>5. QED
          BY <5>1, <5>4 DEF EntriesOf
      <4>5. <<v, e>> \notin lost' <=> <<v, e>> \notin lost
        BY <1>7, <4>4
      <4>6. QED
        BY <4>2, <4>3, <4>5 DEF Read
    <3>6. QED
      BY <3>4, <3>5
  <2>4. QED
    BY <1>9, <2>2, <2>3 DEF TableRead, Read
<1>16. Registered(v, r)'
  <2>1. Registered(v, s)
    BY <1>2 DEF SessionOf
  <2>2. QED
    BY <1>7, <1>9, <2>1 DEF Registered
<1>17. InMemory(v)'
  BY <1>8, <1>13, <1>14, <1>15, <1>16, InMemoryAfter
<1>18. GhostsBut(v) /\ (v \in tainted' => v \in faulted')
  <2>1. \A u \in Volume, e \in Entry : u # v => (<<u, e>> \in lost' <=> <<u, e>> \in lost)
    BY <1>7
  <2>2. QED
    BY <1>7, <2>1 DEF GhostsBut, ContentsInv
<1>19. Touches(v) /\ \A u \in Volume : Formatted(u)' <=> Formatted(u)
  BY <1>3, <1>7, <1>10, WriteTouches
<1>20. ad.members \in {<< >>, MembersOf[v]} /\ ad'.members = MembersOf[v]
  BY <1>3, <1>8, <1>9
<1>21. v \in Volume /\ Formatted(v) /\ Fitting(MembersOf[v])
  BY <1>3
<1>22. QED
  BY <1>17, <1>18, <1>19, <1>20, <1>21, SessionKeeps

(* A session ends, and what it knew is on the devices or forgotten.        *)
LEMMA LeavesKeep ==
  ASSUME VolumeAssumption, DiskInv, ContentsInv, NEW v, NEW s, SessionOf(v, s), ad' = NoSession, disk' = disk,
         tainted' = tainted, faulted' \in {faulted, faulted \cup {v}}, lost \subseteq lost',
         \A u \in Volume, e \in Entry : u # v /\ <<u, e>> \in lost' => <<u, e>> \in lost,
         \A e \in Entry : \/ (<<v, e>> \in lost' /\ v \in faulted') \/ IsFree(TableOn(MembersOf[v])[e])
                          \/ TableChunkOf(e) \notin s.modified \/ TableOn(MembersOf[v])[e] = s.tab[e]
  PROVE  ContentsInv'
<1>1. v \in Volume /\ Formatted(v) /\ Fitting(MembersOf[v]) /\ ad.members = MembersOf[v] /\ ContentsOK(v)
  BY DEF SessionOf
<1>2. PICK tab : tab = TableOn(MembersOf[v]) /\ TableOn(MembersOf[v])' = tab
  BY DiskRests
<1>3. ASSUME NEW e \in Held(tab), <<v, e>> \notin lost' \/ v \notin faulted'
      PROVE  /\ e \in Held(s.tab) /\ Alike(tab[e], s.tab[e])
             /\ tab[e].done /\ <<v, e>> \notin lost' => s.tab[e].done
  <2>1. PICK g \in Entries : g = tab[e] /\ ~IsFree(g) /\ e \in Entry
    BY <1>1, <1>2, TableOnIs DEF Held
  <2>2. TableChunkOf(e) \notin s.modified \/ g = s.tab[e]
    BY <1>2, <1>3, <2>1
  <2>3. s.tab[e] = Read(v, g, e) \/ s.tab[e] = g
    BY <1>2, <2>1, <2>2 DEF SessionOf, TableRead
  <2>4. PICK h : h = s.tab[e]
    OBVIOUS
  <2>5. h.is = g.is /\ h.what = g.what /\ h.at = g.at /\ (g.done /\ <<v, e>> \notin lost => h.done)
    BY <2>3, <2>4 DEF Read, Entries
  <2>6. QED
    BY <2>1, <2>4, <2>5 DEF Alike, Held, IsFree
<1>4. OnDisk(v)'
  <2>1. ASSUME v \notin tainted', NEW e \in Held(tab), tab[e].done, <<v, e>> \notin lost'
        PROVE  Kept(MembersOf[v], tab[e])'
    <3>1. e \in Held(s.tab) /\ Alike(tab[e], s.tab[e]) /\ s.tab[e].done
      BY <1>3, <2>1
    <3>2. Kept(MembersOf[v], s.tab[e])
      BY <2>1, <3>1 DEF SessionOf, FilesKept
    <3>3. Kept(MembersOf[v], tab[e])
      BY <3>1, <3>2, AlikeSame
    <3>4. QED
      BY <3>3, DiskRests
  <2>2. ASSUME v \notin faulted' PROVE Orderly(tab)
    <3>1. Orderly(s.tab)
      BY <2>2 DEF SessionOf, Registered
    <3>2. Subtable(tab, s.tab)
      BY <1>3, <2>2 DEF Subtable, Held
    <3>3. QED
      BY <3>1, <3>2, SubtableKeeps
  <2>3. QED
    BY <1>2, <2>1, <2>2 DEF OnDisk
<1>5. Touches(v) /\ \A u \in Volume : Formatted(u)' <=> Formatted(u)
  BY DiskRests
<1>6. GhostsBut(v) /\ (v \in tainted' => v \in faulted')
  BY DEF GhostsBut, ContentsInv
<1>7. ad'.members = << >>
  BY DEF NoSession
<1>8. ad.members \in {<< >>, MembersOf[v]}
  BY <1>1
<1>9. QED
  BY <1>1, <1>4, <1>5, <1>6, <1>7, <1>8, SessionKeeps

LEMMA AdEndKeeps ==
  ASSUME VolumeAssumption, DiskInv, AdOK, ContentsInv, AdEnd
  PROVE  ContentsInv'
<1>1. /\ ad.pc = "umount" /\ ad.modified = {} /\ ad' = NoSession
      /\ disk' = disk /\ lost' = lost /\ tainted' = tainted /\ faulted' = faulted
  BY DEF AdEnd
<1>2. PICK v, s : SessionOf(v, s)
  BY <1>1, InSessionIs
<1>3. s.modified = {}
  BY <1>1, <1>2 DEF SessionOf
<1>4. QED
  BY <1>1, <1>2, <1>3, LeavesKeep

LEMMA AdStopKeeps ==
  ASSUME VolumeAssumption, DiskInv, AdOK, ContentsInv, AdStop
  PROVE  ContentsInv'
<1>1. ad.pc # "idle"
  BY DEF AdStop
<1>2. PICK v, s : SessionOf(v, s)
  BY <1>1, InSessionIs
<1>3. ad = s /\ s.members = MembersOf[v] /\ VolumeOf(ad.members) = v /\ v \in Volume
  BY <1>2 DEF SessionOf
<1>4. PICK F : F = Forgotten
  OBVIOUS
<1>5. /\ ad' = NoSession /\ disk' = disk /\ tainted' = tainted /\ lost' = lost \cup ({v} \X F)
      /\ faulted' = faulted \cup {u \in {v} : F # {}}
  BY <1>3, <1>4 DEF AdStop
<1>6. ASSUME NEW e \in Entry
      PROVE  \/ (<<v, e>> \in lost' /\ v \in faulted') \/ IsFree(TableOn(MembersOf[v])[e])
             \/ TableChunkOf(e) \notin s.modified \/ TableOn(MembersOf[v])[e] = s.tab[e]
  <2>1. CASE e \in F
    BY <1>5, <2>1
  <2>2. CASE e \notin F
    BY <1>3, <1>4, <2>2 DEF Forgotten
  <2>3. QED
    BY <2>1, <2>2
<1>7. \A u \in Volume, e \in Entry : u # v /\ <<u, e>> \in lost' => <<u, e>> \in lost
  BY <1>5
<1>8. faulted' \in {faulted, faulted \cup {v}}
  BY <1>5
<1>9. lost \subseteq lost'
  BY <1>5
<1>10. ad' = NoSession /\ disk' = disk /\ tainted' = tainted
  BY <1>5
<1>11. QED
  BY <1>2, <1>6, <1>7, <1>8, <1>9, <1>10, LeavesKeep

(* A session begins with the table on the devices.                         *)
LEMMA LoadKeeps ==
  ASSUME VolumeAssumption, DiskInv, AdOK, ContentsInv, NEW list \in DeviceList, AdLoad(list)
  PROVE  ContentsInv'
<1>1. /\ list \in Seq(Device) /\ list # << >> /\ \A i \in DOMAIN list : IsLabel(list[i])
      /\ AllFound(list) /\ Len(FoundMembers(list)) = Len(list)
      /\ MinMemberSize(Lay(list), VolChunks(list)) <= NbStripe
      /\ ad.pc = "idle" /\ disk' = disk /\ lost' = lost /\ faulted' = faulted /\ LabelsOK
  BY DEF AdLoad, VolumeAssumption, DiskInv
<1>2. PICK v \in Volume : /\ v = VolumeOf(list) /\ FoundMembers(list) = MembersOf[v] /\ Formatted(v)
                          /\ MembersOf[v] \in Seq(Device) /\ MembersOf[v] # << >>
  BY <1>1, FoundAreMembers
<1>3. Fitting(MembersOf[v])
  <2>1. Lay(MembersOf[v]) = Lay(list)
    BY <1>1, <1>2 DEF Lay
  <2>2. QED
    BY <1>1, <2>1 DEF Fitting, VolChunks
<1>4. ContentsOK(v)
  BY <1>2, <1>3 DEF DiskInv, FormattedOK
<1>5. PICK tab : tab = TableOn(MembersOf[v]) /\ TableOn(MembersOf[v])' = tab
  BY <1>1, DiskRests
<1>6. PICK t : t = [e \in Entry |-> [tab[e] EXCEPT !.done = @ /\ <<v, e>> \notin lost]]
  OBVIOUS
<1>7. ASSUME NEW e \in Entry
      PROVE  /\ t[e] \in Entries /\ t[e] = Read(v, tab[e], e) /\ Alike(t[e], tab[e])
             /\ t[e].done <=> tab[e].done /\ <<v, e>> \notin lost
  <2>1. PICK h \in Entries : h = tab[e]
    BY <1>4, <1>5, TableOnIs
  <2>2. PICK b \in BOOLEAN : b = (h.done /\ <<v, e>> \notin lost)
    OBVIOUS
  <2>3. PICK g : g = [h EXCEPT !.done = b] /\ g \in Entries
    <3>1. [h EXCEPT !.done = b] \in Entries
      BY DEF Entries
    <3>2. QED
      BY <3>1
  <2>4. t[e] = g
    BY <1>6, <2>1, <2>2, <2>3
  <2>5. g.is = h.is /\ g.what = h.what /\ g.at = h.at /\ g.done = b
    BY <2>3 DEF Entries
  <2>6. QED
    BY <2>1, <2>2, <2>3, <2>4, <2>5 DEF Read, Alike
<1>8. t \in [Entry -> Entries]
  BY <1>6, <1>7
<1>9. Subtable(t, tab)
  BY <1>7 DEF Subtable
<1>10. PICK r : /\ r = ad' /\ r.pc = "ready" /\ r.members = MembersOf[v] /\ r.tab = t /\ r.modified = {}
                /\ r.al = Ranges(t)
  <2> DEFINE last == LET d == {e \in Entry : t[e].def}
                     IN  IF d = {} THEN NbEntry ELSE CHOOSE e \in d : \A f \in d : f <= e
  <2>1. ad' = [NoSession EXCEPT !.pc = "ready", !.members = MembersOf[v], !.tab = t,
                                !.al = Ranges(t), !.def = last]
    BY <1>2, <1>5, <1>6 DEF AdLoad
  <2> HIDE DEF last
  <2>2. /\ ad'.pc = "ready" /\ ad'.members = MembersOf[v] /\ ad'.tab = t /\ ad'.modified = {}
        /\ ad'.al = Ranges(t)
    BY <2>1 DEF NoSession
  <2>3. QED
    BY <2>2
<1>11. tainted' = tainted \cup {u \in {v} : Overlap(t)}
  BY <1>2, <1>5, <1>6 DEF AdLoad
<1>12. ad.members = << >>
  BY <1>1 DEF AdOK
<1>13. OnDisk(v)
  <2>1. Mountable(v) /\ ad.members # MembersOf[v]
    BY <1>2, <1>3, <1>12, MountableIs
  <2>2. QED
    BY <2>1 DEF ContentsInv
<1>14. v \notin faulted => Orderly(t) /\ ~Overlap(t)
  <2>1. SUFFICES ASSUME v \notin faulted PROVE Orderly(t) /\ ~Overlap(t)
    OBVIOUS
  <2>2. Orderly(tab)
    BY <1>5, <1>13, <2>1 DEF OnDisk
  <2>3. QED
    BY <1>8, <1>9, <2>2, SubtableKeeps, OverlapNot
<1>15. FilesKept(v, r)'
  <2>1. SUFFICES ASSUME v \notin tainted'
                 PROVE  FilesApart(t) /\ \A e \in Held(t) : t[e].done => Kept(MembersOf[v], t[e])'
    BY <1>10 DEF FilesKept
  <2>2. v \notin tainted /\ FilesApart(t)
    BY <1>8, <1>11, <2>1, OverlapNot
  <2>3. ASSUME NEW e \in Held(t), t[e].done PROVE Kept(MembersOf[v], t[e])'
    <3>1. e \in Entry /\ e \in Held(tab) /\ Alike(t[e], tab[e]) /\ tab[e].done /\ <<v, e>> \notin lost
      BY <1>7, <1>9, <2>3, SubtableKeeps DEF Held
    <3>2. Kept(MembersOf[v], tab[e])
      BY <1>5, <1>13, <2>2, <3>1 DEF OnDisk
    <3>3. Kept(MembersOf[v], t[e])
      BY <3>1, <3>2, AlikeSame
    <3>4. QED
      BY <1>1, <3>3, DiskRests
  <2>4. QED
    BY <2>2, <2>3
<1>16. CopyGoes(r)
  BY <1>10 DEF CopyGoes
<1>17. TableRead(v, r)'
  <2>1. \A e \in Entry : r.tab[e] = Read(v, tab[e], e)
    BY <1>7, <1>10
  <2>2. QED
    BY <1>1, <1>5, <2>1 DEF TableRead, Read
<1>18. Registered(v, r)'
  BY <1>1, <1>8, <1>10, <1>14, RangesSorted DEF Registered
<1>19. InMemory(v)'
  BY <1>10, <1>15, <1>16, <1>17, <1>18, InMemoryAfter
<1>20. v \in tainted' => v \in faulted'
  BY <1>1, <1>11, <1>14 DEF ContentsInv
<1>21. GhostsBut(v)
  BY <1>1, <1>11 DEF GhostsBut
<1>22. Touches(v) /\ \A u \in Volume : Formatted(u)' <=> Formatted(u)
  BY <1>1, DiskRests
<1>23. ad.members \in {<< >>, MembersOf[v]} /\ ad'.members = MembersOf[v]
  BY <1>10, <1>12
<1>24. Formatted(v) /\ Fitting(MembersOf[v])
  BY <1>2, <1>3
<1>25. QED
  BY <1>19, <1>20, <1>21, <1>22, <1>23, <1>24, SessionKeeps

-----------------------------------------------------------------------------
(* What shfs_mkfs does while no session is open.                           *)
LEMMA IdleKeeps ==
  ASSUME VolumeAssumption, DiskInv, AdOK, ContentsInv, ad.pc = "idle", UNCHANGED adVars,
         \A u \in Volume : Formatted(u)' /\ Fitting(MembersOf[u]) => (Formatted(u) /\ ChunksSame(u)) \/ OnDisk(u)'
  PROVE  ContentsInv'
<1>1. ad' = ad /\ lost' = lost /\ tainted' = tainted /\ faulted' = faulted /\ ad.members = << >>
  BY DEF adVars, AdOK
<1>2. ASSUME NEW u \in Volume, Mountable(u)'
      PROVE  IF ad'.members = MembersOf[u] THEN InMemory(u)' ELSE OnDisk(u)'
  <2>1. Formatted(u)' /\ Fitting(MembersOf[u]) /\ ad'.members # MembersOf[u]
    BY <1>1, <1>2, MountableIs, MembersFacts
  <2>2. CASE Formatted(u) /\ ChunksSame(u)
    <3>1. Roomy(u) /\ ContentsOK(u)
      BY <2>1, <2>2, FormattedRoomy DEF DiskInv, FormattedOK
    <3>2. OnDisk(u)
      BY <1>1, <2>1, <2>2, MountableIs DEF ContentsInv
    <3>3. OnDisk(u)'
      BY <1>1, <2>2, <3>1, <3>2, OnDiskSame
    <3>4. QED
      BY <2>1, <3>3
  <2>3. QED
    BY <2>1, <2>2
<1>3. QED
  BY <1>1, <1>2 DEF ContentsInv

LEMMA LabelKeeps ==
  ASSUME VolumeAssumption, DiskInv, NEW dev \in Device, NEW x, WriteLabel0(dev, x),
         NEW u \in Volume, Formatted(u)', Fitting(MembersOf[u]), \A m : x # Label(u, m)
  PROVE  Formatted(u) /\ ChunksSame(u)
<1>1. \A d \in Device : disk'[d][0] = IF d = dev THEN x ELSE disk[d][0]
  BY LabelWritten DEF DiskInv
<1>2. ASSUME NEW m \in DOMAIN MembersOf[u] PROVE disk[MembersOf[u][m]][0] = Label(u, m)
  <2>1. disk'[MembersOf[u][m]][0] = Label(u, m) /\ MembersOf[u][m] \in Device
    BY MembersFacts DEF Formatted
  <2>2. QED
    BY <1>1, <2>1
<1>3. ASSUME NEW d \in Nat, d >= 1, d < VolChunks(MembersOf[u])
      PROVE  Chunk(MembersOf[u], d)' = Chunk(MembersOf[u], d)
  BY <1>3, MembersFacts, ChunkUnderLabels DEF DiskInv
<1>4. QED
  BY <1>2, <1>3 DEF Formatted, ChunksSame

LEMMA FormattingKeeps ==
  ASSUME VolumeAssumption, DiskInv, NEW w \in Volume, Unlabelled(w), NEW n \in Nat, n >= 1, NEW x,
         WriteChunk(MembersOf[w], n, x), NEW u \in Volume, Formatted(u)', Fitting(MembersOf[u])
  PROVE  Formatted(u) /\ ChunksSame(u)
<1>1. \A d \in Device : disk'[d][0] = disk[d][0]
  BY MembersFacts, ChunkWritten
<1>2. Formatted(u)
  BY <1>1, LabelsSame DEF DiskInv
<1>3. ASSUME NEW i \in DOMAIN MembersOf[w], NEW j \in DOMAIN MembersOf[u], MembersOf[w][i] = MembersOf[u][j]
      PROVE  FALSE
  <2>1. disk[MembersOf[u][j]][0] = Label(u, j)
    BY <1>2 DEF Formatted
  <2>2. ~IsLabel(MembersOf[w][i])
    BY DEF Unlabelled
  <2>3. QED
    BY <1>3, <2>1, <2>2 DEF IsLabel, Label
<1>4. \A i \in DOMAIN MembersOf[w], j \in DOMAIN MembersOf[u] : MembersOf[w][i] # MembersOf[u][j]
  BY <1>3
<1>5. ASSUME NEW d \in Nat, d >= 1, d < VolChunks(MembersOf[u])
      PROVE  Chunk(MembersOf[u], d)' = Chunk(MembersOf[u], d)
  BY <1>4, <1>5, ChunkApart, ZenonT(40)
<1>6. QED
  BY <1>2, <1>5 DEF ChunksSame

LEMMA WriteLabelKeeps ==
  ASSUME VolumeAssumption, DiskInv, AdOK, ContentsInv, ad.pc = "idle", UNCHANGED adVars, WriteLabel
  PROVE  ContentsInv'
<1>1. PICK w \in Volume : w = mk.vol /\ Roomy(w)
  BY DEF DiskInv, MkOK
<1>2. PICK n : n = mk.next /\ n \in DOMAIN MembersOf[w]
  BY <1>1 DEF WriteLabel, DiskInv, MkOK, MembersMade
<1>3. PICK dev \in Device : dev = MembersOf[w][n]
  BY <1>2, MembersFacts
<1>4. WriteLabel0(dev, Label(w, n)) /\ (Fitting(MembersOf[w]) => ZeroTable(w))
  BY <1>1, <1>2, <1>3 DEF WriteLabel, MembersMade, DiskInv, MkErased
<1>5. ASSUME Fitting(MembersOf[w]) PROVE OnDisk(w)'
  <2>1. ASSUME NEW c \in TableChunks PROVE Chunk(MembersOf[w], c)' = Zero
    <3>1. c \in Nat /\ c >= 1 /\ c < VolChunks(MembersOf[w])
      BY <1>1, MetaSmall
    <3>2. Chunk(MembersOf[w], c)' = Chunk(MembersOf[w], c)
      BY <1>4, <1>5, <3>1, MembersFacts, ChunkUnderLabels DEF DiskInv
    <3>3. QED
      BY <1>4, <1>5, <3>2 DEF ZeroTable
  <2>2. PICK tab : tab = TableOn(MembersOf[w])'
    OBVIOUS
  <2>3. ASSUME NEW e \in Entry PROVE tab[e] = Free
    <3>1. Chunk(MembersOf[w], 2 + e \div PerChunk)' = Zero
      BY <2>1, EntryFacts DEF TableChunkOf
    <3>2. QED
      BY <2>2, <3>1 DEF TableOn, Zero
  <2>4. Held(tab) = {}
    BY <2>3 DEF Held, IsFree, Free
  <2>5. QED
    BY <2>2, <2>4 DEF OnDisk, Orderly
<1>6. ASSUME NEW u \in Volume, Formatted(u)', Fitting(MembersOf[u])
      PROVE  (Formatted(u) /\ ChunksSame(u)) \/ OnDisk(u)'
  <2>1. CASE u = w
    BY <1>5, <1>6, <2>1
  <2>2. CASE u # w
    <3>1. \A m : Label(w, n) # Label(u, m)
      BY <2>2 DEF Label
    <3>2. QED
      BY <1>4, <1>6, <3>1, LabelKeeps
  <2>3. QED
    BY <2>1, <2>2
<1>7. QED
  BY <1>6, IdleKeeps

LEMMA FormatKeeps ==
  ASSUME VolumeAssumption, DiskInv, AdOK, ContentsInv, ad.pc = "idle", UNCHANGED adVars, MkNext
  PROVE  ContentsInv'
<1>1. CASE MkBegin \/ MkStop
  <2>1. disk' = disk
    BY <1>1 DEF MkBegin, MkStop
  <2>2. \A u \in Volume : Formatted(u)' => Formatted(u) /\ ChunksSame(u)
    BY <2>1 DEF Formatted, ChunksSame, Chunk
  <2>3. QED
    BY <2>2, IdleKeeps
<1>2. CASE EraseLabel
  <2>1. PICK w \in Volume : w = mk.vol
    BY DEF DiskInv, MkOK
  <2>2. PICK dev \in Device : WriteLabel0(dev, Zero)
    <3>1. mk.next \in DOMAIN MembersOf[w]
      BY <1>2, <2>1 DEF EraseLabel, DiskInv, MkOK, MembersMade
    <3>2. QED
      BY <1>2, <2>1, <3>1, MembersFacts DEF EraseLabel, MembersMade
  <2>3. \A u, m : Zero # Label(u, m)
    BY DEF Zero, Label
  <2>4. \A u \in Volume : Formatted(u)' /\ Fitting(MembersOf[u]) => Formatted(u) /\ ChunksSame(u)
    BY <2>2, <2>3, LabelKeeps
  <2>5. QED
    BY <2>4, IdleKeeps
<1>3. CASE EraseChunk \/ WriteConfig
  <2>1. PICK w \in Volume : w = mk.vol /\ Unlabelled(w)
    BY <1>3 DEF EraseChunk, WriteConfig, DiskInv, MkOK, MkErased
  <2>2. PICK n, x : n \in Nat /\ n >= 1 /\ WriteChunk(MembersOf[w], n, x)
    <3>1. CASE EraseChunk
      <4>1. PICK n \in Nat : n = mk.next /\ n >= 2
        BY <3>1 DEF EraseChunk, DiskInv, MkOK, MkErased
      <4>2. n >= 1 /\ WriteChunk(MembersOf[w], n, Zero)
        BY <2>1, <3>1, <4>1 DEF EraseChunk, MembersMade
      <4>3. QED
        BY <4>2
    <3>2. CASE WriteConfig
      <4>1. PICK n \in Nat : n = 1 /\ n >= 1
        OBVIOUS
      <4>2. WriteChunk(MembersOf[w], n, Config(w))
        BY <2>1, <3>2, <4>1 DEF WriteConfig, MembersMade
      <4>3. QED
        BY <4>1, <4>2
    <3>3. QED
      BY <1>3, <3>1, <3>2
  <2>3. \A u \in Volume : Formatted(u)' /\ Fitting(MembersOf[u]) => Formatted(u) /\ ChunksSame(u)
    BY <2>1, <2>2, FormattingKeeps
  <2>4. QED
    BY <2>3, IdleKeeps
<1>4. QED
  BY <1>1, <1>2, <1>3, WriteLabelKeeps DEF MkNext

-----------------------------------------------------------------------------
(* Every step keeps ContentsInv, and it holds at first: volume 1 is empty. *)
LEMMA ContentsStep ==
  ASSUME VolumeAssumption, IInv, ContentsInv, [Next]_vars
  PROVE  ContentsInv'
<1>1. DiskInv /\ AdOK
  BY DEF IInv
<1>2. CASE AdminIdle /\ Unmounted /\ MkNext /\ UNCHANGED <<adVars, mountVars>>
  BY <1>1, <1>2, FormatKeeps DEF AdminIdle
<1>3. CASE AdNext
  <2>1. CASE Command
    BY <1>1, <2>1, AddFileKeeps, AddLinkKeeps, RemoveKeeps, SetDefaultKeeps, ClearDefaultKeeps DEF Command
  <2>2. CASE CopyBlock \/ CopyEnd \/ CopyFails \/ WriteBackBegin \/ WriteBack \/ AdEnd \/ AdStop
    BY <1>1, <2>2, CopyBlockKeeps, CopyEndKeeps, CopyFailsKeeps, WriteBackBeginKeeps, WriteBackKeeps,
       AdEndKeeps, AdStopKeeps
  <2>3. QED
    BY <1>3, <2>1, <2>2 DEF AdNext
<1>4. CASE Session
  BY <1>1, <1>4, LoadKeeps DEF Session
<1>5. CASE AdminIdle /\ KmNext /\ UNCHANGED <<mk, adVars>>
  <2>1. disk' = disk
    BY <1>5 DEF KmNext, MountBegin, Probe, Detect, CloseOne, AllocPool, LoadHconf, LoadHtable, AllocBuffer,
                AllocCache, Umount, Fails
  <2>2. \A u \in Volume : Formatted(u)' => Formatted(u) /\ ChunksSame(u)
    BY <2>1 DEF Formatted, ChunksSame, Chunk
  <2>3. QED
    BY <1>1, <1>5, <2>2, IdleKeeps DEF AdminIdle
<1>6. CASE UNCHANGED vars
  <2>1. disk' = disk /\ ad' = ad /\ lost' = lost /\ tainted' = tainted /\ faulted' = faulted
    BY <1>6 DEF vars, adVars
  <2>2. CASE ad.pc = "idle"
    <3>1. \A u \in Volume : Formatted(u)' => Formatted(u) /\ ChunksSame(u)
      BY <2>1 DEF Formatted, ChunksSame, Chunk
    <3>2. QED
      BY <1>1, <1>6, <2>2, <3>1, IdleKeeps DEF vars
  <2>3. CASE ad.pc # "idle"
    <3>1. PICK v, s : SessionOf(v, s)
      BY <1>1, <2>3, InSessionIs
    <3>2. PICK r : r = ad' /\ r = s
      BY <2>1, <3>1 DEF SessionOf
    <3>3. FilesKept(v, r)' /\ CopyGoes(r) /\ TableRead(v, r)' /\ Registered(v, r)'
      <4>1. FilesKept(v, r) /\ CopyGoes(r) /\ TableRead(v, r) /\ Registered(v, r)
        BY <3>1, <3>2 DEF SessionOf
      <4>2. \A h : Kept(MembersOf[v], h)' <=> Kept(MembersOf[v], h)
        BY <2>1, DiskRests
      <4>3. \A h, i : BlockKept(MembersOf[v], h, i)' <=> BlockKept(MembersOf[v], h, i)
        BY <2>1, DiskRests
      <4>4. TableOn(MembersOf[v])' = TableOn(MembersOf[v])
        BY <2>1, DiskRests
      <4>5. FilesKept(v, r)'
        BY <2>1, <4>1, <4>2, <4>3 DEF FilesKept
      <4>6. TableRead(v, r)' /\ Registered(v, r)'
        BY <2>1, <4>1, <4>4 DEF TableRead, Read, Registered
      <4>7. QED
        BY <4>1, <4>5, <4>6
    <3>4. v \in tainted' => v \in faulted'
      BY <2>1 DEF ContentsInv
    <3>5. r.members = s.members /\ ad' = r
      BY <3>2
    <3>6. QED
      BY <1>1, <2>1, <3>1, <3>3, <3>4, <3>5, QuietKeeps
  <2>4. QED
    BY <2>2, <2>3
<1>7. QED
  BY <1>2, <1>3, <1>4, <1>5, <1>6 DEF Next

LEMMA ContentsStart ==
  ASSUME VolumeAssumption, Init
  PROVE  ContentsInv
<1>1. DiskInv /\ DiskInit
  BY DiskStarts DEF Init
<1>2. ad.members = << >> /\ tainted = {} /\ faulted = {}
  BY DEF Init, AdInit, NoSession
<1>3. ASSUME NEW d \in Device, NEW i \in 0 .. NbStripe - 1 PROVE disk[d][i].type # "table"
  <2>1. PICK ms : ms = MembersOf[1]
    OBVIOUS
  <2>2. PICK labels : /\ labels[d][i] = Zero \/ \E m : labels[d][i] = Label(1, m)
                      /\ disk = WithChunk(labels, ms, 1, Config(1))
    <3> DEFINE first(e, k) == IF k = 0 /\ \E m \in DOMAIN ms : ms[m] = e
                              THEN Label(1, CHOOSE m \in DOMAIN ms : ms[m] = e) ELSE Zero
    <3>1. PICK labels : labels = [e \in Device |-> [k \in 0 .. NbStripe - 1 |-> first(e, k)]]
      OBVIOUS
    <3>2. disk = WithChunk(labels, ms, 1, Config(1))
      BY <1>1, <2>1, <3>1 DEF DiskInit
    <3>3. first(d, i) = Zero \/ \E m : first(d, i) = Label(1, m)
      OBVIOUS
    <3>4. labels[d][i] = first(d, i)
      <4> HIDE DEF first
      <4>1. QED
        BY <3>1
    <3>5. QED
      BY <3>2, <3>3, <3>4
  <2>3. disk[d][i] = Config(1) \/ disk[d][i] = labels[d][i]
    <3> DEFINE hit(e, k) == \E s \in StripsOf(ms, 1) : ms[s[1] + 1] = e /\ s[2] = k
    <3>1. disk = [e \in Device |-> [k \in 0 .. NbStripe - 1 |-> IF hit(e, k) THEN Config(1) ELSE labels[e][k]]]
      BY <2>2 DEF WithChunk, StripsOf
    <3> HIDE DEF hit
    <3>2. QED
      BY <3>1
  <2>4. Zero.type # "table" /\ Config(1).type # "table" /\ \A m : Label(1, m).type # "table"
    BY DEF Zero, Label, Config
  <2>5. QED
    BY <2>2, <2>3, <2>4
<1>4. ASSUME NEW v \in Volume, Mountable(v) PROVE OnDisk(v)
  <2>1. PICK ms \in Seq(Device) : ms = MembersOf[v] /\ ms # << >>
    BY MembersFacts
  <2>2. Roomy(v) /\ Fitting(ms)
    BY <1>1, <1>4, <2>1, MountableIs, FormattedRoomy DEF DiskInv
  <2>3. ASSUME NEW e \in Entry PROVE TableOn(ms)[e] = Free
    <3>1. PICK c \in TableChunks : c = 2 + e \div PerChunk
      BY EntryFacts DEF TableChunkOf
    <3>2. c \in Nat /\ c >= 1 /\ c < VolChunks(ms)
      BY <2>1, <2>2, MetaSmall
    <3>3. PICK s \in StripsOf(ms, c) : Chunk(ms, c) = disk[ms[s[1] + 1]][s[2]]
      BY <2>1, <3>2, ChunkIs
    <3>4. ms[s[1] + 1] \in Device /\ s[2] \in 0 .. NbStripe - 1
      BY <2>1, <2>2, <3>2, <3>3, StripAt
    <3>5. Chunk(ms, c).type # "table"
      BY <1>3, <3>3, <3>4
    <3>6. QED
      BY <3>1, <3>5 DEF TableOn
  <2>4. Held(TableOn(ms)) = {}
    BY <2>3 DEF Held, IsFree, Free
  <2>5. QED
    BY <2>1, <2>4 DEF OnDisk, Orderly
<1>5. \A v \in Volume : MembersOf[v] # << >>
  BY MembersFacts
<1>6. QED
  BY <1>2, <1>4, <1>5 DEF ContentsInv

LEMMA ContentsFollow ==
  ASSUME VolumeAssumption, IInv, ContentsInv
  PROVE  ContentsKept
<1>1. ASSUME NEW v \in Volume, Mountable(v), v \notin tainted
      PROVE  LET tab       == TableOn(MembersOf[v])
                 inSession == ad.members = MembersOf[v]
             IN  /\ inSession => \A e \in Held(ad.tab) : ad.tab[e].done => Kept(ad.members, ad.tab[e])
                 /\ \A e \in Held(tab) :
                      tab[e].done /\ <<v, e>> \notin lost /\ (inSession => ad.tab[e] = tab[e])
                        => Kept(MembersOf[v], tab[e])
  <2>1. PICK tab : tab = TableOn(MembersOf[v])
    OBVIOUS
  <2>2. CASE ad.members = MembersOf[v]
    <3>1. \A e \in Held(ad.tab) : ad.tab[e].done => Kept(MembersOf[v], ad.tab[e])
      BY <1>1, <2>2 DEF ContentsInv, InMemory, FilesKept
    <3>2. ASSUME NEW e \in Held(tab), tab[e].done, ad.tab[e] = tab[e] PROVE Kept(MembersOf[v], tab[e])
      BY <3>1, <3>2 DEF Held
    <3>3. QED
      BY <2>1, <2>2, <3>1, <3>2
  <2>3. CASE ad.members # MembersOf[v]
    <3>1. OnDisk(v)
      BY <1>1, <2>3 DEF ContentsInv
    <3>2. QED
      BY <1>1, <2>3, <3>1 DEF OnDisk
  <2>4. QED
    BY <2>2, <2>3
<1>2. tainted \subseteq faulted
  BY DEF ContentsInv
<1>3. QED
  BY <1>1, <1>2 DEF ContentsKept

(* A file that shfs_admin has added keeps its blocks, whatever is added    *)
(* and removed after it and wherever shfs_mkfs and shfs_admin end, and no  *)
(* two containers overlap before a command fails halfway or the removal of *)
(* an entry is forgotten.                                                  *)
THEOREM FilesAreKept == Spec => []ContentsKept
<1>1. Init => IInv /\ ContentsInv
  BY VolumeStarts, ContentsStart, VolumeAssumption
<1>2. IInv /\ ContentsInv /\ [Next]_vars => IInv' /\ ContentsInv'
  BY VolumeStep, ContentsStep, VolumeAssumption
<1>3. IInv /\ ContentsInv => ContentsKept
  BY ContentsFollow, VolumeAssumption
<1>4. QED
  BY <1>1, <1>2, <1>3, PTL DEF Spec
=============================================================================
