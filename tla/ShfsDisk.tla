------------------------------ MODULE ShfsDisk ------------------------------
(***************************************************************************)
(* The devices of SHFS volumes and what shfs_mkfs, shfs_admin and the      *)
(* mount read and write on them.  A device is a row of stripes.  Stripe 0  *)
(* has the label; the chunks of a volume lie on its members as ShfsLayout  *)
(* says: chunk 1 has the configuration, the chunks from 2 on the hash      *)
(* table.  A chunk is written at once.                                     *)
(***************************************************************************)
EXTENDS ShfsLayout, Sequences, SequencesExt

CONSTANTS Device,     \* block devices
          NbStripe,   \* stripes of a device
          Volume,     \* volumes that are made one after the other: 1 .. the last
          MembersOf,  \* the devices of each, in the order of the label
          Mode,       \* "combined" or "independent"
          NbEntry,    \* htable_nb_entries
          PerChunk,   \* htable_nb_entries_per_chunk
          File,       \* files: their blocks, and whether the last block is a full chunk
          Link        \* digests of remote links

VARIABLE disk         \* of each device, the contents of its stripes

Entry == 0 .. NbEntry - 1
TableChunks == 2 .. 1 + HtableChunks(NbEntry, PerChunk)
EntriesOf(c) == {e \in Entry : e \div PerChunk = c - 2}

(* Contents.  Table chunks carry the volume they were written for, which   *)
(* the code does not see.                                                  *)
Zero == [type |-> "zero"]
Label(v, m) == [type |-> "label", vol |-> v, me |-> m]
Config(v) == [type |-> "config", vol |-> v]
Table(v, ent) == [type |-> "table", vol |-> v, ent |-> ent]
Data(b) == [type |-> "data", block |-> b]

(* An entry: free, a file or a link; where its container begins; `done',   *)
(* which the code does not have, tells that all of the file was written.   *)
Free == [is |-> "free", what |-> << >>, at |-> 0, def |-> FALSE, done |-> FALSE]
IsFree(h) == h.is = "free"

Lay(members) == [mode |-> IF Len(members) > 1 THEN Mode ELSE "independent",
                 nb |-> Len(members), stripe |-> 1]
VolChunks(members) == VolSize(Lay(members), NbStripe)

(* sync_io_chunk and shfs_aio_chunk, of one chunk.                         *)
Chunk(members, c) ==
  LET s == CHOOSE s \in Strips(Lay(members), c, 1) : TRUE IN disk[members[s[1] + 1]][s[2]]
WithChunk(d, members, c, x) ==
  [dev \in Device |->
     [i \in 0 .. NbStripe - 1 |->
        IF \E s \in Strips(Lay(members), c, 1) : members[s[1] + 1] = dev /\ s[2] = i
        THEN x ELSE d[dev][i]]]
WriteChunk(members, c, x) == disk' = WithChunk(disk, members, c, x)
WriteLabel0(dev, x) == disk' = [disk EXCEPT ![dev][0] = x]

(* The hash table as it is on the devices: what was erased is empty.       *)
TableOn(members) ==
  [e \in Entry |-> LET x == Chunk(members, 2 + e \div PerChunk)
                   IN  IF x.type = "table" THEN x.ent[e] ELSE Free]

(* Search of load_vol_cconf, of the kernel and of shfs_admin: the members  *)
(* that the label of the first device names, when all are among those      *)
(* detected.                                                               *)
IsLabel(dev) == disk[dev][0].type = "label"
VolumeOf(detected) == disk[detected[1]][0].vol
WithUuid(detected, v, m) == {i \in DOMAIN detected : disk[detected[i]][0] = Label(v, m)}
AllFound(detected) ==
  LET v == VolumeOf(detected) IN \A m \in DOMAIN MembersOf[v] : WithUuid(detected, v, m) # {}
FoundMembers(detected) ==
  LET v == VolumeOf(detected)
  IN  [m \in DOMAIN MembersOf[v] |->
         detected[CHOOSE i \in WithUuid(detected, v, m) : \A j \in WithUuid(detected, v, m) : i <= j]]

(* Volume 1 was formatted before: it has a label and an empty table.       *)
DiskInit ==
  LET labels == [dev \in Device |-> [i \in 0 .. NbStripe - 1 |->
                   IF i = 0 /\ \E m \in DOMAIN MembersOf[1] : MembersOf[1][m] = dev
                   THEN Label(1, CHOOSE m \in DOMAIN MembersOf[1] : MembersOf[1][m] = dev)
                   ELSE Zero]]
  IN  disk = WithChunk(labels, MembersOf[1], 1, Config(1))

(* Every member has its label. *)
Formatted(v) == \A m \in DOMAIN MembersOf[v] : disk[MembersOf[v][m]][0] = Label(v, m)
=============================================================================
