----------------------------- MODULE ShfsLayout -----------------------------
(***************************************************************************)
(* Where an SHFS volume lies on its members: the size that shfs_mkfs gives *)
(* it, the size that the mount and shfs_admin require of a member, and the *)
(* stripes of a chunk.  Sizes are unsigned integers of Word values, in any *)
(* unit of which a stripe is a multiple.                                   *)
(***************************************************************************)
EXTENDS Integers, FiniteSets

CONSTANT Word        \* how many values a size has

Wrap(x) == x % Word

(* A layout: mode is "combined", where every member has a stripe of every  *)
(* chunk, or "independent", where a chunk is one stripe; nb members, and   *)
(* the size of a stripe.                                                   *)
Combined(lay) == lay.mode = "combined"

(* main of shfs_mkfs: a single member is never striped. *)
Modes(nb) == IF nb > 1 THEN {"combined", "independent"} ELSE {"independent"}

(* SHFS_CHUNKSIZE *)
ChunkSize(lay) == IF Combined(lay) THEN lay.stripe * lay.nb ELSE lay.stripe

(* mkfs: the smallest member limits the volume, and the label takes one    *)
(* stripe of each.                                                         *)
VolSize(lay, size) ==
  IF Combined(lay) THEN Wrap(size - ChunkSize(lay) + lay.stripe) \div lay.stripe
  ELSE (Wrap(size - ChunkSize(lay)) \div ChunkSize(lay)) * lay.nb

(* load_vol_cconf of the mount and of shfs_admin. *)
MinMemberSize(lay, volsize) ==
  IF Combined(lay) THEN (volsize + 1) * lay.stripe
  ELSE ((volsize + 1) \div lay.nb) * lay.stripe

(* SHFS_HTABLE_SIZE_CHUNKS, and metadata_size with no copy of the table.   *)
HtableChunks(entries, perChunk) == (entries + perChunk - 1) \div perChunk
MetadataSize(entries, perChunk) == 2 + HtableChunks(entries, perChunk)

(* sync_io_chunk and sync_erase_chunk: the stripes of chunks start and on, *)
(* each a member and the number of a stripe on it.  Independent chunks     *)
(* leave out the first nb stripes, which have the labels.                  *)
StripNos(lay, start, len) ==
  IF Combined(lay) THEN start * lay.nb .. (start + len) * lay.nb - 1
  ELSE start + lay.nb - 1 .. start + lay.nb - 1 + len - 1
StripsBug(lay, start, len) ==
  {<<s % lay.nb, s \div lay.nb>> : s \in IF Combined(lay) THEN StripNos(lay, start, len)
                                         ELSE start .. start + len - 1}
Strips(lay, start, len) == {<<s % lay.nb, s \div lay.nb>> : s \in StripNos(lay, start, len)}
=============================================================================
