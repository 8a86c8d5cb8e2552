------------------------------- MODULE FatVolume -------------------------------
(***************************************************************************)
(* A FAT volume read without the file system: what its directory, its      *)
(* chains and its files are, given the contents v of its blocks.  The      *)
(* properties of asyncfatfs compare this with what its callers were told.  *)
(***************************************************************************)
EXTENDS AsyncFatFs

Sectors == 0..LastSector
Clusters == 2..SearchLimit - 1
FirstSector(c) == ClusterStart + (c - 2) * SectorsPerCluster

FatOf(v, c) == v[fatSectorToPhysical(c)][fatEntry(c)]

(* The clusters from c on; a chain that does not end, or runs into a free  *)
(* cluster, shows as << 0 >> at its end.                                   *)
RECURSIVE ChainFrom(_, _, _)
ChainFrom(v, c, seen) ==
    CASE c = EndOfChain -> << >>
      [] c # EndOfChain /\ (c \notin Clusters \/ c \in seen) -> << 0 >>
      [] OTHER -> << c >> \o ChainFrom(v, FatOf(v, c), seen \cup {c})

Chain(v, first) == IF first = 0 THEN << >> ELSE ChainFrom(v, first, {})

SectorsOf(chain) ==
    FlattenSeq([i \in DOMAIN chain |->
                  [k \in 1..SectorsPerCluster |-> FirstSector(chain[i]) + k - 1]])

(* The entries of the directory that starts at a cluster, up to the first  *)
(* terminator or sector that is not zeroed yet (it holds junk or what a    *)
(* file left there), and those of them that name something.                *)
EntriesOf(v, first) ==
    LET sectors == SectorsOf(SelectSeq(Chain(v, first), LAMBDA c : c # 0))
        all == FlattenSeq([i \in DOMAIN sectors |->
                             [e \in 1..FilesPerSector |-> v[sectors[i]][e - 1]]])
        ends == {i \in DOMAIN all : all[i] = Junk \/ all[i].name \in {"end", "data"}}
    IN  IF ends = {} THEN all ELSE SubSeq(all, 1, Min(ends) - 1)

Named(e) == e.name \notin {"deleted", "label"}
FilesOf(v, first) == SelectSeq(EntriesOf(v, first), Named)
Names(v, first) == {e.name : e \in ToSet(FilesOf(v, first))}
EntryOf(v, first, name) ==
    SelectSeq(FilesOf(v, first), LAMBDA e : e.name = name)[1]

(* A unit of a file's data. *)
Unit(name, at) == [name |-> "data", of |-> name, at |-> at]

(* What a reader of the entry sees. *)
ContentOf(v, e) ==
    LET sectors == SectorsOf(SelectSeq(Chain(v, e.first), LAMBDA c : c # 0))
        units == FlattenSeq([i \in DOMAIN sectors |->
                               [u \in 1..SectorSize |-> v[sectors[i]][u - 1]]])
    IN  SubSeq(units, 1, Min({e.size, Len(units)}))

(* The contents of the blocks as the file system sees them: a sector that  *)
(* is in the cache hides the one on the disk.                              *)
Cached(cache, b) ==
    {i \in Slots : /\ cache.desc[i].sector = b
                   /\ cache.desc[i].state \in {"IN_SYNC", "WRITING", "DIRTY"}}
Image(cache, mem, disk) ==
    [b \in Sectors |-> IF Cached(cache, b) = {} THEN disk[b]
                       ELSE mem[Min(Cached(cache, b))]]
================================================================================
