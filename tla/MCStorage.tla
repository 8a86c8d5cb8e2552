------------------------------- MODULE MCStorage -------------------------------
(***************************************************************************)
(* FatCommands on a small disk: a root directory of two clusters, with a   *)
(* label, a deleted entry, the file "a" of two clusters, the last one half *)
(* full, and the directory "d" that holds the empty file "e".              *)
(***************************************************************************)
EXTENDS FatCommands

Entry(name, first, size) == [name |-> name, first |-> first, size |-> size]
DirectorySector(e0, e1) == [i \in 0..1 |-> IF i = 0 THEN e0 ELSE e1]

Fat == << EndOfChain, EndOfChain, 3, EndOfChain, 6, EndOfChain, EndOfChain, 0 >>

SmallDisk ==
    [b \in Sectors |->
        CASE b = 0 -> MbrSector
          [] b = PartitionStart -> VolumeSector
          [] b \in FatStart..ClusterStart - 1 ->
               [i \in 0..FatEntries - 1 |-> Fat[((b - FatStart) % FatSectors) * FatEntries + i + 1]]
          [] b = FirstSector(2) -> DirectorySector(Entry("label", 0, 0), Entry("d", 5, 0))
          [] b = FirstSector(3) -> DirectorySector(Deleted, Entry("a", 4, SectorSize + 1))
          [] b = FirstSector(4) -> [u \in 0..SectorSize - 1 |-> Unit("a", u + 1)]
          [] b = FirstSector(5) -> DirectorySector(Entry("e", 0, 0), Terminator)
          [] b = FirstSector(6) -> [u \in 0..SectorSize - 1 |-> Unit("a", SectorSize + u + 1)]
          [] OTHER -> JunkSector]

CommandLines == { << "fat", "" >>, << "dir", "." >>, << "dir", "d" >>, << "cat", "a" >>,
                  << "cat", "e" >>, << "cd", "d" >>, << "cd", ".." >>, << "read", 6 >> }
================================================================================
