--------------------------------- MODULE MCFat ---------------------------------
(***************************************************************************)
(* FatWriter on a small volume: a root directory of one cluster, full, or  *)
(* of two; the file "a", which fills one cluster; the rest is free.        *)
(***************************************************************************)
EXTENDS FatWriter, TLC

CONSTANT RootClusters  \* of the directory: 1, all entries in use, or 2

Entry(name, first, size) == [name |-> name, first |-> first, size |-> size]
DirectorySector(e0, e1) == [i \in 0..1 |-> IF i = 0 THEN e0 ELSE e1]

AFirst == RootClusters + 2

(* FAT entries 0 and 1 are reserved; 2, or 2 -> 3, is the root directory.  *)
FatSector(k) ==
    [i \in 0..FatEntries - 1 |->
        LET c == k * FatEntries + i
        IN  CASE c = 2 -> IF RootClusters = 2 THEN 3 ELSE EndOfChain
              [] c \in {0, 1, RootClusters + 1, AFirst} \/ c >= SearchLimit -> EndOfChain
              [] OTHER -> 0]

SmallVolume ==
    [b \in Sectors |->
        CASE b = 0 -> MbrSector
          [] b = PartitionStart -> VolumeSector
          [] b \in FatStart..ClusterStart - 1 -> FatSector((b - FatStart) % FatSectors)
          [] b = FirstSector(2) -> DirectorySector(Entry("label", 0, 0), Entry("a", AFirst, SectorSize))
          [] b = FirstSector(3) /\ RootClusters = 2 -> EmptyDirectorySector
          [] b = FirstSector(AFirst) -> [u \in 0..SectorSize - 1 |-> Unit("a", u + 1)]
          [] OTHER -> JunkSector]

(* Replace a file, append to it, delete it. *)
WriterJobs == { << "w", 2, "close" >>, << "a", 1, "close" >>,
                << "a", 0, "unlink" >> }
ClientSymmetry == Permutations(Clients)
================================================================================
