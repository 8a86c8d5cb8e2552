------------------------------- MODULE AsyncFatFs -------------------------------
(***************************************************************************)
(* The asynchronous FAT file system (fat/asyncfatfs.c, Lab20; FAT32,       *)
(* freefile, multiple-block writes and the introspective log not compiled  *)
(* in).  Nothing waits: a routine that needs a sector asks the cache for   *)
(* it, gives up when the sector is not there yet, and is called again by   *)
(* afatfs_poll.  A long operation keeps its phase in the file handle.      *)
(*                                                                         *)
(* A routine is an operator on a record s that holds everything it may     *)
(* change: s.drive (the block device), s.mem (the cache memory), s.cache,  *)
(* s.fs (the rest of afatfs_t) and s.app (the caller, which callbacks      *)
(* change).  File handle 0 is currentDirectory.  Cache entries count from  *)
(* 1 and 0 stands for the index -1.  Sizes and offsets are in units, of    *)
(* which a sector has SectorSize.  The timestamps of the cache are kept as *)
(* orders: lru by last access, wrt, of the sectors that are dirty or being *)
(* written, by first dirtying.                                             *)
(***************************************************************************)
EXTENDS Integers, Sequences, SequencesExt, FiniteSetsExt

CONSTANTS
    NumCacheSectors,   \* AFATFS_NUM_CACHE_SECTORS
    MaxOpenFiles,      \* AFATFS_MAX_OPEN_FILES
    SectorSize,        \* AFATFS_SECTOR_SIZE
    SectorsPerCluster, \* of the volume
    FilesPerSector,    \* AFATFS_FILES_PER_DIRECTORY_SECTOR
    FatEntries,        \* FAT entries per sector
    FatSectors,        \* sectors of one FAT
    NumClusters,       \* of the volume
    Junk,              \* what memory and blocks nobody has written hold
    ReadBlock(_, _, _),  \* sdcard_readBlock(drive, sector, slot): drive, ok
    WriteBlock(_, _, _), \* sdcard_writeBlock(drive, sector, slot): drive, status
    CardReady(_),        \* sdcard_poll(drive)
    Callback(_, _, _)    \* the file callback of the caller: s, its name, file

ASSUME VolumeAssumption ==
    /\ {NumCacheSectors, MaxOpenFiles, SectorSize, SectorsPerCluster,
        FilesPerSector, FatEntries, FatSectors, NumClusters} \subseteq Nat \ {0}
    /\ FatSectors * FatEntries >= NumClusters + 2
    /\ FilesPerSector >= 2

Slots == 1..NumCacheSectors
Files == 0..MaxOpenFiles
CWD == 0

(* The layout parseMBR and parseVolumeID find: the volume starts at        *)
(* sector 1, two FATs follow its header, the root directory is cluster 2.  *)
PartitionStart == 1
FatStart == 2
ClusterStart == FatStart + 2 * FatSectors
RootCluster == 2
SearchLimit == NumClusters + 2
LastSector == ClusterStart + NumClusters * SectorsPerCluster - 1
EndOfChain == FatEntries * LastSector  \* its FAT entry would lie off the volume

clusterSize == SectorSize * SectorsPerCluster
isEndOfChain(c) == c = EndOfChain
fatSectorToPhysical(c) == FatStart + c \div FatEntries
fatEntry(c) == c % FatEntries

NoPos == [sector |-> 0, entry |-> -1]
Deleted == [name |-> "deleted", first |-> 0, size |-> 0]
Terminator == [name |-> "end", first |-> 0, size |-> 0]
NoEntry == [name |-> "null", first |-> 0, size |-> 0]
JunkSector == [u \in 0..SectorSize - 1 |-> Junk]
MbrSector == [u \in {0} |-> "mbr"]
VolumeSector == [u \in {0} |-> "volume"]
EmptyDirectorySector == [i \in 0..FilesPerSector - 1 |-> Terminator]

(* afatfs_initFileHandle: a zeroed handle. *)
FreeHandle ==
    [ type |-> "NONE", mode |-> {}, op |-> "NONE", phase |-> "", cb |-> "none",
      name |-> "", first |-> 0, prev |-> 0, cur |-> 0, off |-> 0, size |-> 0,
      phys |-> 0, lock |-> 0, retain |-> 0, pos |-> NoPos,
      append |-> "", previousCluster |-> 0, searchCluster |-> 0, seek |-> 0,
      currentCluster |-> 0 ]

ZeroedCache ==
    [ desc |-> [i \in Slots |-> [sector |-> 0, state |-> "EMPTY", locked |-> FALSE,
                                 retain |-> 0, discardable |-> FALSE]],
      lru |-> << >>, wrt |-> << >>,
      dirty |-> 0, flushing |-> FALSE ]

ZeroedFs ==
    [ state |-> "UNKNOWN", initPhase |-> "READ_MBR", last |-> 0, full |-> FALSE,
      mounted |-> FALSE, files |-> [f \in Files |-> FreeHandle] ]

(* afatfs_assert(false) *)
Fatal(s) == [s EXCEPT !.fs.state = "FATAL"]
isBusy(s, f) == s.fs.files[f].op # "NONE"

(* An operation is over; its state is dead.                                *)
Over(s, f) ==
    [s EXCEPT !.fs.files[f] =
        [@ EXCEPT !.op = "NONE", !.phase = "", !.cb = "none", !.name = "", !.append = "",
                  !.previousCluster = 0, !.searchCluster = 0, !.seek = 0,
                  !.currentCluster = 0]]

(* A callback, and the file it is given when there is none.                *)
NULL == -1
Call(s, cb, f) == IF cb = "none" THEN s ELSE Callback(s, cb, f)

--------------------------------------------------------------------------------
(* The cache of sectors. *)

Without(order, i) == SelectSeq(order, LAMBDA j : j # i)
Latest(order, i) == Append(Without(order, i), i)

(* Mutant of cacheSectorMarkDirty: a sector that is being written still    *)
(* counts as dirty.                                                        *)
cacheSectorMarkDirty_uncounted(c, i) ==
    IF c.desc[i].state = "DIRTY" THEN c
    ELSE [c EXCEPT !.desc[i].state = "DIRTY", !.wrt = Latest(@, i),
                   !.dirty = IF c.desc[i].state = "WRITING" THEN @ ELSE @ + 1]

cacheSectorMarkDirty(c, i) ==
    IF c.desc[i].state = "DIRTY" THEN c
    ELSE [c EXCEPT !.desc[i].state = "DIRTY", !.wrt = Latest(@, i), !.dirty = @ + 1]

cacheSectorInit(c, i, sector) ==
    [c EXCEPT !.desc[i] = [sector |-> sector, state |-> "EMPTY", locked |-> FALSE,
                           retain |-> 0, discardable |-> FALSE],
              !.lru = Latest(@, i)]

(* Which entry a sector gets: its own, else the last empty one, else a     *)
(* discardable synced one, else the synced one used longest ago.           *)
Victim(c, sector) ==
    LET holders == {i \in Slots : c.desc[i].sector = sector}
        empty == {i \in Slots : c.desc[i].state = "EMPTY"}
        evictable == {i \in Slots : /\ c.desc[i].state = "IN_SYNC"
                                    /\ ~c.desc[i].locked
                                    /\ c.desc[i].retain = 0}
        discardable == {i \in evictable : c.desc[i].discardable}
    IN  CASE holders # {} -> Min(holders)
          [] holders = {} /\ empty # {} -> Max(empty)
          [] holders = {} /\ empty = {} /\ discardable # {} -> Max(discardable)
          [] OTHER -> Head(SelectSeq(c.lru, LAMBDA i : i \in evictable) \o << 0 >>)

allocateCacheSector(c, sector) ==
    LET Take(i) ==
            CASE i = 0 -> [c |-> c, i |-> 0]
              [] i # 0 /\ c.desc[i].sector = sector /\ c.desc[i].state # "EMPTY" ->
                   [c |-> [c EXCEPT !.lru = Latest(@, i)], i |-> i]
              [] OTHER -> [c |-> cacheSectorInit(c, i, sector), i |-> i]
    IN  Take(Victim(c, sector))

(* The rest of afatfs_cacheSector, for the entry it was given.  The memory *)
(* of one that is not filled yet is junk, also when it is only written.    *)
UseCacheSector(s, sector, flags, c, i) ==
    LET state == c.desc[i].state
        read == ReadBlock(s.drive, sector, i)
        filled == IF state = "EMPTY"
                  THEN [c EXCEPT !.desc[i].discardable = "DISCARDABLE" \in flags] ELSE c
        dirtied == IF "WRITE" \in flags THEN cacheSectorMarkDirty(filled, i) ELSE filled
    IN  CASE i = 0 -> [s |-> s, st |-> "IN_PROGRESS", i |-> 0]
          [] i # 0 /\ state = "READING" ->
               [s |-> [s EXCEPT !.cache = c], st |-> "IN_PROGRESS", i |-> i]
          [] i # 0 /\ state = "EMPTY" /\ "READ" \in flags ->
               [s |-> [s EXCEPT !.drive = read.d, !.mem[i] = JunkSector,
                                !.cache = IF read.ok
                                          THEN [c EXCEPT !.desc[i].state = "READING"]
                                          ELSE c],
                st |-> "IN_PROGRESS", i |-> i]
          [] OTHER ->
               [s |-> [s EXCEPT !.cache = [dirtied EXCEPT
                                   !.desc[i].locked = @ \/ "LOCK" \in flags,
                                   !.desc[i].retain = IF "RETAIN" \in flags THEN @ + 1 ELSE @],
                                !.mem[i] = IF state = "EMPTY" THEN JunkSector ELSE @],
                st |-> "SUCCESS", i |-> i]

cacheSector(s, sector, flags) ==
    LET Use(a) == UseCacheSector(s, sector, flags, a.c, a.i)
    IN  CASE s.fs.mounted /\ sector > LastSector ->
               [s |-> Fatal(s), st |-> "IN_PROGRESS", i |-> 0]
          [] "WRITE" \in flags /\ sector = 0 ->
               [s |-> Fatal(s), st |-> "FAILURE", i |-> 0]
          [] OTHER -> Use(allocateCacheSector(s.cache, sector))

(* Mutant of sdcardReadComplete: a read that failed leaves the entry.      *)
sdcardReadComplete_unanswered(s, sector, buffer) ==
    LET found == {i \in Slots : /\ s.cache.desc[i].state # "EMPTY"
                                /\ s.cache.desc[i].sector = sector}
    IN  IF found = {} \/ buffer = 0 THEN s
        ELSE [s EXCEPT !.cache.desc[Min(found)].state = "IN_SYNC"]

(* afatfs_sdcardReadComplete: the entry that is being read for this sector *)
(* becomes usable, or empty again when buffer is NULL (0).                 *)
sdcardReadComplete(s, sector, buffer) ==
    LET found == {i \in Slots : /\ s.cache.desc[i].state # "EMPTY"
                                /\ s.cache.desc[i].sector = sector}
        i == Min(found)
        sound == i = buffer /\ s.cache.desc[i].state = "READING"
        t == [s EXCEPT !.cache.desc[i].state = "IN_SYNC"]
    IN  CASE found = {} -> s
          [] found # {} /\ buffer = 0 -> [s EXCEPT !.cache.desc[i].state = "EMPTY"]
          [] OTHER -> IF sound THEN t ELSE Fatal(t)

(* Mutant of sdcardWriteComplete: a write that failed counts as done.      *)
sdcardWriteComplete_blind(s, sector, buffer) ==
    LET found == {i \in Slots : /\ s.cache.desc[i].state = "WRITING"
                                /\ s.cache.desc[i].sector = sector}
        over == [s EXCEPT !.cache.flushing = FALSE]
    IN  IF found = {} THEN over
        ELSE [over EXCEPT !.cache.desc[Min(found)].state = "IN_SYNC",
                          !.cache.wrt = Without(@, Min(found))]

(* afatfs_sdcardWriteComplete: an entry dirtied again meanwhile stays so.  *)
sdcardWriteComplete(s, sector, buffer) ==
    LET found == {i \in Slots : /\ s.cache.desc[i].state = "WRITING"
                                /\ s.cache.desc[i].sector = sector}
        i == Min(found)
        over == [s EXCEPT !.cache.flushing = FALSE]
        t == [over EXCEPT !.cache.desc[i].state = "IN_SYNC", !.cache.wrt = Without(@, i)]
    IN  CASE found = {} -> over
          [] found # {} /\ buffer = 0 ->
               [over EXCEPT !.cache.desc[i].state = "DIRTY", !.cache.dirty = @ + 1]
          [] OTHER -> IF i = buffer THEN t ELSE Fatal(t)

(* afatfs_flush with afatfs_cacheFlushSector: start to write the unlocked  *)
(* sector that has been dirty longest.                                     *)
Flushable(c) ==
    SelectSeq(c.wrt, LAMBDA i : c.desc[i].state = "DIRTY" /\ ~c.desc[i].locked)

flush(s) ==
    LET i == Head(Flushable(s.cache))
        w == WriteBlock(s.drive, s.cache.desc[i].sector, i)
        t == [s EXCEPT !.drive = w.d]
    IN  IF s.cache.dirty <= 0 \/ Flushable(s.cache) = << >> THEN s
        ELSE IF w.status = "IN_PROGRESS"
             THEN [t EXCEPT !.cache.dirty = @ - 1, !.cache.flushing = TRUE,
                            !.cache.desc[i].state = "WRITING"]
             ELSE t

--------------------------------------------------------------------------------
(* The FAT, seeking, and the sector at a file's cursor. *)

FATGetNextCluster(s, c) ==
    LET Get(r) == [s |-> r.s, st |-> r.st,
                   next |-> IF r.st = "SUCCESS" THEN r.s.mem[r.i][fatEntry(c)] ELSE 0]
    IN  Get(cacheSector(s, fatSectorToPhysical(c), {"READ"}))

(* Mutant of FATSetNextCluster: the sector is not marked dirty.            *)
FATSetNextCluster_clean(s, c, next) ==
    LET Set(r) == [s |-> IF r.st = "SUCCESS" THEN [r.s EXCEPT !.mem[r.i][fatEntry(c)] = next]
                         ELSE r.s,
                   st |-> r.st]
    IN  Set(cacheSector(s, fatSectorToPhysical(c), {"READ"}))

FATSetNextCluster(s, c, next) ==
    LET Set(r) == [s |-> IF r.st = "SUCCESS" THEN [r.s EXCEPT !.mem[r.i][fatEntry(c)] = next]
                         ELSE r.s,
                   st |-> r.st]
    IN  IF c < 2 THEN [s |-> Fatal(s), st |-> "FAILURE"]
        ELSE Set(cacheSector(s, fatSectorToPhysical(c), {"READ", "WRITE"}))

(* afatfs_findClusterWithCondition(CLUSTER_SEARCH_FREE): through the FAT,  *)
(* sector by sector, from the given cluster on; it never goes back to the  *)
(* clusters below.                                                         *)
RECURSIVE findFreeCluster(_, _)
findFreeCluster(s, c) ==
    LET next == (c \div FatEntries + 1) * FatEntries
        Free(r) == {n \in c..next - 1 : n < SearchLimit /\ r.s.mem[r.i][fatEntry(n)] = 0}
        Search(r) ==
            CASE r.st # "SUCCESS" ->
                   [s |-> r.s, st |-> IF r.st = "FAILURE" THEN "FATAL" ELSE r.st, c |-> c]
              [] r.st = "SUCCESS" /\ Free(r) # {} ->
                   [s |-> r.s, st |-> "FOUND", c |-> Min(Free(r))]
              [] OTHER -> findFreeCluster(r.s, next)
    IN  IF c >= SearchLimit THEN [s |-> s, st |-> "NOT_FOUND", c |-> SearchLimit]
        ELSE Search(cacheSector(s, fatSectorToPhysical(c), {"READ", "DISCARDABLE"}))

isEndOfAllocatedFile(file) == file.cur = 0 \/ isEndOfChain(file.cur)

fileGetCursorPhysicalSector(file) ==
    ClusterStart + (file.cur - 2) * SectorsPerCluster
      + (file.off % clusterSize) \div SectorSize

fileUpdateFilesize(s, f) ==
    [s EXCEPT !.fs.files[f].size = IF @ > s.fs.files[f].off THEN @ ELSE s.fs.files[f].off]

fileUnlockCacheSector(s, f) ==
    LET file == s.fs.files[f]
        unlocked == IF file.lock = 0 THEN s.cache
                    ELSE [s.cache EXCEPT !.desc[file.lock].locked = FALSE]
    IN  [s EXCEPT !.cache = IF file.retain = 0 THEN unlocked
                            ELSE [unlocked EXCEPT !.desc[file.retain].retain =
                                                     IF @ > 0 THEN @ - 1 ELSE 0],
                  !.fs.files[f].lock = 0, !.fs.files[f].retain = 0]

fileRetainCursorSectorForRead(s, f) ==
    LET file == s.fs.files[f]
        sector == fileGetCursorPhysicalSector(file)
        Retain(r) == IF r.st = "SUCCESS"
                     THEN [s |-> [r.s EXCEPT !.fs.files[f].retain = r.i], i |-> r.i]
                     ELSE [s |-> r.s, i |-> 0]
    IN  CASE file.retain # 0 ->
               IF s.cache.desc[file.retain].sector = sector
               THEN [s |-> s, i |-> file.retain] ELSE [s |-> Fatal(s), i |-> 0]
          [] file.retain = 0 /\ isEndOfAllocatedFile(file) -> [s |-> s, i |-> 0]
          [] OTHER -> Retain(cacheSector(s, sector, {"READ", "RETAIN"}))

(* afatfs_fseekAtomic: within the sector, or at most one cluster forward,  *)
(* which may need the FAT; then it moves nothing and is tried again.       *)
fseekAtomic(s, f, offset) ==
    LET file == s.fs.files[f]
        u == fileUnlockCacheSector(s, f)
        inCluster == file.off % clusterSize
        rest == offset - (clusterSize - inCluster)
        Cross(r) ==
            IF r.st # "SUCCESS" THEN [s |-> r.s, ok |-> FALSE]
            ELSE [s |-> [r.s EXCEPT !.fs.files[f].prev = file.cur, !.fs.files[f].cur = r.next,
                                    !.fs.files[f].off = @ + clusterSize - inCluster
                                      + (IF r.next = 0 \/ isEndOfChain(r.next) THEN 0 ELSE rest)],
                  ok |-> TRUE]
    IN  CASE offset + (file.off % SectorSize) \in 0..SectorSize - 1 ->
               [s |-> [s EXCEPT !.fs.files[f].off = @ + offset], ok |-> TRUE]
          [] offset > clusterSize \/ offset < -inCluster -> [s |-> u, ok |-> FALSE]
          [] inCluster + offset >= clusterSize -> Cross(FATGetNextCluster(u, file.cur))
          [] OTHER ->
               [s |-> [u EXCEPT !.fs.files[f].off =
                                   IF isEndOfAllocatedFile(file) THEN @ ELSE @ + offset],
                ok |-> TRUE]

(* afatfs_fseekInternalContinue: cluster by cluster until seekOffset is    *)
(* used up or the chain ends.                                              *)
RECURSIVE fseekInternalContinue(_, _)
fseekInternalContinue(s, f) ==
    LET file == s.fs.files[f]
        inCluster == file.off % clusterSize
        step == clusterSize - inCluster
        Cross(r) ==
            IF r.st # "SUCCESS" THEN r.s
            ELSE fseekInternalContinue(
                     [r.s EXCEPT !.fs.files[f].prev = file.cur, !.fs.files[f].cur = r.next,
                                 !.fs.files[f].off = @ + step, !.fs.files[f].seek = @ - step], f)
        there == IF isEndOfAllocatedFile(file) THEN s
                 ELSE [s EXCEPT !.fs.files[f].off = @ + file.seek]
        done == Over(fileUpdateFilesize(there, f), f)
    IN  IF inCluster + file.seek >= clusterSize /\ ~isEndOfAllocatedFile(file)
        THEN Cross(FATGetNextCluster(s, file.cur))
        ELSE Call(done, file.cb, f)

fseekInternal(s, f, offset, cb) ==
    LET Sought(r) ==
            CASE r.ok -> [s |-> Call(r.s, cb, f), st |-> "SUCCESS"]
              [] ~r.ok /\ isBusy(r.s, f) -> [s |-> r.s, st |-> "FAILURE"]
              [] OTHER -> [s |-> [r.s EXCEPT !.fs.files[f].op = "SEEK",
                                             !.fs.files[f].cb = cb, !.fs.files[f].seek = offset],
                           st |-> "IN_PROGRESS"]
    IN  Sought(fseekAtomic(s, f, offset))

(* afatfs_fseek(file, 0, AFATFS_SEEK_SET) *)
rewind(s, f) ==
    LET u == fileUnlockCacheSector(fileUpdateFilesize(s, f), f)
    IN  [u EXCEPT !.fs.files[f].prev = 0, !.fs.files[f].off = 0,
                  !.fs.files[f].cur = s.fs.files[f].first]

(* afatfs_findNext: the entry after pos, NoEntry at the directory's end;   *)
(* first within the sector of the cursor.                                  *)
NextInSector(s, dir, pos) ==
    LET Found(r) ==
            IF r.i # 0
            THEN [s |-> r.s, st |-> "SUCCESS", entry |-> r.s.mem[r.i][pos.entry + 1],
                  pos |-> [entry |-> pos.entry + 1,
                           sector |-> fileGetCursorPhysicalSector(r.s.fs.files[dir])]]
            ELSE [s |-> r.s, entry |-> NoEntry, pos |-> pos,
                  st |-> IF isEndOfAllocatedFile(r.s.fs.files[dir])
                         THEN "SUCCESS" ELSE "IN_PROGRESS"]
    IN  Found(fileRetainCursorSectorForRead(s, dir))

findNext(s, dir, pos) ==
    LET Turned(r) ==
            IF r.ok THEN NextInSector(r.s, dir, [pos EXCEPT !.entry = -1])
            ELSE [s |-> r.s, st |-> "IN_PROGRESS", entry |-> NoEntry, pos |-> pos]
    IN  IF pos.entry = FilesPerSector - 1 THEN Turned(fseekAtomic(s, dir, SectorSize))
        ELSE NextInSector(s, dir, pos)

--------------------------------------------------------------------------------
(* Directory entries and the allocation of clusters. *)

(* Mutant of saveDirectoryEntry: the length is never exaggerated.          *)
saveDirectoryEntry_exact(s, f, mode) ==
    LET file == s.fs.files[f]
        Updated(e) == [e EXCEPT !.name = IF mode = "DELETED" THEN "deleted" ELSE @,
                                !.size = file.size, !.first = file.first]
        Save(r) == [s |-> IF r.st = "SUCCESS"
                          THEN [r.s EXCEPT !.mem[r.i][file.pos.entry] = Updated(@)] ELSE r.s,
                    st |-> r.st]
    IN  IF file.pos.sector = 0 THEN [s |-> s, st |-> "SUCCESS"]
        ELSE Save(cacheSector(s, file.pos.sector, {"READ", "WRITE"}))

(* afatfs_saveDirectoryEntry.  While a file grows its entry shows the size *)
(* of its clusters; the length written is only stored when it is closed.   *)
saveDirectoryEntry(s, f, mode) ==
    LET file == s.fs.files[f]
        size == CASE file.type = "DIRECTORY" -> 0
                  [] file.type # "DIRECTORY" /\ mode = "NORMAL" -> file.phys
                  [] OTHER -> file.size
        Updated(e) == [e EXCEPT !.name = IF mode = "DELETED" THEN "deleted" ELSE @,
                                !.size = size, !.first = file.first]
        Save(r) ==
            CASE r.st # "SUCCESS" -> [s |-> r.s, st |-> r.st]
              [] r.st = "SUCCESS" /\ file.pos.entry < 0 -> [s |-> Fatal(r.s), st |-> "FAILURE"]
              [] OTHER -> [s |-> [r.s EXCEPT !.mem[r.i][file.pos.entry] = Updated(@)],
                           st |-> r.st]
    IN  IF file.pos.sector = 0 THEN [s |-> s, st |-> "SUCCESS"]
        ELSE Save(cacheSector(s, file.pos.sector, {"READ", "WRITE"}))

appendOver(s, f) ==
    IF s.fs.files[f].op = "APPEND_FREE_CLUSTER" THEN Over(s, f) ELSE s

(* afatfs_appendRegularFreeClusterContinue: the new cluster is terminated, *)
(* then linked to the chain, then entered in the directory.                *)
RECURSIVE appendRegularFreeClusterContinue(_, _)
appendRegularFreeClusterContinue(s, f) ==
    LET file == s.fs.files[f]
        Go(t, phase) ==
            appendRegularFreeClusterContinue([t EXCEPT !.fs.files[f].append = phase], f)
        Wait(t) == [s |-> t, st |-> "IN_PROGRESS"]
        Found(find) ==
            CASE find.st = "FOUND" ->
                   Go([find.s EXCEPT
                         !.fs.last = find.c,
                         !.fs.files[f].searchCluster = find.c, !.fs.files[f].cur = find.c,
                         !.fs.files[f].phys = @ + clusterSize,
                         !.fs.files[f].first = IF file.previousCluster = 0 THEN find.c ELSE @],
                      "UPDATE_FAT1")
              [] find.st \in {"FATAL", "NOT_FOUND"} -> Go(find.s, "FAILURE")
              [] OTHER -> Wait([find.s EXCEPT !.fs.files[f].searchCluster = find.c])
        Then(r, phase) == IF r.st # "SUCCESS" THEN Wait(r.s) ELSE Go(r.s, phase)
    IN  CASE file.append = "FIND_FREESPACE" -> Found(findFreeCluster(s, file.searchCluster))
          [] file.append = "UPDATE_FAT1" ->
               Then(FATSetNextCluster(s, file.searchCluster, EndOfChain),
                    IF file.previousCluster # 0 THEN "UPDATE_FAT2" ELSE "UPDATE_FILE_DIRECTORY")
          [] file.append = "UPDATE_FAT2" ->
               Then(FATSetNextCluster(s, file.previousCluster, file.searchCluster),
                    "UPDATE_FILE_DIRECTORY")
          [] file.append = "UPDATE_FILE_DIRECTORY" ->
               Then(saveDirectoryEntry(s, f, "NORMAL"), "COMPLETE")
          [] file.append = "COMPLETE" -> [s |-> appendOver(s, f), st |-> "SUCCESS"]
          [] file.append = "FAILURE" ->
               [s |-> [appendOver(s, f) EXCEPT !.fs.full = TRUE], st |-> "FAILURE"]

(* afatfs_appendRegularFreeClusterInitOperationState *)
appendInitOperationState(s, f) ==
    [s EXCEPT !.fs.files[f].append = "FIND_FREESPACE",
              !.fs.files[f].previousCluster = s.fs.files[f].prev,
              !.fs.files[f].searchCluster = s.fs.last]

appendFreeCluster(s, f) ==
    CASE s.fs.files[f].op = "APPEND_FREE_CLUSTER" -> [s |-> s, st |-> "IN_PROGRESS"]
      [] s.fs.files[f].op # "APPEND_FREE_CLUSTER" /\ (s.fs.full \/ isBusy(s, f)) ->
           [s |-> s, st |-> "FAILURE"]
      [] OTHER ->
           appendRegularFreeClusterContinue(
               appendInitOperationState(
                   [s EXCEPT !.fs.files[f].op = "APPEND_FREE_CLUSTER"], f), f)

(* The cursor's sector, locked against flushing while it is written, once  *)
(* the file has a cluster there.                                           *)
LockCursorSector(s, f) ==
    LET file == s.fs.files[f]
        endOfSector == (file.off \div SectorSize + 1) * SectorSize
        merge == file.off % SectorSize > 0 \/ endOfSector < file.size
        Lock(r) == IF r.st = "SUCCESS"
                   THEN [s |-> [r.s EXCEPT !.fs.files[f].lock = r.i], i |-> r.i]
                   ELSE [s |-> r.s, i |-> 0]
    IN  Lock(cacheSector(s, fileGetCursorPhysicalSector(file),
                         {"WRITE", "LOCK"} \cup (IF merge THEN {"READ"} ELSE {})))

fileLockCursorSectorForWrite(s, f) ==
    LET file == s.fs.files[f]
        Appended(a) == IF a.st # "SUCCESS" THEN [s |-> a.s, i |-> 0]
                       ELSE LockCursorSector(a.s, f)
    IN  CASE file.lock # 0 ->
               IF s.cache.desc[file.lock].sector = fileGetCursorPhysicalSector(file)
               THEN [s |-> s, i |-> file.lock] ELSE [s |-> Fatal(s), i |-> 0]
          [] file.lock = 0 /\ isEndOfAllocatedFile(file) -> Appended(appendFreeCluster(s, f))
          [] OTHER -> LockCursorSector(s, f)

(* AFATFS_EXTEND_SUBDIRECTORY_PHASE_WRITE_SECTORS: the rest of the new     *)
(* cluster is zeroed, sector by sector.                                    *)
RECURSIVE zeroCluster(_, _)
zeroCluster(s, f) ==
    LET file == s.fs.files[f]
        Dot(name, c) == [name |-> name, first |-> c, size |-> 0]
        zeroes == IF file.pos.sector # 0 /\ file.off = 0
                  THEN [EmptyDirectorySector EXCEPT ![0] = Dot(".", file.first),
                                                    ![1] = Dot("..", 0)]
                  ELSE EmptyDirectorySector
        last == (file.off % clusterSize) \div SectorSize = SectorsPerCluster - 1
        Moved(t) == IF last THEN [s |-> t, st |-> "SUCCESS"] ELSE zeroCluster(t, f)
        Zero(r) ==
            IF r.st # "SUCCESS" THEN [s |-> r.s, st |-> r.st]
            ELSE Moved(fseekAtomic([r.s EXCEPT !.mem[r.i] = zeroes], f,
                                   IF last THEN SectorSize - clusterSize ELSE SectorSize).s)
    IN  Zero(cacheSector(s, fileGetCursorPhysicalSector(file), {"WRITE"}))

(* afatfs_extendSubdirectoryContinue; its only caller passes no callback   *)
(* and no parent directory.                                                *)
RECURSIVE extendSubdirectoryContinue(_, _)
extendSubdirectoryContinue(s, f) ==
    LET file == s.fs.files[f]
        Go(t, phase) ==
            extendSubdirectoryContinue([t EXCEPT !.fs.files[f].phase = phase], f)
        Added(a) == CASE a.st = "SUCCESS" -> Go(a.s, "WRITE_SECTORS")
                      [] a.st = "FAILURE" -> Go(a.s, "FAILURE")
                      [] OTHER -> a
        Zeroed(z) == IF z.st = "SUCCESS" THEN Go(z.s, "SUCCESS") ELSE z
    IN  CASE file.phase = "ADD_FREE_CLUSTER" -> Added(appendRegularFreeClusterContinue(s, f))
          [] file.phase = "WRITE_SECTORS" -> Zeroed(zeroCluster(s, f))
          [] OTHER -> [s |-> Over(s, f), st |-> file.phase]

extendSubdirectory(s, f) ==
    IF isBusy(s, f) THEN [s |-> s, st |-> "FAILURE"]
    ELSE extendSubdirectoryContinue(
             appendInitOperationState(
                 [s EXCEPT !.fs.files[f].op = "EXTEND_SUBDIRECTORY",
                           !.fs.files[f].phase = "ADD_FREE_CLUSTER"], f), f)

(* afatfs_findFirst and afatfs_findLast; the finder is the caller's.       *)
findFirst(s, dir) == rewind(s, dir)
findLast(s, dir) == fileUnlockCacheSector(s, dir)

(* afatfs_allocateDirectoryEntry in the current directory. *)
RECURSIVE allocateDirectoryEntry(_, _)
allocateDirectoryEntry(s, pos) ==
    LET Stop(r, at, i) == [s |-> r.s, st |-> r.st, pos |-> at, i |-> i]
        Extended(e, at) ==
            IF e.st = "SUCCESS" THEN allocateDirectoryEntry(e.s, at) ELSE Stop(e, at, 0)
        Taken(n, i) ==
            Stop([n EXCEPT !.s = findLast([@ EXCEPT !.cache = cacheSectorMarkDirty(@, i)], CWD)],
                 n.pos, i)
        Entry(n) ==
            CASE n.st # "SUCCESS" -> Stop(n, n.pos, 0)
              [] n.st = "SUCCESS" /\ n.entry = NoEntry ->
                   Extended(extendSubdirectory(n.s, CWD), n.pos)
              [] n.st = "SUCCESS" /\ n.entry.name \in {"deleted", "end"} ->
                   Taken(n, n.s.fs.files[CWD].retain)
              [] OTHER -> allocateDirectoryEntry(n.s, n.pos)
    IN  IF isBusy(s, CWD) THEN [s |-> s, st |-> "IN_PROGRESS", pos |-> pos, i |-> 0]
        ELSE Entry(findNext(s, CWD, pos))

--------------------------------------------------------------------------------
(* Operations on files. *)

(* afatfs_ftruncateContinue.  unlink calls it with markDeleted and keeps   *)
(* its callback for itself.                                                *)
RECURSIVE ftruncateContinue(_, _, _)
ftruncateContinue(s, f, markDeleted) ==
    LET file == s.fs.files[f]
        c == file.currentCluster
        Stop(t, st) ==
            [s |-> IF st = "FAILURE" /\ file.op = "TRUNCATE"
                   THEN Over(t, f) ELSE t, st |-> st]
        Go(t, phase) ==
            ftruncateContinue([t EXCEPT !.fs.files[f].phase = phase], f, markDeleted)
        Saved(r) == IF r.st # "SUCCESS" THEN Stop(r.s, r.st)
                    ELSE Go(r.s, IF c = 0 THEN "SUCCESS" ELSE "ERASE_FAT_CHAIN")
        Freed(r, next) ==
            IF r.st # "SUCCESS" THEN r
            ELSE Go([r.s EXCEPT !.fs.files[f].currentCluster = next,
                                !.fs.last = IF next = 0 THEN @ ELSE Min({@, next - 1})],
                    "ERASE_FAT_CHAIN")
        Followed(r) == IF r.st # "SUCCESS" THEN [s |-> r.s, st |-> r.st]
                       ELSE Freed(FATSetNextCluster(r.s, c, 0), r.next)
    IN  CASE file.phase = "UPDATE_DIRECTORY" ->
               Saved(saveDirectoryEntry(s, f, IF markDeleted THEN "DELETED" ELSE "NORMAL"))
          [] file.phase = "ERASE_FAT_CHAIN" /\ isEndOfChain(c) -> Go(s, "SUCCESS")
          [] file.phase = "ERASE_FAT_CHAIN" /\ ~isEndOfChain(c) ->
               Followed(FATGetNextCluster(s, c))
          [] OTHER ->
               [s |-> IF file.op = "TRUNCATE"
                      THEN Call(Over(s, f), file.cb, f) ELSE s,
                st |-> "SUCCESS"]

ftruncate(s, f, cb) ==
    LET queued == [s EXCEPT !.fs.files[f].op = "TRUNCATE", !.fs.files[f].cb = cb,
                            !.fs.files[f].phase = "UPDATE_DIRECTORY",
                            !.fs.files[f].currentCluster = s.fs.files[f].first,
                            !.fs.files[f].first = 0, !.fs.files[f].size = 0,
                            !.fs.files[f].phys = 0]
    IN  IF isBusy(s, f) THEN [s |-> s, ok |-> FALSE]
        ELSE [s |-> rewind(queued, f), ok |-> TRUE]

(* Mutant of fcloseContinue: the length stored is that of the clusters.    *)
fcloseContinue_rounded(s, f) ==
    LET file == s.fs.files[f]
        Close(t) == Call([fileUnlockCacheSector(t, f) EXCEPT !.fs.files[f] =
                             IF f = CWD
                             THEN [@ EXCEPT !.type = "NONE", !.op = "NONE", !.cb = "none"]
                             ELSE FreeHandle], file.cb, f)
        Saved(r) == IF r.st # "SUCCESS" THEN r.s ELSE Close(r.s)
    IN  IF file.type = "DIRECTORY" THEN Close(s)
        ELSE Saved(saveDirectoryEntry(s, f, "NORMAL"))

(* afatfs_fcloseContinue.  The handle becomes free (type NONE).  The model *)
(* zeroes one of the open files already here, where the code does so at    *)
(* its next use; currentDirectory keeps its position.                      *)
fcloseContinue(s, f) ==
    LET file == s.fs.files[f]
        saves == file.type # "DIRECTORY" /\ file.mode \cap {"APPEND", "WRITE"} # {}
        Close(t) == Call([fileUnlockCacheSector(t, f) EXCEPT !.fs.files[f] =
                             IF f = CWD
                             THEN [@ EXCEPT !.type = "NONE", !.op = "NONE", !.cb = "none"]
                             ELSE FreeHandle], file.cb, f)
        Saved(r) == IF r.st # "SUCCESS" THEN r.s ELSE Close(r.s)
    IN  IF saves THEN Saved(saveDirectoryEntry(s, f, "FOR_CLOSE")) ELSE Close(s)

fclose(s, f, cb) ==
    CASE f = NULL -> [s |-> s, ok |-> TRUE]
      [] f # NULL /\ s.fs.files[f].type = "NONE" -> [s |-> s, ok |-> TRUE]
      [] f # NULL /\ s.fs.files[f].type # "NONE" /\ isBusy(s, f) ->
           [s |-> s, ok |-> FALSE]
      [] OTHER ->
           [s |-> fcloseContinue([fileUpdateFilesize(s, f) EXCEPT
                                     !.fs.files[f].op = "CLOSE", !.fs.files[f].cb = cb], f),
            ok |-> TRUE]

funlinkContinue(s, f) ==
    LET Truncated(r) == IF r.st # "SUCCESS" THEN r.s
                        ELSE fclose(Over(r.s, f), f, s.fs.files[f].cb).s
    IN  Truncated(ftruncateContinue(s, f, TRUE))

funlink(s, f, cb) ==
    LET t == ftruncate(s, f, "none")
    IN  CASE s.fs.files[f].type = "NONE" -> [s |-> s, ok |-> TRUE]
          [] s.fs.files[f].type # "NONE" /\ ~t.ok -> [s |-> s, ok |-> FALSE]
          [] OTHER -> [s |-> [t.s EXCEPT !.fs.files[f].op = "UNLINK",
                                         !.fs.files[f].cb = cb], ok |-> TRUE]

(* afatfs_createFileContinue: look the name up in the current directory,   *)
(* create it when the mode says so, and bring the new handle to the state  *)
(* its mode asks for.  The search uses the cursor of currentDirectory,     *)
(* which all searches share; its position is in the handle.                *)
RECURSIVE createFileContinue(_, _)
createFileContinue(s, f) ==
    LET file == s.fs.files[f]
        Go(t, phase) == createFileContinue([t EXCEPT !.fs.files[f].phase = phase], f)
        At(t, pos) == [t EXCEPT !.fs.files[f].pos = pos]
        Rewound(t, pos) == [At(t, pos) EXCEPT !.fs.files[f].pos.entry = -1]
        Load(n) == [findLast(At(n.s, n.pos), CWD) EXCEPT
                      !.fs.files[f].first = n.entry.first, !.fs.files[f].size = n.entry.size,
                      !.fs.files[f].phys =
                          ((n.entry.size + clusterSize - 1) \div clusterSize) * clusterSize]
        Entry(n) ==
            CASE n.st = "IN_PROGRESS" -> At(n.s, n.pos)
              [] n.st = "SUCCESS" /\ n.entry.name \in {"null", "end"} ->
                   IF "CREATE" \in file.mode
                   THEN Go(Rewound(findFirst(findLast(n.s, CWD), CWD), n.pos), "CREATE_NEW_FILE")
                   ELSE Go(At(findLast(n.s, CWD), n.pos), "FAILURE")
              [] n.st = "SUCCESS" /\ n.entry.name = file.name -> Go(Load(n), "SUCCESS")
              [] OTHER -> createFileContinue(At(n.s, n.pos), f)
        New(a) ==
            CASE a.st = "SUCCESS" ->
                   Go([At(a.s, a.pos) EXCEPT !.mem[a.i][a.pos.entry] =
                          [name |-> file.name, first |-> 0, size |-> 0]], "SUCCESS")
              [] a.st = "FAILURE" -> Go(At(a.s, a.pos), "FAILURE")
              [] OTHER -> At(a.s, a.pos)
        at0 == rewind(s, f)
        idle == Over(at0, f)
    IN  CASE file.phase = "INITIAL" ->
               Go(Rewound(findFirst(s, CWD), file.pos), "FIND_FILE")
          [] file.phase = "FIND_FILE" -> Entry(findNext(s, CWD, file.pos))
          [] file.phase = "CREATE_NEW_FILE" -> New(allocateDirectoryEntry(s, file.pos))
          [] file.phase = "SUCCESS" ->
               CASE file.first # 0 /\ "APPEND" \in file.mode ->
                      fseekInternal(idle, f, at0.fs.files[f].size, file.cb).s
                 [] file.first # 0 /\ file.mode = {"CREATE", "WRITE"} ->
                      ftruncate(idle, f, file.cb).s
                 [] OTHER -> Call(idle, file.cb, f)
          [] file.phase = "FAILURE" ->
               Call([s EXCEPT !.fs.files[f] = FreeHandle], file.cb, NULL)

(* afatfs_createFile for a file, or for "." the current directory itself.  *)
createFile(s, f, name, mode, cb) ==
    LET cwd == s.fs.files[CWD]
        new == [FreeHandle EXCEPT !.op = "CREATE_FILE", !.mode = mode, !.cb = cb]
    IN  createFileContinue(
          [s EXCEPT !.fs.files[f] =
              IF name = "."
              THEN [new EXCEPT !.first = cwd.first, !.phys = cwd.phys, !.size = cwd.size,
                               !.type = cwd.type, !.phase = "SUCCESS"]
              ELSE [new EXCEPT !.name = name, !.type = "NORMAL", !.phase = "INITIAL"]], f)

ModeOf(mode) == CASE mode = "r" -> {"READ"}
                  [] mode = "w" -> {"WRITE", "CREATE"}
                  [] mode = "a" -> {"APPEND", "CREATE"}

fopen(s, name, mode, cb) ==
    LET free == {f \in Files \ {CWD} : s.fs.files[f].type = "NONE"}
    IN  IF free = {} THEN Call(s, cb, NULL)
        ELSE createFile(s, Min(free), name, ModeOf(mode), cb)

(* afatfs_chdir; NULL for the root directory. *)
chdir(s, dir) ==
    LET root == [FreeHandle EXCEPT !.mode = {"READ", "WRITE"}, !.type = "DIRECTORY",
                                   !.first = RootCluster, !.cur = RootCluster]
    IN  CASE isBusy(s, CWD) -> s
          [] ~isBusy(s, CWD) /\ dir = NULL -> [s EXCEPT !.fs.files[CWD] = root]
          [] OTHER -> IF isBusy(s, dir) THEN s
                      ELSE [s EXCEPT !.fs.files[CWD] = s.fs.files[dir]]

(* afatfs_fwrite, sector by sector: data is a sequence of units, n counts  *)
(* the ones written so far.                                                *)
RECURSIVE writeSectors(_, _, _, _)
writeSectors(s, f, data, n) ==
    LET at == s.fs.files[f].off % SectorSize
        count == Min({SectorSize - at, Len(data)})
        Copy(sector) == [u \in DOMAIN sector |-> IF u \in at..at + count - 1
                                                 THEN data[u - at + 1] ELSE sector[u]]
        Moved(r) ==
            IF r.st = "IN_PROGRESS" THEN [s |-> r.s, n |-> n + count]
            ELSE writeSectors(r.s, f, SubSeq(data, count + 1, Len(data)), n + count)
        Locked(r) ==
            IF r.i = 0 THEN [s |-> r.s, n |-> n]
            ELSE Moved(fseekInternal([r.s EXCEPT !.mem[r.i] = Copy(@)], f, count, "none"))
    IN  IF data = << >> THEN [s |-> s, n |-> n]
        ELSE Locked(fileLockCursorSectorForWrite(s, f))

fwrite(s, f, data) ==
    IF s.fs.files[f].mode \cap {"APPEND", "WRITE"} = {} \/ isBusy(s, f)
    THEN [s |-> s, n |-> 0]
    ELSE writeSectors(s, f, data, 0)

(* afatfs_fread: len units at most; the ones read are in data.             *)
RECURSIVE readSectors(_, _, _, _)
readSectors(s, f, len, data) ==
    LET at == s.fs.files[f].off % SectorSize
        count == Min({SectorSize - at, len})
        Moved(r, more) == IF r.st = "IN_PROGRESS" THEN [s |-> r.s, data |-> more]
                          ELSE readSectors(r.s, f, len - count, more)
        Retained(r) ==
            IF r.i = 0 THEN [s |-> r.s, data |-> data]
            ELSE Moved(fseekInternal(r.s, f, count, "none"),
                       data \o [u \in 1..count |-> r.s.mem[r.i][at + u - 1]])
    IN  IF len = 0 THEN [s |-> s, data |-> data]
        ELSE Retained(fileRetainCursorSectorForRead(s, f))

feof(s, f) == s.fs.files[f].off >= s.fs.files[f].size

(* Mutant of fread: it reads to the end of the sector, not of the file.    *)
fread_beyond(s, f, len) ==
    IF "READ" \notin s.fs.files[f].mode \/ isBusy(s, f) \/ feof(s, f)
    THEN [s |-> s, data |-> << >>]
    ELSE readSectors(s, f, len, << >>)

fread(s, f, len) ==
    IF "READ" \notin s.fs.files[f].mode \/ isBusy(s, f) \/ feof(s, f)
    THEN [s |-> s, data |-> << >>]
    ELSE readSectors(s, f, Min({s.fs.files[f].size - s.fs.files[f].off, len}), << >>)

--------------------------------------------------------------------------------
(* Start, poll and shutdown. *)

fileOperationContinue(s, f) ==
    LET file == s.fs.files[f]
    IN  CASE file.type = "NONE" \/ file.op = "NONE" -> s
          [] file.type # "NONE" /\ file.op = "CREATE_FILE" -> createFileContinue(s, f)
          [] file.type # "NONE" /\ file.op = "SEEK" -> fseekInternalContinue(s, f)
          [] file.type # "NONE" /\ file.op = "CLOSE" -> fcloseContinue(s, f)
          [] file.type # "NONE" /\ file.op = "UNLINK" -> funlinkContinue(s, f)
          [] file.type # "NONE" /\ file.op = "TRUNCATE" ->
               ftruncateContinue(s, f, FALSE).s
          [] file.type # "NONE" /\ file.op = "APPEND_FREE_CLUSTER" ->
               appendRegularFreeClusterContinue(s, f).s
          [] file.type # "NONE" /\ file.op = "EXTEND_SUBDIRECTORY" ->
               extendSubdirectoryContinue(s, f).s

(* afatfs_fileOperationsPoll: the current directory, then the open files.  *)
fileOperationsPoll(s) ==
    FoldLeft(fileOperationContinue, s, [i \in 1..MaxOpenFiles + 1 |-> i - 1])

(* afatfs_initContinue.  parseMBR and parseVolumeID accept the sectors a   *)
(* FAT32 disk has there; anything else is fatal.                           *)
initContinue(s) ==
    LET Sector(t, sector) == cacheSector(t, sector, {"READ", "DISCARDABLE"})
        Volume(v) ==
            CASE v.st # "SUCCESS" -> v.s
              [] v.st = "SUCCESS" /\ v.s.mem[v.i] = VolumeSector ->
                   [chdir([v.s EXCEPT !.fs.mounted = TRUE], NULL) EXCEPT !.fs.initPhase = "DONE"]
              [] OTHER -> Fatal(v.s)
        Mbr(m) ==
            CASE m.st # "SUCCESS" -> m.s
              [] m.st = "SUCCESS" /\ m.s.mem[m.i] = MbrSector ->
                   Volume(Sector([m.s EXCEPT !.fs.initPhase = "READ_VOLUME_ID"], PartitionStart))
              [] OTHER -> Fatal(m.s)
    IN  CASE s.fs.initPhase = "READ_MBR" -> Mbr(Sector(s, 0))
          [] s.fs.initPhase = "READ_VOLUME_ID" -> Volume(Sector(s, PartitionStart))
          [] s.fs.initPhase = "DONE" -> [s EXCEPT !.fs.state = "READY"]

poll(s) ==
    LET Work(t) == CASE t.fs.state = "INITIALIZATION" -> initContinue(t)
                     [] t.fs.state = "READY" -> fileOperationsPoll(t)
                     [] OTHER -> t
    IN  IF CardReady(s.drive) THEN Work(flush(s)) ELSE s

init(s) ==
    [s EXCEPT !.fs.state = "INITIALIZATION", !.fs.initPhase = "READ_MBR", !.fs.last = 2]

(* afatfs_destroy(false): close everything, flush, and be called again     *)
(* until nothing is left to do.                                            *)
Closed(s) ==
    FoldLeft(LAMBDA t, f : fclose(t, f, "none").s, s,
             [i \in 1..MaxOpenFiles |-> i] \o << CWD >>)

(* What afatfs_flush returns: there is nothing to start writing.           *)
flushed(s) == s.cache.dirty <= 0 \/ Flushable(s.cache) = << >>

(* Mutant of destroy: it does not wait for the write in progress.          *)
destroy_early(s) ==
    LET open == \E f \in Files : s.fs.files[f].type # "NONE"
        Flush(t, u) ==
            IF flushed(t) /\ ~open
            THEN [s |-> [u EXCEPT !.fs = ZeroedFs, !.cache = ZeroedCache], done |-> TRUE]
            ELSE [s |-> u, done |-> FALSE]
        Polled(t) == Flush(t, flush(t))
    IN  Polled(poll(Closed(s)))

destroy(s) ==
    LET open == \E f \in Files : s.fs.files[f].type # "NONE"
        Down(t) == [s |-> [t EXCEPT !.fs = ZeroedFs, !.cache = ZeroedCache], done |-> TRUE]
        Flush(t, u) == IF flushed(t) /\ ~u.cache.flushing /\ ~open THEN Down(u)
                       ELSE [s |-> u, done |-> FALSE]
        Polled(t) == Flush(t, flush(t))
    IN  IF s.fs.state = "READY" THEN Polled(poll(Closed(s))) ELSE Down(s)
================================================================================
