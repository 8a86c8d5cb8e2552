------------------------------- MODULE FatWriter -------------------------------
(***************************************************************************)
(* Programs that write files through fat/asyncfatfs.h, on a card that does *)
(* what fat/sdcard.h promises: it takes one block operation at a time,     *)
(* refuses others, and answers the one it took later, with the buffer or,  *)
(* when it failed, with NULL.  The power may be lost at any moment; then   *)
(* what is on the card is all that is left.                                *)
(***************************************************************************)
EXTENDS FatVolume

CONSTANTS
    Clients,       \* the programs
    FileNames,     \* the names they use
    Formatted,     \* the blocks of the card at the start
    MaxOpens,      \* bound: fopen calls
    Jobs,          \* what they do: << mode, units to write, "close" or "unlink" >>
    MaxCardErrors, \* bound: block operations that fail
    MaxPowerLosses,\* bound
    OneSearch,     \* clients open one file at a time
    UnlinkAlone    \* and none while another is deleted

VARIABLES
    drive,  \* the block operation the card is at
    mem,    \* the memory of the cache
    disk,   \* the blocks of the card
    cache,  \* the descriptors of the cache
    fs,     \* the rest of afatfs
    app,    \* the clients
    safe,   \* the files that a loss of power must not touch
    errors, \* block operations that failed
    losses  \* of power

vars == << drive, cache, fs, app, errors, losses, safe, mem, disk >>
S == [drive |-> drive, mem |-> mem, cache |-> cache, fs |-> fs, app |-> app]
Becomes(s) == /\ drive' = s.drive
              /\ cache' = s.cache
              /\ fs' = s.fs
              /\ app' = s.app
              /\ mem' = s.mem

Idle == [op |-> "none", block |-> 0, buffer |-> 0, moved |-> FALSE]
NoFile == << Unit("no file", 0) >>
Unknown == << Unit("unknown", 0) >>
IdleClient == [state |-> "idle", name |-> "", file |-> 0, job |-> << "", 0, "" >>]

(* The card, for the constants of AsyncFatFs. *)
CardReadBlock(d, block, buffer) ==
    IF d = Idle
    THEN [d |-> [op |-> "read", block |-> block, buffer |-> buffer, moved |-> FALSE],
          ok |-> TRUE]
    ELSE [d |-> d, ok |-> FALSE]

CardWriteBlock(d, block, buffer) ==
    IF d = Idle
    THEN [d |-> [op |-> "write", block |-> block, buffer |-> buffer, moved |-> FALSE],
          status |-> "IN_PROGRESS"]
    ELSE [d |-> d, status |-> "BUSY"]

CardPresent(d) == TRUE

(* The callbacks of a client: its file is open, its file is closed.  text  *)
(* is what a reader of each file is entitled to see.                       *)
ClientCallback(s, c, f) ==
    LET client == s.app.client[c]
        text == s.app.text[client.name]
    IN  CASE client.state = "opening" /\ f = NULL ->
               [s EXCEPT !.app.client[c] = IdleClient]
          [] client.state = "opening" /\ f # NULL ->
               [s EXCEPT !.app.client[c].state = "open", !.app.client[c].file = f,
                         !.app.text[client.name] =
                            IF client.job[1] = "a" /\ text # NoFile THEN text ELSE << >>]
          [] client.state = "closing" -> [s EXCEPT !.app.client[c] = IdleClient]
          [] client.state = "unlinking" ->
               [s EXCEPT !.app.client[c] = IdleClient,
                         !.app.text[client.name] = NoFile]

--------------------------------------------------------------------------------
Init ==
    /\ drive = Idle
    /\ mem = [i \in Slots |-> JunkSector]
    /\ disk = Formatted
    /\ cache = ZeroedCache
    /\ fs = init([fs |-> ZeroedFs]).fs
    /\ app = [client |-> [c \in Clients |-> IdleClient],
              text |-> [n \in FileNames |->
                          IF n \in Names(Formatted, RootCluster)
                          THEN ContentOf(Formatted, EntryOf(Formatted, RootCluster, n))
                          ELSE NoFile],
              opens |-> 0, shut |-> "no"]
    /\ safe = FileNames
    /\ errors = 0
    /\ losses = 0

(* The files nobody has had open since a moment when the card held all     *)
(* that was written.                                                       *)
Clean(c) == \A i \in Slots : c.desc[i].state \notin {"DIRTY", "WRITING"}
Kept == safe' = {n \in FileNames : /\ app'.text[n] # Unknown
                                   /\ n \in safe \/ Clean(cache')
                                   /\ \A c \in Clients : app'.client[c].name # n}

Poll ==
    /\ app.shut = "no"
    /\ Becomes(poll(S))
    /\ UNCHANGED << disk, errors, losses >>
    /\ Kept

(* The card moves the block, then calls back; or fails. *)
CardMove ==
    /\ drive.op # "none" /\ ~drive.moved
    /\ drive' = [drive EXCEPT !.moved = TRUE]
    /\ \/ drive.op = "read" /\ mem' = [mem EXCEPT ![drive.buffer] = disk[drive.block]]
                            /\ UNCHANGED disk
       \/ drive.op = "write" /\ disk' = [disk EXCEPT ![drive.block] = mem[drive.buffer]]
                             /\ UNCHANGED mem
    /\ UNCHANGED << cache, fs, app, errors, losses >>
    /\ Kept

CardAnswer(buffer) ==
    LET t == [S EXCEPT !.drive = Idle]
    IN  IF drive.op = "read" THEN sdcardReadComplete(t, drive.block, buffer)
        ELSE sdcardWriteComplete(t, drive.block, buffer)

CardDone ==
    /\ drive.moved
    /\ Becomes(CardAnswer(drive.buffer))
    /\ UNCHANGED << disk, errors, losses >>
    /\ Kept

CardFails ==
    /\ errors < MaxCardErrors
    /\ drive.op # "none" /\ ~drive.moved
    /\ Becomes(CardAnswer(0))
    /\ errors' = errors + 1
    /\ UNCHANGED << disk, losses >>
    /\ Kept

Ready == fs.state = "READY" /\ app.shut = "no"
Some(state) == \E c \in Clients : app.client[c].state = state
InUse(n) == \E c \in Clients : app.client[c].state # "idle" /\ app.client[c].name = n

Open(c, n, job) ==
    /\ Ready /\ app.opens < MaxOpens
    /\ app.client[c].state = "idle" /\ ~InUse(n) /\ app.text[n] # Unknown
    /\ OneSearch => ~Some("opening")
    /\ UnlinkAlone => ~Some("unlinking")
    /\ Becomes(fopen([S EXCEPT !.app.opens = @ + 1,
                               !.app.client[c] = [state |-> "opening", name |-> n,
                                                  file |-> 0, job |-> job]],
                     n, job[1], c))
    /\ UNCHANGED << disk, errors, losses >>
    /\ Kept

(* fwrite of all that is left to write; it takes what it can.              *)
Written(c) ==
    LET client == app.client[c]
        length == Len(app.text[client.name])
        data == [u \in 1..client.job[2] |-> Unit(client.name, length + u)]
        Took(r) == [r.s EXCEPT !.app.client[c].job[2] = @ - r.n,
                               !.app.text[client.name] = @ \o SubSeq(data, 1, r.n)]
    IN  Took(fwrite(S, client.file, data))
Writing(c) == Ready /\ app.client[c].state = "open" /\ app.client[c].job[2] > 0

Write(c) ==
    /\ Writing(c)
    /\ Becomes(Written(c))
    /\ UNCHANGED << disk, errors, losses >>
    /\ Kept

(* fclose or funlink, tried until the file is not busy.                    *)
Ended(c) ==
    LET client == app.client[c]
    IN  IF client.job[3] = "close"
        THEN fclose([S EXCEPT !.app.client[c].state = "closing"], client.file, c)
        ELSE funlink([S EXCEPT !.app.client[c].state = "unlinking"], client.file, c)
Ending(c) ==
    /\ Ready /\ app.client[c].state = "open" /\ app.client[c].job[2] = 0
    /\ UnlinkAlone /\ app.client[c].job[3] = "unlink" => ~Some("opening")
    /\ ~isBusy(S, app.client[c].file)

End(c) ==
    /\ Ending(c)
    /\ Becomes(Ended(c).s)
    /\ UNCHANGED << disk, errors, losses >>
    /\ Kept

(* afatfs_destroy(false), called until it returns true; nothing else is    *)
(* called once it has begun.                                               *)
Shutdown ==
    LET Down(r) == [r.s EXCEPT !.app.shut = IF r.done THEN "done" ELSE "begun"]
    IN  /\ fs.state = "READY" /\ app.shut # "done"
        /\ app.opens > 0
        /\ Becomes(Down(destroy(S)))
        /\ UNCHANGED << disk, errors, losses >>
        /\ Kept

(* The power is lost and comes back; of the files that were not safe       *)
(* nothing is known, and clients let them alone.                           *)
PowerLoss ==
    /\ losses < MaxPowerLosses
    /\ losses' = losses + 1
    /\ drive' = Idle
    /\ mem' = [i \in Slots |-> JunkSector]
    /\ cache' = ZeroedCache
    /\ fs' = init([fs |-> ZeroedFs]).fs
    /\ app' = [app EXCEPT !.client = [c \in Clients |-> IdleClient], !.shut = "no",
                          !.text = [n \in FileNames |-> IF n \in safe THEN @[n] ELSE Unknown]]
    /\ UNCHANGED << disk, errors >>
    /\ Kept

Next ==
    \/ Poll \/ CardMove \/ CardDone \/ CardFails
    \/ \E c \in Clients : \/ \E n \in FileNames, job \in Jobs : Open(c, n, job)
                          \/ Write(c) \/ End(c)
    \/ Shutdown \/ PowerLoss

Spec == Init /\ [][Next]_vars

(* FatPoll is a task of the scheduler that never ends, the card answers,   *)
(* and programs carry on with what they began, shutting down included.     *)
(* Weak fairness; where the action calls the file system, the states in    *)
(* which it changes something are written out (ENABLED would evaluate its  *)
(* operators many times over).                                             *)
FairSpec ==
    /\ Spec
    /\ WF_drive(CardMove) /\ WF_drive(CardDone)
    /\ []<>(app.shut # "no" \/ poll(S) = S) \/ []<><<Poll>>_vars
    /\ \A c \in Clients :
         /\ []<>(~Writing(c) \/ Written(c) = S) \/ []<><<Write(c)>>_vars
         /\ []<>(~Ending(c)) \/ []<><<End(c)>>_vars
    /\ []<>(app.shut # "begun" \/ destroy(S).s = S) \/ []<><<Shutdown>>_vars

--------------------------------------------------------------------------------
View == Image(cache, mem, disk)

Holds(v, n, text) ==
    IF text = NoFile THEN n \notin Names(v, RootCluster)
    ELSE n \in Names(v, RootCluster)
         /\ ContentOf(v, EntryOf(v, RootCluster, n)) = text

(* No afatfs_assert fails: none of the states that the code takes to be    *)
(* impossible is reached by calls a program may make.                      *)
NeverFatal == fs.state # "FATAL"

(* The volume as a reader would find it, cache included: two files never   *)
(* have a cluster in common, a chain never runs into a free cluster, and   *)
(* no name is in the directory twice, while clusters are searched, linked, *)
(* freed and entries saved piece by piece for several files at once        *)
(* (appendRegularFreeCluster, ftruncate, saveDirectoryEntry).              *)
ChainsApart ==
    LET v == View
        files == FilesOf(v, RootCluster)
        chains == << Chain(v, RootCluster) >> \o [i \in DOMAIN files |-> Chain(v, files[i].first)]
        all == FlattenSeq(chains)
    IN  fs.state = "READY" /\ losses = 0 =>
          /\ 0 \notin ToSet(all)
          /\ IsInjective(all)
          /\ IsInjective([i \in DOMAIN files |-> files[i].name])

(* Both: the volume is sound, and asyncfatfs knows of nothing wrong.       *)
VolumeSound == NeverFatal /\ ChainsApart

(* A file that is closed reads back as it was written: fwrite, fclose and  *)
(* the size and first cluster that fclose leaves in the entry agree, also  *)
(* when the file replaces or extends another, and deleted ones are gone.   *)
ClosedReadsBack ==
    \A n \in FileNames : ~InUse(n) /\ app.text[n] # Unknown /\ app.shut = "no"
                           => Holds(View, n, app.text[n])

(* When afatfs_destroy has returned true the card holds every file as its  *)
(* clients wrote it, those destroy itself had to close included.           *)
ShutdownKeepsAll ==
    app.shut = "done" =>
        \A n \in FileNames : app.text[n] # Unknown => Holds(disk, n, app.text[n])

(* The power may be lost between any two block writes, and block writes    *)
(* may fail: files that were closed and flushed before are there, whatever *)
(* was being done to others in the same FAT and directory sectors.         *)
CrashSafe == \A n \in safe : Holds(disk, n, app.text[n])

(* While a file is open and the cache has nothing left to write, what was  *)
(* written so far is on the card and within the length its entry shows.    *)
Readable(c) ==
    LET client == app.client[c]
    IN  /\ client.state = "open" /\ app.shut = "no" /\ Clean(cache)
        /\ ~isBusy(S, client.file) /\ app.text[client.name] # << >>
        => /\ client.name \in Names(disk, RootCluster)
           /\ IsPrefix(app.text[client.name],
                       ContentOf(disk, EntryOf(disk, RootCluster, client.name)))

(* saveDirectoryEntry: a new file is readable as far as it is written. *)
NewFileReadable == \A c \in Clients : app.client[c].job[1] = "w" => Readable(c)

(* "the final cluster of the file will be entirely readable if power is    *)
(* lost": not so for a file that is appended to, whose entry shows the old *)
(* size until a cluster is added.                                          *)
FinalClusterReadable == \A c \in Clients : Readable(c)

(* Every fopen, fclose and funlink ends in its callback: no operation      *)
(* waits for ever for a cache sector, a lock or a block operation, also    *)
(* after one has failed.                                                   *)
OperationsEnd ==
    \A c \in Clients :
        app.client[c].state \in {"opening", "closing", "unlinking"}
          ~> app.client[c].state \notin {"opening", "closing", "unlinking"} \/ app.shut # "no"

(* "Shut down the filesystem, flushing all data to the disk. Keep calling  *)
(* until it returns true." (afatfs_destroy): in the end it does.  It does  *)
(* not when a file is being created that the directory has no room for     *)
(* (RootClusters = 1): destroy closes the directory, whose extension then  *)
(* goes no further, and waits for the file, which waits for the extension. *)
ShutdownEnds == app.shut = "begun" ~> app.shut # "begun"

(* Both. *)
EveryCallEnds == OperationsEnd /\ ShutdownEnds

(* Nothing stays in the cache for ever: afatfs_flush, called from every    *)
(* poll, writes all that is dirty, a write that failed included.           *)
EverythingWritten == <>[](app.shut = "no" => Clean(cache))
================================================================================
