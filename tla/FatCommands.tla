------------------------------ MODULE FatCommands ------------------------------
(***************************************************************************)
(* The shell commands of Lab20 on a USB disk: fat (mount), dir, cd, cat    *)
(* (fat/fat.c) and read (applications/console/main.c), over the file       *)
(* system, the block adapter and the mass storage driver.  The shell loop  *)
(* calls the command again and again until it has finished, polling the    *)
(* file system in between; the stages of a disk command end in timer       *)
(* callbacks, between any two of these steps.                              *)
(*                                                                         *)
(* The user types a command when the one before has finished, and waits    *)
(* for the disk to come up and for a cd to be done (fat.c does neither).   *)
(***************************************************************************)
EXTENDS FatVolume, MassStorage

CONSTANTS
    Commands,    \* the command lines: << name, argument >>
    Formatted,   \* the blocks of the disk
    MaxCommands, \* bound: command lines typed
    MaxFaults,   \* bound: failures of the disk or refusals of the host
    FaultyReads  \* whether blocks of the disk may be unreadable

VARIABLES
    drive, \* the driver and the adapter
    mem,   \* the memory of the cache, and ReadSector
    disk,  \* the blocks of the disk
    cache, \* the descriptors of the cache
    fs,    \* the rest of afatfs
    app    \* the shell, the statics of fat.c, and what the disk is at

vars == << drive, cache, fs, app, mem, disk >>
S == [drive |-> drive, mem |-> mem, cache |-> cache, fs |-> fs, app |-> app]
Becomes(s) == /\ drive' = s.drive
              /\ cache' = s.cache
              /\ fs' = s.fs
              /\ app' = s.app
              /\ mem' = s.mem
              /\ UNCHANGED disk

ReadSector == NumCacheSectors + 1
Prompt == << "prompt", "" >>
NoOutput == << >>

(* The block device, for the constants of AsyncFatFs. *)
DriveReadBlock(d, block, buffer) == BlockOperation(d, "read", block, buffer, TRUE)
DriveWriteBlock(d, block, buffer) ==
    LET r == BlockOperation(d, "write", block, buffer, TRUE)
    IN  [d |-> r.d, status |-> IF r.ok THEN "BUSY" ELSE "IN_PROGRESS"]

--------------------------------------------------------------------------------
(* The callbacks of fat.c. *)

read_directory_callback(s, f) ==
    LET t == [s EXCEPT !.app.openDirectory = f]
        Show(n) ==
            LET at == [n.s EXCEPT !.app.finder = n.pos]
            IN  CASE n.st = "SUCCESS" /\ n.entry.name \in {"null", "end"} ->
                       [at EXCEPT !.app.readState = "END"]
                  [] n.st = "SUCCESS" /\ Named(n.entry) ->
                       [at EXCEPT !.app.output = Append(@, n.entry.name)]
                  [] OTHER -> at
    IN  CASE f = NULL -> [t EXCEPT !.app.readState = "END", !.app.failed = TRUE]
          [] f # NULL /\ s.app.readState = "OPEN" ->
               [findFirst(t, f) EXCEPT !.app.readState = "READ", !.app.finder.entry = -1]
          [] OTHER -> Show(findNext(t, f, t.app.finder))

read_file_callback(s, f) ==
    LET t == [s EXCEPT !.app.openDirectory = f, !.app.readState = "READ"]
        Show(r) == IF r.data = << >> /\ feof(r.s, f)
                   THEN [r.s EXCEPT !.app.readState = "END"]
                   ELSE [r.s EXCEPT !.app.output = @ \o r.data]
    IN  IF f = NULL THEN [t EXCEPT !.app.readState = "END", !.app.failed = TRUE]
        ELSE Show(fread(t, f, SectorSize))

(* Mutant of change_dir_callback: the handle is not closed.                *)
change_dir_callback_open(s, f) ==
    IF f = NULL THEN [s EXCEPT !.app.failed = TRUE]
    ELSE [chdir(s, f) EXCEPT !.app.path = Append(@, s.app.CDDir)]

change_dir_callback(s, f) ==
    IF f = NULL THEN [s EXCEPT !.app.failed = TRUE]
    ELSE [fclose(chdir(s, f), f, "none").s EXCEPT !.app.path = Append(@, s.app.CDDir)]

FatCallback(s, cb, f) ==
    LET For(name) == cb = name
    IN  CASE For("dir") -> read_directory_callback(s, f)
          [] For("cat") -> read_file_callback(s, f)
          [] For("cd")  -> change_dir_callback(s, f)

--------------------------------------------------------------------------------
(* One call of a command.  A command that finishes leaves the prompt.      *)

Done(s) == [s EXCEPT !.app.cmd = Prompt]
Refused(s) == Done([s EXCEPT !.app.failed = TRUE])
Mounted(s) == s.drive.up /\ s.fs.state = "READY"

(* ReadDirectory and ReadFile: the state machine they share. *)
ReadCommand(s, name, arg) ==
    LET Read(t) == IF t.app.readState # "END" THEN t
                   ELSE Done([fclose(t, t.app.openDirectory, "none").s EXCEPT
                                 !.app.openDirectory = NULL, !.app.readState = "INIT"])
    IN  CASE ~Mounted(s) -> Refused(s)
          [] Mounted(s) /\ s.app.readState = "INIT" ->
               Read(fopen([s EXCEPT !.app.readState = "OPEN"], arg, "r", name))
          [] Mounted(s) /\ s.app.readState = "READ" /\ s.app.openDirectory # NULL ->
               Read(FatCallback(s, name, s.app.openDirectory))
          [] OTHER -> Read(s)

ChangeDirectory(s, arg) ==
    LET named == [s EXCEPT !.app.CDDir = arg]
    IN  CASE ~Mounted(s) -> Refused(s)
          [] Mounted(s) /\ arg \in {"/", ".."} ->
               Done([chdir(named, NULL) EXCEPT !.app.path = << >>])
          [] OTHER -> Done(fopen(named, arg, "r", "cd"))

(* MountFAT with FatInit; the poll it adds is always there in this shell.  *)
MountFAT(s) ==
    IF s.drive.up THEN Done([init(s) EXCEPT !.app.path = << >>]) ELSE Refused(s)

(* ReadBlock (and MountFilesystem, which reads block 0).                   *)
ReadBlockCommand(s, block) ==
    LET sought == MassStorageSeek(s.drive, (block * BlockSize) % WordSize)
        r == MassStorageTransfer(sought, "read", ReadSector, "console", 0, TRUE)
    IN  IF s.drive.up THEN Done([s EXCEPT !.drive = r.d]) ELSE Refused(s)

RunCommand(s) ==
    LET name == s.app.cmd[1]
        arg == s.app.cmd[2]
    IN  CASE name \in {"dir", "cat"} -> ReadCommand(s, name, arg)
          [] name = "cd" -> ChangeDirectory(s, arg)
          [] name = "fat" -> MountFAT(s)
          [] name = "read" -> ReadBlockCommand(s, arg)

--------------------------------------------------------------------------------
Init ==
    /\ drive = MassStorageAttach
    /\ mem = [i \in 1..ReadSector |-> JunkSector]
    /\ disk = Formatted
    /\ cache = ZeroedCache
    /\ fs = ZeroedFs
    /\ app = [ cmd |-> Prompt, last |-> Prompt, typed |-> 0, output |-> NoOutput,
               failed |-> FALSE, readState |-> "INIT", openDirectory |-> NULL,
               finder |-> NoPos, path |-> << >>, CDDir |-> "",
               attached |-> FALSE, bad |-> FALSE, faults |-> 0 ]

AtRest(s) == /\ s.drive.up /\ s.drive.commandState = STATE_CBW_TRANSFER
             /\ \A f \in Files : ~isBusy(s, f)
             /\ s.fs.state # "INITIALIZATION"

Type(c) ==
    /\ app.cmd = Prompt /\ app.typed < MaxCommands
    /\ AtRest(S)
    /\ Becomes([S EXCEPT !.app.cmd = c, !.app.last = c, !.app.typed = @ + 1,
                         !.app.output = NoOutput, !.app.failed = FALSE])

ShellPoll == app.cmd # Prompt /\ Becomes(RunCommand(S))

FatPoll == Becomes(poll(S))

(* SET_CONFIGURATION has ended: configure_complete gets the host structure *)
(* for a status wrapper, so passed is whatever lies there.                 *)
ConfigurationSet(passed) ==
    /\ ~app.attached
    /\ Becomes([S EXCEPT !.drive = configure_complete(drive, passed, TRUE),
                         !.app.attached = TRUE])

(* op_complete: the callback of sdcard.c, or of the command read.          *)
BlockDone(s) ==
    LET i == s.drive.operationPayload
        told == sdcardReadComplete(s, s.drive.ops[i].block, s.drive.commandBuffer)
        t == IF s.drive.operationCallback = "sdcard"
             THEN [told EXCEPT !.drive = ReleaseOp(@, i)] ELSE s
    IN  [t EXCEPT !.drive = op_complete(@)]

(* A stage of the command ends: its data have moved, or its status wrapper *)
(* has come.  The disk may fail a command of the configuration, or (when   *)
(* FaultyReads) not deliver a block and say so in the status; the host may *)
(* refuse a stage of the configuration.                                    *)
TransferEnd(csw, granted, moves) ==
    LET d == drive
        configuring == d.commandComplete = "configure"
        ended == command_complete(d, granted)
        faulty == ~granted \/ ~moves \/ (csw # "passed" /\ ~app.bad)
        t == [S EXCEPT !.drive = ended, !.app.faults = IF faulty THEN @ + 1 ELSE @]
    IN  /\ d.urb
        /\ faulty => app.faults < MaxFaults
        /\ ~granted => configuring
        /\ ~moves => MovesData(d) /\ ~configuring /\ FaultyReads
        /\ csw # "passed" => /\ d.commandState = STATE_CMD_FINISHED
                             /\ configuring \/ (csw = "failed" /\ app.bad)
        /\ app.bad => csw = "failed" \/ d.commandState # STATE_CMD_FINISHED
        /\ Becomes(
             CASE MovesData(d) /\ ~configuring ->
                    IF moves THEN [t EXCEPT !.mem[d.commandBuffer] = disk[d.cmd.block]]
                    ELSE [t EXCEPT !.app.bad = TRUE]
               [] Finished(d, csw) /\ configuring ->
                    [t EXCEPT !.drive = configure_complete(ended, csw = "passed", granted)]
               [] Finished(d, csw) /\ ~configuring ->
                    [BlockDone(t) EXCEPT !.app.bad = FALSE]
               [] OTHER -> t)

AnyTransferEnd == \E csw \in {"passed", "failed", "other"}, granted, moves \in BOOLEAN :
                     TransferEnd(csw, granted, moves)

Next ==
    \/ \E c \in Commands : Type(c)
    \/ ShellPoll \/ FatPoll
    \/ \E passed \in BOOLEAN : ConfigurationSet(passed)
    \/ AnyTransferEnd

(* The shell loop polls shell and file system in turn, and the host ends   *)
(* every transfer.  Weak fairness, with the states in which an action      *)
(* changes something written out.                                          *)
Spec ==
    /\ Init /\ [][Next]_vars
    /\ []<>(app.cmd = Prompt \/ RunCommand(S) = S) \/ []<><<ShellPoll>>_vars
    /\ []<>(poll(S) = S) \/ []<><<FatPoll>>_vars
    /\ []<>(~drive.urb) \/ []<><<AnyTransferEnd>>_vars

--------------------------------------------------------------------------------
(* The driver and the adapter keep the promises of sdcard.h. *)
Device == INSTANCE BlockDevice WITH
    Blocks <- Sectors, Buffers <- 1..ReadSector, memory <- mem,
    pending <- IF drive.commandComplete = "op"
               THEN [op |-> drive.cmd.op, buffer |-> drive.commandBuffer,
                     block |-> IF drive.operationCallback = "sdcard"
                               THEN drive.ops[drive.operationPayload].block
                               ELSE drive.offset \div BlockSize,
                     moved |-> drive.commandState = STATE_CMD_FINISHED]
               ELSE [op |-> "none", block |-> 0, buffer |-> 0, moved |-> FALSE]
RefinesBlockDevice == Device!Spec

(* What the directory that a path leads to is on the disk. *)
DirectoryOf(path) ==
    FoldLeft(LAMBDA c, name : EntryOf(disk, c, name).first, RootCluster, path)
Here == DirectoryOf(app.path)
Exists(name) == name \in Names(disk, Here)

(* After dir and cat (ReadDirectory, ReadFile) the terminal shows the      *)
(* names of the directory and the content of the file, however the polls   *)
(* of shell, file system and disk are interleaved and the cache recycled;  *)
(* the two fail only when there is none.                                   *)
ShowsWhatIsThere ==
    LET name == app.last[1]
        arg == app.last[2]
        directory == IF arg = "." THEN Here ELSE EntryOf(disk, Here, arg).first
        files == FilesOf(disk, directory)
    IN  app.cmd = Prompt /\ Mounted(S) =>
          /\ name \in {"dir", "cat"} /\ app.failed => arg # "." /\ ~Exists(arg)
          /\ name = "dir" /\ ~app.failed =>
               app.output = [i \in DOMAIN files |-> files[i].name]
          /\ name = "cat" /\ ~app.failed =>
               app.output = ContentOf(disk, EntryOf(disk, Here, arg))

(* The path that pwd prints (CWD of fat.c) leads to the directory that     *)
(* afatfs_fopen looks files up in, although cd changes it in a callback.   *)
PathIsDirectory == Mounted(S) => fs.files[CWD].first = Here

(* Both: what the user sees at the prompt is what is on the disk. *)
ShellSeesDisk == ShowsWhatIsThere /\ PathIsDirectory

(* A sector of the cache that counts as read is the block of the disk: the *)
(* callbacks of sdcard.c and massstorage.c name the right buffer and block *)
(* and come after the data.                                                *)
CacheIsDisk ==
    \A i \in Slots : cache.desc[i].state = "IN_SYNC" => mem[i] = disk[cache.desc[i].sector]

(* When nothing is going on nothing is held: no file handle, no sector of  *)
(* the cache, no entry of the table of block operations.                   *)
NothingHeld ==
    app.cmd = Prompt /\ AtRest(S) =>
      /\ \A f \in Files \ {CWD} : fs.files[f].type = "NONE"
      /\ \A i \in Slots : ~cache.desc[i].locked /\ cache.desc[i].retain = 0
      /\ \A i \in Operations : drive.ops[i] = FreeOp

(* Every command ends, and what it started too, although each waits for    *)
(* callbacks of a disk that takes one operation at a time and refuses      *)
(* others.                                                                 *)
CommandEnds == app.cmd # Prompt ~> app.cmd = Prompt /\ AtRest(S)
================================================================================
