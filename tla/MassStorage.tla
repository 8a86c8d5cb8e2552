------------------------------ MODULE MassStorage ------------------------------
(***************************************************************************)
(* The USB mass storage driver (usb/massstorage.c, Lab20) and the block    *)
(* adapter above it (fat/sdcard.c).  The driver carries one command at a   *)
(* time through the stages of the bulk-only transport: command wrapper,    *)
(* data, status wrapper.  Each stage is one USB transfer whose completion  *)
(* runs command_complete in a later timer callback.                        *)
(*                                                                         *)
(* The driver's state is a record d: the fields of MassStorageDevice, the  *)
(* Operations table of sdcard.c, cmd (the command block sent) and urb (a   *)
(* transfer is under way).  A function of the code is an operator from d   *)
(* to the d it leaves, so that a caller's action can contain the call.     *)
(* granted says whether HostEndpointTransfer found a free request.         *)
(***************************************************************************)
EXTENDS Integers, FiniteSetsExt

CONSTANTS
    BlockSize,     \* BLOCK_SIZE
    WordSize,      \* 2^32: blockIndex * BLOCK_SIZE is computed in 32 bits
    MaxOperations, \* MAX_OPERATIONS
    DeviceSuits    \* the disk has the type, block and disk size asked for

ASSUME DriveAssumption ==
    /\ {BlockSize, WordSize, MaxOperations} \subseteq Nat \ {0}
    /\ DeviceSuits \in BOOLEAN

STATE_INQUIRY       == 0
STATE_TEST_START    == 1
STATE_TEST_END      == 2
STATE_READ_CAPACITY == 3
STATE_FINISHED      == 4

STATE_CBW_TRANSFER  == 0
STATE_DATA_TRANSFER == 1
STATE_CSW_TRANSFER  == 2
STATE_CMD_FINISHED  == 3

Operations == 1..MaxOperations
FreeOp == [callback |-> "none", block |-> 0]
NoCommand == [op |-> "none", block |-> 0]
NoBuffer == 0

(* MassStorageAttach; the Operations table is zeroed at startup. *)
MassStorageAttach ==
    [ up |-> FALSE, configurationState |-> STATE_INQUIRY,
      commandState |-> STATE_CBW_TRANSFER, commandComplete |-> "none",
      commandBuffer |-> NoBuffer, commandBufferLen |-> 0,
      operationCallback |-> "none", operationPayload |-> 0,
      offset |-> 0, cmd |-> NoCommand, urb |-> FALSE,
      ops |-> [i \in Operations |-> FreeOp] ]

(* command: refused while one is in progress; otherwise its context is     *)
(* saved and the command wrapper sent.                                     *)
command(d, cmd, buffer, len, complete, granted) ==
    LET saved == [d EXCEPT !.commandComplete = complete, !.cmd = cmd,
                           !.commandBuffer = buffer, !.commandBufferLen = len]
    IN  CASE d.commandState # STATE_CBW_TRANSFER -> [d |-> d, ok |-> FALSE]
          [] d.commandState = STATE_CBW_TRANSFER /\ ~granted ->
               [d |-> saved, ok |-> FALSE]
          [] OTHER ->
               [d |-> [saved EXCEPT !.urb = TRUE, !.commandState = STATE_DATA_TRANSFER],
                ok |-> TRUE]

(* Mutant of command_complete: no data stage.                              *)
command_complete_no_data(d, granted) ==
    IF d.commandState = STATE_CMD_FINISHED
    THEN [d EXCEPT !.urb = FALSE, !.commandState = STATE_CBW_TRANSFER]
    ELSE [d EXCEPT !.urb = granted,
                   !.commandState = IF granted THEN STATE_CMD_FINISHED ELSE STATE_CBW_TRANSFER]

(* command_complete: a stage's transfer has ended, the next one is         *)
(* started.  When the next cannot be started, or the status wrapper is not *)
(* this command's, the command is dropped and nobody is told.              *)
command_complete(d, granted) ==
    LET Start(state) ==
            [d EXCEPT !.urb = granted,
                      !.commandState = IF granted THEN state ELSE STATE_CBW_TRANSFER]
    IN  CASE d.commandState = STATE_DATA_TRANSFER /\ d.commandBufferLen > 0 ->
               Start(STATE_CSW_TRANSFER)
          [] d.commandState = STATE_DATA_TRANSFER /\ d.commandBufferLen <= 0 ->
               Start(STATE_CMD_FINISHED)
          [] d.commandState = STATE_CSW_TRANSFER -> Start(STATE_CMD_FINISHED)
          [] d.commandState = STATE_CMD_FINISHED ->
               [d EXCEPT !.urb = FALSE, !.commandState = STATE_CBW_TRANSFER]

(* The last branch of command_complete calls commandComplete only for a    *)
(* wrapper with the right signature and tag.                               *)
Finished(d, csw) == d.commandState = STATE_CMD_FINISHED /\ csw # "other"

(* The data stage is the transfer that ends in state CSW.                  *)
MovesData(d) == d.commandState = STATE_CSW_TRANSFER

(* configure_complete: INQUIRY, TEST UNIT READY, REQUEST SENSE and READ    *)
(* CAPACITY in turn; a status that is not 'passed' repeats the command.    *)
configure_complete(d, passed, granted) ==
    LET at == IF passed THEN d.configurationState ELSE d.configurationState - 1
        here == [d EXCEPT !.configurationState = at, !.commandComplete = "none"]
        Send(op, len) ==
            LET r == command(here, [op |-> op, block |-> 0], NoBuffer, len,
                             "configure", granted)
            IN  IF r.ok THEN [r.d EXCEPT !.configurationState = at + 1] ELSE r.d
    IN  CASE at = STATE_INQUIRY -> Send("inquiry", 1)
          [] at = STATE_TEST_START -> IF DeviceSuits THEN Send("test", 0) ELSE here
          [] at = STATE_TEST_END -> Send("sense", 1)
          [] at = STATE_READ_CAPACITY -> Send("capacity", 1)
          [] at = STATE_FINISHED -> [here EXCEPT !.up = DeviceSuits]
          [] OTHER -> [here EXCEPT !.configurationState = at + 1]

(* op_complete: what is left after the user's callback returned.  The      *)
(* failure length it passes is not looked at by the callbacks of sdcard.c. *)
op_complete(d) ==
    [d EXCEPT !.commandComplete = "none", !.commandBuffer = NoBuffer,
              !.commandBufferLen = 0, !.offset = @ + BlockSize]

MassStorageSeek(d, offset) ==
    IF offset % BlockSize = 0 THEN [d EXCEPT !.offset = offset] ELSE d

(* Mutant of MassStorageTransfer: blocks count from one.                   *)
MassStorageTransfer_next(d, op, buffer, callback, payload, granted) ==
    command([d EXCEPT !.operationCallback = callback, !.operationPayload = payload],
            [op |-> op, block |-> d.offset \div BlockSize + 1], buffer, 1, "op", granted)

(* MassStorageRead and MassStorageWrite: the callback and its payload are  *)
(* replaced before the command is tried.                                   *)
MassStorageTransfer(d, op, buffer, callback, payload, granted) ==
    command([d EXCEPT !.operationCallback = callback, !.operationPayload = payload],
            [op |-> op, block |-> d.offset \div BlockSize], buffer, 1, "op", granted)

NewOp(d) ==
    LET free == {i \in Operations : d.ops[i].callback = "none"}
    IN  IF free = {} THEN 0 ELSE Min(free)

(* sdcard_readBlock and sdcard_writeBlock up to their result: an entry of  *)
(* Operations is claimed and stays claimed when the command is refused.    *)
BlockOperation(d, op, block, buffer, granted) ==
    LET i == NewOp(d)
        claimed == [d EXCEPT !.ops[i] = [callback |-> op, block |-> block]]
        sought == MassStorageSeek(claimed, (block * BlockSize) % WordSize)
    IN  IF i = 0 THEN [d |-> d, ok |-> FALSE]
        ELSE IF sought.offset # (block * BlockSize) % WordSize
             THEN [d |-> sought, ok |-> FALSE]
             ELSE MassStorageTransfer(sought, op, buffer, "sdcard", i, granted)

(* Mutant of ReleaseOp: the entry stays in use.                            *)
ReleaseOp_never(d, i) == d

(* ms_readBlockCallback and ms_writeBlockCallback after op->callback. *)
ReleaseOp(d, i) == [d EXCEPT !.ops[i] = FreeOp]

sdcard_poll(d) == \E i \in Operations : d.ops[i].callback = "none"
================================================================================
