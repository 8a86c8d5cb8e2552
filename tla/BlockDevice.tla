------------------------------ MODULE BlockDevice ------------------------------
(***************************************************************************)
(* What the comments of fat/sdcard.c and fat/sdcard.h promise the file     *)
(* system: a block operation is either refused, and then nothing has       *)
(* happened, or it is taken and later answered once, for the block and     *)
(* with the buffer it was started with.  A read answered with the buffer   *)
(* left the block in it, a write put the buffer on the disk.  One          *)
(* operation is under way at a time.                                       *)
(***************************************************************************)

CONSTANTS Blocks, Buffers

VARIABLES
    pending, \* the operation taken and not yet answered, or None
    memory,  \* of the buffers
    disk     \* the blocks

vars == << pending, memory, disk >>

None == [op |-> "none", block |-> 0, buffer |-> 0, moved |-> FALSE]
Request(op, block, buffer) ==
    [op |-> op, block |-> block, buffer |-> buffer, moved |-> FALSE]

Init ==
    /\ pending = None
    /\ DOMAIN memory = Buffers
    /\ DOMAIN disk = Blocks

(* sdcard_readBlock returns true, sdcard_writeBlock IN_PROGRESS.  Until    *)
(* then the buffer was its owner's.                                        *)
Take ==
    /\ pending = None
    /\ \E op \in {"read", "write"}, block \in Blocks, buffer \in Buffers :
          /\ pending' = Request(op, block, buffer)
          /\ memory' = [memory EXCEPT ![buffer] = memory'[buffer]]
    /\ UNCHANGED disk

(* While the operation is under way the block moves. *)
Move ==
    /\ \/ /\ pending.op = "read"
          /\ memory' = [memory EXCEPT ![pending.buffer] = disk[pending.block]]
          /\ UNCHANGED disk
       \/ /\ pending.op = "write"
          /\ disk' = [disk EXCEPT ![pending.block] = memory[pending.buffer]]
          /\ UNCHANGED memory
    /\ pending' = [pending EXCEPT !.moved = TRUE]

(* The callback: only after the block has moved. *)
Answer ==
    /\ pending.moved
    /\ pending' = None
    /\ UNCHANGED << memory, disk >>

Next == Take \/ Move \/ Answer

Spec == Init /\ [][Next]_vars
================================================================================
