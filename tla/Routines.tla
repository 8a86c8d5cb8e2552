------------------------------ MODULE Routines ------------------------------
(***************************************************************************)
(* The leaf routines the rest of the system calls, side by side: the clock *)
(* (Clock), the division (Division), the accounting of a data stage        *)
(* (TransferStage) and memcpy (MemoryCopy).  They share no state.          *)
(***************************************************************************)
CONSTANTS Low, MaxTicks, Delays, Width, MaxSize, MaxPacketSizes, U32, MaxLength, Alignments

VARIABLES ticks, reading, low, started, now, torn, armed, delay, since, expire, remaining,
          dividend, divisor, value, quotient, high, bit, returned,
          transferSize, maxPacketSize, splitTransaction, packets,
          packetsPerTransaction, bytesPerTransaction, totalBytesTransfered, short, active,
          dst, src, length, bytes, memory

Clk == INSTANCE Clock
Div == INSTANCE Division
Stg == INSTANCE TransferStage
Cpy == INSTANCE MemoryCopy

RoutinesAssumption ==
  Clk!ClockAssumption /\ Div!DivisionAssumption /\ Stg!StageAssumption /\ Cpy!CopyAssumption

clock    == <<ticks, reading, low, started, now, torn, armed, delay, since, expire, remaining>>
division == <<dividend, divisor, value, quotient, high, bit, returned>>
stage    == <<transferSize, maxPacketSize, splitTransaction, packets, packetsPerTransaction,
              bytesPerTransaction, totalBytesTransfered, short, active>>
copy     == <<dst, src, length, bytes, memory>>

-----------------------------------------------------------------------------
(* The leaf routines are right on every input: __aeabi_uidivmod divides;   *)
(* TransferStageDataAttach counts enough packets for the buffer, and       *)
(* TransferStageDataTransactionComplete never lets them pass zero nor DMA  *)
(* leave the buffer; memcpy copies its region, all of it and nothing else; *)
(* a reading of the clock is never behind, and a timer whose readings are  *)
(* whole never expires early.                                              *)
RoutinesRight ==
  /\ [](Div!Divides /\ Stg!DmaWithinBuffer /\ Stg!WholeBufferMoved /\ Cpy!Copies)
  /\ Stg!PacketsSuffice /\ Clk!NeverBehind /\ Clk!ExpiresNotEarly
=============================================================================
