--------------------------- MODULE TransferStage ---------------------------
(***************************************************************************)
(* The byte and packet accounting of a data stage,                         *)
(* boards/peripherals/dwc/transfer.c: how a buffer is cut into packets and *)
(* how much of it each transaction hands to the controller's DMA.  Retries *)
(* leave the accounting alone and are in UsbHost.                          *)
(***************************************************************************)
EXTENDS Integers

CONSTANTS MaxSize,        \* bound: bytes of a stage, and transactions of a stage
          MaxPacketSizes, \* of the endpoints, 8 and more
          U32            \* values of a u32, 2^32

StageAssumption ==
  /\ MaxSize \in Nat /\ MaxPacketSizes \subseteq Nat \ {0}
  /\ U32 \in Nat /\ MaxSize < U32

VARIABLES transferSize, maxPacketSize, splitTransaction,
          packets, packetsPerTransaction, bytesPerTransaction,
          totalBytesTransfered,
          short,    \* the device has sent fewer bytes than asked for
          active    \* a transaction is under way

vars == <<transferSize, maxPacketSize, splitTransaction, packets,
          packetsPerTransaction, bytesPerTransaction, totalBytesTransfered, short, active>>

u32(n)        == n % U32
Smaller(a, b) == IF a < b THEN a ELSE b
Ceiling(n, d) == (n + d - 1) \div d

(***************************************************************************)
(* The for loop that counts packets, as the number of its rounds: size     *)
(* starts at n + m - 1 and loses m a round while it is greater than m.     *)
(***************************************************************************)
PacketCount(n, m) ==
  CHOOSE k \in 0 .. n : /\ n + m - 1 - k * m <= m
                        /\ \A j \in 0 .. k - 1 : n + m - 1 - j * m > m

(* TransferStageDataAttach, and the stage's first start_transaction. *)
Attach(n, m, split) ==
  /\ transferSize' = n /\ maxPacketSize' = m /\ splitTransaction' = split
  /\ packets' = PacketCount(n, m)
  /\ packetsPerTransaction' = IF split THEN 1 ELSE PacketCount(n, m)
  /\ bytesPerTransaction' = IF split THEN Smaller(n, m) ELSE n
  /\ totalBytesTransfered' = 0 /\ short' = FALSE /\ active' = TRUE

(* No client of the driver has a data stage of a single byte. *)
TransferStageDataAttach ==
  /\ ~active
  /\ \E n \in 2 .. MaxSize, m \in MaxPacketSizes, split \in BOOLEAN : Attach(n, m, split)

Init ==
  /\ transferSize = 0 /\ maxPacketSize = 0 /\ splitTransaction = FALSE
  /\ packets = 0 /\ packetsPerTransaction = 0 /\ bytesPerTransaction = 0
  /\ totalBytesTransfered = 0 /\ short = FALSE /\ active = FALSE

(***************************************************************************)
(* The controller moves n bytes in p packets: no more packets than it was  *)
(* told, each full but the last.                                           *)
(***************************************************************************)
Moved(n, p) ==
  /\ p \in 1 .. packetsPerTransaction
  /\ n \in 0 .. Smaller(bytesPerTransaction, p * maxPacketSize)
  /\ Ceiling(n, maxPacketSize) \in {p, 0}

(***************************************************************************)
(* The bytes counted: after a complete split a count of none means that    *)
(* the controller did not report them.                                     *)
(***************************************************************************)
BytesTransfered(n, p) ==
  IF splitTransaction /\ n = 0 /\ bytesPerTransaction > 0 THEN maxPacketSize * p ELSE n

(* TransferStageDataTransactionComplete. *)
Account(n, p) ==
  /\ totalBytesTransfered' = totalBytesTransfered + BytesTransfered(n, p)
  /\ packets' = u32(packets - p)
  /\ bytesPerTransaction' =
       Smaller(bytesPerTransaction, u32(transferSize - totalBytesTransfered'))

(* A split stage goes on while packets are left, one without splits ends. *)
TransactionComplete(n, p) ==
  /\ active
  /\ Moved(n, p)
  /\ Account(n, p)
  /\ short' = (short \/ n < Smaller(bytesPerTransaction,
                                   packetsPerTransaction * maxPacketSize))
  /\ active' = (splitTransaction /\ packets' # 0)
  /\ UNCHANGED <<transferSize, maxPacketSize, splitTransaction, packetsPerTransaction>>

TransferStageDataGetResultLen == Smaller(totalBytesTransfered, transferSize)

Next ==
  \/ TransferStageDataAttach
  \/ \E n \in 0 .. MaxSize, p \in 1 .. MaxSize : TransactionComplete(n, p)

Spec == Init /\ [][Next]_vars

-----------------------------------------------------------------------------
(***************************************************************************)
(* Shape of the state: the counters stay within their 32 bits.             *)
(***************************************************************************)
TypeOK ==
  /\ transferSize \in 0 .. MaxSize
  /\ maxPacketSize \in MaxPacketSizes \cup {0}
  /\ splitTransaction \in BOOLEAN /\ short \in BOOLEAN /\ active \in BOOLEAN
  /\ packets \in 0 .. MaxSize
  /\ packetsPerTransaction \in 0 .. MaxSize
  /\ bytesPerTransaction \in 0 .. MaxSize
  /\ totalBytesTransfered \in Nat

(***************************************************************************)
(* DMA stays in the buffer: whatever the device answered so far, the bytes *)
(* the next transaction may move end at or before the end of the buffer.   *)
(***************************************************************************)
DmaWithinBuffer ==
  active => totalBytesTransfered + bytesPerTransaction <= transferSize

(***************************************************************************)
(* A stage in which the device moved all it was asked for ends with the    *)
(* whole buffer moved, unless the size is one more than a multiple of the  *)
(* packet size.                                                            *)
(***************************************************************************)
WholeBufferMoved ==
  transferSize > 0 /\ ~active /\ ~short /\ (transferSize - 1) % maxPacketSize # 0
    => TransferStageDataGetResultLen = transferSize

(***************************************************************************)
(* The assertion that a transaction moves no more packets than are left:   *)
(* the unsigned count never passes zero, after which the stage would not   *)
(* end.                                                                    *)
(***************************************************************************)
PacketsSuffice == [][active => packets' < packets]_vars
=============================================================================
