------------------------------- MODULE Xmodem -------------------------------
(***************************************************************************)
(* The Xmodem receiver of system/xmodem.c, polled by the shell command     *)
(* xmodem, against a sender on the other end of the UART.                  *)
(*                                                                         *)
(* A frame is three symbols: SOH, the block number (with its inverse), the *)
(* data (with its checksum); a symbol the line garbles is Bad.  The data   *)
(* of block k is k.  line is what is in the UART's receive FIFO, so flush  *)
(* empties it but not what the sender has still to send.  The packet timer *)
(* may expire at any poll: it is restarted per packet, not per character,  *)
(* and the sender starts a frame at any time.                              *)
(*                                                                         *)
(* Sender (external): stop and wait, the reply read once the frame is out  *)
(* and older replies discarded; it gives up after SenderTries refusals.    *)
(***************************************************************************)
EXTENDS Integers, Sequences

CONSTANTS Blocks,       \* number of blocks of the file
          Numbers,      \* block numbers on the line, 256
          FileBytes,    \* bytes in the file, the rest of the last block is CPMEOF
          XMODEM_DATA_SIZE, XMODEM_PACKET_SIZE,
          XMODEM_DATA_RETRY,
          length,       \* blocks that fit the destination
          EotBlocks,    \* blocks whose data holds an EOT character
          SenderTries,  \* bound: refusals the sender accepts in a row
          MaxFaults     \* bound: symbols garbled, lost, replies lost

XmodemAssumption ==
  /\ Blocks \in Nat \ {0} /\ Numbers \in Nat \ {0, 1}
  /\ FileBytes \in Nat /\ XMODEM_DATA_SIZE \in Nat /\ XMODEM_PACKET_SIZE \in Nat
  /\ FileBytes <= Blocks * XMODEM_DATA_SIZE
  /\ (Blocks - 1) * XMODEM_PACKET_SIZE <= Blocks * XMODEM_DATA_SIZE
  /\ XMODEM_DATA_RETRY \in Nat /\ SenderTries \in Nat /\ MaxFaults \in Nat

SOH     == <<"SOH">>
EOT     == <<"EOT">>
Bad     == <<"Bad">>
Num(k)  == <<"Num", k % Numbers>>
Data(k) == <<"Data", k>>

FrameLength == 3
NoData      == 0

VARIABLES block, i, packet, retry, rcvd, \* XmodemState
          destination, \* destination[k]: the data stored for block k
          outcome,     \* "idle", "active", "complete" or "timeout"
          line,        \* receive FIFO of the UART
          replies,     \* ACK and NAK on their way to the sender
          sender,      \* "await", "send", "done" or "gaveup"
          sn,          \* the block being sent, Blocks + 1 for EOT
          out,         \* symbols of it already sent
          refused,     \* NAKs for it in a row
          faults

receiver == <<block, i, packet, retry, rcvd, destination, outcome>>
peer     == <<sender, sn, out, refused>>
vars     == <<receiver, line, replies, peer, faults>>

Frame(k) == IF k > Blocks THEN <<EOT>> ELSE <<SOH, Num(k), Data(k)>>

Init ==
  /\ block = 0 /\ i = 0 /\ packet = << >> /\ retry = 0 /\ rcvd = 0
  /\ destination = [k \in 1 .. Blocks |-> NoData]
  /\ outcome = "idle"
  /\ line = << >> /\ replies = << >>
  /\ sender = "await" /\ sn = 1 /\ out = 0 /\ refused = 0
  /\ faults = 0

XmodemStart ==
  /\ outcome = "idle" /\ block = 0
  /\ block' = 1 /\ rcvd' = 0 /\ retry' = 0 /\ i' = 0
  /\ outcome' = "active"
  /\ UNCHANGED <<packet, destination, line, replies, peer, faults>>

(* Mutant of process_xmodem: the checksum is not compared. *)
process_xmodem_no_checksum(frame, expected) ==
  IF /\ frame[1] = SOH
     /\ frame[2][1] = "Num" /\ frame[2][2] <= expected
  THEN frame[2][2] ELSE -1

(* The block number of a good frame that is not ahead of the expected one, or -1. *)
process_xmodem(frame, expected) ==
  IF /\ frame[1] = SOH
     /\ frame[2][1] = "Num" /\ frame[2][2] <= expected
     /\ frame[3][1] = "Data"
  THEN frame[2][2] ELSE -1

(* (state->block - 2) * XMODEM_PACKET_SIZE, less the CPMEOF at the end. *)
Received ==
  LET raw == (block - 2) * XMODEM_PACKET_SIZE
  IN  IF raw < 0 \/ raw <= FileBytes THEN raw ELSE FileBytes

(* XmodemPoll when the timer has expired. *)
Timeout ==
  /\ outcome = "active"
  /\ retry' = retry + 1
  /\ IF retry' > XMODEM_DATA_RETRY
     THEN /\ outcome' = "timeout"
          /\ block' = 0
          /\ UNCHANGED <<i, packet, line, replies>>
     ELSE /\ i' = 0 /\ packet' = << >>
          /\ line' = << >>
          /\ replies' = Append(replies, "NAK")
          /\ UNCHANGED <<block, outcome>>
  /\ UNCHANGED <<rcvd, destination, peer, faults>>

(* The first character of a frame is EOT. *)
Complete ==
  /\ rcvd' = Received
  /\ replies' = Append(replies, "ACK")
  /\ block' = 0
  /\ outcome' = "complete"
  /\ line' = Tail(line)
  /\ UNCHANGED <<i, packet, retry, destination>>

(* A whole packet has been collected. *)
Process(frame) ==
  LET result == process_xmodem(frame, block % Numbers)
      at     == result + (block - (block % Numbers))
  IN  /\ IF result >= 0
         THEN /\ destination' = [destination EXCEPT ![at] =
                                   IF frame[3][1] = "Data" THEN frame[3][2] ELSE NoData]
              /\ block' = at + 1
              /\ replies' = Append(replies, "ACK")
              /\ line' = Tail(line)
         ELSE /\ line' = << >>
              /\ replies' = Append(replies, "NAK")
              /\ UNCHANGED <<destination, block>>
      /\ retry' = 0 /\ i' = 0 /\ packet' = << >>
      /\ UNCHANGED <<rcvd, outcome>>

LooksLikeEot(symbol) ==
  symbol = EOT \/ (symbol[1] = "Data" /\ symbol[2] \in EotBlocks)

(* XmodemPoll when a character is available. *)
Receive ==
  /\ outcome = "active"
  /\ line # << >>
  /\ LET frame == Append(packet, Head(line))
     IN  IF i = 0 /\ LooksLikeEot(Head(line)) THEN Complete
         ELSE IF i + 1 = FrameLength THEN Process(frame)
         ELSE /\ i' = i + 1 /\ packet' = frame
              /\ line' = Tail(line)
              /\ UNCHANGED <<block, retry, rcvd, destination, outcome, replies>>
  /\ UNCHANGED <<peer, faults>>

-----------------------------------------------------------------------------
(* The sender puts the next symbol on the line, which delivers s of it. *)
SendSymbol(s) ==
  /\ sender = "send"
  /\ line' = line \o s
  /\ out' = out + 1
  /\ sender' = IF out' = Len(Frame(sn)) THEN "await" ELSE "send"
  /\ UNCHANGED <<receiver, replies, sn, refused>>

Send == SendSymbol(<<Frame(sn)[out + 1]>>) /\ UNCHANGED faults

Fault == faults < MaxFaults /\ faults' = faults + 1

Garble == Fault /\ SendSymbol(<<Bad>>)

Lose == Fault /\ SendSymbol(<< >>)

LoseReply ==
  /\ Fault
  /\ replies # << >>
  /\ replies' = Tail(replies)
  /\ UNCHANGED <<receiver, line, peer>>

ReadReply ==
  /\ sender = "await" /\ line = << >> /\ replies # << >>
  /\ replies' = << >>
  /\ out' = 0
  /\ IF Head(replies) = "ACK"
     THEN /\ sn' = IF sn > Blocks THEN sn ELSE sn + 1
          /\ refused' = 0
          /\ sender' = IF sn > Blocks THEN "done" ELSE "send"
     ELSE /\ sn' = sn
          /\ refused' = refused + 1
          /\ sender' = IF refused' > SenderTries THEN "gaveup" ELSE "send"
  /\ UNCHANGED <<receiver, line, faults>>

Ended == outcome \in {"complete", "timeout"} /\ UNCHANGED vars

Next ==
  \/ XmodemStart
  \/ Timeout
  \/ Receive
  \/ Send
  \/ Garble
  \/ Lose
  \/ LoseReply
  \/ ReadReply
  \/ Ended

(* The shell polls the receiver for ever and its timer does expire. *)
Fairness == WF_vars(XmodemStart) /\ WF_vars(Timeout)

Spec == Init /\ [][Next]_vars /\ Fairness

-----------------------------------------------------------------------------
(***************************************************************************)
(* Shape of the state.                                                     *)
(***************************************************************************)
Symbols == {SOH, EOT, Bad} \cup {Num(k) : k \in 1 .. Blocks} \cup {Data(k) : k \in 1 .. Blocks}

TypeOK ==
  /\ block \in 0 .. Blocks + 1
  /\ i \in 0 .. FrameLength - 1
  /\ packet \in Seq(Symbols)
  /\ retry \in 0 .. XMODEM_DATA_RETRY + 1
  /\ rcvd \in Int
  /\ destination \in [1 .. Blocks -> 0 .. Blocks]
  /\ outcome \in {"idle", "active", "complete", "timeout"}
  /\ line \in Seq(Symbols)
  /\ replies \in Seq({"ACK", "NAK"})
  /\ sender \in {"await", "send", "done", "gaveup"}
  /\ sn \in 1 .. Blocks + 1
  /\ out \in 0 .. FrameLength
  /\ refused \in 0 .. SenderTries + 1
  /\ faults \in 0 .. MaxFaults

(***************************************************************************)
(* A download reported complete is the file: no block missing, garbled or  *)
(* in another block's place, whatever the line lost and whenever the       *)
(* packet timer fired.                                                     *)
(***************************************************************************)
CompleteIsWhole ==
  outcome = "complete" => \A k \in 1 .. Blocks : destination[k] = k

(***************************************************************************)
(* Receiver and sender never drift apart: the receiver expects the block   *)
(* being sent, or has just stored it.                                      *)
(***************************************************************************)
InStep ==
  outcome = "active" =>
    IF sn > Blocks THEN block = Blocks + 1 ELSE block \in {sn, sn + 1}

(***************************************************************************)
(* The xmodem command always ends: with the file, or by counting timeouts  *)
(* once the sender is silent.                                              *)
(***************************************************************************)
AlwaysEnds == <>(outcome \in {"complete", "timeout"})

(***************************************************************************)
(* Claims of the comments in xmodem.c that the code does not keep.         *)
(***************************************************************************)

(* "Trim EOF markers from last frame and return length." *)
RcvdIsLength == outcome = "complete" => rcvd = FileBytes

(* "length = maximum length of Xmodem data" *)
WithinLength == \A k \in 1 .. Blocks : k > length => destination[k] = NoData

(* "Preserve previous block overflows but adjust for resends": a good frame *)
(* with the block received last is acknowledged.                            *)
ResendAcknowledged ==
  [][(/\ outcome = "active" /\ outcome' = "active"
      /\ i = FrameLength - 1 /\ i' = 0 /\ retry' = 0
      /\ line # << >>
      /\ packet = <<SOH, Num(block - 1)>> /\ Head(line) = Data(block - 1))
       => replies' = Append(replies, "ACK")]_vars
=============================================================================
