-------------------------------- MODULE Tftp --------------------------------
(***************************************************************************)
(* The TFTP client of network/core/tftp_clnt.c.  The shell polls Tftp,     *)
(* which sends the read request and looks at the block timer (tftpGet);    *)
(* lwIP calls tftp_recv for each datagram to the client's port.            *)
(*                                                                         *)
(* The server (external) answers each read request it gets from a port of  *)
(* its own, here a number, sends a block again until it is acknowledged    *)
(* and may stop.  The network loses, duplicates and reorders.  Block k of  *)
(* the file has content k; the last one is short.  Every download has a    *)
(* new local port, so datagrams of an earlier one do not reach it.         *)
(*                                                                         *)
(* What the heap does with a control block freed twice is not modelled:    *)
(* doubleFree records that it happened and the client goes on.             *)
(***************************************************************************)
EXTENDS Integers, FiniteSets

CONSTANTS Blocks,   \* of the file
          Numbers,  \* block numbers, 2^16
          TFTP_INIT_BLOCK_MAX_RETRIES,
          ServerErrors, ServerStops, Strangers, \* what may happen, BOOLEAN
          MaxFaults \* bound: datagrams lost or duplicated, sends that find no memory

ASSUME TftpAssumption ==
  /\ Blocks \in Nat \ {0} /\ Numbers \in Nat \ {0, 1}
  /\ TFTP_INIT_BLOCK_MAX_RETRIES \in Nat \ {0} /\ MaxFaults \in Nat
  /\ {ServerErrors, ServerStops, Strangers} \subseteq BOOLEAN

Ports == 1 .. TFTP_INIT_BLOCK_MAX_RETRIES \* of the server, one per request
None  == 0

VARIABLES Data,                 \* a download is under way
          num_rreqs_sent, next_block_number, status,
          expired,              \* block_max_end_timer
          remote,               \* the port recv_udpdev is connected to, or None
          image,                \* content at each block of the destination
          shown,                \* what Tftp told: "nothing", "complete", "timeout" or "failed"
          doubleFree,           \* a udp_pcb was removed twice
          kept,                 \* a received pbuf was not freed
          refused,              \* an ERROR came or a send failed
          net,                  \* datagrams on their way
          serverUp, serving,    \* block each port of the server is sending, -1 after an ERROR
          faults

client == <<Data, num_rreqs_sent, next_block_number, status, expired, remote, image, shown,
            doubleFree, kept, refused>>
vars   == <<client, net, serverUp, serving, faults>>

RRQ      == [op |-> "RRQ", port |-> None, num |-> 0, block |-> 0]
ACK(p,n) == [op |-> "ACK", port |-> p, num |-> n, block |-> 0]
DATA(p,k) == [op |-> "DATA", port |-> p, num |-> k % Numbers, block |-> k]
ERROR(p) == [op |-> "ERROR", port |-> p, num |-> 0, block |-> 0]
Stray    == [op |-> "stray", port |-> None, num |-> 0, block |-> 0]

Init ==
  /\ Data = FALSE /\ num_rreqs_sent = 0 /\ next_block_number = 0 /\ status = "OK"
  /\ expired = FALSE /\ remote = None
  /\ image = [k \in 1 .. Blocks |-> 0]
  /\ shown = "nothing" /\ doubleFree = FALSE /\ kept = FALSE /\ refused = FALSE
  /\ net = IF Strangers THEN {Stray} ELSE {}
  /\ serverUp = TRUE
  /\ serving = [p \in Ports |-> 0]
  /\ faults = 0

Fault == faults < MaxFaults /\ faults' = faults + 1

(* Tftp ends: the message, and Data is cleared. *)
Finish(result) ==
  /\ Data' = FALSE
  /\ shown' = IF result = "EOF" THEN "complete"
              ELSE IF result = "TIMEOUT" THEN "timeout" ELSE "failed"

(* The first call of Tftp: request, control block, block timer. *)
Tftp ==
  /\ ~Data /\ shown = "nothing"
  /\ \/ /\ Data' = TRUE /\ net' = net \cup {RRQ}
        /\ num_rreqs_sent' = 1 /\ next_block_number' = 1
        /\ UNCHANGED <<shown, status, refused, faults>>
     \/ /\ Fault
        /\ status' = "SYSERR" /\ refused' = TRUE /\ Finish("SYSERR")
        /\ UNCHANGED <<num_rreqs_sent, next_block_number, net>>
  /\ expired' = FALSE /\ remote' = None
  /\ UNCHANGED <<image, doubleFree, kept, serverUp, serving>>

-----------------------------------------------------------------------------
(* tftpGet when the block timer has expired. *)

(* A status was set by tftp_recv. *)
StatusSet ==
  /\ status # "OK"
  /\ Finish(status)
  /\ UNCHANGED <<num_rreqs_sent, expired, remote, doubleFree, refused, net, faults>>

(* Mutant of RetryRRQ: the requests are not counted. *)
RetryRRQ_uncounted ==
  /\ status = "OK"
  /\ next_block_number = 1 /\ num_rreqs_sent < TFTP_INIT_BLOCK_MAX_RETRIES
  /\ net' = net \cup {RRQ}
  /\ expired' = FALSE /\ remote' = None /\ doubleFree' = TRUE
  /\ UNCHANGED <<num_rreqs_sent, Data, shown, refused, faults>>

(***************************************************************************)
(* The request is sent again.  send_udpdev and recv_udpdev are the same    *)
(* control block, which is removed under both names before a new one is    *)
(* made.                                                                   *)
(***************************************************************************)
RetryRRQ ==
  /\ status = "OK"
  /\ next_block_number = 1 /\ num_rreqs_sent < TFTP_INIT_BLOCK_MAX_RETRIES
  /\ \/ /\ net' = net \cup {RRQ}
        /\ num_rreqs_sent' = num_rreqs_sent + 1
        /\ expired' = FALSE /\ remote' = None /\ doubleFree' = TRUE
        /\ UNCHANGED <<Data, shown, refused, faults>>
     \/ /\ Fault
        /\ refused' = TRUE /\ Finish(status)
        /\ UNCHANGED <<net, num_rreqs_sent, expired, remote, doubleFree>>

GiveUp ==
  /\ status = "OK"
  /\ num_rreqs_sent >= TFTP_INIT_BLOCK_MAX_RETRIES
  /\ Finish(status)
  /\ UNCHANGED <<num_rreqs_sent, expired, remote, doubleFree, refused, net, faults>>

(* After the first block, with requests left, a timeout has no branch: nothing is done. *)
NoBranch ==
  /\ status = "OK"
  /\ next_block_number > 1 /\ num_rreqs_sent < TFTP_INIT_BLOCK_MAX_RETRIES
  /\ UNCHANGED <<Data, shown, num_rreqs_sent, expired, remote, doubleFree, refused, net, faults>>

tftpGet ==
  /\ Data /\ expired
  /\ StatusSet \/ RetryRRQ \/ GiveUp \/ NoBranch
  /\ UNCHANGED <<next_block_number, status, image, kept, serverUp, serving>>

TimerExpires ==
  /\ Data /\ ~expired /\ expired' = TRUE
  /\ UNCHANGED <<Data, num_rreqs_sent, next_block_number, status, remote, image, shown,
                 doubleFree, kept, refused, net, serverUp, serving, faults>>

-----------------------------------------------------------------------------
(* tftp_recv. *)

(* udp_input finds the control block: unconnected, or connected to the sender. *)
ForUs(m) == m.op \in {"DATA", "ERROR", "stray"} /\ Data /\ remote \in {None, m.port}

NextNumber == next_block_number % Numbers

IsNext(m)     == m.num = NextNumber
IsPrevious(m) == next_block_number # 1 /\ m.num = NextNumber - 1

(* Mutant of IsLast: block_nbytes of the previous block is not a full one. *)
IsLast_previous(m) == ~IsNext(m) \/ m.block = Blocks

(* A short block; the previous one counts as full. *)
IsLast(m) == IsNext(m) /\ m.block = Blocks

(* The first datagram comes from another host: nothing is done, not even freed. *)
FromStranger(m) ==
  /\ next_block_number = 1 /\ m.op = "stray"
  /\ kept' = TRUE
  /\ UNCHANGED <<next_block_number, status, expired, remote, image, refused, faults>>

(* The first datagram from the server decides the port, whatever it holds. *)
Connect(m) == remote' = IF next_block_number = 1 THEN m.port ELSE remote

Invalid(m) ==
  /\ m.op # "stray"
  /\ m.op = "ERROR" \/ ~(IsNext(m) \/ IsPrevious(m))
  /\ Connect(m)
  /\ IF m.op = "ERROR" THEN status' = "SYSERR" /\ expired' = TRUE /\ refused' = TRUE
                        ELSE UNCHANGED <<status, expired, refused>>
  /\ UNCHANGED <<next_block_number, image, kept, faults>>

(* destination[(recv_block_number - 1) * TFTP_BLOCK_SIZE]. *)
Store(m) == image' = [k \in 1 .. Blocks |-> IF k = m.num THEN m.block ELSE image[k]]

(***************************************************************************)
(* A DATA packet with the next block is stored, one with the previous is   *)
(* not; both are acknowledged.  A short block ends the download even when  *)
(* the acknowledgement could not be sent.                                  *)
(***************************************************************************)
Block(m, sent) ==
  /\ m.op = "DATA" /\ (IsNext(m) \/ IsPrevious(m))
  /\ Connect(m)
  /\ IF IsNext(m) THEN Store(m) /\ next_block_number' = next_block_number + 1
                  ELSE UNCHANGED <<image, next_block_number>>
  /\ IF sent THEN UNCHANGED faults ELSE Fault
  /\ refused' = (refused \/ ~sent)
  /\ IF IsLast(m)  THEN status' = "EOF" /\ expired' = TRUE
     ELSE IF ~sent THEN status' = "SYSERR" /\ expired' = TRUE
                   ELSE expired' = FALSE /\ UNCHANGED status
  /\ UNCHANGED kept

tftp_recv(m) ==
  /\ m \in net /\ ForUs(m)
  /\ \/ FromStranger(m) /\ net' = net \ {m}
     \/ Invalid(m) /\ net' = net \ {m}
     \/ Block(m, TRUE) /\ net' = (net \ {m}) \cup {ACK(remote', m.num)}
     \/ Block(m, FALSE) /\ net' = net \ {m}
  /\ UNCHANGED <<Data, num_rreqs_sent, shown, doubleFree, serverUp, serving>>

-----------------------------------------------------------------------------
(* The server and the network. *)

Unused == {p \in Ports : serving[p] = 0}

ServerRRQ ==
  /\ serverUp /\ RRQ \in net /\ Unused # {}
  /\ LET p == CHOOSE q \in Unused : \A r \in Unused : q <= r
     IN  \/ /\ serving' = [serving EXCEPT ![p] = 1]
            /\ net' = (net \ {RRQ}) \cup {DATA(p, 1)}
         \/ /\ ServerErrors
            /\ serving' = [serving EXCEPT ![p] = -1]
            /\ net' = (net \ {RRQ}) \cup {ERROR(p)}
  /\ UNCHANGED <<client, serverUp, faults>>

Sending(p) == serverUp /\ serving[p] \in 1 .. Blocks

ServerACK(p) ==
  /\ Sending(p) /\ ACK(p, serving[p] % Numbers) \in net
  /\ serving' = [serving EXCEPT ![p] = @ + 1]
  /\ net' = (net \ {ACK(p, serving[p] % Numbers)}) \cup
               (IF serving[p] < Blocks THEN {DATA(p, serving[p] + 1)} ELSE {})
  /\ UNCHANGED <<client, serverUp, faults>>

ServerResends(p) ==
  /\ Sending(p)
  /\ net' = net \cup {DATA(p, serving[p])}
  /\ UNCHANGED <<client, serverUp, serving, faults>>

ServerStop ==
  /\ ServerStops /\ serverUp /\ serverUp' = FALSE
  /\ UNCHANGED <<client, net, serving, faults>>

(* A datagram is lost, or delivered late: a copy of an old block turns up. *)
Lose ==
  /\ Fault
  /\ \E m \in net : net' = net \ {m}
  /\ UNCHANGED <<client, serverUp, serving>>

Duplicate ==
  /\ Fault
  /\ \E p \in Ports : \E k \in 1 .. serving[p] : k <= Blocks /\ net' = net \cup {DATA(p, k)}
  /\ UNCHANGED <<client, serverUp, serving>>

Done == ~Data /\ shown # "nothing" /\ UNCHANGED vars

Messages == {DATA(p, k) : p \in Ports, k \in 1 .. Blocks} \cup {ERROR(p) : p \in Ports} \cup {Stray}

Next ==
  \/ Tftp \/ tftpGet \/ TimerExpires
  \/ \E m \in Messages : tftp_recv(m)
  \/ ServerRRQ \/ ServerStop
  \/ \E p \in Ports : ServerACK(p) \/ ServerResends(p)
  \/ Lose \/ Duplicate \/ Done

Spec == Init /\ [][Next]_vars

(***************************************************************************)
(* The shell polls, the clock runs, the network delivers what is sent, and *)
(* a server that is up answers and resends.                                *)
(***************************************************************************)
FairSpec ==
  /\ Spec
  /\ WF_vars(Tftp) /\ WF_vars(tftpGet) /\ WF_vars(TimerExpires)
  /\ WF_vars(ServerRRQ)
  /\ \A p \in Ports : WF_vars(ServerACK(p)) /\ WF_vars(ServerResends(p))
  /\ \A m \in Messages : WF_vars(tftp_recv(m))

-----------------------------------------------------------------------------
(* Shape of the state: requests within their limit, the block timer only while a download is on. *)
TypeOK ==
  /\ Data \in BOOLEAN /\ expired \in BOOLEAN
  /\ num_rreqs_sent \in 0 .. TFTP_INIT_BLOCK_MAX_RETRIES
  /\ next_block_number \in 0 .. Blocks + 1
  /\ status \in {"OK", "SYSERR", "EOF", "TIMEOUT"}
  /\ remote \in Ports \cup {None}
  /\ image \in [1 .. Blocks -> 0 .. Blocks]
  /\ shown \in {"nothing", "complete", "timeout", "failed"}
  /\ {doubleFree, kept, refused, serverUp} \subseteq BOOLEAN
  /\ serving \in [Ports -> -1 .. Blocks + 1]
  /\ faults \in 0 .. MaxFaults

(***************************************************************************)
(* "transfer complete" is shown only with the whole file in place, however *)
(* datagrams were lost, repeated and reordered and whichever request the   *)
(* server answered first.                                                  *)
(***************************************************************************)
CompleteIsWhole ==
  shown = "complete" \/ status = "EOF" => \A k \in 1 .. Blocks : image[k] = k

(***************************************************************************)
(* tftpSendACK promises storage: a block the server no longer sends,       *)
(* because it was acknowledged, is in the destination.                     *)
(***************************************************************************)
AckedIsStored ==
  \A p \in Ports : \A k \in 1 .. Blocks : k < serving[p] => image[k] = k

(* tftp_recv, tftpSendACK: "transfer complete" is shown only with the      *)
(* whole file in place, and what the server was told is received is there. *)
DownloadSound == CompleteIsWhole /\ AckedIsStored

(***************************************************************************)
(* A download ends: every path of tftpGet and tftp_recv that waits is left *)
(* again, whatever is lost or repeated, and the last request times out     *)
(* when nobody answers.  The one exception is a server that stops after    *)
(* the first block.                                                        *)
(***************************************************************************)
EndsUnlessStranded == Data ~> (shown # "nothing" \/ (~serverUp /\ next_block_number > 1))

(***************************************************************************)
(* Claims of the comments and messages that do not hold.                   *)
(***************************************************************************)

(* "Maximum number of seconds to wait for a block, other than the first,   *)
(* before aborting the TFTP transfer": a download ends.  It does not when  *)
(* the server stops after the first block.                                 *)
DownloadEnds == Data ~> shown # "nothing"

(* "ptr is a pointer previously allocated by malloc" (free): a control    *)
(* block is removed once.  It does not hold.                              *)
FreedOnce == ~doubleFree

(* "The callback is responsible for freeing the pbuf" (udp.h): tftp_recv  *)
(* frees what it is given.  It does not hold.                             *)
CallbackFrees == ~kept

(* "transfer timeout": a download that nobody refused and that was not    *)
(* completed is reported as timed out.  It does not hold.                 *)
TimeoutReported == shown = "failed" => refused

(* "Save the block to the memory location chosen": what is stored is in   *)
(* its place.  It does not hold past the last block number.               *)
StoredInPlace == \A k \in 1 .. Blocks : k < next_block_number => image[k] = k
=============================================================================
