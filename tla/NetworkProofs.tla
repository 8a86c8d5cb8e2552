---------------------------- MODULE NetworkProofs ----------------------------
(***************************************************************************)
(* Proofs about the two ends of the network.                               *)
(*                                                                         *)
(* The TFTP client stores what it acknowledges and reports complete only   *)
(* what is whole, for a file of any number of blocks below 2^16, any       *)
(* number of requests and any faults of the network.                       *)
(*                                                                         *)
(* The Ethernet driver says it is configured only when every register      *)
(* holds its setting, keeps its receiver on the bus, and does not          *)
(* overwrite a frame on its way, for any number of frames, arrivals, bus   *)
(* errors and requests.                                                    *)
(***************************************************************************)
EXTENDS MCNetwork, Sequences, NaturalsInduction, WellFoundedInduction, TLAPS

(* The time each step may take. *)
USE SMTT(30), ZenonT(40)


(* Every acknowledgement on its way names a block already passed; every    *)
(* DATA packet is a block of the file.                                     *)
NetSound ==
  \A m \in net : /\ m.op = "ACK" => m.num \in Nat /\ m.num < next_block_number
                 /\ m.op = "DATA" => \E p : \E k \in 1 .. Blocks : m = DATA(p, k)

(* The blocks before the next one are stored, and the server is not ahead. *)
Stored ==
  /\ next_block_number \in 0 .. Blocks + 1
  /\ \A k \in 1 .. Blocks : k < next_block_number => image[k] = k
  /\ serving \in [Ports -> Int]
  /\ \A p \in Ports : serving[p] <= 1 \/ serving[p] <= next_block_number

(* The end is reached only past the last block, and a download that was    *)
(* not started has neither blocks nor a status.                            *)
EndSound ==
  /\ status = "EOF" \/ shown = "complete" => next_block_number > Blocks
  /\ ~Data /\ shown = "nothing" => next_block_number = 0 /\ status = "OK"

IInv == NetSound /\ Stored /\ EndSound

(* A number below the modulus is its own remainder. *)
LEMMA ModBelow == ASSUME NEW a \in Nat, NEW n \in Nat, a < n PROVE a % n = a
  OBVIOUS

(* The modulus itself has remainder zero. *)
LEMMA ModSelf == ASSUME NEW n \in Nat, n > 0 PROVE n % n = 0
  OBVIOUS

(* The client starts with nothing stored and nothing acknowledged. *)
LEMMA InitInv == Init => IInv
<1> SUFFICES ASSUME Init PROVE IInv
  OBVIOUS
<1> USE TftpAssumption
<1>1. NetSound
  BY DEF Init, NetSound, Stray
<1>2. Stored
  BY DEF Init, Stored, Ports
<1>3. EndSound
  BY DEF Init, EndSound
<1> QED BY <1>1, <1>2, <1>3 DEF IInv

(***************************************************************************)
(* Steps that leave the blocks alone: any step that stores nothing, sends  *)
(* neither DATA nor ACK and moves no server keeps NetSound and Stored.     *)
(***************************************************************************)
LEMMA QuietStep ==
  ASSUME IInv, next_block_number' = next_block_number, image' = image, serving' = serving,
         \A m \in net' : m \in net \/ m.op \notin {"ACK", "DATA"}
  PROVE  NetSound' /\ Stored'
<1>1. NetSound'
  BY DEF IInv, NetSound, DATA
<1>2. Stored'
  BY DEF IInv, Stored
<1> QED BY <1>1, <1>2

(* tftpGet, whichever branch the expired timer takes. *)
LEMMA GetInv == ASSUME IInv, tftpGet PROVE IInv'
<1>1. /\ next_block_number' = next_block_number /\ image' = image /\ serving' = serving
      /\ status' = status
  BY DEF tftpGet
<1>2. \A m \in net' : m \in net \/ m.op \notin {"ACK", "DATA"}
  <2>1. \A m \in net' : m \in net \/ m = RRQ
    BY Zenon DEF tftpGet, StatusSet, RetryRRQ, GiveUp, NoBranch
  <2> QED BY <2>1 DEF RRQ
<1>3. NetSound' /\ Stored'
  BY <1>1, <1>2, QuietStep
<1>4. EndSound'
  BY <1>1, Zenon DEF IInv, EndSound, tftpGet, StatusSet, RetryRRQ, GiveUp, NoBranch, Finish
<1> QED BY <1>3, <1>4 DEF IInv

(* The first call of Tftp. *)
LEMMA StartInv == ASSUME IInv, Tftp PROVE IInv'
<1> USE TftpAssumption
<1>1. next_block_number = 0 /\ status = "OK"
  BY DEF IInv, EndSound, Tftp
<1>2. next_block_number' \in {0, 1} /\ image' = image /\ serving' = serving
  BY <1>1 DEF Tftp
<1>3. \A m \in net' : m \in net \/ m = RRQ
  BY DEF Tftp
<1>4. NetSound'
  <2> SUFFICES ASSUME NEW m \in net' PROVE
        /\ m.op = "ACK" => m.num \in Nat /\ m.num < next_block_number'
        /\ m.op = "DATA" => \E p : \E k \in 1 .. Blocks : m = DATA(p, k)
    BY DEF NetSound, DATA
  <2>1. CASE m = RRQ
    BY <2>1 DEF RRQ
  <2>2. CASE m \in net
    <3>1. m.op # "ACK"
      BY <1>1, <2>2 DEF IInv, NetSound
    <3> QED BY <2>2, <3>1 DEF IInv, NetSound
  <2> QED BY <1>3, <2>1, <2>2
<1>5. Stored'
  BY <1>1, <1>2 DEF IInv, Stored
<1>6. EndSound'
  BY <1>1, <1>2 DEF Tftp, EndSound, Finish
<1> QED BY <1>4, <1>5, <1>6 DEF IInv

(***************************************************************************)
(* A DATA packet that is acknowledged, with the file's blocks fewer than   *)
(* the block numbers: the next block has its own number, so it is stored   *)
(* in its place; the previous one is already there.                        *)
(***************************************************************************)
LEMMA BlockInv ==
  ASSUME Blocks < Numbers, IInv, NEW m \in net, NEW sent \in BOOLEAN, Data,
         Block(m, sent), Data' = Data, shown' = shown, serving' = serving,
         net' = net \ {m} \/ net' = (net \ {m}) \cup {ACK(remote', m.num)}
  PROVE  IInv'
<1> USE TftpAssumption
<1>1. PICK k \in 1 .. Blocks : \E p : m = DATA(p, k)
  BY DEF IInv, NetSound, Block
<1>2. m.num = k /\ m.block = k
  <2>1. k \in Nat /\ k < Numbers
    OBVIOUS
  <2>2. k % Numbers = k
    BY <2>1, ModBelow
  <2> QED BY <1>1, <2>2 DEF DATA
<1>3. next_block_number \in 0 .. Blocks + 1
  BY DEF IInv, Stored
<1>4. /\ next_block_number = Numbers => NextNumber = 0
      /\ next_block_number < Numbers => NextNumber = next_block_number
      /\ next_block_number = Numbers \/ next_block_number < Numbers
  <2>1. next_block_number = Numbers \/ next_block_number < Numbers
    BY <1>3
  <2>2. next_block_number = Numbers => NextNumber = 0
    BY ModSelf DEF NextNumber
  <2>3. next_block_number < Numbers => NextNumber = next_block_number
    BY <1>3, ModBelow DEF NextNumber
  <2> QED BY <2>1, <2>2, <2>3
<1>5. CASE IsNext(m)
  <2>1. k = next_block_number
    BY <1>2, <1>3, <1>4, <1>5 DEF IsNext
  <2>2. next_block_number' = k + 1
    BY <1>5, <2>1 DEF Block
  <2>3. \A j \in 1 .. Blocks : image'[j] = IF j = k THEN k ELSE image[j]
    BY <1>2, <1>5 DEF Block, Store
  <2>4. NetSound'
    <3>1. \A x \in net' : x \in net \/ x = ACK(remote', k)
      BY <1>2
    <3>2. \A x \in net : x.op = "ACK" => x.num \in Nat /\ x.num < next_block_number'
      BY <2>1, <2>2 DEF IInv, NetSound
    <3>3. ACK(remote', k).op = "ACK" /\ ACK(remote', k).num = k
      BY DEF ACK
    <3> QED BY <2>2, <3>1, <3>2, <3>3 DEF IInv, NetSound, DATA
  <2>5. Stored'
    BY <2>1, <2>2, <2>3 DEF IInv, Stored
  <2>6. EndSound'
    <3>1. status' = "EOF" => k = Blocks \/ status = "EOF"
      BY <1>2 DEF Block, IsLast
    <3> QED BY <2>1, <2>2, <3>1 DEF IInv, EndSound
  <2> QED BY <2>4, <2>5, <2>6 DEF IInv
<1>6. CASE ~IsNext(m)
  <2>1. next_block_number' = next_block_number /\ image' = image
    BY <1>6 DEF Block
  <2>2. m.num < next_block_number
    BY <1>2, <1>3, <1>4, <1>6 DEF Block, IsPrevious
  <2>3. NetSound'
    <3>1. \A x \in net' : x \in net \/ x = ACK(remote', k)
      BY <1>2
    <3>2. ACK(remote', k).op = "ACK" /\ ACK(remote', k).num = k
      BY DEF ACK
    <3> QED BY <1>2, <2>1, <2>2, <3>1, <3>2 DEF IInv, NetSound, DATA
  <2>4. Stored'
    BY <2>1 DEF IInv, Stored
  <2>5. EndSound'
    BY <1>6, <2>1 DEF IInv, EndSound, Block, IsLast
  <2> QED BY <2>3, <2>4, <2>5 DEF IInv
<1> QED BY <1>5, <1>6

(* tftp_recv, whatever the datagram. *)
LEMMA RecvInv == ASSUME Blocks < Numbers, IInv, NEW m, tftp_recv(m) PROVE IInv'
<1>1. m \in net /\ Data /\ Data' = Data /\ shown' = shown /\ serving' = serving
  BY DEF tftp_recv, ForUs
<1>2. ASSUME net' = net \ {m}, FromStranger(m) \/ Invalid(m) PROVE IInv'
  <2>1. next_block_number' = next_block_number /\ image' = image
    BY <1>2 DEF FromStranger, Invalid
  <2>2. NetSound' /\ Stored'
    BY <1>1, <1>2, <2>1, QuietStep
  <2>3. status' = status \/ status' = "SYSERR"
    BY <1>2 DEF FromStranger, Invalid
  <2>4. EndSound'
    BY <1>1, <2>1, <2>3 DEF IInv, EndSound
  <2> QED BY <2>2, <2>4 DEF IInv
<1>3. ASSUME Block(m, TRUE), net' = (net \ {m}) \cup {ACK(remote', m.num)} PROVE IInv'
  BY <1>1, <1>3, BlockInv, Zenon
<1>4. ASSUME Block(m, FALSE), net' = net \ {m} PROVE IInv'
  BY <1>1, <1>4, BlockInv, Zenon
<1> QED BY <1>2, <1>3, <1>4, Zenon DEF tftp_recv

(* The server advances only over a block it was told is received. *)
LEMMA ServerInv ==
  ASSUME Blocks < Numbers, IInv,
         ServerRRQ \/ (\E p \in Ports : ServerACK(p) \/ ServerResends(p))
  PROVE  IInv'
<1> USE TftpAssumption
<1>1. UNCHANGED client
  BY DEF ServerRRQ, ServerACK, ServerResends
<1>2. UNCHANGED <<Data, next_block_number, status, image, shown>>
  BY <1>1 DEF client
<1>3. EndSound'
  BY <1>2 DEF IInv, EndSound
<1>4. ASSUME ServerRRQ PROVE NetSound' /\ Stored'
  <2>1. PICK p : /\ serving' = [serving EXCEPT ![p] = 1] \/ serving' = [serving EXCEPT ![p] = -1]
                 /\ \A m \in net' : m \in net \/ m = DATA(p, 1) \/ m = ERROR(p)
    BY <1>4, Zenon DEF ServerRRQ
  <2>2. Stored'
    BY <1>2, <2>1 DEF IInv, Stored
  <2>3. \A m \in net' : m \in net \/ m = DATA(p, 1) \/ m.op = "ERROR"
    BY <2>1 DEF ERROR
  <2>4. NetSound'
    BY <1>2, <2>3 DEF IInv, NetSound, DATA
  <2> QED BY <2>2, <2>4
<1>5. ASSUME NEW p \in Ports, ServerACK(p) PROVE NetSound' /\ Stored'
  <2>1. serving[p] \in 1 .. Blocks /\ serving[p] % Numbers = serving[p]
    BY <1>5, ModBelow DEF ServerACK, Sending
  <2>2. ACK(p, serving[p]) \in net
    BY <1>5, <2>1 DEF ServerACK
  <2>3. serving[p] < next_block_number
    BY <2>2 DEF IInv, NetSound, ACK
  <2>4. serving' = [serving EXCEPT ![p] = serving[p] + 1]
    BY <1>5 DEF ServerACK
  <2>5. Stored'
    BY <1>2, <2>1, <2>3, <2>4 DEF IInv, Stored
  <2>6. \A m \in net' : m \in net \/ (serving[p] + 1 <= Blocks /\ m = DATA(p, serving[p] + 1))
    BY <1>5, <2>1 DEF ServerACK
  <2>7. NetSound'
    BY <1>2, <2>1, <2>6 DEF IInv, NetSound, DATA
  <2> QED BY <2>5, <2>7
<1>6. ASSUME NEW p \in Ports, ServerResends(p) PROVE NetSound' /\ Stored'
  <2>1. serving[p] \in 1 .. Blocks /\ serving' = serving
    BY <1>6 DEF ServerResends, Sending
  <2>2. Stored'
    BY <1>2, <2>1 DEF IInv, Stored
  <2>3. NetSound'
    BY <1>2, <1>6, <2>1 DEF IInv, NetSound, DATA, ServerResends
  <2> QED BY <2>2, <2>3
<1> QED BY <1>3, <1>4, <1>5, <1>6 DEF IInv

(* A datagram is lost, or an old block turns up again. *)
LEMMA FaultInv == ASSUME IInv, Lose \/ Duplicate PROVE IInv'
<1> USE TftpAssumption
<1>1. UNCHANGED <<Data, next_block_number, status, image, shown, serving>>
  BY DEF Lose, Duplicate, client
<1>2. \A m \in net' : m \in net \/ \E p : \E k \in 1 .. Blocks : m = DATA(p, k)
  <2>1. CASE Lose
    BY <2>1 DEF Lose
  <2>2. CASE Duplicate
    BY <2>2 DEF Duplicate, IInv, Stored
  <2> QED BY <2>1, <2>2
<1>3. NetSound'
  BY <1>1, <1>2 DEF IInv, NetSound, DATA
<1> QED BY <1>1, <1>3 DEF IInv, Stored, EndSound

(* Every step keeps the inductive invariant. *)
LEMMA NextInv == ASSUME Blocks < Numbers PROVE IInv /\ [Next]_vars => IInv'
<1> SUFFICES ASSUME IInv, [Next]_vars PROVE IInv'
  OBVIOUS
<1>1. CASE Tftp
  BY <1>1, StartInv
<1>2. CASE tftpGet
  BY <1>2, GetInv
<1>3. CASE \E m \in Messages : tftp_recv(m)
  BY <1>3, RecvInv
<1>4. CASE ServerRRQ \/ \E p \in Ports : ServerACK(p) \/ ServerResends(p)
  BY <1>4, ServerInv
<1>5. CASE Lose \/ Duplicate
  BY <1>5, FaultInv
<1>6. CASE TimerExpires \/ ServerStop \/ Done \/ UNCHANGED vars
  <2>1. UNCHANGED <<Data, next_block_number, status, image, shown, serving, net>>
    BY <1>6 DEF TimerExpires, ServerStop, Done, vars, client
  <2> QED BY <2>1 DEF IInv, NetSound, Stored, EndSound
<1> QED BY <1>1, <1>2, <1>3, <1>4, <1>5, <1>6 DEF Next

(***************************************************************************)
(* tftp_recv and tftpSendACK are right for every file of fewer blocks than *)
(* there are block numbers: what is acknowledged is stored, and "transfer  *)
(* complete" means the whole file.                                         *)
(***************************************************************************)
THEOREM DownloadIsSound == ASSUME Blocks < Numbers PROVE Spec => []DownloadSound
<1>1. Init => IInv
  BY InitInv
<1>2. IInv /\ [Next]_vars => IInv'
  BY NextInv
<1>3. IInv => DownloadSound
  <2> SUFFICES ASSUME IInv PROVE CompleteIsWhole /\ AckedIsStored
    BY DEF DownloadSound
  <2>1. CompleteIsWhole
    BY TftpAssumption DEF IInv, Stored, EndSound, CompleteIsWhole
  <2>2. AckedIsStored
    BY TftpAssumption DEF IInv, Stored, AckedIsStored
  <2> QED BY <2>1, <2>2
<1> QED BY <1>1, <1>2, <1>3, PTL DEF Spec

-----------------------------------------------------------------------------
(***************************************************************************)
(* The configuration of the chip.                                          *)
(***************************************************************************)

(* The registers that have to be right in the end, the step that gives     *)
(* each its last value, and that value.                                    *)
Checked == {"HW_CFG", "RX_ADDRL", "RX_ADDRH", "USB_CFG0", "RFE_CTL", "MAC_CR", "PFILTER_LO",
            "PFILTER_HI", "MAC_TX", "FCT_TX_CTL", "MAC_RX", "FCT_RX_CTL"}

Setting(r) ==
  CASE r = "RX_ADDRL"   -> 4  [] r = "RX_ADDRH"   -> 5  [] r = "HW_CFG"     -> 9
    [] r = "USB_CFG0"   -> 11 [] r = "RFE_CTL"    -> 18 [] r = "MAC_CR"     -> 22
    [] r = "PFILTER_LO" -> 23 [] r = "PFILTER_HI" -> 24 [] r = "MAC_TX"     -> 27
    [] r = "FCT_TX_CTL" -> 29 [] r = "MAC_RX"     -> 31 [] r = "FCT_RX_CTL" -> 33

Wanted(r) == (Eth!Default[r] \ Eth!Steps[Setting(r)].off) \cup Eth!Steps[Setting(r)].on

(* The value of a register after d steps, and during the reset. *)
ValueAfter(r, d) == IF d >= Setting(r) THEN Wanted(r) ELSE Eth!Default[r]
InReset          == {"MEF", "LRST"}

(* The message of step s. *)
Sent(s) == IF s = 2 THEN Eth!Write("HW_CFG", InReset)
           ELSE IF Eth!Steps[s].op = "modify"
                  THEN Eth!Write(Eth!Steps[s].at, Wanted(Eth!Steps[s].at))
           ELSE Eth!Steps[s]

(* The steps whose message has been carried out. *)
Carried == IF lan.configured = "yes" THEN Eth!STATE_FINISHED
           ELSE IF lan.configured = "asked" THEN lan.configurationState - 1
           ELSE lan.configurationState

(* The fields of the driver, and of the chip. *)
Bits == {"MEF", "BIR", "LRST", "address", "size", "delay", "LED0", "LED1", "BCE", "clear",
         "BCAST", "PERFECT", "PHY_RST", "AUTO_DUPLEX", "AUTO_SPEED", "VALID", "TXEN", "EN",
         "MAX_SIZE", "RX_EN"}
Driver == [configurationState : Nat, reg : SUBSET Bits,
           configured : {"no", "called", "asked", "yes"}, Eth0 : BOOLEAN, NetUp : BOOLEAN,
           rx : {"none", "wait", "lost", "done", "failed"}, tx : Seq(Seq(Nat)),
           TxBuffer : Seq(Nat), leaked : Nat]
Chip == [regs : [Eth!Registers -> SUBSET Bits], lrst : BOOLEAN, phy : BOOLEAN, asked : BOOLEAN]

(* Where the driver is in the chain of messages. *)
ChainInv ==
  /\ lan.configurationState \in 0 .. Eth!STATE_FINISHED
  /\ lan.Eth0 <=> lan.configured = "yes"
  /\ lan.configured \in {"no", "yes"} => lan.configurationState = 0
  /\ lan.configured # "asked" => message = Eth!None
  /\ lan.configured = "asked" =>
       lan.configurationState > 0 /\ message = Sent(lan.configurationState)

(* The software reset is asked for in step 2 and over before step 4. *)
ResetInv ==
  /\ chip.lrst => lan.configured \in {"called", "asked"} /\ lan.configurationState \in {2, 3}
  /\ lan.configured = "called" /\ lan.configurationState = 3 /\ "LRST" \notin lan.reg =>
       ~chip.lrst

(* What the registers hold, and what was read last. *)
RegsInv ==
  /\ \A r \in Checked : \/ chip.regs[r] = ValueAfter(r, Carried)
                        \/ chip.lrst /\ r = "HW_CFG" /\ chip.regs[r] = InReset
  /\ chip.lrst => chip.regs["HW_CFG"] = InReset
  /\ lan.configured = "called" /\ lan.configurationState > 0 =>
       LET s == Eth!Steps[lan.configurationState]
       IN  s.op = "read" /\ s.at \in Checked =>
             \/ lan.reg = ValueAfter(s.at, lan.configurationState)
             \/ lan.configurationState = 3 /\ lan.reg = InReset

ConfigInv == lan \in Driver /\ chip \in Chip /\ ChainInv /\ ResetInv /\ RegsInv

(* The network is up only on a configured chip, and the stack has no more  *)
(* frames on the way than its window.                                      *)
TrafficInv ==
  /\ others \in 0 .. MaxOthers /\ used \in [frames : Nat, arrivals : Nat, errors : Nat]
  /\ Len(lan.tx) <= SendWindow
  /\ lan.NetUp => lan.Eth0
  /\ ~lan.NetUp => lan.rx = "none" /\ lan.tx = << >>

(* The frame on its way is the one in the buffer. *)
Buffered(l) == l.tx # << >> => l.TxBuffer = Head(l.tx)

EthInv ==
  /\ ConfigInv /\ TrafficInv
  /\ MaxOthers + SendWindow < MaxChannels => Eth!ReceiverArmed
  /\ SendWindow <= 1 => Buffered(lan) /\ Eth!SentAsGiven

-----------------------------------------------------------------------------
(* The steps, one by one. *)
LEMMA StepAt ==
  /\ Eth!STATE_FINISHED = 33
  /\ Eth!Steps[1] = Eth!Read("HW_CFG")
  /\ Eth!Steps[2] = Eth!Modify("HW_CFG", {"LRST"}, {})
  /\ Eth!Steps[3] = Eth!Read("HW_CFG")
  /\ Eth!Steps[4] = Eth!Write("RX_ADDRL", {"address"})
  /\ Eth!Steps[5] = Eth!Write("RX_ADDRH", {"address"})
  /\ Eth!Steps[6] = Eth!Write("BURST_CAP", {"size"})
  /\ Eth!Steps[7] = Eth!Write("BULK_IN_DLY", {"delay"})
  /\ Eth!Steps[8] = Eth!Read("HW_CFG")
  /\ Eth!Steps[9] = Eth!Modify("HW_CFG", {"LED0", "LED1"}, {"MEF"})
  /\ Eth!Steps[10] = Eth!Read("USB_CFG0")
  /\ Eth!Steps[11] = Eth!Modify("USB_CFG0", {"BCE"}, {"BIR"})
  /\ Eth!Steps[12] = Eth!Write("FCT_RX_FIFO_END", {"size"})
  /\ Eth!Steps[13] = Eth!Write("FCT_TX_FIFO_END", {"size"})
  /\ Eth!Steps[14] = Eth!Write("INT_STS", {"clear"})
  /\ Eth!Steps[15] = Eth!Write("FLOW", {})
  /\ Eth!Steps[16] = Eth!Write("FCT_FLOW", {})
  /\ Eth!Steps[17] = Eth!Read("RFE_CTL")
  /\ Eth!Steps[18] = Eth!Modify("RFE_CTL", {"BCAST", "PERFECT"}, {})
  /\ Eth!Steps[19] = Eth!Write("PMT_CTL", {"PHY_RST"})
  /\ Eth!Steps[20] = Eth!Read("PMT_CTL")
  /\ Eth!Steps[21] = Eth!Read("MAC_CR")
  /\ Eth!Steps[22] = Eth!Modify("MAC_CR", {"AUTO_DUPLEX", "AUTO_SPEED"}, {})
  /\ Eth!Steps[23] = Eth!Write("PFILTER_LO", {"address"})
  /\ Eth!Steps[24] = Eth!Write("PFILTER_HI", {"address", "VALID"})
  /\ Eth!Steps[25] = Eth!Write("INT_EP_CTL", {})
  /\ Eth!Steps[26] = Eth!Read("MAC_TX")
  /\ Eth!Steps[27] = Eth!Modify("MAC_TX", {"TXEN"}, {})
  /\ Eth!Steps[28] = Eth!Read("FCT_TX_CTL")
  /\ Eth!Steps[29] = Eth!Modify("FCT_TX_CTL", {"EN"}, {})
  /\ Eth!Steps[30] = Eth!Read("MAC_RX")
  /\ Eth!Steps[31] = Eth!Modify("MAC_RX", {"MAX_SIZE", "RX_EN"}, {})
  /\ Eth!Steps[32] = Eth!Read("FCT_RX_CTL")
  /\ Eth!Steps[33] = Eth!Modify("FCT_RX_CTL", {"EN"}, {})
  BY Zenon DEF Eth!Steps, Eth!STATE_FINISHED

(* The steps around the two waits. *)
LEMMA StepsAtWaits ==
  /\ Eth!STATE_FINISHED = 33 /\ Eth!Steps[2] = Eth!Modify("HW_CFG", {"LRST"}, {})
  /\ Eth!Steps[2].op = "modify" /\ Eth!Steps[2].at = "HW_CFG"
  /\ Eth!Steps[3].op = "read" /\ Eth!Steps[3].at = "HW_CFG" /\ Eth!Steps[4].op = "write"
  /\ Eth!Steps[20].op = "read"
  BY StepAt DEF Eth!Read, Eth!Write, Eth!Modify

(* A step reads or writes a register; what is written from reg was read in *)
(* the step before.                                                        *)
LEMMA StepKinds ==
  ASSUME NEW s \in 1 .. 33
  PROVE  /\ Eth!Steps[s].op \in {"read", "write", "modify"} /\ Eth!Steps[s].at \in Eth!Registers
         /\ Eth!Steps[s].op # "modify" => Eth!Steps[s].off = {}
         /\ Eth!Steps[s].op = "modify" =>
              s > 1 /\ Eth!Steps[s - 1].op = "read" /\ Eth!Steps[s - 1].at = Eth!Steps[s].at
<1>1. Eth!Steps[s].op \in {"read", "write", "modify"} /\ Eth!Steps[s].at \in Eth!Registers
  BY StepAt DEF Eth!Read, Eth!Write, Eth!Modify, Eth!Registers
<1>2. Eth!Steps[s].op # "modify" => Eth!Steps[s].off = {}
  BY StepAt DEF Eth!Read, Eth!Write, Eth!Modify
<1>3. Eth!Steps[s].op = "modify" => s \in {2, 9, 11, 18, 22, 27, 29, 31, 33}
  BY StepAt DEF Eth!Read, Eth!Write
<1>4. Eth!Steps[s].op = "modify" =>
        s > 1 /\ Eth!Steps[s - 1].op = "read" /\ Eth!Steps[s - 1].at = Eth!Steps[s].at
  BY <1>3, StepAt DEF Eth!Modify, Eth!Read
<1> QED BY <1>1, <1>2, <1>4

(* What a step sets are bits of the chip's registers. *)
LEMMA StepBits == ASSUME NEW s \in 1 .. 33 PROVE Eth!Steps[s].on \in SUBSET Bits
  BY StepAt DEF Eth!Read, Eth!Write, Eth!Modify, Bits

(* Each register that has to be right is written once after the reset. *)
LEMMA SettingStep ==
  ASSUME NEW r \in Checked
  PROVE  /\ Setting(r) \in 4 .. 33 /\ Eth!Steps[Setting(r)].at = r
         /\ Eth!Steps[Setting(r)].op \in {"write", "modify"} /\ r \in Eth!Registers
         /\ Eth!Steps[Setting(r)].op = "write" => Eth!Default[r] = {}
  BY StepAt DEF Eth!Read, Eth!Write, Eth!Modify, Eth!Registers, Checked, Setting, Eth!Default

(* No other step writes it, step 2 excepted. *)
LEMMA OnlySetting ==
  ASSUME NEW s \in 1 .. 33, Eth!Steps[s].op # "read", s # 2
  PROVE  /\ Eth!Steps[s].op = "modify" => Eth!Steps[s].at \in Checked
         /\ Eth!Steps[s].at \in Checked => s = Setting(Eth!Steps[s].at)
         /\ "LRST" \notin Eth!Steps[s].on
  BY StepAt DEF Eth!Read, Eth!Write, Eth!Modify, Checked, Setting

(* What is sent in a step. *)
LEMMA SentAt ==
  ASSUME NEW s \in 1 .. 33
  PROVE  /\ Sent(s).op \in {"read", "write"} /\ Sent(s).at = Eth!Steps[s].at /\ Sent(s) # Eth!None
         /\ Sent(s).op = "read" <=> Eth!Steps[s].op = "read"
         /\ Sent(s).op = "write" /\ Sent(s).at \in Checked =>
              \/ s = 2 /\ Sent(s).at = "HW_CFG" /\ Sent(s).on = InReset
              \/ s = Setting(Sent(s).at) /\ Sent(s).on = Wanted(Sent(s).at)
         /\ Sent(s).op = "write" /\ s # 2 => "LRST" \notin Sent(s).on
<1>1. Eth!Steps[s].op \in {"read", "write", "modify"} /\ Eth!Steps[s].at \in Eth!Registers
  BY StepKinds
<1>2. Eth!Steps[s].at # "none" /\ Eth!None.at = "none"
  BY <1>1 DEF Eth!Registers, Eth!None, Eth!Read
<1>3. CASE s = 2
  <2>1. Eth!Steps[s] = Eth!Modify("HW_CFG", {"LRST"}, {})
    BY <1>3, StepsAtWaits
  <2>2. Eth!Steps[s].op = "modify" /\ Eth!Steps[s].at = "HW_CFG"
    BY <2>1 DEF Eth!Modify
  <2>3. Sent(s) = Eth!Write("HW_CFG", InReset)
    BY <1>3 DEF Sent
  <2>4. Sent(s).op = "write" /\ Sent(s).at = "HW_CFG" /\ Sent(s).on = InReset
    BY <2>3 DEF Eth!Write
  <2> QED BY <1>2, <1>3, <2>2, <2>4
<1>4. CASE s # 2 /\ Eth!Steps[s].op = "modify"
  <2>1. Eth!Steps[s].at \in Checked /\ s = Setting(Eth!Steps[s].at) /\ "LRST" \notin Eth!Steps[s].on
    BY <1>4, OnlySetting
  <2>2. "LRST" \notin Eth!Default[Eth!Steps[s].at]
    BY <1>1 DEF Eth!Default
  <2>3. "LRST" \notin Wanted(Eth!Steps[s].at)
    BY <2>1, <2>2 DEF Wanted
  <2>4. Sent(s) = Eth!Write(Eth!Steps[s].at, Wanted(Eth!Steps[s].at))
    BY <1>4 DEF Sent
  <2>5. /\ Sent(s).op = "write" /\ Sent(s).at = Eth!Steps[s].at
        /\ Sent(s).on = Wanted(Eth!Steps[s].at)
    BY <2>4 DEF Eth!Write
  <2> QED BY <1>2, <1>4, <2>1, <2>3, <2>5
<1>5. CASE s # 2 /\ Eth!Steps[s].op = "write"
  <2>1. "LRST" \notin Eth!Steps[s].on
    BY <1>5, OnlySetting
  <2>2. ASSUME Eth!Steps[s].at \in Checked
        PROVE  s = Setting(Eth!Steps[s].at) /\ Eth!Steps[s].on = Wanted(Eth!Steps[s].at)
    <3>1. s = Setting(Eth!Steps[s].at)
      BY <1>5, <2>2, OnlySetting
    <3>2. Eth!Default[Eth!Steps[s].at] = {}
      BY <1>5, <2>2, <3>1, SettingStep
    <3> QED BY <3>1, <3>2 DEF Wanted
  <2> QED BY <1>2, <1>5, <2>1, <2>2 DEF Sent
<1>6. CASE s # 2 /\ Eth!Steps[s].op = "read"
  BY <1>2, <1>6 DEF Sent
<1> QED BY <1>1, <1>3, <1>4, <1>5, <1>6

(* A step that writes from reg writes what the step before has read, with  *)
(* its own bits.                                                           *)
LEMMA WrittenBack ==
  ASSUME NEW s \in 1 .. 33, Eth!Steps[s].op = "modify", NEW reg,
         reg = ValueAfter(Eth!Steps[s].at, s - 1)
  PROVE  Eth!Write(Eth!Steps[s].at, (reg \ Eth!Steps[s].off) \cup Eth!Steps[s].on) = Sent(s)
<1>1. CASE s = 2
  <2>1. Eth!Steps[s] = Eth!Modify("HW_CFG", {"LRST"}, {})
    BY <1>1, StepsAtWaits
  <2>2. Setting("HW_CFG") = 9 /\ Eth!Default["HW_CFG"] = {"MEF"}
    BY DEF Setting, Eth!Default, Eth!Registers
  <2>3. reg = {"MEF"}
    BY <1>1, <2>1, <2>2 DEF ValueAfter, Eth!Modify
  <2>4. (reg \ {}) \cup {"LRST"} = InReset
    BY <2>3 DEF InReset
  <2> QED BY <1>1, <2>1, <2>4 DEF Sent, Eth!Modify
<1>2. CASE s # 2
  <2>1. s = Setting(Eth!Steps[s].at) /\ Setting(Eth!Steps[s].at) \in Nat
    BY <1>2, OnlySetting, SettingStep
  <2>2. reg = Eth!Default[Eth!Steps[s].at]
    BY <2>1 DEF ValueAfter
  <2> QED BY <1>2, <2>1, <2>2, Zenon DEF Sent, Wanted
<1> QED BY <1>1, <1>2

(* A register keeps its value over a step that does not set it. *)
LEMMA SameValue ==
  ASSUME NEW r \in Checked, NEW s \in 1 .. 33, s # Setting(r)
  PROVE  ValueAfter(r, s) = ValueAfter(r, s - 1)
<1>1. Setting(r) \in 4 .. 33
  BY SettingStep
<1> QED BY <1>1 DEF ValueAfter

(* Before step 4 every register has its default value. *)
LEMMA EarlyValue ==
  ASSUME NEW r \in Checked, NEW d \in 0 .. 3
  PROVE  ValueAfter(r, d) = Eth!Default[r]
<1>1. Setting(r) \in 4 .. 33
  BY SettingStep
<1> QED BY <1>1 DEF ValueAfter

(* A register is a set of bits after a reset. *)
LEMMA DefaultType == Eth!Default \in [Eth!Registers -> SUBSET Bits]
<1>1. {"MEF"} \in SUBSET Bits /\ {"BIR"} \in SUBSET Bits /\ {} \in SUBSET Bits
  BY DEF Bits
<1>2. ASSUME NEW r \in Eth!Registers PROVE Eth!Default[r] \in SUBSET Bits
  <2>1. Eth!Default[r] = IF r = "HW_CFG" THEN {"MEF"} ELSE IF r = "USB_CFG0" THEN {"BIR"} ELSE {}
    BY DEF Eth!Default
  <2> QED BY <1>1, <2>1
<1> QED BY <1>2 DEF Eth!Default

(* At power on. *)
LEMMA ConfigInit == Eth!Init => ConfigInv
<1> SUFFICES ASSUME Eth!Init PROVE ConfigInv
  OBVIOUS
<1>1. lan \in Driver
  BY DEF Eth!Init, Driver
<1>2. Eth!Default \in [Eth!Registers -> SUBSET Bits]
  BY DefaultType
<1>3. chip \in Chip /\ chip.regs = Eth!Default /\ ~chip.lrst
  BY <1>2 DEF Eth!Init, Chip
<1>4. ChainInv /\ ResetInv
  BY <1>3, StepsAtWaits DEF Eth!Init, ChainInv, ResetInv
<1>5. Carried = 0
  BY DEF Eth!Init, Carried
<1>6. RegsInv
  BY <1>3, <1>5, EarlyValue DEF Eth!Init, RegsInv
<1> QED BY <1>1, <1>3, <1>4, <1>6 DEF ConfigInv

(* The steps of the network leave the configuration alone. *)
LEMMA ConfigKept ==
  ASSUME ConfigInv, lan' \in Driver, message' = message, chip' = chip,
         lan'.configurationState = lan.configurationState, lan'.reg = lan.reg,
         lan'.configured = lan.configured, lan'.Eth0 = lan.Eth0
  PROVE  ConfigInv'
<1>1. Carried' = Carried
  BY DEF Carried
<1>2. ChainInv' /\ ResetInv' /\ chip' \in Chip
  BY DEF ConfigInv, ChainInv, ResetInv
<1>3. RegsInv'
  BY <1>1 DEF ConfigInv, RegsInv
<1> QED BY <1>2, <1>3 DEF ConfigInv

(* The enumeration has the device configured. *)
LEMMA ConfigStarts == ASSUME ConfigInv, Eth!configure PROVE ConfigInv'
<1>1. lan \in Driver /\ ChainInv /\ ResetInv /\ RegsInv
  BY DEF ConfigInv
<1>2. /\ lan' = [lan EXCEPT !.configured = "called"] /\ message' = message /\ chip' = chip
      /\ lan.configured = "no"
  BY DEF Eth!configure
<1>3. /\ lan' \in Driver /\ lan'.configured = "called" /\ lan'.Eth0 = lan.Eth0
      /\ lan'.configurationState = lan.configurationState /\ lan'.reg = lan.reg
  BY <1>1, <1>2, Zenon DEF Driver
<1>4. lan.configurationState = 0 /\ Carried = 0 /\ Carried' = 0 /\ ~chip.lrst
  BY <1>1, <1>2, <1>3 DEF ChainInv, ResetInv, Carried
<1>5. ChainInv' /\ ResetInv'
  BY <1>1, <1>2, <1>3, <1>4 DEF ChainInv, ResetInv
<1>6. RegsInv'
  BY <1>1, <1>2, <1>3, <1>4 DEF RegsInv
<1>7. chip' \in Chip
  BY <1>2 DEF ConfigInv
<1> QED BY <1>3, <1>5, <1>6, <1>7 DEF ConfigInv

(* The chip comes out of its resets. *)
LEMMA ConfigReset == ASSUME ConfigInv, Eth!ResetEnds PROVE ConfigInv'
<1>1. lan \in Driver /\ chip \in Chip /\ ChainInv /\ ResetInv /\ RegsInv
  BY DEF ConfigInv
<1>2. lan' = lan /\ message' = message
  BY DEF Eth!ResetEnds
<1>3. Carried' = Carried /\ ChainInv'
  BY <1>1, <1>2 DEF Carried, ChainInv
<1>4. CASE chip.lrst /\ chip' = [chip EXCEPT !.lrst = FALSE, !.regs = Eth!Default]
  <2>1. Eth!Default \in [Eth!Registers -> SUBSET Bits]
    BY DefaultType
  <2>2. chip' \in Chip /\ chip'.lrst = FALSE /\ chip'.regs = Eth!Default
    BY <1>1, <1>4, <2>1, Zenon DEF Chip
  <2>3. Carried \in 0 .. 3
    BY <1>1, <1>4 DEF ResetInv, Carried, ChainInv
  <2>4. ResetInv'
    BY <1>2, <2>2 DEF ResetInv
  <2>5. RegsInv'
    BY <1>1, <1>2, <1>3, <2>2, <2>3, EarlyValue DEF RegsInv
  <2> QED BY <1>1, <1>2, <1>3, <2>2, <2>4, <2>5 DEF ConfigInv
<1>5. CASE chip' = [chip EXCEPT !.phy = FALSE, !.regs["PMT_CTL"] = {}]
  <2>1. chip' \in Chip /\ chip'.lrst = chip.lrst
    BY <1>1, <1>5, Zenon DEF Chip
  <2>2. \A r \in Checked : chip'.regs[r] = chip.regs[r]
    BY <1>1, <1>5 DEF Chip, Checked, Eth!Registers
  <2>3. ResetInv'
    BY <1>1, <1>2, <2>1 DEF ResetInv
  <2>4. "HW_CFG" \in Checked
    BY DEF Checked
  <2>5. RegsInv'
    BY <1>1, <1>2, <1>3, <2>1, <2>2, <2>4 DEF RegsInv
  <2> QED BY <1>1, <1>2, <1>3, <2>1, <2>3, <2>5 DEF ConfigInv
<1> QED BY <1>4, <1>5 DEF Eth!ResetEnds

(* configure_complete sends the next message, or the same one again. *)
LEMMA ConfigSends ==
  ASSUME ConfigInv, lan.configured = "called", NEW again, again = Eth!Again(lan),
         NEW n, n = lan.configurationState + (IF again THEN 0 ELSE 1), n <= 33
  PROVE  /\ n \in 1 .. 33
         /\ (IF Eth!Steps[n].op = "modify"
               THEN Eth!Write(Eth!Steps[n].at, (lan.reg \ Eth!Steps[n].off) \cup Eth!Steps[n].on)
               ELSE Eth!Steps[n]) = Sent(n)
         /\ chip.lrst => n \in {2, 3}
         /\ again => Eth!Steps[n].op = "read"
<1>1. lan.configurationState \in 0 .. 33
  BY StepsAtWaits DEF ConfigInv, ChainInv
<1>2. again => lan.configurationState \in {3, 20}
  BY Zenon DEF Eth!Again, Eth!STATE_LOW_ADDRESS, Eth!STATE_READ_MAC_CR
<1>3. n \in 1 .. 33
  BY <1>1, <1>2
<1>4. again => Eth!Steps[n].op = "read"
  BY <1>2, StepsAtWaits
<1>5. chip.lrst => n \in {2, 3}
  <2>1. lan.configurationState = 3 /\ "LRST" \notin lan.reg => ~chip.lrst
    BY DEF ConfigInv, ResetInv
  <2>2. chip.lrst => lan.configurationState \in {2, 3}
    BY DEF ConfigInv, ResetInv
  <2>3. lan.configurationState = 3 /\ "LRST" \in lan.reg => again
    BY DEF Eth!Again, Eth!STATE_LOW_ADDRESS
  <2> QED BY <1>2, <2>1, <2>2, <2>3
<1>6. CASE Eth!Steps[n].op = "modify"
  <2>1. n = lan.configurationState + 1 /\ n > 1 /\ Eth!Steps[lan.configurationState].op = "read"
        /\ Eth!Steps[lan.configurationState].at = Eth!Steps[n].at
    <3>1. n > 1 /\ Eth!Steps[n - 1].op = "read" /\ Eth!Steps[n - 1].at = Eth!Steps[n].at
      BY <1>3, <1>6, StepKinds
    <3>2. n = lan.configurationState + 1
      BY <1>1, <1>4, <1>6
    <3>3. n - 1 = lan.configurationState
      BY <1>1, <3>2
    <3> QED BY <3>1, <3>2, <3>3
  <2>2. Eth!Steps[n].at \in Checked
    <3>1. CASE n = 2
      BY <3>1, StepsAtWaits DEF Checked
    <3> QED BY <1>3, <1>6, <3>1, OnlySetting
  <2>3. n # 4
    BY <1>6, StepsAtWaits
  <2>4. lan.reg = ValueAfter(Eth!Steps[n].at, n - 1)
    BY <1>1, <2>1, <2>2, <2>3 DEF ConfigInv, RegsInv
  <2> QED BY <1>3, <1>4, <1>5, <1>6, <2>4, WrittenBack
<1>7. CASE Eth!Steps[n].op # "modify"
  <2>1. n # 2
    BY <1>7, StepsAtWaits
  <2> QED BY <1>3, <1>4, <1>5, <1>7, <2>1 DEF Sent
<1> QED BY <1>6, <1>7

(* configure_complete. *)
LEMMA ConfigGoesOn == ASSUME ConfigInv, Eth!configure_complete PROVE ConfigInv'
<1>1. lan \in Driver /\ chip \in Chip /\ ChainInv /\ ResetInv /\ RegsInv
  BY DEF ConfigInv
<1>2. chip' = chip /\ lan.configured = "called"
  BY DEF Eth!configure_complete
<1>3. lan.configurationState \in 0 .. 33 /\ Eth!STATE_FINISHED = 33
  BY <1>1, StepsAtWaits DEF ChainInv
<1>4. Carried = lan.configurationState /\ message = Eth!None
  BY <1>1, <1>2 DEF Carried, ChainInv
<1>5. CASE lan.configurationState = Eth!STATE_FINISHED
  <2>1. lan' = [lan EXCEPT !.Eth0 = TRUE, !.configurationState = 0, !.configured = "yes"]
        /\ message' = message
    BY <1>5 DEF Eth!configure_complete
  <2>2. /\ lan' \in Driver /\ lan'.Eth0 = TRUE /\ lan'.configurationState = 0
        /\ lan'.configured = "yes"
    BY <1>1, <2>1, Zenon DEF Driver
  <2>3. ~chip.lrst
    BY <1>1, <1>3, <1>5 DEF ResetInv
  <2>4. ChainInv' /\ ResetInv' /\ Carried' = Carried
    BY <1>2, <1>3, <1>4, <1>5, <2>1, <2>2, <2>3 DEF ChainInv, ResetInv, Carried
  <2>5. RegsInv'
    BY <1>1, <1>2, <2>2, <2>3, <2>4 DEF RegsInv
  <2> QED BY <1>1, <1>2, <2>2, <2>4, <2>5 DEF ConfigInv
<1>6. CASE lan.configurationState # Eth!STATE_FINISHED
  <2>1. PICK again, n : /\ again = Eth!Again(lan)
                        /\ n = lan.configurationState + (IF again THEN 0 ELSE 1)
    OBVIOUS
  <2>2. n <= 33
    BY <1>3, <1>6, <2>1
  <2>3. /\ message' = IF Eth!Steps[n].op = "modify"
                        THEN Eth!Write(Eth!Steps[n].at,
                                   (lan.reg \ Eth!Steps[n].off) \cup Eth!Steps[n].on)
                        ELSE Eth!Steps[n]
        /\ lan' = [lan EXCEPT
              !.configured = "asked",
              !.reg = IF Eth!Steps[n].op = "modify"
                        THEN (@ \ Eth!Steps[n].off) \cup Eth!Steps[n].on ELSE @,
              !.configurationState = IF again THEN @ ELSE @ + 1]
    BY <1>6, <2>1 DEF Eth!configure_complete
  <2>4. /\ n \in 1 .. 33 /\ message' = Sent(n) /\ (chip.lrst => n \in {2, 3})
        /\ again => Eth!Steps[n].op = "read"
    BY <1>2, <2>1, <2>2, <2>3, ConfigSends
  <2>5. Eth!Steps[n].on \in SUBSET Bits
    BY <2>4, StepBits
  <2>6. lan' \in Driver /\ lan'.configured = "asked" /\ lan'.Eth0 = lan.Eth0
    <3>1. PICK reg : reg = IF Eth!Steps[n].op = "modify"
                             THEN (lan.reg \ Eth!Steps[n].off) \cup Eth!Steps[n].on ELSE lan.reg
      BY Zenon
    <3>2. reg \in SUBSET Bits
      BY <1>1, <2>5, <3>1 DEF Driver
    <3>3. n \in Nat /\ (IF again THEN lan.configurationState ELSE lan.configurationState + 1) = n
      BY <1>3, <2>1, <2>4
    <3>4. lan' = [lan EXCEPT !.configured = "asked", !.reg = reg, !.configurationState = n]
      BY <1>1, <2>3, <3>1, <3>3, Zenon DEF Driver
    <3> QED BY <1>1, <3>2, <3>3, <3>4, Zenon DEF Driver
  <2>7. lan'.configurationState = n
    BY <1>1, <1>3, <2>1, <2>3 DEF Driver
  <2>8. ChainInv' /\ ResetInv' /\ Carried' = n - 1
    BY <1>1, <1>2, <1>3, <2>4, <2>6, <2>7 DEF ChainInv, ResetInv, Carried
  <2>9. \A r \in Checked : ValueAfter(r, n - 1) = ValueAfter(r, Carried)
    <3>1. CASE again
      <4>1. \A r \in Checked : n # Setting(r)
        BY <2>4, <3>1, SettingStep
      <4> QED BY <1>3, <1>4, <2>1, <2>4, <3>1, <4>1, SameValue
    <3>2. CASE ~again
      BY <1>3, <1>4, <2>1, <3>2
    <3> QED BY <3>1, <3>2
  <2>10. RegsInv'
    BY <1>1, <1>2, <2>6, <2>8, <2>9 DEF RegsInv
  <2> QED BY <1>1, <1>2, <2>6, <2>8, <2>10 DEF ConfigInv
<1> QED BY <1>5, <1>6

(* What is sent are bits of the chip's registers. *)
LEMMA SentBits ==
  ASSUME NEW s \in 1 .. 33, Sent(s).op = "write" PROVE Sent(s).on \in SUBSET Bits
<1>1. Eth!Steps[s].on \in SUBSET Bits /\ Eth!Steps[s].at \in Eth!Registers
  BY StepBits, StepKinds
<1>2. CASE s = 2
  BY <1>2 DEF Sent, Eth!Write, InReset, Bits
<1>3. CASE s # 2 /\ Eth!Steps[s].op = "modify"
  <2>1. Eth!Default[Eth!Steps[s].at] \in SUBSET Bits
    BY <1>1, DefaultType
  <2>2. s = Setting(Eth!Steps[s].at)
    BY <1>3, OnlySetting
  <2>3. Wanted(Eth!Steps[s].at) \in SUBSET Bits
    BY <1>1, <2>1, <2>2 DEF Wanted
  <2> QED BY <1>3, <2>3 DEF Sent, Eth!Write
<1>4. CASE s # 2 /\ Eth!Steps[s].op # "modify"
  BY <1>1, <1>4 DEF Sent
<1> QED BY <1>2, <1>3, <1>4

(* The chip carries a message out. *)
LEMMA ConfigMessage == ASSUME ConfigInv, Eth!Message PROVE ConfigInv'
<1>1. lan \in Driver /\ chip \in Chip /\ ChainInv /\ ResetInv /\ RegsInv
  BY DEF ConfigInv
<1>2. lan.configured = "asked" /\ message' = Eth!None
  BY <1>1 DEF Eth!Message, ChainInv
<1>3. PICK s \in 1 .. 33 : s = lan.configurationState /\ message = Sent(s)
  BY <1>1, <1>2, StepsAtWaits DEF ChainInv
<1>4. Carried = s - 1
  BY <1>2, <1>3 DEF Carried
<1>5. /\ Sent(s).op \in {"read", "write"} /\ Sent(s).at \in Eth!Registers
      /\ Sent(s).at = Eth!Steps[s].at
  BY SentAt, StepKinds, Zenon
<1>6. PICK reg : reg = IF message.op = "read" THEN chip.regs[message.at] ELSE lan.reg
  OBVIOUS
<1>7. /\ lan' \in Driver /\ lan'.configured = "called" /\ lan'.reg = reg
      /\ lan'.configurationState = s /\ lan'.Eth0 = lan.Eth0
  <2>1. reg \in SUBSET Bits
    BY <1>1, <1>3, <1>5, <1>6 DEF Chip, Driver
  <2>2. lan' = [lan EXCEPT !.configured = "called", !.reg = reg]
    BY <1>1, <1>6 DEF Eth!Message, Driver
  <2> QED BY <1>1, <1>3, <2>1, <2>2, Zenon DEF Driver
<1>8. Carried' = s
  BY <1>7 DEF Carried
<1>9. ChainInv'
  BY <1>1, <1>2, <1>3, <1>7, StepsAtWaits DEF ChainInv
<1>10. chip.lrst => s \in {2, 3}
  BY <1>1, <1>3 DEF ResetInv
<1>11. CASE Sent(s).op = "read"
  <2>1. chip' \in Chip /\ chip'.regs = chip.regs /\ chip'.lrst = chip.lrst
    BY <1>1, <1>3, <1>11 DEF Eth!Message, Chip
  <2>2. reg = chip.regs[Eth!Steps[s].at] /\ Eth!Steps[s].op = "read"
    BY <1>3, <1>5, <1>6, <1>11, SentAt
  <2>3. \A r \in Checked : ValueAfter(r, s) = ValueAfter(r, s - 1)
    BY <2>2, SettingStep, SameValue
  <2>4. s # 2
    BY <2>2, StepsAtWaits
  <2>5. ResetInv'
    <3>1. ASSUME s = 3, chip.lrst PROVE "LRST" \in reg
      <4>1. Eth!Steps[s].at = "HW_CFG"
        BY <3>1, StepsAtWaits
      <4>2. reg = InReset
        BY <1>1, <2>2, <3>1, <4>1 DEF RegsInv
      <4> QED BY <4>2 DEF InReset
    <3> QED BY <1>7, <1>10, <2>1, <3>1 DEF ResetInv
  <2>6. /\ \A r \in Checked : \/ chip'.regs[r] = ValueAfter(r, s)
                              \/ chip'.lrst /\ r = "HW_CFG" /\ chip'.regs[r] = InReset
        /\ chip'.lrst => chip'.regs["HW_CFG"] = InReset
    BY <1>1, <1>4, <2>1, <2>3 DEF RegsInv
  <2>7. Eth!Steps[s].at \in Checked =>
          \/ reg = ValueAfter(Eth!Steps[s].at, s)
          \/ s = 3 /\ reg = InReset
    BY <1>10, <2>1, <2>2, <2>4, <2>6
  <2>8. RegsInv'
    BY <1>7, <1>8, <2>6, <2>7 DEF RegsInv
  <2> QED BY <1>7, <1>9, <2>1, <2>5, <2>8 DEF ConfigInv
<1>12. CASE Sent(s).op = "write"
  <2>1. Sent(s).on \in SUBSET Bits
    BY <1>12, SentBits
  <2>2. chip' = [chip EXCEPT !.regs[Sent(s).at] = Sent(s).on,
                             !.lrst = @ \/ "LRST" \in Sent(s).on,
                             !.phy = @ \/ "PHY_RST" \in Sent(s).on]
    BY <1>3, <1>12 DEF Eth!Message
  <2>3. chip' \in Chip
    BY <1>1, <1>5, <2>1, <2>2, Zenon DEF Chip
  <2>4. /\ chip'.regs = [chip.regs EXCEPT ![Sent(s).at] = Sent(s).on]
        /\ chip'.lrst = (chip.lrst \/ "LRST" \in Sent(s).on)
    BY <1>1, <2>2 DEF Chip
  <2>5. Eth!Steps[s].op # "read"
    BY <1>12, SentAt, Zenon
  <2>6. s # 3
    BY <2>5, StepsAtWaits
  <2>7. chip'.lrst => s = 2
    BY <1>10, <1>12, <2>4, <2>6, SentAt, Zenon
  <2>8. ResetInv'
    BY <1>7, <2>6, <2>7 DEF ResetInv
  <2>9. s = 2 => Sent(s).at = "HW_CFG" /\ Sent(s).on = InReset
    BY DEF Sent, Eth!Write
  <2>10. /\ chip'.regs[Sent(s).at] = Sent(s).on
         /\ \A r \in Eth!Registers : r # Sent(s).at => chip'.regs[r] = chip.regs[r]
    BY <1>1, <1>5, <2>4 DEF Chip
  <2>11. ASSUME NEW r \in Checked
         PROVE  \/ chip'.regs[r] = ValueAfter(r, s)
                \/ chip'.lrst /\ r = "HW_CFG" /\ chip'.regs[r] = InReset
    <3>1. CASE r = Sent(s).at /\ s = 2
      BY <2>4, <2>9, <2>10, <3>1, Zenon DEF InReset
    <3>2. CASE r = Sent(s).at /\ s # 2
      <4>1. s = Setting(r) /\ Sent(s).on = Wanted(r)
        BY <1>12, <3>2, SentAt
      <4>2. ValueAfter(r, s) = Wanted(r)
        BY <4>1 DEF ValueAfter
      <4> QED BY <2>10, <3>2, <4>1, <4>2, Zenon
    <3>3. CASE r # Sent(s).at
      <4>1. r \in Eth!Registers /\ s # Setting(r)
        BY <1>5, <3>3, SettingStep
      <4>2. chip'.regs[r] = chip.regs[r] /\ ValueAfter(r, s) = ValueAfter(r, s - 1)
        BY <2>10, <3>3, <4>1, SameValue
      <4>3. \/ chip.regs[r] = ValueAfter(r, s - 1)
            \/ chip.lrst /\ r = "HW_CFG" /\ chip.regs[r] = InReset
        BY <1>1, <1>4 DEF RegsInv
      <4> QED BY <2>4, <4>2, <4>3, Zenon
    <3> QED BY <3>1, <3>2, <3>3
  <2>12. RegsInv'
    BY <1>7, <1>8, <2>5, <2>7, <2>9, <2>10, <2>11 DEF RegsInv
  <2> QED BY <1>7, <1>9, <2>3, <2>8, <2>12 DEF ConfigInv
<1> QED BY <1>5, <1>11, <1>12

(* Nothing else touches the chip, so once the last message is answered     *)
(* each register has the value its only step gave it.                      *)
LEMMA ConfigDone == ASSUME ConfigInv PROVE Eth!ChipConfigured
<1> SUFFICES ASSUME lan.Eth0 PROVE \A r \in Checked : chip.regs[r] = Wanted(r)
  <2>1. /\ Wanted("HW_CFG") = {"LED0", "LED1"} /\ Wanted("USB_CFG0") = {"BCE"}
        /\ Wanted("RFE_CTL") = {"BCAST", "PERFECT"}
        /\ Wanted("MAC_CR") = {"AUTO_DUPLEX", "AUTO_SPEED"}
    BY StepAt DEF Wanted, Setting, Eth!Default, Eth!Registers, Eth!Modify
  <2>2. /\ Wanted("PFILTER_HI") = {"address", "VALID"}
        /\ \A r \in {"RX_ADDRL", "RX_ADDRH", "PFILTER_LO"} : Wanted(r) = {"address"}
    BY StepAt DEF Wanted, Setting, Eth!Default, Eth!Registers, Eth!Write
  <2>3. /\ "TXEN" \in Wanted("MAC_TX") /\ "RX_EN" \in Wanted("MAC_RX")
        /\ \A r \in {"FCT_TX_CTL", "FCT_RX_CTL"} : Wanted(r) = {"EN"}
    BY StepAt DEF Wanted, Setting, Eth!Default, Eth!Registers, Eth!Modify
  <2> QED BY <2>1, <2>2, <2>3 DEF Eth!ChipConfigured, Checked
<1>1. lan.configured = "yes"
  BY DEF ConfigInv, ChainInv
<1>2. Carried = 33 /\ ~chip.lrst
  BY <1>1, StepsAtWaits DEF Carried, ConfigInv, ResetInv
<1>3. \A r \in Checked : ValueAfter(r, 33) = Wanted(r)
  BY SettingStep DEF ValueAfter
<1> QED BY <1>2, <1>3 DEF ConfigInv, RegsInv

-----------------------------------------------------------------------------
(* A set of naturals with 0 and every successor is all of them. *)
LEMMA AllNaturals ==
  ASSUME NEW S \in SUBSET Nat, 0 \in S, \A n \in S : n + 1 \in S
  PROVE  S = Nat
<1> SUFFICES ASSUME Nat \ S # {} PROVE FALSE
  BY Zenon
<1> DEFINE R == OpToRel(<, Nat)
<1>1. IsWellFoundedOn(R, Nat)
  BY NatLessThanWellFounded, Zenon
<1>2. PICK m \in Nat \ S : \A k \in Nat \ S : ~(<<k, m>> \in R)
  <2> HIDE DEF R
  <2> QED BY <1>1, WFMin, Zenon
<1>3. m - 1 \in Nat /\ m - 1 < m
  OBVIOUS
<1>4. m - 1 \in S
  BY <1>2, <1>3, Zenon DEF OpToRel
<1>5. (m - 1) + 1 \in S
  BY <1>4
<1> QED BY <1>5

(* What sending n pieces makes of the driver: they are on the way or not,  *)
(* and nothing but the sending half has changed.                           *)
After(l, n, m) ==
  /\ m \in Driver /\ m.configurationState = l.configurationState /\ m.reg = l.reg
  /\ m.configured = l.configured /\ m.Eth0 = l.Eth0 /\ m.NetUp = l.NetUp /\ m.rx = l.rx
  /\ Len(m.tx) <= Len(l.tx) + n
  /\ n <= 1 /\ l.tx = << >> => m.tx = << >> \/ m.TxBuffer = Head(m.tx)

(* One piece more in a queue. *)
LEMMA OneMore ==
  ASSUME NEW a \in Nat, NEW b \in Nat, NEW n \in Nat, b <= a + n
  PROVE  b <= a + (n + 1) /\ b + 1 <= a + (n + 1)
  OBVIOUS

(* LanDeviceSendFrame. *)
LEMMA PieceSent ==
  ASSUME NEW l \in Driver, NEW n \in Nat, NEW m, After(l, n, m), NEW frame \in Seq(Nat),
         n = 0 => m = l
  PROVE  After(l, n + 1, Eth!LanDeviceSendFrame(m, frame))
<1>1. m \in Driver /\ Len(m.tx) \in Nat /\ Len(l.tx) \in Nat
  BY DEF After, Driver
<1>6. Len(m.tx) <= Len(l.tx) + n
  BY DEF After
<1>2. PICK c : c = [m EXCEPT !.TxBuffer = frame]
  BY Zenon
<1>3. /\ c \in Driver /\ c.TxBuffer = frame /\ c.configurationState = m.configurationState
      /\ c.reg = m.reg /\ c.configured = m.configured /\ c.Eth0 = m.Eth0 /\ c.NetUp = m.NetUp
      /\ c.rx = m.rx /\ c.tx = m.tx /\ c.leaked = m.leaked
  BY <1>1, <1>2, Zenon DEF Driver
<1>4. ASSUME NEW d, \/ d = c
                    \/ d = [c EXCEPT !.leaked = c.leaked + 1]
      PROVE  After(l, n + 1, d)
  <2>1. /\ d \in Driver /\ d.configurationState = c.configurationState
        /\ d.reg = c.reg /\ d.configured = c.configured /\ d.Eth0 = c.Eth0
        /\ d.NetUp = c.NetUp /\ d.rx = c.rx /\ d.tx = c.tx
    <3>1. PICK k \in Nat : k = c.leaked + 1
      BY <1>3 DEF Driver
    <3>2. CASE d = [c EXCEPT !.leaked = k]
      BY <1>3, <3>2, Zenon DEF Driver
    <3> QED BY <1>3, <1>4, <3>1, <3>2
  <2>2. Len(d.tx) <= Len(l.tx) + (n + 1)
    <3>1. Len(d.tx) = Len(m.tx)
      BY <1>3, <2>1
    <3> QED BY <1>6, <1>1, <3>1, OneMore, Zenon
  <2>3. n + 1 <= 1 => n = 0
    OBVIOUS
  <2>4. n + 1 <= 1 /\ l.tx = << >> => d.tx = << >>
    BY <1>3, <2>1, <2>3
  <2> QED BY <1>3, <2>1, <2>2, <2>4, Zenon DEF After
<1>5. ASSUME NEW d, d = [c EXCEPT !.tx = Append(@, frame)]
      PROVE  After(l, n + 1, d)
  <2>1. c.tx \in Seq(Seq(Nat)) /\ Append(c.tx, frame) \in Seq(Seq(Nat))
    BY <1>3 DEF Driver
  <2>2. /\ d \in Driver /\ d.configurationState = c.configurationState
        /\ d.reg = c.reg /\ d.configured = c.configured /\ d.Eth0 = c.Eth0
        /\ d.NetUp = c.NetUp /\ d.rx = c.rx /\ d.tx = Append(c.tx, frame) /\ d.TxBuffer = frame
    BY <1>3, <1>5, <2>1, Zenon DEF Driver
  <2>3. Len(d.tx) = Len(c.tx) + 1
    BY <2>1, <2>2
  <2>4. Len(d.tx) <= Len(l.tx) + (n + 1)
    <3>1. Len(d.tx) = Len(m.tx) + 1
      BY <1>3, <2>3
    <3> QED BY <1>6, <1>1, <3>1, OneMore, Zenon
  <2>5. n + 1 <= 1 => n = 0
    OBVIOUS
  <2>6. n + 1 <= 1 /\ l.tx = << >> => Head(d.tx) = frame
    <3>1. Head(Append(<< >>, frame)) = frame
      OBVIOUS
    <3> QED BY <1>3, <2>2, <2>5, <3>1
  <2> QED BY <1>3, <2>2, <2>4, <2>6, Zenon DEF After
<1> QED BY <1>2, <1>4, <1>5 DEF Eth!LanDeviceSendFrame

(* The states of the loop over the pieces of a frame. *)
Loop(f, l, frame, n) ==
  f = [p \in 0 .. n |-> IF p = 0 THEN l ELSE Eth!LanDeviceSendFrame(f[p - 1], << frame, p >>)]

(* The loop over the pieces of a frame has such a run. *)
LEMMA LoopRuns ==
  ASSUME NEW l \in Driver, NEW frame \in Nat, NEW n \in Nat
  PROVE  \E f : Loop(f, l, frame, n)
<1> DEFINE S == {k \in Nat : \E f : Loop(f, l, frame, k)}
<1>1. 0 \in S
  <2>1. Loop([p \in 0 .. 0 |-> l], l, frame, 0)
    BY DEF Loop
  <2> QED BY <2>1
<1>2. ASSUME NEW k \in S PROVE k + 1 \in S
  <2>1. PICK f : Loop(f, l, frame, k)
    OBVIOUS
  <2> DEFINE g == [p \in 0 .. k + 1 |->
                    IF p = k + 1 THEN Eth!LanDeviceSendFrame(f[k], << frame, k + 1 >>) ELSE f[p]]
  <2>2. ASSUME NEW p \in 0 .. k + 1
        PROVE  g[p] = IF p = 0 THEN l ELSE Eth!LanDeviceSendFrame(g[p - 1], << frame, p >>)
    <3>1. CASE p = k + 1
      <4>1. g[p - 1] = f[k] /\ p # 0
        BY <3>1
      <4> QED BY <3>1, <4>1
    <3>2. CASE p # k + 1
      <4>1. p \in 0 .. k /\ g[p] = f[p]
        BY <3>2
      <4>2. p # 0 => g[p - 1] = f[p - 1]
        BY <4>1
      <4>3. f[p] = IF p = 0 THEN l ELSE Eth!LanDeviceSendFrame(f[p - 1], << frame, p >>)
        BY <2>1, <4>1 DEF Loop
      <4> QED BY <4>1, <4>2, <4>3
    <3> QED BY <3>1, <3>2
  <2>3. g = [p \in 0 .. k + 1 |->
              IF p = 0 THEN l ELSE Eth!LanDeviceSendFrame(g[p - 1], << frame, p >>)]
    BY <2>2
  <2>4. Loop(g, l, frame, k + 1)
    <3> HIDE DEF g
    <3> QED BY <2>3 DEF Loop
  <2> QED BY <2>4
<1> HIDE DEF S
<1>3. S = Nat
  BY <1>1, <1>2, AllNaturals, Zenon DEF S
<1> QED BY <1>3 DEF S

(* In it every piece adds at most one request. *)
LEMMA LoopSends ==
  ASSUME NEW l \in Driver, NEW frame \in Nat, NEW n \in Nat, NEW f, Loop(f, l, frame, n)
  PROVE  After(l, n, f[n])
<1> DEFINE S == {k \in Nat : k <= n => After(l, k, f[k]) /\ (k = 0 => f[k] = l)}
<1>1. 0 \in S
  <2>1. f[0] = l
    BY DEF Loop
  <2>2. Len(l.tx) \in Nat
    BY DEF Driver
  <2>3. Len(l.tx) <= Len(l.tx) + 0
    BY <2>2
  <2>4. After(l, 0, l)
    BY <2>3 DEF After
  <2> QED BY <2>1, <2>4
<1>2. ASSUME NEW k \in S PROVE k + 1 \in S
  <2>1. CASE k + 1 <= n
    <3>1. k \in 0 .. n /\ k + 1 \in 0 .. n /\ (k + 1) - 1 = k /\ k + 1 # 0 /\ k <= n
      BY <2>1
    <3>2. f[k + 1] = Eth!LanDeviceSendFrame(f[k], << frame, k + 1 >>)
      BY <3>1 DEF Loop
    <3>3. << frame, k + 1 >> \in Seq(Nat)
      OBVIOUS
    <3>4. After(l, k, f[k]) /\ (k = 0 => f[k] = l) /\ k \in Nat
      BY <3>1
    <3>5. After(l, k + 1, f[k + 1])
      BY <3>2, <3>3, <3>4, PieceSent, Zenon
    <3> QED BY <3>1, <3>5
  <2>2. CASE ~(k + 1 <= n)
    BY <2>2
  <2> QED BY <2>1, <2>2
<1> HIDE DEF S
<1>3. S = Nat
  BY <1>1, <1>2, AllNaturals, Zenon DEF S
<1> QED BY <1>3 DEF S

(* low_level_output. *)
LEMMA FrameSent ==
  ASSUME NEW l \in Driver, NEW frame \in Nat, NEW n \in Nat
  PROVE  After(l, n, Eth!low_level_output(l, frame, n))
<1>1. Eth!low_level_output(l, frame, n) = (CHOOSE f : Loop(f, l, frame, n))[n]
  BY DEF Eth!low_level_output, Loop
<1>2. PICK f : f = CHOOSE g : Loop(g, l, frame, n)
  OBVIOUS
<1>3. Loop(f, l, frame, n)
  BY <1>2, LoopRuns
<1> QED BY <1>1, <1>2, <1>3, LoopSends

(* What leaves the driver as it was, but for the requests on the bus. *)
SameConfig(l, m) ==
  /\ m \in Driver /\ m.configurationState = l.configurationState /\ m.reg = l.reg
  /\ m.configured = l.configured /\ m.Eth0 = l.Eth0

(* Whatever the stack sends, it stays in its window, and a window of one   *)
(* frame keeps the buffer until the frame has left.                        *)
LEMMA Outputs ==
  ASSUME Eth!EthernetAssumption, used.frames \in Nat, NEW l \in Driver, Len(l.tx) <= SendWindow,
         NEW o \in Eth!Output(l)
  PROVE  /\ SameConfig(l, o.lan) /\ o.lan.NetUp = l.NetUp /\ o.lan.rx = l.rx
         /\ o.frames \in Nat /\ Len(o.lan.tx) <= SendWindow
         /\ SendWindow <= 1 /\ Buffered(l) => Buffered(o.lan)
<1>1. CASE o = [lan |-> l, frames |-> used.frames]
  BY <1>1 DEF SameConfig
<1>2. CASE \E n \in {k \in 1..MaxPieces : used.frames < MaxFrames /\ Len(l.tx) + k <= SendWindow} :
             o = [lan |-> Eth!low_level_output(l, used.frames + 1, n), frames |-> used.frames + 1]
  <2>1. PICK n \in 1..MaxPieces :
          /\ Len(l.tx) + n <= SendWindow
          /\ o = [lan |-> Eth!low_level_output(l, used.frames + 1, n), frames |-> used.frames + 1]
    BY <1>2
  <2>2. n \in Nat /\ n >= 1 /\ SendWindow \in Nat /\ used.frames + 1 \in Nat
    BY DEF Eth!EthernetAssumption
  <2>3. PICK m : m = Eth!low_level_output(l, used.frames + 1, n)
    OBVIOUS
  <2>4. After(l, n, m) /\ o.lan = m /\ o.frames = used.frames + 1
    BY <2>1, <2>2, <2>3, FrameSent
  <2>5. l.tx \in Seq(Seq(Nat)) /\ m.tx \in Seq(Seq(Nat)) /\ Len(l.tx) \in Nat /\ Len(m.tx) \in Nat
    BY <2>4 DEF After, Driver
  <2>6. Len(m.tx) <= Len(l.tx) + n
    BY <2>4 DEF After
  <2>7. Len(m.tx) <= SendWindow
    BY <2>1, <2>2, <2>5, <2>6
  <2>8. ASSUME SendWindow <= 1 PROVE Buffered(m)
    <3>1. n <= 1 /\ Len(l.tx) = 0
      BY <2>1, <2>2, <2>5, <2>8
    <3>2. l.tx = << >>
      BY <2>5, <3>1
    <3> QED BY <2>4, <3>1, <3>2 DEF After, Buffered
  <2> QED BY <2>2, <2>4, <2>7, <2>8 DEF After, SameConfig
<1> QED BY <1>1, <1>2 DEF Eth!Output

(* What a step has to keep that does not configure the chip. *)
LEMMA EthKept ==
  ASSUME EthInv, SameConfig(lan, lan'), message' = message, chip' = chip,
         others' \in 0 .. MaxOthers, used' \in [frames : Nat, arrivals : Nat, errors : Nat],
         Len(lan'.tx) <= SendWindow, lan'.NetUp => lan.Eth0,
         ~lan'.NetUp => lan'.rx = "none" /\ lan'.tx = << >>,
         MaxOthers + SendWindow < MaxChannels => Eth!ReceiverArmed',
         SendWindow <= 1 => Buffered(lan') /\ Eth!SentAsGiven'
  PROVE  EthInv'
<1>1. ConfigInv'
  BY ConfigKept DEF EthInv, SameConfig
<1>2. TrafficInv'
  BY DEF TrafficInv, SameConfig
<1> QED BY <1>1, <1>2 DEF EthInv, Buffered

(* A channel is there for the receiver. *)
LEMMA Submitted ==
  ASSUME Eth!EthernetAssumption, EthInv, lan.Eth0, NEW l \in Driver, Len(l.tx) <= SendWindow
  PROVE  /\ SameConfig(l, Eth!Submit(l)) /\ Eth!Submit(l).NetUp = l.NetUp /\ Eth!Submit(l).tx = l.tx
         /\ Eth!Submit(l).TxBuffer = l.TxBuffer
         /\ MaxOthers + SendWindow < MaxChannels => Eth!Submit(l).rx = "wait"
<1>1. PICK x : x = IF Eth!ChannelFree([l EXCEPT !.rx = "lost"]) THEN "wait" ELSE "lost"
  OBVIOUS
<1>2. Eth!Submit(l) = [l EXCEPT !.rx = x]
  BY <1>1 DEF Eth!Submit
<1>3. x \in {"wait", "lost"}
  BY <1>1
<1>4. /\ SameConfig(l, Eth!Submit(l)) /\ Eth!Submit(l).NetUp = l.NetUp /\ Eth!Submit(l).tx = l.tx
      /\ Eth!Submit(l).TxBuffer = l.TxBuffer /\ Eth!Submit(l).rx = x
  BY <1>2, <1>3, Zenon DEF SameConfig, Driver
<1>5. ASSUME MaxOthers + SendWindow < MaxChannels PROVE x = "wait"
  <2>1. PICK m : m = [l EXCEPT !.rx = "lost"]
    BY Zenon
  <2>2. m.rx = "lost" /\ m.tx = l.tx
    BY <2>1 DEF Driver
  <2>3. message = Eth!None
    BY DEF EthInv, ConfigInv, ChainInv
  <2>4. Eth!Channels(m) = others + Len(l.tx) + 0 + 0
    BY <2>2, <2>3 DEF Eth!Channels
  <2>5. others \in Nat /\ others <= MaxOthers /\ MaxOthers \in Nat /\ SendWindow \in Nat
        /\ MaxChannels \in Nat
    BY DEF EthInv, TrafficInv, Eth!EthernetAssumption
  <2>6. Len(l.tx) \in Nat
    BY DEF Driver
  <2>7. others + Len(l.tx) + 0 + 0 < MaxChannels
    BY <1>5, <2>5, <2>6
  <2> QED BY <1>1, <2>1, <2>4, <2>7 DEF Eth!ChannelFree
<1> QED BY <1>4, <1>5

(* The state EthInv speaks of, with its types. *)
LEMMA EthTypes ==
  ASSUME Eth!EthernetAssumption, EthInv
  PROVE  /\ lan \in Driver /\ lan.tx \in Seq(Seq(Nat)) /\ SendWindow \in Nat /\ MaxOthers \in Nat
         /\ others \in 0 .. MaxOthers /\ used \in [frames : Nat, arrivals : Nat, errors : Nat]
         /\ Len(lan.tx) <= SendWindow /\ (lan.NetUp => lan.Eth0) /\ SameConfig(lan, lan)
         /\ ~lan.NetUp => lan.rx = "none" /\ lan.tx = << >>
  BY DEF EthInv, ConfigInv, TrafficInv, Eth!EthernetAssumption, Driver, SameConfig

(* The stack sends. *)
LEMMA EthSend == ASSUME Eth!EthernetAssumption, EthInv, Eth!Send PROVE EthInv'
<1>1. PICK o \in Eth!Output(lan) :
        lan.NetUp /\ lan' = o.lan /\ used' = [used EXCEPT !.frames = o.frames]
        /\ message' = message /\ chip' = chip /\ left' = left /\ others' = others
  BY DEF Eth!Send
<1>2. /\ SameConfig(lan, lan') /\ lan'.NetUp = lan.NetUp /\ lan'.rx = lan.rx
      /\ o.frames \in Nat /\ Len(lan'.tx) <= SendWindow
      /\ SendWindow <= 1 /\ Buffered(lan) => Buffered(lan')
  BY <1>1, EthTypes, Outputs, Zenon
<1>3. used' \in [frames : Nat, arrivals : Nat, errors : Nat]
  BY <1>1, <1>2, EthTypes
<1>4. MaxOthers + SendWindow < MaxChannels => Eth!ReceiverArmed'
  BY <1>2 DEF EthInv, Eth!ReceiverArmed
<1>5. SendWindow <= 1 => Buffered(lan') /\ Eth!SentAsGiven'
  BY <1>1, <1>2 DEF EthInv, Eth!SentAsGiven
<1> QED BY <1>1, <1>2, <1>3, <1>4, <1>5, EthTypes, EthKept

(* The queue of frames loses its first. *)
LEMMA FirstGone ==
  ASSUME Eth!EthernetAssumption, EthInv, lan.tx # << >>, NEW l \in Driver, l.tx = Tail(lan.tx)
  PROVE  /\ Len(l.tx) <= SendWindow /\ lan.NetUp
         /\ SendWindow <= 1 => Buffered(l)
<1>1. lan.tx \in Seq(Seq(Nat)) /\ SendWindow \in Nat /\ Len(lan.tx) <= SendWindow /\ lan.NetUp
  BY EthTypes
<1>2. Len(l.tx) = Len(lan.tx) - 1 /\ Len(lan.tx) \in Nat /\ l.tx \in Seq(Seq(Nat))
  BY <1>1
<1>3. Len(l.tx) <= SendWindow
  BY <1>1, <1>2
<1>4. ASSUME SendWindow <= 1 PROVE l.tx = << >>
  <2>1. Len(l.tx) <= 0 /\ Len(l.tx) \in Nat
    BY <1>1, <1>2, <1>4
  <2> QED BY <1>2, <2>1
<1> QED BY <1>1, <1>3, <1>4 DEF Buffered

(* A frame has left. *)
LEMMA EthSendDone == ASSUME Eth!EthernetAssumption, EthInv, Eth!SendDone PROVE EthInv'
<1>1. /\ lan.tx # << >> /\ left' = left \cup {<< Head(lan.tx), lan.TxBuffer >>}
      /\ lan' = [lan EXCEPT !.tx = Tail(@)] /\ message' = message /\ chip' = chip
      /\ others' = others /\ used' = used
  BY DEF Eth!SendDone
<1>2. PICK t : t = Tail(lan.tx)
  BY Zenon
<1>3. t \in Seq(Seq(Nat))
  BY <1>1, <1>2, EthTypes
<1>4. lan' = [lan EXCEPT !.tx = t] /\ lan \in Driver
  BY <1>1, <1>2, EthTypes
<1>5. /\ SameConfig(lan, lan') /\ lan'.NetUp = lan.NetUp /\ lan'.rx = lan.rx
      /\ lan'.tx = Tail(lan.tx) /\ lan' \in Driver
  BY <1>2, <1>3, <1>4, Zenon DEF SameConfig, Driver
<1>6. Len(lan'.tx) <= SendWindow /\ lan.NetUp /\ (SendWindow <= 1 => Buffered(lan'))
  BY <1>1, <1>5, FirstGone, Zenon
<1>7. MaxOthers + SendWindow < MaxChannels => Eth!ReceiverArmed'
  BY <1>5 DEF EthInv, Eth!ReceiverArmed
<1>8. SendWindow <= 1 => Eth!SentAsGiven'
  BY <1>1 DEF EthInv, Eth!SentAsGiven, Buffered
<1> QED BY <1>1, <1>5, <1>6, <1>7, <1>8, EthTypes, EthKept

(* The controller reports an error. *)
LEMMA EthBusError == ASSUME Eth!EthernetAssumption, EthInv, Eth!BusError PROVE EthInv'
<1>1. /\ message' = message /\ chip' = chip /\ others' = others /\ left' = left
      /\ used' = [used EXCEPT !.errors = @ + 1]
  BY DEF Eth!BusError
<1>2. used' \in [frames : Nat, arrivals : Nat, errors : Nat]
  BY <1>1, EthTypes
<1>3. SendWindow <= 1 => Eth!SentAsGiven'
  BY <1>1 DEF EthInv, Eth!SentAsGiven
<1>4. CASE lan.rx = "wait" /\ lan' = [lan EXCEPT !.rx = "failed"]
  <2>1. /\ SameConfig(lan, lan') /\ lan'.NetUp = lan.NetUp /\ lan'.rx = "failed"
        /\ lan'.tx = lan.tx /\ lan'.TxBuffer = lan.TxBuffer
    BY <1>4, EthTypes, Zenon DEF SameConfig, Driver
  <2>2. lan.NetUp
    BY <1>4, EthTypes
  <2>3. Eth!ReceiverArmed'
    BY <2>1 DEF Eth!ReceiverArmed
  <2>4. SendWindow <= 1 => Buffered(lan')
    BY <2>1 DEF EthInv, Buffered
  <2> QED BY <1>1, <1>2, <1>3, <2>1, <2>2, <2>3, <2>4, EthTypes, EthKept
<1>5. CASE lan.tx # << >> /\ lan' = [lan EXCEPT !.tx = Tail(@), !.leaked = @ + 1]
  <2>1. PICK t, k : t = Tail(lan.tx) /\ k = lan.leaked + 1
    BY Zenon
  <2>2. t \in Seq(Seq(Nat)) /\ k \in Nat
    BY <1>5, <2>1, EthTypes DEF Driver
  <2>3. lan' = [lan EXCEPT !.tx = t, !.leaked = k] /\ lan \in Driver
    BY <1>5, <2>1, EthTypes
  <2>4. /\ SameConfig(lan, lan') /\ lan'.NetUp = lan.NetUp /\ lan'.rx = lan.rx
        /\ lan'.tx = Tail(lan.tx) /\ lan' \in Driver
    BY <2>1, <2>2, <2>3, Zenon DEF SameConfig, Driver
  <2>5. Len(lan'.tx) <= SendWindow /\ lan.NetUp /\ (SendWindow <= 1 => Buffered(lan'))
    BY <1>5, <2>4, FirstGone, Zenon
  <2>6. MaxOthers + SendWindow < MaxChannels => Eth!ReceiverArmed'
    BY <2>4 DEF EthInv, Eth!ReceiverArmed
  <2> QED BY <1>1, <1>2, <1>3, <2>4, <2>5, <2>6, EthTypes, EthKept
<1> QED BY <1>4, <1>5 DEF Eth!BusError

(* A frame arrives, or another driver takes or gives back a request. *)
LEMMA EthElsewhere ==
  ASSUME Eth!EthernetAssumption, EthInv, Eth!Arrive \/ Eth!OthersTake \/ Eth!OthersDone
  PROVE  EthInv'
<1>1. lan' = lan /\ message' = message /\ chip' = chip /\ left' = left
  BY DEF Eth!Arrive, Eth!OthersTake, Eth!OthersDone
<1>2. others' \in 0 .. MaxOthers
  BY EthTypes DEF Eth!Arrive, Eth!OthersTake, Eth!OthersDone
<1>3. used' \in [frames : Nat, arrivals : Nat, errors : Nat]
  BY EthTypes DEF Eth!Arrive, Eth!OthersTake, Eth!OthersDone
<1>4. MaxOthers + SendWindow < MaxChannels => Eth!ReceiverArmed'
  BY <1>1 DEF EthInv, Eth!ReceiverArmed
<1>5. SendWindow <= 1 => Buffered(lan') /\ Eth!SentAsGiven'
  BY <1>1 DEF EthInv, Eth!SentAsGiven
<1> QED BY <1>1, <1>2, <1>3, <1>4, <1>5, EthTypes, EthKept

(* The command net. *)
LEMMA EthNetStart == ASSUME Eth!EthernetAssumption, EthInv, Eth!NetStart PROVE EthInv'
<1>1. PICK l : l = Eth!Submit(lan)
  OBVIOUS
<1>2. PICK o \in Eth!Output(l) :
        ~lan.NetUp /\ lan.Eth0 /\ lan' = [o.lan EXCEPT !.NetUp = TRUE]
        /\ used' = [used EXCEPT !.frames = o.frames]
        /\ message' = message /\ chip' = chip /\ left' = left /\ others' = others
  BY <1>1, Zenon DEF Eth!NetStart
<1>3. /\ SameConfig(lan, l) /\ l.tx = lan.tx /\ lan.tx = << >>
      /\ MaxOthers + SendWindow < MaxChannels => l.rx = "wait"
  BY <1>1, <1>2, EthTypes, Submitted
<1>4. l \in Driver /\ Len(l.tx) <= SendWindow /\ Buffered(l)
  BY <1>3, EthTypes DEF SameConfig, Buffered
<1>5. /\ SameConfig(l, o.lan) /\ o.lan.rx = l.rx /\ o.frames \in Nat
      /\ Len(o.lan.tx) <= SendWindow /\ (SendWindow <= 1 => Buffered(o.lan))
  BY <1>2, <1>4, EthTypes, Outputs
<1>6. /\ SameConfig(lan, lan') /\ lan'.NetUp = TRUE /\ lan'.rx = l.rx
      /\ lan'.tx = o.lan.tx /\ lan'.TxBuffer = o.lan.TxBuffer
  BY <1>2, <1>3, <1>5, Zenon DEF SameConfig, Driver
<1>7. used' \in [frames : Nat, arrivals : Nat, errors : Nat]
  BY <1>2, <1>5, EthTypes
<1>8. MaxOthers + SendWindow < MaxChannels => Eth!ReceiverArmed'
  BY <1>3, <1>6 DEF Eth!ReceiverArmed
<1>9. SendWindow <= 1 => Buffered(lan') /\ Eth!SentAsGiven'
  BY <1>2, <1>5, <1>6 DEF EthInv, Eth!SentAsGiven, Buffered
<1>10. Len(lan'.tx) <= SendWindow
  BY <1>5, <1>6
<1> QED BY <1>2, <1>6, <1>7, <1>8, <1>9, <1>10, EthTypes, EthKept

(* The callback of the receiver. *)
LEMMA EthReceive == ASSUME Eth!EthernetAssumption, EthInv, Eth!receive_complete PROVE EthInv'
<1>1. PICK l : l = [lan EXCEPT !.rx = "done"]
  BY Zenon
<1>2. PICK o \in Eth!Output(l) :
        lan.rx = "wait" /\ lan' = Eth!Submit(o.lan) /\ used' = [used EXCEPT !.frames = o.frames]
        /\ message' = message /\ chip' = chip /\ left' = left /\ others' = others
  BY <1>1 DEF Eth!receive_complete
<1>3. lan.NetUp /\ lan.Eth0
  BY <1>2, EthTypes
<1>4. /\ SameConfig(lan, l) /\ l.tx = lan.tx /\ l.TxBuffer = lan.TxBuffer /\ l.NetUp = lan.NetUp
  BY <1>1, EthTypes, Zenon DEF SameConfig, Driver
<1>5. /\ l \in Driver /\ Len(l.tx) <= SendWindow /\ (SendWindow <= 1 => Buffered(l))
  BY <1>4, EthTypes DEF SameConfig, Buffered, EthInv
<1>6. /\ SameConfig(l, o.lan) /\ o.lan.NetUp = l.NetUp /\ o.frames \in Nat
      /\ Len(o.lan.tx) <= SendWindow /\ (SendWindow <= 1 => Buffered(o.lan))
  BY <1>2, <1>5, EthTypes, Outputs
<1>7. PICK m : m = o.lan
  OBVIOUS
<1>8. m \in Driver /\ Len(m.tx) <= SendWindow
  BY <1>6, <1>7 DEF SameConfig
<1>9. /\ SameConfig(m, lan') /\ lan'.NetUp = m.NetUp /\ lan'.tx = m.tx
      /\ lan'.TxBuffer = m.TxBuffer
      /\ MaxOthers + SendWindow < MaxChannels => lan'.rx = "wait"
  BY <1>2, <1>3, <1>7, <1>8, Submitted
<1>10. SameConfig(lan, lan')
  BY <1>4, <1>6, <1>7, <1>9 DEF SameConfig
<1>11. used' \in [frames : Nat, arrivals : Nat, errors : Nat]
  BY <1>2, <1>6, EthTypes
<1>12. MaxOthers + SendWindow < MaxChannels => Eth!ReceiverArmed'
  BY <1>9 DEF Eth!ReceiverArmed
<1>13. SendWindow <= 1 => Buffered(lan') /\ Eth!SentAsGiven'
  BY <1>2, <1>6, <1>7, <1>9 DEF EthInv, Eth!SentAsGiven, Buffered
<1>14. Len(lan'.tx) <= SendWindow /\ lan'.NetUp
  BY <1>3, <1>4, <1>6, <1>7, <1>9
<1> QED BY <1>2, <1>3, <1>10, <1>11, <1>12, <1>13, <1>14, EthTypes, EthKept

(* A step of the configuration: the network is not up yet, and nothing is  *)
(* on the way.                                                             *)
LEMMA EthConfig ==
  ASSUME Eth!EthernetAssumption, EthInv,
         Eth!configure \/ Eth!configure_complete \/ Eth!Message \/ Eth!ResetEnds
  PROVE  EthInv'
<1>1. ConfigInv
  BY DEF EthInv
<1>2. ConfigInv'
  BY <1>1, ConfigStarts, ConfigGoesOn, ConfigMessage, ConfigReset
<1>3. left' = left /\ others' = others /\ used' = used
  BY DEF Eth!configure, Eth!configure_complete, Eth!Message, Eth!ResetEnds
<1>4. /\ lan'.NetUp = lan.NetUp /\ lan'.rx = lan.rx /\ lan'.tx = lan.tx
      /\ lan'.TxBuffer = lan.TxBuffer
  <2>1. lan \in Driver
    BY <1>1 DEF ConfigInv
  <2>2. CASE Eth!configure
    BY <2>1, <2>2 DEF Eth!configure, Driver
  <2>3. CASE Eth!configure_complete
    BY <2>1, <2>3, Zenon DEF Eth!configure_complete, Driver
  <2>4. CASE Eth!Message
    BY <2>1, <2>4 DEF Eth!Message, Driver
  <2>5. CASE Eth!ResetEnds
    BY <2>5 DEF Eth!ResetEnds
  <2> QED BY <2>2, <2>3, <2>4, <2>5
<1>5. lan.Eth0 => lan'.Eth0
  <2>1. lan \in Driver /\ (lan.Eth0 => lan.configured = "yes" /\ message = Eth!None)
    BY <1>1 DEF ConfigInv, ChainInv
  <2>2. CASE Eth!ResetEnds
    BY <2>2 DEF Eth!ResetEnds
  <2> QED BY <2>1, <2>2 DEF Eth!configure, Eth!configure_complete, Eth!Message
<1>6. TrafficInv'
  BY <1>3, <1>4, <1>5 DEF EthInv, TrafficInv
<1>7. MaxOthers + SendWindow < MaxChannels => Eth!ReceiverArmed'
  BY <1>4 DEF EthInv, Eth!ReceiverArmed
<1>8. SendWindow <= 1 => Buffered(lan)' /\ Eth!SentAsGiven'
  BY <1>3, <1>4 DEF EthInv, Eth!SentAsGiven, Buffered
<1> QED BY <1>2, <1>6, <1>7, <1>8 DEF EthInv

(* At power on. *)
LEMMA EthInit == ASSUME Eth!EthernetAssumption PROVE Eth!Init => EthInv
<1> SUFFICES ASSUME Eth!Init PROVE EthInv
  OBVIOUS
<1>1. ConfigInv
  BY ConfigInit
<1>2. MaxOthers \in Nat /\ SendWindow \in Nat
  BY DEF Eth!EthernetAssumption
<1>3. lan.tx = << >> /\ ~lan.NetUp /\ lan.rx = "none" /\ others = 0 /\ left = {}
  BY DEF Eth!Init
<1>4. used \in [frames : Nat, arrivals : Nat, errors : Nat]
  BY DEF Eth!Init
<1>5. TrafficInv
  BY <1>2, <1>3, <1>4 DEF TrafficInv
<1> QED BY <1>1, <1>3, <1>5 DEF EthInv, Eth!ReceiverArmed, Eth!SentAsGiven, Buffered

(* Every step. *)
LEMMA EthNext == ASSUME Eth!EthernetAssumption PROVE EthInv /\ [Eth!Next]_driver => EthInv'
<1> SUFFICES ASSUME EthInv, [Eth!Next]_driver PROVE EthInv'
  OBVIOUS
<1>1. CASE UNCHANGED driver
  <2>1. lan' = lan /\ message' = message /\ chip' = chip /\ left' = left /\ others' = others
        /\ used' = used
    BY <1>1 DEF driver
  <2>2. MaxOthers + SendWindow < MaxChannels => Eth!ReceiverArmed'
    BY <2>1 DEF EthInv, Eth!ReceiverArmed
  <2>3. SendWindow <= 1 => Buffered(lan') /\ Eth!SentAsGiven'
    BY <2>1 DEF EthInv, Eth!SentAsGiven
  <2> QED BY <2>1, <2>2, <2>3, EthTypes, EthKept
<1> QED BY <1>1, EthSend, EthSendDone, EthBusError, EthElsewhere, EthNetStart, EthReceive,
           EthConfig DEF Eth!Next

(* A step of the network is one of the driver, or leaves it alone. *)
LEMMA EthStep ==
  NetworkInit /\ [][NetworkNext]_<<component, vars, driver>> => []EthInv
<1> USE NetworkAssumption
<1>1. NetworkInit => EthInv
  BY EthInit DEF NetworkInit
<1>2. [NetworkNext]_<<component, vars, driver>> => [Eth!Next]_driver
  BY DEF NetworkNext
<1>3. EthInv /\ [NetworkNext]_<<component, vars, driver>> => EthInv'
  BY <1>2, EthNext
<1> QED BY <1>1, <1>3, PTL

(* configure_complete: once the driver says the chip is configured, every  *)
(* register holds what it was meant to hold, however long the chip takes   *)
(* over its resets.                                                        *)
THEOREM ChipIsConfigured == NetworkSpec => []ChipConfigured
<1>1. EthInv => ChipConfigured
  BY ConfigDone DEF EthInv, ChipConfigured
<1> QED BY <1>1, EthStep, PTL DEF NetworkSpec

(* receive_complete and LanReceiveAsync: while the network is up a request *)
(* is on the bus for the next frame, bus errors excepted, if the host has  *)
(* more channels than the other drivers and the stack's window take.       *)
THEOREM ReceiverIsArmed ==
  ASSUME MaxOthers + SendWindow < MaxChannels
  PROVE  NetworkSpec => []ReceiverArmed
<1>1. EthInv => ReceiverArmed
  BY DEF EthInv, ReceiverArmed
<1> QED BY <1>1, EthStep, PTL DEF NetworkSpec

(* LanDeviceSendFrame: what leaves the chip is the frame that was given,   *)
(* although there is one buffer for all, if the stack sends a frame only   *)
(* when the one before has left.                                           *)
THEOREM FramesLeaveAsGiven ==
  ASSUME SendWindow <= 1
  PROVE  NetworkSpec => []SentAsGiven
<1>1. EthInv => SentAsGiven
  BY DEF EthInv, SentAsGiven
<1> QED BY <1>1, EthStep, PTL DEF NetworkSpec
=============================================================================
