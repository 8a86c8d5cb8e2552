------------------------------- MODULE Ethernet -------------------------------
(***************************************************************************)
(* The LAN78xx Ethernet driver of the Raspberry Pi 3B+                     *)
(* (boards/peripherals/ethernet/lan78xx.c) and the glue between it and the *)
(* TCP/IP stack (network/netif/ethernetif.c).                              *)
(*                                                                         *)
(* The driver configures the chip by a chain of control messages, one      *)
(* register each, every one sent from the callback of the one before       *)
(* (configure_complete).  After the shell command net a bulk-in request is *)
(* kept on the bus for incoming frames: its callback gives the frame to    *)
(* the stack, which may send from there, and submits the request again.    *)
(* All outgoing frames leave from one buffer.                              *)
(*                                                                         *)
(* A register is the set of its bits that the driver touches, a frame is   *)
(* its number.  External: the chip, which ends a reset some time after it  *)
(* was asked for; the host controller, modelled in UsbHost, here a pool of *)
(* requests and of channels shared with the other drivers; the stack.      *)
(***************************************************************************)
EXTENDS Naturals, Sequences

CONSTANTS MaxRequests, MaxChannels, \* MAX_USB_REQUESTS and the host's channels
          MaxOthers,  \* requests other drivers have on the bus, at most
          SendWindow, \* frames the stack has on the way at a time, at most
          MaxPieces,  \* pbufs a frame is chained of, at most
          Dhcp,       \* LWIP_DHCP
          PhyHolds,   \* the chip is still resetting its PHY when first asked
          MaxFrames,  \* bound: frames sent
          MaxArrivals,\* bound: frames received
          MaxErrors   \* bound: transfers that fail on the bus

EthernetAssumption ==
    /\ {MaxRequests, MaxChannels, MaxOthers, SendWindow, MaxPieces} \subseteq Nat
    /\ {MaxFrames, MaxArrivals, MaxErrors} \subseteq Nat
    /\ {Dhcp, PhyHolds} \subseteq BOOLEAN
    /\ MaxOthers < MaxRequests /\ MaxOthers < MaxChannels

VARIABLES
    lan,     \* the driver and the glue: see Init
    message, \* the control message under way, or None
    chip,    \* its registers, and which of its parts is in reset
    arrived, \* frames in the chip's receive FIFO, by what is in them
    left,    \* frames that left the chip: << given, contents of the buffer >>
    others,  \* requests of other drivers on the bus
    used     \* the counters of the bounds

vars == << lan, message, chip, arrived, left, others, used >>

Registers == { "HW_CFG", "RX_ADDRL", "RX_ADDRH", "BURST_CAP", "BULK_IN_DLY", "USB_CFG0",
               "FCT_RX_FIFO_END", "FCT_TX_FIFO_END", "INT_STS", "FLOW", "FCT_FLOW",
               "RFE_CTL", "PMT_CTL", "MAC_CR", "PFILTER_LO", "PFILTER_HI", "INT_EP_CTL",
               "MAC_TX", "FCT_TX_CTL", "MAC_RX", "FCT_RX_CTL" }

(* After a reset. *)
Default == [r \in Registers |-> CASE r = "HW_CFG" -> {"MEF"}
                                  [] r = "USB_CFG0" -> {"BIR"}
                                  [] OTHER -> {}]

Read(r)            == [op |-> "read", at |-> r, on |-> {}, off |-> {}]
Write(r, on)       == [op |-> "write", at |-> r, on |-> on, off |-> {}]
Modify(r, on, off) == [op |-> "modify", at |-> r, on |-> on, off |-> off]
None               == Read("none")

(* What configure_complete does in its states 0 to 32: the register it     *)
(* reads into reg, writes, or writes from reg with bits set and cleared.   *)
Steps == <<
    Read("HW_CFG"), Modify("HW_CFG", {"LRST"}, {}), Read("HW_CFG"),
    Write("RX_ADDRL", {"address"}), Write("RX_ADDRH", {"address"}),
    Write("BURST_CAP", {"size"}), Write("BULK_IN_DLY", {"delay"}),
    Read("HW_CFG"), Modify("HW_CFG", {"LED0", "LED1"}, {"MEF"}),
    Read("USB_CFG0"), Modify("USB_CFG0", {"BCE"}, {"BIR"}),
    Write("FCT_RX_FIFO_END", {"size"}), Write("FCT_TX_FIFO_END", {"size"}),
    Write("INT_STS", {"clear"}), Write("FLOW", {}), Write("FCT_FLOW", {}),
    Read("RFE_CTL"), Modify("RFE_CTL", {"BCAST", "PERFECT"}, {}),
    Write("PMT_CTL", {"PHY_RST"}), Read("PMT_CTL"),
    Read("MAC_CR"), Modify("MAC_CR", {"AUTO_DUPLEX", "AUTO_SPEED"}, {}),
    Write("PFILTER_LO", {"address"}), Write("PFILTER_HI", {"address", "VALID"}),
    Write("INT_EP_CTL", {}),
    Read("MAC_TX"), Modify("MAC_TX", {"TXEN"}, {}),
    Read("FCT_TX_CTL"), Modify("FCT_TX_CTL", {"EN"}, {}),
    Read("MAC_RX"), Modify("MAC_RX", {"MAX_SIZE", "RX_EN"}, {}),
    Read("FCT_RX_CTL"), Modify("FCT_RX_CTL", {"EN"}, {}) >>

STATE_LOW_ADDRESS == 3
STATE_READ_MAC_CR == 20
STATE_FINISHED    == Len(Steps)

Init ==
    /\ lan = [configurationState |-> 0, reg |-> {}, configured |-> "no",
              Eth0 |-> FALSE, NetUp |-> FALSE, rx |-> "none", tx |-> << >>,
              TxBuffer |-> << >>, leaked |-> 0]
    /\ message = None
    /\ chip = [regs |-> Default, lrst |-> FALSE, phy |-> FALSE, asked |-> FALSE]
    /\ arrived = << >>
    /\ left = {}
    /\ others = 0
    /\ used = [frames |-> 0, arrivals |-> 0, errors |-> 0]

-----------------------------------------------------------------------------
(* The host: NewRequest and new_channel. *)

Requests(l) == others + l.leaked + Len(l.tx)
               + (IF l.rx = "none" THEN 0 ELSE 1) + (IF message = None THEN 0 ELSE 1)
Channels(l) == others + Len(l.tx)
               + (IF l.rx = "wait" THEN 1 ELSE 0) + (IF message = None THEN 0 ELSE 1)
RequestFree(l) == Requests(l) < MaxRequests
ChannelFree(l) == Channels(l) < MaxChannels

(* The other drivers of the bus: keyboard, mouse, hub. *)
OthersTake ==
    /\ others < MaxOthers /\ RequestFree(lan) /\ ChannelFree(lan)
    /\ others' = others + 1
    /\ UNCHANGED << lan, message, chip, arrived, left, used >>

OthersDone ==
    /\ others > 0
    /\ others' = others - 1
    /\ UNCHANGED << lan, message, chip, arrived, left, used >>

-----------------------------------------------------------------------------
(* Configuration.  configure, called by the enumeration, has the device    *)
(* configured by a control message whose callback is configure_complete.   *)
(* There is a request and a channel for each message: the other drivers    *)
(* never take all.                                                         *)

(* Mutants of Again: the chip's reset is not awaited; the condition of the *)
(* first wait is the other way round.                                      *)
Again_once(l) == l.configurationState = STATE_READ_MAC_CR /\ "PHY_RST" \notin l.reg

Again_unset(l) == \/ l.configurationState = STATE_LOW_ADDRESS /\ "LRST" \notin l.reg
                  \/ l.configurationState = STATE_READ_MAC_CR /\ "PHY_RST" \notin l.reg

(* LOW_ADDRESS and READ_MAC_CR first look at what was read. *)
Again(l) == \/ l.configurationState = STATE_LOW_ADDRESS /\ "LRST" \in l.reg
            \/ l.configurationState = STATE_READ_MAC_CR /\ "PHY_RST" \notin l.reg

configure_complete ==
    /\ lan.configured = "called"
    /\ IF lan.configurationState = STATE_FINISHED
         THEN /\ lan' = [lan EXCEPT !.Eth0 = TRUE, !.configurationState = 0,
                                    !.configured = "yes"]
              /\ UNCHANGED message
         ELSE LET again == Again(lan)
                  step  == Steps[lan.configurationState + IF again THEN 0 ELSE 1]
              IN  /\ message' = IF step.op = "modify"
                                  THEN Write(step.at, (lan.reg \ step.off) \cup step.on)
                                  ELSE step
                  /\ lan' = [lan EXCEPT
                        !.configured = "asked",
                        !.reg = IF step.op = "modify" THEN (@ \ step.off) \cup step.on ELSE @,
                        !.configurationState = IF again THEN @ ELSE @ + 1]
    /\ UNCHANGED << chip, arrived, left, others, used >>

configure ==
    /\ lan.configured = "no"
    /\ lan' = [lan EXCEPT !.configured = "called"]
    /\ UNCHANGED << message, chip, arrived, left, others, used >>

(* The chip carries the message out: read_reg's value is in reg before the *)
(* callback runs.  In reset it keeps nothing that is written to it.        *)
Message ==
    /\ message # None
    /\ lan' = [lan EXCEPT !.configured = "called",
                          !.reg = IF message.op = "read" THEN chip.regs[message.at] ELSE @]
    /\ chip' = IF message.op = "read"
                 THEN [chip EXCEPT !.asked = chip.phy /\ (@ \/ message.at = "PMT_CTL")]
                 ELSE [chip EXCEPT !.regs[message.at] = message.on,
                                   !.lrst = @ \/ "LRST" \in message.on,
                                   !.phy = @ \/ "PHY_RST" \in message.on]
    /\ message' = None
    /\ UNCHANGED << arrived, left, others, used >>

ResetEnds ==
    /\ \/ /\ chip.lrst
          /\ chip' = [chip EXCEPT !.lrst = FALSE, !.regs = Default]
       \/ /\ chip.phy /\ (PhyHolds => chip.asked)
          /\ chip' = [chip EXCEPT !.phy = FALSE, !.regs["PMT_CTL"] = {}]
    /\ UNCHANGED << lan, message, arrived, left, others, used >>

-----------------------------------------------------------------------------
(* Sending.  The frame is copied to the buffer whatever becomes of it, and *)
(* low_level_output does not look at the result.                           *)

(* Mutant of LanDeviceSendFrame: the frame is only copied when refused.    *)
LanDeviceSendFrame_late(l, frame) ==
    IF ~RequestFree(l) THEN l
    ELSE IF ChannelFree(l) THEN [l EXCEPT !.tx = Append(@, frame)]
    ELSE [l EXCEPT !.leaked = @ + 1, !.TxBuffer = frame]

LanDeviceSendFrame(l, frame) ==
    LET copied == [l EXCEPT !.TxBuffer = frame]
    IN  IF ~RequestFree(l) THEN copied
        ELSE IF ChannelFree(l) THEN [copied EXCEPT !.tx = Append(@, frame)]
        ELSE [copied EXCEPT !.leaked = @ + 1]

(* Every pbuf of the chain is sent by itself. *)
low_level_output(l, frame, pieces) ==
    LET sent[p \in 0..pieces] ==
            IF p = 0 THEN l ELSE LanDeviceSendFrame(sent[p - 1], << frame, p >>)
    IN  sent[pieces]

(* What the stack may send now: nothing, or one more frame. *)
Output(l) ==
    {[lan |-> l, frames |-> used.frames]} \cup
    {[lan |-> low_level_output(l, used.frames + 1, n), frames |-> used.frames + 1] :
        n \in {k \in 1..MaxPieces : used.frames < MaxFrames /\ Len(l.tx) + k <= SendWindow}}

Send ==
    /\ lan.NetUp
    /\ \E o \in Output(lan) :
          /\ o.frames > used.frames
          /\ lan' = o.lan
          /\ used' = [used EXCEPT !.frames = o.frames]
    /\ UNCHANGED << message, chip, arrived, left, others >>

(* transfer_complete: the buffer went out as it was by then. *)
SendDone ==
    /\ lan.tx # << >>
    /\ left' = left \cup {<< Head(lan.tx), lan.TxBuffer >>}
    /\ lan' = [lan EXCEPT !.tx = Tail(@)]
    /\ UNCHANGED << message, chip, arrived, others, used >>

-----------------------------------------------------------------------------
(* Receiving. *)

(* HostSubmitAsyncRequest ignores that there is no channel. *)
Submit(l) == [l EXCEPT !.rx = IF ChannelFree([l EXCEPT !.rx = "lost"]) THEN "wait" ELSE "lost"]

(* Mutant of NetStart: no request for incoming frames.                     *)
NetStart_deaf ==
    /\ ~lan.NetUp /\ lan.Eth0
    /\ lan' = [lan EXCEPT !.NetUp = TRUE]
    /\ UNCHANGED << message, chip, arrived, left, others, used >>

(* The command net: LanReceiveAsync fails while the driver has not been    *)
(* configured, and the command is to be given again.                       *)
NetStart ==
    /\ ~lan.NetUp /\ lan.Eth0
    /\ RequestFree(lan)
    /\ \E o \in Output(Submit(lan)) :
          /\ Dhcp \/ o.frames = used.frames
          /\ lan' = [o.lan EXCEPT !.NetUp = TRUE]
          /\ used' = [used EXCEPT !.frames = o.frames]
    /\ UNCHANGED << message, chip, arrived, left, others >>

(* What the callback makes of a transfer: too short, marked as an error or *)
(* empty, it is dropped; so is a frame NetIn finds no pbuf for or that is  *)
(* of a type the stack does not know.  The others the stack answers or     *)
(* not, before the request is submitted again.                             *)
Arrivals == { "short", "error", "empty", "unknown", "frame" }

(* Mutant of receive_complete: after an error the request is not submitted *)
(* again.                                                                  *)
receive_complete_dropped ==
    /\ lan.rx = "wait" /\ arrived # << >>
    /\ lan' = [lan EXCEPT !.rx = IF Head(arrived) = "error" THEN "done" ELSE "wait"]
    /\ arrived' = Tail(arrived)
    /\ UNCHANGED << message, chip, left, others, used >>

receive_complete ==
    /\ lan.rx = "wait" /\ arrived # << >>
    /\ LET done == [lan EXCEPT !.rx = "done"]
       IN  \E o \in Output(done), pbuf \in BOOLEAN :
              /\ (Head(arrived) = "frame" /\ pbuf) \/ o.frames = used.frames
              /\ lan' = Submit(o.lan)
              /\ used' = [used EXCEPT !.frames = o.frames]
    /\ arrived' = Tail(arrived)
    /\ UNCHANGED << message, chip, left, others >>

Arrive ==
    /\ used.arrivals < MaxArrivals
    /\ "EN" \in chip.regs["FCT_RX_CTL"]
    /\ \E what \in Arrivals : arrived' = Append(arrived, what)
    /\ used' = [used EXCEPT !.arrivals = @ + 1]
    /\ UNCHANGED << lan, message, chip, left, others >>

(* The controller reports an error: the channel is freed, the callback is  *)
(* not called and the request never released.                              *)
BusError ==
    /\ used.errors < MaxErrors
    /\ \/ lan.rx = "wait" /\ lan' = [lan EXCEPT !.rx = "failed"]
       \/ lan.tx # << >> /\ lan' = [lan EXCEPT !.tx = Tail(@), !.leaked = @ + 1]
    /\ used' = [used EXCEPT !.errors = @ + 1]
    /\ UNCHANGED << message, chip, arrived, left, others >>

Next == \/ configure \/ configure_complete \/ Message \/ ResetEnds
        \/ OthersTake \/ OthersDone \/ NetStart
        \/ Send \/ SendDone \/ Arrive \/ receive_complete \/ BusError

(* The host task polls the controller, which completes what is on the bus; *)
(* the chip ends its resets; the user gives the command net until the      *)
(* network is up.                                                          *)
Fairness == /\ WF_vars(configure) /\ WF_vars(configure_complete) /\ WF_vars(Message)
            /\ WF_vars(ResetEnds) /\ WF_vars(NetStart)
            /\ WF_vars(SendDone) /\ WF_vars(receive_complete)

Spec == Init /\ [][Next]_vars /\ Fairness
-----------------------------------------------------------------------------
(* Once the driver says it is configured (Eth0), every register holds what *)
(* configure_complete meant it to hold: nothing was written while the chip *)
(* was still in reset and forgot it, and no read-modify-write undid an     *)
(* earlier one.                                                            *)
ChipConfigured ==
    lan.Eth0 =>
        /\ chip.regs["HW_CFG"] = {"LED0", "LED1"}
        /\ chip.regs["USB_CFG0"] = {"BCE"}
        /\ chip.regs["RFE_CTL"] = {"BCAST", "PERFECT"}
        /\ chip.regs["MAC_CR"] = {"AUTO_DUPLEX", "AUTO_SPEED"}
        /\ chip.regs["PFILTER_HI"] = {"address", "VALID"}
        /\ \A r \in {"RX_ADDRL", "RX_ADDRH", "PFILTER_LO"} : chip.regs[r] = {"address"}
        /\ "TXEN" \in chip.regs["MAC_TX"] /\ "RX_EN" \in chip.regs["MAC_RX"]
        /\ \A r \in {"FCT_TX_CTL", "FCT_RX_CTL"} : chip.regs[r] = {"EN"}

(* While the network is up there is always a request on the bus to take    *)
(* the next frame in: receive_complete gets its channel back although the  *)
(* stack sends from inside the callback, before the request is submitted   *)
(* again, and the result of the submission is ignored.  The exception is a *)
(* transfer that fails on the bus, after which nobody listens any more.    *)
ReceiverArmed == lan.NetUp => lan.rx \in {"wait", "failed"}

(* What leaves the chip is the frame that was given to LanDeviceSendFrame: *)
(* the only transmit buffer is not overwritten while it is being sent,     *)
(* refused and failed transfers included.                                  *)
SentAsGiven == \A frame \in left : frame[1] = frame[2]

(* The network comes up: no wait for a reset lasts for ever, and the       *)
(* command net in the end finds the driver configured.                     *)
NetworkComesUp == <>lan.NetUp

(* Every frame the chip has received reaches the stack or is dropped for a *)
(* reason: reception never stalls behind a bad frame, a missing pbuf or    *)
(* answers on their way, bus errors excepted.                              *)
FramesTakenIn == arrived # << >> ~> (arrived = << >> \/ lan.rx = "failed")

(* The MAC is configured only after the PHY reset, as the comments at      *)
(* STATE_CHECK_PHY_RESET and STATE_READ_MAC_CR have it: "Wait for HW reset *)
(* to complete", "If HW still resetting, reread without updating state".   *)
(* The condition there is the other way round.                             *)
PhyResetAwaited == message.at = "MAC_CR" => ~chip.phy
================================================================================
