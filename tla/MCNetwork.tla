------------------------------ MODULE MCNetwork ------------------------------
(***************************************************************************)
(* The network: the TFTP client (Tftp) and the Ethernet driver with its    *)
(* glue (Ethernet), the two ends of the TCP/IP stack.  What the driver     *)
(* loses is a fault of Tftp's network; no state is shared, so a behaviour  *)
(* is one of one of the two, the other being at rest.                      *)
(***************************************************************************)
EXTENDS Tftp

CONSTANTS MaxRequests, MaxChannels, MaxOthers, SendWindow, MaxPieces, Dhcp, PhyHolds,
          MaxFrames, MaxArrivals, MaxErrors

VARIABLES component, lan, message, chip, arrived, left, others, used

Eth == INSTANCE Ethernet

ASSUME NetworkAssumption == Eth!EthernetAssumption

driver == <<lan, message, chip, arrived, left, others, used>>

NetworkInit == component \in {"ethernet", "tftp"} /\ Init /\ Eth!Init

NetworkNext ==
  /\ UNCHANGED component
  /\ \/ component = "tftp" /\ Next /\ UNCHANGED driver
     \/ component = "ethernet" /\ Eth!Next /\ UNCHANGED vars

(* The fairness of Tftp and of Ethernet, each where it runs. *)
NetworkFairness ==
  /\ WF_vars(component = "tftp" /\ Tftp)
  /\ WF_vars(component = "tftp" /\ tftpGet)
  /\ WF_vars(component = "tftp" /\ TimerExpires)
  /\ WF_vars(component = "tftp" /\ ServerRRQ)
  /\ \A p \in Ports : /\ WF_vars(component = "tftp" /\ ServerACK(p))
                      /\ WF_vars(component = "tftp" /\ ServerResends(p))
  /\ \A m \in Messages : WF_vars(component = "tftp" /\ tftp_recv(m))
  /\ WF_driver(component = "ethernet" /\ Eth!configure)
  /\ WF_driver(component = "ethernet" /\ Eth!configure_complete)
  /\ WF_driver(component = "ethernet" /\ Eth!Message)
  /\ WF_driver(component = "ethernet" /\ Eth!ResetEnds)
  /\ WF_driver(component = "ethernet" /\ Eth!NetStart)
  /\ WF_driver(component = "ethernet" /\ Eth!SendDone)
  /\ WF_driver(component = "ethernet" /\ Eth!receive_complete)

NetworkSpec == NetworkInit /\ [][NetworkNext]_<<component, vars, driver>> /\ NetworkFairness

-----------------------------------------------------------------------------
(* configure_complete: a chip said to be configured holds every setting.   *)
ChipConfigured == Eth!ChipConfigured

(* receive_complete: while the network is up a request waits for frames.   *)
ReceiverArmed == Eth!ReceiverArmed

(* LanDeviceSendFrame: the transmit buffer is not overwritten on its way.  *)
SentAsGiven == Eth!SentAsGiven

(* configure_complete, NetStart: the network comes up. *)
NetworkComesUp == component = "ethernet" => Eth!NetworkComesUp

(* receive_complete, NetIn: reception never stalls, bus errors excepted. *)
FramesTakenIn == Eth!FramesTakenIn
=============================================================================
