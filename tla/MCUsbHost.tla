----------------------------- MODULE MCUsbHost -----------------------------
(***************************************************************************)
(* Instances of UsbHost: the control endpoint and the interrupt endpoint   *)
(* of a keyboard behind a hub, the control endpoint of the hub, and the    *)
(* bulk endpoint of the network controller.                                *)
(***************************************************************************)
EXTENDS UsbHost

CONSTANTS kbd0, kbdIn, hub0, lan

MCTypeOf  == [e \in Endpoints |-> CASE e = lan -> "bulk"
                                     [] e = kbdIn -> "interrupt"
                                     [] OTHER -> "control"]
MCIsSplit == [e \in Endpoints |-> e \in {kbd0, kbdIn}]
=============================================================================
