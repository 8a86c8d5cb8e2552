--------------------------- MODULE UsbEnumeration ---------------------------
(***************************************************************************)
(* Enumeration of the USB devices: the root port (usb/rootport.c), device  *)
(* initialisation (usb/device.c), hubs (usb/hub.c) and the configuration   *)
(* of keyboard and mouse, on the request pool of usb/request.c.            *)
(*                                                                         *)
(* Every step sends one control message and returns; its completion runs   *)
(* the next step.  A step may call others before it returns, and frees its *)
(* own request at the end, so the handlers work on the whole state as one  *)
(* record.                                                                 *)
(***************************************************************************)
EXTENDS Integers, FiniteSets

CONSTANTS MaxRequests,  \* MAX_USB_REQUESTS
          Hubs,         \* the hubs that may be attached
          MaxHubs,      \* MAX_HUBS
          MaxPorts,     \* MAX_PORTS
          MaxAddress,   \* MAX_ADDRESS
          Topologies,   \* what may be plugged in: [root, ports, plugged, alternate] records
          MaxErrors,    \* bound: messages that end in a transaction error
          RootPort, NULL

Requests == 1 .. MaxRequests
Drivers  == {"keyboard", "mouse"}
Kinds    == Drivers \cup Hubs \cup
            {"none", "unsupported",
             "singleTT",                              \* a hub that configure refuses
             "badDevice", "badConfig", "badParse"}    \* descriptors that are not valid
Root     == <<RootPort, 0>>
Places   == {Root} \cup (Hubs \X (0 .. MaxPorts - 1))   \* of devices: hub and port

ASSUME EnumerationAssumption ==
  /\ MaxRequests \in Nat \ {0} /\ MaxHubs \in Nat /\ MaxPorts \in Nat /\ MaxAddress \in Nat
  /\ MaxErrors \in Nat
  /\ \A t \in Topologies : /\ t.root \in Kinds /\ t.ports \in [Hubs -> Nat]
                           /\ t.plugged \in [Hubs -> [0 .. MaxPorts - 1 -> Kinds]]
                           /\ t.alternate \in BOOLEAN  \* interfaces have an alternate setting

VARIABLES topology,
          s,       \* the software's state
          errors

vars == <<topology, s, errors>>

Kind(d)   == IF d = Root THEN topology.root ELSE topology.plugged[d[1]][d[2]]
Parent(d) == d[1]

(***************************************************************************)
(* claimed: requests in use; messages: control messages under way, with    *)
(* their completion routine; state and address of each device; devices: of *)
(* each hub port, none, a generic or a specific one; init_state and outcome *)
(* of each hub; the one device of each driver; hubIndex of HubAttach;      *)
(* configured: devices configured; crashed: a call through a null pointer. *)
(***************************************************************************)
Init ==
  /\ topology \in Topologies
  /\ s = [claimed     |-> {1},
          messages    |-> {[urb |-> 1, complete |-> "DeviceInitialize", param |-> Root]},
          state       |-> [d \in Places |-> IF d = Root THEN 1 ELSE 0],
          address     |-> [d \in Places |-> 0],
          nextAddress |-> 1,
          devices     |-> [h \in Hubs |-> [p \in 0 .. MaxPorts - 1 |-> "none"]],
          init_state  |-> [h \in Hubs |-> 0],
          outcome     |-> [h \in Hubs |-> "none"],
          driver      |-> [k \in Drivers |-> [at |-> NULL, state |-> 0, complete |-> NULL]],
          hubIndex    |-> 0,
          configured  |-> {},
          crashed     |-> "no"]
  /\ errors = 0

-----------------------------------------------------------------------------
(* FreeRequest; NULL is no request. *)
FreeRequest(t, urb) == [t EXCEPT !.claimed = @ \ {urb}]

(* HostEndpointControlMessage: fails when no request is unused. *)
CanSend(t) == t.claimed # Requests

HostEndpointControlMessage(t, routine, p) ==
  LET urb == CHOOSE r \in Requests \ t.claimed : \A q \in Requests \ t.claimed : r <= q
  IN  [t EXCEPT !.claimed = @ \cup {urb},
                !.messages = @ \cup {[urb |-> urb, complete |-> routine, param |-> p]}]

(* What DeviceInitialize requires before it sends the message of its state. *)
Valid(t, d) == CASE t.state[d] = 1 -> Kind(d) # "badDevice"
                 [] t.state[d] = 2 -> t.nextAddress <= MaxAddress
                 [] t.state[d] = 4 -> Kind(d) # "badConfig"
                 [] OTHER          -> TRUE

(* Mutant of AssignAddress: the next address is not advanced. *)
AssignAddress_same(t, d) == [t EXCEPT !.address[d] = t.nextAddress]

(* STATE_GET_CONFIGURATION_LENGTH: SET_ADDRESS has been answered. *)
AssignAddress(t, d) == [t EXCEPT !.address[d] = t.nextAddress, !.nextAddress = @ + 1]

(***************************************************************************)
(* DeviceInitialize, by the state of the device.                           *)
(***************************************************************************)
DeviceInitialize(t, d, urb) ==
  LET n == t.state[d]
      f == FreeRequest(t, urb)
      g == IF n = 3 THEN AssignAddress(f, d) ELSE f
      routine == IF n = 4 THEN "initialize_complete" ELSE "DeviceInitialize"
  IN  IF Valid(t, d) /\ CanSend(g)
      THEN [HostEndpointControlMessage(g, routine, d) EXCEPT !.state[d] = (n + 1) % 5]
      ELSE [g EXCEPT !.state[d] = 0]

(***************************************************************************)
(* DeviceCreate: a driver takes over the device.  Keyboard and mouse have  *)
(* a single device structure, copied over with its completion routine.     *)
(***************************************************************************)
IsHub(k) == k \in Hubs \cup {"singleTT"}

HubAttach(t) == t.hubIndex <= MaxHubs

Created(t, d) == IF IsHub(Kind(d)) THEN HubAttach(t) ELSE Kind(d) \in Drivers

DeviceCreate(t, d) ==
  CASE Kind(d) \in Drivers ->
         [t EXCEPT !.driver[Kind(d)] = [at |-> d, state |-> 0, complete |-> Parent(d)]]
    [] Kind(d) \in Hubs    ->
         [t EXCEPT !.hubIndex = @ + 1, !.init_state[Kind(d)] = 0]
    [] Kind(d) = "singleTT" -> [t EXCEPT !.hubIndex = @ + 1]

(* configure of the driver, with DeviceConfigure: fails, or sends a message. *)
Configures(t, d) == Kind(d) # "singleTT" /\ CanSend(t)

configure(t, d) == HostEndpointControlMessage(t, "configure_complete", Kind(d))

-----------------------------------------------------------------------------
(***************************************************************************)
(* enumerate_ports_complete of hub h with init_state i.  Going back to     *)
(* begin is a call of itself; urb is 0 there if it was freed.              *)
(***************************************************************************)
NextMessage(t, h) ==
  IF CanSend(t)
  THEN [HostEndpointControlMessage(t, "enumerate_ports_complete", h) EXCEPT !.init_state[h] = @ + 1]
  ELSE [t EXCEPT !.init_state[h] = 0]

NextState(t, h) == [t EXCEPT !.init_state[h] = @ + 1]

(* The port that the final loop comes to in state i, from high to low. *)
ConfigurePort(h, i) ==
  LET n == topology.ports[h]
      j == i - (n + 1) * 4
  IN  n - 1 - (IF j < 0 THEN 0 ELSE j)

RECURSIVE enumerate_ports_complete(_, _, _)
enumerate_ports_complete(t, h, urb) ==
  LET i     == t.init_state[h]
      ports == topology.ports[h]
      step  == (i - ports) % 4
      f     == IF i >= ports /\ step = 0 THEN t ELSE FreeRequest(t, urb)
      u     == IF i >= ports /\ step = 0 THEN urb ELSE NULL
      n     == (i - ports) \div 4
      q     == ConfigurePort(h, i)
  IN  CASE i < ports \/ (n < ports /\ step < 3) -> NextMessage(f, h)
        [] i >= ports /\ n < ports /\ step = 3 ->
             IF topology.plugged[h][n] = "none"
             THEN enumerate_ports_complete(NextState(f, h), h, u)
             ELSE NextState(DeviceInitialize([f EXCEPT !.devices[h][n] = "generic",
                                                       !.state[<<h, n>>] = 0],
                                             <<h, n>>, NULL), h)
        [] i >= ports /\ n >= ports /\ i < (ports + 1) * 4 - 1 ->
             [f EXCEPT !.init_state[h] = 0, !.outcome[h] = "failed"]
        [] i >= ports /\ n >= ports /\ i >= (ports + 1) * 4 - 1 ->
             CASE q < 0 -> [f EXCEPT !.init_state[h] = 0, !.outcome[h] = "complete"]
               [] q >= 0 /\ f.devices[h][q] = "none" ->
                    enumerate_ports_complete(NextState(f, h), h, u)
               [] q >= 0 /\ f.devices[h][q] # "none" /\ ~Created(f, <<h, q>>) ->
                    enumerate_ports_complete(
                      NextState([f EXCEPT !.devices[h][q] = "none"], h), h, u)
               [] OTHER ->
                    LET c == [DeviceCreate(f, <<h, q>>) EXCEPT !.devices[h][q] = "specific"]
                    IN  IF f.devices[h][q] = "specific" /\ Kind(<<h, q>>) \in Drivers
                        THEN [c EXCEPT !.crashed = "released"]  \* the driver's own device was released
                        ELSE IF Configures(c, <<h, q>>)
                        THEN NextState(configure(c, <<h, q>>), h)
                        ELSE enumerate_ports_complete(NextState(c, h), h, u)

(***************************************************************************)
(* configure_complete of a hub, which starts the enumeration of its ports. *)
(***************************************************************************)
HubConfigureComplete(t, h, urb) ==
  LET f == FreeRequest(t, urb)
      n == f.init_state[h]
      m == HostEndpointControlMessage(f, "configure_complete", h)
  IN  CASE n = 0 /\ topology.alternate -> IF CanSend(f) THEN [m EXCEPT !.init_state[h] = 1] ELSE f
        [] n = 1 \/ (n = 0 /\ ~topology.alternate) ->
             IF CanSend(f) THEN [m EXCEPT !.init_state[h] = 2] ELSE [f EXCEPT !.init_state[h] = 0]
        [] OTHER ->
             IF topology.ports[h] <= MaxPorts /\ CanSend(f)
             THEN [HostEndpointControlMessage(f, "enumerate_ports_complete", h)
                     EXCEPT !.init_state[h] = 0]
             ELSE [f EXCEPT !.init_state[h] = 0]

(* Mutant of CallComplete: the hub is not told. *)
CallComplete_not(t, p) == t

(***************************************************************************)
(* The completion routine of a driver's device, called with no request:    *)
(* the hub's, or that of the root port, which has no device to go on with. *)
(***************************************************************************)
CallComplete(t, p) ==
  CASE p = NULL     -> t
    [] p = RootPort -> [t EXCEPT !.crashed = "parent"]
    [] OTHER        -> enumerate_ports_complete(t, p, NULL)

(***************************************************************************)
(* configure_complete of keyboard and mouse.  The completion routine is    *)
(* cleared after it was called.                                            *)
(***************************************************************************)
DriverConfigureComplete(t, k, urb) ==
  LET f == FreeRequest(t, urb)
      n == f.driver[k].state
      m == HostEndpointControlMessage(f, "configure_complete", k)
  IN  CASE n = 0 /\ topology.alternate -> IF CanSend(f) THEN [m EXCEPT !.driver[k].state = 1] ELSE f
        [] n = 2 -> [CallComplete([f EXCEPT !.driver[k].state = 0,
                                            !.configured = @ \cup {f.driver[k].at}],
                                  f.driver[k].complete)
                       EXCEPT !.driver[k].complete = NULL]
        [] OTHER ->
             IF CanSend(f) THEN [m EXCEPT !.driver[k].state = 2]
                           ELSE [f EXCEPT !.driver[k].state = 0]

(* initialize_complete of the root port. *)
RootInitializeComplete(t, urb) ==
  LET c == DeviceCreate(t, Root)
  IN  FreeRequest(IF ~Created(t, Root) THEN t
                  ELSE IF Configures(c, Root) THEN configure(c, Root)
                  ELSE c, urb)

(* Mutant of initialize_complete: the request is freed before the callback. *)
initialize_complete_early(t, d, urb) ==
  LET f == FreeRequest(t, urb)
  IN  IF Kind(d) = "badParse" THEN f
      ELSE FreeRequest(IF d = Root THEN RootInitializeComplete(f, urb)
                       ELSE enumerate_ports_complete(f, d[1], urb), urb)

(* initialize_complete of device.c. *)
initialize_complete(t, d, urb) ==
  FreeRequest(CASE Kind(d) = "badParse"              -> t
                [] Kind(d) # "badParse" /\ d = Root -> RootInitializeComplete(t, urb)
                [] OTHER                              -> enumerate_ports_complete(t, d[1], urb),
              urb)

-----------------------------------------------------------------------------
(* RequestCallCompletionRoutine for a message that has been answered. *)
Answered(m) ==
  LET t == [s EXCEPT !.messages = @ \ {m}] IN
    /\ s.crashed = "no"
    /\ s' = CASE m.complete = "DeviceInitialize"         -> DeviceInitialize(t, m.param, m.urb)
              [] m.complete = "initialize_complete"      -> initialize_complete(t, m.param, m.urb)
              [] m.complete = "enumerate_ports_complete" ->
                   enumerate_ports_complete(t, m.param, m.urb)
              [] m.complete = "configure_complete" /\ m.param \in Hubs ->
                   HubConfigureComplete(t, m.param, m.urb)
              [] OTHER -> DriverConfigureComplete(t, m.param, m.urb)
    /\ UNCHANGED <<topology, errors>>

(* A transaction error without splits: the completion is never called. *)
TransactionError(m) ==
  /\ s.crashed = "no" /\ errors < MaxErrors
  /\ errors' = errors + 1
  /\ s' = [s EXCEPT !.messages = @ \ {m}]
  /\ UNCHANGED topology

Next ==
  \/ \E m \in s.messages : Answered(m)
  \/ \E m \in s.messages : TransactionError(m)

Spec == Init /\ [][Next]_vars /\ WF_vars(\E m \in s.messages : Answered(m))

-----------------------------------------------------------------------------
(***************************************************************************)
(* Shape of the state.                                                     *)
(***************************************************************************)
TypeOK ==
  /\ s.claimed \subseteq Requests
  /\ \A m \in s.messages : m.urb \in Requests
  /\ s.state \in [Places -> 0 .. 4]
  /\ s.address \in [Places -> 0 .. MaxAddress]
  /\ s.nextAddress \in 1 .. MaxAddress + 1
  /\ s.devices \in [Hubs -> [0 .. MaxPorts - 1 -> {"none", "generic", "specific"}]]
  /\ s.init_state \in [Hubs -> 0 .. 5 * MaxPorts + 4]
  /\ s.outcome \in [Hubs -> {"none", "failed", "complete"}]
  /\ s.driver \in [Drivers -> [at : Places \cup {NULL}, state : 0 .. 2,
                               complete : Hubs \cup {RootPort, NULL}]]
  /\ s.configured \subseteq Places
  /\ errors \in 0 .. MaxErrors

(***************************************************************************)
(* "Find and reserve an unused USB Request Buffer": the request of a       *)
(* message under way is reserved, so that no other message gets it.        *)
(***************************************************************************)
InFlightReserved ==
  /\ \A m \in s.messages : m.urb \in s.claimed
  /\ \A m, n \in s.messages : m.urb = n.urb => m = n

(***************************************************************************)
(* No two devices get the same address, however their initialisations      *)
(* follow each other.                                                      *)
(***************************************************************************)
UniqueAddress ==
  \A d, e \in Places : d # e /\ s.address[d] # 0 => s.address[d] # s.address[e]

(***************************************************************************)
(* Of the requests that enumeration claims only the one that powered the   *)
(* last port of a hub is not given back, unless a message was lost.        *)
(***************************************************************************)
OneLostPerHub ==
  Cardinality(s.claimed \ {m.urb : m \in s.messages}) <= s.hubIndex + errors

(***************************************************************************)
(* NewRequest and FreeRequest balance: the request of a message under way  *)
(* is nobody else's, and only those of OneLostPerHub are never freed.      *)
(***************************************************************************)
RequestsAccounted == InFlightReserved /\ OneLostPerHub

(***************************************************************************)
(* Enumeration reaches everything: where each device has valid descriptors *)
(* and there is an address for each, every device that has a driver is     *)
(* configured in the end, unless a message was lost.  The boards checked   *)
(* have hubs of four ports, a second hub only in port 0, one keyboard and  *)
(* one mouse at most and no unknown device in the highest port.            *)
(***************************************************************************)
Reached(d) == d = Root \/ \E e \in Places : Kind(e) = d[1] /\ (e = Root \/ Kind(Root) = e[1])

Usable ==
  LET attached == {d \in Places : Reached(d) /\ Kind(d) # "none"}
  IN  /\ Cardinality(attached) <= MaxAddress
      /\ \A d \in attached : Kind(d) \notin {"badDevice", "badConfig", "badParse"}

EveryDeviceConfigured ==
  Usable => <>(\/ errors > 0
               \/ \A d \in Places : Reached(d) /\ Kind(d) \in Drivers => d \in s.configured)

(***************************************************************************)
(* Claims of the code's comments, assertions and messages that do not hold. *)
(***************************************************************************)

(* "always free the last URB before sending a new one". *)
LastUrbFreed == s.claimed = {m.urb : m \in s.messages}

(* "Final state loop through ports will create specific devices from all   *)
(* attached devices."                                                      *)
SpecificFromAll ==
  \A h \in Hubs : s.outcome[h] # "none" =>
    \A p \in 0 .. MaxPorts - 1 : s.devices[h][p] # "generic"

(* "Perform the state machine to enumerate all USB hub ports": a hub whose *)
(* ports hold no other hub finishes.                                       *)
EnumerationFinishes ==
  \A h \in Hubs : (topology.root = h) => <>(s.outcome[h] # "none")

(* "assert (parent != 0)" of DeviceCreate. *)
ParentPresent == s.crashed # "parent"

(* "Maximum hubs exceeded." *)
HubsWithinArray == s.hubIndex <= MaxHubs
=============================================================================
