------------------------------ MODULE UsbHost ------------------------------
(***************************************************************************)
(* The DesignWare USB host controller driver, boards/peripherals/dwc, and  *)
(* the request pool of usb/request.c.                                      *)
(*                                                                         *)
(* A request (URB) is taken from Requests, attached to an endpoint and     *)
(* submitted.  A control request goes through two or three stages; each    *)
(* stage takes a host channel and a slot of StageData, and gives both back *)
(* before the completion routine, which is HostSubmitAsyncRequest itself   *)
(* until the last stage, is called.  A device behind a hub that is not     *)
(* high speed is reached by split transactions.                            *)
(*                                                                         *)
(* The controller is external: while a channel is enabled it interrupts    *)
(* with a result.  process_interrupt calls process_channel_interrupt for   *)
(* each channel in turn; as no other code runs in between, handling one    *)
(* channel is one step.                                                    *)
(***************************************************************************)
EXTENDS Integers, FiniteSets

CONSTANTS MaxRequests,  \* MAX_USB_REQUESTS: size of Requests and of StageData
          MaxChannels,  \* host->channels, read from HW_CFG2
          Endpoints, TypeOf, IsSplit,
          MaxPackets,   \* bound: the most packets of a stage
          Tries,        \* tries of a complete split, 3
          NULL

Urbs     == 1 .. MaxRequests
Slots    == 1 .. MaxRequests
Channels == 1 .. MaxChannels
Types    == {"control", "bulk", "interrupt"}
Kinds    == {"in", "out", "none", "data"}  \* "none": control without data; "data": not control
PIDs     == {"Setup", "Data0", "Data1"}

StageStates == {"NoSplitTransfer", "StartSplit", "CompleteSplit", "PeriodicDelay"}
SubStates   == {"WaitForChannelDisable", "WaitForTransactionComplete"}

ASSUME HostAssumption ==
  /\ MaxRequests \in Nat \ {0} /\ MaxChannels \in Nat \ {0}
  /\ MaxPackets \in Nat \ {0} /\ Tries \in Nat \ {0}
  /\ TypeOf \in [Endpoints -> Types]
  /\ IsSplit \in [Endpoints -> BOOLEAN]
  /\ NULL \notin Endpoints \cup Nat

VARIABLES endpoint,   \* endpoint[r]: of request r, NULL when r is free
          kind,       \* kind[r]: direction and data of the request
          context,    \* context[r]: the stage r is in, as HostSubmitAsyncRequest counts
          status,     \* status[r]: 0, 1 (success) or 2 (an error of the controller)
          failed,     \* failed[r]: some stage of r has failed
          channelAllocated,
          stageData,  \* stageData[c]: slot of the transfer on channel c, or NULL
          StageData,  \* the slots
          delayed,    \* slots whose stage_interval timer is pending
          enabled,    \* HC_CHAR_EN of each channel
          unmasked,   \* channels whose HC_INT_MSK lets interrupts through
          nextPID, clean    \* of each endpoint; clean: no transaction has failed there

request == <<endpoint, kind, context, status, failed>>
host    == <<channelAllocated, stageData, StageData, delayed, enabled, unmasked>>
vars    == <<request, host, nextPID, clean>>

FreeSlot == [urb |-> NULL, channel |-> NULL, state |-> "NoSplitTransfer",
             subState |-> "WaitForChannelDisable", packets |-> 0, tries |-> 0]

Least(S) == CHOOSE x \in S : \A y \in S : x <= y

FreeUrbs      == {r \in Urbs : endpoint[r] = NULL}
FreeSlots(sd) == {s \in Slots : sd[s].urb = NULL}
InProgress(r) == \E s \in Slots : StageData[s].urb = r
IsPeriodic(e) == TypeOf[e] = "interrupt"
LastStage(k)  == CASE k \in {"in", "out"} -> 2
                   [] k = "none"          -> 1
                   [] OTHER               -> 0
StatusStage(k, n) == k # "data" /\ n = LastStage(k)

(* RequestInit, host_attach and initialize_core. *)
Init ==
  /\ endpoint = [r \in Urbs |-> NULL]
  /\ kind = [r \in Urbs |-> "data"]
  /\ context = [r \in Urbs |-> 0]
  /\ status = [r \in Urbs |-> 0]
  /\ failed = [r \in Urbs |-> FALSE]
  /\ channelAllocated = {}
  /\ stageData = [c \in Channels |-> NULL]
  /\ StageData = [s \in Slots |-> FreeSlot]
  /\ delayed = {}
  /\ enabled = [c \in Channels |-> FALSE]
  /\ unmasked = {}
  /\ nextPID = [e \in Endpoints |-> IF TypeOf[e] = "control" THEN "Setup" ELSE "Data0"]
  /\ clean = [e \in Endpoints |-> TRUE]

(***************************************************************************)
(* The handlers below work on the host's state as a record, as a handler   *)
(* gives back a channel and a slot before it takes others.                 *)
(***************************************************************************)
Host == [alloc |-> channelAllocated, sd |-> stageData, slots |-> StageData,
         en |-> enabled, um |-> unmasked]

HostBecomes(h) ==
  /\ channelAllocated' = h.alloc /\ stageData' = h.sd /\ StageData' = h.slots
  /\ enabled' = h.en /\ unmasked' = h.um

(* An interrupt of channel c has been taken: HC_INT_MSK is cleared. *)
Taken(c, en) == [Host EXCEPT !.um = @ \ {c}, !.en[c] = en]

(* disable_channel_interrupt, free_stage_data and free_channel. *)
Freed(h, c) == [h EXCEPT !.alloc = @ \ {c}, !.sd[c] = NULL, !.slots[h.sd[c]] = FreeSlot]

(* Mutant of start_transaction: HC_INT_MSK is not set again after a disable. *)
start_transaction_masked(h, c, x) ==
  [h EXCEPT !.slots[h.sd[c]] = [x EXCEPT !.subState = IF h.en[c]
                                                      THEN "WaitForChannelDisable"
                                                      ELSE "WaitForTransactionComplete"],
            !.en[c] = ~h.en[c],
            !.um = IF h.en[c] THEN @ ELSE @ \cup {c}]

(* start_transaction on channel c: a channel still enabled is first disabled. *)
start_transaction(h, c, x) ==
  [h EXCEPT !.slots[h.sd[c]] = [x EXCEPT !.subState = IF h.en[c]
                                                      THEN "WaitForChannelDisable"
                                                      ELSE "WaitForTransactionComplete"],
            !.en[c] = ~h.en[c],
            !.um = @ \cup {c}]

(* TransferStageDataAttach: the packets of a stage. *)
Packets(k, n) == IF k = "data" \/ (n = 1 /\ k # "none") THEN 1 .. MaxPackets ELSE {1}

(* transfer_stage_async for stage n of request r on endpoint e. *)
transfer_stage_async(h, r, e, k, n) ==
  IF h.alloc = Channels
  THEN HostBecomes(h)
  ELSE LET c == Least(Channels \ h.alloc)
           s == Least(FreeSlots(h.slots))
           g == [h EXCEPT !.alloc = @ \cup {c}, !.sd[c] = s]
       IN  \E p \in Packets(k, n) :
             HostBecomes(start_transaction(g, c,
               [urb |-> r, channel |-> c, packets |-> p, tries |-> 0,
                state |-> IF IsSplit[e] THEN "StartSplit" ELSE "NoSplitTransfer",
                subState |-> "WaitForChannelDisable"]))

(* NewRequest, RequestAttach and HostSubmitAsyncRequest with context 0. *)
Submit(e, k) ==
  /\ FreeUrbs # {}
  /\ LET r == Least(FreeUrbs) IN
       /\ endpoint' = [endpoint EXCEPT ![r] = e]
       /\ kind' = [kind EXCEPT ![r] = k]
       /\ context' = [context EXCEPT ![r] = 0]
       /\ status' = [status EXCEPT ![r] = 0]
       /\ failed' = [failed EXCEPT ![r] = FALSE]
       /\ transfer_stage_async(Host, r, e, k, 0)
  /\ UNCHANGED <<delayed, nextPID, clean>>

(***************************************************************************)
(* The clients issue the next control message of a device, or start the    *)
(* interrupt request of a keyboard or mouse, only when the previous one is *)
(* done; network frames are sent at any time.                              *)
(***************************************************************************)
HostEndpointControlMessage(e, k) ==
  /\ TypeOf[e] = "control" /\ k # "data"
  /\ \A r \in Urbs : endpoint[r] # e
  /\ Submit(e, k)

HostEndpointTransfer(e) ==
  /\ TypeOf[e] # "control"
  /\ TypeOf[e] = "interrupt" => \A r \in Urbs : endpoint[r] # e
  /\ Submit(e, "data")

(***************************************************************************)
(* The end of a stage of request r, with status st: its slot and channel c *)
(* are given back, then the completion routine is called.  That is         *)
(* HostSubmitAsyncRequest, for the next stage, until the last one; then    *)
(* the client's, which frees the request, except that keyboard, mouse and  *)
(* network receiver submit theirs again.                                   *)
(***************************************************************************)
HostSubmitAsyncRequest(h, r, e) ==
  /\ context[r] < LastStage(kind[r])
  /\ context' = [context EXCEPT ![r] = @ + 1]
  /\ status' = [status EXCEPT ![r] = 0]
  /\ UNCHANGED <<endpoint, kind>>
  /\ transfer_stage_async(h, r, e, kind[r], context[r] + 1)

ClientFrees(h, r, e, st) ==
  /\ context[r] = LastStage(kind[r]) /\ ~IsPeriodic(e)
  /\ endpoint' = [endpoint EXCEPT ![r] = NULL]
  /\ status' = [status EXCEPT ![r] = st]
  /\ kind' = [kind EXCEPT ![r] = "data"]   \* of no meaning until the next RequestAttach,
  /\ context' = [context EXCEPT ![r] = 0]  \* like the rest of a free request
  /\ HostBecomes(h)

ClientResubmits(h, r, e) ==
  /\ context[r] = LastStage(kind[r]) /\ TypeOf[e] # "control"
  /\ status' = [status EXCEPT ![r] = 0]
  /\ UNCHANGED <<endpoint, kind, context>>
  /\ transfer_stage_async(h, r, e, kind[r], 0)

CallCompletion(h, r, e, st) ==
  \/ HostSubmitAsyncRequest(h, r, e)
  \/ ClientFrees(h, r, e, st)
  \/ ClientResubmits(h, r, e)

(* Mutant of Complete: the channel is not given back. *)
CompleteKeepsChannel(c, h, r, e, st) ==
  CallCompletion([h EXCEPT !.sd[c] = NULL, !.slots[h.sd[c]] = FreeSlot], r, e, st)

Complete(c, h, r, e, st) == CallCompletion(Freed(h, c), r, e, st)

(* Mutant of EndpointSkipPID: the status stage toggles like the others. *)
EndpointTogglesPID(pid, p, statusStage) ==
  IF pid = "Setup" THEN "Data1"
  ELSE IF p % 2 = 0 THEN pid ELSE IF pid = "Data0" THEN "Data1" ELSE "Data0"

(* EndpointSkipPID after p packets. *)
EndpointSkipPID(pid, p, statusStage) ==
  CASE statusStage                   -> "Setup"
    [] ~statusStage /\ pid = "Setup" -> "Data1"
    [] OTHER -> IF p % 2 = 0 THEN pid ELSE IF pid = "Data0" THEN "Data1" ELSE "Data0"

SkipPID(r, e, p) ==
  nextPID' = [nextPID EXCEPT ![e] = EndpointSkipPID(@, p, StatusStage(kind[r], context[r]))]

Succeeded == UNCHANGED <<failed, clean>>

Failed(r, e) ==
  /\ failed' = [failed EXCEPT ![r] = TRUE]
  /\ clean' = [clean EXCEPT ![e] = FALSE]

(* The transfer on channel c waits for its interval: TimerSchedule. *)
PeriodicDelay(h, c, x) ==
  /\ HostBecomes([h EXCEPT !.slots[h.sd[c]] = [x EXCEPT !.state = "PeriodicDelay"]])
  /\ delayed' = delayed \cup {h.sd[c]}
  /\ UNCHANGED <<endpoint, kind, context, status>>

(* The transfer on channel c goes on with stage data x. *)
GoOn(h, c, x) ==
  /\ HostBecomes(start_transaction(h, c, x))
  /\ UNCHANGED <<endpoint, kind, context, status, delayed>>

(***************************************************************************)
(* process_channel_interrupt, by the state of the stage.  result is        *)
(* HC_INT(channel): COMP (transfer complete), ACK, NAK, NYET or ERR.       *)
(***************************************************************************)
NoSplitTransfer(h, c, x, r, e, result) ==
  \/ /\ result = "ERR"
     /\ HostBecomes(Freed(h, c))
     /\ status' = [status EXCEPT ![r] = 2]
     /\ Failed(r, e)
     /\ UNCHANGED <<endpoint, kind, context, delayed, nextPID>>
  \/ /\ result \in {"NAK", "NYET"} /\ IsPeriodic(e)
     /\ PeriodicDelay(h, c, x)
     /\ Succeeded /\ UNCHANGED nextPID
  \/ /\ result = "COMP"
     /\ Complete(c, h, r, e, 1)
     /\ \E p \in 1 .. x.packets : SkipPID(r, e, p)
     /\ Succeeded /\ UNCHANGED delayed

(***************************************************************************)
(* The frame schedulers.  A periodic one has a try less when the start     *)
(* split fell in microframe 5, and gives up on the first NAK.              *)
(***************************************************************************)
CompleteSplitTries(e) == IF IsPeriodic(e) THEN {Tries - 1, Tries} ELSE {Tries}

CompleteSplitFailed(x, e, result) == x.tries = 0 \/ (result = "NAK" /\ IsPeriodic(e))

StartSplit(h, c, x, r, e, result) ==
  \/ /\ result \in {"ERR", "NAK", "NYET"}
     /\ Complete(c, h, r, e, 0)
     /\ Failed(r, e)
     /\ UNCHANGED <<delayed, nextPID>>
  \/ /\ result = "ACK"
     /\ \E t \in CompleteSplitTries(e) :
          GoOn(h, c, [x EXCEPT !.state = "CompleteSplit", !.tries = t])
     /\ Succeeded /\ UNCHANGED nextPID

(* The complete split has ended with packets left. *)
NextSplit(h, c, x, e) ==
  IF IsPeriodic(e)
  THEN PeriodicDelay(h, c, x)
  ELSE GoOn(h, c, [x EXCEPT !.state = "StartSplit"])

CompleteSplit(h, c, x, r, e, result) ==
  \/ /\ result = "ERR"
     /\ Complete(c, h, r, e, 0)
     /\ Failed(r, e)
     /\ UNCHANGED <<delayed, nextPID>>
  \/ /\ result = "COMP"
     /\ SkipPID(r, e, 1)
     /\ Succeeded
     /\ IF x.packets = 1
        THEN Complete(c, h, r, e, 1) /\ UNCHANGED delayed
        ELSE NextSplit(h, c, [x EXCEPT !.packets = @ - 1], e)
  \/ /\ result \in {"NAK", "NYET"}
     /\ Succeeded /\ UNCHANGED nextPID
     /\ IF CompleteSplitFailed(x, e, result)
        THEN NextSplit(h, c, x, e)
        ELSE GoOn(h, c, [x EXCEPT !.tries = @ - 1])

Results == {"COMP", "ACK", "NAK", "NYET", "ERR"}

(* The channel is disabled as asked for, or its transaction only halted. *)
ChannelHalted(c, en) ==
  /\ c \in unmasked
  /\ GoOn(Taken(c, en), c, StageData[stageData[c]])
  /\ Succeeded /\ UNCHANGED nextPID

TransactionComplete(c, result, en) ==
  LET x == StageData[stageData[c]]
      r == x.urb
      e == endpoint[r]
      h == Taken(c, en)
  IN  /\ c \in unmasked /\ x.subState = "WaitForTransactionComplete"
      /\ \/ x.state = "NoSplitTransfer" /\ NoSplitTransfer(h, c, x, r, e, result)
         \/ x.state = "StartSplit" /\ StartSplit(h, c, x, r, e, result)
         \/ x.state = "CompleteSplit" /\ CompleteSplit(h, c, x, r, e, result)

(* Mutant of stage_interval: the transfer starts again while still in its delay. *)
stage_interval_same_state(s) ==
  /\ s \in delayed
  /\ delayed' = delayed \ {s}
  /\ HostBecomes(start_transaction(Host, StageData[s].channel, StageData[s]))
  /\ UNCHANGED <<request, nextPID, clean>>

(* The timer of the delayed transfer of slot s. *)
stage_interval(s) ==
  /\ s \in delayed
  /\ delayed' = delayed \ {s}
  /\ LET x == StageData[s] IN
       HostBecomes(start_transaction(Host, x.channel,
         [x EXCEPT !.state = IF IsSplit[endpoint[x.urb]] THEN "StartSplit"
                                                         ELSE "NoSplitTransfer"]))
  /\ UNCHANGED <<request, nextPID, clean>>

Next ==
  \/ \E e \in Endpoints, k \in Kinds : HostEndpointControlMessage(e, k)
  \/ \E e \in Endpoints : HostEndpointTransfer(e)
  \/ \E c \in Channels, en \in BOOLEAN : ChannelHalted(c, en)
  \/ \E c \in Channels, en \in BOOLEAN, result \in Results : TransactionComplete(c, result, en)
  \/ \E s \in Slots : stage_interval(s)

(***************************************************************************)
(* process_interrupt runs every 125 microseconds and timers fire; a device *)
(* that is asked again and again answers in the end, and a channel told to *)
(* halt does.                                                              *)
(***************************************************************************)
Acknowledges(c) ==
  /\ c \in unmasked /\ StageData[stageData[c]].state = "StartSplit"
  /\ TransactionComplete(c, "ACK", FALSE)

Answers(c) == c \in unmasked /\ TransactionComplete(c, "COMP", FALSE)

Halts(c) ==
  /\ c \in unmasked /\ StageData[stageData[c]].subState = "WaitForChannelDisable"
  /\ ChannelHalted(c, FALSE)

Fairness ==
  /\ \A c \in Channels : SF_vars(Acknowledges(c)) /\ SF_vars(Answers(c)) /\ SF_vars(Halts(c))
  /\ \A s \in Slots : WF_vars(stage_interval(s))

Spec == Init /\ [][Next]_vars /\ Fairness

-----------------------------------------------------------------------------
(***************************************************************************)
(* Shape of the state.                                                     *)
(***************************************************************************)
TypeOK ==
  /\ endpoint \in [Urbs -> Endpoints \cup {NULL}]
  /\ kind \in [Urbs -> Kinds]
  /\ context \in [Urbs -> 0 .. 2]
  /\ status \in [Urbs -> 0 .. 2]
  /\ failed \in [Urbs -> BOOLEAN]
  /\ channelAllocated \subseteq Channels
  /\ stageData \in [Channels -> Slots \cup {NULL}]
  /\ StageData \in [Slots -> [urb : Urbs \cup {NULL}, channel : Channels \cup {NULL},
                              state : StageStates, subState : SubStates,
                              packets : 0 .. MaxPackets, tries : 0 .. Tries]]
  /\ delayed \subseteq Slots
  /\ enabled \in [Channels -> BOOLEAN]
  /\ unmasked \subseteq Channels
  /\ nextPID \in [Endpoints -> PIDs]
  /\ clean \in [Endpoints -> BOOLEAN]

(***************************************************************************)
(* Channels, stage data and requests belong together one to one, through   *)
(* every completion that submits again: an allocated channel has a slot    *)
(* that knows it, with a request of its own that is in use, and every      *)
(* other slot is free.                                                     *)
(***************************************************************************)
OneToOne ==
  /\ \A c \in Channels : c \in channelAllocated <=> stageData[c] # NULL
  /\ \A c \in channelAllocated :
       /\ StageData[stageData[c]].channel = c
       /\ StageData[stageData[c]].urb \in Urbs
       /\ endpoint[StageData[stageData[c]].urb] # NULL
  /\ \A s \in Slots : StageData[s].urb # NULL =>
       \E c \in channelAllocated : stageData[c] = s
  /\ \A s, t \in Slots : StageData[s].urb # NULL /\ StageData[s].urb = StageData[t].urb => s = t

(***************************************************************************)
(* An interrupt always finds a transfer that waits for it, and the timer   *)
(* of a delayed transfer finds it in its delay: no callback acts on stage  *)
(* data that has been given to another request meanwhile.                  *)
(***************************************************************************)
CallbacksFindTransfer ==
  /\ unmasked \subseteq channelAllocated
  /\ \A c \in channelAllocated : c \in unmasked <=> stageData[c] \notin delayed
  /\ \A s \in Slots : s \in delayed <=>
       StageData[s].urb # NULL /\ StageData[s].state = "PeriodicDelay"

(***************************************************************************)
(* Both: channels, stage data, requests and what is to call back agree     *)
(* after every TransferStageAttach, completion and delay.                  *)
(***************************************************************************)
TransfersTracked == OneToOne /\ CallbacksFindTransfer

(***************************************************************************)
(* A request that has once been given a channel is not lost between its    *)
(* stages: one in use is in progress, or was refused when submitted, or    *)
(* failed.                                                                 *)
(***************************************************************************)
NotLostBetweenStages ==
  \A r \in Urbs : endpoint[r] # NULL =>
    InProgress(r) \/ context[r] = 0 \/ status[r] = 2

(***************************************************************************)
(* While no transaction of a control endpoint has failed, its next PID is  *)
(* Setup exactly when the next transfer is a setup stage.                  *)
(***************************************************************************)
SetupFirst ==
  \A e \in Endpoints : TypeOf[e] = "control" /\ clean[e] =>
    (nextPID[e] = "Setup" <=> \A r \in Urbs : endpoint[r] = e => context[r] = 0)

(***************************************************************************)
(* A control request that has a channel ends: the client gets it back, or  *)
(* it failed.                                                              *)
(***************************************************************************)
ControlEnds ==
  \A r \in Urbs :
    (endpoint[r] # NULL /\ kind[r] # "data" /\ InProgress(r)) ~> ~InProgress(r)

(***************************************************************************)
(* Claims of the comments and messages in host.c that do not hold.         *)
(***************************************************************************)

(* "complete is the callback to invoke upon completion": a request that is *)
(* not in progress has been given back.                                    *)
CompletionCalled ==
  \A r \in Urbs : endpoint[r] # NULL /\ ~InProgress(r) => status[r] # 2

(* "Returns: One (1) on success, negative if error": when                  *)
(* HostEndpointControlMessage returns 1 the request is under way.          *)
SuccessIsSubmitted ==
  [][\A r \in Urbs :
       endpoint[r] = NULL /\ endpoint'[r] # NULL /\ kind'[r] # "data" => InProgress(r)']_vars

(* "Complete split Transaction failed": the client is not told success.    *)
FailureIsReported ==
  [][\A r \in Urbs :
       endpoint[r] # NULL /\ endpoint'[r] = NULL /\ failed'[r] => status'[r] # 1]_vars
=============================================================================
