-------------------------- MODULE UsbTransferProofs --------------------------
(***************************************************************************)
(* For any number of requests, channels, endpoints and packets: channels,  *)
(* stage data and requests stay paired through every interrupt, timer and  *)
(* completion that submits again, and a request is not lost between two    *)
(* stages.                                                                 *)
(*                                                                         *)
(* A control request sends Setup first and only first.  SetupFirst is kept *)
(* because a control endpoint has one request, which is in one of its      *)
(* stages, and because only the data stage has more than one packet:       *)
(* EndpointSkipPID is called once in the others.                           *)
(***************************************************************************)
EXTENDS UsbHostProofs

(* The time each step may take. *)
USE SMTT(30), ZenonT(40)

(* RequestInit, host_attach and initialize_core establish the invariant. *)
LEMMA InitInv == Init => IInv
<1> SUFFICES ASSUME Init PROVE IInv
  OBVIOUS
<1>1. Host \in HostRecord
  BY DEF Init, Host, HostRecord, StageRecord, FreeSlot, StageStates, SubStates
<1>2. /\ \A s \in Slots : Host.slots[s].urb = NULL
      /\ \A c \in Channels : Host.sd[c] = NULL
      /\ Host.alloc = {} /\ Host.um = {} /\ delayed = {}
  BY DEF Init, Host, FreeSlot
<1>3. Paired(Host, endpoint) /\ Called(Host, delayed, {})
  BY <1>1, <1>2 DEF Paired, Called
<1>4. NotLostBetweenStages
  BY DEF Init, NotLostBetweenStages
<1> QED BY <1>3, <1>4 DEF Init, IInv

(* NewRequest, RequestAttach and the first HostSubmitAsyncRequest. *)
LEMMA SubmitInv ==
  ASSUME IInv, NEW e \in Endpoints, NEW k, Submit(e, k)
  PROVE  IInv'
<1> DEFINE r == Least(FreeUrbs)
<1>1. r \in Urbs /\ endpoint[r] = NULL
  <2>1. FreeUrbs \in SUBSET (1 .. MaxRequests) /\ FreeUrbs # {}
    BY DEF FreeUrbs, Urbs, Submit
  <2>2. r \in FreeUrbs
    BY <2>1, LeastIn, HostAssumption, Zenon
  <2> QED BY <2>2 DEF FreeUrbs
<1>2. /\ endpoint' = [endpoint EXCEPT ![r] = e] /\ context' = [context EXCEPT ![r] = 0]
      /\ status' = [status EXCEPT ![r] = 0] /\ transfer_stage_async(Host, r, e, k, 0)
      /\ delayed' = delayed
  BY DEF Submit
<1> HIDE DEF r
<1>3. Paired(Host, endpoint')
  BY <1>1, <1>2, NullApart, Zenon DEF IInv, Paired
<1>4. ~Busy(Host, r)
  <2>1. \A s \in Slots : Host.slots[s].urb # NULL => endpoint[Host.slots[s].urb] # NULL
    BY DEF IInv, Paired
  <2> QED BY <1>1, <2>1, NullApart DEF Busy
<1>5. FreeSlots(Host.slots) # {}
  BY <1>1, SlotForRequest DEF IInv
<1>6. endpoint'[r] # NULL
  BY <1>1, <1>2, NullApart DEF IInv
<1>7. /\ Paired(Host', endpoint') /\ Called(Host', delayed, {})
      /\ \A q \in Urbs : q # r => (InProgress(q)' <=> Busy(Host, q))
  <2>1. Called(Host, delayed, {})
    BY DEF IInv
  <2> QED BY <1>1, <1>2, <1>3, <1>4, <1>5, <1>6, <2>1, SubmitHolds, Zenon
<1>8. NotLostBetweenStages'
  BY <1>1, <1>2, <1>7, Zenon DEF IInv, NotLostBetweenStages, Busy, InProgress, Host
<1> QED BY <1>1, <1>2, <1>7, <1>8 DEF IInv

(* An interrupt that only says the channel is disabled or has halted. *)
LEMMA HaltedInv ==
  ASSUME IInv, NEW c \in Channels, NEW en \in BOOLEAN, ChannelHalted(c, en)
  PROVE  IInv'
<1>1. c \in unmasked /\ GoOn(Taken(c, en), c, StageData[stageData[c]])
  BY DEF ChannelHalted
<1>2. /\ Paired(Taken(c, en), endpoint) /\ c \in Taken(c, en).alloc
      /\ Taken(c, en).sd = stageData /\ Taken(c, en).slots = StageData
      /\ StageData[stageData[c]].state # "PeriodicDelay"
  BY <1>1, TakenHolds, Zenon
<1>3. StageData[stageData[c]] \in StageRecord /\ StageData[stageData[c]].channel = c
  BY <1>2, NullApart DEF Paired, HostRecord
<1> QED BY <1>1, <1>2, <1>3, GoOnHolds

(* process_channel_interrupt for a transaction: by the state of the stage  *)
(* it ends, goes on or waits.                                              *)
LEMMA TransactionInv ==
  ASSUME IInv, NEW c \in Channels, NEW en \in BOOLEAN, NEW result \in Results,
         TransactionComplete(c, result, en)
  PROVE  IInv'
<1> DEFINE x == StageData[stageData[c]]
           r == x.urb
           e == endpoint[r]
           h == Taken(c, en)
<1>1. c \in unmasked
  BY DEF TransactionComplete
<1>2. /\ Paired(h, endpoint) /\ Called(h, delayed, {c}) /\ c \in h.alloc
      /\ h.sd = stageData /\ h.slots = StageData /\ x.state # "PeriodicDelay"
  BY <1>1, TakenHolds
<1>3. x \in StageRecord /\ x.channel = c /\ r \in Urbs
  BY <1>2, NullApart DEF Paired, HostRecord
<1>4. \/ x.state = "NoSplitTransfer" /\ NoSplitTransfer(h, c, x, r, e, result)
      \/ x.state = "StartSplit" /\ StartSplit(h, c, x, r, e, result)
      \/ x.state = "CompleteSplit" /\ CompleteSplit(h, c, x, r, e, result)
  BY Zenon DEF TransactionComplete
<1>5. ASSUME NEW y \in StageRecord, y.urb = x.urb, y.channel = c, y.state # "PeriodicDelay",
             NextSplit(h, c, y, e)
      PROVE  IInv'
  <2>1. CASE PeriodicDelay(h, c, y)
    BY <1>1, <1>5, <2>1, DelayHolds
  <2>2. CASE GoOn(h, c, [y EXCEPT !.state = "StartSplit"])
    <3> DEFINE z == [y EXCEPT !.state = "StartSplit"]
    <3>1. z \in StageRecord /\ z.urb = y.urb /\ z.channel = y.channel /\ z.state # "PeriodicDelay"
      BY DEF StageRecord, StageStates
    <3> HIDE DEF z
    <3> QED BY <1>1, <1>5, <2>2, <3>1, GoOnHolds, Zenon DEF z
  <2> QED BY <1>5, <2>1, <2>2 DEF NextSplit
<1>6. CASE NoSplitTransfer(h, c, x, r, e, result)
  <2>1. CASE /\ HostBecomes(Freed(h, c)) /\ status' = [status EXCEPT ![r] = 2]
             /\ UNCHANGED <<endpoint, context, delayed>>
    <3>1. /\ Paired(Freed(h, c), endpoint) /\ Called(Freed(h, c), delayed, {})
          /\ \A q \in Urbs : q # r => (Busy(Freed(h, c), q) <=> Busy(h, q))
      BY <1>2, FreedHolds, Zenon
    <3>2. /\ Paired(Host', endpoint) /\ Called(Host', delayed, {})
          /\ \A q \in Urbs : InProgress(q)' <=> Busy(Freed(h, c), q)
      BY <2>1, <3>1, BecomesHolds, Zenon
    <3>3. \A q \in Urbs : q # r => (InProgress(q)' <=> InProgress(q))
      BY <1>2, <3>1, <3>2 DEF Busy, InProgress
    <3>4. NotLostBetweenStages'
      BY <1>3, <2>1, <3>3, Zenon DEF IInv, NotLostBetweenStages
    <3>5. UNCHANGED <<endpoint, context, delayed>>
      BY <2>1
    <3>6. status' \in [Urbs -> Int]
      <4>1. status \in [Urbs -> Int] /\ r \in Urbs
        BY <1>3 DEF IInv
      <4>2. status' = [status EXCEPT ![r] = 2]
        BY <2>1
      <4> HIDE DEF r
      <4> QED BY ONLY <4>1, <4>2
    <3>7. endpoint' \in [Urbs -> Endpoints \cup {NULL}] /\ context' \in [Urbs -> Int]
      BY <3>5 DEF IInv
    <3>8. Paired(Host', endpoint') /\ Called(Host', delayed', {})
      BY <3>2, <3>5
    <3> QED BY <3>4, <3>6, <3>7, <3>8 DEF IInv
  <2>2. CASE PeriodicDelay(h, c, x)
    BY <1>1, <1>3, <2>2, DelayHolds
  <2>3. CASE Complete(c, h, r, e, 1) /\ UNCHANGED delayed
    BY <1>1, <2>3, CompleteHolds
  <2> QED BY <1>6, <2>1, <2>2, <2>3, Zenon DEF NoSplitTransfer
<1>7. CASE StartSplit(h, c, x, r, e, result)
  <2>1. CASE Complete(c, h, r, e, 0) /\ UNCHANGED delayed
    BY <1>1, <2>1, CompleteHolds
  <2>2. CASE \E t \in CompleteSplitTries(e) :
               GoOn(h, c, [x EXCEPT !.state = "CompleteSplit", !.tries = t])
    <3>1. PICK t \in CompleteSplitTries(e) :
            GoOn(h, c, [x EXCEPT !.state = "CompleteSplit", !.tries = t])
      BY <2>2, Zenon
    <3> DEFINE z == [x EXCEPT !.state = "CompleteSplit", !.tries = t]
    <3>2. t \in Int
      BY HostAssumption DEF CompleteSplitTries
    <3>3. z \in StageRecord /\ z.urb = x.urb /\ z.channel = x.channel /\ z.state # "PeriodicDelay"
      BY <1>3, <3>2, Zenon DEF StageRecord, StageStates
    <3> HIDE DEF z
    <3> QED BY <1>1, <1>3, <3>1, <3>3, GoOnHolds, Zenon DEF z
  <2> QED BY <1>7, <2>1, <2>2, Zenon DEF StartSplit
<1>8. CASE CompleteSplit(h, c, x, r, e, result)
  <2> DEFINE y == [x EXCEPT !.packets = @ - 1]
             z == [x EXCEPT !.tries = @ - 1]
  <2>1. CASE Complete(c, h, r, e, 0) /\ UNCHANGED delayed
    BY <1>1, <2>1, CompleteHolds
  <2>2. CASE Complete(c, h, r, e, 1) /\ UNCHANGED delayed
    BY <1>1, <2>2, CompleteHolds
  <2>3. CASE NextSplit(h, c, y, e)
    <3>1. y \in StageRecord /\ y.urb = x.urb /\ y.channel = x.channel /\ y.state = x.state
      BY <1>3 DEF StageRecord
    <3> HIDE DEF y
    <3> QED BY <1>2, <1>3, <1>5, <2>3, <3>1
  <2>4. CASE NextSplit(h, c, x, e)
    BY <1>2, <1>3, <1>5, <2>4
  <2>5. CASE GoOn(h, c, z)
    <3>1. z \in StageRecord /\ z.urb = x.urb /\ z.channel = x.channel /\ z.state = x.state
      BY <1>3 DEF StageRecord
    <3> HIDE DEF z
    <3> QED BY <1>1, <1>2, <1>3, <2>5, <3>1, GoOnHolds
  <2> QED BY <1>8, <2>1, <2>2, <2>3, <2>4, <2>5 DEF CompleteSplit
<1> QED BY <1>4, <1>6, <1>7, <1>8, Zenon

(* The timer of a delayed transfer finds it, on its channel, and starts it. *)
LEMMA IntervalInv ==
  ASSUME IInv, NEW s \in Slots, stage_interval(s)
  PROVE  IInv'
<1> DEFINE x == StageData[s]
           c == x.channel
           y == [x EXCEPT !.state = IF IsSplit[endpoint[x.urb]] THEN "StartSplit"
                                                                ELSE "NoSplitTransfer"]
<1>1. /\ s \in delayed /\ delayed' = delayed \ {s} /\ UNCHANGED <<endpoint, context, status>>
      /\ HostBecomes(start_transaction(Host, c, y))
  BY DEF stage_interval, request
<1>2. /\ Paired(Host, endpoint) /\ Called(Host, delayed, {}) /\ Host \in HostRecord
      /\ Host.sd = stageData /\ Host.slots = StageData
  BY Zenon DEF IInv, Paired, Host
<1>3. x \in StageRecord /\ x.urb # NULL
  BY <1>1, <1>2 DEF Called, HostRecord
<1>4. c \in Host.alloc /\ c \in Channels /\ Host.sd[c] = s
  BY <1>2, <1>3, Zenon DEF Paired, HostRecord
<1>5. y \in StageRecord /\ y.urb = x.urb /\ y.channel = c /\ y.state # "PeriodicDelay"
  BY <1>3 DEF StageRecord, StageStates
<1> HIDE DEF x, y
<1>6. Called(Host, delayed', {c})
  <2>1. Host.um \subseteq Host.alloc \ {c}
    BY <1>1, <1>2, <1>4 DEF Called
  <2>2. \A d \in Host.alloc : Host.sd[d] = s => d = c
    BY <1>2, <1>4 DEF Paired, x
  <2>3. \A d \in Host.alloc : Host.sd[d] \notin delayed' <=> d \in Host.um \cup {c}
    BY <1>1, <1>2, <1>4, <2>2 DEF Called
  <2> QED BY <1>1, <1>2, <1>4, <2>1, <2>3 DEF Called
<1>7. /\ Paired(start_transaction(Host, c, y), endpoint)
      /\ Called(start_transaction(Host, c, y), delayed', {})
      /\ \A q \in Urbs : Busy(start_transaction(Host, c, y), q) <=> Busy(Host, q)
  <2>1. y.urb = Host.slots[Host.sd[c]].urb
    BY <1>2, <1>4, <1>5 DEF x
  <2> QED BY <1>2, <1>4, <1>5, <1>6, <2>1, StartHolds, Zenon
<1>8. /\ Paired(Host', endpoint) /\ Called(Host', delayed', {})
      /\ \A q \in Urbs : InProgress(q)' <=> Busy(start_transaction(Host, c, y), q)
  BY <1>1, <1>7, BecomesHolds
<1>9. \A q \in Urbs : Busy(Host, q) <=> InProgress(q)
  BY <1>2 DEF Busy, InProgress
<1> QED BY <1>1, <1>7, <1>8, <1>9, SameRequests

-----------------------------------------------------------------------------
(* The invariant holds throughout: host.c and request.c establish and keep *)
(* it, whatever the devices answer and in whatever order.                  *)
THEOREM Inductive == Spec => []IInv
<1>1. Init => IInv
  BY InitInv
<1>2. IInv /\ [Next]_vars => IInv'
  <2> SUFFICES ASSUME IInv, [Next]_vars PROVE IInv'
    OBVIOUS
  <2>1. ASSUME NEW e \in Endpoints, NEW k \in Kinds, HostEndpointControlMessage(e, k) PROVE IInv'
    BY <2>1, SubmitInv DEF HostEndpointControlMessage
  <2>2. ASSUME NEW e \in Endpoints, HostEndpointTransfer(e) PROVE IInv'
    BY <2>2, SubmitInv DEF HostEndpointTransfer
  <2>3. ASSUME NEW c \in Channels, NEW en \in BOOLEAN, ChannelHalted(c, en) PROVE IInv'
    BY <2>3, HaltedInv
  <2>4. ASSUME NEW c \in Channels, NEW en \in BOOLEAN, NEW result \in Results,
               TransactionComplete(c, result, en)
        PROVE  IInv'
    BY <2>4, TransactionInv
  <2>5. ASSUME NEW s \in Slots, stage_interval(s) PROVE IInv'
    BY <2>5, IntervalInv
  <2>6. CASE UNCHANGED vars
    <3>1. Host' = Host /\ UNCHANGED <<endpoint, context, status, delayed, StageData>>
      BY <2>6 DEF vars, request, host, Host
    <3> QED BY <3>1 DEF IInv, NotLostBetweenStages, InProgress
  <2> QED BY <2>1, <2>2, <2>3, <2>4, <2>5, <2>6 DEF Next
<1> QED BY <1>1, <1>2, PTL DEF Spec

(* Channels, stage data and requests are paired one to one, and every      *)
(* interrupt or timer finds the transfer it is for, for any number of      *)
(* requests and channels (allocate_channel, TransferStageAttach,           *)
(* process_channel_interrupt, stage_interval and their counterparts).      *)
THEOREM AlwaysTracked == Spec => []TransfersTracked
  BY Inductive, InvTracks, PTL

(* Between two stages of a control request there is always a channel, the  *)
(* one just given back: a request is refused when it is submitted or never *)
(* (HostSubmitAsyncRequest called from process_channel_interrupt).         *)
THEOREM NoneLost == Spec => []NotLostBetweenStages
<1>1. IInv => NotLostBetweenStages
  BY DEF IInv
<1> QED BY Inductive, <1>1, PTL

-----------------------------------------------------------------------------
OnControl(r)    == endpoint[r] \in Endpoints /\ TypeOf[endpoint[r]] = "control"
DataStage(k, n) == k \in {"in", "out"} /\ n = 1

PidType ==
  kind \in [Urbs -> Kinds] /\ nextPID \in [Endpoints -> PIDs] /\ clean \in [Endpoints -> BOOLEAN]
InStages ==
  \A r \in Urbs : OnControl(r) => kind[r] # "data" /\ context[r] \in 0 .. LastStage(kind[r])
OneRequest ==
  \A r, q \in Urbs : OnControl(r) /\ endpoint[q] = endpoint[r] => q = r
OnePacket ==
  \A s \in Slots : \A r \in Urbs :
    StageData[s].urb = r /\ OnControl(r) /\ ~DataStage(kind[r], context[r])
      => StageData[s].packets = 1

PidInv == PidType /\ InStages /\ OneRequest /\ OnePacket /\ SetupFirst

(* The slots new are the slots old but for one that holds a stage of r. *)
SlotTaken(new, old, r, k, n) ==
  \A t \in Slots : new[t] = old[t] \/ (new[t].urb = r /\ new[t].packets \in Packets(k, n))

(* start_transaction writes one slot. *)
LEMMA StartSlots ==
  ASSUME NEW h \in HostRecord, NEW c \in Channels, h.sd[c] \in Slots, NEW x \in StageRecord,
         HostBecomes(start_transaction(h, c, x))
  PROVE  /\ \A t \in Slots : t # h.sd[c] => StageData'[t] = h.slots[t]
         /\ StageData'[h.sd[c]].urb = x.urb /\ StageData'[h.sd[c]].packets = x.packets
<1> DEFINE y == [x EXCEPT !.subState = IF h.en[c] THEN "WaitForChannelDisable"
                                                  ELSE "WaitForTransactionComplete"]
<1>1. y.urb = x.urb /\ y.packets = x.packets
  BY DEF StageRecord
<1>2. StageData' = [h.slots EXCEPT ![h.sd[c]] = y]
  BY DEF HostBecomes, start_transaction, HostRecord
<1> HIDE DEF y
<1> QED BY <1>1, <1>2 DEF HostRecord

(* free_stage_data empties one slot. *)
LEMMA FreedSlots ==
  ASSUME NEW h \in HostRecord, NEW c \in Channels, h.sd[c] \in Slots
  PROVE  /\ Freed(h, c).slots = [h.slots EXCEPT ![h.sd[c]] = FreeSlot]
         /\ Freed(h, c) \in HostRecord
<1>1. FreeSlot \in StageRecord
  BY DEF FreeSlot, StageRecord, StageStates, SubStates
<1> QED BY <1>1, Zenon DEF Freed, HostRecord

(* transfer_stage_async fills at most one slot, for the stage asked for. *)
LEMMA SubmitSlots ==
  ASSUME NEW h \in HostRecord, FreeSlots(h.slots) # {}, NEW r \in Urbs, NEW e, NEW k, NEW n,
         transfer_stage_async(h, r, e, k, n)
  PROVE  SlotTaken(StageData', h.slots, r, k, n)
<1>1. CASE h.alloc = Channels
  BY <1>1 DEF transfer_stage_async, HostBecomes, SlotTaken
<1>2. CASE h.alloc # Channels
  <2> DEFINE c == Least(Channels \ h.alloc)
             s == Least(FreeSlots(h.slots))
             g == [h EXCEPT !.alloc = @ \cup {c}, !.sd[c] = s]
             x(p) == [urb |-> r, channel |-> c, packets |-> p, tries |-> 0,
                      state |-> IF IsSplit[e] THEN "StartSplit" ELSE "NoSplitTransfer",
                      subState |-> "WaitForChannelDisable"]
  <2>1. c \in Channels
    BY <1>2, LeastIn, HostAssumption, Zenon DEF Channels, HostRecord
  <2>2. s \in Slots
    <3>1. FreeSlots(h.slots) \in SUBSET (1 .. MaxRequests)
      BY DEF FreeSlots, Slots
    <3>2. s \in FreeSlots(h.slots)
      BY <3>1, LeastIn, HostAssumption, Zenon
    <3> QED BY <3>2 DEF FreeSlots
  <2>3. PICK p \in Packets(k, n) : HostBecomes(start_transaction(g, c, x(p)))
    BY <1>2, Zenon DEF transfer_stage_async
  <2>4. p \in Int
    BY HostAssumption DEF Packets
  <2> HIDE DEF c, s
  <2>5. x(p) \in StageRecord /\ x(p).urb = r /\ x(p).packets = p
    BY <2>1, <2>4 DEF StageRecord, StageStates, SubStates
  <2>6. g \in HostRecord /\ g.sd[c] = s /\ g.slots = h.slots
    BY <2>1, <2>2, Zenon DEF HostRecord
  <2> HIDE DEF g, x
  <2>7. /\ \A t \in Slots : t # s => StageData'[t] = h.slots[t]
        /\ StageData'[s].urb = r /\ StageData'[s].packets = p
    BY <2>1, <2>2, <2>3, <2>5, <2>6, StartSlots, Zenon
  <2> QED BY <2>3, <2>7 DEF SlotTaken
<1> QED BY <1>1, <1>2

-----------------------------------------------------------------------------
(* A handler that leaves the requests where they are. *)
LEMMA PidKept ==
  ASSUME PidInv, UNCHANGED <<endpoint, kind, context>>,
         nextPID' \in [Endpoints -> PIDs], clean' \in [Endpoints -> BOOLEAN],
         \A t \in Slots : \/ StageData'[t].urb = NULL
                          \/ /\ StageData'[t].urb = StageData[t].urb
                             /\ StageData'[t].packets = StageData[t].packets
                          \/ /\ StageData'[t].urb = StageData[t].urb
                             /\ StageData[t].packets # 1,
         \A e \in Endpoints : TypeOf[e] = "control" /\ clean'[e] =>
           clean[e] /\ (nextPID'[e] = "Setup" <=> nextPID[e] = "Setup")
  PROVE  PidInv'
<1>1. \A r \in Urbs : OnControl(r)' <=> OnControl(r)
  BY DEF OnControl
<1>2. OnePacket'
  <2>1. \A s \in Slots : \A r \in Urbs :
           StageData'[s].urb = r /\ OnControl(r) /\ ~DataStage(kind[r], context[r])
             => StageData'[s].packets = 1
    BY NullApart DEF PidInv, OnePacket
  <2> QED BY <1>1, <2>1 DEF OnePacket
<1>3. SetupFirst'
  BY DEF PidInv, SetupFirst
<1>4. PidType'
  BY DEF PidInv, PidType
<1>5. InStages' /\ OneRequest'
  BY <1>1 DEF PidInv, InStages, OneRequest
<1> QED BY <1>2, <1>3, <1>4, <1>5 DEF PidInv

(* What EndpointSkipPID makes of the PID, inside a control request and at  *)
(* its end.                                                                *)
LEMMA SkippedPID ==
  ASSUME NEW pid \in PIDs, NEW p \in Int, NEW last \in BOOLEAN
  PROVE  /\ EndpointSkipPID(pid, p, last) \in PIDs
         /\ EndpointSkipPID(pid, p, last) = "Setup" <=> last
  BY DEF EndpointSkipPID, PIDs

(* A stage of request r on endpoint e is over, well or not: its slot is    *)
(* free in slots, and the PID is that of the next one if it went well.     *)
StageOver(slots, r, e) ==
  /\ r \in Urbs /\ e \in Endpoints /\ endpoint[r] = e
  /\ \A t \in Slots : slots[t].urb \in Urbs => slots[t] = StageData[t] /\ StageData[t].urb # r
  /\ nextPID' \in [Endpoints -> PIDs] /\ clean' \in [Endpoints -> BOOLEAN]
  /\ \A d \in Endpoints : d # e => nextPID'[d] = nextPID[d] /\ clean'[d] = clean[d]
  /\ clean'[e] => (nextPID'[e] = "Setup" <=> StatusStage(kind[r], context[r]))

(* The other endpoints are as they were. *)
LEMMA OthersFit ==
  ASSUME PidInv, NEW slots, NEW r, NEW e, StageOver(slots, r, e), NEW d \in Endpoints, d # e,
         TypeOf[d] = "control", clean'[d]
  PROVE  nextPID'[d] = "Setup" <=> \A q \in Urbs : endpoint[q] = d => context[q] = 0
  BY DEF PidInv, SetupFirst, StageOver

(* HostSubmitAsyncRequest goes on with the next stage. *)
LEMMA PidNextStage ==
  ASSUME PidInv, context \in [Urbs -> Int], NEW slots, NEW r, NEW e, StageOver(slots, r, e),
         context[r] < LastStage(kind[r]), context' = [context EXCEPT ![r] = @ + 1],
         UNCHANGED <<endpoint, kind>>, SlotTaken(StageData', slots, r, kind[r], context[r] + 1)
  PROVE  PidInv'
<1>1. PidType /\ InStages /\ OneRequest /\ OnePacket
  BY DEF PidInv
<1>2. r \in Urbs /\ e \in Endpoints /\ endpoint[r] = e /\ endpoint' = endpoint /\ kind' = kind
  BY DEF StageOver
<1>3. kind[r] \in Kinds /\ LastStage(kind[r]) \in Int /\ context[r] \in Int
  <2>1. kind[r] \in Kinds /\ context[r] \in Int
    BY <1>1, <1>2, Zenon DEF PidType
  <2> QED BY <2>1 DEF LastStage, Kinds
<1>4. context'[r] = context[r] + 1 /\ \A q \in Urbs : q # r => context'[q] = context[q]
  BY <1>2
<1>5. \A q \in Urbs : OnControl(q)' <=> OnControl(q)
  BY <1>2 DEF OnControl
<1>6. OnControl(r) => context[r] \in Nat /\ context[r] + 1 \in 0 .. LastStage(kind[r])
  BY <1>1, <1>2, <1>3 DEF InStages
<1>7. InStages'
  <2>1. \A q \in Urbs : OnControl(q) => kind[q] # "data" /\ context'[q] \in 0 .. LastStage(kind[q])
    BY <1>1, <1>4, <1>6 DEF InStages
  <2> QED BY <1>2, <1>5, <2>1 DEF InStages
<1>8. ASSUME NEW t \in Slots, NEW q \in Urbs, StageData'[t].urb = q, OnControl(q),
             ~DataStage(kind[q], context'[q])
      PROVE  StageData'[t].packets = 1
  <2>1. CASE StageData'[t] = slots[t]
    <3>1. slots[t] = StageData[t] /\ q # r
      BY <1>8, <2>1 DEF StageOver
    <3>2. context'[q] = context[q]
      BY <1>4, <3>1
    <3> QED BY <1>1, <1>8, <2>1, <3>1, <3>2 DEF OnePacket
  <2>2. CASE StageData'[t].urb = r /\ StageData'[t].packets \in Packets(kind[r], context[r] + 1)
    <3>1. q = r /\ kind[r] # "data"
      BY <1>1, <1>8, <2>2 DEF InStages
    <3>2. Packets(kind[r], context[r] + 1) = {1}
      BY <1>3, <1>4, <1>8, <3>1 DEF Packets, DataStage, Kinds
    <3> QED BY <2>2, <3>2
  <2> QED BY <2>1, <2>2 DEF SlotTaken
<1>9. OnePacket'
  BY <1>2, <1>5, <1>8 DEF OnePacket
<1>10. SetupFirst'
  <2> SUFFICES ASSUME NEW d \in Endpoints, TypeOf[d] = "control", clean'[d]
               PROVE  nextPID'[d] = "Setup" <=> \A q \in Urbs : endpoint[q] = d => context'[q] = 0
    BY <1>2 DEF SetupFirst
  <2>1. CASE d # e
    <3>1. \A q \in Urbs : endpoint[q] = d => context'[q] = context[q]
      BY <1>2, <1>4, <2>1
    <3> QED BY <2>1, <3>1, OthersFit
  <2>2. CASE d = e
    <3>1. OnControl(r)
      BY <1>2, <2>2 DEF OnControl
    <3>2. context'[r] # 0
      BY <1>4, <1>6, <3>1
    <3>3. ~StatusStage(kind[r], context[r])
      BY <1>3 DEF StatusStage
    <3> QED BY <1>2, <2>2, <3>2, <3>3 DEF StageOver
  <2> QED BY <2>1, <2>2
<1>11. PidType' /\ OneRequest'
  BY <1>1, <1>2, <1>5, Zenon DEF StageOver, PidType, OneRequest
<1> QED BY <1>7, <1>9, <1>10, <1>11 DEF PidInv

(* The client frees the request after its last stage. *)
LEMMA PidFreed ==
  ASSUME PidInv, endpoint \in [Urbs -> Endpoints \cup {NULL}], context \in [Urbs -> Int],
         NEW slots, NEW r, NEW e, StageOver(slots, r, e),
         context[r] = LastStage(kind[r]), endpoint' = [endpoint EXCEPT ![r] = NULL],
         kind' = [kind EXCEPT ![r] = "data"], context' = [context EXCEPT ![r] = 0],
         StageData' = slots
  PROVE  PidInv'
<1>1. PidType /\ InStages /\ OneRequest /\ OnePacket
  BY DEF PidInv
<1>2. r \in Urbs /\ e \in Endpoints /\ endpoint[r] = e
  BY DEF StageOver
<1>3. /\ endpoint'[r] = NULL
      /\ \A q \in Urbs : q # r => /\ endpoint'[q] = endpoint[q] /\ kind'[q] = kind[q]
                                  /\ context'[q] = context[q]
  BY <1>1, <1>2 DEF PidType
<1>4. \A q \in Urbs : OnControl(q)' <=> q # r /\ OnControl(q)
  BY <1>3, NullApart DEF OnControl
<1>5. PidType'
  BY <1>1, <1>2 DEF StageOver, PidType, Kinds
<1>6. InStages'
  BY <1>1, <1>3, <1>4 DEF InStages
<1>7. OneRequest'
  <2> SUFFICES ASSUME NEW q \in Urbs, NEW v \in Urbs, OnControl(q)', endpoint'[v] = endpoint'[q]
               PROVE  v = q
    BY DEF OneRequest
  <2>1. q # r /\ OnControl(q) /\ endpoint[q] \in Endpoints
    BY <1>4 DEF OnControl
  <2>2. v # r
    BY <1>3, <2>1, NullApart
  <2> QED BY <1>1, <1>3, <2>1, <2>2 DEF OneRequest
<1>8. OnePacket'
  <2> SUFFICES ASSUME NEW t \in Slots, NEW q \in Urbs, slots[t].urb = q, OnControl(q)',
                      ~DataStage(kind'[q], context'[q])
               PROVE  slots[t].packets = 1
    BY DEF OnePacket
  <2>1. slots[t] = StageData[t] /\ q # r /\ OnControl(q)
    BY <1>4 DEF StageOver
  <2> QED BY <1>1, <1>3, <2>1 DEF OnePacket
<1>9. SetupFirst'
  <2> SUFFICES ASSUME NEW d \in Endpoints, TypeOf[d] = "control", clean'[d]
               PROVE  nextPID'[d] = "Setup" <=> \A q \in Urbs : endpoint'[q] = d => context'[q] = 0
    BY DEF SetupFirst
  <2>1. CASE d # e
    <3>1. \A q \in Urbs : /\ endpoint'[q] = d <=> endpoint[q] = d
                          /\ endpoint[q] = d => context'[q] = context[q]
      BY <1>2, <1>3, <2>1, NullApart
    <3> QED BY <2>1, <3>1, OthersFit
  <2>2. CASE d = e
    <3>1. OnControl(r)
      BY <1>2, <2>2 DEF OnControl
    <3>2. StatusStage(kind[r], context[r])
      BY <1>1, <1>2, <3>1 DEF StatusStage, InStages
    <3>3. \A q \in Urbs : endpoint'[q] # e
      BY <1>1, <1>2, <1>3, <3>1, NullApart DEF OneRequest
    <3> QED BY <2>2, <3>2, <3>3 DEF StageOver
  <2> QED BY <2>1, <2>2
<1> QED BY <1>5, <1>6, <1>7, <1>8, <1>9 DEF PidInv

(* The client submits a request again that is not a control request. *)
LEMMA PidAgain ==
  ASSUME PidInv, NEW slots, NEW r, NEW e, StageOver(slots, r, e), TypeOf[e] # "control",
         UNCHANGED <<endpoint, kind, context>>, SlotTaken(StageData', slots, r, kind[r], 0)
  PROVE  PidInv'
<1>1. PidType /\ InStages /\ OneRequest /\ OnePacket
  BY DEF PidInv
<1>2. ~OnControl(r) /\ \A q \in Urbs : OnControl(q)' <=> OnControl(q)
  BY DEF OnControl, StageOver
<1>3. OnePacket'
  <2> SUFFICES ASSUME NEW t \in Slots, NEW q \in Urbs, StageData'[t].urb = q, OnControl(q),
                      ~DataStage(kind[q], context[q])
               PROVE  StageData'[t].packets = 1
    BY <1>2, Zenon DEF OnePacket
  <2>1. q # r /\ StageData'[t] = slots[t]
    BY <1>2 DEF SlotTaken
  <2>2. slots[t] = StageData[t]
    BY <2>1 DEF StageOver
  <2> QED BY <1>1, <2>1, <2>2, Zenon DEF OnePacket
<1>4. SetupFirst'
  <2> SUFFICES ASSUME NEW d \in Endpoints, TypeOf[d] = "control", clean'[d]
               PROVE  nextPID'[d] = "Setup" <=> \A q \in Urbs : endpoint[q] = d => context[q] = 0
    BY DEF SetupFirst
  <2> QED BY OthersFit
<1>5. PidType' /\ InStages' /\ OneRequest'
  BY <1>1, <1>2 DEF StageOver, PidType, InStages, OneRequest
<1> QED BY <1>3, <1>4, <1>5 DEF PidInv

(* How the stage ended. *)
WellOrNot(r, e) ==
  \/ Succeeded /\ \E p \in Int : SkipPID(r, e, p)
  \/ Failed(r, e) /\ UNCHANGED nextPID

(* The PIDs after the end of a stage. *)
LEMMA PidAfter ==
  ASSUME PidType, NEW r \in Urbs, NEW e \in Endpoints, WellOrNot(r, e)
  PROVE  /\ nextPID' \in [Endpoints -> PIDs] /\ clean' \in [Endpoints -> BOOLEAN]
         /\ \A d \in Endpoints : d # e => nextPID'[d] = nextPID[d] /\ clean'[d] = clean[d]
         /\ clean'[e] => (nextPID'[e] = "Setup" <=> StatusStage(kind[r], context[r]))
<1>1. /\ kind[r] \in Kinds /\ nextPID[e] \in PIDs /\ StatusStage(kind[r], context[r]) \in BOOLEAN
      /\ nextPID \in [Endpoints -> PIDs] /\ clean \in [Endpoints -> BOOLEAN]
  BY DEF PidType, StatusStage
<1>2. CASE Succeeded /\ \E p \in Int : SkipPID(r, e, p)
  <2>1. PICK p \in Int : SkipPID(r, e, p)
    BY <1>2
  <2>2. PICK new : new = EndpointSkipPID(nextPID[e], p, StatusStage(kind[r], context[r]))
    OBVIOUS
  <2>3. new \in PIDs /\ (new = "Setup" <=> StatusStage(kind[r], context[r]))
    BY <1>1, <2>2, SkippedPID
  <2>4. nextPID' = [nextPID EXCEPT ![e] = new] /\ clean' = clean
    BY <1>2, <2>1, <2>2, Zenon DEF SkipPID, Succeeded
  <2> QED BY <1>1, <2>3, <2>4
<1>3. CASE Failed(r, e) /\ UNCHANGED nextPID
  <2>1. clean' = [clean EXCEPT ![e] = FALSE] /\ nextPID' = nextPID
    BY <1>3 DEF Failed
  <2> QED BY <1>1, <2>1
<1> QED BY <1>2, <1>3 DEF WellOrNot

(* Channel c, whose interrupt was taken, and the request it serves. *)
Serves(c, r, e) ==
  c \in Channels /\ c \in unmasked /\ r = StageData[stageData[c]].urb /\ e = endpoint[r]

(* The slot of the request whose stage ended is free, the others are as before. *)
LEMMA SlotsAfter ==
  ASSUME IInv, NEW c, NEW en \in BOOLEAN, NEW r, NEW e, Serves(c, r, e)
  PROVE  LET f == Freed(Taken(c, en), c) IN
         /\ r \in Urbs /\ e \in Endpoints
         /\ f \in HostRecord /\ FreeSlots(f.slots) # {}
         /\ \A t \in Slots : f.slots[t].urb \in Urbs =>
              f.slots[t] = StageData[t] /\ StageData[t].urb # r
<1> DEFINE h == Taken(c, en)
           s == stageData[c]
<1>1. c \in Channels /\ c \in unmasked /\ r = StageData[s].urb /\ e = endpoint[r]
  BY DEF Serves
<1>2. /\ Paired(h, endpoint) /\ Called(h, delayed, {c}) /\ c \in h.alloc
      /\ h.sd = stageData /\ h.slots = StageData
  BY <1>1, TakenHolds, Zenon
<1> HIDE DEF h
<1>3. h \in HostRecord /\ s \in Slots /\ r \in Urbs /\ e # NULL
  BY <1>1, <1>2, NullApart DEF Paired, HostRecord
<1>4. e \in Endpoints
  BY <1>1, <1>3 DEF IInv
<1>5. Freed(h, c).slots = [StageData EXCEPT ![s] = FreeSlot] /\ Freed(h, c) \in HostRecord
  BY <1>1, <1>2, <1>3, FreedSlots
<1>6. FreeSlots(Freed(h, c).slots) # {}
  BY <1>1, <1>2, FreedHolds, Zenon
<1>7. StageData \in [Slots -> StageRecord]
  BY <1>2, <1>3 DEF HostRecord
<1>8. \A t \in Slots : t # s => StageData[t].urb # r
  BY <1>1, <1>2, <1>3, NullApart DEF Paired
<1>9. \A t \in Slots : Freed(h, c).slots[t].urb \in Urbs =>
        Freed(h, c).slots[t] = StageData[t] /\ StageData[t].urb # r
  <2>1. PICK slots : slots = Freed(h, c).slots
    OBVIOUS
  <2>2. slots[s].urb = NULL /\ \A t \in Slots : t # s => slots[t] = StageData[t]
    BY <1>3, <1>5, <1>7, <2>1 DEF FreeSlot
  <2> QED BY <1>8, <2>1, <2>2, NullApart
<1> QED BY <1>3, <1>4, <1>5, <1>6, <1>9, Zenon DEF h

(* The completion routine, whether the stage went well or not. *)
LEMMA PidComplete ==
  ASSUME IInv, PidInv, NEW c, NEW en \in BOOLEAN, NEW r, NEW e, NEW st, Serves(c, r, e),
         Complete(c, Taken(c, en), r, e, st), WellOrNot(r, e)
  PROVE  PidInv'
<1> DEFINE f == Freed(Taken(c, en), c)
<1>1. /\ r \in Urbs /\ e \in Endpoints /\ f \in HostRecord /\ FreeSlots(f.slots) # {}
      /\ \A t \in Slots : f.slots[t].urb \in Urbs =>
           f.slots[t] = StageData[t] /\ StageData[t].urb # r
  BY SlotsAfter
<1>2. CallCompletion(f, r, e, st)
  BY DEF Complete
<1> HIDE DEF f
<1>3. StageOver(f.slots, r, e)
  <2>1. PidType /\ endpoint[r] = e
    BY DEF PidInv, Serves
  <2>2. /\ nextPID' \in [Endpoints -> PIDs] /\ clean' \in [Endpoints -> BOOLEAN]
        /\ \A d \in Endpoints : d # e => nextPID'[d] = nextPID[d] /\ clean'[d] = clean[d]
        /\ clean'[e] => (nextPID'[e] = "Setup" <=> StatusStage(kind[r], context[r]))
    BY <1>1, <2>1, PidAfter, Zenon
  <2> QED BY <1>1, <2>1, <2>2, Zenon DEF StageOver
<1>4. context \in [Urbs -> Int] /\ endpoint \in [Urbs -> Endpoints \cup {NULL}]
  BY DEF IInv
<1>5. CASE HostSubmitAsyncRequest(f, r, e)
  <2>1. /\ context[r] < LastStage(kind[r]) /\ context' = [context EXCEPT ![r] = @ + 1]
        /\ UNCHANGED <<endpoint, kind>>
        /\ transfer_stage_async(f, r, e, kind[r], context[r] + 1)
    BY <1>5 DEF HostSubmitAsyncRequest
  <2>2. SlotTaken(StageData', f.slots, r, kind[r], context[r] + 1)
    BY <1>1, <2>1, SubmitSlots, Zenon
  <2> QED BY <1>3, <1>4, <2>1, <2>2, PidNextStage, Zenon
<1>6. CASE ClientFrees(f, r, e, st)
  <2>1. /\ context[r] = LastStage(kind[r]) /\ endpoint' = [endpoint EXCEPT ![r] = NULL]
        /\ kind' = [kind EXCEPT ![r] = "data"] /\ context' = [context EXCEPT ![r] = 0]
        /\ StageData' = f.slots
    BY <1>6 DEF ClientFrees, HostBecomes
  <2> QED BY <1>3, <1>4, <2>1, PidFreed, Zenon
<1>7. CASE ClientResubmits(f, r, e)
  <2>1. /\ TypeOf[e] # "control" /\ UNCHANGED <<endpoint, kind, context>>
        /\ transfer_stage_async(f, r, e, kind[r], 0)
    BY <1>7 DEF ClientResubmits
  <2>2. SlotTaken(StageData', f.slots, r, kind[r], 0)
    BY <1>1, <2>1, SubmitSlots, Zenon
  <2> QED BY <1>3, <2>1, <2>2, PidAgain
<1> QED BY <1>2, <1>5, <1>6, <1>7 DEF CallCompletion

-----------------------------------------------------------------------------
(* NewRequest, RequestAttach and the setup stage, or the only one. *)
LEMMA PidSubmit ==
  ASSUME IInv, PidInv, NEW e \in Endpoints, NEW k \in Kinds, Submit(e, k),
         TypeOf[e] = "control" => k # "data" /\ \A q \in Urbs : endpoint[q] # e
  PROVE  PidInv'
<1>0. PidType /\ InStages /\ OneRequest /\ OnePacket /\ SetupFirst
  BY DEF PidInv
<1>1. PICK r \in Urbs : endpoint[r] = NULL /\ r = Least(FreeUrbs)
  <2>1. FreeUrbs \in SUBSET (1 .. MaxRequests) /\ FreeUrbs # {}
    BY DEF FreeUrbs, Urbs, Submit
  <2>2. Least(FreeUrbs) \in FreeUrbs
    BY <2>1, LeastIn, HostAssumption, Zenon
  <2> QED BY <2>2 DEF FreeUrbs
<1>2. /\ endpoint' = [endpoint EXCEPT ![r] = e] /\ context' = [context EXCEPT ![r] = 0]
      /\ kind' = [kind EXCEPT ![r] = k] /\ transfer_stage_async(Host, r, e, k, 0)
      /\ UNCHANGED <<nextPID, clean>>
  BY <1>1 DEF Submit
<1>3. Host \in HostRecord /\ Host.slots = StageData
  BY Zenon DEF IInv, Paired, Host
<1>4. FreeSlots(Host.slots) # {}
  BY <1>1, SlotForRequest, Zenon DEF IInv
<1>5. SlotTaken(StageData', StageData, r, k, 0)
  BY <1>1, <1>2, <1>3, <1>4, SubmitSlots
<1>6. /\ endpoint'[r] = e /\ kind'[r] = k /\ context'[r] = 0
      /\ \A q \in Urbs : q # r => /\ endpoint'[q] = endpoint[q] /\ kind'[q] = kind[q]
                                  /\ context'[q] = context[q]
  BY <1>0, <1>1, <1>2 DEF IInv, PidType
<1>7. \A q \in Urbs : q # r => (OnControl(q)' <=> OnControl(q))
  BY <1>6, Zenon DEF OnControl
<1>8. OnControl(r)' <=> TypeOf[e] = "control"
  BY <1>6 DEF OnControl
<1>9. PidType'
  BY <1>0, <1>1, <1>2 DEF PidType
<1>10. InStages'
  <2>1. ASSUME k # "data" PROVE 0 \in 0 .. LastStage(k)
    BY <2>1 DEF LastStage, Kinds
  <2>2. OnControl(r)' => kind'[r] # "data" /\ context'[r] \in 0 .. LastStage(kind'[r])
    BY <1>6, <1>8, <2>1
  <2> QED BY <1>0, <1>6, <1>7, <2>2 DEF InStages
<1>11. OneRequest'
  <2> SUFFICES ASSUME NEW q \in Urbs, NEW v \in Urbs, OnControl(q)', endpoint'[v] = endpoint'[q]
               PROVE  v = q
    BY DEF OneRequest
  <2>1. CASE q = r
    BY <1>6, <1>8, <2>1
  <2>2. CASE q # r
    <3>1. OnControl(q) /\ endpoint'[q] = endpoint[q]
      BY <1>6, <1>7, <2>2
    <3>2. v # r
      BY <1>6, <2>2, <3>1 DEF OnControl
    <3> QED BY <1>0, <1>6, <3>1, <3>2 DEF OneRequest
  <2> QED BY <2>1, <2>2
<1>12. \A t \in Slots : StageData[t].urb # r
  <2>1. \A t \in Slots : StageData[t].urb # NULL => endpoint[StageData[t].urb] # NULL
    BY <1>3 DEF IInv, Paired
  <2> QED BY <1>1, <2>1, NullApart
<1>13. OnePacket'
  <2> SUFFICES ASSUME NEW t \in Slots, NEW q \in Urbs, StageData'[t].urb = q, OnControl(q)',
                      ~DataStage(kind'[q], context'[q])
               PROVE  StageData'[t].packets = 1
    BY DEF OnePacket
  <2>1. CASE StageData'[t] = StageData[t]
    <3>1. q # r
      BY <1>12, <2>1
    <3>2. OnControl(q) /\ kind'[q] = kind[q] /\ context'[q] = context[q]
      BY <1>6, <1>7, <3>1
    <3> QED BY <1>0, <2>1, <3>2 DEF OnePacket
  <2>2. CASE StageData'[t].urb = r /\ StageData'[t].packets \in Packets(k, 0)
    <3>1. k # "data"
      BY <1>8, <2>2
    <3> QED BY <2>2, <3>1 DEF Packets
  <2> QED BY <1>5, <2>1, <2>2 DEF SlotTaken
<1>14. SetupFirst'
  <2> SUFFICES ASSUME NEW d \in Endpoints, TypeOf[d] = "control", clean[d]
               PROVE  nextPID[d] = "Setup" <=> \A q \in Urbs : endpoint'[q] = d => context'[q] = 0
    BY <1>2 DEF SetupFirst
  <2>1. nextPID[d] = "Setup" <=> \A q \in Urbs : endpoint[q] = d => context[q] = 0
    BY <1>0 DEF SetupFirst
  <2> QED BY <1>1, <1>6, <2>1, NullApart
<1> QED BY <1>9, <1>10, <1>11, <1>13, <1>14 DEF PidInv

(* The interrupt of channel c is taken: its stage x, of request r on       *)
(* endpoint e, is in the hands of the handler, which has the host h.       *)
InHand(c, en, x, r, e, h) ==
  /\ c \in Channels /\ c \in unmasked /\ en \in BOOLEAN /\ h = Taken(c, en)
  /\ x = StageData[stageData[c]] /\ r = x.urb /\ e = endpoint[r]

(* What the handler works on is of the types the host's state has. *)
LEMMA InHandType ==
  ASSUME IInv, NEW c, NEW en, NEW x, NEW r, NEW e, NEW h, InHand(c, en, x, r, e, h)
  PROVE  /\ x \in StageRecord /\ x.urb = r /\ r \in Urbs /\ e \in Endpoints
         /\ stageData[c] \in Slots /\ StageData \in [Slots -> StageRecord]
         /\ h \in HostRecord /\ h.sd = stageData /\ h.slots = StageData
<1>1. /\ c \in Channels /\ c \in unmasked /\ en \in BOOLEAN /\ h = Taken(c, en)
      /\ x = StageData[stageData[c]] /\ r = x.urb /\ e = endpoint[r]
  BY DEF InHand
<1>2. Paired(h, endpoint) /\ c \in h.alloc /\ h.sd = stageData /\ h.slots = StageData
  BY <1>1, TakenHolds, Zenon
<1>3. h \in HostRecord
  BY <1>2 DEF Paired
<1>4. stageData[c] \in Slots /\ StageData \in [Slots -> StageRecord]
  BY <1>1, <1>2, <1>3, NullApart DEF Paired, HostRecord
<1>5. r \in Urbs /\ e # NULL
  BY <1>1, <1>2 DEF Paired
<1>6. e \in Endpoints
  BY <1>1, <1>5 DEF IInv
<1> QED BY <1>1, <1>2, <1>3, <1>4, <1>5, <1>6

(* The PIDs of the control endpoints are as they were, as far as Setup goes. *)
SameSetup ==
  /\ clean' = clean /\ nextPID' \in [Endpoints -> PIDs]
  /\ \A d \in Endpoints : TypeOf[d] = "control" /\ clean[d] =>
       (nextPID'[d] = "Setup" <=> nextPID[d] = "Setup")

(* In particular when nothing was transferred. *)
LEMMA NothingSkipped ==
  ASSUME PidInv, Succeeded, UNCHANGED nextPID
  PROVE  SameSetup
  BY DEF PidInv, PidType, Succeeded, SameSetup

(* The stage goes on, at once or after its delay, with the same packets    *)
(* unless it is a data stage.                                              *)
LEMMA PidGoOn ==
  ASSUME IInv, PidInv, NEW c, NEW en, NEW x, NEW r, NEW e, NEW h, InHand(c, en, x, r, e, h),
         NEW y \in StageRecord, y.urb = r, y.packets = x.packets \/ x.packets # 1,
         GoOn(h, c, y) \/ PeriodicDelay(h, c, y), SameSetup
  PROVE  PidInv'
<1>1. /\ x.urb = r /\ stageData[c] \in Slots /\ StageData \in [Slots -> StageRecord]
      /\ h \in HostRecord /\ h.sd = stageData /\ h.slots = StageData
  BY InHandType
<1>2. c \in Channels /\ x = StageData[stageData[c]]
  BY DEF InHand
<1>3. /\ \A t \in Slots : t # stageData[c] => StageData'[t] = StageData[t]
      /\ StageData'[stageData[c]].urb = y.urb /\ StageData'[stageData[c]].packets = y.packets
  <2>1. CASE GoOn(h, c, y)
    <3>1. HostBecomes(start_transaction(h, c, y))
      BY <2>1 DEF GoOn
    <3> QED BY <1>1, <1>2, <3>1, StartSlots, Zenon
  <2>2. CASE PeriodicDelay(h, c, y)
    <3> DEFINE z == [y EXCEPT !.state = "PeriodicDelay"]
    <3>1. z.urb = y.urb /\ z.packets = y.packets
      BY DEF StageRecord
    <3>2. StageData' = [StageData EXCEPT ![stageData[c]] = z]
      BY <1>1, <2>2 DEF PeriodicDelay, HostBecomes, HostRecord
    <3> HIDE DEF z
    <3> QED BY <1>1, <3>1, <3>2, Zenon
  <2> QED BY <2>1, <2>2, Zenon
<1>4. \A t \in Slots : \/ StageData'[t].urb = NULL
                       \/ /\ StageData'[t].urb = StageData[t].urb
                          /\ StageData'[t].packets = StageData[t].packets
                       \/ /\ StageData'[t].urb = StageData[t].urb
                          /\ StageData[t].packets # 1
  BY <1>1, <1>2, <1>3, Zenon
<1>5. UNCHANGED <<endpoint, kind, context>>
  BY DEF GoOn, PeriodicDelay
<1>6. nextPID' \in [Endpoints -> PIDs] /\ clean' \in [Endpoints -> BOOLEAN] /\ clean' = clean
  BY DEF PidInv, PidType, SameSetup
<1>7. \A d \in Endpoints : TypeOf[d] = "control" /\ clean'[d] =>
        clean[d] /\ (nextPID'[d] = "Setup" <=> nextPID[d] = "Setup")
  BY DEF SameSetup
<1> QED BY <1>4, <1>5, <1>6, <1>7, PidKept

(* A complete split that ended with packets left. *)
LEMMA PidNextSplit ==
  ASSUME IInv, PidInv, NEW c, NEW en, NEW x, NEW r, NEW e, NEW h, InHand(c, en, x, r, e, h),
         NEW y \in StageRecord, y.urb = r, y.packets = x.packets \/ x.packets # 1,
         NextSplit(h, c, y, e), SameSetup
  PROVE  PidInv'
<1>1. CASE PeriodicDelay(h, c, y)
  BY <1>1, PidGoOn
<1>2. CASE GoOn(h, c, [y EXCEPT !.state = "StartSplit"])
  <2>1. PICK z : z = [y EXCEPT !.state = "StartSplit"]
    BY Zenon
  <2>2. z \in StageRecord /\ z.urb = y.urb /\ z.packets = y.packets
    BY <2>1 DEF StageRecord, StageStates
  <2> QED BY <1>2, <2>1, <2>2, PidGoOn, Zenon
<1> QED BY <1>1, <1>2 DEF NextSplit

(* The completion routine, called by the handler. *)
LEMMA PidDone ==
  ASSUME IInv, PidInv, NEW c, NEW en, NEW x, NEW r, NEW e, NEW h, InHand(c, en, x, r, e, h),
         NEW st, Complete(c, h, r, e, st), WellOrNot(r, e)
  PROVE  PidInv'
<1>1. en \in BOOLEAN /\ h = Taken(c, en) /\ Serves(c, r, e)
  BY DEF InHand, Serves
<1>2. Complete(c, Taken(c, en), r, e, st)
  BY <1>1
<1> QED BY <1>1, <1>2, PidComplete

(* A transfer without splits is over, waits or has failed. *)
LEMMA PidNoSplit ==
  ASSUME IInv, PidInv, NEW c, NEW en, NEW x, NEW r, NEW e, NEW h, InHand(c, en, x, r, e, h),
         NEW result, NoSplitTransfer(h, c, x, r, e, result)
  PROVE  PidInv'
<1>1. /\ x \in StageRecord /\ x.urb = r /\ e \in Endpoints /\ stageData[c] \in Slots
      /\ StageData \in [Slots -> StageRecord] /\ h \in HostRecord /\ h.sd = stageData
      /\ h.slots = StageData
  BY InHandType
<1>2. CASE HostBecomes(Freed(h, c)) /\ Failed(r, e) /\ UNCHANGED <<endpoint, kind, context, nextPID>>
  <2>1. c \in Channels
    BY Zenon DEF InHand
  <2>2. StageData' = [StageData EXCEPT ![stageData[c]] = FreeSlot]
    BY <1>1, <1>2, <2>1, FreedSlots, Zenon DEF HostBecomes
  <2>3. \A t \in Slots : StageData'[t].urb = NULL \/ StageData'[t] = StageData[t]
    BY <1>1, <2>2 DEF FreeSlot
  <2>4. nextPID' \in [Endpoints -> PIDs] /\ clean' \in [Endpoints -> BOOLEAN]
    BY <1>2, Zenon DEF Failed, PidInv, PidType
  <2>5. \A d \in Endpoints : clean'[d] => clean[d]
    BY <1>1, <1>2, Zenon DEF Failed, PidInv, PidType
  <2>6. UNCHANGED <<endpoint, kind, context>> /\ nextPID' = nextPID
    BY <1>2
  <2> QED BY <2>3, <2>4, <2>5, <2>6, PidKept, Zenon
<1>3. CASE PeriodicDelay(h, c, x) /\ Succeeded /\ UNCHANGED nextPID
  <2>1. SameSetup
    BY <1>3, NothingSkipped
  <2> QED BY <1>1, <1>3, <2>1, PidGoOn, Zenon
<1>4. CASE Complete(c, h, r, e, 1) /\ Succeeded /\ \E p \in 1 .. x.packets : SkipPID(r, e, p)
  <2>1. PICK p \in 1 .. x.packets : SkipPID(r, e, p)
    BY <1>4
  <2>2. WellOrNot(r, e)
    BY <1>4, <2>1 DEF WellOrNot
  <2> QED BY <1>4, <2>2, PidDone
<1> QED BY <1>2, <1>3, <1>4 DEF NoSplitTransfer

(* A start split is acknowledged or has failed. *)
LEMMA PidStartSplit ==
  ASSUME IInv, PidInv, NEW c, NEW en, NEW x, NEW r, NEW e, NEW h, InHand(c, en, x, r, e, h),
         NEW result, StartSplit(h, c, x, r, e, result)
  PROVE  PidInv'
<1>1. x \in StageRecord /\ x.urb = r
  BY InHandType
<1>2. CASE Complete(c, h, r, e, 0) /\ Failed(r, e) /\ UNCHANGED nextPID
  <2>1. WellOrNot(r, e)
    BY <1>2 DEF WellOrNot
  <2> QED BY <1>2, <2>1, PidDone
<1>3. CASE /\ \E t \in CompleteSplitTries(e) :
                GoOn(h, c, [x EXCEPT !.state = "CompleteSplit", !.tries = t])
           /\ Succeeded /\ UNCHANGED nextPID
  <2>1. PICK t \in CompleteSplitTries(e) :
          GoOn(h, c, [x EXCEPT !.state = "CompleteSplit", !.tries = t])
    BY <1>3, Zenon
  <2>2. t \in Int
    BY HostAssumption DEF CompleteSplitTries
  <2>3. PICK z : z = [x EXCEPT !.state = "CompleteSplit", !.tries = t]
    OBVIOUS
  <2>4. z \in StageRecord /\ z.urb = r /\ z.packets = x.packets
    BY <1>1, <2>2, <2>3, Zenon DEF StageRecord, StageStates
  <2>5. GoOn(h, c, z) /\ SameSetup
    BY <1>3, <2>1, <2>3, NothingSkipped
  <2> QED BY <2>4, <2>5, PidGoOn
<1> QED BY <1>2, <1>3, Zenon DEF StartSplit

(* A complete split: in a stage of several packets, the data stage, the    *)
(* PID alternates between the two others.                                  *)
LEMMA PidCompleteSplit ==
  ASSUME IInv, PidInv, NEW c, NEW en, NEW x, NEW r, NEW e, NEW h, InHand(c, en, x, r, e, h),
         NEW result, CompleteSplit(h, c, x, r, e, result)
  PROVE  PidInv'
<1>1. /\ x \in StageRecord /\ x.urb = r /\ r \in Urbs /\ e \in Endpoints /\ stageData[c] \in Slots
  BY InHandType
<1>2. CASE Complete(c, h, r, e, 0) /\ Failed(r, e) /\ UNCHANGED nextPID
  <2>1. WellOrNot(r, e)
    BY <1>2 DEF WellOrNot
  <2> QED BY <1>2, <2>1, PidDone
<1>3. CASE Complete(c, h, r, e, 1) /\ Succeeded /\ SkipPID(r, e, 1)
  <2>1. WellOrNot(r, e)
    BY <1>3 DEF WellOrNot
  <2> QED BY <1>3, <2>1, PidDone
<1>4. CASE x.packets # 1 /\ NextSplit(h, c, [x EXCEPT !.packets = @ - 1], e) /\ Succeeded
           /\ SkipPID(r, e, 1)
  <2>1. PICK y : y = [x EXCEPT !.packets = @ - 1]
    BY Zenon
  <2>2. y \in StageRecord /\ y.urb = r
    BY <1>1, <2>1 DEF StageRecord
  <2>3. WellOrNot(r, e) /\ clean' = clean
    BY <1>4 DEF WellOrNot, Succeeded
  <2>4. PidType
    BY DEF PidInv
  <2>5. /\ nextPID' \in [Endpoints -> PIDs]
        /\ \A d \in Endpoints : d # e => nextPID'[d] = nextPID[d]
        /\ clean'[e] => (nextPID'[e] = "Setup" <=> StatusStage(kind[r], context[r]))
    BY <1>1, <2>3, <2>4, PidAfter, Zenon
  <2>6. ASSUME TypeOf[e] = "control", clean[e]
        PROVE  nextPID'[e] = "Setup" <=> nextPID[e] = "Setup"
    <3>1. endpoint[r] = e /\ StageData[stageData[c]] = x
      BY DEF InHand
    <3>2. OnControl(r)
      BY <1>1, <2>6, <3>1 DEF OnControl
    <3>3. DataStage(kind[r], context[r])
      BY <1>1, <1>4, <3>1, <3>2 DEF PidInv, OnePacket
    <3>4. ~StatusStage(kind[r], context[r])
      BY <3>3 DEF DataStage, StatusStage, LastStage
    <3>5. context[r] # 0
      BY <3>3 DEF DataStage
    <3>6. nextPID[e] # "Setup"
      BY <1>1, <2>6, <3>1, <3>5 DEF PidInv, SetupFirst
    <3> QED BY <2>3, <2>5, <2>6, <3>4, <3>6, Zenon
  <2>7. SameSetup
    BY <2>3, <2>5, <2>6, Zenon DEF SameSetup
  <2> QED BY <1>4, <2>1, <2>2, <2>7, PidNextSplit, Zenon
<1>5. CASE NextSplit(h, c, x, e) /\ Succeeded /\ UNCHANGED nextPID
  <2>1. SameSetup
    BY <1>5, NothingSkipped
  <2> QED BY <1>1, <1>5, <2>1, PidNextSplit
<1>6. CASE GoOn(h, c, [x EXCEPT !.tries = @ - 1]) /\ Succeeded /\ UNCHANGED nextPID
  <2>1. PICK z : z = [x EXCEPT !.tries = @ - 1]
    BY Zenon
  <2>2. z \in StageRecord /\ z.urb = r /\ z.packets = x.packets
    BY <1>1, <2>1 DEF StageRecord
  <2>3. GoOn(h, c, z) /\ SameSetup
    BY <1>6, <2>1, NothingSkipped
  <2> QED BY <2>2, <2>3, PidGoOn
<1> QED BY <1>2, <1>3, <1>4, <1>5, <1>6 DEF CompleteSplit

(* process_channel_interrupt for a transaction. *)
LEMMA PidTransaction ==
  ASSUME IInv, PidInv, NEW c \in Channels, NEW en \in BOOLEAN, NEW result \in Results,
         TransactionComplete(c, result, en)
  PROVE  PidInv'
<1>1. \E x, r, e, h : /\ InHand(c, en, x, r, e, h)
                      /\ \/ NoSplitTransfer(h, c, x, r, e, result)
                         \/ StartSplit(h, c, x, r, e, result)
                         \/ CompleteSplit(h, c, x, r, e, result)
  BY Zenon DEF TransactionComplete, InHand
<1> QED BY <1>1, PidNoSplit, PidStartSplit, PidCompleteSplit

(* A disabled channel, and the timer of a delay, start the stage as it is. *)
LEMMA PidRestart ==
  ASSUME IInv, PidInv,
         \/ \E c \in Channels, en \in BOOLEAN : ChannelHalted(c, en)
         \/ \E s \in Slots : stage_interval(s)
  PROVE  PidInv'
<1>1. ASSUME NEW c \in Channels, NEW en \in BOOLEAN, ChannelHalted(c, en) PROVE PidInv'
  <2>1. PICK x, r, e, h : InHand(c, en, x, r, e, h) /\ GoOn(h, c, x)
    BY <1>1 DEF ChannelHalted, InHand
  <2>2. SameSetup
    BY <1>1, NothingSkipped DEF ChannelHalted
  <2>3. x \in StageRecord /\ x.urb = r
    BY <2>1, InHandType
  <2> QED BY <2>1, <2>2, <2>3, PidGoOn
<1>2. ASSUME NEW s \in Slots, stage_interval(s) PROVE PidInv'
  <2> DEFINE x == StageData[s]
             c == x.channel
             y == [x EXCEPT !.state = IF IsSplit[endpoint[x.urb]] THEN "StartSplit"
                                                                  ELSE "NoSplitTransfer"]
  <2>1. s \in delayed /\ HostBecomes(start_transaction(Host, c, y))
    BY <1>2 DEF stage_interval
  <2>2. UNCHANGED <<endpoint, kind, context>> /\ nextPID' = nextPID /\ clean' = clean
    BY <1>2 DEF stage_interval, request
  <2>3. /\ Paired(Host, endpoint) /\ Called(Host, delayed, {}) /\ Host \in HostRecord
        /\ Host.sd = stageData /\ Host.slots = StageData
    BY Zenon DEF IInv, Paired, Host
  <2>4. x \in StageRecord /\ x.urb # NULL
    BY <2>1, <2>3 DEF Called, HostRecord
  <2>5. c \in Channels /\ Host.sd[c] = s
    BY <2>3, <2>4, Zenon DEF Paired, HostRecord
  <2>6. y \in StageRecord /\ y.urb = x.urb /\ y.packets = x.packets
    BY <2>4 DEF StageRecord, StageStates
  <2> HIDE DEF y, c
  <2>7. /\ \A t \in Slots : t # s => StageData'[t] = StageData[t]
        /\ StageData'[s].urb = x.urb /\ StageData'[s].packets = x.packets
    BY <2>1, <2>3, <2>5, <2>6, StartSlots, Zenon
  <2>8. nextPID' \in [Endpoints -> PIDs] /\ clean' \in [Endpoints -> BOOLEAN]
    BY <2>2 DEF PidInv, PidType
  <2> QED BY <2>2, <2>7, <2>8, PidKept, Zenon
<1> QED BY <1>1, <1>2

(* A control endpoint whose transactions all went well sends Setup first   *)
(* in a request and in no other stage, through every stage, retry, delay   *)
(* and number of data packets (EndpointSkipPID, HostSubmitAsyncRequest).   *)
THEOREM SetupIsFirst == Spec => []SetupFirst
<1>1. Init => PidInv
  <2> SUFFICES ASSUME Init PROVE PidInv
    OBVIOUS
  <2>1. \A r \in Urbs : endpoint[r] = NULL /\ ~OnControl(r)
    BY NullApart DEF Init, OnControl
  <2>2. SetupFirst
    BY <2>1, NullApart DEF Init, SetupFirst
  <2>3. PidType
    BY DEF Init, PidType, Kinds, PIDs
  <2> QED BY <2>1, <2>2, <2>3, NullApart DEF Init, PidInv, InStages, OneRequest, OnePacket, FreeSlot
<1>2. IInv /\ PidInv /\ [Next]_vars => PidInv'
  <2> SUFFICES ASSUME IInv, PidInv, [Next]_vars PROVE PidInv'
    OBVIOUS
  <2>1. ASSUME NEW e \in Endpoints, NEW k \in Kinds, HostEndpointControlMessage(e, k) PROVE PidInv'
    BY <2>1, PidSubmit DEF HostEndpointControlMessage
  <2>2. ASSUME NEW e \in Endpoints, HostEndpointTransfer(e) PROVE PidInv'
    BY <2>2, PidSubmit DEF HostEndpointTransfer, Kinds
  <2>3. ASSUME NEW c \in Channels, NEW en \in BOOLEAN, NEW result \in Results,
               TransactionComplete(c, result, en)
        PROVE  PidInv'
    BY <2>3, PidTransaction
  <2>4. CASE UNCHANGED vars
    <3>1. UNCHANGED <<endpoint, kind, context, StageData>> /\ nextPID' = nextPID /\ clean' = clean
      BY <2>4 DEF vars, request, host
    <3>2. nextPID' \in [Endpoints -> PIDs] /\ clean' \in [Endpoints -> BOOLEAN]
      BY <3>1 DEF PidInv, PidType
    <3> QED BY <3>1, <3>2, PidKept
  <2> QED BY <2>1, <2>2, <2>3, <2>4, PidRestart DEF Next
<1>3. PidInv => SetupFirst
  BY DEF PidInv
<1> QED BY Inductive, <1>1, <1>2, <1>3, PTL DEF Spec
=============================================================================
