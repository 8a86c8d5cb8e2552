---------------------------- MODULE UsbHostProofs ----------------------------
(***************************************************************************)
(* What the routines of host.c do to the channels, for any number of       *)
(* requests, channels and endpoints: taking an interrupt, freeing a        *)
(* channel, starting a stage on one, going on with a stage, delaying it    *)
(* and completing a request keep channels, stage data and requests paired. *)
(***************************************************************************)
EXTENDS UsbHost, WellFoundedInduction, TLAPS

(* The time each step may take. *)
USE SMTT(30), ZenonT(40)

StageRecord == [urb : Urbs \cup {NULL}, channel : Channels \cup {NULL},
                state : StageStates, subState : SubStates, packets : Int, tries : Int]

HostRecord == [alloc : SUBSET Channels, sd : [Channels -> Slots \cup {NULL}],
               slots : [Slots -> StageRecord], en : [Channels -> BOOLEAN],
               um : SUBSET Channels]

(* OneToOne of a host h when the requests have endpoints ep: in place of   *)
(* the channel that exists for a slot, the one the slot itself names.      *)
Paired(h, ep) ==
  /\ h \in HostRecord
  /\ \A c \in Channels : c \in h.alloc <=> h.sd[c] # NULL
  /\ \A c \in h.alloc :
       /\ h.slots[h.sd[c]].channel = c
       /\ h.slots[h.sd[c]].urb \in Urbs
       /\ ep[h.slots[h.sd[c]].urb] # NULL
  /\ \A s \in Slots : h.slots[s].urb # NULL =>
       h.slots[s].channel \in h.alloc /\ h.sd[h.slots[s].channel] = s
  /\ \A s, t \in Slots : h.slots[s].urb # NULL /\ h.slots[s].urb = h.slots[t].urb => s = t

(* CallbacksFindTransfer of h, with the timers dl, except that the         *)
(* channels in C are in the hands of their handler, nothing calls them.    *)
Called(h, dl, C) ==
  /\ h.um \subseteq h.alloc \ C
  /\ \A c \in h.alloc : h.sd[c] \notin dl <=> c \in h.um \cup C
  /\ \A s \in Slots : (\A c \in C : h.sd[c] # s) =>
       (s \in dl <=> h.slots[s].urb # NULL /\ h.slots[s].state = "PeriodicDelay")
  /\ dl \subseteq Slots

Busy(h, r) == \E s \in Slots : h.slots[s].urb = r

(* The inductive invariant. *)
IInv ==
  /\ endpoint \in [Urbs -> Endpoints \cup {NULL}]
  /\ context \in [Urbs -> Int] /\ status \in [Urbs -> Int]
  /\ Paired(Host, endpoint)
  /\ Called(Host, delayed, {})
  /\ NotLostBetweenStages

(* NULL is neither a request, a slot, a channel nor an endpoint. *)
LEMMA NullApart == NULL \notin Urbs /\ NULL \notin Slots /\ NULL \notin Channels
                   /\ NULL \notin Endpoints
  BY HostAssumption DEF Urbs, Slots, Channels

(* A set of naturals that is not empty has a least element. *)
LEMMA LeastNat ==
  ASSUME NEW T \in SUBSET Nat, T # {}
  PROVE  \E m \in T : \A k \in T : m <= k
<1> DEFINE R == OpToRel(<, Nat)
<1>1. PICK m \in T : \A k \in T : ~(<<k, m>> \in R)
  <2>1. IsWellFoundedOn(R, Nat)
    BY NatLessThanWellFounded, Zenon
  <2> HIDE DEF R
  <2> QED BY <2>1, WFMin, Zenon
<1>2. ASSUME NEW k \in T PROVE m <= k
  <2>1. k \in Nat /\ m \in Nat
    OBVIOUS
  <2>2. ~(k < m)
    BY <1>1, <2>1, Zenon DEF OpToRel
  <2> QED BY <2>1, <2>2
<1> QED BY <1>2

(* A set of naturals with 0 and every successor is all of them. *)
LEMMA SetInduction ==
  ASSUME NEW S \in SUBSET Nat, 0 \in S, \A n \in S : n + 1 \in S
  PROVE  S = Nat
<1> SUFFICES ASSUME Nat \ S # {} PROVE FALSE
  BY Zenon
<1>1. PICK m \in Nat \ S : \A k \in Nat \ S : m <= k
  BY LeastNat, Zenon
<1>2. m - 1 \in S
  BY <1>1
<1> QED BY <1>1, <1>2

(* No more than n pigeons have a hole each of n. *)
LEMMA Pigeonhole ==
  ASSUME NEW n \in Nat, NEW m \in Nat, NEW q \in [1 .. m -> 1 .. n],
         \A i, j \in 1 .. m : q[i] = q[j] => i = j
  PROVE  m <= n
<1> DEFINE Fits(k) == \A l \in Nat : \A f \in [1 .. l -> 1 .. k] :
                        (\A i, j \in 1 .. l : f[i] = f[j] => i = j) => l <= k
           S == {k \in Nat : Fits(k)}
<1>1. 0 \in S
  <2>1. ASSUME NEW l \in Nat, NEW f \in [1 .. l -> 1 .. 0] PROVE l <= 0
    <3> SUFFICES ASSUME 1 \in 1 .. l PROVE FALSE
      OBVIOUS
    <3>1. f[1] \in 1 .. 0
      OBVIOUS
    <3> QED BY <3>1
  <2> QED BY <2>1
<1>2. ASSUME NEW k \in S PROVE k + 1 \in S
  <2>1. ASSUME NEW l \in Nat, NEW f \in [1 .. l -> 1 .. k + 1], l > 0,
               \A i, j \in 1 .. l : f[i] = f[j] => i = j
        PROVE  l <= k + 1
    <3> DEFINE g == [i \in 1 .. l - 1 |-> IF f[i] = k + 1 THEN f[l] ELSE f[i]]
    <3>1. l - 1 \in Nat /\ l \in 1 .. l /\ 1 .. l - 1 \subseteq 1 .. l
      BY <2>1
    <3>2. ASSUME NEW i \in 1 .. l - 1 PROVE g[i] \in 1 .. k
      <4>1. i \in 1 .. l /\ i # l /\ f[i] \in 1 .. k + 1 /\ f[l] \in 1 .. k + 1
        BY <3>1
      <4>2. f[i] # f[l]
        BY <2>1, <3>1, <4>1
      <4> QED BY <4>1, <4>2
    <3>3. ASSUME NEW i \in 1 .. l - 1, NEW j \in 1 .. l - 1, g[i] = g[j] PROVE i = j
      <4>1. i \in 1 .. l /\ j \in 1 .. l /\ i # l /\ j # l
        BY <3>1
      <4>2. f[i] # f[l] /\ f[j] # f[l] /\ (f[i] = f[j] => i = j)
        BY <2>1, <3>1, <4>1
      <4> QED BY <3>3, <4>2
    <3>4. g \in [1 .. l - 1 -> 1 .. k]
      BY <3>2
    <3>5. l - 1 <= k
      <4> HIDE DEF g
      <4>1. Fits(k)
        BY Zenon
      <4> QED BY <3>1, <3>3, <3>4, <4>1, Zenon
    <3> QED BY <3>5
  <2>2. Fits(k + 1)
    <3>1. ASSUME NEW l \in Nat, NEW f \in [1 .. l -> 1 .. k + 1],
                 \A i, j \in 1 .. l : f[i] = f[j] => i = j
          PROVE  l <= k + 1
      <4>1. CASE l = 0
        BY <4>1
      <4>2. CASE l > 0
        BY <3>1, <4>2, <2>1, Zenon
      <4> QED BY <4>1, <4>2
    <3> QED BY <3>1
  <2> QED BY <2>2
<1>3. S = Nat
  <2>1. S \in SUBSET Nat
    OBVIOUS
  <2> HIDE DEF S
  <2> QED BY <1>1, <1>2, <2>1, SetInduction, Zenon
<1>4. Fits(n)
  BY <1>3, Zenon
<1> QED BY <1>4

(* Least takes one of a set of numbers: of the requests, the slots or the  *)
(* channels that are free.                                                 *)
LEMMA LeastIn ==
  ASSUME NEW n \in Nat, NEW S \in SUBSET (1 .. n), S # {}
  PROVE  Least(S) \in S
<1>1. S \in SUBSET Nat
  OBVIOUS
<1>2. \E x \in S : \A y \in S : x <= y
  BY <1>1, LeastNat, Zenon
<1> QED BY <1>2, Zenon DEF Least

-----------------------------------------------------------------------------
(* TransfersTracked follows from the invariant. *)
LEMMA InvTracks == IInv => TransfersTracked
<1> SUFFICES ASSUME IInv PROVE TransfersTracked
  OBVIOUS
<1>1. OneToOne
  BY DEF IInv, Paired, Host, OneToOne
<1>2. CallbacksFindTransfer
  BY DEF IInv, Called, Host, CallbacksFindTransfer
<1> QED BY <1>1, <1>2 DEF TransfersTracked

(* As many slots as requests: while a request is free a slot is, so that   *)
(* NewRequest's success is also TransferStageAttach's.                     *)
LEMMA SlotForRequest ==
  ASSUME NEW h, NEW ep, Paired(h, ep), NEW r \in Urbs, ep[r] = NULL
  PROVE  FreeSlots(h.slots) # {}
<1> SUFFICES ASSUME \A s \in Slots : h.slots[s].urb # NULL PROVE FALSE
  BY DEF FreeSlots
<1>1. \A s \in Slots : h.slots[s].urb \in Urbs /\ h.slots[s].urb # r
  BY DEF Paired
<1>2. \A s, t \in Slots : h.slots[s].urb = h.slots[t].urb => s = t
  BY DEF Paired
<1> DEFINE n == MaxRequests
           f == [s \in 1 .. n |-> IF h.slots[s].urb = n THEN r ELSE h.slots[s].urb]
<1>3. n \in Nat /\ n - 1 \in Nat /\ Slots = 1 .. n /\ Urbs = 1 .. n
  BY HostAssumption DEF Slots, Urbs
<1>4. \A s \in 1 .. n : f[s] \in 1 .. n - 1
  BY <1>1, <1>3
<1>5. f \in [1 .. n -> 1 .. n - 1]
  BY <1>4, Zenon
<1>6. \A s, t \in 1 .. n : f[s] = f[t] => s = t
  BY <1>1, <1>2, <1>3
<1>7. n <= n - 1
  <2> HIDE DEF n, f
  <2> QED BY <1>3, <1>5, <1>6, Pigeonhole, Zenon
<1> QED BY <1>3, <1>7

-----------------------------------------------------------------------------
(* Taken: the handler of channel c has it in hand, and the interrupt is    *)
(* for a transfer that is not in its delay.                                *)
LEMMA TakenHolds ==
  ASSUME IInv, NEW c \in Channels, c \in unmasked, NEW en \in BOOLEAN
  PROVE  /\ Paired(Taken(c, en), endpoint)
         /\ Called(Taken(c, en), delayed, {c})
         /\ c \in Taken(c, en).alloc
         /\ Taken(c, en).sd = stageData /\ Taken(c, en).slots = StageData
         /\ StageData[stageData[c]].state # "PeriodicDelay"
<1>1. Host \in HostRecord
  BY DEF IInv, Paired
<1>2. c \in channelAllocated /\ stageData[c] \in Slots /\ stageData[c] \notin delayed
  BY NullApart, <1>1 DEF IInv, Called, Paired, Host, HostRecord
<1>3. StageData[stageData[c]].urb # NULL
  BY <1>2, NullApart DEF IInv, Paired, Host
<1>4. /\ Taken(c, en).alloc = channelAllocated /\ Taken(c, en).sd = stageData
      /\ Taken(c, en).slots = StageData /\ Taken(c, en).um = unmasked \ {c}
  BY <1>1 DEF Taken, Host, HostRecord
<1>5. Taken(c, en) \in HostRecord
  BY <1>1, Zenon DEF Taken, Host, HostRecord
<1>6. Paired(Taken(c, en), endpoint)
  BY <1>4, <1>5 DEF IInv, Paired, Host
<1>7. Called(Taken(c, en), delayed, {c})
  BY <1>2, <1>4 DEF IInv, Called, Host
<1> QED BY <1>2, <1>3, <1>4, <1>6, <1>7 DEF IInv, Called, Host

(* free_stage_data and free_channel: what a handler has in hand is given   *)
(* back; its request is no longer under way, the others are as before.     *)
LEMMA FreedHolds ==
  ASSUME NEW h, NEW ep, NEW dl, NEW c \in Channels, Paired(h, ep), Called(h, dl, {c}),
         c \in h.alloc
  PROVE  /\ Paired(Freed(h, c), ep)
         /\ Called(Freed(h, c), dl, {})
         /\ c \notin Freed(h, c).alloc
         /\ h.sd[c] \in FreeSlots(Freed(h, c).slots)
         /\ ~Busy(Freed(h, c), h.slots[h.sd[c]].urb)
         /\ \A q \in Urbs : q # h.slots[h.sd[c]].urb => (Busy(Freed(h, c), q) <=> Busy(h, q))
<1> DEFINE g == Freed(h, c)
           s == h.sd[c]
<1>1. h \in HostRecord /\ s \in Slots /\ h.slots[s].urb \in Urbs /\ h.slots[s].channel = c
  BY NullApart DEF Paired, HostRecord
<1>2. FreeSlot \in StageRecord /\ FreeSlot.urb = NULL /\ FreeSlot.state = "NoSplitTransfer"
  BY DEF FreeSlot, StageRecord, StageStates, SubStates
<1>3. /\ g.alloc = h.alloc \ {c} /\ g.sd = [h.sd EXCEPT ![c] = NULL] /\ g.um = h.um
      /\ g.slots = [h.slots EXCEPT ![s] = FreeSlot] /\ g \in HostRecord
  BY <1>1, <1>2, Zenon DEF Freed, HostRecord
<1> HIDE DEF g
<1>4. h.slots \in [Slots -> StageRecord] /\ h.sd \in [Channels -> Slots \cup {NULL}]
      /\ h.alloc \subseteq Channels
  BY <1>1 DEF HostRecord
<1>5. \A t \in Slots : g.slots[t] = IF t = s THEN FreeSlot ELSE h.slots[t]
  BY <1>3, <1>4
<1>6. \A d \in Channels : g.sd[d] = IF d = c THEN NULL ELSE h.sd[d]
  BY <1>3, <1>4
<1>7. \A d \in h.alloc : h.sd[d] = s => d = c
  BY <1>1, Zenon DEF Paired
<1>8. \A d \in g.alloc : d # c /\ h.sd[d] \in Slots /\ h.sd[d] # s
  <2>1. \A d \in h.alloc : h.sd[d] # NULL
    BY <1>4, Zenon DEF Paired
  <2> QED BY <1>3, <1>4, <1>7, <2>1
<1>9. Paired(g, ep)
  <2>1. \A d \in Channels : d \in g.alloc <=> g.sd[d] # NULL
    <3>1. \A d \in Channels : d \in h.alloc <=> h.sd[d] # NULL
      BY Zenon DEF Paired
    <3> QED BY <1>3, <1>6, <3>1
  <2>2. \A d \in g.alloc : /\ g.slots[g.sd[d]].channel = d
                           /\ g.slots[g.sd[d]].urb \in Urbs
                           /\ ep[g.slots[g.sd[d]].urb] # NULL
    <3>1. \A d \in h.alloc : /\ h.slots[h.sd[d]].channel = d
                             /\ h.slots[h.sd[d]].urb \in Urbs
                             /\ ep[h.slots[h.sd[d]].urb] # NULL
      BY Zenon DEF Paired
    <3> QED BY <1>3, <1>4, <1>5, <1>6, <1>8, <3>1
  <2>3. ASSUME NEW t \in Slots, g.slots[t].urb # NULL
        PROVE  g.slots[t].channel \in g.alloc /\ g.sd[g.slots[t].channel] = t
    <3>1. t # s /\ g.slots[t] = h.slots[t]
      BY <2>3, <1>2, <1>5
    <3>2. h.slots[t].channel \in h.alloc /\ h.sd[h.slots[t].channel] = t
      BY <3>1, <2>3, Zenon DEF Paired
    <3> QED BY <3>1, <3>2, <1>3, <1>4, <1>6
  <2>4. \A t, v \in Slots : g.slots[t].urb # NULL /\ g.slots[t].urb = g.slots[v].urb => t = v
    <3>1. \A t, v \in Slots : h.slots[t].urb # NULL /\ h.slots[t].urb = h.slots[v].urb => t = v
      BY Zenon DEF Paired
    <3> QED BY <1>2, <1>5, <3>1
  <2> QED BY <1>3, <2>1, <2>2, <2>3, <2>4, Zenon DEF Paired
<1>10. Called(g, dl, {})
  <2>1. g.um \subseteq g.alloc
    BY <1>3 DEF Called
  <2>2. \A d \in g.alloc : g.sd[d] \notin dl <=> d \in g.um
    BY <1>3, <1>4, <1>6 DEF Called
  <2>3. s \notin dl
    BY DEF Called
  <2>4. \A t \in Slots : t \in dl <=> g.slots[t].urb # NULL /\ g.slots[t].state = "PeriodicDelay"
    BY <1>2, <1>5, <2>3 DEF Called
  <2> QED BY <2>1, <2>2, <2>4 DEF Called
<1>11. s \in FreeSlots(g.slots) /\ c \notin g.alloc
  BY <1>1, <1>2, <1>3, <1>5 DEF FreeSlots
<1>12. ~Busy(g, h.slots[s].urb)
  BY <1>1, <1>2, <1>5, NullApart DEF Busy, Paired
<1>13. \A q \in Urbs : q # h.slots[s].urb => (Busy(g, q) <=> Busy(h, q))
  BY <1>1, <1>2, <1>5, NullApart DEF Busy
<1> QED BY <1>9, <1>10, <1>11, <1>12, <1>13 DEF g

(* start_transaction on a channel in hand, for the same request: it is     *)
(* called back again.                                                      *)
LEMMA StartHolds ==
  ASSUME NEW h, NEW ep, NEW dl, NEW c \in Channels, Paired(h, ep), Called(h, dl, {c}),
         c \in h.alloc, NEW x \in StageRecord, x.state # "PeriodicDelay",
         x.urb = h.slots[h.sd[c]].urb, x.channel = c
  PROVE  /\ Paired(start_transaction(h, c, x), ep)
         /\ Called(start_transaction(h, c, x), dl, {})
         /\ \A q \in Urbs : Busy(start_transaction(h, c, x), q) <=> Busy(h, q)
<1> DEFINE g == start_transaction(h, c, x)
           s == h.sd[c]
           y == [x EXCEPT !.subState = IF h.en[c] THEN "WaitForChannelDisable"
                                                  ELSE "WaitForTransactionComplete"]
<1>1. h \in HostRecord /\ s \in Slots /\ h.slots[s].urb \in Urbs /\ h.slots[s].channel = c
  BY NullApart DEF Paired, HostRecord
<1>2. y \in StageRecord /\ y.urb = x.urb /\ y.state = x.state /\ y.channel = x.channel
  BY DEF StageRecord, SubStates
<1>3. /\ g.alloc = h.alloc /\ g.sd = h.sd /\ g.um = h.um \cup {c}
      /\ g.slots = [h.slots EXCEPT ![s] = y] /\ g \in HostRecord
  BY <1>1, <1>2, Zenon DEF start_transaction, HostRecord
<1> HIDE DEF g, y
<1>4. h.slots \in [Slots -> StageRecord] /\ h.sd \in [Channels -> Slots \cup {NULL}]
      /\ h.alloc \subseteq Channels
  BY <1>1 DEF HostRecord
<1>5. \A t \in Slots : /\ g.slots[t].urb = h.slots[t].urb
                       /\ t # s => g.slots[t] = h.slots[t]
  BY <1>2, <1>3, <1>4
<1>u. g.alloc = h.alloc /\ g.sd = h.sd /\ \A t \in Slots : g.slots[t].urb = h.slots[t].urb
  BY <1>3, <1>5, Zenon
<1>6. g.slots[s] = y
  BY <1>1, <1>3, <1>4
<1>7. \A d \in h.alloc : h.sd[d] \in Slots
  <2>1. \A d \in h.alloc : h.sd[d] # NULL
    BY <1>4, Zenon DEF Paired
  <2> QED BY <1>4, <2>1
<1>8. \A t \in Slots : g.slots[t].channel = h.slots[t].channel
  BY <1>1, <1>2, <1>5, <1>6
<1>9. Paired(g, ep)
  <2>1. \A d \in g.alloc : /\ g.slots[g.sd[d]].channel = d
                           /\ g.slots[g.sd[d]].urb \in Urbs
                           /\ ep[g.slots[g.sd[d]].urb] # NULL
    <3>1. \A d \in h.alloc : /\ h.slots[h.sd[d]].channel = d
                             /\ h.slots[h.sd[d]].urb \in Urbs
                             /\ ep[h.slots[h.sd[d]].urb] # NULL
      BY Zenon DEF Paired
    <3> QED BY <1>u, <1>7, <1>8, <3>1
  <2>2. \A t \in Slots : g.slots[t].urb # NULL =>
          g.slots[t].channel \in g.alloc /\ g.sd[g.slots[t].channel] = t
    <3>1. \A t \in Slots : h.slots[t].urb # NULL =>
            h.slots[t].channel \in h.alloc /\ h.sd[h.slots[t].channel] = t
      BY Zenon DEF Paired
    <3> QED BY <1>u, <1>8, <3>1
  <2>3. \A t, v \in Slots : g.slots[t].urb # NULL /\ g.slots[t].urb = g.slots[v].urb => t = v
    <3>1. \A t, v \in Slots : h.slots[t].urb # NULL /\ h.slots[t].urb = h.slots[v].urb => t = v
      BY Zenon DEF Paired
    <3> QED BY <1>u, <3>1
  <2>4. \A d \in Channels : d \in g.alloc <=> g.sd[d] # NULL
    BY <1>3, Zenon DEF Paired
  <2> QED BY <1>3, <2>1, <2>2, <2>3, <2>4, Zenon DEF Paired
<1>10. Called(g, dl, {})
  <2>1. s \notin dl
    BY DEF Called
  <2>2. \A t \in Slots : t \in dl <=> g.slots[t].urb # NULL /\ g.slots[t].state = "PeriodicDelay"
    BY <1>2, <1>5, <1>6, <2>1 DEF Called
  <2> QED BY <1>3, <2>2 DEF Called
<1>11. \A q \in Urbs : Busy(g, q) <=> Busy(h, q)
  BY <1>5 DEF Busy
<1> QED BY <1>9, <1>10, <1>11 DEF g

(* The end of a handler: the host's state is what it computed. *)
LEMMA BecomesHolds ==
  ASSUME NEW h, NEW ep, NEW dl, Paired(h, ep), Called(h, dl, {}), HostBecomes(h)
  PROVE  /\ Paired(Host', ep)
         /\ Called(Host', dl, {})
         /\ \A q \in Urbs : InProgress(q)' <=> Busy(h, q)
<1>1. /\ Host'.alloc = h.alloc /\ Host'.sd = h.sd /\ Host'.slots = h.slots
      /\ Host'.um = h.um /\ Host'.en = h.en
  BY DEF HostBecomes, Host
<1>2. Host' \in HostRecord
  BY DEF HostBecomes, Host, HostRecord, Paired
<1>3. Paired(Host', ep)
  BY <1>1, <1>2 DEF Paired
<1>4. Called(Host', dl, {})
  BY <1>1 DEF Called
<1>5. \A q \in Urbs : InProgress(q)' <=> Busy(h, q)
  BY DEF HostBecomes, InProgress, Busy
<1> QED BY <1>3, <1>4, <1>5

(* transfer_stage_async for a request that is not under way: it takes a    *)
(* free channel and a free slot, or there is no channel and nothing        *)
(* changes.                                                                *)
LEMMA SubmitHolds ==
  ASSUME NEW h, NEW ep, NEW dl, Paired(h, ep), Called(h, dl, {}), FreeSlots(h.slots) # {},
         NEW r \in Urbs, ep[r] # NULL, ~Busy(h, r), NEW e, NEW k, NEW n,
         transfer_stage_async(h, r, e, k, n)
  PROVE  /\ Paired(Host', ep)
         /\ Called(Host', dl, {})
         /\ \A q \in Urbs : q # r => (InProgress(q)' <=> Busy(h, q))
         /\ h.alloc # Channels => InProgress(r)'
<1>1. CASE h.alloc = Channels
  <2>1. HostBecomes(h)
    BY <1>1 DEF transfer_stage_async
  <2> QED BY <1>1, <2>1, BecomesHolds
<1>2. CASE h.alloc # Channels
  <2> DEFINE c == Least(Channels \ h.alloc)
             s == Least(FreeSlots(h.slots))
             g == [h EXCEPT !.alloc = @ \cup {c}, !.sd[c] = s]
             x(p) == [urb |-> r, channel |-> c, packets |-> p, tries |-> 0,
                      state |-> IF IsSplit[e] THEN "StartSplit" ELSE "NoSplitTransfer",
                      subState |-> "WaitForChannelDisable"]
             y(p) == [x(p) EXCEPT !.subState = IF g.en[c] THEN "WaitForChannelDisable"
                                               ELSE "WaitForTransactionComplete"]
  <2>1. h \in HostRecord
    BY DEF Paired
  <2>2. c \in Channels \ h.alloc
    BY <1>2, <2>1, LeastIn, HostAssumption, Zenon DEF Channels, HostRecord
  <2>3. s \in Slots /\ h.slots[s].urb = NULL
    <3>1. FreeSlots(h.slots) \in SUBSET (1 .. MaxRequests)
      BY DEF FreeSlots, Slots
    <3>2. s \in FreeSlots(h.slots)
      BY <3>1, LeastIn, HostAssumption, Zenon
    <3> QED BY <3>2 DEF FreeSlots
  <2>4. PICK p \in Packets(k, n) : HostBecomes(start_transaction(g, c, x(p)))
    BY <1>2, Zenon DEF transfer_stage_async
  <2>5. p \in Int
    BY HostAssumption DEF Packets
  <2> HIDE DEF c, s
  <2>6. y(p) \in StageRecord /\ y(p).urb = r /\ y(p).channel = c /\ y(p).state # "PeriodicDelay"
    BY <2>2, <2>5 DEF StageRecord, StageStates, SubStates
  <2>7. /\ g.alloc = h.alloc \cup {c} /\ g.sd = [h.sd EXCEPT ![c] = s] /\ g.slots = h.slots
        /\ g.um = h.um /\ g \in HostRecord
    BY <2>1, <2>2, <2>3, Zenon DEF HostRecord
  <2> HIDE DEF g
  <2>8. g.sd[c] = s
    BY <2>1, <2>2, <2>7 DEF HostRecord
  <2> DEFINE z == start_transaction(g, c, x(p))
  <2>9. /\ z.alloc = g.alloc /\ z.sd = g.sd /\ z.um = g.um \cup {c}
        /\ z.slots = [g.slots EXCEPT ![s] = y(p)] /\ z \in HostRecord
    BY <2>2, <2>3, <2>6, <2>7, <2>8, Zenon DEF start_transaction, HostRecord
  <2> HIDE DEF x, y, z
  <2>10. h.slots \in [Slots -> StageRecord] /\ h.sd \in [Channels -> Slots \cup {NULL}]
    BY <2>1 DEF HostRecord
  <2>11. \A t \in Slots : z.slots[t] = IF t = s THEN y(p) ELSE h.slots[t]
    BY <2>3, <2>7, <2>9, <2>10
  <2>12. \A d \in Channels : z.sd[d] = IF d = c THEN s ELSE h.sd[d]
    BY <2>2, <2>7, <2>9, <2>10
  <2>13. \A d \in h.alloc : d \in Channels /\ d # c /\ h.sd[d] \in Slots /\ h.sd[d] # s
    BY <2>1, <2>2, <2>3, <2>10, NullApart DEF Paired, HostRecord
  <2>14. z.alloc = h.alloc \cup {c} /\ z.um = h.um \cup {c}
    BY <2>7, <2>9
  <2>15. \A t \in Slots : h.slots[t].urb # r
    BY DEF Busy
  <2>16. Paired(z, ep)
    <3>1. \A d \in Channels : d \in z.alloc <=> z.sd[d] # NULL
      BY <2>3, <2>12, <2>14, NullApart DEF Paired
    <3>2. \A d \in z.alloc : /\ z.slots[z.sd[d]].channel = d
                             /\ z.slots[z.sd[d]].urb \in Urbs
                             /\ ep[z.slots[z.sd[d]].urb] # NULL
      <4>1. \A d \in h.alloc : /\ h.slots[h.sd[d]].channel = d
                               /\ h.slots[h.sd[d]].urb \in Urbs
                               /\ ep[h.slots[h.sd[d]].urb] # NULL
        BY Zenon DEF Paired
      <4> QED BY <2>2, <2>3, <2>6, <2>11, <2>12, <2>13, <2>14, <4>1
    <3>3. \A t \in Slots : z.slots[t].urb # NULL =>
            z.slots[t].channel \in z.alloc /\ z.sd[z.slots[t].channel] = t
      <4>1. \A t \in Slots : h.slots[t].urb # NULL =>
              h.slots[t].channel \in h.alloc /\ h.sd[h.slots[t].channel] = t
        BY Zenon DEF Paired
      <4> QED BY <2>2, <2>3, <2>6, <2>11, <2>12, <2>13, <2>14, <4>1
    <3>4. \A t, v \in Slots : z.slots[t].urb # NULL /\ z.slots[t].urb = z.slots[v].urb => t = v
      <4>1. \A t, v \in Slots : h.slots[t].urb # NULL /\ h.slots[t].urb = h.slots[v].urb => t = v
        BY Zenon DEF Paired
      <4> QED BY <2>6, <2>11, <2>15, <4>1
    <3> QED BY <2>9, <3>1, <3>2, <3>3, <3>4, Zenon DEF Paired
  <2>17. Called(z, dl, {})
    <3>1. s \notin dl
      BY <2>3 DEF Called
    <3>2. \A t \in Slots : t \in dl <=> z.slots[t].urb # NULL /\ z.slots[t].state = "PeriodicDelay"
      BY <2>6, <2>11, <3>1 DEF Called
    <3>3. \A d \in z.alloc : z.sd[d] \notin dl <=> d \in z.um
      BY <2>2, <2>12, <2>13, <2>14, <3>1 DEF Called
    <3> QED BY <2>14, <3>2, <3>3 DEF Called
  <2>18. Busy(z, r) /\ \A q \in Urbs : q # r => (Busy(z, q) <=> Busy(h, q))
    BY <2>3, <2>6, <2>11, NullApart DEF Busy
  <2> QED BY <2>4, <2>16, <2>17, <2>18, BecomesHolds DEF z
<1> QED BY <1>1, <1>2

-----------------------------------------------------------------------------
(* A handler that leaves requests alone, and every request under way that  *)
(* was, loses none.                                                        *)
LEMMA SameRequests ==
  ASSUME IInv, UNCHANGED <<endpoint, context, status>>,
         \A q \in Urbs : InProgress(q)' <=> InProgress(q),
         Paired(Host', endpoint), Called(Host', delayed', {})
  PROVE  IInv'
<1>1. NotLostBetweenStages'
  BY DEF IInv, NotLostBetweenStages
<1> QED BY <1>1 DEF IInv

(* The transfer of channel c goes on: start_transaction after an           *)
(* interrupt, with stage data that is for the same request.                *)
LEMMA GoOnHolds ==
  ASSUME IInv, NEW c \in Channels, c \in unmasked, NEW en \in BOOLEAN, NEW x \in StageRecord,
         x.state # "PeriodicDelay", x.urb = StageData[stageData[c]].urb, x.channel = c,
         GoOn(Taken(c, en), c, x)
  PROVE  IInv'
<1> DEFINE h == Taken(c, en)
<1>1. /\ Paired(h, endpoint) /\ Called(h, delayed, {c}) /\ c \in h.alloc
      /\ h.sd = stageData /\ h.slots = StageData
  BY TakenHolds
<1>2. HostBecomes(start_transaction(h, c, x)) /\ UNCHANGED <<endpoint, context, status, delayed>>
  BY DEF GoOn
<1> HIDE DEF h
<1>3. /\ Paired(start_transaction(h, c, x), endpoint)
      /\ Called(start_transaction(h, c, x), delayed, {})
      /\ \A q \in Urbs : Busy(start_transaction(h, c, x), q) <=> Busy(h, q)
  BY <1>1, StartHolds, Zenon
<1>4. /\ Paired(Host', endpoint) /\ Called(Host', delayed, {})
      /\ \A q \in Urbs : InProgress(q)' <=> Busy(start_transaction(h, c, x), q)
  BY <1>2, <1>3, BecomesHolds
<1>5. \A q \in Urbs : Busy(h, q) <=> InProgress(q)
  BY <1>1 DEF Busy, InProgress
<1> QED BY <1>2, <1>3, <1>4, <1>5, SameRequests

(* The transfer of channel c begins its delay. *)
LEMMA DelayHolds ==
  ASSUME IInv, NEW c \in Channels, c \in unmasked, NEW en \in BOOLEAN, NEW x \in StageRecord,
         x.urb = StageData[stageData[c]].urb, x.channel = c,
         PeriodicDelay(Taken(c, en), c, x)
  PROVE  IInv'
<1> DEFINE h == Taken(c, en)
           s == stageData[c]
           y == [x EXCEPT !.state = "PeriodicDelay"]
           g == [h EXCEPT !.slots[h.sd[c]] = y]
<1>1. /\ Paired(h, endpoint) /\ Called(h, delayed, {c}) /\ c \in h.alloc
      /\ h.sd = stageData /\ h.slots = StageData
  BY TakenHolds
<1>2. /\ HostBecomes(g) /\ delayed' = delayed \cup {s} /\ UNCHANGED <<endpoint, context, status>>
  BY <1>1 DEF PeriodicDelay
<1> HIDE DEF h
<1>3. h \in HostRecord /\ s \in Slots /\ h.slots[s].urb \in Urbs
  BY <1>1, NullApart DEF Paired, HostRecord
<1>4. y \in StageRecord /\ y.urb = x.urb /\ y.state = "PeriodicDelay" /\ y.channel = x.channel
  BY DEF StageRecord, StageStates
<1> HIDE DEF y
<1>5. /\ g.alloc = h.alloc /\ g.sd = h.sd /\ g.um = h.um
      /\ g.slots = [h.slots EXCEPT ![s] = y] /\ g \in HostRecord
  BY <1>1, <1>3, <1>4 DEF HostRecord
<1> HIDE DEF g
<1>6. h.slots \in [Slots -> StageRecord]
  BY <1>3 DEF HostRecord
<1>7. \A t \in Slots : g.slots[t] = IF t = s THEN y ELSE h.slots[t]
  BY <1>3, <1>5, <1>6
<1>8. \A d \in h.alloc : h.sd[d] \in Slots /\ (h.sd[d] = s => d = c)
  BY <1>1, <1>3, NullApart DEF Paired, HostRecord
<1>9. \A t \in Slots : g.slots[t].urb = h.slots[t].urb /\ g.slots[t].channel = h.slots[t].channel
  BY <1>1, <1>4, <1>7 DEF Paired
<1>10. Paired(g, endpoint)
  BY <1>1, <1>5, <1>8, <1>9 DEF Paired
<1>11. Called(g, delayed', {})
  <2>1. g.um \subseteq g.alloc /\ delayed' \subseteq Slots
    BY <1>1, <1>2, <1>3, <1>5 DEF Called
  <2>2. \A d \in g.alloc : g.sd[d] \notin delayed' <=> d \in g.um
    BY <1>1, <1>2, <1>5, <1>8 DEF Called
  <2>3. \A t \in Slots : t \in delayed' <=> g.slots[t].urb # NULL /\ g.slots[t].state = "PeriodicDelay"
    BY <1>1, <1>2, <1>3, <1>4, <1>7, <1>9, NullApart DEF Called
  <2> QED BY <2>1, <2>2, <2>3 DEF Called
<1>12. /\ Paired(Host', endpoint) /\ Called(Host', delayed', {})
       /\ \A q \in Urbs : InProgress(q)' <=> Busy(g, q)
  BY <1>2, <1>10, <1>11, BecomesHolds, Zenon
<1>13. \A q \in Urbs : Busy(g, q) <=> InProgress(q)
  BY <1>1, <1>9 DEF Busy, InProgress
<1> QED BY <1>2, <1>12, <1>13, SameRequests

(* The same when the completion routine submits a stage: it has freed the  *)
(* channel of the last one, so that there is one to take.                  *)
LEMMA SubmitsAgain ==
  ASSUME NEW h, Paired(h, endpoint), Called(h, delayed, {}), FreeSlots(h.slots) # {},
         h.alloc # Channels, NEW r \in Urbs, endpoint[r] # NULL, ~Busy(h, r), NEW e, NEW k, NEW n,
         transfer_stage_async(h, r, e, k, n)
  PROVE  /\ Paired(Host', endpoint) /\ Called(Host', delayed, {}) /\ InProgress(r)'
         /\ \A q \in Urbs : q # r => (InProgress(q)' <=> Busy(h, q))
  BY SubmitHolds, Zenon

(* The completion routine, called with the channel of the request given    *)
(* back: it submits the next stage, frees the request or submits it again. *)
LEMMA CompleteHolds ==
  ASSUME IInv, NEW c \in Channels, c \in unmasked, NEW en \in BOOLEAN, NEW r, NEW e, NEW st \in Int,
         r = StageData[stageData[c]].urb, Complete(c, Taken(c, en), r, e, st), UNCHANGED delayed
  PROVE  IInv'
<1> DEFINE h == Taken(c, en)
           f == Freed(h, c)
<1>1. /\ Paired(h, endpoint) /\ Called(h, delayed, {c}) /\ c \in h.alloc
      /\ h.sd = stageData /\ h.slots = StageData
  BY TakenHolds
<1>2. CallCompletion(f, r, e, st)
  BY DEF Complete
<1> HIDE DEF h
<1>3. /\ Paired(f, endpoint) /\ Called(f, delayed, {}) /\ f.alloc # Channels
      /\ FreeSlots(f.slots) # {} /\ ~Busy(f, r)
      /\ \A q \in Urbs : q # r => (Busy(f, q) <=> Busy(h, q))
  BY <1>1, FreedHolds
<1>4. r \in Urbs /\ endpoint[r] # NULL
  BY <1>1 DEF Paired
<1>5. \A q \in Urbs : Busy(h, q) <=> InProgress(q)
  BY <1>1 DEF Busy, InProgress
<1>t. /\ endpoint \in [Urbs -> Endpoints \cup {NULL}]
      /\ context \in [Urbs -> Int] /\ status \in [Urbs -> Int]
  BY Zenon DEF IInv
<1> HIDE DEF f
<1>6. ASSUME NEW k, NEW n, transfer_stage_async(f, r, e, k, n), UNCHANGED endpoint,
             context' \in [Urbs -> Int], status' \in [Urbs -> Int],
             \A q \in Urbs : q # r => context'[q] = context[q] /\ status'[q] = status[q]
      PROVE  IInv'
  <2>1. /\ Paired(Host', endpoint) /\ Called(Host', delayed, {}) /\ InProgress(r)'
        /\ \A q \in Urbs : q # r => (InProgress(q)' <=> Busy(f, q))
    BY <1>3, <1>4, <1>6, SubmitsAgain, Zenon
  <2>2. NotLostBetweenStages'
    BY <1>3, <1>5, <1>6, <2>1, Zenon DEF IInv, NotLostBetweenStages
  <2> QED BY <1>6, <2>1, <2>2, Zenon DEF IInv
<1>7. CASE HostSubmitAsyncRequest(f, r, e)
  <2>1. UNCHANGED endpoint /\ transfer_stage_async(f, r, e, kind[r], context[r] + 1)
    BY <1>7, Zenon DEF HostSubmitAsyncRequest
  <2>2. context' = [context EXCEPT ![r] = context[r] + 1]
    BY <1>7, Zenon DEF HostSubmitAsyncRequest
  <2>3. status' = [status EXCEPT ![r] = 0]
    BY <1>7, Zenon DEF HostSubmitAsyncRequest
  <2>4. context' \in [Urbs -> Int] /\ \A q \in Urbs : q # r => context'[q] = context[q]
    BY <1>4, <1>t, <2>2
  <2>5. status' \in [Urbs -> Int] /\ \A q \in Urbs : q # r => status'[q] = status[q]
    BY <1>4, <1>t, <2>3
  <2> QED BY <1>6, <2>1, <2>4, <2>5, Zenon
<1>8. CASE ClientResubmits(f, r, e)
  <2>1. /\ UNCHANGED <<endpoint, context>> /\ transfer_stage_async(f, r, e, kind[r], 0)
        /\ status' = [status EXCEPT ![r] = 0]
    BY <1>8 DEF ClientResubmits
  <2>2. context' \in [Urbs -> Int] /\ status' \in [Urbs -> Int]
    BY <1>4, <1>t, <2>1
  <2>3. \A q \in Urbs : q # r => context'[q] = context[q] /\ status'[q] = status[q]
    BY <1>4, <1>t, <2>1
  <2>4. UNCHANGED endpoint
    BY <2>1
  <2> QED BY <1>6, <2>1, <2>2, <2>3, <2>4, Zenon
<1>9. CASE ClientFrees(f, r, e, st)
  <2>1. /\ endpoint' = [endpoint EXCEPT ![r] = NULL] /\ status' = [status EXCEPT ![r] = st]
        /\ context' = [context EXCEPT ![r] = 0] /\ HostBecomes(f)
    BY <1>9 DEF ClientFrees
  <2>2. \A d \in f.alloc : f.slots[f.sd[d]].urb # r
    <3>1. f \in HostRecord /\ \A d \in Channels : d \in f.alloc <=> f.sd[d] # NULL
      BY <1>3, Zenon DEF Paired
    <3>2. \A d \in f.alloc : f.sd[d] \in Slots
      BY <3>1 DEF HostRecord
    <3> QED BY <1>3, <3>2 DEF Busy
  <2>3. Paired(f, endpoint')
    BY <1>3, <1>t, <2>1, <2>2, Zenon DEF Paired
  <2>4. /\ Paired(Host', endpoint') /\ Called(Host', delayed, {})
        /\ \A q \in Urbs : InProgress(q)' <=> Busy(f, q)
    BY <1>3, <2>1, <2>3, BecomesHolds, Zenon
  <2>5. NotLostBetweenStages'
    BY <1>3, <1>4, <1>5, <2>1, <2>4, Zenon DEF IInv, NotLostBetweenStages
  <2>6. /\ endpoint' \in [Urbs -> Endpoints \cup {NULL}]
        /\ context' \in [Urbs -> Int] /\ status' \in [Urbs -> Int]
    BY <1>4, <1>t, <2>1
  <2> QED BY <2>4, <2>5, <2>6, Zenon DEF IInv
<1> QED BY <1>2, <1>7, <1>8, <1>9 DEF CallCompletion
==============================================================================
