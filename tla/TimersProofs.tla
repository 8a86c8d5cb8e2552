---------------------------- MODULE TimersProofs ----------------------------
(***************************************************************************)
(* The timer service of timers.c for every pool size, every set of clients *)
(* and every sequence of schedules, cancels and callbacks: the list is     *)
(* sound, a kept pointer is the client's own, a service loses its timer    *)
(* only to a full pool, and the list implements PendingTimers.             *)
(***************************************************************************)
EXTENDS Timers, TasksProofs

(* The time each step may take. *)
USE SMTT(30), ZenonT(40)

(* The pool and the list as timers.c keeps them between two calls. *)
TimerPoolInv ==
  /\ TimerStart \in TimerSlots \cup {NULL}
  /\ timerLink \in Pools(MAX_TIMER_TASKS)
  /\ timerExpire \in [TimerSlots -> Int]
  /\ timerPoll \in [TimerSlots -> Clients \cup {NULL}]
  /\ IsList(timerLink, TimerStart, Used, timerExpire)
  /\ \A s \in TimerSlots \ Used : timerLink[s] = NoLinks

(* Who holds which slot while TimerPoll is inside a callback. *)
CallInv ==
  /\ current \in TimerSlots \cup {NULL}
  /\ pending \in BOOLEAN
  /\ round \in [Owners -> TimerSlots \cup {NULL}]
  /\ (current # NULL /\ pending) => timerPoll[current] # NULL
  /\ (current # NULL /\ ~pending) => \A o \in Owners : round[o] # current

(* A service that has answered its callback is armed again, or the pool was full. *)
RearmInv ==
  (current # NULL /\ ~pending) =>
    \A v \in Services : timerPoll[current] = v =>
       (\E s \in TimerSlots : s # current /\ timerPoll[s] = v) \/ Used = TimerSlots

TimersInv == TimerPoolInv /\ CallInv /\ RoundIsOwn /\ RearmInv

-----------------------------------------------------------------------------
(* FreeTimer is NULL when every slot is used, else a slot that is not. *)
LEMMA FreeTimerIsFree ==
  ASSUME TimersAssumption
  PROVE  IF Used = TimerSlots THEN FreeTimer = NULL ELSE FreeTimer \in TimerSlots \ Used
<1>1. CASE Used = TimerSlots
  BY <1>1 DEF FreeTimer
<1>2. CASE Used # TimerSlots
  <2> DEFINE T == TimerSlots \ Used
  <2>1. T \in SUBSET Nat /\ T # {}
    BY <1>2 DEF Used, TimerSlots, TimersAssumption
  <2>2. FreeTimer = CHOOSE s \in T : \A t \in T : s <= t
    BY <1>2 DEF FreeTimer
  <2> HIDE DEF T
  <2>3. \E s \in T : \A t \in T : s <= t
    BY <2>1, LeastNat
  <2>4. FreeTimer \in T
    BY <2>2, <2>3
  <2> QED BY <1>2, <2>4 DEF T
<1> QED BY <1>1, <1>2

(* TimerSchedule links the slot it takes into the list. *)
LEMMA ScheduleKeepsPool ==
  ASSUME TimersAssumption, TimerPoolInv, NEW usec \in Int, NEW client \in Clients,
         TimerSchedule(usec, client)
  PROVE  /\ TimerPoolInv'
         /\ IF Used = TimerSlots THEN UNCHANGED list
            ELSE /\ timerPoll' = [timerPoll EXCEPT ![FreeTimer] = client]
                 /\ timerExpire' = [timerExpire EXCEPT ![FreeTimer] = usec]
<1>1. CASE Used = TimerSlots
  <2>1. UNCHANGED list
    BY <1>1, FreeTimerIsFree DEF TimerSchedule
  <2> QED BY <1>1, <2>1 DEF list, TimerPoolInv, Used
<1>2. CASE Used # TimerSlots
  <2> DEFINE s == FreeTimer
             clean == [timerLink EXCEPT ![s] = NoLinks]
             exp == [timerExpire EXCEPT ![s] = usec]
             n == MAX_TIMER_TASKS
             ins == InsertOrdered(clean, TimerStart, n, s, exp)
  <2>1. s \in TimerSlots \ Used /\ s # NULL
    BY <1>2, FreeTimerIsFree DEF TimerSlots, NULL
  <2>2. n \in Nat /\ TimerSlots = 1 .. n /\ Used \in SUBSET (1 .. n)
    BY DEF TimerSlots, Used, TimersAssumption
  <2>3. /\ timerExpire' = exp
        /\ timerPoll' = [timerPoll EXCEPT ![s] = client]
        /\ IF TimerStart = NULL
           THEN TimerStart' = s /\ timerLink' = clean
           ELSE TimerStart' = ins.start /\ timerLink' = ins.link
    BY <2>1 DEF TimerSchedule
  <2> HIDE DEF s, ins
  <2>4. clean \in Pools(n) /\ clean[s] = NoLinks /\ \A t \in TimerSlots : t # s => clean[t] = timerLink[t]
    BY <2>1, <2>2 DEF TimerPoolInv, Pools, Pointers, NoLinks
  <2>5. exp \in [1 .. n -> Int] /\ exp[s] = usec /\ \A t \in TimerSlots : t # s => exp[t] = timerExpire[t]
    BY <2>1, <2>2 DEF TimerPoolInv
  <2> HIDE DEF clean, exp
  <2>6. /\ timerPoll' \in [TimerSlots -> Clients \cup {NULL}]
        /\ Used' = Used \cup {s}
    BY <2>1, <2>3 DEF TimerPoolInv, Used, TimersAssumption
  <2>7. IsList(clean, TimerStart, Used, exp)
    <3>1. \A t \in Used : clean[t] = timerLink[t] /\ exp[t] = timerExpire[t]
      BY <2>1, <2>2, <2>4, <2>5
    <3>2. IsList(timerLink, TimerStart, Used, timerExpire)
      BY DEF TimerPoolInv
    <3> QED BY <3>1, <3>2, SameLinks
  <2>8. TimerStart = NULL <=> Used = {}
    BY <2>2, <2>7, FirstIsLeast, Zenon
  <2>9. CASE TimerStart = NULL
    <3>1. Used' = {s} /\ timerLink' = clean /\ TimerStart' = s /\ timerExpire' = exp
      BY <2>3, <2>6, <2>8, <2>9
    <3>2. IsList(clean, s, {s}, exp)
      BY <2>4, <2>5, OneSlot, Zenon
    <3>3. \A t \in TimerSlots \ {s} : clean[t] = NoLinks
      BY <2>4, <2>8, <2>9 DEF TimerPoolInv
    <3>4. TimerPoolInv'
      BY <2>1, <2>2, <2>4, <2>5, <2>6, <3>1, <3>2, <3>3, Zenon DEF TimerPoolInv
    <3> QED BY <1>2, <2>3, <3>4 DEF s, exp
  <2>10. CASE TimerStart # NULL
    <3>1. Used # {}
      BY <2>8, <2>10
    <3>2. /\ ins.link \in Pools(n)
          /\ ins.start \in 1 .. n
          /\ IsList(ins.link, ins.start, Used \cup {s}, exp)
          /\ KeepsOthers(clean, ins.link, n, Used \cup {s})
      <4>1. s \in 1 .. n /\ s \notin Used
        BY <2>1, <2>2
      <4>2. clean \in Pools(n) /\ exp \in [1 .. n -> Int] /\ n \in Nat /\ Used \in SUBSET (1 .. n)
        BY <2>2, <2>4, <2>5
      <4>3. ins = InsertOrdered(clean, TimerStart, n, s, exp)
        BY DEF ins
      <4>4. Insertable(clean, TimerStart, Used, n, s, exp)
        BY <2>7, <3>1, <4>1, <4>2 DEF Insertable
      <4> QED BY <4>2, <4>3, <4>4, InsertKeeps, Zenon
    <3>3. \A t \in TimerSlots \ Used' : ins.link[t] = NoLinks
      BY <2>2, <2>4, <2>6, <3>2 DEF TimerPoolInv, KeepsOthers
    <3>4. TimerPoolInv'
      BY <2>2, <2>3, <2>5, <2>6, <2>10, <3>2, <3>3 DEF TimerPoolInv
    <3> QED BY <1>2, <2>3, <3>4 DEF s, exp
  <2> QED BY <2>9, <2>10
<1> QED BY <1>1, <1>2

(* TimerCancel unlinks the slot, or finds it unlinked already. *)
LEMMA CancelKeepsPool ==
  ASSUME TimersAssumption, TimerPoolInv, NEW c \in TimerSlots, TimerCancel(c)
  PROVE  /\ TimerPoolInv'
         /\ timerPoll' = [timerPoll EXCEPT ![c] = NULL]
         /\ timerExpire' = [timerExpire EXCEPT ![c] = 0]
<1> DEFINE n == MAX_TIMER_TASKS
           new == ListRemove(timerLink, c)
<1>1. n \in Nat /\ TimerSlots = 1 .. n /\ Used \in SUBSET (1 .. n) /\ c \in 1 .. n /\ c # NULL
  BY DEF TimerSlots, Used, TimersAssumption, NULL
<1>2. /\ TimerStart' = IF c = TimerStart THEN timerLink[c].next ELSE TimerStart
      /\ timerLink' = [new EXCEPT ![c] = NoLinks]
      /\ timerExpire' = [timerExpire EXCEPT ![c] = 0]
      /\ timerPoll' = [timerPoll EXCEPT ![c] = NULL]
  BY <1>1 DEF TimerCancel
<1>3. timerLink \in Pools(n) /\ new \in Pools(n)
  BY <1>1, RemoveWrites DEF TimerPoolInv
<1>4. IsList(timerLink, TimerStart, Used, timerExpire)
  BY DEF TimerPoolInv
<1>5. /\ timerPoll' \in [TimerSlots -> Clients \cup {NULL}]
      /\ Used' = Used \ {c}
  BY <1>2 DEF TimerPoolInv, Used
<1>6. timerExpire' \in [TimerSlots -> Int] /\ \A t \in TimerSlots : t # c => timerExpire'[t] = timerExpire[t]
  BY <1>2 DEF TimerPoolInv
<1> HIDE DEF new
<1>7. timerLink' \in Pools(n) /\ timerLink'[c] = NoLinks /\ \A t \in TimerSlots : t # c => timerLink'[t] = new[t]
  BY <1>1, <1>2, <1>3 DEF Pools, Pointers, NoLinks
<1>8. TimerStart' \in TimerSlots \cup {NULL}
  BY <1>1, <1>2, <1>3 DEF TimerPoolInv, Pools, Pointers
<1>9. IsList(new, TimerStart', Used', timerExpire) /\ \A t \in TimerSlots \ Used : new[t] = timerLink[t]
  <2>1. CASE c \in Used
    <3>1. /\ IsList(new, IF c = TimerStart THEN timerLink[c].next ELSE TimerStart, Used \ {c}, timerExpire)
          /\ KeepsOthers(timerLink, new, n, Used)
      BY <1>1, <1>3, <1>4, <2>1, RemoveKeeps, Zenon DEF new
    <3> QED BY <1>1, <1>2, <1>5, <3>1 DEF KeepsOthers
  <2>2. CASE c \notin Used
    <3>1. timerLink[c].next = NULL /\ timerLink[c].previous = NULL
      BY <2>2 DEF TimerPoolInv, NoLinks
    <3>2. new = timerLink
      BY <3>1 DEF new, ListRemove
    <3>3. Used' = Used /\ TimerStart' = TimerStart
      <4>1. TimerStart # c
        BY <1>1, <1>4, <2>2, FirstIsLeast, Zenon
      <4> QED BY <1>2, <1>5, <2>2, <4>1
    <3> QED BY <1>4, <3>2, <3>3
  <2> QED BY <2>1, <2>2
<1>10. IsList(timerLink', TimerStart', Used', timerExpire')
  <2>1. \A t \in Used' : timerLink'[t] = new[t] /\ timerExpire'[t] = timerExpire[t]
    BY <1>1, <1>5, <1>6, <1>7
  <2> QED BY <1>9, <2>1, SameLinks
<1>11. \A t \in TimerSlots \ Used' : timerLink'[t] = NoLinks
  BY <1>5, <1>7, <1>9 DEF TimerPoolInv
<1> QED BY <1>2, <1>5, <1>6, <1>7, <1>8, <1>10, <1>11 DEF TimerPoolInv

(* The first timer found for a client is a used slot, the client's. *)
LEMMA FindTimerIsClients ==
  ASSUME TimersAssumption, TimerPoolInv, NEW client \in Clients, FindTimer(client) # NULL
  PROVE  FindTimer(client) \in TimerSlots /\ timerPoll[FindTimer(client)] = client
<1> DEFINE n == MAX_TIMER_TASKS
           at == Visit(timerLink, TimerStart, n)
           hit(k) == at[k] # NULL /\ timerPoll[at[k]] = client
           T == {k \in 0 .. n : hit(k)}
           first == CHOOSE k \in DOMAIN at : hit(k) /\ \A j \in 0 .. k - 1 : ~hit(j)
<1>1. n \in Nat /\ TimerSlots = 1 .. n /\ Used \in SUBSET (1 .. n)
  BY DEF TimerSlots, Used, TimersAssumption
<1>2. DOMAIN at = 0 .. n
  BY <1>1, VisitDef
<1>3. \A k \in 0 .. n : at[k] \in Used \cup {NULL}
  <2>1. IsList(timerLink, TimerStart, Used, timerExpire)
    BY DEF TimerPoolInv
  <2> QED BY <1>1, <2>1, LoopSeesAll, Zenon
<1>4. FindTimer(client) = IF \E k \in DOMAIN at : hit(k) THEN at[first] ELSE NULL
  BY DEF FindTimer
<1> HIDE DEF at
<1>5. T # {}
  BY <1>2, <1>4
<1>6. PICK k \in T : \A j \in T : k <= j
  <2>1. T \in SUBSET Nat
    BY <1>1
  <2> HIDE DEF T
  <2> QED BY <1>5, <2>1, LeastNat
<1>7. k \in DOMAIN at /\ hit(k) /\ \A j \in 0 .. k - 1 : ~hit(j)
  BY <1>1, <1>2, <1>6
<1>8. first \in DOMAIN at /\ hit(first)
  <2> HIDE DEF hit
  <2> QED BY <1>7
<1> HIDE DEF first
<1>9. FindTimer(client) = at[first]
  BY <1>2, <1>4, <1>5
<1> QED BY <1>1, <1>2, <1>3, <1>8, <1>9, Zenon

-----------------------------------------------------------------------------
(* The pool is empty at first. *)
LEMMA TimersInitInv == ASSUME TimersAssumption, TimersInit PROVE TimersInv
<1>1. Used = {} /\ TimerStart = NULL
  BY DEF TimersInit, TimerInit, Used
<1>2. IsList(timerLink, TimerStart, Used, timerExpire)
  BY <1>1, NoSlot
<1>3. TimerPoolInv
  BY <1>1, <1>2 DEF TimerPoolInv, TimersInit, TimerInit, Pools, Pointers, TimerSlots, NoLinks
<1>4. CallInv /\ RoundIsOwn /\ RearmInv
  BY Zenon DEF TimersInit, CallInv, RoundIsOwn, RearmInv
<1> QED BY <1>3, <1>4 DEF TimersInv

(* The clock moves all expiration times together. *)
LEMMA TickKeeps == ASSUME TimersAssumption, TimersInv, Tick PROVE TimersInv'
<1> USE DEF TimersInv
<1>1. /\ timerExpire' = [s \in TimerSlots |-> IF s \in Used THEN timerExpire[s] - 1 ELSE 0]
      /\ UNCHANGED <<TimerStart, timerLink, timerPoll, current, pending, round>>
  BY DEF Tick
<1>2. Used' = Used
  BY <1>1 DEF Used
<1>3. timerExpire' \in [TimerSlots -> Int]
  BY <1>1 DEF TimerPoolInv
<1>4. IsList(timerLink, TimerStart, Used, timerExpire')
  <2> DEFINE n == MAX_TIMER_TASKS
  <2>1. n \in Nat /\ TimerSlots = 1 .. n /\ Used \in SUBSET (1 .. n)
    BY DEF TimerSlots, Used, TimersAssumption
  <2>2. timerExpire \in [1 .. n -> Int] /\ IsList(timerLink, TimerStart, Used, timerExpire)
    BY <2>1 DEF TimerPoolInv
  <2>3. \A s \in Used : timerExpire'[s] = timerExpire[s] - 1
    BY <1>1, <2>1, <2>2
  <2> QED BY <2>1, <2>2, <2>3, AgedKeys
<1>5. TimerPoolInv'
  BY <1>1, <1>2, <1>3, <1>4 DEF TimerPoolInv
<1>6. CallInv' /\ RoundIsOwn' /\ RearmInv'
  BY <1>1, <1>2 DEF CallInv, RoundIsOwn, RearmInv
<1> QED BY <1>5, <1>6

(* A client that schedules a timer keeps the pointer to it and no other. *)
LEMMA ScheduleKeeps ==
  ASSUME TimersAssumption, TimersInv, NEW client \in Clients, NEW usec \in TimerDelays, Schedule(client, usec)
  PROVE  /\ TimerPoolInv' /\ RoundIsOwn'
         /\ round' \in [Owners -> TimerSlots \cup {NULL}]
         /\ \A o \in Owners : round'[o] = IF o = client THEN FreeTimer ELSE round[o]
         /\ IF Used = TimerSlots THEN FreeTimer = NULL /\ UNCHANGED list
            ELSE /\ FreeTimer \in TimerSlots \ Used /\ FreeTimer # NULL
                 /\ timerPoll' = [timerPoll EXCEPT ![FreeTimer] = client]
                 /\ timerExpire' = [timerExpire EXCEPT ![FreeTimer] = usec]
<1> USE DEF TimersInv
<1>1. usec \in Int
  BY DEF TimersAssumption
<1>2. /\ TimerPoolInv'
      /\ IF Used = TimerSlots THEN UNCHANGED list
         ELSE /\ timerPoll' = [timerPoll EXCEPT ![FreeTimer] = client]
              /\ timerExpire' = [timerExpire EXCEPT ![FreeTimer] = usec]
  BY <1>1, ScheduleKeepsPool DEF Schedule
<1>3. IF Used = TimerSlots THEN FreeTimer = NULL ELSE FreeTimer \in TimerSlots \ Used /\ FreeTimer # NULL
  BY FreeTimerIsFree DEF TimerSlots, NULL
<1>4. round' = IF client \in Owners THEN [round EXCEPT ![client] = FreeTimer] ELSE round
  BY DEF Schedule
<1>5. round \in [Owners -> TimerSlots \cup {NULL}]
  BY DEF CallInv
<1>6. /\ round' \in [Owners -> TimerSlots \cup {NULL}]
      /\ \A o \in Owners : round'[o] = IF o = client THEN FreeTimer ELSE round[o]
  BY <1>3, <1>4, <1>5
<1>7. ASSUME NEW o \in Owners, round'[o] # NULL PROVE timerPoll'[round'[o]] = o
  <2>1. timerPoll \in [TimerSlots -> Clients \cup {NULL}]
    BY DEF TimerPoolInv
  <2>2. CASE o = client
    BY <1>2, <1>3, <1>6, <1>7, <2>1, <2>2
  <2>3. CASE o # client
    <3>1. round[o] \in TimerSlots /\ timerPoll[round[o]] = o
      BY <1>5, <1>6, <1>7, <2>3 DEF RoundIsOwn
    <3>2. round[o] \in Used
      BY <3>1 DEF Used, Clients, TimersAssumption
    <3>3. timerPoll'[round[o]] = timerPoll[round[o]]
      BY <1>2, <1>3, <2>1, <3>1, <3>2 DEF list
    <3> QED BY <1>6, <2>3, <3>1, <3>3
  <2> QED BY <2>2, <2>3
<1>8. RoundIsOwn'
  BY <1>7 DEF RoundIsOwn
<1> QED BY <1>2, <1>3, <1>6, <1>8

(* A client without timer starts one. *)
LEMMA StartKeeps ==
  ASSUME TimersAssumption, TimersInv, NEW client \in Clients, NEW usec \in TimerDelays, Start(client, usec)
  PROVE  TimersInv'
<1> USE DEF TimersInv
<1>1. Schedule(client, usec) /\ current' = current /\ pending' = pending /\ (current # NULL => pending)
  BY DEF Start, Schedule
<1>2. TimerPoolInv' /\ RoundIsOwn' /\ round' \in [Owners -> TimerSlots \cup {NULL}]
  BY <1>1, ScheduleKeeps
<1>3. ASSUME current # NULL PROVE timerPoll'[current] # NULL
  <2>1. current \in TimerSlots /\ timerPoll[current] # NULL /\ timerPoll \in [TimerSlots -> Clients \cup {NULL}]
    BY <1>1, <1>3 DEF CallInv, TimerPoolInv
  <2>2. timerPoll' = timerPoll \/ timerPoll' = [timerPoll EXCEPT ![FreeTimer] = client]
    BY <1>1, ScheduleKeeps DEF list
  <2> QED BY <2>1, <2>2 DEF TimersAssumption
<1>4. CallInv'
  BY <1>1, <1>2, <1>3 DEF CallInv
<1>5. RearmInv'
  BY <1>1 DEF RearmInv
<1> QED BY <1>2, <1>4, <1>5

(* Cancelling through a kept pointer takes the owner's own timer, or nothing. *)
LEMMA CancelOwnKeeps ==
  ASSUME TimersAssumption, TimersInv, NEW o \in Owners, TimerCancel(round[o]),
         round' = [round EXCEPT ![o] = NULL]
  PROVE  /\ TimerPoolInv' /\ RoundIsOwn'
         /\ round' \in [Owners -> TimerSlots \cup {NULL}] /\ round'[o] = NULL
         /\ \A p \in Owners : p # o => round'[p] = round[p]
         /\ IF round[o] = NULL THEN UNCHANGED list
            ELSE /\ round[o] \in TimerSlots /\ timerPoll[round[o]] = o
                 /\ timerPoll' = [timerPoll EXCEPT ![round[o]] = NULL]
                 /\ timerExpire' = [timerExpire EXCEPT ![round[o]] = 0]
<1> USE DEF TimersInv
<1>1. round \in [Owners -> TimerSlots \cup {NULL}] /\ timerPoll \in [TimerSlots -> Clients \cup {NULL}]
  BY DEF CallInv, TimerPoolInv
<1>2. /\ round' \in [Owners -> TimerSlots \cup {NULL}] /\ round'[o] = NULL
      /\ \A p \in Owners : p # o => round'[p] = round[p]
  BY <1>1
<1>3. CASE round[o] = NULL
  <2>1. UNCHANGED list
    BY <1>3 DEF TimerCancel
  <2>2. TimerPoolInv'
    BY <2>1 DEF list, TimerPoolInv, Used
  <2>3. RoundIsOwn'
    BY <1>2, <2>1 DEF list, RoundIsOwn
  <2> QED BY <1>2, <1>3, <2>1, <2>2, <2>3
<1>4. CASE round[o] # NULL
  <2>1. round[o] \in TimerSlots /\ timerPoll[round[o]] = o
    BY <1>1, <1>4 DEF RoundIsOwn
  <2>2. /\ TimerPoolInv'
        /\ timerPoll' = [timerPoll EXCEPT ![round[o]] = NULL]
        /\ timerExpire' = [timerExpire EXCEPT ![round[o]] = 0]
    BY <2>1, CancelKeepsPool
  <2>3. ASSUME NEW p \in Owners, round'[p] # NULL PROVE timerPoll'[round'[p]] = p
    <3>1. p # o /\ round'[p] = round[p] /\ timerPoll[round[p]] = p /\ round[p] \in TimerSlots
      BY <1>1, <1>2, <2>3 DEF RoundIsOwn
    <3> QED BY <1>1, <2>1, <2>2, <3>1
  <2>4. RoundIsOwn'
    BY <2>3 DEF RoundIsOwn
  <2> QED BY <1>2, <1>4, <2>1, <2>2, <2>4
<1> QED BY <1>3, <1>4

(* The game cancels its timer, from a task or from another client's callback. *)
LEMMA CancelRoundKeeps == ASSUME TimersAssumption, TimersInv, NEW o \in Owners, CancelRound(o) PROVE TimersInv'
<1> USE DEF TimersInv
<1>1. /\ TimerCancel(round[o]) /\ round' = [round EXCEPT ![o] = NULL]
      /\ current' = current /\ pending' = pending
      /\ current # NULL => pending /\ timerPoll[current] # o
  BY DEF CancelRound
<1>2. TimerPoolInv' /\ RoundIsOwn' /\ round' \in [Owners -> TimerSlots \cup {NULL}]
  BY <1>1, CancelOwnKeeps, Zenon
<1>3. ASSUME current # NULL PROVE timerPoll'[current] # NULL
  <2>1. current \in TimerSlots /\ timerPoll[current] # NULL /\ timerPoll \in [TimerSlots -> Clients \cup {NULL}]
    BY <1>1, <1>3 DEF CallInv, TimerPoolInv
  <2>2. timerPoll' = timerPoll \/ (timerPoll[round[o]] = o /\ timerPoll' = [timerPoll EXCEPT ![round[o]] = NULL])
    BY <1>1, CancelOwnKeeps, Zenon DEF list
  <2> QED BY <1>1, <1>3, <2>1, <2>2
<1>4. CallInv'
  BY <1>1, <1>2, <1>3 DEF CallInv
<1>5. RearmInv'
  BY <1>1 DEF RearmInv
<1> QED BY <1>2, <1>4, <1>5

(* Cancelling a slot no owner points to. *)
LEMMA CancelOtherKeeps ==
  ASSUME TimersAssumption, TimersInv, NEW c \in TimerSlots, TimerCancel(c), round' = round,
         \A o \in Owners : round[o] # c
  PROVE  TimerPoolInv' /\ RoundIsOwn'
<1> USE DEF TimersInv
<1>1. TimerPoolInv' /\ timerPoll' = [timerPoll EXCEPT ![c] = NULL]
  BY CancelKeepsPool
<1>2. round \in [Owners -> TimerSlots \cup {NULL}] /\ timerPoll \in [TimerSlots -> Clients \cup {NULL}]
  BY DEF CallInv, TimerPoolInv
<1>3. ASSUME NEW o \in Owners, round'[o] # NULL PROVE timerPoll'[round'[o]] = o
  BY <1>1, <1>2, <1>3 DEF RoundIsOwn
<1> QED BY <1>1, <1>3 DEF RoundIsOwn

(* A task cancels a one-shot timer by its function. *)
LEMMA CancelServiceKeeps ==
  ASSUME TimersAssumption, TimersInv, NEW client \in OneShots, CancelService(client) PROVE TimersInv'
<1> USE DEF TimersInv
<1> DEFINE c == FindTimer(client)
<1>1. TimerCancel(c) /\ current = NULL /\ UNCHANGED <<current, pending, round>> /\ client \in Clients
  BY DEF CancelService, TimerServiceCancel, Clients
<1>2. CallInv' /\ RearmInv'
  BY <1>1 DEF CallInv, RearmInv
<1>3. CASE c = NULL
  <2>1. UNCHANGED list
    BY <1>1, <1>3 DEF TimerCancel
  <2> QED BY <1>1, <1>2, <2>1 DEF list, TimerPoolInv, Used, RoundIsOwn
<1>4. CASE c # NULL
  <2>1. c \in TimerSlots /\ timerPoll[c] = client
    BY <1>1, <1>4, FindTimerIsClients
  <2>2. ASSUME NEW o \in Owners PROVE round[o] # c
    BY <2>1, <1>4 DEF RoundIsOwn, TimersAssumption
  <2> HIDE DEF c
  <2> QED BY <1>1, <1>2, <2>1, <2>2, CancelOtherKeeps
<1> QED BY <1>3, <1>4

(* TimerPoll calls the first timer of the list. *)
LEMMA FireKeeps == ASSUME TimersAssumption, TimersInv, Fire PROVE TimersInv'
<1> USE DEF TimersInv
<1>1. TimerStart # NULL /\ current' = TimerStart /\ pending' = TRUE /\ UNCHANGED <<list, round>>
  BY DEF Fire
<1>2. TimerStart \in Used
  <2>1. MAX_TIMER_TASKS \in Nat /\ Used \in SUBSET (1 .. MAX_TIMER_TASKS)
    BY DEF TimerSlots, Used, TimersAssumption
  <2>2. IsList(timerLink, TimerStart, Used, timerExpire)
    BY DEF TimerPoolInv
  <2>3. TimerStart # NULL => TimerStart \in Used
    BY <2>1, <2>2, FirstIsLeast, Zenon
  <2> QED BY <1>1, <2>3
<1>3. TimerPoolInv' /\ RoundIsOwn' /\ RearmInv'
  BY <1>1 DEF list, TimerPoolInv, Used, RoundIsOwn, RearmInv
<1>4. CallInv'
  BY <1>1, <1>2 DEF CallInv, list, Used
<1> QED BY <1>3, <1>4

(* A callback that schedules itself again has another slot for it, or none. *)
LEMMA RearmKeeps == ASSUME TimersAssumption, TimersInv, NEW usec \in TimerDelays, Rearm(usec) PROVE TimersInv'
<1> USE DEF TimersInv
<1> DEFINE client == timerPoll[current]
<1>1. /\ current # NULL /\ pending /\ Schedule(client, usec)
      /\ current' = current /\ pending' = FALSE
  BY DEF Rearm, Schedule
<1>2. current \in TimerSlots /\ client \in Clients /\ client # NULL /\ current \in Used
      /\ timerPoll \in [TimerSlots -> Clients \cup {NULL}]
  BY <1>1 DEF CallInv, TimerPoolInv, Used
<1>3. /\ TimerPoolInv' /\ RoundIsOwn' /\ round' \in [Owners -> TimerSlots \cup {NULL}]
      /\ \A o \in Owners : round'[o] = IF o = client THEN FreeTimer ELSE round[o]
      /\ IF Used = TimerSlots THEN FreeTimer = NULL /\ UNCHANGED list
         ELSE /\ FreeTimer \in TimerSlots \ Used
              /\ timerPoll' = [timerPoll EXCEPT ![FreeTimer] = client]
  BY <1>1, <1>2, ScheduleKeeps
<1>4. FreeTimer # current
  BY <1>1, <1>2, <1>3
<1>5. ASSUME NEW o \in Owners PROVE round'[o] # current
  <2>1. CASE o = client
    BY <1>3, <1>4, <2>1
  <2>2. CASE o # client
    BY <1>1, <1>3, <2>2 DEF RoundIsOwn
  <2> QED BY <2>1, <2>2
<1>6. CallInv'
  BY <1>1, <1>2, <1>3, <1>5, Zenon DEF CallInv
<1>7. RearmInv'
  <2>1. CASE Used = TimerSlots
    <3>1. Used' = TimerSlots
      BY <1>3, <2>1 DEF list, Used
    <3> QED BY <3>1 DEF RearmInv, TimerSlots
  <2>2. CASE Used # TimerSlots
    <3>1. FreeTimer \in TimerSlots /\ timerPoll'[FreeTimer] = client /\ timerPoll'[current] = client
      BY <1>2, <1>3, <1>4, <2>2
    <3> QED BY <1>1, <1>4, <3>1 DEF RearmInv
  <2> QED BY <2>1, <2>2
<1> QED BY <1>3, <1>6, <1>7

(* The game's callback cancels its own timer. *)
LEMMA CancelSelfKeeps == ASSUME TimersAssumption, TimersInv, CancelSelf PROVE TimersInv'
<1> USE DEF TimersInv
<1> DEFINE o == timerPoll[current]
<1>1. /\ current # NULL /\ pending /\ o \in Owners
      /\ TimerCancel(round[o]) /\ round' = [round EXCEPT ![o] = NULL]
      /\ pending' = FALSE /\ current' = current
  BY DEF CancelSelf
<1>2. current \in TimerSlots /\ timerPoll \in [TimerSlots -> Clients \cup {NULL}]
  BY <1>1 DEF CallInv, TimerPoolInv
<1>3. /\ TimerPoolInv' /\ RoundIsOwn'
      /\ round' \in [Owners -> TimerSlots \cup {NULL}] /\ round'[o] = NULL
      /\ \A p \in Owners : p # o => round'[p] = round[p]
      /\ IF round[o] = NULL THEN UNCHANGED list
         ELSE /\ round[o] \in TimerSlots
              /\ timerPoll' = [timerPoll EXCEPT ![round[o]] = NULL]
  <2> HIDE DEF o
  <2> QED BY <1>1, CancelOwnKeeps, Zenon
<1>4. ASSUME NEW p \in Owners PROVE round'[p] # current
  <2>1. CASE p = o
    BY <1>1, <1>3, <2>1
  <2>2. CASE p # o
    BY <1>1, <1>3, <2>2 DEF RoundIsOwn
  <2> QED BY <2>1, <2>2
<1>5. CallInv'
  BY <1>1, <1>2, <1>3, <1>4, Zenon DEF CallInv
<1>6. RearmInv'
  <2>1. timerPoll'[current] \in {o, NULL}
    BY <1>2, <1>3 DEF list
  <2>2. timerPoll'[current] \notin Services
    BY <1>1, <2>1 DEF TimersAssumption, Clients
  <2> QED BY <1>1, <2>2 DEF RearmInv
<1> QED BY <1>3, <1>5, <1>6

(* A one-shot callback that does nothing. *)
LEMMA DeclineKeeps == ASSUME TimersAssumption, TimersInv, Decline PROVE TimersInv'
<1> USE DEF TimersInv
<1>1. /\ current # NULL /\ timerPoll[current] \in OneShots /\ pending' = FALSE
      /\ UNCHANGED <<list, current, round>>
  BY DEF Decline
<1>2. TimerPoolInv' /\ RoundIsOwn'
  BY <1>1 DEF list, TimerPoolInv, Used, RoundIsOwn
<1>3. ASSUME NEW o \in Owners PROVE round[o] # current
  BY <1>1 DEF RoundIsOwn, TimersAssumption
<1>4. CallInv'
  BY <1>1, <1>3, Zenon DEF CallInv
<1>5. RearmInv'
  BY <1>1 DEF RearmInv, list, TimersAssumption
<1> QED BY <1>2, <1>4, <1>5

(* TimerPoll cancels the slot it called. *)
LEMMA ReturnKeepsInv == ASSUME TimersAssumption, TimersInv, TimerReturn PROVE TimersInv'
<1> USE DEF TimersInv
<1>1. /\ current # NULL /\ ~pending /\ TimerCancel(current) /\ current' = NULL
      /\ UNCHANGED <<pending, round>>
  BY DEF TimerReturn
<1>2. current \in TimerSlots /\ \A o \in Owners : round[o] # current
  BY <1>1 DEF CallInv
<1>3. TimerPoolInv' /\ RoundIsOwn'
  BY <1>1, <1>2, CancelOtherKeeps
<1>4. CallInv' /\ RearmInv'
  BY <1>1 DEF CallInv, RearmInv
<1> QED BY <1>3, <1>4

(* Every step of the timer service keeps the invariant. *)
LEMMA TimersStep == ASSUME TimersAssumption, TimersInv, [TimersNext]_timersVars PROVE TimersInv'
<1>1. CASE UNCHANGED timersVars
  BY <1>1 DEF timersVars, TimersInv, TimerPoolInv, Used, CallInv, RoundIsOwn, RearmInv
<1>2. CASE TimersNext
  <2>1. CASE Tick
    BY <2>1, TickKeeps
  <2>2. CASE \E c \in Clients, usec \in TimerDelays : Start(c, usec)
    BY <2>2, StartKeeps
  <2>3. CASE \E o \in Owners : CancelRound(o)
    BY <2>3, CancelRoundKeeps
  <2>4. CASE \E c \in OneShots : CancelService(c)
    BY <2>4, CancelServiceKeeps
  <2>5. CASE Fire
    BY <2>5, FireKeeps
  <2>6. CASE Answer
    BY <2>6, CancelSelfKeeps, DeclineKeeps, RearmKeeps DEF Answer
  <2>7. CASE TimerReturn
    BY <2>7, ReturnKeepsInv
  <2> QED BY <1>2, <2>1, <2>2, <2>3, <2>4, <2>5, <2>6, <2>7 DEF TimersNext
<1> QED BY <1>1, <1>2

(* The invariant is more than what the runs check of the list. *)
LEMMA TimersInvSound == ASSUME TimersAssumption, TimersInv PROVE TimersTypeOK /\ TimerListInv /\ RoundIsOwn
<1> USE DEF TimersInv
<1> DEFINE n == MAX_TIMER_TASKS
<1>1. n \in Nat /\ TimerSlots = 1 .. n /\ Used \in SUBSET (1 .. n)
  BY DEF TimerSlots, Used, TimersAssumption
<1>2. IsList(timerLink, TimerStart, Used, timerExpire)
  BY DEF TimerPoolInv
<1>3. TimersTypeOK
  BY <1>1 DEF TimersTypeOK, TimerPoolInv, CallInv, Pools, Pointers
<1>4. Terminated(timerLink, TimerStart, n) /\ Reachable(timerLink, TimerStart, n) = Used
  BY <1>1, <1>2, LoopSeesAll
<1>5. WellLinked(timerLink, TimerStart, Used, timerExpire)
  BY <1>1, <1>2, DoublyLinked, Zenon
<1> QED BY <1>3, <1>4, <1>5 DEF TimerListInv, WellLinked

(* The list is sound in any behaviour, whatever the scheduling. *)
LEMMA TimersSoundAlways == TimersAssumption => (TimersInit /\ [][TimersNext]_timersVars => []TimerListSound)
<1> SUFFICES ASSUME TimersAssumption PROVE TimersInit /\ [][TimersNext]_timersVars => []TimerListSound
  OBVIOUS
<1>1. TimersInit => TimersInv
  BY TimersInitInv
<1>2. TimersInv /\ [TimersNext]_timersVars => TimersInv'
  BY TimersStep
<1>3. TimersInv => TimerListSound
  BY TimersInvSound DEF TimerListSound
<1> QED BY <1>1, <1>2, <1>3, PTL

(***************************************************************************)
(* Whatever schedules, cancels and callbacks do, TimerStart heads the      *)
(* doubly linked list of the used slots in expiration order, and what an   *)
(* owner cancels through the pointer it kept is its own timer.             *)
(***************************************************************************)
THEOREM TimersSound == ASSUME TimersAssumption PROVE TimersSpec => []TimerListSound
  BY TimersSoundAlways, PTL DEF TimersSpec

-----------------------------------------------------------------------------
(* A step that takes the last timer of a service finds every slot taken. *)
LEMMA LossStep ==
  ASSUME TimersAssumption, TimersInv, [TimersNext]_timersVars, NEW v \in Services, HasTimer(v), ~HasTimer(v)'
  PROVE  Used = TimerSlots
<1> USE DEF TimersInv
<1>0. timerPoll \in [TimerSlots -> Clients \cup {NULL}] /\ v # NULL /\ v \notin Owners /\ v \notin OneShots
  BY DEF TimerPoolInv, TimersAssumption, Clients
<1>1. ASSUME NEW c, timerPoll' = [timerPoll EXCEPT ![c] = NULL] PROVE c \in TimerSlots /\ timerPoll[c] = v
  BY <1>0, <1>1 DEF HasTimer
<1>2. ASSUME timerPoll' = timerPoll PROVE FALSE
  BY <1>2 DEF HasTimer
<1>3. ASSUME NEW client \in Clients, NEW usec \in TimerDelays, Schedule(client, usec) PROVE FALSE
  <2>1. timerPoll' = timerPoll \/ (FreeTimer \in TimerSlots \ Used /\ timerPoll' = [timerPoll EXCEPT ![FreeTimer] = client])
    BY <1>3, ScheduleKeeps DEF list
  <2> QED BY <1>0, <2>1 DEF HasTimer, Used
<1>4. CASE UNCHANGED timersVars \/ Tick \/ Fire \/ Decline
  BY <1>2, <1>4 DEF timersVars, Tick, Fire, Decline, list
<1>5. CASE \E c \in Clients, usec \in TimerDelays : Start(c, usec)
  BY <1>3, <1>5 DEF Start
<1>6. CASE \E usec \in TimerDelays : Rearm(usec)
  <2>1. PICK usec \in TimerDelays : Rearm(usec)
    BY <1>6
  <2>2. timerPoll[current] \in Clients /\ Schedule(timerPoll[current], usec)
    BY <1>0, <2>1 DEF Rearm, CallInv
  <2> QED BY <1>3, <2>2
<1>7. CASE (\E o \in Owners : CancelRound(o)) \/ CancelSelf
  <2>1. PICK o \in Owners : TimerCancel(round[o]) /\ round' = [round EXCEPT ![o] = NULL]
    BY <1>7 DEF CancelRound, CancelSelf
  <2>2. timerPoll' = timerPoll \/ (timerPoll[round[o]] = o /\ timerPoll' = [timerPoll EXCEPT ![round[o]] = NULL])
    BY <2>1, CancelOwnKeeps, Zenon DEF list
  <2> QED BY <1>0, <1>1, <1>2, <2>2
<1>8. CASE \E c \in OneShots : CancelService(c)
  <2>1. PICK c \in OneShots : TimerCancel(FindTimer(c)) /\ c \in Clients
    BY <1>8 DEF CancelService, TimerServiceCancel, Clients
  <2>2. CASE FindTimer(c) = NULL
    BY <1>2, <2>1, <2>2 DEF TimerCancel, list
  <2>3. CASE FindTimer(c) # NULL
    <3>1. FindTimer(c) \in TimerSlots /\ timerPoll[FindTimer(c)] = c
      BY <2>1, <2>3, FindTimerIsClients
    <3>2. timerPoll' = [timerPoll EXCEPT ![FindTimer(c)] = NULL]
      BY <2>1, <3>1, CancelKeepsPool
    <3> QED BY <1>0, <1>1, <3>1, <3>2, Zenon
  <2> QED BY <2>2, <2>3
<1>9. CASE TimerReturn
  <2>1. current # NULL /\ ~pending /\ current \in TimerSlots /\ TimerCancel(current)
    BY <1>9 DEF TimerReturn, CallInv
  <2>2. timerPoll' = [timerPoll EXCEPT ![current] = NULL]
    BY <2>1, CancelKeepsPool
  <2>3. timerPoll[current] = v
    BY <1>1, <2>2, Zenon
  <2>4. ~\E s \in TimerSlots : s # current /\ timerPoll[s] = v
    BY <1>0, <2>2 DEF HasTimer
  <2> QED BY <2>1, <2>3, <2>4 DEF RearmInv
<1> QED BY <1>4, <1>5, <1>6, <1>7, <1>8, <1>9 DEF TimersNext, Answer

(***************************************************************************)
(* A service that rearms from its callback (the USB interrupt poll, the    *)
(* DHCP timers) loses its timer only when the pool was full.               *)
(***************************************************************************)
THEOREM ServicesSurvive == ASSUME TimersAssumption PROVE TimersSpec => ServiceSurvives
<1>1. TimersInit => TimersInv
  BY TimersInitInv
<1>2. TimersInv /\ [TimersNext]_timersVars => TimersInv'
  BY TimersStep
<1>3. TimersInv /\ [TimersNext]_timersVars => [\A v \in Services : HasTimer(v) /\ ~HasTimer(v)' => Used = TimerSlots]_timersVars
  BY LossStep
<1> QED BY <1>1, <1>2, <1>3, PTL DEF TimersSpec, ServiceSurvives

-----------------------------------------------------------------------------
(* The slots of the pool as PendingTimers sees them. *)
ArmedFor == [s \in TimerSlots |-> IF timerPoll[s] = NULL THEN "none" ELSE timerPoll[s]]

(* An abstract slot is armed when the real one is used. *)
LEMMA ArmedIsUsed == ASSUME TimersAssumption, TimerPoolInv PROVE Abstract!Armed = Used
BY Zenon DEF Abstract!Armed, TimerPoolInv, Used, TimersAssumption

(* TimerSchedule arms one free slot, not the one that is being called. *)
LEMMA ScheduleRefines ==
  ASSUME TimersAssumption, TimersInv, NEW client \in Clients, NEW usec \in TimerDelays, Schedule(client, usec),
         current # NULL => pending
  PROVE  UNCHANGED <<timerPoll, timerExpire, current>> \/ Abstract!Arm(FreeTimer, client, usec)
<1> USE DEF TimersInv
<1> DEFINE f == FreeTimer
<1>1. current' = current
  BY DEF Schedule
<1>2. CASE Used = TimerSlots
  BY <1>1, <1>2, ScheduleKeeps DEF list
<1>3. CASE Used # TimerSlots
  <2>1. /\ f \in TimerSlots \ Used /\ f # NULL
        /\ timerPoll' = [timerPoll EXCEPT ![f] = client]
        /\ timerExpire' = [timerExpire EXCEPT ![f] = usec]
    BY <1>3, ScheduleKeeps
  <2> HIDE DEF f
  <2>2. timerPoll \in [TimerSlots -> Clients \cup {NULL}]
    BY DEF TimerPoolInv
  <2>3. f # current
    BY <2>1 DEF CallInv, Used
  <2>4. ArmedFor' = [ArmedFor EXCEPT ![f] = client]
    BY <2>1, <2>2, Zenon DEF ArmedFor, TimersAssumption
  <2>5. Abstract!Arm(f, client, usec)
    BY <1>1, <2>1, <2>3, <2>4, ArmedIsUsed DEF Abstract!Arm, ArmedFor
  <2> QED BY <2>5 DEF f
<1> QED BY <1>2, <1>3

(* TimerCancel disarms a slot that is armed, and leaves another as it was. *)
LEMMA CancelRefines ==
  ASSUME TimersAssumption, TimersInv, NEW c \in TimerSlots, timerPoll[c] # NULL, TimerCancel(c), current' = current
  PROVE  Abstract!Disarm(c)
<1> USE DEF TimersInv
<1>1. timerPoll' = [timerPoll EXCEPT ![c] = NULL] /\ timerExpire' = [timerExpire EXCEPT ![c] = 0]
  BY CancelKeepsPool
<1>2. timerPoll \in [TimerSlots -> Clients \cup {NULL}]
  BY DEF TimerPoolInv
<1>3. ArmedFor' = [ArmedFor EXCEPT ![c] = "none"]
  BY <1>1, <1>2, Zenon DEF ArmedFor
<1> QED BY <1>1, <1>3, ArmedIsUsed DEF Abstract!Disarm, ArmedFor, Used

(* Each step of the list is a step of the abstract service, or none. *)
LEMMA RefineStep ==
  ASSUME TimersAssumption, TimersInv, [TimersNext]_timersVars
  PROVE  [Abstract!Next]_(Abstract!vars)
<1> USE DEF TimersInv
<1>0. ASSUME UNCHANGED <<timerPoll, timerExpire, current>> PROVE UNCHANGED Abstract!vars
  BY <1>0 DEF Abstract!vars
<1>1. CASE UNCHANGED timersVars \/ Decline
  BY <1>0, <1>1 DEF timersVars, Decline, list
<1>2. CASE Tick
  <2>1. Abstract!Tick
    BY <1>2, ArmedIsUsed DEF Tick, Abstract!Tick
  <2> QED BY <2>1 DEF Abstract!Next
<1>3. ASSUME NEW client \in Clients, NEW usec \in TimerDelays, Schedule(client, usec), current # NULL => pending
      PROVE  [Abstract!Next]_(Abstract!vars)
  <2>1. UNCHANGED <<timerPoll, timerExpire, current>> \/ Abstract!Arm(FreeTimer, client, usec)
    BY <1>3, ScheduleRefines
  <2>2. CASE Abstract!Arm(FreeTimer, client, usec)
    <3>1. FreeTimer \in TimerSlots
      BY <2>2 DEF Abstract!Arm
    <3> QED BY <2>2, <3>1 DEF Abstract!Next
  <2> QED BY <1>0, <2>1, <2>2
<1>4. CASE \E c \in Clients, usec \in TimerDelays : Start(c, usec)
  BY <1>3, <1>4 DEF Start
<1>5. CASE \E usec \in TimerDelays : Rearm(usec)
  <2>1. PICK usec \in TimerDelays : Rearm(usec)
    BY <1>5
  <2>2. timerPoll[current] \in Clients /\ Schedule(timerPoll[current], usec) /\ pending
    BY <2>1 DEF Rearm, CallInv, TimerPoolInv
  <2> QED BY <1>3, <2>2
<1>6. ASSUME NEW s \in TimerSlots, timerPoll[s] # NULL, TimerCancel(s), current' = current
       PROVE  [Abstract!Next]_(Abstract!vars)
  <2>1. Abstract!Disarm(s)
    BY <1>6, CancelRefines
  <2> QED BY <2>1 DEF Abstract!Next
<1>7. CASE (\E o \in Owners : CancelRound(o)) \/ CancelSelf
  <2>1. PICK o \in Owners : TimerCancel(round[o]) /\ round' = [round EXCEPT ![o] = NULL] /\ current' = current
    BY <1>7 DEF CancelRound, CancelSelf
  <2>2. CASE round[o] = NULL
    BY <1>0, <2>1, <2>2 DEF TimerCancel, list
  <2>3. CASE round[o] # NULL
    <3>1. round[o] \in TimerSlots /\ timerPoll[round[o]] # NULL
      BY <2>3 DEF CallInv, RoundIsOwn, TimersAssumption, Clients
    <3>2. PICK s \in TimerSlots : s = round[o]
      BY <3>1
    <3> QED BY <1>6, <2>1, <3>1, <3>2
  <2> QED BY <2>2, <2>3
<1>8. CASE \E c \in OneShots : CancelService(c)
  <2>1. PICK c \in OneShots : TimerCancel(FindTimer(c)) /\ c \in Clients /\ current' = current
    BY <1>8 DEF CancelService, TimerServiceCancel, Clients
  <2>2. CASE FindTimer(c) = NULL
    BY <1>0, <2>1, <2>2 DEF TimerCancel, list
  <2>3. CASE FindTimer(c) # NULL
    <3>1. FindTimer(c) \in TimerSlots /\ timerPoll[FindTimer(c)] = c /\ c # NULL
      BY <2>1, <2>3, FindTimerIsClients DEF TimersAssumption
    <3>2. PICK s \in TimerSlots : s = FindTimer(c)
      BY <3>1
    <3> QED BY <1>6, <2>1, <3>1, <3>2
  <2> QED BY <2>2, <2>3
<1>9. CASE Fire
  <2>1. /\ current = NULL /\ TimerStart # NULL /\ TimerRemaining(TimerStart) = 0
        /\ current' = TimerStart /\ timerPoll' = timerPoll /\ timerExpire' = timerExpire
    BY <1>9 DEF Fire, list
  <2>2. TimerStart \in Used /\ \A t \in Used : timerExpire[TimerStart] <= timerExpire[t]
    <3>1. MAX_TIMER_TASKS \in Nat /\ Used \in SUBSET (1 .. MAX_TIMER_TASKS)
      BY DEF TimerSlots, Used, TimersAssumption
    <3>2. IsList(timerLink, TimerStart, Used, timerExpire)
      BY DEF TimerPoolInv
    <3>3. TimerStart # NULL => TimerStart \in Used /\ \A t \in Used : timerExpire[TimerStart] <= timerExpire[t]
      BY <3>1, <3>2, FirstIsLeast, Zenon
    <3> QED BY <2>1, <3>3
  <2>3. TimerStart \in TimerSlots /\ timerExpire[TimerStart] \in Int
    BY <2>2 DEF Used, TimerPoolInv
  <2>4. timerExpire[TimerStart] <= 0
    BY <2>1, <2>3 DEF TimerRemaining
  <2>5. Abstract!Call(TimerStart)
    BY <2>1, <2>2, <2>4, ArmedIsUsed DEF Abstract!Call, NULL
  <2> QED BY <2>3, <2>5 DEF Abstract!Next
<1>10. CASE TimerReturn
  <2>1. current # NULL /\ current \in TimerSlots /\ TimerCancel(current) /\ current' = NULL
    BY <1>10 DEF TimerReturn, CallInv
  <2>2. timerPoll' = [timerPoll EXCEPT ![current] = NULL] /\ timerExpire' = [timerExpire EXCEPT ![current] = 0]
    BY <2>1, CancelKeepsPool
  <2>3. timerPoll \in [TimerSlots -> Clients \cup {NULL}]
    BY DEF TimerPoolInv
  <2>4. ArmedFor' = [ArmedFor EXCEPT ![current] = "none"]
    BY <2>1, <2>2, <2>3, Zenon DEF ArmedFor
  <2>5. Abstract!Return
    BY <2>1, <2>2, <2>4 DEF Abstract!Return, ArmedFor, NULL
  <2> QED BY <2>5 DEF Abstract!Next
<1> QED BY <1>1, <1>2, <1>4, <1>5, <1>7, <1>8, <1>9, <1>10 DEF TimersNext, Answer

(* Every behaviour is one of PendingTimers, whatever the scheduling. *)
LEMMA RefinesAlways == TimersAssumption => (TimersInit /\ [][TimersNext]_timersVars => RefinesPendingTimers)
<1> SUFFICES ASSUME TimersAssumption PROVE TimersInit /\ [][TimersNext]_timersVars => RefinesPendingTimers
  OBVIOUS
<1>1. TimersInit => TimersInv
  BY TimersInitInv
<1>2. TimersInv /\ [TimersNext]_timersVars => TimersInv'
  BY TimersStep
<1>3. TimersInit => Abstract!Init
  BY DEF TimersInit, TimerInit, Abstract!Init, NULL
<1>4. TimersInv /\ [TimersNext]_timersVars => [Abstract!Next]_(Abstract!vars)
  BY RefineStep
<1> QED BY <1>1, <1>2, <1>3, <1>4, PTL DEF RefinesPendingTimers, Abstract!Spec

(***************************************************************************)
(* timers.c implements the abstract timer service: a callback runs when it *)
(* is due and before any other that is due later, and the slot of a        *)
(* running callback is not handed out.                                     *)
(***************************************************************************)
THEOREM TimersRefine == ASSUME TimersAssumption PROVE TimersSpec => RefinesPendingTimers
  BY RefinesAlways, PTL DEF TimersSpec
=============================================================================
