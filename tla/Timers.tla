------------------------------- MODULE Timers -------------------------------
(***************************************************************************)
(* The software timers of system/timers.c: a pool of MAX_TIMER_TASKS       *)
(* timer_task slots, the armed ones linked in expiration order from        *)
(* TimerStart, and TimerPoll, the task that runs the callback at the head. *)
(*                                                                         *)
(* TimerPoll is split where it calls out: Fire is TimerPoll up to the call *)
(* of current->poll, the callback's own calls are steps of their own, and  *)
(* TimerReturn is what TimerPoll does once the callback has returned       *)
(* TASK_FINISHED, as every callback of the repository does.  The clock     *)
(* ticks between any two steps.  Expiration times are kept relative to the *)
(* clock (expire - now), the only way the code ever uses them; a timer     *)
(* that is late is negative, and Late bounds how late it may get.          *)
(*                                                                         *)
(* Clients are the three ways the repository uses the service:             *)
(*   Services  re-arm themselves from their callback for ever              *)
(*             (process_interrupt in host.c, dhcp_fine_tmr in dhcp.c);     *)
(*   Owners    keep the pointer TimerSchedule returned and cancel through  *)
(*             it (game_round and TheWorld.round in virtual_world.c);      *)
(*   OneShots  re-arm or not, keep no pointer (stage_interval in host.c,   *)
(*             player_move_callback in virtual_world.c).                   *)
(***************************************************************************)
EXTENDS LinkedList, Integers

CONSTANTS MAX_TIMER_TASKS, \* slots of TimerTasks
          Services, Owners, OneShots,
          TimerDelays,     \* the usec arguments in use
          Late             \* bound: the latest a timer is called back

TimerSlots == 1 .. MAX_TIMER_TASKS
Clients    == Services \cup Owners \cup OneShots

TimersAssumption ==
  /\ MAX_TIMER_TASKS \in Nat \ {0}
  /\ Late \in Nat
  /\ TimerDelays \subseteq Nat \ {0}
  /\ NULL \notin Clients /\ "none" \notin Clients
  /\ Services \cap Owners = {} /\ Services \cap OneShots = {} /\ Owners \cap OneShots = {}

VARIABLES TimerStart,  \* first timer of the list
          timerLink,   \* TimerTasks[].list
          timerExpire, \* TimerTasks[].expire, relative to the clock
          timerPoll,   \* TimerTasks[].poll and data: the client, or NULL
          current,     \* TimerPoll's local: the slot called back, or NULL
          pending,     \* the callback has not re-armed, cancelled or declined yet
          round        \* round[o]: the pointer kept by owner o

timersVars == <<TimerStart, timerLink, timerExpire, timerPoll, current, pending, round>>

list == <<TimerStart, timerLink, timerExpire, timerPoll>>

Used == {s \in TimerSlots : timerPoll[s] # NULL}

TimerRemaining(s) == IF 0 > timerExpire[s] THEN 0 ELSE timerExpire[s]

-----------------------------------------------------------------------------
(* The functions of timers.c, as what they do to the list. *)

TimerInit ==
  /\ TimerStart = NULL
  /\ timerLink = [s \in TimerSlots |-> NoLinks]
  /\ timerExpire = [s \in TimerSlots |-> 0]
  /\ timerPoll = [s \in TimerSlots |-> NULL]

(* The pointer TimerSchedule will return: the first free slot, or NULL. *)
FreeTimer ==
  IF Used = TimerSlots THEN NULL
  ELSE CHOOSE s \in TimerSlots \ Used : \A t \in TimerSlots \ Used : s <= t

(* Mutant of TimerSchedule: a timer is put at the end of the list unless it is the first. *)
TimerScheduleAppends(usec, client) ==
  IF FreeTimer = NULL THEN UNCHANGED list
  ELSE LET s     == FreeTimer
           clean == [timerLink EXCEPT ![s] = NoLinks]
           ins   == InsertOrdered(clean, TimerStart, MAX_TIMER_TASKS, s, [t \in TimerSlots |-> 0])
       IN  /\ timerExpire' = [timerExpire EXCEPT ![s] = usec]
           /\ timerPoll' = [timerPoll EXCEPT ![s] = client]
           /\ TimerStart' = IF TimerStart = NULL THEN s ELSE ins.start
           /\ timerLink' = IF TimerStart = NULL THEN clean ELSE ins.link

TimerSchedule(usec, client) ==
  IF FreeTimer = NULL THEN UNCHANGED list
  ELSE LET s     == FreeTimer
           clean == [timerLink EXCEPT ![s] = NoLinks]
           exp   == [timerExpire EXCEPT ![s] = usec]
           ins   == InsertOrdered(clean, TimerStart, MAX_TIMER_TASKS, s, exp)
       IN  /\ timerExpire' = exp
           /\ timerPoll' = [timerPoll EXCEPT ![s] = client]
           /\ IF TimerStart = NULL
              THEN /\ TimerStart' = s
                   /\ timerLink' = clean
              ELSE /\ TimerStart' = ins.start
                   /\ timerLink' = ins.link

(* Mutant of TimerCancel: no special handling for the top of the list. *)
TimerCancelKeepsStart(cancel) ==
  IF cancel = NULL THEN UNCHANGED list
  ELSE /\ UNCHANGED TimerStart
       /\ timerLink' = [ListRemove(timerLink, cancel) EXCEPT ![cancel] = NoLinks]
       /\ timerExpire' = [timerExpire EXCEPT ![cancel] = 0]
       /\ timerPoll' = [timerPoll EXCEPT ![cancel] = NULL]

TimerCancel(cancel) ==
  IF cancel = NULL THEN UNCHANGED list
  ELSE /\ TimerStart' = IF cancel = TimerStart THEN timerLink[cancel].next ELSE TimerStart
       /\ timerLink' = [ListRemove(timerLink, cancel) EXCEPT ![cancel] = NoLinks]
       /\ timerExpire' = [timerExpire EXCEPT ![cancel] = 0]
       /\ timerPoll' = [timerPoll EXCEPT ![cancel] = NULL]

(* The first timer of the list that was scheduled for client, or NULL. *)
FindTimer(client) ==
  LET at == Visit(timerLink, TimerStart, MAX_TIMER_TASKS)
      hit(k) == at[k] # NULL /\ timerPoll[at[k]] = client
  IN  IF \E k \in DOMAIN at : hit(k)
      THEN at[CHOOSE k \in DOMAIN at : hit(k) /\ \A j \in 0 .. k - 1 : ~hit(j)]
      ELSE NULL

TimerServiceCancel(client) == TimerCancel(FindTimer(client))

-----------------------------------------------------------------------------
TimersInit ==
  /\ TimerInit
  /\ current = NULL
  /\ pending = FALSE
  /\ round = [o \in Owners |-> NULL]

Tick ==
  /\ \A s \in Used : timerExpire[s] > -Late
  /\ timerExpire' = [s \in TimerSlots |-> IF s \in Used THEN timerExpire[s] - 1 ELSE 0]
  /\ UNCHANGED <<TimerStart, timerLink, timerPoll, current, pending, round>>

(* TimerSchedule, and what its caller does with the pointer returned. *)
Schedule(client, usec) ==
  /\ TimerSchedule(usec, client)
  /\ round' = IF client \in Owners THEN [round EXCEPT ![client] = FreeTimer] ELSE round
  /\ UNCHANGED current

(***************************************************************************)
(* A task, or the callback of another client, starts a client that has no  *)
(* timer (HostEnable, dhcp_start, GamePause, GameStart, game_level_up).    *)
(***************************************************************************)
Start(client, usec) ==
  /\ \A s \in TimerSlots : timerPoll[s] # client
  /\ current # NULL => pending
  /\ Schedule(client, usec)
  /\ UNCHANGED pending

(* TimerCancel(TheWorld.round); TheWorld.round = NULL -- also from another callback. *)
CancelRound(o) ==
  /\ current # NULL => pending /\ timerPoll[current] # o
  /\ TimerCancel(round[o])
  /\ round' = [round EXCEPT ![o] = NULL]
  /\ UNCHANGED <<current, pending>>

(* TimerServiceCancel called by a task. *)
CancelService(client) ==
  /\ current = NULL
  /\ client \in OneShots
  /\ TimerServiceCancel(client)
  /\ UNCHANGED <<current, pending, round>>

(* TimerPoll: only the head is looked at, and called when nothing remains. *)
Fire ==
  /\ current = NULL
  /\ TimerStart # NULL
  /\ TimerRemaining(TimerStart) = 0
  /\ current' = TimerStart
  /\ pending' = TRUE
  /\ UNCHANGED <<list, round>>

(* The callback schedules itself again, before it returns. *)
Rearm(usec) ==
  /\ current # NULL /\ pending
  /\ Schedule(timerPoll[current], usec)
  /\ pending' = FALSE

(* game_round when the character has died: it cancels its own timer. *)
CancelSelf ==
  /\ current # NULL /\ pending
  /\ timerPoll[current] \in Owners
  /\ TimerCancel(round[timerPoll[current]])
  /\ round' = [round EXCEPT ![timerPoll[current]] = NULL]
  /\ pending' = FALSE
  /\ UNCHANGED current

(* A one-shot callback that schedules nothing. *)
Decline ==
  /\ current # NULL /\ pending
  /\ timerPoll[current] \in OneShots
  /\ pending' = FALSE
  /\ UNCHANGED <<list, current, round>>

(* Mutant of Return: the finished timer is not cancelled. *)
TimerReturnKeeps ==
  /\ current # NULL /\ ~pending
  /\ current' = NULL
  /\ UNCHANGED <<list, pending, round>>

(* TimerPoll after TASK_FINISHED: it cancels the slot it called, whatever it holds. *)
TimerReturn ==
  /\ current # NULL /\ ~pending
  /\ TimerCancel(current)
  /\ current' = NULL
  /\ UNCHANGED <<pending, round>>

(* What a callback does before it returns. *)
Answer == CancelSelf \/ Decline \/ \E usec \in TimerDelays : Rearm(usec)

TimersNext ==
  \/ Tick
  \/ \E c \in Clients, usec \in TimerDelays : Start(c, usec)
  \/ \E o \in Owners : CancelRound(o)
  \/ \E c \in OneShots : CancelService(c)
  \/ Fire
  \/ Answer
  \/ TimerReturn

(***************************************************************************)
(* OsTick polls TimerPoll again and again, callbacks return, time passes.  *)
(***************************************************************************)
TimersFairness ==
  /\ WF_timersVars(Tick)
  /\ WF_timersVars(Fire)
  /\ WF_timersVars(Answer)
  /\ WF_timersVars(TimerReturn)

TimersSpec == TimersInit /\ [][TimersNext]_timersVars /\ TimersFairness

-----------------------------------------------------------------------------
(***************************************************************************)
(* Shape of the state.                                                     *)
(***************************************************************************)
TimersTypeOK ==
  /\ TimerStart \in TimerSlots \cup {NULL}
  /\ timerLink \in [TimerSlots -> [next : TimerSlots \cup {NULL}, previous : TimerSlots \cup {NULL}]]
  /\ timerExpire \in [TimerSlots -> Int]
  /\ timerPoll \in [TimerSlots -> Clients \cup {NULL}]
  /\ current \in TimerSlots \cup {NULL}
  /\ pending \in BOOLEAN
  /\ round \in [Owners -> TimerSlots \cup {NULL}]

(***************************************************************************)
(* After any sequence of schedules, callbacks and cancels, stale ones      *)
(* included, TimerStart heads a NULL-terminated list of exactly the used   *)
(* slots, doubly linked, in expiration order.                              *)
(***************************************************************************)
TimerListInv ==
  /\ Terminated(timerLink, TimerStart, MAX_TIMER_TASKS)
  /\ Reachable(timerLink, TimerStart, MAX_TIMER_TASKS) = Used
  /\ \A s \in Used :
       /\ timerLink[s].next # NULL =>
            /\ timerLink[timerLink[s].next].previous = s
            /\ timerExpire[s] <= timerExpire[timerLink[s].next]
       /\ timerLink[s].previous = NULL <=> s = TimerStart

(***************************************************************************)
(* A kept pointer never designates another client's timer: what            *)
(* GamePause, GameStart or game_level_up cancels through TheWorld.round is *)
(* the game's own timer, although the slot behind a pointer is recycled.   *)
(***************************************************************************)
RoundIsOwn ==
  \A o \in Owners : round[o] # NULL => timerPoll[round[o]] = o

(* What TimerPoll, and a client that cancels, rely on. *)
TimerListSound == TimersTypeOK /\ TimerListInv /\ RoundIsOwn

(***************************************************************************)
(* A self-rescheduling service (the USB interrupt poll, the DHCP timers)   *)
(* that has been started loses its timer in one case only: every slot was  *)
(* taken, its own by the callback that is running, when it called          *)
(* TimerSchedule.                                                          *)
(***************************************************************************)
HasTimer(v) == \E s \in TimerSlots : timerPoll[s] = v

ServiceSurvives ==
  [][\A v \in Services : HasTimer(v) /\ ~HasTimer(v)' => Used = TimerSlots]_timersVars

(***************************************************************************)
(* The linked list implements the abstract timer service: callbacks run    *)
(* when due and earliest first, and the slot of a running callback is not  *)
(* handed out before TimerPoll has cancelled it.                           *)
(***************************************************************************)
Abstract == INSTANCE PendingTimers WITH
  Slots   <- TimerSlots,
  Delays  <- TimerDelays,
  armed   <- [s \in TimerSlots |-> IF timerPoll[s] = NULL THEN "none" ELSE timerPoll[s]],
  due     <- timerExpire,
  calling <- current

RefinesPendingTimers == Abstract!Spec

(***************************************************************************)
(* Every armed timer is eventually called back or cancelled.               *)
(***************************************************************************)
EveryTimerRuns ==
  \A s \in TimerSlots : (timerPoll[s] # NULL /\ current # s) ~> (current = s \/ timerPoll[s] = NULL)


=============================================================================
