------------------------------- MODULE Clock -------------------------------
(***************************************************************************)
(* The board's 64 bit clock, boards/rpi/board.c.  The hardware counts      *)
(* microseconds in two registers that are read one after the other, the    *)
(* low half first, while the counter runs on.  One timer is registered     *)
(* (TimerRegister, or TimerNow in TimerSchedule) and polled with           *)
(* TimerRemaining, as usleep and TimerPoll do.                             *)
(***************************************************************************)
EXTENDS Integers

CONSTANTS Low,       \* values of the low register, 2^32
          MaxTicks,  \* bound: microseconds since power-on
          Delays     \* of the timers

ClockAssumption == Low \in Nat \ {0} /\ MaxTicks \in Nat /\ Delays \subseteq Nat

VARIABLES ticks,    \* the hardware counter
          reading,  \* the function between its two reads, or "none"
          low,      \* what TIMER_CLO was when it was read
          started,  \* ticks at that moment
          now,      \* the last 64 bit time composed
          torn,     \* some reading of this timer spans a rollover of the low half
          armed,    \* a timer is registered
          delay, since, expire,
          remaining \* what TimerRemaining returned last

vars == <<ticks, reading, low, started, now, torn, armed, delay, since, expire, remaining>>

TIMER_CLO == ticks % Low
TIMER_CHI == ticks \div Low

Init ==
  /\ ticks \in 0 .. Low - 1
  /\ reading = "none" /\ low = 0 /\ started = 0 /\ now = 0 /\ torn = FALSE
  /\ armed = FALSE /\ delay = 0 /\ since = 0 /\ expire = 0 /\ remaining = 0

(* The counter runs whatever the program does. *)
Tick ==
  /\ ticks < MaxTicks
  /\ ticks' = ticks + 1
  /\ UNCHANGED <<reading, low, started, now, torn, armed, delay, since, expire, remaining>>

ReadLow(function) ==
  /\ reading = "none" /\ reading' = function
  /\ low' = TIMER_CLO /\ started' = ticks

(* Mutant of Compose: the high half is read first, the low one second. *)
Compose_high_first == TIMER_CLO + Low * (started \div Low)

(* "now |= (u64)REG32(TIMER_CHI) << 32". *)
Compose == low + Low * TIMER_CHI

RegisterLow ==
  /\ ~armed
  /\ ReadLow("TimerRegister")
  /\ \E d \in Delays : delay' = d
  /\ since' = ticks /\ torn' = FALSE
  /\ UNCHANGED <<ticks, now, armed, expire, remaining>>

ReadHigh(function) ==
  /\ reading = function /\ reading' = "none"
  /\ now' = Compose
  /\ torn' = (torn \/ ticks \div Low # started \div Low)

TimerRegister ==
  /\ ReadHigh("TimerRegister")
  /\ armed' = TRUE
  /\ expire' = now' + delay
  /\ UNCHANGED <<ticks, low, started, delay, since, remaining>>

RemainingLow ==
  /\ armed
  /\ ReadLow("TimerRemaining")
  /\ UNCHANGED <<ticks, now, torn, armed, delay, since, expire, remaining>>

Remaining(t) == IF t > expire THEN 0 ELSE expire - t

(* The caller is done with the timer when nothing remains. *)
TimerRemaining ==
  /\ ReadHigh("TimerRemaining")
  /\ remaining' = Remaining(now')
  /\ armed' = (remaining' > 0)
  /\ UNCHANGED <<ticks, low, started, delay, since, expire>>

Next == Tick \/ RegisterLow \/ TimerRegister \/ RemainingLow \/ TimerRemaining

Spec == Init /\ [][Next]_vars

-----------------------------------------------------------------------------
(* Shape of the state: no unsigned time is ever below zero. *)
TypeOK ==
  /\ ticks \in 0 .. MaxTicks /\ started \in 0 .. MaxTicks /\ since \in 0 .. MaxTicks
  /\ reading \in {"none", "TimerRegister", "TimerRemaining"}
  /\ low \in 0 .. Low - 1
  /\ torn \in BOOLEAN /\ armed \in BOOLEAN
  /\ delay \in Delays \cup {0}
  /\ now \in Nat /\ expire \in Nat /\ remaining \in Nat

(***************************************************************************)
(* Reading the low half first may give a time in the future, but never one *)
(* that was past when TimerNow, TimerRegister or TimerRemaining was called, *)
(* and the error is no other than one whole low register.                  *)
(***************************************************************************)
NeverBehind ==
  [][ now' # now \/ (reading # "none" /\ reading' = "none")
        => \E t \in started .. ticks : now' \in {t, t + Low} ]_vars

(***************************************************************************)
(* A timer whose readings are whole is reported expired by TimerRemaining  *)
(* not before its delay has passed.                                        *)
(***************************************************************************)
ExpiresNotEarly ==
  [][ armed /\ ~armed' /\ ~torn' => ticks >= since + delay ]_vars
=============================================================================
