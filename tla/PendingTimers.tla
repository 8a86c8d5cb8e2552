--------------------------- MODULE PendingTimers ---------------------------
(***************************************************************************)
(* What the timer service promises its callers, with no list in sight: a   *)
(* pool of slots, each armed for a client until an expiration time; a      *)
(* client is called back only at or after its time, and only when no       *)
(* other armed timer was due earlier.                                      *)
(***************************************************************************)
EXTENDS Integers

CONSTANTS Slots, Clients, Delays

VARIABLES armed,    \* armed[s]: the client slot s is armed for, or "none"
          due,      \* due[s]: its expiration time relative to the clock
          calling   \* the slot whose callback runs, or 0

vars == <<armed, due, calling>>

Armed == {s \in Slots : armed[s] # "none"}

Init ==
  /\ armed = [s \in Slots |-> "none"]
  /\ due = [s \in Slots |-> 0]
  /\ calling = 0

Tick == /\ due' = [s \in Slots |-> IF s \in Armed THEN due[s] - 1 ELSE 0]
        /\ UNCHANGED <<armed, calling>>

Arm(s, c, d) ==
  /\ s \in Slots \ (Armed \cup {calling})
  /\ armed' = [armed EXCEPT ![s] = c]
  /\ due' = [due EXCEPT ![s] = d]
  /\ UNCHANGED calling

Disarm(s) ==
  /\ s \in Armed
  /\ armed' = [armed EXCEPT ![s] = "none"]
  /\ due' = [due EXCEPT ![s] = 0]
  /\ UNCHANGED calling

Call(s) ==
  /\ calling = 0
  /\ s \in Armed
  /\ due[s] <= 0
  /\ \A t \in Armed : due[s] <= due[t]
  /\ calling' = s
  /\ UNCHANGED <<armed, due>>

(* A callback that has returned leaves its slot free. *)
Return ==
  /\ calling # 0
  /\ calling' = 0
  /\ armed' = [armed EXCEPT ![calling] = "none"]
  /\ due' = [due EXCEPT ![calling] = 0]

Next ==
  \/ Tick
  \/ \E s \in Slots, c \in Clients, d \in Delays : Arm(s, c, d)
  \/ \E s \in Slots : Disarm(s) \/ Call(s)
  \/ Return

Spec == Init /\ [][Next]_vars
=============================================================================
