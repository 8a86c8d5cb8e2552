------------------------------- MODULE Shell -------------------------------
(***************************************************************************)
(* ShellPoll of system/shell.c, run as a task per console: the UART shell  *)
(* and the shell of the video console.  The shells have a line buffer and  *)
(* a current command each; they share LedTime, the static command_time and *)
(* the one Xmodem transfer (XmodemData, XmodemState.block).                *)
(*                                                                         *)
(* A poll is one step: tasks are not preempted.  A line is represented by  *)
(* its first character and its length; which command a line of several     *)
(* characters names is an input.  The terminating '\0' that ShellPoll      *)
(* writes after a character at index COMMAND_LENGTH - 1 lands on the next  *)
(* byte of struct shell_state, which is the index i itself.                *)
(***************************************************************************)
EXTENDS Integers, FiniteSets

CONSTANTS Shells,
          COMMAND_LENGTH,
          LedPeriod,     \* MICROS_PER_SECOND, what LedTime starts with
          ClockValues,   \* number of values of the clock, 2^64
          MaxNow         \* bound: the clock stops there

U8       == 256
Chars    == {"CR", "BS", "?", "one", "letter"}  \* "one": a command of one character
Commands == {"quick", "xmodem", "quit"}
None     == "none"

TASK_IDLE     == 0
TASK_READY    == 1
TASK_FINISHED == 2

ASSUME ShellAssumption ==
  /\ IsFiniteSet(Shells)
  /\ COMMAND_LENGTH \in 2 .. U8 - 1
  /\ LedPeriod \in Nat /\ ClockValues \in Nat \ {0} /\ MaxNow \in 0 .. ClockValues - 1

VARIABLES i, first, cmd, result,  \* struct shell_state of each shell
          LedTime, command_time, XmodemData,
          block,      \* XmodemState.block: a transfer is in progress
          now,        \* the clock
          began,      \* began[s]: when the command of s was started
          shown, took,\* what was printed when it ended, and the time it took
          left        \* quit or run has branched away

shell  == <<i, first, cmd, result>>
global == <<LedTime, command_time, XmodemData, block>>
times  == <<began, shown, took>>
vars   == <<shell, global, now, times, left>>

Executing == {s \in Shells : cmd[s] # None}

(* ShellInit and the end of BoardInit. *)
Init ==
  /\ i = [s \in Shells |-> 0]
  /\ first = [s \in Shells |-> "CR"]
  /\ cmd = [s \in Shells |-> None]
  /\ result = [s \in Shells |-> TASK_FINISHED]
  /\ LedTime = LedPeriod /\ command_time = 0
  /\ XmodemData = FALSE /\ block = FALSE
  /\ now = 0
  /\ began = [s \in Shells |-> 0]
  /\ shown = [s \in Shells |-> 0] /\ took = [s \in Shells |-> 0]
  /\ left = FALSE

Tick == now < MaxNow /\ now' = now + 1 /\ UNCHANGED <<shell, global, times, left>>

Prompt(s) ==
  /\ i' = [i EXCEPT ![s] = 0]
  /\ result' = [result EXCEPT ![s] = TASK_IDLE]
  /\ cmd' = [cmd EXCEPT ![s] = None]
  /\ UNCHANGED first

(* The command of s has finished: print its time, restore the LED, prompt. *)
Finish(s) ==
  /\ command_time' = (now - command_time) % ClockValues
  /\ shown' = [shown EXCEPT ![s] = command_time']
  /\ took' = [took EXCEPT ![s] = now - began[s]]
  /\ LedTime' = LedTime * 8
  /\ Prompt(s)
  /\ UNCHANGED <<began, now, left>>

Pending(s, status) ==
  /\ result' = [result EXCEPT ![s] = status]
  /\ UNCHANGED <<i, first, cmd, LedTime, command_time, now, times, left>>

(* The xmodem command; status is what XmodemPoll returns. *)
xmodem(s, status) ==
  IF ~XmodemData /\ block
  THEN Finish(s) /\ UNCHANGED <<XmodemData, block>>
  ELSE /\ XmodemData' = (status # TASK_FINISHED)
       /\ block' = (status # TASK_FINISHED)
       /\ IF status = TASK_FINISHED THEN Finish(s) ELSE Pending(s, status)

(* Mutant of Execute: quit is missed, its command never ends. *)
ExecuteHangs(s) ==
  /\ ~left /\ cmd[s] # None
  /\ \/ cmd[s] = "quit" /\ UNCHANGED vars
     \/ cmd[s] = "quick" /\ Pending(s, TASK_READY) /\ UNCHANGED <<XmodemData, block>>
     \/ /\ cmd[s] = "xmodem"
        /\ \E status \in {TASK_IDLE, TASK_READY, TASK_FINISHED} : xmodem(s, status)

(* ShellPoll with a command executing. *)
Execute(s) ==
  /\ ~left /\ cmd[s] # None
  /\ \/ /\ cmd[s] = "quit"
        /\ left' = TRUE
        /\ i' = [i EXCEPT ![s] = 0]
        /\ result' = [result EXCEPT ![s] = TASK_FINISHED]
        /\ cmd' = [cmd EXCEPT ![s] = None]
        /\ UNCHANGED <<first, global, now, times>>
     \/ cmd[s] = "quick" /\ Finish(s) /\ UNCHANGED <<XmodemData, block>>
     \/ /\ cmd[s] = "xmodem"
        /\ \E status \in {TASK_IDLE, TASK_READY, TASK_FINISHED} : xmodem(s, status)

(* ShellPoll after a line that started no command. *)
Reprompt(s) ==
  /\ ~left /\ cmd[s] = None /\ result[s] = TASK_FINISHED
  /\ Prompt(s)
  /\ UNCHANGED <<global, now, times, left>>

(* Mutant of Lookup: the LED is already sped up for a line that is no command. *)
LookupSpeedsUp(s, found) ==
  /\ cmd' = [cmd EXCEPT ![s] = found]
  /\ LedTime' = LedTime \div 8
  /\ IF found = None
     THEN /\ result' = [result EXCEPT ![s] = TASK_FINISHED]
          /\ UNCHANGED <<command_time, began>>
     ELSE /\ command_time' = now
          /\ began' = [began EXCEPT ![s] = now]
          /\ UNCHANGED result

(* Look the line up, and start the command found. *)
Lookup(s, found) ==
  /\ cmd' = [cmd EXCEPT ![s] = found]
  /\ IF found = None
     THEN /\ result' = [result EXCEPT ![s] = TASK_FINISHED]
          /\ UNCHANGED <<LedTime, command_time, began>>
     ELSE /\ LedTime' = LedTime \div 8
          /\ command_time' = now
          /\ began' = [began EXCEPT ![s] = now]
          /\ UNCHANGED result

(* What shell() may find, reading from the first character, after index n. *)
Found(f, n) ==
  CASE f = "letter" /\ n > 0 -> Commands \cup {None}
    [] f = "one"             -> {"quick"}
    [] OTHER                 -> {None}

(* ShellPoll reads character c. *)
Read(s, c) ==
  LET n   == i[s]
      f   == IF n = 0 THEN c ELSE first[s]
      at  == IF n + 1 = COMMAND_LENGTH THEN 0 ELSE n
      chr == IF at = n THEN c ELSE f
  IN  /\ ~left /\ cmd[s] = None /\ result[s] # TASK_FINISHED
      /\ first' = [first EXCEPT ![s] = f]
      /\ \E found \in Found(f, n) :
           LET exec == \/ chr = "CR"
                       \/ at >= COMMAND_LENGTH - 1
                       \/ at = 0 /\ found # None
           IN  IF ~exec
               THEN /\ i' = [i EXCEPT ![s] = (IF chr = "BS" THEN at - 1 ELSE at + 1) % U8]
                    /\ UNCHANGED <<cmd, result, LedTime, command_time, began>>
               ELSE /\ i' = [i EXCEPT ![s] = at]
                    /\ IF (at <= 1 /\ f = "?") \/ (at = 0 /\ chr = "CR")
                       THEN /\ result' = [result EXCEPT ![s] = TASK_FINISHED]
                            /\ UNCHANGED <<cmd, LedTime, command_time, began>>
                       ELSE Lookup(s, found)
      /\ UNCHANGED <<XmodemData, block, now, shown, took, left>>

Next ==
  \/ Tick
  \/ \E s \in Shells : Execute(s) \/ Reprompt(s)
  \/ \E s \in Shells, c \in Chars : Read(s, c)
  \/ left /\ UNCHANGED vars

(***************************************************************************)
(* OsTick polls every shell for ever, and a transfer ends (Xmodem.tla).    *)
(***************************************************************************)
EndsTransfer(s) ==
  /\ ~left /\ cmd[s] = "xmodem"
  /\ xmodem(s, TASK_FINISHED)

Fairness ==
  \A s \in Shells : /\ WF_vars(Execute(s)) /\ WF_vars(Reprompt(s))
                    /\ SF_vars(EndsTransfer(s))

Spec == Init /\ [][Next]_vars /\ Fairness

-----------------------------------------------------------------------------
(***************************************************************************)
(* Shape of the state.                                                     *)
(***************************************************************************)
TypeOK ==
  /\ i \in [Shells -> 0 .. U8 - 1]
  /\ first \in [Shells -> Chars]
  /\ cmd \in [Shells -> Commands \cup {None}]
  /\ result \in [Shells -> {TASK_IDLE, TASK_READY, TASK_FINISHED}]
  /\ LedTime \in Nat
  /\ command_time \in 0 .. ClockValues - 1
  /\ XmodemData \in BOOLEAN /\ block \in BOOLEAN
  /\ now \in 0 .. MaxNow
  /\ began \in [Shells -> 0 .. MaxNow] /\ took \in [Shells -> 0 .. MaxNow]
  /\ shown \in [Shells -> 0 .. ClockValues - 1]
  /\ left \in BOOLEAN

(***************************************************************************)
(* However the commands of the shells overlap, the LED blinks at its       *)
(* normal period whenever none is executing: dividing and multiplying      *)
(* LedTime by 8 cancel out, integer division included.                     *)
(***************************************************************************)
LedRestored == ~left /\ Executing = {} => LedTime = LedPeriod

(***************************************************************************)
(* The transfer the shells share is in progress only while some shell      *)
(* polls it, and the shells' idea of it agrees with the receiver's.        *)
(***************************************************************************)
TransferPolled ==
  /\ XmodemData = block
  /\ XmodemData /\ ~left => \E s \in Shells : cmd[s] = "xmodem"

(* ShellPoll: commands of the two shells overlap in any way, yet the LED   *)
(* gets its period back, and the transfer the shells share is in progress  *)
(* only while one of them polls it.                                        *)
ShellsApart == LedRestored /\ TransferPolled

(***************************************************************************)
(* A shell always comes back to its prompt.                                *)
(***************************************************************************)
BackToPrompt == \A s \in Shells : cmd[s] # None ~> (cmd[s] = None \/ left)

(***************************************************************************)
(* Claims of the comments and messages in shell.c that do not hold.        *)
(***************************************************************************)

(* "Calculate clock delta and return command result." *)
ShownIsElapsed == \A s \in Shells : shown[s] = took[s]

(* "Xmodem already in progress, please try again later": a second shell is *)
(* turned away while one downloads.  Only XmodemPoll gives TASK_READY.     *)
OneShellDownloads ==
  \A s, t \in Shells :
    (/\ cmd[s] = "xmodem" /\ result[s] = TASK_READY
     /\ cmd[t] = "xmodem" /\ result[t] = TASK_READY) => s = t

(* "Execute command on carriage return or end of command/length." *)
FullLineExecutes ==
  [][\A s \in Shells :
       i[s] = COMMAND_LENGTH - 1 /\ i'[s] # i[s] /\ cmd[s] = None /\ ~left
         => cmd'[s] # None \/ result'[s] = TASK_FINISHED]_vars
=============================================================================
