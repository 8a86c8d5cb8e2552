---------------------------- MODULE ConsoleProofs ----------------------------
(***************************************************************************)
(* Proofs about the console.                                               *)
(*                                                                         *)
(* The shells do not disturb each other: the Xmodem transfer they share is *)
(* polled while it is in progress, whatever the number of shells, and the  *)
(* LED gets its period back when there are two shells and the period is a  *)
(* multiple of 64, as the 1000000 microseconds of the code are.            *)
(*                                                                         *)
(* The Xmodem receiver reports a download complete only when it has stored *)
(* the whole file, for any number of blocks, block numbers that wrap round *)
(* at any modulus, any faults of the line and any timeouts.                *)
(*                                                                         *)
(* The console has one shell, in whatever order its parts are started, and *)
(* a press of a key is taken up once, for any number of keys and presses.  *)
(***************************************************************************)
EXTENDS MCConsole, Sequences, SequenceTheorems, TLAPS

(* The time each step may take. *)
USE SMTT(30), ZenonT(40)


(* TransferPolled, with what the commands may be. *)
TransferInv ==
  /\ cmd \in [Shells -> Commands \cup {None}]
  /\ XmodemData \in BOOLEAN
  /\ TransferPolled

(* Each command that executes has divided LedTime by 8 once.  In TLA+ the  *)
(* shells a and b and the quotient q of the period are parameters.         *)
LedInv(a, b, q) ==
  ~left => LedTime = IF cmd[a] = None /\ cmd[b] = None THEN 64 * q
                     ELSE IF cmd[a] = None \/ cmd[b] = None THEN 8 * q ELSE q

(* The commands are neither none nor each other. *)
LEMMA CommandsDiffer == None \notin Commands
  BY DEF None, Commands

-----------------------------------------------------------------------------
(* Ending the command of s while nobody's transfer is in progress, or      *)
(* while it is another command, keeps TransferInv.                         *)
LEMMA FinishTransfer ==
  ASSUME TransferInv, NEW s \in Shells, Finish(s), XmodemData' = block', XmodemData' \in BOOLEAN,
         XmodemData' => XmodemData /\ cmd[s] # "xmodem"
  PROVE  TransferInv'
<1>1. cmd' = [cmd EXCEPT ![s] = None] /\ left' = left
  BY DEF Finish, Prompt
<1>2. cmd' \in [Shells -> Commands \cup {None}]
  BY <1>1 DEF TransferInv
<1>3. XmodemData' /\ ~left' => \E t \in Shells : cmd'[t] = "xmodem"
  <2> SUFFICES ASSUME XmodemData', ~left' PROVE \E t \in Shells : cmd'[t] = "xmodem"
    OBVIOUS
  <2>1. PICK t \in Shells : cmd[t] = "xmodem"
    BY <1>1 DEF TransferInv, TransferPolled
  <2>2. t # s
    BY <2>1
  <2>3. cmd'[t] = "xmodem"
    BY <1>1, <2>1, <2>2 DEF TransferInv
  <2> QED BY <2>3
<1> QED BY <1>2, <1>3 DEF TransferInv, TransferPolled

(* ShellPoll with a command executing. *)
LEMMA ExecuteTransfer == ASSUME TransferInv, NEW s \in Shells, Execute(s) PROVE TransferInv'
<1>1. CASE cmd[s] = "quit"
  <2>1. cmd' = [cmd EXCEPT ![s] = None] /\ left' = TRUE /\ UNCHANGED <<XmodemData, block>>
    BY <1>1 DEF Execute, global
  <2> QED BY <2>1 DEF TransferInv, TransferPolled
<1>2. CASE cmd[s] = "quick"
  <2>1. Finish(s) /\ UNCHANGED <<XmodemData, block>>
    BY <1>2 DEF Execute
  <2> QED BY <1>2, <2>1, FinishTransfer DEF TransferInv, TransferPolled
<1>3. CASE cmd[s] = "xmodem"
  <2>1. PICK status \in {TASK_IDLE, TASK_READY, TASK_FINISHED} : xmodem(s, status)
    BY <1>3 DEF Execute
  <2>2. /\ XmodemData' = (status # TASK_FINISHED) /\ block' = (status # TASK_FINISHED)
        /\ IF status = TASK_FINISHED THEN Finish(s) ELSE Pending(s, status)
    BY <2>1 DEF xmodem, TransferInv, TransferPolled
  <2>3. CASE status = TASK_FINISHED
    BY <2>2, <2>3, FinishTransfer, Zenon
  <2>4. CASE status # TASK_FINISHED
    <3>1. cmd' = cmd /\ XmodemData' = block' /\ XmodemData' \in BOOLEAN
      BY <2>2, <2>4 DEF Pending
    <3> QED BY <1>3, <3>1 DEF TransferInv, TransferPolled
  <2> QED BY <2>3, <2>4
<1> QED BY <1>1, <1>2, <1>3 DEF Execute

(* What Read does with the command of the shell that reads. *)
LEMMA ReadCommand ==
  ASSUME NEW s \in Shells, NEW c \in Chars, Read(s, c)
  PROVE  /\ cmd[s] = None
         /\ \E found \in Commands \cup {None} : cmd' = [cmd EXCEPT ![s] = found] \/ cmd' = cmd
         /\ UNCHANGED <<XmodemData, block, left>>
<1>1. \A f, n : Found(f, n) \subseteq Commands \cup {None}
  BY DEF Found, Commands, None
<1> QED BY <1>1 DEF Read, Lookup

(* Every step keeps TransferInv. *)
LEMMA NextTransfer == TransferInv /\ [Next]_vars => TransferInv'
<1> SUFFICES ASSUME TransferInv, [Next]_vars PROVE TransferInv'
  OBVIOUS
<1>1. ASSUME NEW s \in Shells, Execute(s) PROVE TransferInv'
  BY <1>1, ExecuteTransfer
<1>2. ASSUME NEW s \in Shells, Reprompt(s) PROVE TransferInv'
  <2>1. cmd' = cmd /\ UNCHANGED <<XmodemData, block, left>>
    BY <1>2 DEF Reprompt, Prompt, global, TransferInv
  <2> QED BY <2>1 DEF TransferInv, TransferPolled
<1>3. ASSUME NEW s \in Shells, NEW c \in Chars, Read(s, c) PROVE TransferInv'
  <2>1. PICK found \in Commands \cup {None} : cmd' = [cmd EXCEPT ![s] = found] \/ cmd' = cmd
    BY <1>3, ReadCommand
  <2>2. cmd[s] = None /\ UNCHANGED <<XmodemData, block, left>>
    BY <1>3, ReadCommand
  <2>3. \A t \in Shells : cmd[t] = "xmodem" => cmd'[t] = "xmodem"
    BY <2>1, <2>2 DEF TransferInv, None
  <2> QED BY <2>1, <2>2, <2>3 DEF TransferInv, TransferPolled
<1>4. CASE Tick \/ UNCHANGED vars
  <2>1. UNCHANGED <<cmd, XmodemData, block, left>>
    BY <1>4 DEF Tick, vars, shell, global
  <2> QED BY <2>1 DEF TransferInv, TransferPolled
<1> QED BY <1>1, <1>2, <1>3, <1>4 DEF Next

(***************************************************************************)
(* A transfer in progress is polled by some shell, and the test "Xmodem    *)
(* already in progress" of the xmodem command never differs from the       *)
(* receiver's own state, whatever the number of shells.                    *)
(***************************************************************************)
THEOREM TransferIsPolled == Spec => []TransferPolled
<1>1. Init => TransferInv
  BY Zenon DEF Init, TransferInv, TransferPolled
<1>2. TransferInv => TransferPolled
  BY DEF TransferInv
<1> QED BY <1>1, <1>2, NextTransfer, PTL DEF Spec

-----------------------------------------------------------------------------
(* A command of s starts: LedTime is divided, and s counts as executing.   *)
LEMMA StartLed ==
  ASSUME NEW a, NEW b, a # b, NEW q \in Nat, cmd \in [{a, b} -> Commands \cup {None}],
         LedInv(a, b, q), NEW s \in {a, b}, cmd[s] = None, NEW found \in Commands,
         cmd' = [cmd EXCEPT ![s] = found], LedTime' = LedTime \div 8, left' = left
  PROVE  LedInv(a, b, q)'
<1>1. found # None
  BY CommandsDiffer
<1>2. cmd'[s] # None /\ \A t \in {a, b} : t # s => cmd'[t] = cmd[t]
  BY <1>1
<1>3. (64 * q) \div 8 = 8 * q /\ (8 * q) \div 8 = q
  OBVIOUS
<1>4. CASE s = a
  BY <1>2, <1>3, <1>4 DEF LedInv
<1>5. CASE s = b
  BY <1>2, <1>3, <1>5 DEF LedInv
<1> QED BY <1>4, <1>5

(* The command of s ends: LedTime is multiplied again. *)
LEMMA FinishLed ==
  ASSUME NEW a, NEW b, a # b, NEW q \in Nat, cmd \in [{a, b} -> Commands \cup {None}],
         LedInv(a, b, q), NEW s \in {a, b}, cmd[s] # None, Finish(s)
  PROVE  LedInv(a, b, q)'
<1>1. cmd' = [cmd EXCEPT ![s] = None] /\ LedTime' = LedTime * 8 /\ left' = left
  BY DEF Finish, Prompt
<1>2. cmd'[s] = None /\ \A t \in {a, b} : t # s => cmd'[t] = cmd[t]
  BY <1>1
<1>3. CASE s = a
  BY <1>1, <1>2, <1>3 DEF LedInv
<1>4. CASE s = b
  BY <1>1, <1>2, <1>4 DEF LedInv
<1> QED BY <1>3, <1>4

(* What Read does with LedTime: nothing, or a command is started. *)
LEMMA ReadLed ==
  ASSUME NEW s \in Shells, NEW c \in Chars, Read(s, c), cmd \in [Shells -> Commands \cup {None}]
  PROVE  \/ cmd' = cmd /\ LedTime' = LedTime
         \/ \E found \in Commands : cmd' = [cmd EXCEPT ![s] = found] /\ LedTime' = LedTime \div 8
<1>1. \A f, n : Found(f, n) \subseteq Commands \cup {None}
  BY DEF Found, Commands, None
<1>2. cmd[s] = None
  BY DEF Read
<1>3. \/ cmd' = cmd /\ LedTime' = LedTime
      \/ \E found \in Commands \cup {None} : Lookup(s, found)
  BY <1>1 DEF Read
<1>4. ASSUME NEW found \in Commands \cup {None}, Lookup(s, found)
      PROVE  \/ cmd' = cmd /\ LedTime' = LedTime
             \/ found \in Commands /\ cmd' = [cmd EXCEPT ![s] = found] /\ LedTime' = LedTime \div 8
  BY <1>2, <1>4 DEF Lookup
<1> QED BY <1>3, <1>4

(* Every step keeps LedInv. *)
LEMMA NextLed ==
  ASSUME NEW a, NEW b, a # b, Shells = {a, b}, NEW q \in Nat
  PROVE  TransferInv /\ LedInv(a, b, q) /\ [Next]_vars => LedInv(a, b, q)'
<1> SUFFICES ASSUME TransferInv, LedInv(a, b, q), [Next]_vars PROVE LedInv(a, b, q)'
  OBVIOUS
<1>0. cmd \in [{a, b} -> Commands \cup {None}]
  BY DEF TransferInv
<1>1. ASSUME NEW s \in Shells, Execute(s) PROVE LedInv(a, b, q)'
  <2>1. cmd[s] # None
    BY <1>1 DEF Execute
  <2>2. ASSUME Finish(s) PROVE LedInv(a, b, q)'
    BY <1>0, <2>1, <2>2, FinishLed
  <2>3. ASSUME NEW status, Pending(s, status) PROVE LedInv(a, b, q)'
    <3>1. UNCHANGED <<cmd, LedTime, left>>
      BY <2>3 DEF Pending
    <3> QED BY <3>1 DEF LedInv
  <2>4. CASE left'
    BY <2>4 DEF LedInv
  <2>5. \/ left' \/ Finish(s) \/ \E status : Pending(s, status)
    BY <1>1 DEF Execute, xmodem
  <2> QED BY <2>2, <2>3, <2>4, <2>5
<1>2. ASSUME NEW s \in Shells, Reprompt(s) PROVE LedInv(a, b, q)'
  <2>1. UNCHANGED <<cmd, LedTime, left>>
    BY <1>2 DEF Reprompt, Prompt, global, TransferInv
  <2> QED BY <2>1 DEF LedInv
<1>3. ASSUME NEW s \in Shells, NEW c \in Chars, Read(s, c) PROVE LedInv(a, b, q)'
  <2>1. cmd[s] = None /\ left' = left
    BY <1>3 DEF Read
  <2>2. CASE cmd' = cmd /\ LedTime' = LedTime
    BY <2>1, <2>2 DEF LedInv
  <2>3. ASSUME NEW found \in Commands, cmd' = [cmd EXCEPT ![s] = found], LedTime' = LedTime \div 8
        PROVE  LedInv(a, b, q)'
    BY <1>0, <2>1, <2>3, StartLed, Zenon
  <2> QED BY <1>3, <2>2, <2>3, ReadLed DEF TransferInv
<1>4. CASE Tick \/ UNCHANGED vars
  <2>1. UNCHANGED <<cmd, LedTime, left>>
    BY <1>4 DEF Tick, vars, shell, global
  <2> QED BY <2>1 DEF LedInv
<1> QED BY <1>1, <1>2, <1>3, <1>4 DEF Next

(***************************************************************************)
(* ShellsApart for the two shells of the code: the UART's and the video    *)
(* console's may start and end commands in any order, yet LedTime is back  *)
(* when both are idle.  64 divides the period because each of two commands *)
(* divides it by 8 without a remainder.                                    *)
(***************************************************************************)
THEOREM TwoShellsApart ==
  ASSUME NEW a, NEW b, a # b, Shells = {a, b}, NEW q \in Nat, LedPeriod = 64 * q
  PROVE  Spec => []ShellsApart
<1>1. Init => TransferInv
  BY Zenon DEF Init, TransferInv, TransferPolled
<1>2. Init => LedInv(a, b, q)
  BY DEF Init, LedInv
<1>3. TransferInv /\ LedInv(a, b, q) => ShellsApart
  <2> SUFFICES ASSUME TransferInv, LedInv(a, b, q) PROVE LedRestored /\ TransferPolled
    BY DEF ShellsApart
  <2>1. LedRestored
    BY DEF LedInv, LedRestored, Executing
  <2> QED BY <2>1 DEF TransferInv
<1>4. TransferInv /\ LedInv(a, b, q) /\ [Next]_vars => LedInv(a, b, q)'
  BY NextLed
<1> QED BY <1>1, <1>2, <1>3, <1>4, NextTransfer, PTL DEF Spec

-----------------------------------------------------------------------------
(* The symbols of one attempt to send block k. *)
SymbolsOf(k) == IF k > Blocks THEN {Xmd!EOT, Xmd!Bad} ELSE {Xmd!SOH, Xmd!Num(k), Xmd!Data(k), Xmd!Bad}

(* What a download in progress has stored: the blocks before the expected  *)
(* one, which is the sender's or the one after it.                         *)
StoredInv ==
  /\ Xmd!InStep
  /\ \A k \in 1 .. Blocks : k < received => destination[k] = k

(* What is on the line and half collected comes from the block being sent, *)
(* whose data is the end of an attempt.                                    *)
LineInv ==
  /\ packet \in Seq(SymbolsOf(sn)) /\ line \in Seq(SymbolsOf(sn))
  /\ Len(packet) = at /\ at \in 0 .. 2
  /\ sender = "send" => out < Len(Xmd!Frame(sn))
  /\ \A j \in 1 .. Len(line) :
       line[j] = Xmd!Data(sn) => j = Len(line) /\ sender # "send"

(* Once a block is acknowledged nothing of it is left. *)
AckInv ==
  (\E j \in 1 .. Len(replies) : replies[j] = "ACK") =>
    /\ sn <= Blocks /\ received = sn + 1
    /\ packet = << >> /\ line = << >> /\ sender # "send"

XmodemInv ==
  /\ sn \in 1 .. Blocks + 1 /\ destination \in [1 .. Blocks -> 0 .. Blocks]
  /\ replies \in Seq({"ACK", "NAK"}) /\ out \in Nat
  /\ outcome = "idle" => /\ received = 0 /\ sn = 1 /\ at = 0 /\ sender = "await"
                         /\ packet = << >> /\ line = << >> /\ replies = << >>
  /\ outcome = "active" => StoredInv /\ LineInv /\ AckInv
  /\ Xmd!CompleteIsWhole

-----------------------------------------------------------------------------
(* A multiple of n between -n and n is 0. *)
LEMMA SmallMultiple ==
  ASSUME NEW n \in Nat, NEW d \in Int, NEW e \in Int, n * d = e, -n < e, e < n
  PROVE  d = 0
<1>1. CASE d >= 1
  <2>1. n * d >= n
    BY <1>1
  <2> QED BY <2>1
<1>2. CASE d <= -1
  <2>1. n * d <= -n
    BY <1>2
  <2> QED BY <2>1
<1> QED BY <1>1, <1>2

(* What division by n is. *)
LEMMA Divided ==
  ASSUME NEW n \in Nat, n > 0, NEW a \in Nat
  PROVE  a % n \in Nat /\ a % n < n /\ \E q \in Int : a = n * q + (a % n)
  OBVIOUS

(* A number not ahead of the expected one stands for the block it was sent *)
(* for, if that is the expected block or the one before.                   *)
LEMMA BlockOfNumber ==
  ASSUME NEW n \in Nat, n >= 2, NEW s \in Nat, NEW b \in {s, s + 1}, s % n <= b % n
  PROVE  (s % n) + (b - (b % n)) = s
<1>5. n > 0
  OBVIOUS
<1>1. s % n \in Nat /\ s % n < n /\ \E q \in Int : s = n * q + (s % n)
  BY <1>5, Divided, Zenon
<1>2. b \in Nat /\ b % n \in Nat /\ b % n < n /\ \E q \in Int : b = n * q + (b % n)
  <2>1. b \in Nat
    OBVIOUS
  <2> QED BY <1>5, <2>1, Divided, Zenon
<1>3. CASE b = s
  BY <1>1, <1>3
<1>4. CASE b = s + 1
  <2>1. PICK p \in Int, q \in Int : s = n * p + (s % n) /\ b = n * q + (b % n)
    BY <1>1, <1>2, Zenon
  <2>2. PICK r \in Nat, t \in Nat : r = s % n /\ t = b % n
    BY <1>1, <1>2
  <2>3. s = n * p + r /\ b = n * q + t /\ r <= t /\ t < n
    BY <1>2, <2>1, <2>2
  <2>4. n * (q - p) = (r + 1) - t
    <3>1. n * (q - p) = n * q - n * p
      OBVIOUS
    <3>2. n * q \in Int /\ n * p \in Int
      OBVIOUS
    <3> QED BY <1>4, <2>3, <3>1, <3>2
  <2>5. q - p \in Int /\ (r + 1) - t \in Int /\ -n < (r + 1) - t /\ (r + 1) - t < n
    BY <2>3
  <2>6. q - p = 0
    BY <2>4, <2>5, SmallMultiple
  <2>7. n * (q - p) = 0
    BY <2>6
  <2>8. t = r + 1
    BY <2>4, <2>7
  <2> QED BY <1>4, <2>2, <2>8
<1> QED BY <1>3, <1>4

-----------------------------------------------------------------------------
(* The third element of a sequence. *)
LEMMA ThirdOf ==
  ASSUME NEW S, NEW p \in Seq(S), NEW x \in S, Len(p) = 2
  PROVE  Append(p, x)[2] = p[2] /\ Append(p, x)[3] = x /\ p[2] \in S
<1>1. Append(p, x)[Len(p) + 1] = x
  BY AppendProperties, Zenon
<1>2. 2 \in 1 .. Len(p) /\ Len(p) + 1 = 3
  OBVIOUS
<1>3. Append(p, x)[2] = p[2]
  BY ONLY p \in Seq(S), x \in S, 2 \in 1 .. Len(p), <1>2
<1>4. p[2] \in S
  BY <1>2, ElementOfSeq, Zenon
<1> QED BY <1>1, <1>2, <1>3, <1>4, Zenon

(* The rest of a sequence. *)
LEMMA RestOf ==
  ASSUME NEW S, NEW l \in Seq(S), l # << >>
  PROVE  /\ Tail(l) \in Seq(S) /\ Head(l) \in S /\ Head(l) = l[1] /\ 1 \in 1 .. Len(l)
         /\ Len(l) = 1 => Tail(l) = << >>
         /\ \A j \in 1 .. Len(Tail(l)) :
              /\ j + 1 \in 1 .. Len(l) /\ Tail(l)[j] = l[j + 1]
              /\ j + 1 = Len(l) => j = Len(Tail(l))
<1>1. Len(Tail(l)) = Len(l) - 1 /\ Len(l) \in Nat /\ Len(l) >= 1
  OBVIOUS
<1>2. Tail(l) \in Seq(S) /\ Head(l) \in S /\ Head(l) = l[1]
  OBVIOUS
<1>3. Len(l) = 1 => Tail(l) = << >>
  <2>1. Len(l) = 1 => Len(Tail(l)) = 0
    BY <1>1
  <2>2. Tail(l) # << >> => Len(Tail(l)) \in Nat \ {0}
    BY <1>2, EmptySeq, Zenon
  <2> QED BY <2>1, <2>2
<1>4. ASSUME NEW j \in 1 .. Len(Tail(l))
      PROVE  /\ j + 1 \in 1 .. Len(l) /\ Tail(l)[j] = l[j + 1]
             /\ j + 1 = Len(l) => j = Len(Tail(l))
  <2>1. PICK n \in Nat : n = Len(l) /\ Len(Tail(l)) = n - 1
    BY <1>1, Zenon
  <2>2. j + 1 \in 1 .. n /\ (j + 1 = n => j = n - 1)
    BY <2>1
  <2>3. Tail(l)[j] = l[j + 1]
    OBVIOUS
  <2> QED BY <2>1, <2>2, <2>3
<1>5. 1 \in 1 .. Len(l)
  BY <1>1
<1> QED BY <1>2, <1>3, <1>4, <1>5, Zenon

(* The symbols of an attempt tell what is being sent. *)
LEMMA SymbolKinds ==
  ASSUME NEW k, NEW x \in SymbolsOf(k)
  PROVE  /\ x = Xmd!EOT => k > Blocks
         /\ x[1] = "Data" => x = Xmd!Data(k) /\ ~(k > Blocks)
         /\ x[1] = "Num" => x = Xmd!Num(k)
  BY DEF SymbolsOf, Xmd!SOH, Xmd!EOT, Xmd!Bad, Xmd!Num, Xmd!Data

(* Frame k is made of them, its data last. *)
LEMMA FrameSymbols ==
  ASSUME NEW k, NEW n \in Nat, n < Len(Xmd!Frame(k))
  PROVE  /\ Xmd!Frame(k)[n + 1] \in SymbolsOf(k) /\ Xmd!Bad \in SymbolsOf(k)
         /\ Xmd!Frame(k)[n + 1] = Xmd!Data(k) => n + 1 = Len(Xmd!Frame(k))
         /\ Xmd!Bad # Xmd!Data(k)
<1>1. Xmd!Bad \in SymbolsOf(k) /\ Xmd!Bad # Xmd!Data(k)
  BY DEF SymbolsOf, Xmd!Bad, Xmd!Data
<1>2. CASE k > Blocks
  <2>1. Xmd!Frame(k) = <<Xmd!EOT>> /\ SymbolsOf(k) = {Xmd!EOT, Xmd!Bad} /\ Xmd!EOT # Xmd!Data(k)
    BY <1>2 DEF Xmd!Frame, SymbolsOf, Xmd!EOT, Xmd!Data
  <2>2. n = 0
    BY <2>1
  <2> QED BY <1>1, <2>1, <2>2
<1>3. CASE ~(k > Blocks)
  <2>1. /\ Xmd!Frame(k) = <<Xmd!SOH, Xmd!Num(k), Xmd!Data(k)>> /\ SymbolsOf(k) = {Xmd!SOH, Xmd!Num(k), Xmd!Data(k), Xmd!Bad}
        /\ Xmd!SOH # Xmd!Data(k) /\ Xmd!Num(k) # Xmd!Data(k)
    BY <1>3 DEF Xmd!Frame, SymbolsOf, Xmd!SOH, Xmd!Num, Xmd!Data
  <2>2. n \in {0, 1, 2} /\ Len(Xmd!Frame(k)) = 3
    BY <2>1
  <2> QED BY <1>1, <2>1, <2>2
<1> QED BY <1>2, <1>3

(* The receiver has not been started. *)
LEMMA XmodemInit == ASSUME Xmd!XmodemAssumption PROVE Xmd!Init => XmodemInv
  BY DEF Xmd!Init, XmodemInv, Xmd!CompleteIsWhole, Xmd!XmodemAssumption, Xmd!NoData

(* XmodemStart. *)
LEMMA StartXmodem ==
  ASSUME Xmd!XmodemAssumption, XmodemInv, Xmd!XmodemStart PROVE XmodemInv'
<1>1. /\ outcome = "idle" /\ received' = 1 /\ at' = 0 /\ outcome' = "active"
      /\ UNCHANGED <<packet, destination, line, replies, sender, sn, out>>
  BY DEF Xmd!XmodemStart, Xmd!peer
<1>2. /\ sn = 1 /\ sender = "await" /\ packet = << >> /\ line = << >> /\ replies = << >>
  BY <1>1 DEF XmodemInv
<1>3. StoredInv'
  BY <1>1, <1>2 DEF StoredInv, Xmd!InStep, Xmd!XmodemAssumption
<1>4. LineInv'
  BY <1>1, <1>2 DEF LineInv
<1>5. AckInv'
  BY <1>1, <1>2 DEF AckInv
<1> QED BY <1>1, <1>3, <1>4, <1>5 DEF XmodemInv, Xmd!CompleteIsWhole

(* A refusal is no acknowledgement. *)
LEMMA NakSent ==
  ASSUME XmodemInv, AckInv, replies' = Append(replies, "NAK"), packet' = << >>, line' = << >>,
         UNCHANGED <<received, sender, sn>>
  PROVE  AckInv' /\ replies' \in Seq({"ACK", "NAK"})
<1>1. replies \in Seq({"ACK", "NAK"})
  BY DEF XmodemInv
<1>2. ASSUME NEW j \in 1 .. Len(replies'), replies'[j] = "ACK"
      PROVE  j \in 1 .. Len(replies) /\ replies[j] = "ACK"
  BY <1>1, <1>2
<1> QED BY <1>1, <1>2 DEF AckInv

(* XmodemPoll, the timer expired. *)
LEMMA TimeoutXmodem ==
  ASSUME Xmd!XmodemAssumption, XmodemInv, Xmd!Timeout PROVE XmodemInv'
<1>1. outcome = "active" /\ UNCHANGED <<destination, sender, sn, out>>
  BY DEF Xmd!Timeout, Xmd!peer
<1>2. StoredInv /\ LineInv /\ AckInv
  BY <1>1 DEF XmodemInv
<1>3. CASE outcome' = "timeout" /\ UNCHANGED replies
  BY <1>1, <1>3 DEF XmodemInv, Xmd!CompleteIsWhole
<1>4. CASE /\ at' = 0 /\ packet' = << >> /\ line' = << >> /\ replies' = Append(replies, "NAK")
           /\ UNCHANGED <<received, outcome>>
  <2>1. AckInv' /\ replies' \in Seq({"ACK", "NAK"})
    BY <1>1, <1>2, <1>4, NakSent
  <2>2. StoredInv'
    BY <1>1, <1>2, <1>4 DEF StoredInv, Xmd!InStep
  <2>3. LineInv'
    BY <1>1, <1>2, <1>4 DEF LineInv
  <2> QED BY <1>1, <1>4, <2>1, <2>2, <2>3 DEF XmodemInv, Xmd!CompleteIsWhole
<1> QED BY <1>3, <1>4 DEF Xmd!Timeout

(* XmodemPoll, the first character of a frame is EOT: the sender has been  *)
(* through all its blocks.                                                 *)
LEMMA CompleteXmodem ==
  ASSUME Xmd!XmodemAssumption, XmodemInv, EotBlocks = {}, outcome = "active", line # << >>,
         Xmd!LooksLikeEot(Head(line)), Xmd!Complete, UNCHANGED Xmd!peer
  PROVE  XmodemInv'
<1>1. StoredInv /\ LineInv
  BY DEF XmodemInv
<1>2. Head(line) \in SymbolsOf(sn) /\ Head(line) = Xmd!EOT
  BY <1>1 DEF LineInv, Xmd!LooksLikeEot
<1>3. sn > Blocks
  BY <1>2, SymbolKinds
<1>4. \A k \in 1 .. Blocks : destination[k] = k
  BY <1>1, <1>3 DEF StoredInv, Xmd!InStep, Xmd!XmodemAssumption
<1>5. /\ outcome' = "complete" /\ replies' = Append(replies, "ACK")
      /\ UNCHANGED <<destination, sender, sn, out>>
  BY DEF Xmd!Complete, Xmd!peer
<1>6. replies' \in Seq({"ACK", "NAK"})
  BY <1>5 DEF XmodemInv
<1> QED BY <1>4, <1>5, <1>6 DEF XmodemInv, Xmd!CompleteIsWhole

(* What process_xmodem has looked at. *)
LEMMA GoodNumber ==
  ASSUME NEW frame, NEW e, Xmd!process_xmodem(frame, e) >= 0
  PROVE  /\ frame[2][1] = "Num" /\ frame[2][2] <= e /\ frame[3][1] = "Data"
         /\ Xmd!process_xmodem(frame, e) = frame[2][2]
<1>1. ~(-1 >= 0)
  OBVIOUS
<1> QED BY <1>1 DEF Xmd!process_xmodem

(* A good frame: its number and its data are those of the block being      *)
(* sent, and nothing of the attempt is left on the line.                   *)
LEMMA GoodFrame ==
  ASSUME Xmd!XmodemAssumption, XmodemInv, outcome = "active", line # << >>, Len(packet) = 2,
         NEW frame, frame = Append(packet, Head(line)),
         Xmd!process_xmodem(frame, received % Numbers) >= 0
  PROVE  /\ frame[3] = Xmd!Data(sn) /\ sn <= Blocks /\ Tail(line) = << >> /\ sender # "send"
         /\ Xmd!process_xmodem(frame, received % Numbers) + (received - (received % Numbers)) = sn
<1>1. StoredInv /\ LineInv
  BY DEF XmodemInv
<1>2. /\ packet \in Seq(SymbolsOf(sn)) /\ line \in Seq(SymbolsOf(sn)) /\ Blocks \in Nat
      /\ sn \in 1 .. Blocks + 1
  BY <1>1 DEF LineInv, XmodemInv, Xmd!XmodemAssumption
<1>3. /\ frame[2] = packet[2] /\ frame[3] = Head(line) /\ packet[2] \in SymbolsOf(sn)
      /\ Head(line) \in SymbolsOf(sn) /\ Head(line) = line[1] /\ 1 \in 1 .. Len(line)
  <2>1. /\ Head(line) \in SymbolsOf(sn) /\ Head(line) = line[1] /\ 1 \in 1 .. Len(line)
    BY <1>2, RestOf
  <2> QED BY <1>2, <2>1, ThirdOf
<1>4. /\ frame[2][1] = "Num" /\ frame[2][2] <= received % Numbers /\ frame[3][1] = "Data"
      /\ Xmd!process_xmodem(frame, received % Numbers) = frame[2][2]
  BY GoodNumber, Zenon
<1>5. frame[2] = Xmd!Num(sn) /\ frame[3] = Xmd!Data(sn) /\ ~(sn > Blocks)
  BY <1>3, <1>4, SymbolKinds, Zenon
<1>6. sn <= Blocks
  BY <1>2, <1>5
<1>7. 1 = Len(line) /\ sender # "send"
  BY <1>1, <1>3, <1>5, Zenon DEF LineInv
<1>8. Tail(line) = << >>
  BY <1>2, <1>7, RestOf
<1>9. frame[2][2] = sn % Numbers
  BY <1>5 DEF Xmd!Num
<1>10. received \in {sn, sn + 1}
  BY <1>1, <1>5 DEF StoredInv, Xmd!InStep
<1>11. (sn % Numbers) + (received - (received % Numbers)) = sn
  <2>1. Numbers \in Nat /\ Numbers >= 2
    BY DEF Xmd!XmodemAssumption
  <2>2. sn \in Nat
    BY <1>2
  <2> QED BY <1>4, <1>9, <1>10, <2>1, <2>2, BlockOfNumber, Zenon
<1> QED BY <1>4, <1>5, <1>6, <1>7, <1>8, <1>9, <1>11

(* XmodemPoll, a whole packet. *)
LEMMA ProcessXmodem ==
  ASSUME Xmd!XmodemAssumption, XmodemInv, outcome = "active", line # << >>, Len(packet) = 2,
         NEW frame, frame = Append(packet, Head(line)), Xmd!Process(frame), UNCHANGED Xmd!peer
  PROVE  XmodemInv'
<1>1. StoredInv /\ LineInv /\ AckInv
  BY DEF XmodemInv
<1>2. /\ UNCHANGED <<outcome, sender, sn, out>> /\ at' = 0 /\ packet' = << >>
  BY DEF Xmd!Process, Xmd!peer
<1>3. CASE Xmd!process_xmodem(frame, received % Numbers) >= 0
  <2>1. /\ frame[3] = Xmd!Data(sn) /\ sn <= Blocks /\ Tail(line) = << >> /\ sender # "send"
        /\ Xmd!process_xmodem(frame, received % Numbers) + (received - (received % Numbers)) = sn
    BY <1>3, GoodFrame, Zenon
  <2>2. frame[3][1] = "Data" /\ frame[3][2] = sn
    <3>1. Xmd!Data(sn)[1] = "Data" /\ Xmd!Data(sn)[2] = sn
      BY DEF Xmd!Data
    <3> QED BY <2>1, <3>1, Zenon
  <2>3. /\ destination' = [destination EXCEPT ![sn] = sn] /\ received' = sn + 1
        /\ replies' = Append(replies, "ACK") /\ line' = << >>
    BY <1>3, <2>1, <2>2, Zenon DEF Xmd!Process
  <2>4. sn \in 1 .. Blocks /\ Blocks \in Nat /\ destination \in [1 .. Blocks -> 0 .. Blocks]
    BY <2>1 DEF XmodemInv, Xmd!XmodemAssumption
  <2>5. destination' \in [1 .. Blocks -> 0 .. Blocks]
    BY <2>3, <2>4
  <2>6. \A k \in 1 .. Blocks : k < received' => destination'[k] = k
    <3>1. \A k \in 1 .. Blocks : k < sn => destination[k] = k
      BY <1>1, <2>4 DEF StoredInv, Xmd!InStep
    <3> QED BY <2>3, <2>4, <3>1
  <2>7. StoredInv'
    BY <1>2, <2>3, <2>4, <2>6 DEF StoredInv, Xmd!InStep
  <2>8. LineInv'
    BY <1>1, <1>2, <2>3 DEF LineInv
  <2>9. AckInv'
    BY <1>2, <2>1, <2>3 DEF AckInv
  <2>10. replies' \in Seq({"ACK", "NAK"})
    BY <2>3 DEF XmodemInv
  <2> QED BY <1>2, <2>5, <2>7, <2>8, <2>9, <2>10 DEF XmodemInv, Xmd!CompleteIsWhole
<1>4. CASE ~(Xmd!process_xmodem(frame, received % Numbers) >= 0)
  <2>1. /\ line' = << >> /\ replies' = Append(replies, "NAK") /\ UNCHANGED <<destination, received>>
    BY <1>4 DEF Xmd!Process
  <2>2. AckInv' /\ replies' \in Seq({"ACK", "NAK"})
    BY <1>1, <1>2, <2>1, NakSent
  <2>3. StoredInv'
    BY <1>1, <1>2, <2>1 DEF StoredInv, Xmd!InStep
  <2>4. LineInv'
    BY <1>1, <1>2, <2>1 DEF LineInv
  <2> QED BY <1>2, <2>1, <2>2, <2>3, <2>4 DEF XmodemInv, Xmd!CompleteIsWhole
<1> QED BY <1>3, <1>4

(* XmodemPoll, one more character of a packet. *)
LEMMA CollectXmodem ==
  ASSUME XmodemInv, outcome = "active", line # << >>, at + 1 # Xmd!FrameLength,
         at' = at + 1, packet' = Append(packet, Head(line)), line' = Tail(line),
         UNCHANGED <<received, destination, outcome, replies, sender, sn, out>>
  PROVE  XmodemInv'
<1>1. StoredInv /\ LineInv /\ AckInv
  BY DEF XmodemInv
<1>2. StoredInv' /\ AckInv'
  BY <1>1 DEF StoredInv, Xmd!InStep, AckInv
<1>3. /\ packet \in Seq(SymbolsOf(sn)) /\ line \in Seq(SymbolsOf(sn)) /\ Len(packet) = at
      /\ at \in 0 .. 2
  BY <1>1 DEF LineInv
<1>4. packet' \in Seq(SymbolsOf(sn)) /\ line' \in Seq(SymbolsOf(sn)) /\ Len(packet') = at + 1
  BY <1>3
<1>5. at' \in 0 .. 2
  BY <1>3 DEF Xmd!FrameLength
<1>6. ASSUME NEW j \in 1 .. Len(line'), line'[j] = Xmd!Data(sn)
      PROVE  j = Len(line') /\ sender # "send"
  <2>1. /\ line'[j] = line[j + 1] /\ j + 1 \in 1 .. Len(line)
        /\ j + 1 = Len(line) => j = Len(line')
    BY <1>3, RestOf
  <2>2. j + 1 = Len(line) /\ sender # "send"
    BY <1>1, <1>6, <2>1, Zenon DEF LineInv
  <2> QED BY <2>1, <2>2, Zenon
<1>7. LineInv'
  BY <1>1, <1>4, <1>5, <1>6 DEF LineInv
<1> QED BY <1>2, <1>7 DEF XmodemInv, Xmd!CompleteIsWhole

(* XmodemPoll with a character. *)
LEMMA ReceiveXmodem ==
  ASSUME Xmd!XmodemAssumption, XmodemInv, EotBlocks = {}, Xmd!Receive PROVE XmodemInv'
<1>1. outcome = "active" /\ line # << >> /\ UNCHANGED <<Xmd!peer, sender, sn, out>>
  BY DEF Xmd!Receive, Xmd!peer
<1>2. CASE at = 0 /\ Xmd!LooksLikeEot(Head(line)) /\ Xmd!Complete
  BY <1>1, <1>2, CompleteXmodem
<1>3. CASE at + 1 = Xmd!FrameLength /\ Xmd!Process(Append(packet, Head(line)))
  <2>1. Len(packet) = 2
    BY <1>1, <1>3 DEF XmodemInv, LineInv, Xmd!FrameLength
  <2> QED BY <1>1, <1>3, <2>1, ProcessXmodem, Zenon
<1>4. CASE /\ at + 1 # Xmd!FrameLength /\ at' = at + 1 /\ packet' = Append(packet, Head(line))
           /\ line' = Tail(line) /\ UNCHANGED <<received, destination, outcome, replies>>
  BY <1>1, <1>4, CollectXmodem
<1> QED BY <1>2, <1>3, <1>4 DEF Xmd!Receive

(* A frame is not empty. *)
LEMMA FrameStarts == ASSUME NEW k PROVE 0 < Len(Xmd!Frame(k))
  BY DEF Xmd!Frame

(* What the line holds once the sender has put s on it. *)
LEMMA LineLonger ==
  ASSUME NEW S, NEW l \in Seq(S), NEW s \in Seq(S), Len(s) <= 1
  PROVE  /\ l \o s \in Seq(S)
         /\ \A j \in 1 .. Len(l \o s) :
              \/ j \in 1 .. Len(l) /\ (l \o s)[j] = l[j]
              \/ Len(s) = 1 /\ j = Len(l \o s) /\ (l \o s)[j] = s[1]
<1> SUFFICES ASSUME NEW j \in 1 .. Len(l \o s)
             PROVE  /\ l \o s \in Seq(S)
                    /\ \/ j \in 1 .. Len(l) /\ (l \o s)[j] = l[j]
                       \/ Len(s) = 1 /\ j = Len(l \o s) /\ (l \o s)[j] = s[1]
  BY ConcatProperties, Zenon
<1>1. /\ l \o s \in Seq(S) /\ Len(l \o s) = Len(l) + Len(s)
      /\ \A k \in 1 .. Len(l) + Len(s) :
           (l \o s)[k] = IF k <= Len(l) THEN l[k] ELSE s[k - Len(l)]
  BY ConcatProperties, Zenon
<1>2. PICK m \in Nat, n \in Nat : m = Len(l) /\ n = Len(s)
  OBVIOUS
<1>3. n <= 1 /\ j \in 1 .. m + n
  BY <1>1, <1>2
<1>4. CASE j <= m
  <2>1. j \in 1 .. m
    BY <1>3, <1>4
  <2>2. (l \o s)[j] = l[j]
    BY <1>1, <1>2, <1>3, <1>4, Zenon
  <2> QED BY <1>1, <1>2, <2>1, <2>2, Zenon
<1>5. CASE ~(j <= m)
  <2>1. n = 1 /\ j = m + n /\ j - m = 1
    BY <1>3, <1>5
  <2>2. (l \o s)[j] = s[j - m]
    BY <1>1, <1>2, <1>3, <1>5, Zenon
  <2> QED BY <1>1, <1>2, <2>1, <2>2, Zenon
<1> QED BY <1>4, <1>5

(* The sender puts the next symbol on the line, whatever becomes of it. *)
LEMMA SendXmodem ==
  ASSUME XmodemInv, NEW s \in {<<Xmd!Frame(sn)[out + 1]>>, <<Xmd!Bad>>, << >>}, Xmd!SendSymbol(s)
  PROVE  XmodemInv'
<1>1. /\ sender = "send" /\ line' = line \o s /\ out' = out + 1
      /\ sender' = (IF out' = Len(Xmd!Frame(sn)) THEN "await" ELSE "send")
      /\ UNCHANGED <<received, at, packet, destination, outcome, replies, sn>>
  BY DEF Xmd!SendSymbol, Xmd!receiver
<1>2. out' \in Nat
  BY <1>1 DEF XmodemInv
<1>3. outcome # "idle"
  BY <1>1 DEF XmodemInv
<1>4. ASSUME outcome = "active"
      PROVE  (StoredInv /\ LineInv /\ AckInv)'
  <2>1. StoredInv /\ LineInv /\ AckInv /\ out \in Nat
    BY <1>4 DEF XmodemInv
  <2>2. StoredInv'
    BY <1>1, <2>1 DEF StoredInv, Xmd!InStep
  <2>3. AckInv'
    BY <1>1, <2>1 DEF AckInv
  <2>4. out < Len(Xmd!Frame(sn)) /\ line \in Seq(SymbolsOf(sn))
    BY <1>1, <2>1 DEF LineInv
  <2>5. /\ Xmd!Frame(sn)[out + 1] \in SymbolsOf(sn) /\ Xmd!Bad \in SymbolsOf(sn)
        /\ Xmd!Frame(sn)[out + 1] = Xmd!Data(sn) => out + 1 = Len(Xmd!Frame(sn))
        /\ Xmd!Bad # Xmd!Data(sn)
    BY <2>1, <2>4, FrameSymbols, Zenon
  <2>6. /\ s \in Seq(SymbolsOf(sn)) /\ Len(s) <= 1
        /\ (Len(s) = 1 /\ s[1] = Xmd!Data(sn)) => out + 1 = Len(Xmd!Frame(sn))
    <3>1. CASE s = <<Xmd!Frame(sn)[out + 1]>>
      BY <2>5, <3>1
    <3>2. CASE s = <<Xmd!Bad>>
      BY <2>5, <3>2
    <3>3. CASE s = << >>
      BY <3>3
    <3> QED BY <3>1, <3>2, <3>3
  <2>7. ASSUME NEW j \in 1 .. Len(line'), line'[j] = Xmd!Data(sn)
        PROVE  j = Len(line') /\ sender' # "send"
    <3>1. \/ j \in 1 .. Len(line) /\ line'[j] = line[j]
          \/ Len(s) = 1 /\ j = Len(line') /\ line'[j] = s[1]
      <4>1. j \in 1 .. Len(line \o s)
        BY <1>1, Zenon
      <4>2. \A m \in 1 .. Len(line \o s) :
              \/ m \in 1 .. Len(line) /\ (line \o s)[m] = line[m]
              \/ Len(s) = 1 /\ m = Len(line \o s) /\ (line \o s)[m] = s[1]
        <5>1. line \in Seq(SymbolsOf(sn)) /\ s \in Seq(SymbolsOf(sn)) /\ Len(s) <= 1
          BY <2>4, <2>6, Zenon
        <5> QED BY ONLY <5>1, LineLonger
      <4> QED BY <1>1, <4>1, <4>2, Zenon
    <3>2. ~(j \in 1 .. Len(line) /\ line[j] = Xmd!Data(sn))
      BY <1>1, <2>1, Zenon DEF LineInv
    <3>3. Len(s) = 1 /\ j = Len(line') /\ s[1] = Xmd!Data(sn)
      BY <2>7, <3>1, <3>2, Zenon
    <3>4. sender' = "await"
      BY <1>1, <2>6, <3>3
    <3> QED BY <3>3, <3>4
  <2>8. line' \in Seq(SymbolsOf(sn))
    BY <1>1, <2>4, <2>6, ConcatProperties, Zenon
  <2>9. sender' = "send" => out' < Len(Xmd!Frame(sn))
    <3>1. Len(Xmd!Frame(sn)) \in {1, 3}
      BY DEF Xmd!Frame
    <3> QED BY <1>1, <2>1, <2>4, <3>1
  <2>10. LineInv'
    BY <1>1, <2>1, <2>7, <2>8, <2>9 DEF LineInv
  <2> QED BY <2>2, <2>3, <2>10
<1> QED BY <1>1, <1>2, <1>3, <1>4 DEF XmodemInv, Xmd!CompleteIsWhole

(* A reply is lost. *)
LEMMA LoseReplyXmodem ==
  ASSUME XmodemInv, Xmd!LoseReply PROVE XmodemInv'
<1>1. /\ replies # << >> /\ replies' = Tail(replies)
      /\ UNCHANGED <<received, at, packet, destination, outcome, line, sender, sn, out>>
  BY DEF Xmd!LoseReply, Xmd!receiver, Xmd!peer
<1>2. replies \in Seq({"ACK", "NAK"})
  BY DEF XmodemInv
<1>3. /\ replies' \in Seq({"ACK", "NAK"})
      /\ \A j \in 1 .. Len(replies') : j + 1 \in 1 .. Len(replies) /\ replies'[j] = replies[j + 1]
  BY <1>1, <1>2, RestOf, Zenon
<1>4. ASSUME AckInv PROVE AckInv'
  BY <1>1, <1>3, <1>4 DEF AckInv
<1>5. ASSUME StoredInv, LineInv PROVE (StoredInv /\ LineInv)'
  BY <1>1, <1>5 DEF StoredInv, Xmd!InStep, LineInv
<1>6. outcome # "idle"
  BY <1>1 DEF XmodemInv
<1> QED BY <1>1, <1>3, <1>4, <1>5, <1>6 DEF XmodemInv, Xmd!CompleteIsWhole

(* The sender reads the reply: the next block, or the same again. *)
LEMMA ReadReplyXmodem ==
  ASSUME Xmd!XmodemAssumption, XmodemInv, Xmd!ReadReply PROVE XmodemInv'
<1>1. /\ line = << >> /\ replies # << >> /\ replies' = << >> /\ out' = 0
      /\ UNCHANGED <<received, at, packet, destination, outcome, line>>
  BY DEF Xmd!ReadReply, Xmd!receiver
<1>2. Blocks \in Nat /\ sn \in 1 .. Blocks + 1 /\ replies \in Seq({"ACK", "NAK"})
  BY DEF XmodemInv, Xmd!XmodemAssumption
<1>3. outcome # "idle"
  BY <1>1 DEF XmodemInv
<1>4. sn' \in 1 .. Blocks + 1
  BY <1>2 DEF Xmd!ReadReply
<1>5. ASSUME outcome = "active"
      PROVE  (StoredInv /\ LineInv /\ AckInv)'
  <2>1. StoredInv /\ LineInv /\ AckInv
    BY <1>5 DEF XmodemInv
  <2>2. AckInv'
    BY <1>1 DEF AckInv
  <2>3. \A k \in 1 .. Blocks : k < received' => destination'[k] = k
    BY <1>1, <2>1 DEF StoredInv
  <2>4. 0 < Len(Xmd!Frame(sn'))
    BY FrameStarts
  <2>5. CASE Head(replies) = "ACK"
    <3>1. 1 \in 1 .. Len(replies) /\ replies[1] = "ACK"
      BY <1>1, <1>2, <2>5, RestOf, Zenon
    <3>2. sn <= Blocks /\ received = sn + 1 /\ packet = << >>
      BY <2>1, <3>1 DEF AckInv
    <3>3. sn' = sn + 1
      BY <1>2, <2>5, <3>2 DEF Xmd!ReadReply
    <3>4. StoredInv'
      BY <1>1, <1>2, <2>3, <3>2, <3>3 DEF StoredInv, Xmd!InStep
    <3>5. LineInv'
      BY <1>1, <2>1, <2>4, <3>2 DEF LineInv
    <3> QED BY <2>2, <3>4, <3>5
  <2>6. CASE Head(replies) # "ACK"
    <3>1. sn' = sn
      BY <2>6 DEF Xmd!ReadReply
    <3>2. StoredInv'
      BY <1>1, <2>1, <3>1 DEF StoredInv, Xmd!InStep
    <3>3. LineInv'
      BY <1>1, <2>1, <2>4, <3>1 DEF LineInv
    <3> QED BY <2>2, <3>2, <3>3
  <2> QED BY <2>5, <2>6
<1> QED BY <1>1, <1>3, <1>4, <1>5 DEF XmodemInv, Xmd!CompleteIsWhole

(* Any step. *)
LEMMA XmodemStep ==
  ASSUME Xmd!XmodemAssumption, EotBlocks = {}, XmodemInv, [Xmd!Next]_xmodems PROVE XmodemInv'
<1>1. ASSUME UNCHANGED xmodems PROVE XmodemInv'
  BY <1>1 DEF xmodems, Xmd!receiver, Xmd!peer, XmodemInv, StoredInv, Xmd!InStep, LineInv, AckInv, Xmd!CompleteIsWhole
<1>2. CASE Xmd!Send \/ Xmd!Garble \/ Xmd!Lose
  BY <1>2, SendXmodem DEF Xmd!Send, Xmd!Garble, Xmd!Lose
<1>3. CASE Xmd!XmodemStart
  BY <1>3, StartXmodem
<1>4. CASE Xmd!Timeout
  BY <1>4, TimeoutXmodem
<1>5. CASE Xmd!Receive
  BY <1>5, ReceiveXmodem
<1>6. CASE Xmd!LoseReply \/ Xmd!ReadReply
  BY <1>6, LoseReplyXmodem, ReadReplyXmodem
<1>7. CASE Xmd!Ended
  BY <1>1, <1>7 DEF Xmd!Ended, xmodems, Xmd!vars, Xmd!receiver, Xmd!peer
<1> QED BY <1>1, <1>2, <1>3, <1>4, <1>5, <1>6, <1>7 DEF Xmd!Next

(***************************************************************************)
(* XmodemPoll, process_xmodem: a download reported complete is the file,   *)
(* and receiver and sender are never more than a block apart before, if no *)
(* data byte is taken for the EOT that ends the transfer.                  *)
(***************************************************************************)
THEOREM DownloadIsWhole ==
  ASSUME EotBlocks = {}
  PROVE  ConsoleSpec => []CompleteIsWhole
<1> USE ConsoleAssumption
<1>1. ConsoleInit => XmodemInv
  BY XmodemInit DEF ConsoleInit
<1>2. [ConsoleNext]_<<component, vars, xmodems, keyboard, display>> => [Xmd!Next]_xmodems
  BY DEF ConsoleNext
<1>3. XmodemInv /\ [ConsoleNext]_<<component, vars, xmodems, keyboard, display>> => XmodemInv'
  BY <1>2, XmodemStep
<1>4. XmodemInv => CompleteIsWhole
  BY DEF XmodemInv, StoredInv, CompleteIsWhole, Xmd!InStep
<1> QED BY <1>1, <1>3, <1>4, PTL DEF ConsoleSpec

(* A keyboard is enabled after it is configured, which is after it is      *)
(* attached; before that nothing has been reported.                        *)
SystemInv ==
  /\ Kbd!OneConsole
  /\ attached \in Nat
  /\ KBD1 => attached > 0
  /\ KeyboardEnabled => KBD1
  /\ ~KBD1 => delivered = 0

(* The keys that are down are numbered in the order of their presses, and  *)
(* the one reported last is not pressed later than the latest; if it is    *)
(* the latest, it is the key of the last report.                           *)
PressInv ==
  /\ presses \in Nat /\ delivered \in 0 .. presses
  /\ down \in Seq([key : Kbd!Keys, press : 1 .. presses])
  /\ \A j, k \in 1 .. Len(down) : j < k => down[j].press < down[k].press
  /\ down # << >> =>
       /\ delivered <= Kbd!latest.press
       /\ delivered = Kbd!latest.press => Kbd!latest.key = lastPhyCode

KeyInv == SystemInv /\ PressInv

-----------------------------------------------------------------------------
(* A command, an attachment or a report: what a keyboard and a console may *)
(* go through, for the one keyboard there is.                              *)
LEMMA SystemStep ==
  ASSUME SystemInv, Keyboards \in Nat, Keyboards <= 1, Kbd!Next PROVE SystemInv'
<1>1. ASSUME NEW ok \in BOOLEAN, Kbd!UsbHostStart(ok) PROVE SystemInv'
  BY <1>1 DEF Kbd!UsbHostStart, SystemInv, Kbd!OneConsole, Kbd!input
<1>2. ASSUME NEW ok \in BOOLEAN, Kbd!screen_on(ok) PROVE SystemInv'
  BY <1>2 DEF Kbd!screen_on, Kbd!Console, Kbd!ConsoleEnableKeyboard, SystemInv, Kbd!OneConsole, Kbd!input
<1>3. ASSUME Kbd!KeyboardUp PROVE SystemInv'
  BY <1>3 DEF Kbd!KeyboardUp, Kbd!ConsoleEnableKeyboard, SystemInv, Kbd!OneConsole, Kbd!input
<1>4. ASSUME Kbd!KeyboardAttach PROVE SystemInv'
  <2>1. attached = 0 /\ ~KBD1 /\ ~KeyboardEnabled
    BY <1>4 DEF Kbd!KeyboardAttach, SystemInv
  <2> QED BY <1>4, <2>1 DEF Kbd!KeyboardAttach, SystemInv, Kbd!OneConsole
<1>5. ASSUME Kbd!configure_complete PROVE SystemInv'
  BY <1>5 DEF Kbd!configure_complete, SystemInv, Kbd!OneConsole, Kbd!input
<1>6. ASSUME NEW ok \in BOOLEAN, Kbd!completion(ok) PROVE SystemInv'
  <2>1. UNCHANGED Kbd!system /\ KBD1
    BY <1>6 DEF Kbd!completion, SystemInv, Kbd!OneConsole
  <2> QED BY <2>1 DEF Kbd!system, SystemInv, Kbd!OneConsole
<1>7. ASSUME UNCHANGED <<Kbd!system, delivered>> PROVE SystemInv'
  BY <1>7 DEF Kbd!system, SystemInv, Kbd!OneConsole
<1>8. ASSUME NEW k \in Kbd!Keys, Kbd!Press(k) PROVE SystemInv'
  BY <1>7, <1>8 DEF Kbd!Press, Kbd!input
<1>9. ASSUME NEW n \in DOMAIN down, Kbd!Release(n) PROVE SystemInv'
  BY <1>7, <1>9 DEF Kbd!Release, Kbd!input
<1>10. ASSUME NEW m \in Modifiers, Kbd!Hold(m) PROVE SystemInv'
  BY <1>7, <1>10 DEF Kbd!Hold, Kbd!input
<1>11. ASSUME Kbd!usbKbdGetc PROVE SystemInv'
  BY <1>7, <1>11 DEF Kbd!usbKbdGetc
<1> QED BY <1>1, <1>2, <1>3, <1>4, <1>5, <1>6, <1>8, <1>9, <1>10, <1>11 DEF Kbd!Next, Kbd!User

-----------------------------------------------------------------------------
(* The last element of a sequence with one more at its end. *)
LEMMA LastAppended ==
  ASSUME NEW S, NEW l \in Seq(S), NEW x \in S
  PROVE  /\ Append(l, x) \in Seq(S) /\ Append(l, x)[Len(Append(l, x))] = x
         /\ \A j \in 1 .. Len(Append(l, x)) :
              \/ j \in 1 .. Len(l) /\ Append(l, x)[j] = l[j]
              \/ j = Len(l) + 1 /\ Append(l, x)[j] = x
<1>1. Append(l, x) \in Seq(S) /\ Len(Append(l, x)) = Len(l) + 1 /\ Len(l) \in Nat
  OBVIOUS
<1>2. Append(l, x)[Len(l) + 1] = x
  OBVIOUS
<1>3. ASSUME NEW j \in 1 .. Len(l) PROVE Append(l, x)[j] = l[j]
  OBVIOUS
<1>4. PICK n \in Nat : n = Len(l)
  BY <1>1
<1>5. \A j \in 1 .. n + 1 : j \in 1 .. n \/ j = n + 1
  OBVIOUS
<1> QED BY <1>1, <1>2, <1>3, <1>4, <1>5, Zenon

(* Without its first element a sequence has the same last, or is empty. *)
LEMMA FirstRemoved ==
  ASSUME NEW S, NEW l \in Seq(S), l # << >>, NEW r,
         r = SubSeq(l, 1, 1 - 1) \o SubSeq(l, 1 + 1, Len(l))
  PROVE  /\ r \in Seq(S)
         /\ \A j \in 1 .. Len(r) : j + 1 \in 1 .. Len(l) /\ r[j] = l[j + 1]
         /\ r # << >> => r[Len(r)] = l[Len(l)]
<1>1. r = Tail(l)
  <2>1. SubSeq(l, 1, 0) = << >>
    BY SubSeqEmpty
  <2>2. Tail(l) = SubSeq(l, 2, Len(l)) /\ Tail(l) \in Seq(S)
    BY TailIsSubSeq, HeadTailProperties
  <2>3. << >> \o Tail(l) = Tail(l)
    BY <2>2, ConcatEmptySeq
  <2>4. 1 - 1 = 0 /\ 1 + 1 = 2
    OBVIOUS
  <2> QED BY <2>1, <2>2, <2>3, <2>4, Zenon
<1>2. r \in Seq(S) /\ Len(r) = Len(l) - 1 /\ \A j \in 1 .. Len(r) : r[j] = l[j + 1]
  BY <1>1, HeadTailProperties, Zenon
<1>3. PICK n \in Nat : n = Len(l)
  OBVIOUS
<1>4. \A j \in 1 .. n - 1 : j + 1 \in 1 .. n
  OBVIOUS
<1>5. ASSUME r # << >> PROVE r[Len(r)] = l[Len(l)]
  <2>1. Len(r) \in Nat \ {0}
    BY <1>2, <1>5, EmptySeq
  <2>2. n - 1 \in 1 .. n - 1 /\ (n - 1) + 1 = n
    BY <1>2, <1>3, <2>1
  <2> QED BY <1>2, <1>3, <2>2
<1> QED BY <1>2, <1>3, <1>4, <1>5

(* A press is later than all before it. *)
LEMMA PressStep ==
  ASSUME PressInv, NEW k \in Kbd!Keys, Kbd!Press(k) PROVE PressInv'
<1> DEFINE e == [key |-> k, press |-> presses + 1]
           S == [key : Kbd!Keys, press : 1 .. presses + 1]
<1>1. /\ presses' = presses + 1 /\ down' = Append(down, e)
      /\ UNCHANGED <<delivered, lastPhyCode>>
  BY DEF Kbd!Press, Kbd!input
<1>2. /\ presses \in Nat /\ delivered \in 0 .. presses
      /\ down \in Seq([key : Kbd!Keys, press : 1 .. presses])
      /\ \A h, j \in 1 .. Len(down) : h < j => down[h].press < down[j].press
  BY DEF PressInv
<1>3. down \in Seq(S) /\ e \in S
  <2>1. [key : Kbd!Keys, press : 1 .. presses] \subseteq S
    BY <1>2
  <2>2. down \in Seq(S)
    BY <1>2, <2>1, SeqMonotonic, Zenon
  <2> QED BY <1>2, <2>2
<1>4. e.press = presses + 1 /\ \A j \in 1 .. Len(down) : down[j].press \in 1 .. presses
  <2>1. ASSUME NEW j \in 1 .. Len(down) PROVE down[j].press \in 1 .. presses
    <3>1. down[j] \in [key : Kbd!Keys, press : 1 .. presses]
      BY <1>2, ElementOfSeq, Zenon
    <3> QED BY <3>1
  <2> QED BY <2>1
<1> HIDE DEF e, S
<1>5. /\ down' \in Seq(S) /\ Kbd!latest' = e
      /\ \A j \in 1 .. Len(down') : \/ j \in 1 .. Len(down) /\ down'[j] = down[j]
                                    \/ j = Len(down) + 1 /\ down'[j] = e
  <2>1. /\ Append(down, e) \in Seq(S) /\ Append(down, e)[Len(Append(down, e))] = e
        /\ \A j \in 1 .. Len(Append(down, e)) :
             \/ j \in 1 .. Len(down) /\ Append(down, e)[j] = down[j]
             \/ j = Len(down) + 1 /\ Append(down, e)[j] = e
    BY ONLY <1>3, LastAppended
  <2> QED BY <1>1, <2>1, Zenon DEF Kbd!latest
<1>6. ASSUME NEW h \in 1 .. Len(down'), NEW j \in 1 .. Len(down'), h < j
      PROVE  down'[h].press < down'[j].press
  <2>1. CASE h = Len(down) + 1
    <3>1. Len(down') = Len(down) + 1 /\ Len(down) \in Nat
      BY <1>1, <1>3
    <3> QED BY <1>6, <2>1, <3>1
  <2>2. CASE h \in 1 .. Len(down) /\ down'[h] = down[h]
    <3>1. CASE j \in 1 .. Len(down) /\ down'[j] = down[j]
      BY <1>2, <1>6, <2>2, <3>1
    <3>2. CASE down'[j] = e
      <4>1. down[h].press \in 1 .. presses
        BY <1>4, <2>2
      <4> QED BY <1>2, <1>4, <2>2, <3>2, <4>1
    <3> QED BY <1>5, <3>1, <3>2
  <2> QED BY <1>5, <2>1, <2>2
<1>7. delivered < Kbd!latest'.press
  BY <1>2, <1>4, <1>5
<1>8. down' \in Seq([key : Kbd!Keys, press : 1 .. presses'])
  BY <1>1, <1>5 DEF S
<1>9. presses' \in Nat /\ delivered' \in 0 .. presses' /\ delivered' = delivered
  BY <1>1, <1>2
<1>10. delivered' # Kbd!latest'.press /\ delivered' <= Kbd!latest'.press
  BY <1>2, <1>4, <1>5, <1>7, <1>9
<1> QED BY <1>6, <1>8, <1>9, <1>10 DEF PressInv

(* In typing the key pressed first is released first. *)
LEMMA ReleaseStep ==
  ASSUME PressInv, InOrder, NEW n \in DOMAIN down, Kbd!Release(n) PROVE PressInv'
<1> DEFINE S == [key : Kbd!Keys, press : 1 .. presses]
<1>1. /\ n = 1 /\ down' = SubSeq(down, 1, 1 - 1) \o SubSeq(down, 1 + 1, Len(down))
      /\ UNCHANGED <<presses, delivered, lastPhyCode>>
  BY DEF Kbd!Release, Kbd!input
<1>2. /\ presses \in Nat /\ delivered \in 0 .. presses /\ down \in Seq(S) /\ down # << >>
      /\ \A h, j \in 1 .. Len(down) : h < j => down[h].press < down[j].press
      /\ delivered <= Kbd!latest.press
      /\ delivered = Kbd!latest.press => Kbd!latest.key = lastPhyCode
  BY DEF PressInv
<1> HIDE DEF S
<1>3. /\ down' \in Seq(S)
      /\ \A j \in 1 .. Len(down') : j + 1 \in 1 .. Len(down) /\ down'[j] = down[j + 1]
      /\ down' # << >> => Kbd!latest' = Kbd!latest
  <2>1. PICK r : r = SubSeq(down, 1, 1 - 1) \o SubSeq(down, 1 + 1, Len(down))
    BY Zenon
  <2>2. down \in Seq(S) /\ down # << >>
    BY <1>2
  <2>3. /\ r \in Seq(S)
        /\ \A j \in 1 .. Len(r) : j + 1 \in 1 .. Len(down) /\ r[j] = down[j + 1]
        /\ r # << >> => r[Len(r)] = down[Len(down)]
    BY ONLY <2>1, <2>2, FirstRemoved, Zenon
  <2> QED BY <1>1, <2>1, <2>3, Zenon DEF Kbd!latest
<1>4. ASSUME NEW h \in 1 .. Len(down'), NEW j \in 1 .. Len(down'), h < j
      PROVE  down'[h].press < down'[j].press
  <2>1. h + 1 < j + 1
    BY <1>4
  <2> QED BY <1>2, <1>3, <2>1, Zenon
<1>5. down' \in Seq([key : Kbd!Keys, press : 1 .. presses'])
  BY <1>1, <1>3 DEF S
<1> QED BY <1>1, <1>2, <1>3, <1>4, <1>5, Zenon DEF PressInv

(* The latest key as the report finds it. *)
LEMMA LatestKey ==
  ASSUME PressInv, down # << >>
  PROVE  Kbd!latest \in [key : Kbd!Keys, press : 1 .. presses] /\ Kbd!get_key_code = Kbd!latest.key
<1>1. down \in Seq([key : Kbd!Keys, press : 1 .. presses])
  BY DEF PressInv
<1>2. Len(down) \in 1 .. Len(down)
  BY <1>1, EmptySeq
<1> QED BY <1>1, <1>2, ElementOfSeq, Zenon DEF Kbd!latest, Kbd!get_key_code

(* A report gives a press that was not given before, or none. *)
LEMMA ReportStep ==
  ASSUME PressInv, Kbd!Report, UNCHANGED Kbd!user
  PROVE  PressInv' /\ (given' # given => delivered' > delivered)
<1>1. lastPhyCode' = Kbd!get_key_code /\ UNCHANGED <<down, presses, Kbd!latest>>
  BY DEF Kbd!Report, Kbd!user, Kbd!latest
<1>2. /\ presses \in Nat /\ delivered \in 0 .. presses
      /\ down \in Seq([key : Kbd!Keys, press : 1 .. presses])
      /\ \A h, j \in 1 .. Len(down) : h < j => down[h].press < down[j].press
  BY DEF PressInv
<1>3. CASE down = << >>
  <2>1. UNCHANGED <<delivered, given>>
    BY <1>3 DEF Kbd!Report, Kbd!get_key_code
  <2> QED BY <1>1, <1>2, <1>3, <2>1 DEF PressInv
<1>4. CASE down # << >>
  <2>1. /\ Kbd!latest.press \in 1 .. presses /\ Kbd!get_key_code = Kbd!latest.key
        /\ delivered <= Kbd!latest.press
        /\ delivered = Kbd!latest.press => Kbd!latest.key = lastPhyCode
    BY <1>4, LatestKey, Zenon DEF PressInv
  <2>2. CASE UNCHANGED <<delivered, given>>
    BY <1>1, <1>2, <2>1, <2>2 DEF PressInv
  <2>3. CASE delivered' = Kbd!latest.press /\ Kbd!get_key_code # lastPhyCode
    <3>1. delivered' > delivered
      BY <1>2, <2>1, <2>3
    <3>2. delivered' \in 0 .. presses /\ delivered' <= Kbd!latest.press
      BY <1>2, <2>1, <2>3
    <3> QED BY <1>1, <1>2, <2>1, <2>3, <3>1, <3>2 DEF PressInv
  <2> QED BY <2>2, <2>3 DEF Kbd!Report
<1> QED BY <1>3, <1>4

(* Any step: the keys, and that a press is given once. *)
LEMMA KeyStep ==
  ASSUME KeyInv, Keyboards \in Nat, Keyboards <= 1, InOrder, [Kbd!Next]_keyboard
  PROVE  KeyInv' /\ (given' # given => delivered' > delivered)
<1>1. ASSUME UNCHANGED <<given, delivered, presses, down, lastPhyCode>>
      PROVE  PressInv' /\ given' = given
  BY <1>1 DEF KeyInv, PressInv, Kbd!latest
<1>2. ASSUME Kbd!Next PROVE PressInv' /\ (given' # given => delivered' > delivered)
  <2>1. ASSUME NEW ok \in BOOLEAN, Kbd!UsbHostStart(ok) \/ Kbd!screen_on(ok)
        PROVE  PressInv' /\ given' = given
    BY <1>1, <2>1 DEF Kbd!UsbHostStart, Kbd!screen_on, Kbd!input, Kbd!user
  <2>2. ASSUME Kbd!KeyboardUp \/ Kbd!configure_complete \/ Kbd!usbKbdGetc PROVE PressInv' /\ given' = given
    BY <1>1, <2>2 DEF Kbd!KeyboardUp, Kbd!configure_complete, Kbd!usbKbdGetc, Kbd!input, Kbd!user
  <2>3. ASSUME Kbd!KeyboardAttach PROVE PressInv' /\ given' = given
    <3>1. delivered = 0
      BY <2>3 DEF Kbd!KeyboardAttach, KeyInv, SystemInv
    <3>2. UNCHANGED <<given, delivered, presses, down>>
      BY <2>3 DEF Kbd!KeyboardAttach, Kbd!user
    <3>3. down # << >> => Kbd!latest.press # 0
      BY LatestKey DEF KeyInv
    <3> QED BY <3>1, <3>2, <3>3 DEF KeyInv, PressInv, Kbd!latest
  <2>4. ASSUME NEW ok \in BOOLEAN, Kbd!completion(ok)
        PROVE  PressInv' /\ (given' # given => delivered' > delivered)
    <3>1. CASE ok
      BY <2>4, <3>1, ReportStep DEF Kbd!completion, KeyInv
    <3>2. CASE ~ok
      BY <1>1, <2>4, <3>2 DEF Kbd!completion, Kbd!input, Kbd!user
    <3> QED BY <3>1, <3>2
  <2>5. ASSUME NEW k \in Kbd!Keys, Kbd!Press(k) PROVE PressInv' /\ given' = given
    BY <2>5, PressStep DEF KeyInv, Kbd!Press, Kbd!input
  <2>6. ASSUME NEW n \in DOMAIN down, Kbd!Release(n) PROVE PressInv' /\ given' = given
    BY <2>6, ReleaseStep DEF KeyInv, Kbd!Release, Kbd!input
  <2>7. ASSUME NEW m \in Modifiers, Kbd!Hold(m) PROVE PressInv' /\ given' = given
    BY <1>1, <2>7 DEF Kbd!Hold, Kbd!input
  <2> QED BY <1>2, <2>1, <2>2, <2>3, <2>4, <2>5, <2>6, <2>7 DEF Kbd!Next, Kbd!User
<1>3. ASSUME Kbd!Next PROVE SystemInv'
  BY <1>3, SystemStep DEF KeyInv
<1>4. ASSUME UNCHANGED keyboard PROVE KeyInv' /\ given' = given
  <2>1. UNCHANGED <<Kbd!system, given, delivered, presses, down, lastPhyCode>>
    BY <1>4 DEF keyboard, Kbd!system, Kbd!input, Kbd!user
  <2>2. SystemInv'
    BY <2>1 DEF KeyInv, SystemInv, Kbd!OneConsole, Kbd!system
  <2> QED BY <1>1, <2>1, <2>2 DEF KeyInv
<1> QED BY <1>2, <1>3, <1>4 DEF KeyInv

(* Nothing is up. *)
LEMMA KeyInit == Kbd!Init => KeyInv
  BY DEF Kbd!Init, KeyInv, SystemInv, Kbd!OneConsole, PressInv

(***************************************************************************)
(* screen_on, KeyboardUp, completion: with one keyboard, and its keys      *)
(* released in the order they were pressed, the console has one shell and  *)
(* its input exactly while screen and keyboard are up, and no press is     *)
(* taken up twice or after a later one.                                    *)
(***************************************************************************)
THEOREM KeysAreAsTyped ==
  ASSUME Keyboards <= 1, InOrder
  PROVE  ConsoleSpec => KeysAsTyped
<1> USE ConsoleAssumption DEF Kbd!KeyboardAssumption
<1>1. ConsoleInit => KeyInv
  BY KeyInit DEF ConsoleInit
<1>2. [ConsoleNext]_<<component, vars, xmodems, keyboard, display>> => [Kbd!Next]_keyboard
  BY DEF ConsoleNext
<1>3. KeyInv /\ [ConsoleNext]_<<component, vars, xmodems, keyboard, display>>
        => KeyInv' /\ (given' # given => delivered' > delivered)
  BY <1>2, KeyStep
<1>4. KeyInv => Kbd!OneConsole
  BY DEF KeyInv, SystemInv
<1>5. KeyInv /\ [ConsoleNext]_<<component, vars, xmodems, keyboard, display>>
        => KeyInv' /\ [given' # given => delivered' > delivered]_<<given, delivered>>
  BY <1>3
<1> QED BY <1>1, <1>4, <1>5, PTL DEF ConsoleSpec, KeysAsTyped, Kbd!OncePerPress
=============================================================================
