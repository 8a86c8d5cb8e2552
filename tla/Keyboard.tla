------------------------------ MODULE Keyboard ------------------------------
(***************************************************************************)
(* The USB keyboard, usb/keyboard.c, and the video console it makes        *)
(* interactive: the commands Usb, screen and Keyboard, in any order, the   *)
(* report request that resubmits itself, and the one character KeyIn       *)
(* between the report's completion and the console's shell.                *)
(*                                                                         *)
(* The keyboard is external.  It answers a request with the keys that are  *)
(* down, in the order they were pressed, or the answer fails or is short   *)
(* (ok = FALSE).  Presses are numbered; down holds the number of each.     *)
(* The request gets a channel when it is first submitted (UsbHost) and     *)
(* TaskNew has a slot for the console (Tasks).                             *)
(***************************************************************************)
EXTENDS Integers, Sequences

CONSTANTS Keyboards,     \* on the bus, one after the other
          Modifiers,     \* values of the first byte of a report
          InOrder,       \* keys are released in the order they were pressed
          MaxDown,       \* bound: keys down at once
          MaxPresses     \* bound

Keys    == {"a", "1", "caps", "F1"}  \* a letter, another key of KeyMap, 0x39, one above it
Letters == {"a"}
None    == "none"

(* Evaluated where the module is instantiated. *)
KeyboardAssumption ==
  /\ Keyboards \in Nat /\ Modifiers \subseteq 0 .. 255 /\ InOrder \in BOOLEAN
  /\ MaxDown \in 1 .. 6 /\ MaxPresses \in Nat

VARIABLES UsbUp, ScreenUp, KeyboardEnabled,
          attached,        \* keyboards that have been attached so far
          KBD1,            \* a keyboard is configured
          key_pressed,     \* the handler is registered
          urb,             \* keyboard->urb, under way
          getc, consoles,  \* ConsoleState.getc is set; tasks that poll ConsoleState
          KeyIn, capsLock, lastPhyCode,
          down, modifiers, \* what the user holds
          presses,         \* number of the last press
          delivered, given \* press last given to generate_key_event; how often it was called

system == <<UsbUp, ScreenUp, KeyboardEnabled, attached, KBD1, key_pressed, urb, getc, consoles>>
input  == <<KeyIn, capsLock, lastPhyCode, delivered, given>>
user   == <<down, modifiers, presses>>
vars   == <<system, input, user>>

(* main, without ENABLE_AUTO_START. *)
Init ==
  /\ UsbUp = FALSE /\ ScreenUp = FALSE /\ KeyboardEnabled = FALSE
  /\ attached = 0 /\ KBD1 = FALSE /\ key_pressed = FALSE /\ urb = FALSE
  /\ getc = FALSE /\ consoles = 0
  /\ KeyIn = << >> /\ capsLock = FALSE /\ lastPhyCode = None
  /\ down = << >> /\ modifiers = 0 /\ presses = 0
  /\ delivered = 0 /\ given = 0

(* The command Usb; ok is HostEnable's result.  The rest is done by its interrupts. *)
UsbHostStart(ok) ==
  /\ ~UsbUp
  /\ UsbUp' = ok
  /\ UNCHANGED <<ScreenUp, KeyboardEnabled, attached, KBD1, key_pressed, urb, getc, consoles,
                 input, user>>

(* KeyboardAttach, for the one Keyboard there is room for. *)
KeyboardAttach ==
  /\ UsbUp /\ attached < Keyboards
  /\ attached' = attached + 1
  /\ KeyboardEnabled' = FALSE /\ capsLock' = FALSE /\ key_pressed' = FALSE
  /\ urb' = FALSE /\ lastPhyCode' = None
  /\ UNCHANGED <<UsbUp, ScreenUp, KBD1, getc, consoles, KeyIn, delivered, given, user>>

(* The last configure_complete. *)
configure_complete ==
  /\ attached > 0 /\ ~KBD1
  /\ KBD1' = TRUE
  /\ UNCHANGED <<UsbUp, ScreenUp, KeyboardEnabled, attached, key_pressed, urb, getc, consoles,
                 input, user>>

(* Console of system/console.c when the screen is up, then, or when the    *)
(* keyboard is started, ConsoleEnableKeyboard.                             *)
ConsoleEnableKeyboard == getc' = TRUE /\ consoles' = consoles + 1

Console(enabled) ==
  IF enabled THEN ConsoleEnableKeyboard ELSE getc' = FALSE /\ UNCHANGED consoles

(* The command screen; ok is ScreenInit's result. *)
screen_on(ok) ==
  /\ ~ScreenUp
  /\ ScreenUp' = ok
  /\ IF ok THEN Console(KeyboardEnabled) ELSE UNCHANGED <<getc, consoles>>
  /\ UNCHANGED <<UsbUp, KeyboardEnabled, attached, KBD1, key_pressed, urb, input, user>>

(* The command Keyboard, with start_request. *)
KeyboardUp ==
  /\ UsbUp /\ KBD1 /\ ~KeyboardEnabled
  /\ KeyboardEnabled' = TRUE /\ key_pressed' = TRUE /\ urb' = TRUE
  /\ IF ScreenUp THEN ConsoleEnableKeyboard ELSE UNCHANGED <<getc, consoles>>
  /\ UNCHANGED <<UsbUp, ScreenUp, attached, KBD1, input, user>>

(* generate_key_event: the column of KeyMap, and what becomes of the key.  *)
Column(k) ==
  LET shifted == IF capsLock /\ k \in Letters THEN 2
                 ELSE IF modifiers = 32 THEN 2
                 ELSE IF modifiers = 0 THEN 1 ELSE modifiers
  IN  shifted - 1

generate_key_event(k) ==
  \/ k = "F1" /\ UNCHANGED <<capsLock, KeyIn>>
  \/ k = "caps" /\ capsLock' = ~capsLock /\ UNCHANGED KeyIn
  \/ /\ k \notin {"F1", "caps"}
     /\ KeyIn' = IF key_pressed THEN <<k, Column(k)>> ELSE KeyIn
     /\ UNCHANGED capsLock

(* The key pressed last of those that are down. *)
latest == down[Len(down)]

(* get_key_code: the last key of the report. *)
get_key_code == IF down = << >> THEN None ELSE latest.key

(* Mutant of Report: the key is not compared with that of the last report. *)
Report_repeats ==
  /\ lastPhyCode' = get_key_code
  /\ IF get_key_code = None
     THEN UNCHANGED <<KeyIn, capsLock, delivered, given>>
     ELSE /\ generate_key_event(get_key_code)
          /\ delivered' = latest.press /\ given' = given + 1

(* What completion does with a whole report. *)
Report ==
  /\ lastPhyCode' = get_key_code
  /\ IF get_key_code \in {None, lastPhyCode}
     THEN UNCHANGED <<KeyIn, capsLock, delivered, given>>
     ELSE /\ generate_key_event(get_key_code)
          /\ delivered' = latest.press /\ given' = given + 1

(* completion of the report request, which is then submitted again. *)
completion(ok) ==
  /\ urb
  /\ IF ok THEN Report ELSE UNCHANGED input
  /\ UNCHANGED <<system, user>>

(* ShellPoll of the console finds a character: usbKbdCheck, usbKbdGetc. *)
usbKbdGetc ==
  /\ consoles > 0 /\ getc /\ KeyIn # << >>
  /\ KeyIn' = << >>
  /\ UNCHANGED <<system, capsLock, lastPhyCode, delivered, given, user>>

Press(k) ==
  /\ presses < MaxPresses /\ Len(down) < MaxDown /\ \A n \in DOMAIN down : down[n].key # k
  /\ presses' = presses + 1
  /\ down' = Append(down, [key |-> k, press |-> presses'])
  /\ UNCHANGED <<system, input, modifiers>>

Release(n) ==
  /\ InOrder => n = 1
  /\ down' = SubSeq(down, 1, n - 1) \o SubSeq(down, n + 1, Len(down))
  /\ UNCHANGED <<system, input, modifiers, presses>>

Hold(m) == m # modifiers /\ modifiers' = m /\ UNCHANGED <<system, input, down, presses>>

User ==
  \/ \E ok \in BOOLEAN : UsbHostStart(ok) \/ screen_on(ok)
  \/ KeyboardUp
  \/ \E k \in Keys : Press(k)
  \/ \E n \in DOMAIN down : Release(n)
  \/ \E m \in Modifiers : Hold(m)

Next ==
  \/ User
  \/ KeyboardAttach \/ configure_complete
  \/ \E ok \in BOOLEAN : completion(ok)
  \/ usbKbdGetc

(* The keyboard answers and the console is polled. *)
Fairness == WF_vars(completion(TRUE)) /\ WF_vars(usbKbdGetc)

Spec == Init /\ [][Next]_vars /\ Fairness

-----------------------------------------------------------------------------
(***************************************************************************)
(* screen_on, KeyboardUp: whatever the order of the commands, and however  *)
(* often one fails and is repeated, the console has one shell as soon as   *)
(* screen and keyboard are both up, not before, and with its input; and    *)
(* the keyboard has one request under way from when it is enabled.         *)
(***************************************************************************)
OneConsole ==
  /\ consoles = IF ScreenUp /\ KeyboardEnabled THEN 1 ELSE 0
  /\ getc <=> consoles = 1
  /\ urb <=> KeyboardEnabled

(***************************************************************************)
(* completion: while keys are released in the order they were pressed, as  *)
(* in typing, a press is given to generate_key_event at most once and in   *)
(* order, however many reports show it and however many keys overlap.      *)
(***************************************************************************)
OncePerPress == [][given' # given => delivered' > delivered]_<<given, delivered>>

(***************************************************************************)
(* completion: a key that stays down as the last one pressed is given to   *)
(* generate_key_event, unless it is the key of the last report again.      *)
(***************************************************************************)
PressHeard ==
  \A n \in 1 .. MaxPresses :
    (urb /\ down # << >> /\ latest.press = n /\ get_key_code # lastPhyCode)
      ~> (delivered >= n \/ down = << >> \/ latest.press # n)

(***************************************************************************)
(* Claims that do not hold for every input.                                *)
(***************************************************************************)

(* "char KeyMap[][2]": the column is 0 or 1.  Other modifiers than one     *)
(* shift, or both, read past the row.                                      *)
WithinKeyMap == KeyIn # << >> => KeyIn[2] \in {0, 1}

(* A press seen by a report reaches the console: one that comes before the *)
(* last is read replaces it.                                               *)
NoneReplaced == [][KeyIn # << >> /\ KeyIn' # KeyIn => KeyIn' = << >>]_KeyIn
=============================================================================
