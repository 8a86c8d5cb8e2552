------------------------------ MODULE MCConsole ------------------------------
(***************************************************************************)
(* The console: the shells (Shell), the Xmodem receiver (Xmodem) one of    *)
(* them polls, and the keyboard (Keyboard) and the screen (Screen) of the  *)
(* second.  What a shell needs of a transfer is that it ends, which is a   *)
(* property of Xmodem, of a keyboard any characters and of a screen        *)
(* nothing; no other state is shared, so a behaviour is one of one of the  *)
(* four, the others being at rest.                                         *)
(***************************************************************************)
EXTENDS Shell

CONSTANTS Blocks, Numbers, FileBytes, XMODEM_DATA_SIZE, XMODEM_PACKET_SIZE,
          XMODEM_DATA_RETRY, length, EotBlocks, SenderTries, MaxFaults,
          Keyboards, Modifiers, InOrder, MaxDown, MaxPresses,
          CharacterWidth, CharacterHeight, MaxLines

VARIABLES component,
          received, at, packet, retry, rcvd, destination, outcome,
          line, replies, sender, sn, out, refused, faults,
          UsbUp, ScreenUp, KeyboardEnabled, attached, KBD1, key_pressed, urb, getc, consoles,
          KeyIn, capsLock, lastPhyCode, delivered, given, down, modifiers, presses,
          fb, screen, page, typed

(* The whole screen, and the part of it a game leaves to the console. *)
MCDisplays ==
  {[width |-> 6, height |-> 15, CONSOLE_X_DIVISOR |-> 1, CONSOLE_Y_ORIENTATION |-> 0],
   [width |-> 8, height |-> 20, CONSOLE_X_DIVISOR |-> 2, CONSOLE_Y_ORIENTATION |-> 1]}

Xmd == INSTANCE Xmodem WITH block <- received, i <- at
Kbd == INSTANCE Keyboard
Scr == INSTANCE Screen WITH Displays <- MCDisplays, Strings <- {<<"a", "b", "a">>}

ASSUME ConsoleAssumption == Xmd!XmodemAssumption /\ Kbd!KeyboardAssumption

xmodems == <<received, at, packet, retry, rcvd, destination, outcome,
             line, replies, sender, sn, out, refused, faults>>
keyboard == <<UsbUp, ScreenUp, KeyboardEnabled, attached, KBD1, key_pressed, urb, getc, consoles,
              KeyIn, capsLock, lastPhyCode, delivered, given, down, modifiers, presses>>
display  == <<fb, screen, page, typed>>

ConsoleInit ==
  /\ component \in {"shell", "xmodem", "keyboard", "screen"}
  /\ Init /\ Xmd!Init /\ Kbd!Init /\ Scr!Init
  /\ component # "screen" => fb.cursorOffsetY = 0

ConsoleNext ==
  /\ UNCHANGED component
  /\ \/ component = "shell" /\ Next /\ UNCHANGED <<xmodems, keyboard, display>>
     \/ component = "xmodem" /\ Xmd!Next /\ UNCHANGED <<vars, keyboard, display>>
     \/ component = "keyboard" /\ Kbd!Next /\ UNCHANGED <<vars, xmodems, display>>
     \/ component = "screen" /\ Scr!Next /\ UNCHANGED <<vars, xmodems, keyboard>>

(* The fairness of Shell, Xmodem and Keyboard, each where it runs. *)
ConsoleFairness ==
  /\ \A s \in Shells : /\ WF_vars(component = "shell" /\ Execute(s))
                       /\ WF_vars(component = "shell" /\ Reprompt(s))
                       /\ SF_vars(component = "shell" /\ EndsTransfer(s))
  /\ WF_xmodems(component = "xmodem" /\ Xmd!XmodemStart)
  /\ WF_xmodems(component = "xmodem" /\ Xmd!Timeout)
  /\ WF_keyboard(component = "keyboard" /\ Kbd!completion(TRUE))
  /\ WF_keyboard(component = "keyboard" /\ Kbd!usbKbdGetc)

ConsoleSpec ==
  /\ ConsoleInit /\ [][ConsoleNext]_<<component, vars, xmodems, keyboard, display>>
  /\ ConsoleFairness

-----------------------------------------------------------------------------
(* XmodemPoll, process_xmodem: a download reported complete is the file,   *)
(* and until then receiver and sender are never more than a block apart.   *)
CompleteIsWhole == Xmd!CompleteIsWhole /\ Xmd!InStep

(* ShellPoll, XmodemPoll, completion: a shell that executes a command      *)
(* prompts again, the xmodem command ends, with the file or by its         *)
(* timeouts, and a key that stays down is heard.                           *)
Responds == BackToPrompt /\ (component = "xmodem" => Xmd!AlwaysEnds) /\ Kbd!PressHeard

(* scroll, cursor_left, cursor_right, DisplayCharacter: the console shows  *)
(* the last lines of what was put, through wrapping, erasing and scrolls,  *)
(* and nothing outside its part of the screen is touched.                  *)
ShowsOutput == Scr!ShowsOutput

(* screen_on, KeyboardUp, completion: the console gets one shell, with its *)
(* input, when screen and keyboard are up in whatever order; a press of a  *)
(* key in typing is taken up at most once, and in order.                   *)
KeysAsTyped == []Kbd!OneConsole /\ Kbd!OncePerPress
=============================================================================
