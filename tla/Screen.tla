------------------------------- MODULE Screen -------------------------------
(***************************************************************************)
(* The text console on the framebuffer, system/screen.c with the cputs of  *)
(* system/console.c: glyphs, cursor, wrapping and scrolling, pixel by      *)
(* pixel, beside a page without an end as the reference.  buffer holds the *)
(* lit pixels of each row of pixels; colours are left out.                 *)
(*                                                                         *)
(* The framebuffer has no padding between its rows, CONSOLE_X_ORIENTATION  *)
(* is 0 and CONSOLE_Y_DIVISOR 1, as every configuration has them.  The     *)
(* message of a scroll that is aborted goes to another console.            *)
(***************************************************************************)
EXTENDS Integers, Sequences

CONSTANTS CharacterWidth, CharacterHeight,
          Displays,        \* what FrameBufferInitialize and the build may give
          COMMAND_LENGTH,  \* of the shell
          Strings,         \* what commands put
          MaxLines         \* bound: lines of the page that are kept

VARIABLES fb,             \* width, height, cursorWidth, cursorHeight, cursorOffsetY
          screen,         \* cursorX, cursorY, buffer
          page,           \* reference: line, column, and the characters shown
          typed           \* characters of the command being typed

vars == <<fb, screen, page, typed>>

Letters == {"a", "b"}  \* other characters: " ", and the controls "BS", "LF", "CR"

(* Pixels of the font: one column each, not the extra height. *)
CharacterPixel(c, x, y) ==
  y < CharacterHeight - 1 /\ <<c, x>> \in {<<"a", 0>>, <<"b", 1>>}

Glyph(c) ==
  {p \in (0 .. CharacterWidth - 1) \X (0 .. CharacterHeight - 1) : CharacterPixel(c, p[1], p[2])}

(* screen_init, screen_device_init, by ScreenInit: d is a display. *)
screen_device_init(d) ==
  /\ fb = [width |-> d.width, height |-> d.height,
           cursorWidth |-> d.width \div d.CONSOLE_X_DIVISOR, cursorHeight |-> d.height,
           cursorOffsetY |-> d.CONSOLE_Y_ORIENTATION * CharacterHeight]
  /\ screen = [cursorX |-> 0, cursorY |-> d.CONSOLE_Y_ORIENTATION * CharacterHeight,
               buffer |-> [y \in 0 .. d.height - 1 |-> {}]]

Init ==
  /\ \E d \in Displays : screen_device_init(d)
  /\ page = [line |-> 0, column |-> 0, shown |-> {}]
  /\ typed = 0

-----------------------------------------------------------------------------
(* The last line copied is erased up to the first row where this holds. *)
Overflows(y) == y * fb.width + 4 * fb.cursorWidth > fb.width * fb.height

(* cursorWidth pixels of the row that is copied, the rest of the old one. *)
Copied(to, from) ==
  {x \in from : x < fb.cursorWidth} \cup {x \in to : x >= fb.cursorWidth}

(* Mutant of scroll: the last line copied is not erased. *)
scroll_keeps_last(s) ==
  LET top == s.cursorY - CharacterHeight
  IN  [s EXCEPT !.cursorY = top,
                !.buffer = [y \in DOMAIN @ |->
                  IF y \in fb.cursorOffsetY .. top - 1
                  THEN Copied(@[y], @[y + CharacterHeight]) ELSE @[y]]]

scroll(s) ==
  LET top    == s.cursorY - CharacterHeight
      erased == {y \in top .. top + CharacterHeight - 1 :
                   top > fb.cursorOffsetY /\ \A z \in top .. y : ~Overflows(z)}
  IN  [s EXCEPT !.cursorY = top,
                !.buffer = [y \in DOMAIN @ |->
                  IF y \in fb.cursorOffsetY .. top - 1
                  THEN Copied(@[y], @[y + CharacterHeight])
                  ELSE IF y \in erased THEN Copied(@[y], {}) ELSE @[y]]]

carriage_return(s) == [s EXCEPT !.cursorX = 0]

cursor_down(s) ==
  LET down == [s EXCEPT !.cursorY = @ + CharacterHeight]
  IN  IF down.cursorY + CharacterHeight >= fb.cursorHeight THEN scroll(down) ELSE down

new_line(s) == cursor_down(carriage_return(s))

cursor_left(s) ==
  IF s.cursorX >= CharacterWidth THEN [s EXCEPT !.cursorX = @ - CharacterWidth]
  ELSE IF s.cursorY >= CharacterHeight
  THEN [s EXCEPT !.cursorX = fb.cursorWidth - CharacterWidth, !.cursorY = @ - CharacterHeight]
  ELSE s

cursor_right(s) ==
  LET right == [s EXCEPT !.cursorX = @ + CharacterWidth]
  IN  IF right.cursorX >= fb.cursorWidth THEN new_line(right) ELSE right

(* DisplayCursorChar, set_pixel: a space clears its cell, other characters *)
(* are drawn over what is there.                                           *)
DisplayCursorChar(s, c) ==
  LET cell   == {x \in s.cursorX .. s.cursorX + CharacterWidth - 1 : x < fb.width}
      Lit(y) == {x \in cell : CharacterPixel(c, x - s.cursorX, y - s.cursorY)}
  IN  [s EXCEPT !.buffer = [y \in DOMAIN @ |->
         IF y \notin s.cursorY .. s.cursorY + CharacterHeight - 1 THEN @[y]
         ELSE IF c = " " THEN @[y] \ cell ELSE @[y] \cup Lit(y)]]

DisplayChar(s, c) == cursor_right(DisplayCursorChar(s, c))

DisplayCharacter(s, c) ==
  CASE c = "BS" -> cursor_left(s)
    [] c = "LF" -> new_line(s)
    [] c = "CR" -> carriage_return(s)
    [] OTHER    -> DisplayChar(s, c)

DisplayString(s, string) ==
  LET drawn[n \in 0 .. Len(string)] ==
        IF n = 0 THEN s ELSE DisplayCharacter(drawn[n - 1], string[n])
  IN  drawn[Len(string)]

-----------------------------------------------------------------------------
(* The reference: a page as wide as the console, and without an end. *)
Columns == fb.cursorWidth \div CharacterWidth

NextLine(p) == [p EXCEPT !.line = @ + 1, !.column = 0]

Written(p, c) ==
  LET here == [p EXCEPT !.shown = {t \in @ : <<t[1], t[2]>> # <<p.line, p.column>>} \cup
                                  IF c = " " THEN {} ELSE {<<p.line, p.column, c>>}]
  IN  IF p.column + 1 = Columns THEN NextLine(here) ELSE [here EXCEPT !.column = @ + 1]

OnPage(p, c) ==
  CASE c = "BS" -> IF p.column > 0 THEN [p EXCEPT !.column = @ - 1]
                   ELSE [p EXCEPT !.line = @ - 1, !.column = Columns - 1]
    [] c = "LF" -> NextLine(p)
    [] c = "CR" -> [p EXCEPT !.column = 0]
    [] OTHER    -> Written(p, c)

StringOnPage(p, string) ==
  LET after[n \in 0 .. Len(string)] == IF n = 0 THEN p ELSE OnPage(after[n - 1], string[n])
  IN  after[Len(string)]

(* Lines are numbered from the first that is kept. *)
Recent(p) ==
  LET gone == IF p.line > MaxLines THEN p.line - MaxLines ELSE 0
  IN  [p EXCEPT !.line = @ - gone,
                !.shown = {<<t[1] - gone, t[2], t[3]>> : t \in {u \in @ : u[1] >= gone}}]

Output(string) ==
  /\ screen' = DisplayString(screen, string)
  /\ page' = Recent(StringOnPage(page, string))
  /\ UNCHANGED fb

-----------------------------------------------------------------------------
(* ShellPoll echoes a character. *)
Echo(c) == typed < COMMAND_LENGTH - 1 /\ Output(<<c>>) /\ typed' = typed + 1

(* ShellPoll on a backspace: the echo, and what it puts after it. *)
Erase == typed > 0 /\ Output(<<"BS", " ", "BS">>) /\ typed' = typed - 1

(* ShellPoll on the end of a command. *)
Enter == Output(IF typed = 0 THEN <<"CR", "LF", "CR">> ELSE <<"CR", "LF">>) /\ typed' = 0

(* ShellPoll's prompt, of one character. *)
Prompt == typed = 0 /\ Output(<<"b">>) /\ UNCHANGED typed

(* cputs, by a command. *)
cputs == typed = 0 /\ (\E string \in Strings : Output(Append(string, "LF"))) /\ UNCHANGED typed

(* ScreenClear, by the command clear. *)
clear_display ==
  /\ typed = 0 /\ page.shown # {}
  /\ screen' = [screen EXCEPT !.buffer = [y \in DOMAIN @ |-> {}]]
  /\ page' = [page EXCEPT !.shown = {}]
  /\ UNCHANGED <<fb, typed>>

Next == (\E c \in Letters : Echo(c)) \/ Erase \/ Enter \/ Prompt \/ cputs \/ clear_display

Spec == Init /\ [][Next]_vars

-----------------------------------------------------------------------------
(***************************************************************************)
(* scroll, cursor_left, cursor_right: however lines wrap at the edge, are  *)
(* erased back over it and scroll, the lit pixels are those of the last    *)
(* lines of the page, nothing is drawn outside the console's part of the   *)
(* screen, and the cursor is where the page's is, inside that part.        *)
(***************************************************************************)
ShowsOutput ==
  LET first == page.line - (screen.cursorY - fb.cursorOffsetY) \div CharacterHeight
      Pixels(t) == {<<t[2] * CharacterWidth + g[1],
                      fb.cursorOffsetY + (t[1] - first) * CharacterHeight + g[2]>> :
                      g \in Glyph(t[3])}
  IN  /\ UNION {{<<x, y>> : x \in screen.buffer[y]} : y \in DOMAIN screen.buffer}
           = UNION {Pixels(t) : t \in {u \in page.shown : u[1] >= first}}
      /\ screen.cursorX = page.column * CharacterWidth
      /\ screen.cursorY >= fb.cursorOffsetY
      /\ screen.cursorY + CharacterHeight <= fb.cursorHeight
=============================================================================
