------------------------------ MODULE Terminal ------------------------------
(***************************************************************************)
(* gfx::VirtualTerminal, the text screen of the kernel (gfx/terminal.cpp): *)
(* write_char with its parser of control sequences, the cursor and the     *)
(* flat buffer of characters.  Colours, and the drawing of characters and  *)
(* of the cursor on the framebuffer, are left out.                         *)
(***************************************************************************)
EXTENDS Integers, Sequences, SequencesExt

CONSTANTS
  width_chars, height_chars,
  Tab,          \* 8 in the code
  max_csi_args, \* 16 in the code
  Chars,        \* characters that are shown
  Digits,       \* digits that are written in arguments
  MaxArg        \* bound on the arguments

VARIABLES
  screen,       \* [buffer, x, y, insert_mode]
  csi,          \* [progress, args, index, count, question]
  wild          \* a write past the end of the buffer

vars == <<screen, csi, wild>>

Blank == " "
Cells == 0..(width_chars * height_chars - 1)
NoSequence == [progress |-> 0, args |-> [i \in 0..(max_csi_args - 1) |-> 0], index |-> 0, count |-> 0,
               question |-> FALSE]

Init ==
  /\ screen = [buffer |-> [i \in Cells |-> Blank], x |-> 0, y |-> 0, insert_mode |-> FALSE]
  /\ csi = NoSequence
  /\ wild = FALSE

-----------------------------------------------------------------------------
(* The buffer                                                                *)

Cell(x, y) == y * width_chars + x
set_char_at(b, i, c) == IF i \in Cells THEN [b EXCEPT ![i] = c] ELSE b
move_char(b, old, new) == set_char_at(set_char_at(b, new, b[old]), old, Blank)
scroll(b) == [i \in Cells |-> IF i + width_chars \in Cells THEN b[i + width_chars] ELSE Blank]

Erased(s, cells) == [s EXCEPT !.buffer = [i \in Cells |-> IF i \in cells THEN Blank ELSE @[i]]]
InLine(s, from, to) == {Cell(x, s.y) : x \in from..to}

clamp(n, max) == IF n < 0 THEN 0 ELSE IF n > max THEN max ELSE n
AtLeastOne(n) == IF n < 1 THEN 1 ELSE n

-----------------------------------------------------------------------------
(* apply_control_sequence                                                    *)

\* J and K
Erases(s, code, n) ==
  LET here == Cell(s.x, s.y)
      cells == CASE code = "J" /\ n = 0 -> {i \in Cells : i >= here}
                 [] code = "J" /\ n = 1 -> {i \in Cells : i <= here}
                 [] code = "J" /\ n \in {2, 3} -> Cells
                 [] code = "K" /\ n = 0 -> InLine(s, s.x, width_chars - 1)
                 [] code = "K" /\ n = 1 -> InLine(s, 0, s.x)
                 [] code = "K" /\ n = 2 -> InLine(s, 0, width_chars - 1)
                 [] OTHER -> {}
  IN  Erased(s, cells)

\* move_cursor, with what its callers pass to it
Moved(s, code, n, m) ==
  LET one == AtLeastOne(n)
      X(i) == clamp(i, width_chars - 1)
      Y(i) == clamp(i, height_chars - 1)
      move_cursor(x, y) == [s EXCEPT !.x = x, !.y = y]
  IN  CASE code = "A" -> move_cursor(s.x, Y(s.y - one))
        [] code = "B" -> move_cursor(s.x, Y(s.y + one))
        [] code = "C" -> move_cursor(X(s.x + one), s.y)
        [] code = "D" -> move_cursor(X(s.x - one), s.y)
        [] code = "E" -> move_cursor(0, Y(s.y + one))
        [] code = "F" -> move_cursor(0, Y(s.y - one))
        [] code = "G" -> move_cursor(X(n - 1), s.y)
        [] code \in {"H", "f"} -> move_cursor(X(n - 1), Y(m - 1))
        [] code = "d" -> move_cursor(s.x, Y(n - 1))
        [] code = "r" -> move_cursor(0, 0)

\* P and X: the first clears the place of the characters that it deletes and
\* then moves the rest of the line over it, from the left.
Shifted(b, s, last, order) ==
  FoldLeft(LAMBDA x, i : move_char(x, Cell(last + i, s.y), Cell(s.x + i, s.y)), b, order)
\* A bug: the rest of the line is moved from its end on.
Deletes_FromEnd(s, code, n) ==
  LET last == clamp(s.x + n, width_chars)
      cleared == Erased(s, InLine(s, s.x, last - 1))
      count == width_chars - last
  IN  IF code = "X" THEN cleared
      ELSE [cleared EXCEPT !.buffer = Shifted(@, s, last, [i \in 1..count |-> count - i])]
Deletes(s, code, n) ==
  LET last == clamp(s.x + n, width_chars)
      cleared == Erased(s, InLine(s, s.x, last - 1))
      count == width_chars - last
  IN  IF code = "X" THEN cleared
      ELSE [cleared EXCEPT !.buffer = Shifted(@, s, last, [i \in 1..count |-> i - 1])]

Moves == {"A", "B", "C", "D", "E", "F", "G", "H", "f", "d", "r"}

apply_control_sequence(s, code) ==
  LET n == csi.args[0]
  IN  CASE code \in {"J", "K"} -> Erases(s, code, n)
        [] code \in Moves -> Moved(s, code, n, csi.args[1])
        [] code \in {"P", "X"} -> Deletes(s, code, IF csi.count = 0 THEN 1 ELSE n)
        [] code \in {"h", "l"} -> IF ~csi.question /\ n = 4 THEN [s EXCEPT !.insert_mode = (code = "h")] ELSE s
        [] OTHER -> s

-----------------------------------------------------------------------------
(* write_char                                                                *)

\* The argument that a semicolon opens; past the last one the sequence is
\* given up.
NextArg ==
  IF csi.index + 1 >= max_csi_args THEN NoSequence
  ELSE [csi EXCEPT !.index = @ + 1, !.args[csi.index + 1] = 0]

Escape(c) ==
  /\ csi.progress = 1
  /\ csi' = IF c = "[" THEN [csi EXCEPT !.progress = 2] ELSE NoSequence
  /\ UNCHANGED <<screen, wild>>

Digit(d) ==
  /\ csi.progress = 2 /\ csi.args[csi.index] * 10 + d <= MaxArg
  /\ csi' = [csi EXCEPT !.args[csi.index] = @ * 10 + d, !.count = csi.index + 1]
  /\ UNCHANGED <<screen, wild>>

Separator(c) ==
  /\ csi.progress = 2
  /\ csi' = CASE c = ";" -> NextArg [] c = "?" -> [csi EXCEPT !.question = TRUE] [] OTHER -> NoSequence
  /\ UNCHANGED <<screen, wild>>

Letter(c) ==
  /\ csi.progress = 2
  /\ screen' = apply_control_sequence(screen, c)
  /\ csi' = NoSequence
  /\ UNCHANGED wild

\* What follows the switch: a full line ends, and the screen scrolls.
Wrapped(s) ==
  LET t == IF s.x >= width_chars THEN [s EXCEPT !.x = 0, !.y = @ + 1] ELSE s
  IN  IF t.y >= height_chars THEN [t EXCEPT !.y = @ - 1, !.buffer = scroll(@)] ELSE t

\* Insert mode moves the line from its end on, the last character onto the next
\* line or past the end of the buffer.
Inserted(s) ==
  IF ~s.insert_mode THEN s
  ELSE [s EXCEPT !.buffer =
          FoldLeft(LAMBDA b, i : move_char(b, Cell(width_chars - i, s.y), Cell(width_chars - i + 1, s.y)),
                   @, [i \in 1..(width_chars - s.x) |-> i])]

Shown(s, c) ==
  Wrapped([Inserted(s) EXCEPT !.buffer = set_char_at(@, Cell(s.x, s.y), c), !.x = @ + 1])

Show(c) ==
  /\ csi.progress = 0
  /\ screen' = Shown(screen, c)
  /\ wild' = (screen.insert_mode /\ screen.y = height_chars - 1)
  /\ UNCHANGED csi

Control(c) ==
  /\ csi.progress = 0
  /\ screen' = CASE c = "bs" -> [screen EXCEPT !.x = IF @ > 0 THEN @ - 1 ELSE 0]
                 [] c = "tab" -> Wrapped([screen EXCEPT !.x = ((@ + Tab) \div Tab) * Tab])
                 [] c = "cr" -> [screen EXCEPT !.x = 0]
                 [] c = "lf" -> Wrapped([screen EXCEPT !.x = 0, !.y = @ + 1])
                 [] c = "esc" -> screen
  /\ csi' = IF c = "esc" THEN [csi EXCEPT !.progress = 1] ELSE csi
  /\ UNCHANGED wild

Letters == Moves \cup {"J", "K", "P", "X", "h", "l", "m"}

Next ==
  /\ ~wild
  /\ \/ \E c \in {"[", "x"} : Escape(c)
     \/ \E d \in Digits : Digit(d)
     \/ \E c \in {";", "?", "esc"} : Separator(c)
     \/ \E c \in Letters : Letter(c)
     \/ \E c \in Chars : Show(c)
     \/ \E c \in {"bs", "tab", "cr", "lf", "esc"} : Control(c)

Spec == Init /\ [][Next]_vars

-----------------------------------------------------------------------------
(* What the editing does to the lines of the screen                          *)

Line(b, y) == [i \in 1..width_chars |-> b[Cell(i - 1, y)]]
Lines(b) == [i \in 1..height_chars |-> Line(b, i - 1)]
Blanks(n) == [i \in 1..n |-> Blank]
Padded(l) == l \o Blanks(width_chars - Len(l))
Least(a, b) == IF a < b THEN a ELSE b

\* The line l with k characters replaced by r, from column x on
Replaced(l, x, k, r) == SubSeq(l, 1, x) \o r \o SubSeq(l, x + k + 1, width_chars)

Edited(ls, x, y, code, n) ==
  LET k == Least(n, width_chars - x)
      Edit(l) == CASE code = "P" -> Padded(Replaced(l, x, k, <<>>))
                   [] code = "X" -> Replaced(l, x, k, Blanks(k))
                   [] n = 0 -> Padded(SubSeq(l, 1, x))
                   [] n = 1 -> Replaced(l, 0, x + 1, Blanks(x + 1))
                   [] OTHER -> Blanks(width_chars)
      cleared == IF code # "J" THEN {}
                 ELSE CASE n = 0 -> (y + 2)..height_chars [] n = 1 -> 1..y [] OTHER -> 1..height_chars
  IN  [i \in 1..height_chars |-> IF i \in cleared THEN Blanks(width_chars)
                                 ELSE IF i = y + 1 THEN Edit(ls[i]) ELSE ls[i]]

\* The cursor stays on the screen and the arguments in csi_args, and J, K, P, X
\* and a shown character do to the lines of the screen what they are for, although
\* the code edits one flat buffer in place: nothing spills into another line, and
\* a line that is full leads to the next, scrolling at the end (terminal.cpp
\* 203-300 and 365-383).  Insert mode, and P with the argument 0, are left out.
LinesAreEdited ==
  LET s == screen
      Defaulted(code) == IF code \in {"P", "X"} /\ csi.count = 0 THEN 1 ELSE csi.args[0]
      After(t) == Lines(t.buffer)
      full == s.x = width_chars - 1
      Put(c) == [Lines(s.buffer) EXCEPT ![s.y + 1] = Replaced(@, s.x, 1, <<c>>)]
  IN  /\ s.x \in 0..(width_chars - 1) /\ s.y \in 0..(height_chars - 1)
      /\ csi.index \in 0..(max_csi_args - 1)
      /\ csi.progress = 2 =>
           \A code \in {"J", "K", "P", "X"} :
             LET n == Defaulted(code)
             IN  (code = "P" => n > 0) /\ (code \in {"J", "K"} => n <= 2) =>
                 After(apply_control_sequence(s, code)) = Edited(Lines(s.buffer), s.x, s.y, code, n)
      /\ csi.progress = 0 /\ ~s.insert_mode =>
           \A c \in Chars :
             After(Shown(s, c)) = IF full /\ s.y = height_chars - 1
                                  THEN Append(Tail(Put(c)), Blanks(width_chars)) ELSE Put(c)
=============================================================================
