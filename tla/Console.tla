------------------------------- MODULE Console --------------------------------
(***************************************************************************)
(* The screen of src/src/console.c: cells and a cursor, written one        *)
(* character at a time.  The VGA text mode and the framebuffer differ in   *)
(* how a cell is drawn only.  A screen is a value here; Terminal keeps one.*)
(***************************************************************************)
EXTENDS Integers, Sequences

CONSTANTS Width, Height

ASSUME ConsoleAssumption == Width \in Nat \ {0} /\ Height \in Nat \ {0}

Blank == " "
NL    == "newline"
BS    == "backspace"

\* Cells are counted from the top left corner.
Cells == 0..(Width * Height - 1)

Cleared == [cell |-> [i \in Cells |-> Blank], row |-> 0, col |-> 0]

\* console_set_cursor
Moved(s, row, col) == [s EXCEPT !.row = row, !.col = col]

Place(s) == s.row * Width + s.col

\* Every row goes up by one, the last one is blank.
Scrolled(s) ==
  [s EXCEPT !.cell = [i \in Cells |-> IF i + Width \in Cells THEN s.cell[i + Width] ELSE Blank]]

NewLine(s) ==
  IF s.row + 1 < Height THEN Moved(s, s.row + 1, 0)
                        ELSE Moved(Scrolled(s), Height - 1, 0)

\* Slip: the cursor goes back and the character stays.
ErasedNot(s) ==
  IF s.col > 0 THEN [s EXCEPT !.col = @ - 1] ELSE s

\* In the first column there is nothing to erase: the cursor does not go back to
\* the line above.
Erased(s) ==
  IF s.col > 0 THEN [s EXCEPT !.col = @ - 1, !.cell[Place(s) - 1] = Blank] ELSE s

\* A character, with the wrap after the last column.
Put(s, ch) ==
  LET drawn == [s EXCEPT !.cell[Place(s)] = ch]
  IN  IF s.col + 1 = Width THEN NewLine(drawn) ELSE [drawn EXCEPT !.col = @ + 1]

\* console_putc; nothing in the system writes a carriage return.
Putc(s, ch) ==
  CASE ch = NL -> NewLine(s)
    [] ch = BS -> Erased(s)
    [] OTHER   -> Put(s, ch)

\* console_write
Write(s, text) ==
  LET shown[n \in 0..Len(text)] == IF n = 0 THEN s ELSE Putc(shown[n - 1], text[n])
  IN  shown[Len(text)]
===============================================================================
