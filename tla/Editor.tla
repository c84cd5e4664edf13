-------------------------------- MODULE Editor --------------------------------
(***************************************************************************)
(* The editor of src/src/editor.c and the command ink/write of the shell   *)
(* that opens it, on one file.  Every key is handled and then the whole    *)
(* screen is drawn again from the buffer.                                  *)
(*                                                                         *)
(* Lines are what build_lines finds; positions are those of the code, from *)
(* 0 to the length of the buffer.                                          *)
(***************************************************************************)
EXTENDS Integers, Sequences, FiniteSets

CONSTANTS
  Chars, NL, Tab,       \* characters that can be typed; newline; tab
  MaxSize, MaxLines,    \* EDITOR_MAX_SIZE, EDITOR_MAX_LINES
  Rows, Cols,           \* EDITOR_ROWS, EDITOR_COLS
  Files,                \* texts the file may hold at first
  Absent, Damaged,      \* instead of a text: no such file; an overwrite failed halfway
  MaxFaults             \* bound: calls of the file system that fail

ASSUME EditorAssumption ==
  /\ NL \notin Chars /\ Tab \notin Chars /\ NL # Tab
  /\ MaxSize \in Nat \ {0} /\ MaxLines \in Nat \ {0}
  /\ Rows \in Nat \ {0} /\ Cols \in Nat \ {0}
  /\ Files \subseteq Seq(Chars \cup {NL, Tab}) /\ MaxFaults \in Nat
  /\ Absent # Damaged /\ {Absent, Damaged} \cap Seq(Chars \cup {NL, Tab}) = {}

Blank == "blank"

VARIABLES
  pc,                         \* shell, or drawing, or waiting for a key
  buffer, cursor, scroll, dirty,   \* struct editor_state
  file,                       \* what the disk holds
  screen, at,                 \* the text area as drawn, and the console's cursor
  missed,                     \* history: the file was not read when opened, or a save
                              \* of an unchanged text has failed
  faults

state == <<buffer, cursor, scroll, dirty>>
vars  == <<pc, state, file, screen, at, missed, faults>>

Text   == Seq(Chars \cup {NL, Tab})
Length == Len(buffer)

-------------------------------------------------------------------------------
\* Lines.  A line is given by its start; the first MaxLines of them are known.

Newlines(b)  == {i \in 1..Len(b) : b[i] = NL}
Before(b, p) == Cardinality({i \in Newlines(b) : i <= p})

\* build_lines
LineStarts(b) == {0} \cup {i \in Newlines(b) : Before(b, i) < MaxLines}

\* g_line_starts[n]
Start(b, n) == CHOOSE s \in LineStarts(b) : Before(b, s) = n

LineCount(b) == Cardinality(LineStarts(b))

\* find_line
LineAt(b, c) == Cardinality({s \in LineStarts(b) \ {0} : s <= c})

\* line_end
LineEnd(b, n) == IF n + 1 < LineCount(b) THEN Start(b, n + 1) - 1 ELSE Len(b)

-------------------------------------------------------------------------------
\* Opening.

Init ==
  /\ pc = "shell"
  /\ buffer = <<>> /\ cursor = 0 /\ scroll = 0 /\ dirty = FALSE
  /\ file \in Files \cup {Absent}
  /\ screen = [r \in 1..Rows |-> [c \in 0..(Cols - 1) |-> Blank]]
  /\ at = <<1, 0>> /\ missed = FALSE
  /\ faults = MaxFaults

\* Slip: editor_run trusts whatever fs_stat let through.
CanOpenAny(t) == TRUE

\* The shell refuses a file that is larger than the buffer.
CanOpen(t) == IF t \in {Absent, Damaged} THEN TRUE ELSE Len(t) <= MaxSize

TooLarge == pc = "shell" /\ ~CanOpen(file) /\ UNCHANGED vars

\* editor_run after the shell's questions: the file is read, the cursor stands at
\* its end.
Open ==
  /\ pc = "shell" /\ CanOpen(file)
  /\ buffer' = IF file \in {Absent, Damaged} THEN <<>> ELSE file
  /\ missed' = (file = Damaged)
  /\ cursor' = Len(buffer') /\ scroll' = 0 /\ dirty' = FALSE /\ pc' = "draw"
  /\ UNCHANGED <<file, screen, at, faults>>

\* fs_stat or fs_read_file fails: the editor opens with nothing in its buffer.
OpenUnread ==
  /\ pc = "shell" /\ faults > 0 /\ file # Absent
  /\ buffer' = <<>> /\ missed' = TRUE
  /\ cursor' = 0 /\ scroll' = 0 /\ dirty' = FALSE /\ pc' = "draw"
  /\ faults' = faults - 1
  /\ UNCHANGED <<file, screen, at>>

-------------------------------------------------------------------------------
\* editor_render.

Shown(ch) == IF ch = Tab THEN Blank ELSE ch

\* Slip: the text scrolls one line too late.
ScrolledLate(line) ==
  IF line < scroll THEN line
  ELSE IF line > scroll + Rows THEN line - (Rows - 1) ELSE scroll

Scrolled(line) ==
  IF line < scroll THEN line
  ELSE IF line >= scroll + Rows THEN line - (Rows - 1) ELSE scroll

\* What is drawn in a row, the text scrolled by s lines.
Cell(s, r, c) ==
  LET line == s + r - 1
  IN  IF line < LineCount(buffer) /\ Start(buffer, line) + c < LineEnd(buffer, line)
      THEN Shown(buffer[Start(buffer, line) + c + 1])
      ELSE Blank

AtMost(n, limit) == IF n > limit THEN limit ELSE n

Draw ==
  /\ pc = "draw" /\ pc' = "key"
  /\ LET line == LineAt(buffer, cursor)
     IN  /\ scroll' = Scrolled(line)
         /\ at' = <<AtMost(line - scroll', Rows - 1) + 1,
                    AtMost(cursor - Start(buffer, line), Cols - 1)>>
  /\ screen' = [r \in 1..Rows |-> [c \in 0..(Cols - 1) |-> Cell(scroll', r, c)]]
  /\ UNCHANGED <<buffer, cursor, dirty, file, missed, faults>>

-------------------------------------------------------------------------------
\* Keys.

Key == pc = "key" /\ pc' = "draw" /\ UNCHANGED <<scroll, screen, at>>

Insert(ch) ==
  /\ Key
  /\ IF Length < MaxSize
     THEN /\ buffer' = SubSeq(buffer, 1, cursor) \o <<ch>> \o SubSeq(buffer, cursor + 1, Length)
          /\ cursor' = cursor + 1 /\ dirty' = TRUE
     ELSE UNCHANGED <<buffer, cursor, dirty>>
  /\ UNCHANGED <<file, missed, faults>>

Backspace ==
  /\ Key
  /\ IF cursor > 0
     THEN /\ buffer' = SubSeq(buffer, 1, cursor - 1) \o SubSeq(buffer, cursor + 1, Length)
          /\ cursor' = cursor - 1 /\ dirty' = TRUE
     ELSE UNCHANGED <<buffer, cursor, dirty>>
  /\ UNCHANGED <<file, missed, faults>>

Left  == Key /\ cursor' = (IF cursor > 0 THEN cursor - 1 ELSE cursor)
             /\ UNCHANGED <<buffer, dirty, file, missed, faults>>
Right == Key /\ cursor' = (IF cursor < Length THEN cursor + 1 ELSE cursor)
             /\ UNCHANGED <<buffer, dirty, file, missed, faults>>

\* Slip: the column is kept without a look at the length of the line.
LandingFree(line, col) == AtMost(Start(buffer, line) + col, Length)

\* The column is cut to the length of the line.
Landing(line, col) ==
  Start(buffer, line) + AtMost(col, LineEnd(buffer, line) - Start(buffer, line))

\* editor_move_vertical
Vertical(direction) ==
  /\ Key
  /\ LET line == LineAt(buffer, cursor)
         col  == cursor - Start(buffer, line)
     IN  cursor' = IF line + direction \in 0..(LineCount(buffer) - 1)
                   THEN Landing(line + direction, col) ELSE cursor
  /\ UNCHANGED <<buffer, dirty, file, missed, faults>>

\* Slip: the flag is cleared whatever fs_write_file returns.
SaveFailsClean ==
  /\ Key /\ faults > 0 /\ faults' = faults - 1
  /\ file' \in {file, Damaged, buffer} /\ dirty' = FALSE
  /\ missed' = (missed \/ ~dirty)
  /\ UNCHANGED <<buffer, cursor>>

\* Ctrl+S.  When fs_write_file fails the file is what it was, or damaged, or new
\* and complete; the message is wiped by the next drawing.
SaveFails ==
  /\ Key /\ faults > 0 /\ faults' = faults - 1
  /\ file' \in {file, Damaged, buffer}
  /\ missed' = (missed \/ ~dirty)
  /\ UNCHANGED <<buffer, cursor, dirty>>

Save ==
  /\ Key /\ file' = buffer /\ dirty' = FALSE /\ missed' = FALSE
  /\ UNCHANGED <<buffer, cursor, faults>>

\* Ctrl+Q, whether or not there are changes.
Quit ==
  /\ pc = "key" /\ pc' = "shell"
  /\ UNCHANGED <<state, file, screen, at, missed, faults>>

-------------------------------------------------------------------------------
Next ==
  \/ TooLarge \/ Open \/ OpenUnread \/ Draw
  \/ \E ch \in Chars \cup {NL} : Insert(ch)
  \/ Backspace \/ Left \/ Right \/ Vertical(-1) \/ Vertical(1)
  \/ SaveFails \/ Save \/ Quit

Spec == Init /\ [][Next]_vars

-------------------------------------------------------------------------------
\* Properties.

\* Every variable keeps its range; the cursor stays in the buffer and the buffer
\* within its size, whatever is opened.
TypeOK ==
  /\ pc \in {"shell", "draw", "key"}
  /\ buffer \in Text /\ Length <= MaxSize
  /\ cursor \in 0..Length /\ scroll \in 0..MaxSize
  /\ dirty \in BOOLEAN /\ missed \in BOOLEAN
  /\ file \in Text \cup {Absent, Damaged}
  /\ screen \in [1..Rows -> [0..(Cols - 1) -> Chars \cup {NL, Blank}]]
  /\ at \in (1..Rows) \X (0..(Cols - 1))
  /\ faults \in Nat

\* With dirty clear the buffer is what the file holds, through every mixture of
\* edits, saves that fail and moves.  No code reads the flag (Ctrl+Q does not ask):
\* this is what a question before leaving could rest on.  Two exceptions: a file
\* that could not be read, which the editor shows as an empty text and a save
\* overwrites; and a save of an unchanged text that fails, which may damage the file
\* and leaves the flag clear.
CleanMeansSaved ==
  pc # "shell" /\ ~dirty /\ ~missed
    => file = IF file = Absent /\ buffer = <<>> THEN Absent ELSE buffer

\* One newline more than lines are known for: the last line is then taken for a
\* part of the one before it.
TooManyLines == Cardinality(Newlines(buffer)) >= MaxLines

\* Where the line of position p begins, by the newlines alone; the column of p in it.
LineBegin(p) ==
  IF \E i \in Newlines(buffer) : i <= p
  THEN CHOOSE i \in Newlines(buffer) :
         i <= p /\ \A j \in Newlines(buffer) : j <= p => j <= i
  ELSE 0

Column(p)    == p - LineBegin(p)
AtLineEnd(p) == p = Length \/ buffer[p + 1] = NL

\* The console's cursor stands on the character that the next deletion or
\* insertion is about, also after scrolling, wherever a line is not cut at the
\* edge of the screen.
CursorShown ==
  pc = "key" /\ ~TooManyLines =>
    LET under == IF AtLineEnd(cursor) THEN Blank ELSE Shown(buffer[cursor + 1])
    IN  Column(cursor) < Cols =>
          at[2] = Column(cursor) /\ screen[at[1]][at[2]] = under

\* A step by d lines ends d newlines further, in the column it began in or, when the
\* line is shorter, at its end; only where there is no such line the cursor stays.
\* Lines and columns are counted by the newlines of the text, not by the table of
\* line starts, and there must be no more of them than the table holds.
VerticalByLine ==
  [][\A d \in {-1, 1} : Vertical(d) =>
       \/ TooManyLines
       \/ /\ Before(buffer, cursor') = Before(buffer, cursor) + d
          /\ \/ Column(cursor') = Column(cursor)
             \/ Column(cursor') < Column(cursor) /\ AtLineEnd(cursor')
       \/ /\ Before(buffer, cursor) + d \notin 0..Cardinality(Newlines(buffer))
          /\ cursor' = cursor]_vars
===============================================================================
