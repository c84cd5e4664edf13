------------------------------- MODULE Terminal -------------------------------
(***************************************************************************)
(* From the keys to the screen: the PS/2 keyboard and its buffer, the      *)
(* decoder of src/src/keyboard.c, and the line editing of shell_run in     *)
(* src/src/shell.c on the console.                                         *)
(*                                                                         *)
(* The keyboard goes on while the kernel works.  The decoder sees one byte *)
(* at a time and remembers what it must between them.  What commands do is *)
(* the matter of other modules; here they print, clear the screen, ask a   *)
(* question or run the editor, which reads the same keys.                  *)
(***************************************************************************)
EXTENDS Console

CONSTANTS
  LineSize,       \* the size of shell_run's line
  Outputs,        \* what commands print
  BufferSize,     \* the bytes that wait in the keyboard's buffer
  MaxEvents       \* bound: keys that go down or up

ASSUME TerminalAssumption ==
  /\ LineSize \in Nat \ {0} /\ BufferSize \in Nat /\ MaxEvents \in Nat
  /\ Outputs \subseteq Seq(STRING)

VARIABLES
  held, queue, events,        \* the keyboard: keys down, bytes waiting
  shift, ctrl, prefix,        \* shift_down, ctrl_down, extended_prefix
  pc, line, con,              \* who reads the keys, his line, the screen
  slipped,                    \* history: a deletion in column 0 has erased nothing
  due,                        \* history: what the keys should come to
  lost,                       \* history: the flags whose last byte was lost
  half                        \* history: one shift is held, the other was let go since

keyboard == <<held, queue, events>>
decoder  == <<shift, ctrl, prefix>>
reader   == <<pc, line, con, slipped>>
vars     == <<keyboard, decoder, reader, due, lost, half>>

Letters   == {"n", "y", "q"}          \* n stands for all keys that shift changes
Shifts    == {"lshift", "rshift"}
Extended  == {"rctrl", "up"}          \* keys that send E0 first
Typing    == Letters \cup {"enter", "back"}
Keys      == Typing \cup Shifts \cup {"lctrl"} \cup Extended

\* The right control key has the code of the left one.
Code(k) == IF k = "rctrl" THEN "lctrl" ELSE k

Byte(code, up) == [code |-> code, up |-> up]
E0     == Byte("E0", FALSE)
Answer == Byte("answer", TRUE)        \* 0xFA

Bytes(k, up) == (IF k \in Extended THEN <<E0>> ELSE <<>>) \o <<Byte(Code(k), up)>>

\* translate_scancode
Translate(code, shifted) ==
  CASE code = "enter"             -> NL
    [] code = "back"              -> BS
    [] code = "n" /\ shifted      -> "N"
    [] OTHER                      -> code

Characters == Letters \cup {"N"}

Prompt   == <<">">>
Question == <<"?">>

Init ==
  /\ held = {} /\ queue = <<>> /\ events = MaxEvents
  /\ shift = FALSE /\ ctrl = FALSE /\ prefix = FALSE
  /\ pc = "drain" /\ line = <<>> /\ con = Cleared /\ slipped = FALSE
  /\ due = <<>> /\ lost = {} /\ half = FALSE

-------------------------------------------------------------------------------
\* The keyboard.  A key that is held goes down again and again.  A key for whose
\* bytes there is no room is lost; a flag it stands for is wrong until the next
\* byte for that flag.

Flags == {"shift", "ctrl"}

FlagOf(k) == {f \in Flags : IF f = "shift" THEN k \in Shifts ELSE k = "lctrl"}

Fits(k) == Len(queue \o Bytes(k, FALSE)) <= BufferSize

Send(k, up) ==
  /\ events > 0 /\ events' = events - 1
  /\ IF Fits(k)
     THEN queue' = queue \o Bytes(k, up) /\ lost' = lost \ FlagOf(k)
     ELSE lost' = lost \cup FlagOf(k) /\ UNCHANGED queue
  /\ UNCHANGED <<decoder, reader>>

\* A shift key is held, and none was let go since it went down.
Shifted == held \cap Shifts # {} /\ ~half

Press(k) ==
  /\ Send(k, FALSE)
  /\ held' = held \cup {k}
  /\ half' = (half /\ k \notin Shifts)
  /\ due' = IF k \in Typing /\ Fits(k)
            THEN Append(due, [key |-> k, shift |-> Shifted, ctrl |-> "lctrl" \in held, lost |-> lost])
            ELSE due

Release(k) ==
  /\ k \in held
  /\ Send(k, TRUE)
  /\ held' = held \ {k}
  /\ half' = IF k \in Shifts THEN held' \cap Shifts # {} ELSE half
  /\ UNCHANGED due

-------------------------------------------------------------------------------
\* keyboard_init.

\* What was typed before is thrown away.
Drain ==
  /\ pc = "drain" /\ pc' = "enable"
  /\ queue' = <<>> /\ due' = <<>>
  /\ lost' = IF queue = <<>> THEN lost ELSE Flags
  /\ UNCHANGED <<held, events, decoder, line, con, slipped, half>>

\* Scanning is enabled, and one byte is taken for the keyboard's answer.  When it
\* is another one its key is lost, and the flags may be wrong for those that wait.
Enable ==
  /\ pc = "enable" /\ pc' = "line"
  /\ queue' = Tail(Append(queue, Answer))
  /\ IF queue = <<>> THEN UNCHANGED <<due, lost>>
     ELSE LET rest == IF Head(queue).code \in Typing /\ ~Head(queue).up THEN Tail(due) ELSE due
          IN  /\ due' = [i \in DOMAIN rest |-> [rest[i] EXCEPT !.lost = Flags]]
              /\ lost' = Flags
  /\ con' = Write(con, Prompt)
  /\ UNCHANGED <<held, events, decoder, line, slipped, half>>

-------------------------------------------------------------------------------
\* keyboard_get_event, one byte at a time.

Reading == pc \in {"line", "ask", "editor"}

Next1 == Head(queue)

Take == Reading /\ queue # <<>> /\ queue' = Tail(queue) /\ UNCHANGED <<held, events, lost, half>>

\* keyboard_read_scancode waits.
Waits == Reading /\ queue = <<>> /\ UNCHANGED vars

ReadPrefix ==
  /\ Take /\ Next1 = E0
  /\ prefix' = TRUE
  /\ UNCHANGED <<shift, ctrl, reader, due>>

\* Slip: the prefix is forgotten only when the key goes down.
ReadExtendedKept ==
  /\ Take /\ Next1 # E0 /\ prefix
  /\ prefix' = Next1.up
  /\ UNCHANGED <<shift, ctrl, reader, due>>

\* An arrow, which only the editor looks at, or a key without a meaning.
ReadExtended ==
  /\ Take /\ Next1 # E0 /\ prefix
  /\ prefix' = FALSE
  /\ UNCHANGED <<shift, ctrl, reader, due>>

Plain == Take /\ Next1 # E0 /\ ~prefix /\ UNCHANGED prefix

\* Slip: a shift key changes the state whichever way it moves.
ReadShiftToggles ==
  /\ Plain /\ Next1.code \in Shifts
  /\ shift' = ~shift
  /\ UNCHANGED <<ctrl, reader, due>>

\* One flag for two keys.
ReadShift ==
  /\ Plain /\ Next1.code \in Shifts
  /\ shift' = ~Next1.up
  /\ UNCHANGED <<ctrl, reader, due>>

ReadCtrl ==
  /\ Plain /\ Next1.code = "lctrl"
  /\ ctrl' = ~Next1.up
  /\ UNCHANGED <<shift, reader, due>>

\* A key that goes up, or has no character.
ReadNothing ==
  /\ Plain /\ Next1.code \notin Shifts \cup {"lctrl"}
  /\ Next1.up \/ Next1.code \notin Typing
  /\ UNCHANGED <<shift, ctrl, reader, due>>

\* The event that is returned.
Event == [ch |-> Translate(Next1.code, shift), ctrl |-> ctrl]

-------------------------------------------------------------------------------
\* Who reads it.

\* The next round of shell_run, the screen being s.
PromptOn(s) == pc' = "line" /\ line' = <<>> /\ con' = Write(s, Prompt) /\ slipped' = FALSE

\* handle_command, after the newline: the screen is s.
Handle(s) ==
  \/ PromptOn(s)
  \/ line # <<>> /\ PromptOn(Cleared)
  \/ line # <<>> /\ \E text \in Outputs : PromptOn(Write(s, Append(text, NL)))
  \/ line # <<>> /\ PromptOn(Write(s, Append(line, NL)))
  \/ line # <<>> /\ pc' = "ask" /\ con' = Write(s, Question) /\ UNCHANGED <<line, slipped>>

\* Slip: a line may fill its array.
RoomFull == Len(line) < LineSize

\* The last place is for the end of the string.
Room == Len(line) + 1 < LineSize

\* shell_run
Edit(ch) ==
  CASE ch = NL -> Handle(Putc(con, NL))
    [] ch = BS -> /\ UNCHANGED pc
                  /\ IF line = <<>> THEN UNCHANGED <<line, con, slipped>>
                     ELSE /\ line' = SubSeq(line, 1, Len(line) - 1)
                          /\ con' = Putc(con, BS)
                          /\ slipped' = (slipped \/ con.col = 0)
    [] OTHER   -> /\ UNCHANGED <<pc, slipped>>
                  /\ IF Room THEN line' = Append(line, ch) /\ con' = Putc(con, ch)
                             ELSE UNCHANGED <<line, con>>

\* prompt_yes_no in the command ink/write.  The editor draws where it likes.
Reply(ch) ==
  CASE ch = "y"          -> /\ pc' = "editor"
                            /\ con' = Moved(Write(Cleared, <<"e">>), Height - 1, 0)
                            /\ UNCHANGED <<line, slipped>>
    [] ch \in {"n", "N"} -> PromptOn(Write(con, <<ch, NL>>))
    [] OTHER             -> UNCHANGED reader

\* editor_run, which leaves a clear screen.
EditorKey(e) ==
  IF e.ctrl /\ e.ch = "q" THEN PromptOn(Cleared) ELSE UNCHANGED reader

ReadCharacter ==
  /\ Plain /\ Next1.code \in Typing /\ ~Next1.up
  /\ CASE pc = "line"   -> Edit(Event.ch)
       [] pc = "ask"    -> Reply(Event.ch)
       [] pc = "editor" -> EditorKey(Event)
  /\ due' = IF due = <<>> THEN due ELSE Tail(due)
  /\ UNCHANGED <<shift, ctrl>>

-------------------------------------------------------------------------------
Next ==
  \/ \E k \in Keys : Press(k) \/ Release(k)
  \/ Drain \/ Enable \/ Waits
  \/ ReadPrefix \/ ReadExtended \/ ReadShift \/ ReadCtrl \/ ReadNothing \/ ReadCharacter

Spec == Init /\ [][Next]_vars

-------------------------------------------------------------------------------
\* Properties.

\* Every variable keeps its range: the cursor stays on the screen, the line in its
\* array with room for the end of the string.
TypeOK ==
  /\ held \subseteq Keys /\ Len(queue) <= BufferSize /\ events \in 0..MaxEvents
  /\ \A i \in DOMAIN queue : queue[i] \in [code : Keys \cup {"E0", "answer"}, up : BOOLEAN]
  /\ {shift, ctrl, prefix, slipped, half} \subseteq BOOLEAN /\ lost \subseteq Flags
  /\ pc \in {"drain", "enable", "line", "ask", "editor"}
  /\ Len(line) < LineSize /\ \A i \in DOMAIN line : line[i] \in Characters
  /\ con.row \in 0..(Height - 1) /\ con.col \in 0..(Width - 1)
  /\ DOMAIN con.cell = Cells

\* When all bytes are read no character is missing and no prefix is left over, and
\* the decoder's flags tell what is held down, whatever keys were interleaved and
\* repeated.  Exceptions: a flag may be wrong when the last byte for it was lost,
\* until the next one; and the flag of the shifts is one for two keys, so with one
\* shift still held it is clear when the other has been let go (keyboard.c:146-149),
\* until a shift goes down again.
FlagsTrue ==
  queue = <<>> =>
    /\ ~prefix /\ due = <<>>
    /\ "shift" \notin lost => shift = Shifted
    /\ "ctrl" \notin lost => ctrl = ("lctrl" \in held)

\* A character is returned only for the key that is due: in the order in which the
\* keys went down, without exception.  It has the shift and control keys as they
\* were then, although the decoder reads it later and bytes of other keys lie
\* between, with the exceptions of FlagsTrue: a flag whose last byte was lost before,
\* and a shift held after the other one was let go, with which the code returns the
\* unshifted character.
KeysInOrder ==
  [][ReadCharacter =>
       /\ due # <<>> /\ Next1.code = Head(due).key
       /\ "shift" \notin Head(due).lost => Event.ch = Translate(Next1.code, Head(due).shift)
       /\ "ctrl" \notin Head(due).lost => Event.ctrl = Head(due).ctrl]_vars

\* While a line is edited the cells before the cursor show the prompt and the
\* line, as far as the screen reaches, and those after it are blank: through wraps,
\* scrolling, clearing and the editor.  Exception: a deletion with the cursor in
\* the first column shortens the line and erases nothing.
LineShown ==
  LET text == Prompt \o line
      here == Place(con)
  IN  pc = "line" /\ ~slipped =>
        \A i \in Cells :
          IF i >= here THEN con.cell[i] = Blank
          ELSE Len(text) + i - here >= 0 =>
                 con.cell[i] = text[Len(text) + 1 + i - here]
===============================================================================
