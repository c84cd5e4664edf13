---------------------------- MODULE Terminal_proofs ---------------------------
(***************************************************************************)
(* The decoder follows the keyboard: for any number of keys, in any order  *)
(* and at any speed, its characters are those of the keys in the order in  *)
(* which they went down, and its flags are true, but for a flag whose last *)
(* byte was lost and for a second shift.  And the screen shows the prompt  *)
(* and the line that is edited, for screens, lines and outputs of every    *)
(* size.                                                                   *)
(***************************************************************************)
EXTENDS Terminal, TLAPS, SequenceTheorems, WellFoundedInduction

-------------------------------------------------------------------------------
\* The decoder's way through the bytes that wait.

Sent == {E0, Answer} \cup [code : Keys, up : BOOLEAN]
Dues == [key : Typing, shift : BOOLEAN, ctrl : BOOLEAN, lost : SUBSET Flags]

\* The byte at place i is a character to the decoder: no prefix precedes one.
IsCharacter(i) == queue[i].code \in Typing /\ queue[i].up = FALSE

\* The byte at place i, read with the flags s and c, is what d says.
Matches(d, i, s, c) ==
  /\ d.key = queue[i].code
  /\ "shift" \notin d.lost => (d.shift = TRUE <=> s)
  /\ "ctrl" \notin d.lost => (d.ctrl = TRUE <=> c)

\* What the byte at place i does to the flags.
FlagsAt(S, C, P, i) ==
  /\ i \in P <=> queue[i] = E0
  /\ i - 1 \in P => queue[i].code \notin Typing
  /\ i \in S <=> IF i - 1 \notin P /\ queue[i].code \in Shifts
                 THEN queue[i].up = FALSE ELSE i - 1 \in S
  /\ i \in C <=> IF i - 1 \notin P /\ queue[i].code = "lctrl"
                 THEN queue[i].up = FALSE ELSE i - 1 \in C

\* S, C and P are the numbers of bytes after which the shift flag, the control
\* flag and the prefix will be set; N counts the characters.
OneByte(S, C, P, N, i) ==
  /\ FlagsAt(S, C, P, i)
  /\ IF IsCharacter(i)
     THEN /\ N[i] = N[i - 1] + 1 /\ N[i] <= Len(due)
          /\ Matches(due[N[i]], i, i - 1 \in S, i - 1 \in C)
     ELSE N[i] = N[i - 1]

\* At the end of the bytes the flags whose bytes were sent will be as the keys are
\* now, and every character that is due will have been returned.
AtTheEnd(S, C, P, N, n) ==
  /\ n \notin P
  /\ "ctrl" \notin lost => (n \in C <=> "lctrl" \in held)
  /\ "shift" \notin lost => (n \in S <=> Shifted)
  /\ N[n] = Len(due)

Follows(S, C, P, N) ==
  /\ 0 \in S <=> shift = TRUE
  /\ 0 \in C <=> ctrl = TRUE
  /\ 0 \in P <=> prefix = TRUE
  /\ N[0] = 0
  /\ \A i, j \in 0..Len(queue) : i <= j => N[i] <= N[j]
  /\ \A i \in 1..Len(queue) : OneByte(S, C, P, N, i)
  /\ AtTheEnd(S, C, P, N, Len(queue))

Ways == SUBSET (0..Len(queue))

\* The decoder finds a way through the bytes, whatever was lost.
HasAWay == \E S, C, P \in Ways, N \in [0..Len(queue) -> Nat] : Follows(S, C, P, N)

DecoderTypes ==
  /\ queue \in Seq(Sent) /\ due \in Seq(Dues) /\ held \subseteq Keys
  /\ shift \in BOOLEAN /\ ctrl \in BOOLEAN /\ prefix \in BOOLEAN
  /\ lost \subseteq Flags /\ half \in BOOLEAN

Starting == pc \in {"drain", "enable"}

DecoderInv ==
  /\ DecoderTypes
  /\ Starting => prefix = FALSE
  /\ HasAWay

LEMMA SameTruth ==
  ASSUME NEW a \in BOOLEAN, NEW b \in BOOLEAN, a = TRUE <=> b = TRUE
  PROVE  a = b
OBVIOUS

LEMMA SentFields ==
  ASSUME NEW b \in Sent
  PROVE  b.up \in BOOLEAN /\ b.code \in Keys \cup {"E0", "answer"}
<1>1. CASE b = E0
  BY <1>1 DEF E0, Byte
<1>2. CASE b = Answer
  BY <1>2 DEF Answer, Byte
<1>3. CASE b \in [code : Keys, up : BOOLEAN]
  BY <1>3
<1>4. QED
  BY <1>1, <1>2, <1>3 DEF Sent

LEMMA DecoderInit == Init => DecoderInv
<1> SUFFICES ASSUME Init PROVE DecoderInv
  OBVIOUS
<1>1. /\ queue = <<>> /\ due = <<>> /\ held = {} /\ shift = FALSE /\ ctrl = FALSE
      /\ prefix = FALSE /\ lost = {} /\ half = FALSE
  BY DEF Init
<1>2. queue \in Seq(Sent) /\ due \in Seq(Dues) /\ Len(queue) = 0 /\ Len(due) = 0
  BY <1>1, EmptySeq
<1>3. held \subseteq Keys /\ lost \subseteq Flags /\ ~Shifted
  BY <1>1 DEF Shifted
<1>4. PICK N : N = [i \in 0..0 |-> 0]
  OBVIOUS
<1>5. N \in [0..Len(queue) -> Nat] /\ N[0] = 0
  BY <1>2, <1>4
<1>6. {} \in Ways
  BY DEF Ways
<1>7. Follows({}, {}, {}, N)
  BY <1>1, <1>2, <1>3, <1>5 DEF Follows, AtTheEnd
<1>8. HasAWay
  BY <1>5, <1>6, <1>7 DEF HasAWay
<1>9. QED
  BY <1>1, <1>2, <1>3, <1>8 DEF DecoderInv, DecoderTypes

-------------------------------------------------------------------------------
\* What the invariant says of the next byte, and of none.

LEMMA NoBytes ==
  ASSUME DecoderInv, queue = <<>>
  PROVE  FlagsTrue
<1>1. PICK S, C, P \in Ways, N \in [0..Len(queue) -> Nat] : Follows(S, C, P, N)
  BY DEF DecoderInv, HasAWay
<1>2. Len(queue) = 0
  BY EmptySeq
<1>3. AtTheEnd(S, C, P, N, 0)
  BY <1>1, <1>2 DEF Follows
<1>4. /\ shift \in BOOLEAN /\ ctrl \in BOOLEAN /\ prefix \in BOOLEAN /\ due \in Seq(Dues)
  BY DEF DecoderInv, DecoderTypes
<1>5. Len(due) = 0
  BY <1>1, <1>3 DEF Follows, AtTheEnd
<1>6. due = <<>>
  BY <1>4, <1>5, EmptySeq
<1>7. prefix = FALSE
  BY <1>1, <1>3, <1>4 DEF Follows, AtTheEnd
<1>8. /\ "ctrl" \notin lost => (ctrl = TRUE <=> "lctrl" \in held)
      /\ "shift" \notin lost => (shift = TRUE <=> Shifted)
  BY <1>1, <1>3 DEF Follows, AtTheEnd
<1>9. "ctrl" \notin lost => ctrl = ("lctrl" \in held)
  BY <1>4, <1>8, SameTruth
<1>10. "shift" \notin lost => shift = Shifted
  <2>1. Shifted \in BOOLEAN
    BY DEF Shifted
  <2>2. QED
    BY <1>4, <1>8, <2>1, SameTruth
<1>11. ~prefix
  BY <1>7
<1>12. QED
  BY <1>6, <1>9, <1>10, <1>11, Zenon DEF FlagsTrue

\* A character that is returned is the one that is due.
IsDue ==
  /\ due # <<>> /\ Next1.code = Head(due).key
  /\ "shift" \notin Head(due).lost => Event.ch = Translate(Next1.code, Head(due).shift)
  /\ "ctrl" \notin Head(due).lost => Event.ctrl = Head(due).ctrl

LEMMA CharacterIsDue ==
  ASSUME DecoderInv, ReadCharacter
  PROVE  IsDue
<1>1. PICK S, C, P \in Ways, N \in [0..Len(queue) -> Nat] : Follows(S, C, P, N)
  BY DEF DecoderInv, HasAWay
<1>2. /\ queue \in Seq(Sent) /\ due \in Seq(Dues) /\ queue # <<>>
      /\ shift \in BOOLEAN /\ ctrl \in BOOLEAN /\ prefix = FALSE
      /\ Next1.code \in Typing /\ ~Next1.up
  BY DEF DecoderInv, DecoderTypes, ReadCharacter, Plain, Take
<1>3. Next1 = queue[1] /\ 1 \in 1..Len(queue) /\ Next1.up \in BOOLEAN
  <2>1. Next1 = queue[1] /\ 1 \in 1..Len(queue)
    BY <1>2 DEF Next1
  <2>2. Next1 \in Sent
    BY <1>2, <2>1, ElementOfSeq
  <2>3. Next1.up \in BOOLEAN
    BY <2>2, SentFields
  <2>4. QED
    BY <2>1, <2>3
<1>4. OneByte(S, C, P, N, 1) /\ N[0] = 0 /\ 1 - 1 = 0
  BY <1>1, <1>3 DEF Follows
<1>5. IsCharacter(1)
  BY <1>2, <1>3 DEF IsCharacter
<1>6. /\ N[1] = 1 /\ 1 <= Len(due)
      /\ Matches(due[1], 1, 0 \in S, 0 \in C)
  BY <1>4, <1>5 DEF OneByte
<1>7. due # <<>> /\ Head(due) = due[1] /\ due[1] \in Dues
  BY <1>2, <1>6, ElementOfSeq
<1>8. PICK d : d = due[1]
  OBVIOUS
<1>9. d.shift \in BOOLEAN /\ d.ctrl \in BOOLEAN
  BY <1>7, <1>8 DEF Dues
<1>10. /\ d.key = Next1.code
       /\ "shift" \notin d.lost => (d.shift = TRUE <=> shift = TRUE)
       /\ "ctrl" \notin d.lost => (d.ctrl = TRUE <=> ctrl = TRUE)
  <2>1. (0 \in C <=> ctrl = TRUE) /\ (0 \in S <=> shift = TRUE)
    BY <1>1 DEF Follows
  <2>2. QED
    BY <1>3, <1>6, <1>8, <2>1, Zenon DEF Matches
<1>11. /\ "shift" \notin d.lost => d.shift = shift
       /\ "ctrl" \notin d.lost => d.ctrl = ctrl
  BY <1>2, <1>9, <1>10, SameTruth
<1>12. "shift" \notin d.lost => Event.ch = Translate(Next1.code, d.shift)
  BY <1>11, Zenon DEF Event
<1>13. "ctrl" \notin d.lost => Event.ctrl = d.ctrl
  BY <1>11, Zenon DEF Event
<1>14. QED
  BY <1>7, <1>8, <1>10, <1>12, <1>13, Zenon DEF IsDue
-------------------------------------------------------------------------------
\* Reading a byte.

\* The next byte is a character to the decoder.
TakesCharacter == prefix = FALSE /\ queue[1].code \in Typing /\ queue[1].up = FALSE

\* One byte is taken and understood.
Takes ==
  /\ queue # <<>> /\ queue' = Tail(queue) /\ UNCHANGED <<held, lost, half>> /\ ~Starting'
  /\ shift' \in BOOLEAN /\ ctrl' \in BOOLEAN /\ prefix' \in BOOLEAN
  /\ prefix' = TRUE <=> queue[1] = E0
  /\ shift' = TRUE <=> IF prefix = FALSE /\ queue[1].code \in Shifts
                       THEN queue[1].up = FALSE ELSE shift = TRUE
  /\ ctrl' = TRUE <=> IF prefix = FALSE /\ queue[1].code = "lctrl"
                      THEN queue[1].up = FALSE ELSE ctrl = TRUE
  /\ \/ TakesCharacter /\ due' = (IF due = <<>> THEN due ELSE Tail(due))
     \/ ~TakesCharacter /\ due' = due

LEMMA TakeStep ==
  ASSUME DecoderInv, Takes
  PROVE  DecoderInv'
<1>1. /\ queue \in Seq(Sent) /\ due \in Seq(Dues)
      /\ queue # <<>> /\ queue' = Tail(queue) /\ held' = held /\ lost' = lost /\ half' = half
      /\ Shifted' = Shifted
  BY DEF DecoderInv, DecoderTypes, Takes, Shifted
<1>2. PICK m : m = Len(queue)
  OBVIOUS
<1>3. m \in Nat /\ m >= 1 /\ queue' \in Seq(Sent) /\ Len(queue') = m - 1
  BY <1>1, <1>2, HeadTailProperties, EmptySeq
<1>4. due' \in Seq(Dues)
  BY <1>1, HeadTailProperties DEF Takes
<1>5. HasAWay'
  <2>1. PICK S, C, P \in Ways, N \in [0..Len(queue) -> Nat] : Follows(S, C, P, N)
    BY DEF DecoderInv, HasAWay
  <2>2. PICK S1, C1, P1 : /\ S1 = {i \in 0..(m - 1) : i + 1 \in S}
                          /\ C1 = {i \in 0..(m - 1) : i + 1 \in C}
                          /\ P1 = {i \in 0..(m - 1) : i + 1 \in P}
    OBVIOUS
  <2>3. PICK N1 : N1 = [i \in 0..(m - 1) |-> N[i + 1] - N[1]]
    OBVIOUS
  <2>4. /\ 0 \in S <=> shift = TRUE
        /\ 0 \in C <=> ctrl = TRUE
        /\ 0 \in P <=> prefix = TRUE
        /\ N[0] = 0
        /\ \A i, j \in 0..m : i <= j => N[i] <= N[j]
        /\ \A i \in 1..m : OneByte(S, C, P, N, i)
        /\ AtTheEnd(S, C, P, N, m)
    BY <1>2, <2>1 DEF Follows
  <2>5. \A i \in 0..m : N[i] \in Nat
    BY <1>2
  <2>6. OneByte(S, C, P, N, 1) /\ 1 - 1 = 0
    BY <1>3, <2>4
  <2>7. IsCharacter(1) <=> TakesCharacter
    BY <2>4, <2>6 DEF OneByte, FlagsAt, IsCharacter, TakesCharacter, DecoderInv, DecoderTypes
  <2>8. \/ TakesCharacter /\ N[1] = 1 /\ due' = Tail(due) /\ Len(due) >= 1
        \/ ~TakesCharacter /\ N[1] = 0 /\ due' = due
    <3>1. CASE TakesCharacter
      <4>1. N[1] = 1 /\ 1 <= Len(due)
        BY <3>1, <2>4, <2>6, <2>7 DEF OneByte
      <4>2. due # <<>>
        BY <4>1, EmptySeq
      <4>3. due' = Tail(due)
        BY <3>1, <4>2 DEF Takes
      <4>4. QED
        BY <1>1, <3>1, <4>1, <4>3
    <3>2. CASE ~TakesCharacter
      <4>1. N[1] = 0
        BY <3>2, <2>4, <2>6, <2>7 DEF OneByte
      <4>2. QED
        BY <3>2, <4>1 DEF Takes
    <3>3. QED
      BY <3>1, <3>2
  <2>9. N[1] \in 0..1 /\ Len(due') = Len(due) - N[1] /\ Len(due) \in Nat
        /\ \A x \in 1..Len(due) : x > N[1] => due'[x - N[1]] = due[x]
    <3>1. CASE TakesCharacter /\ N[1] = 1 /\ due' = Tail(due) /\ Len(due) >= 1
      <4>1. due # <<>> /\ Len(due) \in Nat
        BY <1>1, <3>1, EmptySeq
      <4>2. Len(due') = Len(due) - 1 /\ \A i \in 1..Len(due') : due'[i] = due[i + 1]
        BY <1>1, <3>1, <4>1, HeadTailProperties
      <4>3. ASSUME NEW x \in 1..Len(due), x > 1 PROVE due'[x - 1] = due[x]
        <5>1. x - 1 \in 1..Len(due') /\ (x - 1) + 1 = x
          BY <4>1, <4>2, <4>3
        <5>2. QED
          BY <4>2, <5>1
      <4>4. QED
        BY <3>1, <4>1, <4>2, <4>3
    <3>2. CASE ~TakesCharacter /\ N[1] = 0 /\ due' = due
      <4>1. Len(due) \in Nat
        BY <1>1, LenProperties
      <4>2. QED
        BY <3>2, <4>1
    <3>3. QED
      BY <2>8, <3>1, <3>2
  <2>10. N1 \in [0..(m - 1) -> Nat]
    <3>1. ASSUME NEW i \in 0..(m - 1) PROVE N[i + 1] - N[1] \in Nat
      <4>1. i + 1 \in 0..m /\ 1 \in 0..m /\ 1 <= i + 1
        BY <1>3
      <4>2. N[1] <= N[i + 1] /\ N[i + 1] \in Nat /\ N[1] \in Nat
        BY <2>4, <2>5, <4>1
      <4>3. QED
        BY <4>2
    <3>2. QED
      BY <2>3, <3>1
  <2>11. /\ 0 \in S1 <=> shift' = TRUE
         /\ 0 \in C1 <=> ctrl' = TRUE
         /\ 0 \in P1 <=> prefix' = TRUE
         /\ N1[0] = 0
    <3>1. 0 \in 0..(m - 1) /\ 0 + 1 = 1 /\ N[1] - N[1] = 0
      BY <1>3, <2>9
    <3>2. (0 \in S1 <=> 1 \in S) /\ (0 \in C1 <=> 1 \in C) /\ (0 \in P1 <=> 1 \in P)
      BY <2>2, <3>1
    <3>3. N1[0] = 0
      BY <2>3, <3>1
    <3>4. 0 \notin P <=> prefix = FALSE
      BY <2>4 DEF DecoderInv, DecoderTypes
    <3>5. 1 \in P <=> prefix' = TRUE
      BY <2>6 DEF OneByte, FlagsAt, Takes
    <3>6. 1 \in S <=> shift' = TRUE
      BY <2>4, <2>6, <3>4 DEF OneByte, FlagsAt, Takes
    <3>7. 1 \in C <=> ctrl' = TRUE
      BY <2>4, <2>6, <3>4 DEF OneByte, FlagsAt, Takes
    <3>8. QED
      BY <3>2, <3>3, <3>5, <3>6, <3>7
  <2>12. \A i, j \in 0..(m - 1) : i <= j => N1[i] <= N1[j]
    <3>1. TAKE i, j \in 0..(m - 1)
    <3>2. HAVE i <= j
    <3>3. i + 1 \in 0..m /\ j + 1 \in 0..m /\ i + 1 <= j + 1 /\ 1 \in 0..m
      BY <1>3, <3>2
    <3>4. N[i + 1] <= N[j + 1] /\ N[i + 1] \in Nat /\ N[j + 1] \in Nat /\ N[1] \in Nat
      BY <2>4, <2>5, <3>3
    <3>5. N1[i] = N[i + 1] - N[1] /\ N1[j] = N[j + 1] - N[1]
      BY <2>3
    <3>6. QED
      BY <3>4, <3>5
  <2>13. ASSUME NEW i \in 1..(m - 1) PROVE OneByte(S1, C1, P1, N1, i)'
    <3>1. PICK k : k = i + 1
      OBVIOUS
    <3>2. /\ k \in 1..m /\ k - 1 = i /\ i \in 0..(m - 1) /\ i - 1 \in 0..(m - 1)
          /\ (i - 1) + 1 = i /\ i \in 1..m /\ i \in 0..m /\ k \in 0..m /\ 1 \in 0..m /\ 1 <= i
      BY <1>3, <3>1
    <3>3. OneByte(S, C, P, N, k)
      BY <2>4, <3>2
    <3>4. queue'[i] = queue[k]
      BY <1>1, <1>2, <1>3, <3>1, <3>2, HeadTailProperties
    <3>5. /\ i \in S1 <=> k \in S
          /\ i \in C1 <=> k \in C
          /\ i \in P1 <=> k \in P
      BY <2>2, <3>1, <3>2
    <3>6. /\ i - 1 \in S1 <=> k - 1 \in S
          /\ i - 1 \in C1 <=> k - 1 \in C
          /\ i - 1 \in P1 <=> k - 1 \in P
      BY <2>2, <3>2
    <3>7. N1[i] = N[k] - N[1] /\ N1[i - 1] = N[k - 1] - N[1]
      BY <2>3, <3>1, <3>2
    <3>8. N[k] \in Nat /\ N[k - 1] \in Nat /\ N[1] \in Nat /\ N[1] <= N[k - 1]
      BY <2>4, <2>5, <3>2
    <3>9. IsCharacter(i)' <=> IsCharacter(k)
      BY <3>4 DEF IsCharacter
    <3>10. FlagsAt(S1, C1, P1, i)'
      BY <3>3, <3>4, <3>5, <3>6 DEF OneByte, FlagsAt
    <3>11. CASE IsCharacter(k)
      <4>1. /\ N[k] = N[k - 1] + 1 /\ N[k] <= Len(due)
            /\ Matches(due[N[k]], k, k - 1 \in S, k - 1 \in C)
        BY <3>3, <3>11 DEF OneByte
      <4>2. N1[i] = N1[i - 1] + 1 /\ N1[i] <= Len(due')
        BY <2>9, <3>7, <3>8, <4>1
      <4>3. due'[N1[i]] = due[N[k]]
        <5>1. N[k] \in 1..Len(due) /\ N[k] > N[1]
          BY <2>9, <3>8, <4>1
        <5>2. QED
          BY <2>9, <3>7, <5>1
      <4>4. Matches(due[N1[i]], i, i - 1 \in S1, i - 1 \in C1)'
        BY <3>4, <3>6, <4>1, <4>3, Zenon DEF Matches
      <4>5. QED
        BY <3>9, <3>10, <3>11, <4>2, <4>4, Zenon DEF OneByte
    <3>12. CASE ~IsCharacter(k)
      <4>1. N1[i] = N1[i - 1]
        BY <3>3, <3>7, <3>12 DEF OneByte
      <4>2. QED
        BY <3>9, <3>10, <3>12, <4>1, Zenon DEF OneByte
    <3>13. QED
      BY <3>11, <3>12
  <2>14. AtTheEnd(S1, C1, P1, N1, m - 1)'
    <3>1. m - 1 \in 0..(m - 1) /\ (m - 1) + 1 = m /\ m \in 0..m
      BY <1>3
    <3>2. /\ m - 1 \in S1 <=> m \in S
          /\ m - 1 \in C1 <=> m \in C
          /\ m - 1 \in P1 <=> m \in P
          /\ N1[m - 1] = N[m] - N[1]
      BY <2>2, <2>3, <3>1
    <3>3. N1[m - 1] = Len(due')
      BY <2>4, <2>9, <3>2 DEF AtTheEnd
    <3>4. QED
      BY <1>1, <2>4, <3>2, <3>3 DEF AtTheEnd
  <2>15. Follows(S1, C1, P1, N1)'
    BY <1>3, <2>11, <2>12, <2>13, <2>14 DEF Follows
  <2>16. S1 \in Ways' /\ C1 \in Ways' /\ P1 \in Ways' /\ N1 \in [0..Len(queue') -> Nat]
    BY <1>3, <2>2, <2>10 DEF Ways
  <2>17. QED
    BY <2>15, <2>16 DEF HasAWay
<1>6. QED
  BY <1>1, <1>3, <1>4, <1>5 DEF DecoderInv, DecoderTypes, Takes
-------------------------------------------------------------------------------
\* Bytes that are added.

\* The new byte b: the character it makes due, and the flags that are known after it.
Adds(b) ==
  /\ b \in Sent /\ b # E0
  /\ IF b.code \in Typing /\ b.up = FALSE
     THEN \E e \in Dues : /\ due' = Append(due, e) /\ e.key = b.code /\ e.lost = lost
                          /\ e.ctrl = TRUE <=> "lctrl" \in held
                          /\ e.shift = TRUE <=> Shifted
     ELSE due' = due
  /\ "ctrl" \notin lost' =>
       IF b.code = "lctrl" THEN "lctrl" \in held' <=> b.up = FALSE
       ELSE "ctrl" \notin lost /\ ("lctrl" \in held' <=> "lctrl" \in held)
  /\ "shift" \notin lost' =>
       IF b.code \in Shifts THEN Shifted' <=> b.up = FALSE
       ELSE "shift" \notin lost /\ (Shifted' <=> Shifted)

\* A key with one byte.
LEMMA OneMore ==
  ASSUME DecoderInv, UNCHANGED <<shift, ctrl, prefix>>,
         NEW b, queue' = Append(queue, b), Adds(b)
  PROVE  HasAWay'
<1>1. PICK S, C, P \in Ways, N \in [0..Len(queue) -> Nat] : Follows(S, C, P, N)
  BY DEF DecoderInv, HasAWay
<1>2. PICK m, n : m = Len(queue) /\ n = m + 1
  OBVIOUS
<1>3. /\ queue \in Seq(Sent) /\ due \in Seq(Dues) /\ m \in Nat /\ Len(due) \in Nat
  BY <1>2, LenProperties DEF DecoderInv, DecoderTypes
<1>4. /\ 0 \in S <=> shift = TRUE
      /\ 0 \in C <=> ctrl = TRUE
      /\ 0 \in P <=> prefix = TRUE
      /\ N[0] = 0
      /\ \A i, j \in 0..m : i <= j => N[i] <= N[j]
      /\ \A i \in 1..m : OneByte(S, C, P, N, i)
      /\ AtTheEnd(S, C, P, N, m)
  BY <1>1, <1>2 DEF Follows
<1>5. PICK s : s = IF b.code \in Shifts THEN b.up = FALSE ELSE m \in S
  OBVIOUS
<1>6. s <=> IF b.code \in Shifts THEN b.up = FALSE ELSE m \in S
  BY <1>5
<1>7. b \in Sent /\ b # E0 /\ Len(queue') = n /\ n \in Nat /\ queue' \in Seq(Sent)
      /\ queue'[n] = b /\ \A i \in 1..m : queue'[i] = queue[i]
  <2>1. b \in Sent /\ b # E0
    BY DEF Adds
  <2>2. QED
    BY <1>2, <1>3, <2>1
<1>8. PICK S1, C1, N1, d :
        /\ S1 = {i \in 0..n : IF i = n THEN s ELSE i \in S}
        /\ C1 = {i \in 0..n : IF i = n THEN IF b.code = "lctrl" THEN b.up = FALSE ELSE m \in C
                                        ELSE i \in C}
        /\ d = (IF b.code \in Typing /\ b.up = FALSE THEN 1 ELSE 0)
        /\ N1 = [i \in 0..n |-> IF i = n THEN N[m] + d ELSE N[i]]
  OBVIOUS
<1>9. d \in 0..1 /\ Len(due') = Len(due) + d /\ \A x \in 1..Len(due) : due'[x] = due[x]
  <2>1. CASE b.code \in Typing /\ b.up = FALSE
    <3>1. PICK e \in Dues : due' = Append(due, e)
      BY <2>1 DEF Adds
    <3>2. QED
      BY <1>3, <1>8, <2>1, <3>1
  <2>2. CASE ~(b.code \in Typing /\ b.up = FALSE)
    BY <1>3, <1>8, <2>2 DEF Adds
  <2>3. QED
    BY <2>1, <2>2
<1>10. \A i \in 0..m : N[i] \in Nat
  BY <1>2
<1>11. /\ m \in 0..m /\ 0 \in 0..m /\ n \notin 0..m /\ n \in 0..n
       /\ \A i \in 0..m : i \in 0..n /\ i # n
       /\ \A i \in 0..n : i \in 0..m \/ i = n
  BY <1>2, <1>3
<1>12. /\ \A i \in 0..m : /\ i \in S1 <=> i \in S
                          /\ i \in C1 <=> i \in C
                          /\ N1[i] = N[i]
       /\ n \in S1 <=> s
       /\ n \in C1 <=> (IF b.code = "lctrl" THEN b.up = FALSE ELSE m \in C)
       /\ N1[n] = N[m] + d
       /\ N1 \in [0..n -> Nat]
  <2>1. N1 \in [0..n -> Nat]
    BY <1>8, <1>9, <1>10, <1>11
  <2>2. \A i \in 0..m : N1[i] = N[i]
    BY <1>8, <1>11
  <2>3. N1[n] = N[m] + d
    BY <1>8, <1>11
  <2>4. \A i \in 0..m : (i \in S1 <=> i \in S) /\ (i \in C1 <=> i \in C)
    BY <1>8, <1>11
  <2>5. (n \in S1 <=> s) /\ (n \in C1 <=> (IF b.code = "lctrl" THEN b.up = FALSE ELSE m \in C))
    BY <1>8, <1>11
  <2>6. QED
    BY <2>1, <2>2, <2>3, <2>4, <2>5
<1>13. n \notin P /\ m \notin P
  BY <1>2, <1>4, <1>11 DEF Ways, AtTheEnd
<1>14. \A i, j \in 0..n : i <= j => N1[i] <= N1[j]
  <2>1. TAKE i, j \in 0..n
  <2>2. HAVE i <= j
  <2>3. CASE j = n
    <3>1. i = n \/ (i \in 0..m /\ N[i] <= N[m])
      BY <1>4, <1>11, <1>3
    <3>2. N[m] \in Nat
      BY <1>10, <1>11
    <3>3. QED
      BY <1>9, <1>10, <1>12, <2>3, <3>1, <3>2
  <2>4. CASE j # n
    <3>1. j \in 0..m /\ i \in 0..m
      BY <1>2, <1>3, <1>11, <2>2, <2>4
    <3>2. QED
      BY <1>4, <1>12, <2>2, <3>1
  <2>5. QED
    BY <2>3, <2>4
<1>15. ASSUME NEW i \in 1..m PROVE OneByte(S1, C1, P, N1, i)'
  <2>1. i \in 0..m /\ i - 1 \in 0..m
    BY <1>3
  <2>2. OneByte(S, C, P, N, i)
    BY <1>4
  <2>3. queue'[i] = queue[i]
    BY <1>7
  <2>4. /\ i \in S1 <=> i \in S
        /\ i \in C1 <=> i \in C
        /\ i - 1 \in S1 <=> i - 1 \in S
        /\ i - 1 \in C1 <=> i - 1 \in C
        /\ N1[i] = N[i] /\ N1[i - 1] = N[i - 1]
    BY <1>12, <2>1
  <2>5. IsCharacter(i)' <=> IsCharacter(i)
    BY <2>3 DEF IsCharacter
  <2>6. FlagsAt(S1, C1, P, i)'
    BY <2>2, <2>3, <2>4 DEF OneByte, FlagsAt
  <2>7. CASE IsCharacter(i)
    <3>1. /\ N[i] = N[i - 1] + 1 /\ N[i] <= Len(due)
          /\ Matches(due[N[i]], i, i - 1 \in S, i - 1 \in C)
      BY <2>2, <2>7 DEF OneByte
    <3>2. N[i] \in Nat /\ N[i - 1] \in Nat
      BY <1>10, <2>1
    <3>3. N[i] \in 1..Len(due) /\ N[i] <= Len(due')
      BY <1>3, <1>9, <3>1, <3>2
    <3>4. due'[N1[i]] = due[N[i]]
      BY <1>9, <2>4, <3>3
    <3>5. N1[i] = N1[i - 1] + 1 /\ N1[i] <= Len(due')
      BY <2>4, <3>1, <3>3
    <3>6. Matches(due[N1[i]], i, i - 1 \in S1, i - 1 \in C1)'
      BY <2>3, <2>4, <3>1, <3>4, Zenon DEF Matches
    <3>7. QED
      BY <2>5, <2>6, <2>7, <3>5, <3>6, Zenon DEF OneByte
  <2>8. CASE ~IsCharacter(i)
    <3>1. N1[i] = N1[i - 1]
      BY <2>2, <2>4, <2>8 DEF OneByte
    <3>2. QED
      BY <2>5, <2>6, <2>8, <3>1, Zenon DEF OneByte
  <2>9. QED
    BY <2>7, <2>8
<1>16. OneByte(S1, C1, P, N1, n)'
  <2>1. n - 1 = m
    BY <1>2, <1>3
  <2>2. FlagsAt(S1, C1, P, n)'
    BY <1>6, <1>7, <1>11, <1>12, <1>13, <2>1 DEF FlagsAt
  <2>3. IsCharacter(n)' <=> b.code \in Typing /\ b.up = FALSE
    BY <1>7 DEF IsCharacter
  <2>4. N[m] = Len(due)
    BY <1>4 DEF AtTheEnd
  <2>5. CASE b.code \in Typing /\ b.up = FALSE
    <3>1. PICK e \in Dues : /\ due' = Append(due, e) /\ e.key = b.code /\ e.lost = lost
                            /\ e.ctrl = TRUE <=> "lctrl" \in held
                            /\ e.shift = TRUE <=> Shifted
      BY <2>5 DEF Adds
    <3>2. /\ N1[n] = Len(due) + 1 /\ N1[n - 1] = Len(due) /\ Len(due') = Len(due) + 1
          /\ due'[Len(due) + 1] = e
      BY <1>3, <1>8, <1>9, <1>11, <1>12, <2>1, <2>4, <2>5, <3>1
    <3>3. "ctrl" \notin lost => (m \in C1 <=> "lctrl" \in held)
      BY <1>4, <1>11, <1>12 DEF AtTheEnd
    <3>4. "shift" \notin lost => (m \in S1 <=> Shifted)
      BY <1>4, <1>11, <1>12 DEF AtTheEnd
    <3>5. due'[N1[n]] = e /\ N1[n] = N1[n - 1] + 1 /\ N1[n] <= Len(due')
      BY <1>3, <3>2
    <3>6. Matches(due[N1[n]], n, n - 1 \in S1, n - 1 \in C1)'
      BY <1>7, <2>1, <3>1, <3>3, <3>4, <3>5, Zenon DEF Matches
    <3>7. QED
      BY <2>2, <2>3, <2>5, <3>5, <3>6, Zenon DEF OneByte
  <2>6. CASE ~(b.code \in Typing /\ b.up = FALSE)
    <3>1. d = 0 /\ N[m] \in Nat
      BY <1>8, <1>10, <1>11, <2>6
    <3>2. N1[n] = N1[n - 1]
      BY <1>11, <1>12, <2>1, <3>1
    <3>3. QED
      BY <2>2, <2>3, <2>6, <3>2, Zenon DEF OneByte
  <2>7. QED
    BY <2>5, <2>6
<1>17. AtTheEnd(S1, C1, P, N1, n)'
  <2>1. N1[n] = Len(due')
    BY <1>4, <1>9, <1>12 DEF AtTheEnd
  <2>2. "ctrl" \notin lost' => (n \in C1 <=> "lctrl" \in held')
    BY <1>4, <1>12 DEF AtTheEnd, Adds
  <2>3. "shift" \notin lost' => (n \in S1 <=> Shifted')
    <3>1. CASE b.code \in Shifts
      BY <1>6, <1>12, <3>1 DEF Adds
    <3>2. CASE b.code \notin Shifts
      BY <1>4, <1>6, <1>12, <3>2 DEF AtTheEnd, Adds
    <3>3. QED
      BY <3>1, <3>2
  <2>4. QED
    BY <1>13, <2>1, <2>2, <2>3 DEF AtTheEnd
<1>18. Follows(S1, C1, P, N1)'
  <2>1. \A i \in 1..n : OneByte(S1, C1, P, N1, i)'
    <3>1. TAKE i \in 1..n
    <3>2. i \in 1..m \/ i = n
      BY <1>2, <1>3
    <3>3. QED
      BY <1>15, <1>16, <3>2
  <2>2. /\ 0 \in S1 <=> shift' = TRUE
        /\ 0 \in C1 <=> ctrl' = TRUE
        /\ 0 \in P <=> prefix' = TRUE
        /\ N1[0] = 0
    BY <1>4, <1>11, <1>12
  <2>3. QED
    BY <1>7, <1>14, <1>17, <2>1, <2>2 DEF Follows
<1>19. S1 \in Ways' /\ C1 \in Ways' /\ P \in Ways' /\ N1 \in [0..Len(queue') -> Nat]
  BY <1>2, <1>3, <1>7, <1>8, <1>12 DEF Ways
<1>20. QED
  BY <1>18, <1>19 DEF HasAWay

\* A key with two bytes, which has no character and is none of those that the
\* flags stand for.
LEMMA TwoMore ==
  ASSUME DecoderInv, UNCHANGED <<shift, ctrl, prefix, due, lost>>,
         NEW b \in Sent, b # E0, b.code \notin Typing,
         queue' = Append(Append(queue, E0), b),
         "lctrl" \in held' <=> "lctrl" \in held,
         Shifted' <=> Shifted
  PROVE  HasAWay'
<1>1. PICK S, C, P \in Ways, N \in [0..Len(queue) -> Nat] : Follows(S, C, P, N)
  BY DEF DecoderInv, HasAWay
<1>2. PICK m, l, n : m = Len(queue) /\ l = m + 1 /\ n = m + 2
  OBVIOUS
<1>3. queue \in Seq(Sent) /\ m \in Nat /\ due' = due
  BY <1>2, LenProperties DEF DecoderInv, DecoderTypes
<1>4. /\ 0 \in S <=> shift = TRUE
      /\ 0 \in C <=> ctrl = TRUE
      /\ 0 \in P <=> prefix = TRUE
      /\ N[0] = 0
      /\ \A i, j \in 0..m : i <= j => N[i] <= N[j]
      /\ \A i \in 1..m : OneByte(S, C, P, N, i)
      /\ AtTheEnd(S, C, P, N, m)
  BY <1>1, <1>2 DEF Follows
<1>5. /\ Len(queue') = n /\ n \in Nat /\ queue' \in Seq(Sent)
      /\ queue'[l] = E0 /\ queue'[n] = b /\ \A i \in 1..m : queue'[i] = queue[i]
  <2>1. E0 \in Sent
    BY DEF Sent
  <2>2. PICK mid : mid = Append(queue, E0)
    OBVIOUS
  <2>3. mid \in Seq(Sent) /\ Len(mid) = l /\ mid[l] = E0 /\ \A i \in 1..m : mid[i] = queue[i]
    BY <1>2, <1>3, <2>1, <2>2
  <2>4. queue' = Append(mid, b)
    BY <2>2
  <2>5. Len(queue') = n /\ queue' \in Seq(Sent) /\ queue'[n] = b
        /\ \A i \in 1..l : queue'[i] = mid[i]
    BY <1>2, <1>3, <2>3, <2>4
  <2>6. QED
    BY <1>2, <1>3, <2>3, <2>5
<1>6. PICK S1, C1, P1, N1 :
        /\ S1 = {i \in 0..n : IF i > m THEN m \in S ELSE i \in S}
        /\ C1 = {i \in 0..n : IF i > m THEN m \in C ELSE i \in C}
        /\ P1 = P \cup {l}
        /\ N1 = [i \in 0..n |-> IF i > m THEN N[m] ELSE N[i]]
  OBVIOUS
<1>7. \A i \in 0..m : N[i] \in Nat
  BY <1>2
<1>8. /\ m \in 0..m /\ 0 \in 0..m /\ l \in 0..n /\ n \in 0..n
      /\ l - 1 = m /\ n - 1 = l /\ l > m /\ n > m /\ n # l /\ l \notin 0..m /\ n \notin 0..m
      /\ \A i \in 0..m : i \in 0..n /\ ~(i > m)
      /\ \A i \in 0..n : i \in 0..m \/ i = l \/ i = n
  BY <1>2, <1>3
<1>9. P \subseteq 0..m
  BY <1>2 DEF Ways
<1>10. /\ \A i \in 0..m : /\ i \in S1 <=> i \in S
                          /\ i \in C1 <=> i \in C
                          /\ i \in P1 <=> i \in P
                          /\ N1[i] = N[i]
       /\ \A i \in {l, n} : /\ i \in S1 <=> m \in S
                            /\ i \in C1 <=> m \in C
                            /\ N1[i] = N[m]
       /\ l \in P1 /\ n \notin P1
       /\ N1 \in [0..n -> Nat]
  <2>1. \A i \in 0..m : (i \in S1 <=> i \in S) /\ (i \in C1 <=> i \in C) /\ (i \in P1 <=> i \in P)
    BY <1>6, <1>8
  <2>2. \A i \in 0..m : N1[i] = N[i]
    BY <1>6, <1>8
  <2>3. \A i \in {l, n} : (i \in S1 <=> m \in S) /\ (i \in C1 <=> m \in C) /\ N1[i] = N[m]
    BY <1>6, <1>8
  <2>4. l \in P1 /\ n \notin P1
    BY <1>6, <1>8, <1>9
  <2>5. N1 \in [0..n -> Nat]
    BY <1>6, <1>7, <1>8
  <2>6. QED
    BY <2>1, <2>2, <2>3, <2>4, <2>5
<1>11. \A i, j \in 0..n : i <= j => N1[i] <= N1[j]
  <2>1. TAKE i, j \in 0..n
  <2>2. HAVE i <= j
  <2>3. N[m] \in Nat
    BY <1>7, <1>8
  <2>4. CASE j \in 0..m
    <3>1. i \in 0..m
      BY <1>3, <2>2, <2>4
    <3>2. QED
      BY <1>4, <1>10, <2>2, <2>4, <3>1
  <2>5. CASE j \in {l, n}
    <3>1. N1[j] = N[m]
      BY <1>10, <2>5
    <3>2. CASE i \in 0..m
      <4>1. i <= m
        BY <3>2, <1>3
      <4>2. N1[i] = N[i] /\ N[i] <= N[m]
        BY <1>4, <1>8, <1>10, <3>2, <4>1
      <4>3. QED
        BY <3>1, <4>2
    <3>3. CASE i \in {l, n}
      <4>1. N1[i] = N[m]
        BY <1>10, <3>3
      <4>2. QED
        BY <2>3, <3>1, <4>1
    <3>4. QED
      BY <1>8, <3>2, <3>3
  <2>6. QED
    BY <1>8, <2>4, <2>5
<1>12. ASSUME NEW i \in 1..m PROVE OneByte(S1, C1, P1, N1, i)'
  <2>1. i \in 0..m /\ i - 1 \in 0..m
    BY <1>3
  <2>2. OneByte(S, C, P, N, i)
    BY <1>4
  <2>3. queue'[i] = queue[i]
    BY <1>5
  <2>4. /\ i \in S1 <=> i \in S
        /\ i \in C1 <=> i \in C
        /\ i \in P1 <=> i \in P
        /\ i - 1 \in S1 <=> i - 1 \in S
        /\ i - 1 \in C1 <=> i - 1 \in C
        /\ i - 1 \in P1 <=> i - 1 \in P
        /\ N1[i] = N[i] /\ N1[i - 1] = N[i - 1]
    BY <1>10, <2>1
  <2>5. IsCharacter(i)' <=> IsCharacter(i)
    BY <2>3 DEF IsCharacter
  <2>6. FlagsAt(S1, C1, P1, i)'
    BY <2>2, <2>3, <2>4 DEF OneByte, FlagsAt
  <2>7. CASE IsCharacter(i)
    <3>1. /\ N[i] = N[i - 1] + 1 /\ N[i] <= Len(due)
          /\ Matches(due[N[i]], i, i - 1 \in S, i - 1 \in C)
      BY <2>2, <2>7 DEF OneByte
    <3>2. N1[i] = N1[i - 1] + 1 /\ N1[i] <= Len(due') /\ due'[N1[i]] = due[N[i]]
      BY <1>3, <2>4, <3>1
    <3>3. Matches(due[N1[i]], i, i - 1 \in S1, i - 1 \in C1)'
      BY <2>3, <2>4, <3>1, <3>2, Zenon DEF Matches
    <3>4. QED
      BY <2>5, <2>6, <2>7, <3>2, <3>3, Zenon DEF OneByte
  <2>8. CASE ~IsCharacter(i)
    <3>1. N1[i] = N1[i - 1]
      BY <2>2, <2>4, <2>8 DEF OneByte
    <3>2. QED
      BY <2>5, <2>6, <2>8, <3>1, Zenon DEF OneByte
  <2>9. QED
    BY <2>7, <2>8
<1>13. OneByte(S1, C1, P1, N1, l)'
  <2>1. m \notin P /\ E0.code = "E0" /\ "E0" \notin Typing \cup Shifts \cup {"lctrl"}
    BY <1>4 DEF AtTheEnd, E0, Byte, Typing, Letters, Shifts
  <2>2. ~IsCharacter(l)'
    BY <1>5, <2>1 DEF IsCharacter
  <2>3. N1[l] = N1[l - 1]
    BY <1>8, <1>10
  <2>4. /\ l \in P1 <=> queue'[l] = E0
        /\ l \in S1 <=> l - 1 \in S1
        /\ l \in C1 <=> l - 1 \in C1
    BY <1>5, <1>8, <1>10
  <2>5. queue'[l].code \notin Shifts /\ queue'[l].code # "lctrl" /\ queue'[l].code \notin Typing
    BY <1>5, <2>1
  <2>6. FlagsAt(S1, C1, P1, l)'
    BY <2>4, <2>5, Zenon DEF FlagsAt
  <2>7. QED
    BY <2>2, <2>3, <2>6, Zenon DEF OneByte
<1>14. OneByte(S1, C1, P1, N1, n)'
  <2>1. n - 1 \in P1
    BY <1>8, <1>10
  <2>2. queue'[n].code \notin Typing
    BY <1>5
  <2>3. ~IsCharacter(n)'
    BY <2>2 DEF IsCharacter
  <2>4. N1[n] = N1[n - 1]
    BY <1>8, <1>10
  <2>5. /\ n \in P1 <=> queue'[n] = E0
        /\ n \in S1 <=> n - 1 \in S1
        /\ n \in C1 <=> n - 1 \in C1
    BY <1>5, <1>8, <1>10
  <2>6. FlagsAt(S1, C1, P1, n)'
    BY <2>1, <2>2, <2>5, Zenon DEF FlagsAt
  <2>7. QED
    BY <2>3, <2>4, <2>6, Zenon DEF OneByte
<1>15. AtTheEnd(S1, C1, P1, N1, n)'
  <2>1. N1[n] = Len(due')
    BY <1>3, <1>4, <1>10 DEF AtTheEnd
  <2>2. QED
    BY <1>4, <1>10, <2>1 DEF AtTheEnd
<1>16. Follows(S1, C1, P1, N1)'
  <2>1. \A i \in 1..n : OneByte(S1, C1, P1, N1, i)'
    <3>1. TAKE i \in 1..n
    <3>2. i \in 1..m \/ i = l \/ i = n
      BY <1>2, <1>3
    <3>3. QED
      BY <1>12, <1>13, <1>14, <3>2
  <2>2. /\ 0 \in S1 <=> shift' = TRUE
        /\ 0 \in C1 <=> ctrl' = TRUE
        /\ 0 \in P1 <=> prefix' = TRUE
        /\ N1[0] = 0
    BY <1>4, <1>8, <1>10
  <2>3. QED
    BY <1>5, <1>11, <1>15, <2>1, <2>2 DEF Follows
<1>17. S1 \in Ways' /\ C1 \in Ways' /\ P1 \in Ways' /\ N1 \in [0..Len(queue') -> Nat]
  <2>1. P1 \subseteq 0..n
    BY <1>6, <1>8, <1>9
  <2>2. QED
    BY <1>5, <1>6, <1>10, <2>1 DEF Ways
<1>18. QED
  BY <1>16, <1>17 DEF HasAWay

-------------------------------------------------------------------------------
\* Steps.

LEMMA KeyFacts ==
  ASSUME NEW k \in Keys, NEW up \in BOOLEAN
  PROVE  /\ Byte(Code(k), up) \in Sent /\ Byte(Code(k), up) # E0
         /\ Byte(Code(k), up).code = Code(k) /\ Byte(Code(k), up).up = up
         /\ k \in Extended => k # "lctrl" /\ k \notin Shifts /\ k \notin Typing
                              /\ Code(k) \notin Typing
         /\ k \notin Extended => Code(k) = k
<1> DEFINE b == Byte(Code(k), up)
<1>1. b.code = Code(k) /\ b.up = up
  BY DEF Byte
<1>2. Code(k) \in Keys /\ Code(k) # "E0"
  BY DEF Code, Keys, Typing, Letters, Shifts, Extended
<1>3. b \in Sent
  BY <1>2 DEF Byte, Sent
<1>4. b # E0
  <2>1. E0.code = "E0"
    BY DEF E0, Byte
  <2>2. QED
    BY <1>1, <1>2, <2>1
<1>5. k \in Extended => k # "lctrl" /\ k \notin Shifts /\ k \notin Typing
                         /\ Code(k) \notin Typing
  BY DEF Extended, Shifts, Typing, Letters, Code
<1>6. k \notin Extended => Code(k) = k
  BY DEF Extended, Code
<1>7. QED
  BY <1>1, <1>3, <1>4, <1>5, <1>6

LEMMA TwoJoined ==
  ASSUME NEW a, NEW b
  PROVE  <<a>> \o <<b>> = <<a, b>>
<1>1. <<a>> \in Seq({a, b}) /\ <<b>> \in Seq({a, b}) /\ <<a, b>> \in Seq({a, b})
  OBVIOUS
<1>2. Len(<<a>>) = 1 /\ Len(<<b>>) = 1 /\ Len(<<a, b>>) = 2
  OBVIOUS
<1>3. PICK s, t, u : s = <<a>> /\ t = <<b>> /\ u = <<a>> \o <<b>>
  OBVIOUS
<1>4. /\ u \in Seq({a, b}) /\ Len(u) = 2
      /\ \A i \in 1..2 : u[i] = IF i <= 1 THEN s[i] ELSE t[i - 1]
  BY ONLY <1>1, <1>2, <1>3, ConcatProperties
<1>5. u[1] = a /\ u[2] = b
  BY <1>3, <1>4
<1>6. \A i \in 1..Len(u) : u[i] = <<a, b>>[i]
  BY <1>4, <1>5
<1>7. u = <<a, b>>
  BY ONLY <1>1, <1>2, <1>4, <1>6, SeqEqual
<1>8. QED
  BY <1>3, <1>7

LEMMA BytesAdded ==
  ASSUME queue \in Seq(Sent), NEW k \in Keys, NEW up \in BOOLEAN
  PROVE  queue \o Bytes(k, up) =
           IF k \in Extended THEN Append(Append(queue, E0), Byte(Code(k), up))
                             ELSE Append(queue, Byte(Code(k), up))
<1>1. E0 \in Sent /\ Byte(Code(k), up) \in Sent
  BY KeyFacts DEF Sent
<1>2. CASE k \in Extended
  <2>1. Bytes(k, up) = <<E0, Byte(Code(k), up)>>
    <3>1. Bytes(k, up) = <<E0>> \o <<Byte(Code(k), up)>>
      BY <1>2 DEF Bytes
    <3>2. PICK a, b : a = E0 /\ b = Byte(Code(k), up)
      OBVIOUS
    <3>3. <<a>> \o <<b>> = <<a, b>>
      BY TwoJoined
    <3>4. QED
      BY ONLY <3>1, <3>2, <3>3
  <2>2. QED
    BY <1>1, <1>2, <2>1
<1>3. CASE k \notin Extended
  <2>1. Bytes(k, up) = <<Byte(Code(k), up)>>
    BY <1>3 DEF Bytes
  <2>2. QED
    BY <1>1, <1>3, <2>1
<1>4. QED
  BY <1>2, <1>3

LEMMA FlagFacts ==
  ASSUME NEW k
  PROVE  /\ FlagOf(k) \subseteq Flags
         /\ "shift" \in FlagOf(k) <=> k \in Shifts
         /\ "ctrl" \in FlagOf(k) <=> k = "lctrl"
<1>1. FlagOf(k) \subseteq Flags
  BY DEF FlagOf
<1>2. "shift" \in FlagOf(k) <=> k \in Shifts
  BY DEF FlagOf, Flags
<1>3. "ctrl" \in FlagOf(k) <=> k = "lctrl"
  BY DEF FlagOf, Flags
<1>4. QED
  BY <1>1, <1>2, <1>3

\* No byte comes or goes: the way is the same.
LEMMA SameBytes ==
  ASSUME DecoderInv, UNCHANGED <<queue, due, shift, ctrl, prefix>>,
         "ctrl" \notin lost' => "ctrl" \notin lost /\ ("lctrl" \in held' <=> "lctrl" \in held),
         "shift" \notin lost' => "shift" \notin lost /\ (Shifted' <=> Shifted)
  PROVE  HasAWay'
<1>1. PICK S, C, P \in Ways, N \in [0..Len(queue) -> Nat] : Follows(S, C, P, N)
  BY DEF DecoderInv, HasAWay
<1>2. \A i \in 1..Len(queue) : OneByte(S, C, P, N, i)'
  BY <1>1 DEF Follows, OneByte, FlagsAt, IsCharacter, Matches
<1>3. AtTheEnd(S, C, P, N, Len(queue))'
  BY <1>1 DEF Follows, AtTheEnd
<1>4. Follows(S, C, P, N)'
  BY <1>1, <1>2, <1>3 DEF Follows
<1>5. QED
  BY <1>1, <1>4 DEF HasAWay, Ways

LEMMA PressStep ==
  ASSUME DecoderInv, NEW k \in Keys, Press(k)
  PROVE  DecoderInv'
<1> DEFINE b == Byte(Code(k), FALSE)
           e == [key |-> k, shift |-> Shifted, ctrl |-> "lctrl" \in held, lost |-> lost]
<1>1. /\ queue \in Seq(Sent) /\ due \in Seq(Dues) /\ held \subseteq Keys
      /\ shift \in BOOLEAN /\ ctrl \in BOOLEAN /\ prefix \in BOOLEAN
      /\ lost \subseteq Flags /\ half \in BOOLEAN
  BY DEF DecoderInv, DecoderTypes
<1>2. /\ held' = held \cup {k} /\ half' = (half /\ k \notin Shifts)
      /\ UNCHANGED <<shift, ctrl, prefix, pc>>
      /\ due' = IF k \in Typing /\ Fits(k) THEN Append(due, e) ELSE due
  BY DEF Press, Send, decoder, reader
<1>3. /\ b \in Sent /\ b # E0 /\ b.code = Code(k) /\ b.up = FALSE
      /\ k \in Extended => k # "lctrl" /\ k \notin Shifts /\ k \notin Typing
                           /\ b.code \notin Typing
      /\ k \notin Extended => b.code = k
  BY KeyFacts
<1>4. k \in Typing => e \in Dues
  <2>1. Shifted \in BOOLEAN /\ ("lctrl" \in held) \in BOOLEAN
    BY DEF Shifted
  <2>2. QED
    BY <1>1, <2>1 DEF Dues
<1>5. due' \in Seq(Dues) /\ held' \subseteq Keys /\ half' \in BOOLEAN
  BY <1>1, <1>2, <1>4
<1>6. /\ k \in Shifts => Shifted'
      /\ k \notin Shifts => (Shifted' <=> Shifted)
  <2>1. k \in Shifts => half' = FALSE /\ held' \cap Shifts # {}
    BY <1>2
  <2>2. k \notin Shifts => half' = half /\ held' \cap Shifts = held \cap Shifts
    BY <1>1, <1>2
  <2>3. QED
    BY <2>1, <2>2 DEF Shifted
<1>7. "lctrl" \in held' <=> k = "lctrl" \/ "lctrl" \in held
  BY <1>2
<1>8. CASE Fits(k)
  <2>1. queue' = queue \o Bytes(k, FALSE) /\ lost' = lost \ FlagOf(k)
    BY <1>8 DEF Press, Send
  <2>2. queue' = IF k \in Extended THEN Append(Append(queue, E0), b) ELSE Append(queue, b)
    BY <1>1, <2>1, BytesAdded
  <2>3. queue' \in Seq(Sent) /\ lost' \subseteq Flags
    <3>1. E0 \in Sent
      BY DEF Sent
    <3>2. CASE k \in Extended
      <4>1. Append(queue, E0) \in Seq(Sent)
        BY <1>1, <3>1, AppendProperties
      <4>2. queue' \in Seq(Sent)
        BY <1>3, <2>2, <3>2, <4>1, AppendProperties
      <4>3. QED
        BY <1>1, <2>1, <4>2
    <3>3. CASE k \notin Extended
      <4>1. queue' \in Seq(Sent)
        BY <1>1, <1>3, <2>2, <3>3, AppendProperties
      <4>2. QED
        BY <1>1, <2>1, <4>1
    <3>4. QED
      BY <3>2, <3>3
  <2>4. CASE k \in Extended
    <3>1. lost' = lost
      BY <1>1, <1>3, <2>1, <2>4, FlagFacts DEF Flags
    <3>2. HasAWay'
      BY <1>2, <1>3, <1>6, <1>7, <2>2, <2>4, <3>1, TwoMore
    <3>3. QED
      BY <1>1, <1>2, <1>5, <2>3, <3>2 DEF DecoderInv, DecoderTypes, Starting
  <2>5. CASE k \notin Extended
    <3>1. b.code = k /\ queue' = Append(queue, b)
      BY <1>3, <2>2, <2>5
    <3>2. IF b.code \in Typing /\ b.up = FALSE
          THEN \E f \in Dues : /\ due' = Append(due, f) /\ f.key = b.code /\ f.lost = lost
                               /\ f.ctrl = TRUE <=> "lctrl" \in held
                               /\ f.shift = TRUE <=> Shifted
          ELSE due' = due
      <4>1. CASE k \in Typing
        <5>1. e.key = k /\ e.lost = lost /\ e.shift = Shifted /\ e.ctrl = ("lctrl" \in held)
          OBVIOUS
        <5>2. (e.ctrl = TRUE <=> "lctrl" \in held) /\ (e.shift = TRUE <=> Shifted)
          BY <5>1 DEF Shifted
        <5>3. due' = Append(due, e) /\ e \in Dues
          BY <1>2, <1>4, <1>8, <4>1
        <5>4. QED
          BY <1>3, <3>1, <4>1, <5>1, <5>2, <5>3, Zenon
      <4>2. CASE k \notin Typing
        BY <1>2, <3>1, <4>2
      <4>3. QED
        BY <4>1, <4>2
    <3>3. "ctrl" \notin lost' => k = "lctrl" \/ "ctrl" \notin lost
      BY <2>1, FlagFacts
    <3>4. "shift" \notin lost' => k \in Shifts \/ "shift" \notin lost
      BY <2>1, FlagFacts
    <3>5. Adds(b)
      BY <1>3, <1>6, <1>7, <3>1, <3>2, <3>3, <3>4, Zenon DEF Adds
    <3>6. HasAWay'
      BY <1>2, <3>1, <3>5, OneMore
    <3>7. QED
      BY <1>1, <1>2, <1>5, <2>3, <3>6 DEF DecoderInv, DecoderTypes, Starting
  <2>6. QED
    BY <2>4, <2>5
<1>9. CASE ~Fits(k)
  <2>1. queue' = queue /\ lost' = lost \cup FlagOf(k) /\ due' = due
    BY <1>2, <1>9 DEF Press, Send
  <2>2. /\ lost' \subseteq Flags
        /\ "ctrl" \notin lost' => "ctrl" \notin lost /\ k # "lctrl"
        /\ "shift" \notin lost' => "shift" \notin lost /\ k \notin Shifts
    BY <1>1, <2>1, FlagFacts
  <2>3. HasAWay'
    BY <1>2, <1>6, <1>7, <2>1, <2>2, SameBytes
  <2>4. QED
    BY <1>1, <1>2, <1>5, <2>1, <2>2, <2>3 DEF DecoderInv, DecoderTypes, Starting
<1>10. QED
  BY <1>8, <1>9

LEMMA ReleaseStep ==
  ASSUME DecoderInv, NEW k \in Keys, Release(k)
  PROVE  DecoderInv'
<1> DEFINE b == Byte(Code(k), TRUE)
<1>1. /\ queue \in Seq(Sent) /\ due \in Seq(Dues) /\ held \subseteq Keys
      /\ shift \in BOOLEAN /\ ctrl \in BOOLEAN /\ prefix \in BOOLEAN
      /\ lost \subseteq Flags /\ half \in BOOLEAN
  BY DEF DecoderInv, DecoderTypes
<1>2. /\ held' = held \ {k} /\ UNCHANGED <<shift, ctrl, prefix, pc, due>>
      /\ half' = IF k \in Shifts THEN held' \cap Shifts # {} ELSE half
  BY DEF Release, Send, decoder, reader
<1>3. /\ b \in Sent /\ b # E0 /\ b.code = Code(k) /\ b.up = TRUE
      /\ k \in Extended => k # "lctrl" /\ k \notin Shifts /\ k \notin Typing
                           /\ b.code \notin Typing
      /\ k \notin Extended => b.code = k
  BY KeyFacts
<1>4. held' \subseteq Keys /\ half' \in BOOLEAN
  BY <1>1, <1>2
<1>5. /\ k \in Shifts => ~Shifted'
      /\ k \notin Shifts => (Shifted' <=> Shifted)
  <2>1. k \in Shifts => ~Shifted'
    BY <1>2 DEF Shifted
  <2>2. k \notin Shifts => half' = half /\ held' \cap Shifts = held \cap Shifts
    BY <1>1, <1>2
  <2>3. QED
    BY <2>1, <2>2 DEF Shifted
<1>6. "lctrl" \in held' <=> k # "lctrl" /\ "lctrl" \in held
  BY <1>2
<1>7. CASE Fits(k)
  <2>1. queue' = queue \o Bytes(k, TRUE) /\ lost' = lost \ FlagOf(k)
    BY <1>7 DEF Release, Send
  <2>2. queue' = IF k \in Extended THEN Append(Append(queue, E0), b) ELSE Append(queue, b)
    BY <1>1, <2>1, BytesAdded
  <2>3. queue' \in Seq(Sent) /\ lost' \subseteq Flags
    <3>1. E0 \in Sent
      BY DEF Sent
    <3>2. CASE k \in Extended
      <4>1. Append(queue, E0) \in Seq(Sent)
        BY <1>1, <3>1, AppendProperties
      <4>2. queue' \in Seq(Sent)
        BY <1>3, <2>2, <3>2, <4>1, AppendProperties
      <4>3. QED
        BY <1>1, <2>1, <4>2
    <3>3. CASE k \notin Extended
      <4>1. queue' \in Seq(Sent)
        BY <1>1, <1>3, <2>2, <3>3, AppendProperties
      <4>2. QED
        BY <1>1, <2>1, <4>1
    <3>4. QED
      BY <3>2, <3>3
  <2>4. CASE k \in Extended
    <3>1. lost' = lost
      BY <1>1, <1>3, <2>1, <2>4, FlagFacts DEF Flags
    <3>2. HasAWay'
      BY <1>2, <1>3, <1>5, <1>6, <2>2, <2>4, <3>1, TwoMore
    <3>3. QED
      BY <1>1, <1>2, <1>4, <2>3, <3>2 DEF DecoderInv, DecoderTypes, Starting
  <2>5. CASE k \notin Extended
    <3>1. b.code = k /\ queue' = Append(queue, b)
      BY <1>3, <2>2, <2>5
    <3>2. "ctrl" \notin lost' => k = "lctrl" \/ "ctrl" \notin lost
      BY <2>1, FlagFacts
    <3>3. "shift" \notin lost' => k \in Shifts \/ "shift" \notin lost
      BY <2>1, FlagFacts
    <3>4. ~(b.up = FALSE) /\ due' = due
      BY <1>2, <1>3
    <3>5. Adds(b)
      BY <1>3, <1>5, <1>6, <3>1, <3>2, <3>3, <3>4, Zenon DEF Adds
    <3>6. HasAWay'
      BY <1>2, <3>1, <3>5, OneMore
    <3>7. QED
      BY <1>1, <1>2, <1>4, <2>3, <3>6 DEF DecoderInv, DecoderTypes, Starting
  <2>6. QED
    BY <2>4, <2>5
<1>8. CASE ~Fits(k)
  <2>1. queue' = queue /\ lost' = lost \cup FlagOf(k)
    BY <1>8 DEF Release, Send
  <2>2. /\ lost' \subseteq Flags
        /\ "ctrl" \notin lost' => "ctrl" \notin lost /\ k # "lctrl"
        /\ "shift" \notin lost' => "shift" \notin lost /\ k \notin Shifts
    BY <1>1, <2>1, FlagFacts
  <2>3. HasAWay'
    BY <1>2, <1>5, <1>6, <2>1, <2>2, SameBytes
  <2>4. QED
    BY <1>1, <1>2, <1>4, <2>1, <2>2, <2>3 DEF DecoderInv, DecoderTypes, Starting
<1>9. QED
  BY <1>7, <1>8

-------------------------------------------------------------------------------
\* keyboard_init.

\* A flag that the places in B set to what U says: S are the places after which it
\* is set, if it is z before the first.
LEMMA LastOne ==
  ASSUME NEW m \in Nat, NEW B, NEW U, NEW z
  PROVE  \E S \in SUBSET (0..m) :
           /\ 0 \in S <=> z = TRUE
           /\ \A i \in 1..m : i \in S <=> IF i \in B THEN i \in U ELSE i - 1 \in S
<1> DEFINE set(i) == \E j \in 1..i : j \in B /\ j \in U /\ \A k \in (j + 1)..i : k \notin B
           old(i) == z = TRUE /\ \A k \in 1..i : k \notin B
           S == {i \in 0..m : set(i) \/ old(i)}
<1>1. 0 \in S <=> z = TRUE
  <2>1. ~set(0) /\ (old(0) <=> z = TRUE)
    OBVIOUS
  <2>2. 0 \in 0..m
    OBVIOUS
  <2>3. QED
    BY <2>1, <2>2
<1>2. ASSUME NEW i \in 1..m
      PROVE  i \in S <=> IF i \in B THEN i \in U ELSE i - 1 \in S
  <2>1. i \in 0..m /\ i - 1 \in 0..m /\ i \in 1..i
    OBVIOUS
  <2>2. CASE i \in B
    <3>1. ~old(i)
      BY <2>1, <2>2
    <3>2. set(i) => i \in U
      <4>1. SUFFICES ASSUME NEW j \in 1..i, j \in B, j \in U, \A k \in (j + 1)..i : k \notin B
                     PROVE  i \in U
        OBVIOUS
      <4>2. j = i \/ i \in (j + 1)..i
        OBVIOUS
      <4>3. QED
        BY <2>2, <4>1, <4>2
    <3>3. i \in U => set(i)
      <4>1. (i + 1)..i = {}
        OBVIOUS
      <4>2. QED
        BY <2>1, <2>2, <4>1
    <3>4. QED
      BY <2>1, <2>2, <3>1, <3>2, <3>3
  <2>3. CASE i \notin B
    <3>1. old(i) <=> old(i - 1)
      <4>1. 1..i = (1..(i - 1)) \cup {i}
        OBVIOUS
      <4>2. QED
        BY <2>3, <4>1
    <3>2. set(i) => set(i - 1)
      <4>1. SUFFICES ASSUME NEW j \in 1..i, j \in B, j \in U, \A k \in (j + 1)..i : k \notin B
                     PROVE  set(i - 1)
        OBVIOUS
      <4>2. j \in 1..(i - 1) /\ (j + 1)..(i - 1) \subseteq (j + 1)..i
        BY <2>3, <4>1
      <4>3. QED
        BY <4>1, <4>2
    <3>3. set(i - 1) => set(i)
      <4>1. SUFFICES ASSUME NEW j \in 1..(i - 1), j \in B, j \in U,
                            \A k \in (j + 1)..(i - 1) : k \notin B
                     PROVE  set(i)
        OBVIOUS
      <4>2. j \in 1..i /\ (j + 1)..i = ((j + 1)..(i - 1)) \cup {i}
        OBVIOUS
      <4>3. QED
        BY <2>3, <4>1, <4>2
    <3>4. QED
      BY <2>1, <2>3, <3>1, <3>2, <3>3
  <2>4. QED
    BY <2>2, <2>3
<1>3. S \in SUBSET (0..m)
  OBVIOUS
<1>4. QED
  BY <1>1, <1>2, <1>3

\* What was typed before is thrown away.
LEMMA DrainStep ==
  ASSUME DecoderInv, Drain
  PROVE  DecoderInv'
<1>1. DecoderTypes /\ prefix = FALSE
  BY DEF DecoderInv, Drain, Starting
<1>2. /\ UNCHANGED <<held, shift, ctrl, prefix, half>> /\ queue' = <<>> /\ due' = <<>>
      /\ lost' = IF queue = <<>> THEN lost ELSE Flags
  BY DEF Drain, decoder
<1>3. Shifted' = Shifted
  BY <1>2 DEF Shifted
<1>4. DecoderTypes'
  BY <1>1, <1>2, EmptySeq DEF DecoderTypes
<1>5. HasAWay'
  <2>1. CASE queue = <<>>
    <3>1. due = <<>>
      BY <2>1, NoBytes DEF FlagsTrue
    <3>2. QED
      BY <1>2, <1>3, <2>1, <3>1, SameBytes
  <2>2. CASE queue # <<>>
    <3>1. PICK S, C, N : /\ S = (IF shift = TRUE THEN {0} ELSE {})
                         /\ C = (IF ctrl = TRUE THEN {0} ELSE {})
                         /\ N = [i \in 0..0 |-> 0]
      OBVIOUS
    <3>2. Len(queue') = 0 /\ Len(due') = 0
      BY <1>2, EmptySeq
    <3>3. N \in [0..Len(queue') -> Nat] /\ N[0] = 0
      BY <3>1, <3>2
    <3>4. AtTheEnd(S, C, {}, N, 0)'
      BY <1>2, <2>2, <3>2, <3>3 DEF AtTheEnd, Flags
    <3>5. Follows(S, C, {}, N)'
      <4>1. (0 \in S <=> shift' = TRUE) /\ (0 \in C <=> ctrl' = TRUE) /\ (0 \in {} <=> prefix' = TRUE)
        BY <1>1, <1>2, <3>1
      <4>2. QED
        BY <3>2, <3>3, <3>4, <4>1 DEF Follows
    <3>6. S \in Ways' /\ C \in Ways' /\ {} \in Ways'
      BY <3>1, <3>2 DEF Ways
    <3>7. QED
      BY <3>3, <3>5, <3>6 DEF HasAWay
  <2>3. QED
    BY <2>1, <2>2
<1>6. QED
  BY <1>1, <1>2, <1>4, <1>5 DEF DecoderInv

\* A byte is taken for the keyboard's answer.
LEMMA EnableStep ==
  ASSUME DecoderInv, Enable
  PROVE  DecoderInv'
<1>1. /\ queue \in Seq(Sent) /\ due \in Seq(Dues) /\ held \subseteq Keys
      /\ shift \in BOOLEAN /\ ctrl \in BOOLEAN /\ prefix = FALSE
      /\ lost \subseteq Flags /\ half \in BOOLEAN
  BY DEF DecoderInv, DecoderTypes, Enable, Starting
<1>2. UNCHANGED <<held, shift, ctrl, prefix, half>> /\ queue' = Tail(Append(queue, Answer))
  BY DEF Enable, decoder
<1>3. PICK m : m = Len(queue)
  OBVIOUS
<1>4. m \in Nat /\ Answer \in Sent
  BY <1>1, <1>3, LenProperties DEF Sent
<1>5. /\ queue' \in Seq(Sent) /\ Len(queue') = m
      /\ \A i \in 1..m : queue'[i] = IF i = m THEN Answer ELSE queue[i + 1]
  <2>1. PICK longer : longer = Append(queue, Answer)
    OBVIOUS
  <2>2. /\ longer \in Seq(Sent) /\ longer # <<>> /\ Len(longer) = m + 1
        /\ longer[m + 1] = Answer /\ \A i \in 1..m : longer[i] = queue[i]
    BY <1>1, <1>3, <1>4, <2>1, AppendProperties
  <2>3. queue' = Tail(longer)
    BY <1>2, <2>1
  <2>4. queue' \in Seq(Sent) /\ Len(queue') = m /\ \A i \in 1..m : queue'[i] = longer[i + 1]
    BY <1>4, <2>2, <2>3, HeadTailProperties
  <2>5. \A i \in 1..m : i # m => i + 1 \in 1..m
    BY <1>4
  <2>6. QED
    BY <2>2, <2>4, <2>5
<1>6. CASE queue = <<>>
  <2>1. m = 0 /\ UNCHANGED <<due, lost>>
    BY <1>3, <1>6 DEF Enable
  <2>2. queue' = queue
    BY <1>5, <1>6, <2>1, EmptySeq
  <2>3. Shifted' = Shifted
    BY <1>2 DEF Shifted
  <2>4. HasAWay'
    BY <1>2, <2>1, <2>2, <2>3, SameBytes
  <2>5. QED
    BY <1>1, <1>2, <2>1, <2>2, <2>4 DEF DecoderInv, DecoderTypes
<1>7. CASE queue # <<>>
  <2>1. m >= 1 /\ lost' = Flags
    BY <1>1, <1>3, <1>4, <1>7, EmptySeq DEF Enable
  <2>2. PICK S, C, P \in Ways, N \in [0..Len(queue) -> Nat] : Follows(S, C, P, N)
    BY DEF DecoderInv, HasAWay
  <2>3. /\ N[0] = 0
        /\ \A i, j \in 0..m : i <= j => N[i] <= N[j]
        /\ \A i \in 1..m : OneByte(S, C, P, N, i)
        /\ N[m] = Len(due)
    BY <1>3, <2>2 DEF Follows, AtTheEnd
  <2>4. \A i \in 0..m : N[i] \in Nat
    BY <1>3, <2>2
  <2>5. PICK rest : rest = IF Head(queue).code \in Typing /\ ~Head(queue).up THEN Tail(due) ELSE due
    OBVIOUS
  <2>6. due' = [i \in DOMAIN rest |-> [rest[i] EXCEPT !.lost = Flags]]
    BY <1>7, <2>5 DEF Enable
  <2>7. /\ rest \in Seq(Dues) /\ Len(rest) = Len(due) - N[1] /\ N[1] \in 0..1
        /\ \A x \in 1..Len(due) : x > N[1] => rest[x - N[1]] = due[x]
    <3>1. OneByte(S, C, P, N, 1) /\ 1 - 1 = 0 /\ 1 \in 1..m
      BY <1>4, <2>1, <2>3
    <3>2. Head(queue) = queue[1] /\ Head(queue) \in Sent
      BY <1>1, <1>3, <3>1, ElementOfSeq, HeadTailProperties
    <3>3. Head(queue).up \in BOOLEAN
      BY <3>2, SentFields
    <3>4. CASE IsCharacter(1)
      <4>1. N[1] = 1 /\ 1 <= Len(due) /\ rest = Tail(due)
        BY <2>3, <2>5, <3>1, <3>2, <3>3, <3>4 DEF OneByte, IsCharacter
      <4>2. due # <<>> /\ Len(due) \in Nat
        BY <1>1, <4>1, EmptySeq, LenProperties
      <4>3. /\ rest \in Seq(Dues) /\ Len(rest) = Len(due) - 1
            /\ \A i \in 1..Len(rest) : rest[i] = due[i + 1]
        BY <1>1, <4>1, <4>2, HeadTailProperties
      <4>4. ASSUME NEW x \in 1..Len(due), x > 1 PROVE rest[x - 1] = due[x]
        <5>1. x - 1 \in 1..Len(rest) /\ (x - 1) + 1 = x
          BY <4>2, <4>3, <4>4
        <5>2. QED
          BY <4>3, <5>1
      <4>5. QED
        BY <4>1, <4>3, <4>4
    <3>5. CASE ~IsCharacter(1)
      <4>1. N[1] = 0 /\ rest = due
        BY <2>3, <2>5, <3>1, <3>2, <3>3, <3>5 DEF OneByte, IsCharacter
      <4>2. Len(due) \in Nat
        BY <1>1, LenProperties
      <4>3. QED
        BY <1>1, <4>1, <4>2
    <3>6. QED
      BY <3>4, <3>5
  <2>8. /\ due' \in Seq(Dues) /\ Len(due') = Len(rest)
        /\ \A x \in 1..Len(rest) : due'[x].key = rest[x].key /\ due'[x].lost = Flags
    <3>1. DOMAIN rest = 1..Len(rest) /\ Len(rest) \in Nat
      BY <2>7
    <3>2. ASSUME NEW x \in 1..Len(rest)
          PROVE  /\ due'[x] \in Dues /\ due'[x].key = rest[x].key /\ due'[x].lost = Flags
      <4>1. due'[x] = [rest[x] EXCEPT !.lost = Flags]
        BY <2>6, <3>1
      <4>2. rest[x] \in Dues
        BY <2>7, <3>2, ElementOfSeq
      <4>3. QED
        BY <4>1, <4>2 DEF Dues
    <3>3. due' = [i \in 1..Len(rest) |-> due'[i]]
      BY <2>6, <3>1
    <3>4. due' \in [1..Len(rest) -> Dues]
      BY <3>2, <3>3
    <3>5. due' \in Seq(Dues)
      BY <3>1, <3>4
    <3>6. DOMAIN due' = 1..Len(rest)
      BY <3>4
    <3>7. Len(due') = Len(rest)
      BY <3>1, <3>5, <3>6, LenProperties
    <3>8. QED
      BY <3>2, <3>5, <3>7
  <2>9. PICK P1 : P1 = {i \in 0..m : i >= 1 /\ queue'[i] = E0}
    OBVIOUS
  <2>10. PICK B, U, D :
           /\ B = {i \in 1..m : i - 1 \notin P1 /\ queue'[i].code \in Shifts}
           /\ D = {i \in 1..m : i - 1 \notin P1 /\ queue'[i].code = "lctrl"}
           /\ U = {i \in 1..m : queue'[i].up = FALSE}
    OBVIOUS
  <2>11. PICK S1 \in SUBSET (0..m) :
           /\ 0 \in S1 <=> shift = TRUE
           /\ \A i \in 1..m : i \in S1 <=> IF i \in B THEN i \in U ELSE i - 1 \in S1
    BY <1>4, LastOne
  <2>12. PICK C1 \in SUBSET (0..m) :
           /\ 0 \in C1 <=> ctrl = TRUE
           /\ \A i \in 1..m : i \in C1 <=> IF i \in D THEN i \in U ELSE i - 1 \in C1
    BY <1>4, LastOne
  <2>13. PICK N1 : N1 = [i \in 0..m |-> IF i = m THEN N[m] - N[1] ELSE N[i + 1] - N[1]]
    OBVIOUS
  <2>14. Answer.code = "answer" /\ Answer # E0 /\ Answer.code \notin Typing
    <3>1. Answer.code = "answer" /\ E0.code = "E0"
      BY DEF Answer, E0, Byte
    <3>2. "answer" \notin Typing
      BY DEF Typing, Letters
    <3>3. QED
      BY <3>1, <3>2
  <2>15. N1 \in [0..m -> Nat] /\ \A i, j \in 0..m : i <= j => N1[i] <= N1[j]
    <3>1. \A i \in 1..m : N[1] <= N[i] /\ N[i] \in Nat
      <4>1. TAKE i \in 1..m
      <4>2. i \in 0..m /\ 1 \in 0..m /\ 1 <= i
        BY <1>4, <2>1
      <4>3. QED
        BY <2>3, <2>4, <4>2
    <3>2. \A i \in 0..m : \E k \in 1..m : /\ N1[i] = N[k] - N[1]
                                          /\ k = IF i = m THEN m ELSE i + 1
      <4>1. TAKE i \in 0..m
      <4>2. PICK k : k = IF i = m THEN m ELSE i + 1
        OBVIOUS
      <4>3. k \in 1..m
        BY <1>4, <2>1, <4>2
      <4>4. N1[i] = N[k] - N[1]
        BY <2>13, <4>2
      <4>5. QED
        BY <4>2, <4>3, <4>4
    <3>3. \A i \in 0..m : N1[i] \in Nat
      <4>1. TAKE i \in 0..m
      <4>2. PICK k \in 1..m : N1[i] = N[k] - N[1]
        BY <3>2
      <4>3. N[1] <= N[k] /\ N[k] \in Nat /\ N[1] \in Nat
        BY <2>7, <3>1
      <4>4. QED
        BY <4>2, <4>3
    <3>4. ASSUME NEW i \in 0..m, NEW j \in 0..m, i <= j PROVE N1[i] <= N1[j]
      <4>1. PICK k \in 1..m : N1[i] = N[k] - N[1] /\ k = IF i = m THEN m ELSE i + 1
        BY <3>2
      <4>2. PICK l \in 1..m : N1[j] = N[l] - N[1] /\ l = IF j = m THEN m ELSE j + 1
        BY <3>2
      <4>3. k <= l /\ k \in 0..m /\ l \in 0..m
        BY <1>4, <3>4, <4>1, <4>2
      <4>4. N[k] <= N[l] /\ N[k] \in Nat /\ N[l] \in Nat /\ N[1] \in Nat
        BY <2>3, <2>4, <2>7, <4>3
      <4>5. QED
        BY <4>1, <4>2, <4>4
    <3>5. N1 \in [0..m -> Nat]
      <4>1. N1 = [i \in 0..m |-> N1[i]]
        BY <2>13
      <4>2. QED
        BY <3>3, <4>1
    <3>6. QED
      BY <3>4, <3>5
  <2>16. N1[0] = 0 /\ N1[m] = Len(due')
    <3>1. 0 \in 0..m /\ m \in 0..m /\ 0 # m /\ 0 + 1 = 1
      BY <1>4, <2>1
    <3>2. N1[0] = N[1] - N[1] /\ N1[m] = N[m] - N[1]
      BY <2>13, <3>1
    <3>3. QED
      BY <2>3, <2>7, <2>8, <3>2
  <2>17. ASSUME NEW i \in 1..m PROVE OneByte(S1, C1, P1, N1, i)'
    <3>1. i \in 0..m /\ i - 1 \in 0..m /\ i >= 1
      BY <1>4
    <3>2. i - 1 \in P1 => queue'[i].code \notin Typing
      <4>1. SUFFICES ASSUME i - 1 \in P1, i # m PROVE queue[i + 1].code \notin Typing
        BY <1>5, <2>14
      <4>2. i - 1 \in 1..m /\ i - 1 # m /\ (i - 1) + 1 = i /\ queue'[i - 1] = E0
        BY <1>4, <2>9, <3>1, <4>1
      <4>3. queue[i] = E0
        BY <1>5, <4>2
      <4>4. i + 1 \in 1..m /\ (i + 1) - 1 = i
        BY <1>4, <4>1
      <4>5. FlagsAt(S, C, P, i) /\ FlagsAt(S, C, P, i + 1)
        BY <2>3, <4>4 DEF OneByte
      <4>6. i \in P
        BY <4>3, <4>5 DEF FlagsAt
      <4>7. QED
        BY <4>4, <4>5, <4>6 DEF FlagsAt
    <3>3. i \in P1 <=> queue'[i] = E0
      BY <2>9, <3>1
    <3>4. (i \in B <=> i - 1 \notin P1 /\ queue'[i].code \in Shifts) /\ (i \in U <=> queue'[i].up = FALSE)
          /\ (i \in D <=> i - 1 \notin P1 /\ queue'[i].code = "lctrl")
      BY <2>10
    <3>5. FlagsAt(S1, C1, P1, i)'
      BY <2>11, <2>12, <3>2, <3>3, <3>4 DEF FlagsAt
    <3>6. CASE i = m
      <4>1. ~IsCharacter(i)'
        BY <1>5, <2>14, <3>6 DEF IsCharacter
      <4>2. N1[m] = N[m] - N[1] /\ N1[m - 1] = N[m] - N[1]
        <5>1. m - 1 \in 0..m /\ m - 1 # m /\ (m - 1) + 1 = m /\ m \in 0..m
          BY <1>4, <3>1, <3>6
        <5>2. QED
          BY <2>13, <5>1
      <4>3. QED
        BY <3>5, <3>6, <4>1, <4>2 DEF OneByte
    <3>7. CASE i # m
      <4>1. PICK k : k = i + 1
        OBVIOUS
      <4>2. /\ k \in 1..m /\ k - 1 = i /\ k \in 0..m /\ 1 \in 0..m /\ 1 <= i
            /\ i - 1 # m /\ (i - 1) + 1 = i
        BY <1>4, <3>7, <4>1
      <4>3. OneByte(S, C, P, N, k) /\ queue'[i] = queue[k]
        BY <1>5, <2>3, <3>7, <4>1, <4>2
      <4>4. N1[i] = N[k] - N[1] /\ N1[i - 1] = N[k - 1] - N[1]
        BY <2>13, <3>1, <3>7, <4>1, <4>2
      <4>5. N[k] \in Nat /\ N[k - 1] \in Nat /\ N[1] \in Nat /\ N[1] <= N[k - 1]
        BY <2>3, <2>4, <3>1, <4>2
      <4>6. IsCharacter(i)' <=> IsCharacter(k)
        BY <4>3 DEF IsCharacter
      <4>7. CASE IsCharacter(k)
        <5>1. N[k] = N[k - 1] + 1 /\ N[k] <= Len(due) /\ due[N[k]].key = queue[k].code
          BY <4>3, <4>7 DEF OneByte, Matches
        <5>2. N[k] \in 1..Len(due) /\ N[k] > N[1]
          BY <2>7, <4>5, <5>1
        <5>3. N1[i] = N1[i - 1] + 1 /\ N1[i] \in 1..Len(rest)
          <6>1. Len(rest) = Len(due) - N[1] /\ Len(due) \in Nat
            BY <2>7
          <6>2. N[k] - N[1] = N[k - 1] - N[1] + 1 /\ N[k] - N[1] \in 1..(Len(due) - N[1])
            BY <4>5, <5>1, <5>2, <6>1
          <6>3. QED
            BY <4>4, <6>1, <6>2, Zenon
        <5>4. rest[N1[i]] = due[N[k]]
          BY <2>7, <4>4, <5>2
        <5>5. N1[i] <= Len(due') /\ due'[N1[i]].key = queue'[i].code /\ due'[N1[i]].lost = Flags
          BY <2>8, <4>3, <5>1, <5>3, <5>4
        <5>6. Matches(due[N1[i]], i, i - 1 \in S1, i - 1 \in C1)'
          BY <5>5 DEF Matches, Flags
        <5>7. QED
          BY <3>5, <4>6, <4>7, <5>3, <5>5, <5>6, Zenon DEF OneByte
      <4>8. CASE ~IsCharacter(k)
        <5>1. N1[i] = N1[i - 1]
          BY <4>3, <4>4, <4>8 DEF OneByte
        <5>2. QED
          BY <3>5, <4>6, <4>8, <5>1, Zenon DEF OneByte
      <4>9. QED
        BY <4>7, <4>8
    <3>8. QED
      BY <3>6, <3>7
  <2>18. AtTheEnd(S1, C1, P1, N1, m)'
    <3>1. m \in 1..m /\ m \in 0..m
      BY <1>4, <2>1
    <3>2. m \notin P1
      BY <1>5, <2>9, <2>14, <3>1
    <3>3. QED
      BY <2>1, <2>16, <3>2 DEF AtTheEnd, Flags
  <2>19. 0 \in P1 <=> prefix' = TRUE
    BY <1>1, <1>2, <2>9
  <2>20. Follows(S1, C1, P1, N1)'
    BY <1>2, <1>5, <2>11, <2>12, <2>15, <2>16, <2>17, <2>18, <2>19 DEF Follows
  <2>21. S1 \in Ways' /\ C1 \in Ways' /\ P1 \in Ways' /\ N1 \in [0..Len(queue') -> Nat]
    BY <1>5, <2>9, <2>15 DEF Ways
  <2>22. HasAWay'
    BY <2>20, <2>21 DEF HasAWay
  <2>23. lost' \subseteq Flags /\ due' \in Seq(Dues)
    BY <2>1, <2>8
  <2>24. QED
    BY <1>1, <1>2, <1>5, <2>22, <2>23 DEF DecoderInv, DecoderTypes
<1>8. QED
  BY <1>6, <1>7

\* The actions of keyboard_get_event.
Reads ==
  ReadPrefix \/ ReadExtended \/ ReadShift \/ ReadCtrl \/ ReadNothing \/ ReadCharacter

\* keyboard_init is not run again.
LEMMA StartsOnce ==
  ASSUME Reads
  PROVE  ~Starting'
<1>1. pc \in {"line", "ask", "editor"}
  BY DEF Reads, ReadPrefix, ReadExtended, ReadShift, ReadCtrl, ReadNothing, ReadCharacter,
         Plain, Take, Reading
<1>2. CASE ReadPrefix \/ ReadExtended \/ ReadShift \/ ReadCtrl \/ ReadNothing
  BY <1>1, <1>2 DEF ReadPrefix, ReadExtended, ReadShift, ReadCtrl, ReadNothing, reader, Starting
<1>3. CASE ReadCharacter
  <2>1. \A s : PromptOn(s) => pc' = "line"
    BY DEF PromptOn
  <2>2. CASE pc = "line"
    <3>1. Edit(Event.ch)
      BY <1>3, <2>2 DEF ReadCharacter
    <3>2. pc' = "line" \/ pc' = "ask" \/ pc' = pc
      BY <2>1, <3>1, Zenon DEF Edit, Handle
    <3>3. QED
      BY <1>1, <3>2 DEF Starting
  <2>3. CASE pc = "ask"
    <3>1. Reply(Event.ch)
      BY <1>3, <2>3 DEF ReadCharacter
    <3>2. pc' = "line" \/ pc' = "editor" \/ pc' = pc
      BY <2>1, <3>1, Zenon DEF Reply, reader
    <3>3. QED
      BY <1>1, <3>2 DEF Starting
  <2>4. CASE pc = "editor"
    <3>1. EditorKey(Event)
      BY <1>3, <2>4 DEF ReadCharacter
    <3>2. pc' = "line" \/ pc' = pc
      BY <2>1, <3>1, Zenon DEF EditorKey, reader
    <3>3. QED
      BY <1>1, <3>2 DEF Starting
  <2>5. QED
    BY <1>1, <2>2, <2>3, <2>4
<1>4. QED
  BY <1>2, <1>3 DEF Reads

LEMMA ReadsTake ==
  ASSUME DecoderInv, Reads
  PROVE  Takes
<1>1. /\ queue \in Seq(Sent) /\ shift \in BOOLEAN /\ ctrl \in BOOLEAN /\ prefix \in BOOLEAN
  BY DEF DecoderInv, DecoderTypes
<1>2. queue # <<>> /\ queue' = Tail(queue) /\ UNCHANGED <<held, lost, half>> /\ ~Starting'
  BY StartsOnce DEF Reads, ReadPrefix, ReadExtended, ReadShift, ReadCtrl, ReadNothing,
                    ReadCharacter, Plain, Take
<1>3. PICK b : b = queue[1]
  OBVIOUS
<1>4. Next1 = b /\ b \in Sent
  BY <1>1, <1>2, <1>3, ElementOfSeq, HeadTailProperties DEF Next1
<1>5. b.up \in BOOLEAN
  BY <1>4, SentFields
<1>6. /\ Shifts \cap Typing = {} /\ "lctrl" \notin Shifts \cup Typing
  BY DEF Shifts, Typing, Letters
<1>7. E0.code = "E0" /\ E0.code \notin Shifts \cup {"lctrl"} \cup Typing
  BY DEF E0, Byte, Shifts, Typing, Letters
<1>8. ASSUME /\ shift' \in BOOLEAN /\ ctrl' \in BOOLEAN /\ prefix' \in BOOLEAN
             /\ prefix' = TRUE <=> b = E0
             /\ shift' = TRUE <=> IF prefix = FALSE /\ b.code \in Shifts
                                  THEN b.up = FALSE ELSE shift = TRUE
             /\ ctrl' = TRUE <=> IF prefix = FALSE /\ b.code = "lctrl"
                                 THEN b.up = FALSE ELSE ctrl = TRUE,
             \/ /\ prefix = FALSE /\ b.code \in Typing /\ b.up = FALSE
                /\ due' = (IF due = <<>> THEN due ELSE Tail(due))
             \/ /\ ~(prefix = FALSE /\ b.code \in Typing /\ b.up = FALSE)
                /\ due' = due
      PROVE  Takes
  BY <1>2, <1>3, <1>8, Zenon DEF Takes, TakesCharacter
<1>9. CASE ReadPrefix
  <2>1. b = E0 /\ prefix' = TRUE /\ UNCHANGED <<shift, ctrl, due>>
    BY <1>4, <1>9 DEF ReadPrefix
  <2>2. QED
    BY <1>1, <1>7, <1>8, <2>1
<1>10. CASE ReadExtended
  <2>1. b # E0 /\ prefix = TRUE /\ prefix' = FALSE /\ UNCHANGED <<shift, ctrl, due>>
    BY <1>1, <1>4, <1>10 DEF ReadExtended
  <2>2. QED
    BY <1>1, <1>8, <2>1
<1>11. ASSUME ReadShift \/ ReadCtrl \/ ReadNothing \/ ReadCharacter
       PROVE  b # E0 /\ prefix = FALSE /\ prefix' = FALSE
  BY <1>1, <1>4, <1>11 DEF ReadShift, ReadCtrl, ReadNothing, ReadCharacter, Plain
<1>12. CASE ReadShift
  <2>1. b.code \in Shifts /\ shift' = ~b.up /\ UNCHANGED <<ctrl, due>>
    BY <1>4, <1>12 DEF ReadShift
  <2>2. shift' \in BOOLEAN /\ (shift' = TRUE <=> b.up = FALSE)
    BY <1>5, <2>1
  <2>3. b.code # "lctrl" /\ b.code \notin Typing
    BY <1>6, <2>1
  <2>4. QED
    BY <1>1, <1>8, <1>11, <1>12, <2>1, <2>2, <2>3
<1>13. CASE ReadCtrl
  <2>1. b.code = "lctrl" /\ ctrl' = ~b.up /\ UNCHANGED <<shift, due>>
    BY <1>4, <1>13 DEF ReadCtrl
  <2>2. ctrl' \in BOOLEAN /\ (ctrl' = TRUE <=> b.up = FALSE)
    BY <1>5, <2>1
  <2>3. b.code \notin Shifts /\ b.code \notin Typing
    BY <1>6, <2>1
  <2>4. QED
    BY <1>1, <1>8, <1>11, <1>13, <2>1, <2>2, <2>3
<1>14. CASE ReadNothing
  <2>1. b.code \notin Shifts /\ b.code # "lctrl" /\ UNCHANGED <<shift, ctrl, due>>
        /\ (b.up = TRUE \/ b.code \notin Typing)
    BY <1>4, <1>5, <1>14 DEF ReadNothing
  <2>2. QED
    BY <1>1, <1>8, <1>11, <1>14, <2>1
<1>15. CASE ReadCharacter
  <2>1. b.code \in Typing /\ b.up = FALSE /\ UNCHANGED <<shift, ctrl>>
        /\ due' = (IF due = <<>> THEN due ELSE Tail(due))
    BY <1>4, <1>5, <1>15 DEF ReadCharacter
  <2>2. b.code \notin Shifts /\ b.code # "lctrl"
    BY <1>6, <2>1
  <2>3. QED
    BY <1>1, <1>8, <1>11, <1>15, <2>1, <2>2
<1>16. QED
  BY <1>9, <1>10, <1>12, <1>13, <1>14, <1>15 DEF Reads

LEMMA DecoderNext == DecoderInv /\ [Next]_vars => DecoderInv'
<1> SUFFICES ASSUME DecoderInv, [Next]_vars PROVE DecoderInv'
  OBVIOUS
<1>1. CASE Waits \/ UNCHANGED vars
  <2>1. UNCHANGED <<held, queue, shift, ctrl, prefix, pc, due, lost, half>>
    BY <1>1 DEF Waits, vars, keyboard, decoder, reader
  <2>2. Shifted' = Shifted
    BY <2>1 DEF Shifted
  <2>3. HasAWay'
    BY <2>1, <2>2, SameBytes
  <2>4. QED
    BY <2>1, <2>3 DEF DecoderInv, DecoderTypes, Starting
<1>2. CASE \E k \in Keys : Press(k) \/ Release(k)
  BY <1>2, PressStep, ReleaseStep
<1>3. CASE Drain \/ Enable
  BY <1>3, DrainStep, EnableStep
<1>4. CASE Reads
  BY <1>4, ReadsTake, TakeStep
<1>5. QED
  BY <1>1, <1>2, <1>3, <1>4 DEF Next, Reads

LEMMA DecoderInvariant == Spec => []DecoderInv
BY DecoderInit, DecoderNext, PTL DEF Spec

\* When all bytes are read no character is missing, and the flags tell what is held
\* down, but for a flag whose last byte was lost and for a shift that is still held
\* when the other one has been let go.
THEOREM FlagsFollowKeys == Spec => []FlagsTrue
<1>1. DecoderInv => FlagsTrue
  <2>1. queue # <<>> => FlagsTrue
    BY DEF FlagsTrue
  <2>2. QED
    BY <2>1, NoBytes
<1>2. QED
  BY <1>1, DecoderInvariant, PTL

\* Every character is the one of the key that is due, in the order in which the keys
\* went down, whatever bytes were lost before; and it has the shift and control keys
\* as they were then, with the exceptions of FlagsTrue.
THEOREM CharactersInOrder == Spec => KeysInOrder
<1>1. DecoderInv /\ [Next]_vars => [ReadCharacter => IsDue]_vars
  <2>1. ASSUME DecoderInv PROVE ReadCharacter => IsDue
    BY <2>1, CharacterIsDue
  <2>2. QED
    BY <2>1
<1>2. KeysInOrder <=> [][ReadCharacter => IsDue]_vars
  BY DEF KeysInOrder, IsDue
<1>3. QED
  BY <1>1, <1>2, DecoderInvariant, PTL DEF Spec
-------------------------------------------------------------------------------
\* The screen.

\* What is written.  (The provers do not know that a literal is a string.)
Signs == STRING \cup Characters \cup {Blank, NL, BS, ">", "?", "e"}

Screens == [cell : [Cells -> Signs], row : 0..(Height - 1), col : 0..(Width - 1)]

\* Nothing stands at the cursor and after it.
Fresh(s) == \A i \in Cells : i >= Place(s) => s.cell[i] = Blank

LEMMA RowSize ==
  ASSUME NEW w \in Nat, NEW h \in Nat, NEW r \in Nat, r < h
  PROVE  /\ r * w \in Nat /\ r * w + w <= w * h
         /\ (r + 1) * w = r * w + w
         /\ r = h - 1 => r * w + w = w * h
<1>1. r * w \in Nat /\ (r + 1) * w = r * w + w
  OBVIOUS
<1>2. r = h - 1 => r * w + w = w * h
  OBVIOUS
<1>3. r * w + w <= w * h
  <2>1. PICK k \in Nat : h = r + 1 + k
    <3>1. h - r - 1 \in Nat /\ h = r + 1 + (h - r - 1)
      OBVIOUS
    <3>2. QED
      BY <3>1
  <2>2. w * h = r * w + w + k * w /\ k * w \in Nat
    BY <2>1
  <2>3. QED
    BY <1>1, <2>2
<1>4. QED
  BY <1>1, <1>2, <1>3

LEMMA ScreenFields ==
  ASSUME NEW s \in Screens
  PROVE  /\ s.cell \in [Cells -> Signs] /\ s.row \in Nat /\ s.col \in Nat
         /\ s.row < Height /\ s.col < Width
         /\ Width \in Nat /\ Height \in Nat /\ Width * Height \in Nat
         /\ s = [cell |-> s.cell, row |-> s.row, col |-> s.col]
         /\ Place(s) \in Nat /\ Place(s) \in Cells
<1>1. /\ s.cell \in [Cells -> Signs] /\ s.row \in Nat /\ s.col \in Nat
      /\ s.row < Height /\ s.col < Width /\ Width \in Nat /\ Height \in Nat
  BY ConsoleAssumption DEF Screens
<1>2. s = [cell |-> s.cell, row |-> s.row, col |-> s.col]
  BY DEF Screens
<1>3. PICK p, size : p = s.row * Width /\ size = Width * Height
  OBVIOUS
<1>4. p \in Nat /\ p + Width <= size /\ size \in Nat
  <2>1. size \in Nat
    BY <1>1, <1>3
  <2>2. p \in Nat /\ p + Width <= size
    BY <1>1, <1>3, RowSize
  <2>3. QED
    BY <2>1, <2>2
<1>5. p + s.col \in Nat /\ p + s.col \in 0..(size - 1)
  BY ONLY <1>1, <1>4
<1>6. QED
  BY <1>1, <1>2, <1>3, <1>4, <1>5 DEF Place, Cells

\* Induction on the numbers up to k: a set with 0 that is closed under successors.
LEMMA UpTo ==
  ASSUME NEW k \in Nat, NEW G, 0 \in G, \A m \in 0..(k - 1) : m \in G => m + 1 \in G
  PROVE  \A m \in 0..k : m \in G
<1> DEFINE bad == {m \in 0..k : m \notin G}
<1>1. SUFFICES ASSUME bad # {} PROVE FALSE
  OBVIOUS
<1>2. bad \subseteq Nat
  OBVIOUS
<1>8. IsWellFoundedOn(OpToRel(<, Nat), Nat)
  BY NatLessThanWellFounded
<1>3. PICK x \in bad : \A y \in bad : ~(<<y, x>> \in OpToRel(<, Nat))
  BY ONLY <1>1, <1>2, <1>8, WFMin
<1>4. x \in 0..k /\ x \notin G /\ x # 0
  BY <1>3
<1>5. x - 1 \in 0..(k - 1) /\ x - 1 \in 0..k /\ x - 1 < x /\ (x - 1) + 1 = x
      /\ x - 1 \in Nat /\ x \in Nat
  BY <1>4
<1>6. x - 1 \notin bad
  BY <1>3, <1>5 DEF OpToRel
<1>7. QED
  BY <1>4, <1>5, <1>6

\* console_write puts one character after the other, in a set of screens that
\* console_putc does not leave.
LEMMA WriteStays ==
  ASSUME NEW S, NEW s \in S, NEW text \in Seq(Signs),
         \A t \in S, ch \in Signs : Putc(t, ch) \in S
  PROVE  Write(s, text) \in S
<1> DEFINE k == Len(text)
           Steps(g, m) == g = [n \in 0..m |-> IF n = 0 THEN s ELSE Putc(g[n - 1], text[n])]
           G == {m \in 0..k : \E g \in [0..m -> S] : Steps(g, m)}
<1>1. k \in Nat /\ \A n \in 1..k : text[n] \in Signs
  BY LenProperties, ElementOfSeq
<1>2. 0 \in G
  <2>1. PICK g : g = [n \in 0..0 |-> s]
    OBVIOUS
  <2>2. g \in [0..0 -> S] /\ Steps(g, 0)
    BY <2>1
  <2>3. QED
    BY <1>1, <2>2
<1>3. ASSUME NEW m \in 0..(k - 1), m \in G PROVE m + 1 \in G
  <2>1. PICK g \in [0..m -> S] : Steps(g, m)
    BY <1>3
  <2>2. PICK l : l = m + 1
    OBVIOUS
  <2>3. m \in Nat /\ l \in 1..k /\ l - 1 = m /\ l \in 0..k /\ m \in 0..m
    BY <1>1, <2>2
  <2>4. PICK t : t = Putc(g[m], text[l])
    OBVIOUS
  <2>5. t \in S
    BY <1>1, <2>3, <2>4
  <2>6. PICK h : h = [n \in 0..l |-> IF n = l THEN t ELSE g[n]]
    OBVIOUS
  <2>7. \A n \in 0..l : n = l \/ n \in 0..m
    BY <2>2, <2>3
  <2>8. h \in [0..l -> S]
    BY <2>5, <2>6, <2>7
  <2>9. \A n \in 0..l : h[n] = IF n = 0 THEN s ELSE Putc(h[n - 1], text[n])
    <3>1. TAKE n \in 0..l
    <3>2. CASE n = l
      <4>1. h[n] = t /\ h[n - 1] = g[m] /\ n # 0
        BY <2>3, <2>6, <3>2
      <4>2. QED
        BY <2>4, <3>2, <4>1
    <3>3. CASE n # l
      <4>1. n \in 0..m /\ h[n] = g[n]
        BY <2>6, <2>7, <3>3
      <4>2. g[n] = IF n = 0 THEN s ELSE Putc(g[n - 1], text[n])
        BY <2>1, <4>1
      <4>3. n # 0 => n - 1 \in 0..l /\ n - 1 # l
        BY <2>2, <2>3, <4>1
      <4>4. n # 0 => h[n - 1] = g[n - 1]
        BY <2>6, <4>3
      <4>5. QED
        BY <4>1, <4>2, <4>4
    <3>4. QED
      BY <3>2, <3>3
  <2>10. Steps(h, l)
    <3>1. h = [n \in 0..l |-> h[n]]
      BY <2>8
    <3>2. QED
      BY <2>9, <3>1
  <2>11. QED
    BY <2>2, <2>3, <2>8, <2>10
<1>4. k \in G
  <2>1. \A m \in 0..k : m \in G
    BY ONLY <1>1, <1>2, <1>3, UpTo
  <2>2. k \in 0..k
    BY <1>1
  <2>3. QED
    BY ONLY <2>1, <2>2
<1>5. PICK g \in [0..k -> S] : Steps(g, k)
  BY <1>4
<1>6. PICK f : f = CHOOSE h : Steps(h, k)
  OBVIOUS
<1>7. Steps(f, k)
  BY <1>5, <1>6
<1>8. Write(s, text) = f[k]
  BY <1>6 DEF Write
<1>9. ASSUME NEW m \in 0..k PROVE f[m] \in S
  <2> DEFINE H == {n \in 0..k : f[n] \in S}
  <2>1. 0 \in H
    BY <1>1, <1>7
  <2>2. ASSUME NEW n \in 0..(k - 1), n \in H PROVE n + 1 \in H
    <3>1. n + 1 \in 0..k /\ n + 1 \in 1..k /\ (n + 1) - 1 = n /\ n + 1 # 0
      BY <1>1
    <3>2. f[n + 1] = Putc(f[n], text[n + 1])
      BY <1>7, <3>1
    <3>3. QED
      BY <1>1, <2>2, <3>1, <3>2
  <2>3. \A n \in 0..k : n \in H
    BY ONLY <1>1, <2>1, <2>2, UpTo
  <2>4. QED
    BY <2>3
<1>10. k \in 0..k
  BY <1>1
<1>11. QED
  BY <1>8, <1>9, <1>10

\* Two sequences of screens that begin alike and go on alike are one.
LEMMA WriteOne ==
  ASSUME NEW s \in Screens, NEW ch \in Signs,
         \A t \in Screens, c \in Signs : Putc(t, c) \in Screens
  PROVE  Write(s, <<ch>>) = Putc(s, ch)
<1>1. PICK t : t = Putc(s, ch)
  OBVIOUS
<1>2. PICK text : text = <<ch>>
  OBVIOUS
<1>3. Len(text) = 1 /\ text[1] = ch
  BY <1>2
<1> DEFINE Steps(g) == g = [n \in 0..1 |-> IF n = 0 THEN s ELSE Putc(g[n - 1], text[n])]
<1>4. PICK h : h = [n \in 0..1 |-> IF n = 0 THEN s ELSE t]
  OBVIOUS
<1>5. Steps(h)
  <2>1. \A n \in 0..1 : (IF n = 0 THEN s ELSE t) = IF n = 0 THEN s ELSE Putc(h[n - 1], text[n])
    <3>1. \A n \in 0..1 : n = 0 \/ n = 1
      OBVIOUS
    <3>2. h[1 - 1] = s
      BY <1>4
    <3>3. QED
      BY <1>1, <1>3, <3>1, <3>2
  <2>2. QED
    BY <1>4, <2>1
<1>6. PICK f : f = CHOOSE g : Steps(g)
  OBVIOUS
<1>7. Steps(f)
  BY <1>5, <1>6
<1>8. Write(s, text) = f[1]
  BY <1>3, <1>6 DEF Write
<1>9. f[0] = s /\ f[1] = Putc(f[1 - 1], text[1])
  BY <1>7
<1>10. 1 - 1 = 0
  OBVIOUS
<1>11. QED
  BY ONLY <1>2, <1>3, <1>8, <1>9, <1>10

\* console_set_cursor.
LEMMA MovedFields ==
  ASSUME NEW s \in Screens, NEW r \in 0..(Height - 1), NEW c \in 0..(Width - 1)
  PROVE  /\ Moved(s, r, c) \in Screens
         /\ Moved(s, r, c).cell = s.cell /\ Moved(s, r, c).row = r /\ Moved(s, r, c).col = c
<1>1. PICK rows, cols, cells : /\ rows = 0..(Height - 1) /\ cols = 0..(Width - 1)
                               /\ cells = [Cells -> Signs]
  OBVIOUS
<1>2. Screens = [cell : cells, row : rows, col : cols]
  BY <1>1 DEF Screens
<1>3. s \in [cell : cells, row : rows, col : cols] /\ r \in rows /\ c \in cols
  BY <1>1, <1>2
<1>4. PICK t : t = [s EXCEPT !.row = r, !.col = c]
  OBVIOUS
<1>5. t \in [cell : cells, row : rows, col : cols]
  BY ONLY <1>3, <1>4
<1>6. t.cell = s.cell /\ t.row = r /\ t.col = c
  BY ONLY <1>3, <1>4
<1>7. QED
  BY <1>2, <1>4, <1>5, <1>6 DEF Moved

\* Other cells.
LEMMA RedrawnFields ==
  ASSUME NEW s \in Screens, NEW cell \in [Cells -> Signs]
  PROVE  /\ [s EXCEPT !.cell = cell] \in Screens
         /\ [s EXCEPT !.cell = cell].cell = cell
         /\ [s EXCEPT !.cell = cell].row = s.row
         /\ [s EXCEPT !.cell = cell].col = s.col
<1>1. PICK rows, cols, cells : /\ rows = 0..(Height - 1) /\ cols = 0..(Width - 1)
                               /\ cells = [Cells -> Signs]
  OBVIOUS
<1>2. Screens = [cell : cells, row : rows, col : cols]
  BY <1>1 DEF Screens
<1>3. s \in [cell : cells, row : rows, col : cols] /\ cell \in cells
  BY <1>1, <1>2
<1>4. QED
  BY <1>2, <1>3

\* console_newline.
LEMMA NewLineFields ==
  ASSUME NEW s \in Screens
  PROVE  /\ NewLine(s) \in Screens
         /\ NewLine(s).col = 0
         /\ s.row + 1 < Height => /\ NewLine(s).cell = s.cell
                                  /\ NewLine(s).row = s.row + 1
         /\ s.row + 1 >= Height =>
              /\ NewLine(s).row = s.row
              /\ \A i \in Cells : NewLine(s).cell[i] = IF i + Width \in Cells
                                                       THEN s.cell[i + Width] ELSE Blank
<1>1. /\ s.cell \in [Cells -> Signs] /\ s.row \in Nat /\ s.col \in Nat /\ s.row < Height
      /\ s.col < Width /\ Width \in Nat /\ Height \in Nat
  BY ScreenFields
<1>2. 0 \in 0..(Width - 1)
  BY <1>1
<1>3. CASE s.row + 1 < Height
  <2>1. PICK r : r = s.row + 1
    OBVIOUS
  <2>2. NewLine(s) = Moved(s, r, 0)
    BY <1>3, <2>1 DEF NewLine
  <2>3. r \in 0..(Height - 1)
    BY <1>1, <1>3, <2>1
  <2>4. /\ Moved(s, r, 0) \in Screens
        /\ Moved(s, r, 0).cell = s.cell /\ Moved(s, r, 0).row = r /\ Moved(s, r, 0).col = 0
    BY <1>2, <2>3, MovedFields
  <2>5. QED
    BY <1>1, <1>3, <2>1, <2>2, <2>4
<1>4. CASE ~(s.row + 1 < Height)
  <2>1. PICK up : up = [i \in Cells |-> IF i + Width \in Cells THEN s.cell[i + Width] ELSE Blank]
    OBVIOUS
  <2>2. up \in [Cells -> Signs]
    <3>1. \A i \in Cells : (IF i + Width \in Cells THEN s.cell[i + Width] ELSE Blank) \in Signs
      <4>1. Blank \in Signs
        BY DEF Signs
      <4>2. \A i \in Cells : s.cell[i] \in Signs
        BY <1>1
      <4>3. QED
        BY <4>1, <4>2
    <3>2. QED
      BY <2>1, <3>1
  <2>3. PICK u : u = [s EXCEPT !.cell = up]
    OBVIOUS
  <2>4. u = Scrolled(s)
    BY <2>1, <2>3 DEF Scrolled
  <2>5. u \in Screens /\ u.cell = up
    BY <2>2, <2>3, RedrawnFields
  <2>6. PICK r : r = Height - 1
    OBVIOUS
  <2>7. r \in 0..(Height - 1) /\ r = s.row
    BY <1>1, <1>4, <2>6
  <2>8. NewLine(s) = Moved(u, r, 0)
    BY <1>4, <2>4, <2>6 DEF NewLine
  <2>9. /\ Moved(u, r, 0) \in Screens
        /\ Moved(u, r, 0).cell = u.cell /\ Moved(u, r, 0).row = r /\ Moved(u, r, 0).col = 0
    BY <1>2, <2>5, <2>7, MovedFields
  <2>10. /\ NewLine(s) \in Screens /\ NewLine(s).cell = up /\ NewLine(s).row = s.row
         /\ NewLine(s).col = 0
    BY <2>5, <2>7, <2>8, <2>9
  <2>11. QED
    BY <1>4, <2>1, <2>10
<1>5. QED
  BY <1>3, <1>4

LEMMA NewLineFresh ==
  ASSUME NEW s \in Screens, Fresh(s)
  PROVE  Fresh(NewLine(s))
<1>1. PICK t : t = NewLine(s)
  OBVIOUS
<1>2. /\ s.row \in Nat /\ s.col \in Nat /\ s.row < Height
      /\ s.col < Width /\ Width \in Nat /\ Height \in Nat /\ Place(s) = s.row * Width + s.col
  BY ScreenFields DEF Place
<1>3. PICK base, size, here : /\ base = s.row * Width /\ size = Width * Height
                              /\ here = Place(s)
  OBVIOUS
<1>4. /\ base \in Nat /\ (s.row + 1) * Width = base + Width
      /\ s.row = Height - 1 => base + Width = size
  BY <1>2, <1>3, RowSize
<1>5. t.col = 0
  BY <1>1, NewLineFields
<1>6. size \in Nat /\ Cells = 0..(size - 1)
  BY <1>2, <1>3 DEF Cells
<1>7. CASE s.row + 1 < Height
  <2>1. t.cell = s.cell /\ t.row = s.row + 1
    BY <1>1, <1>7, NewLineFields
  <2>2. Place(t) = base + Width
    BY <1>2, <1>4, <1>5, <2>1 DEF Place
  <2>3. \A i \in Cells : i >= Place(t) => i >= here
    BY <1>2, <1>3, <1>4, <1>6, <2>2
  <2>4. QED
    BY <1>1, <1>3, <2>1, <2>3 DEF Fresh
<1>8. CASE s.row + 1 >= Height
  <2>1. t.row = s.row
    BY <1>1, <1>8, NewLineFields
  <2>2. \A i \in Cells : t.cell[i] = IF i + Width \in Cells THEN s.cell[i + Width] ELSE Blank
    BY <1>1, <1>8, NewLineFields
  <2>3. Place(t) = base
    BY <1>2, <1>3, <1>4, <1>5, <2>1 DEF Place
  <2>4. base + Width = size
    BY <1>2, <1>4, <1>8
  <2>5. \A i \in Cells : i >= Place(t) => i + Width \notin Cells
    BY <1>2, <1>4, <1>6, <2>3, <2>4
  <2>6. QED
    BY <1>1, <2>2, <2>5 DEF Fresh
<1>9. QED
  BY <1>2, <1>7, <1>8

\* The character is in the cell that the cursor leaves; after the last column of the
\* last row that cell is on the row above the cursor.
LEMMA PutFields ==
  ASSUME NEW s \in Screens, NEW ch \in Signs
  PROVE  /\ Put(s, ch) \in Screens
         /\ \/ /\ Place(Put(s, ch)) = Place(s) + 1
               /\ \A i \in Cells : Put(s, ch).cell[i] = IF i = Place(s) THEN ch ELSE s.cell[i]
            \/ /\ Place(Put(s, ch)) + Width = Place(s) + 1
               /\ \A i \in Cells :
                    Put(s, ch).cell[i] =
                      IF i + Width \in Cells
                      THEN IF i + Width = Place(s) THEN ch ELSE s.cell[i + Width]
                      ELSE Blank
<1>1. /\ s.cell \in [Cells -> Signs] /\ s.row \in Nat /\ s.col \in Nat /\ s.row < Height
      /\ s.col < Width /\ Width \in Nat /\ Height \in Nat /\ Place(s) = s.row * Width + s.col
      /\ Place(s) \in Cells
  BY ScreenFields DEF Place
<1>2. PICK here, base, size : /\ here = Place(s) /\ base = s.row * Width
                              /\ size = Width * Height
  OBVIOUS
<1>3. /\ base \in Nat /\ (s.row + 1) * Width = base + Width /\ here = base + s.col
      /\ s.row = Height - 1 => base + Width = size
  BY <1>1, <1>2, RowSize
<1>4. PICK cell : cell = [s.cell EXCEPT ![here] = ch]
  OBVIOUS
<1>5. cell \in [Cells -> Signs] /\ \A i \in Cells : cell[i] = IF i = here THEN ch ELSE s.cell[i]
  BY <1>1, <1>2, <1>4
<1>6. PICK d : d = [s EXCEPT !.cell = cell]
  OBVIOUS
<1>7. d \in Screens /\ d.cell = cell /\ d.row = s.row /\ d.col = s.col
  BY <1>5, <1>6, RedrawnFields
<1>8. d = [s EXCEPT !.cell[Place(s)] = ch]
  BY <1>2, <1>4, <1>6
<1>9. PICK t : t = Put(s, ch)
  OBVIOUS
<1>10. t = IF s.col + 1 = Width THEN NewLine(d) ELSE [d EXCEPT !.col = @ + 1]
  BY <1>8, <1>9 DEF Put
<1>11. CASE s.col + 1 # Width
  <2>1. PICK c : c = s.col + 1
    OBVIOUS
  <2>2. t = [d EXCEPT !.col = c]
    BY <1>7, <1>10, <1>11, <2>1
  <2>3. c \in 0..(Width - 1) /\ d.row \in 0..(Height - 1)
    <3>1. c \in 0..(Width - 1)
      BY <1>1, <1>11, <2>1
    <3>2. s.row \in 0..(Height - 1)
      BY <1>1
    <3>3. QED
      BY <1>7, <3>1, <3>2
  <2>4. t = Moved(d, d.row, c)
    BY <1>7, <2>2 DEF Moved, Screens
  <2>5. t \in Screens /\ t.cell = cell /\ t.row = s.row /\ t.col = c
    BY <1>7, <2>3, <2>4, MovedFields
  <2>6. Place(t) = here + 1
    BY <1>1, <1>2, <1>3, <2>1, <2>5 DEF Place
  <2>7. QED
    BY <1>2, <1>5, <1>9, <2>5, <2>6
<1>12. CASE s.col + 1 = Width
  <2>1. t = NewLine(d)
    BY <1>10, <1>12
  <2>2. t \in Screens /\ t.col = 0
    BY <1>7, <2>1, NewLineFields
  <2>3. CASE s.row + 1 < Height
    <3>1. t.cell = cell /\ t.row = s.row + 1
      BY <1>7, <2>1, <2>3, NewLineFields
    <3>2. Place(t) = base + Width
      BY <1>1, <1>3, <2>2, <3>1 DEF Place
    <3>3. Place(t) = here + 1
      BY <1>1, <1>3, <1>12, <3>2
    <3>4. QED
      BY <1>2, <1>5, <1>9, <2>2, <3>1, <3>3
  <2>4. CASE s.row + 1 >= Height
    <3>1. /\ t.row = s.row
          /\ \A i \in Cells : t.cell[i] = IF i + Width \in Cells THEN cell[i + Width] ELSE Blank
      BY <1>7, <2>1, <2>4, NewLineFields
    <3>2. Place(t) = base
      BY <1>1, <1>2, <1>3, <2>2, <3>1 DEF Place
    <3>3. Place(t) + Width = here + 1
      BY <1>1, <1>3, <1>12, <3>2
    <3>4. \A i \in Cells :
            t.cell[i] = IF i + Width \in Cells
                        THEN IF i + Width = here THEN ch ELSE s.cell[i + Width]
                        ELSE Blank
      BY <1>5, <3>1
    <3>5. QED
      BY <1>2, <1>9, <2>2, <3>3, <3>4
  <2>5. QED
    BY <1>1, <2>3, <2>4
<1>13. QED
  BY <1>11, <1>12

\* A deletion, not in the first column.
LEMMA ErasedFields ==
  ASSUME NEW s \in Screens, s.col > 0
  PROVE  /\ Erased(s) \in Screens
         /\ Place(Erased(s)) = Place(s) - 1
         /\ \A i \in Cells : Erased(s).cell[i] = IF i = Place(s) - 1 THEN Blank ELSE s.cell[i]
<1>1. /\ s.cell \in [Cells -> Signs] /\ s.row \in Nat /\ s.col \in Nat /\ s.row < Height
      /\ s.col < Width /\ Width \in Nat /\ Height \in Nat /\ Place(s) = s.row * Width + s.col
      /\ s.row * Width \in Nat
  BY ScreenFields DEF Place
<1>2. PICK here, c : here = Place(s) - 1 /\ c = s.col - 1
  OBVIOUS
<1>3. c \in 0..(Width - 1) /\ s.row \in 0..(Height - 1)
  BY <1>1, <1>2
<1>4. PICK cell : cell = [s.cell EXCEPT ![here] = Blank]
  OBVIOUS
<1>5. Blank \in Signs
  BY DEF Signs
<1>6. cell \in [Cells -> Signs] /\ \A i \in Cells : cell[i] = IF i = here THEN Blank ELSE s.cell[i]
  BY <1>1, <1>4, <1>5
<1>7. PICK d : d = [s EXCEPT !.cell = cell]
  OBVIOUS
<1>8. d \in Screens /\ d.cell = cell /\ d.row = s.row /\ d.col = s.col
  BY <1>6, <1>7, RedrawnFields
<1>9. PICK t : t = Erased(s)
  OBVIOUS
<1>10. t = [s EXCEPT !.col = c, !.cell[here] = Blank]
  BY <1>2, <1>9 DEF Erased
<1>11. t = Moved(d, s.row, c)
  BY <1>4, <1>7, <1>10 DEF Moved, Screens
<1>12. t \in Screens /\ t.cell = cell /\ t.row = s.row /\ t.col = c
  BY <1>3, <1>8, <1>11, MovedFields
<1>13. Place(t) = here
  BY <1>1, <1>2, <1>12 DEF Place
<1>14. QED
  BY <1>2, <1>6, <1>9, <1>12, <1>13

\* console_putc.
LEMMA PutcKeeps ==
  ASSUME NEW s \in Screens, NEW ch \in Signs
  PROVE  Putc(s, ch) \in Screens /\ (Fresh(s) => Fresh(Putc(s, ch)))
<1>1. CASE ch = NL
  <2>1. Putc(s, ch) = NewLine(s)
    BY <1>1 DEF Putc, NL, BS
  <2>2. QED
    BY <2>1, NewLineFields, NewLineFresh
<1>2. CASE ch = BS
  <2>1. Putc(s, ch) = Erased(s)
    BY <1>2 DEF Putc, NL, BS
  <2>2. CASE s.col > 0
    <3>1. PICK t : t = Erased(s)
      OBVIOUS
    <3>2. /\ t \in Screens /\ Place(t) = Place(s) - 1
          /\ \A i \in Cells : t.cell[i] = IF i = Place(s) - 1 THEN Blank ELSE s.cell[i]
      BY <2>2, <3>1, ErasedFields
    <3>3. PICK here : here = Place(s)
      OBVIOUS
    <3>4. here \in Nat /\ \A i \in Cells : i \in Int
      BY <3>3, ScreenFields DEF Cells
    <3>5. \A i \in Cells : i >= here - 1 => i = here - 1 \/ i >= here
      BY <3>4
    <3>6. Fresh(s) => Fresh(t)
      BY <3>2, <3>3, <3>5 DEF Fresh
    <3>7. QED
      BY <2>1, <3>1, <3>2, <3>6
  <2>3. CASE ~(s.col > 0)
    BY <2>1, <2>3 DEF Erased
  <2>4. QED
    BY <2>2, <2>3
<1>3. CASE ch # NL /\ ch # BS
  <2>1. Putc(s, ch) = Put(s, ch)
    BY <1>3 DEF Putc
  <2>2. PICK t, here : t = Put(s, ch) /\ here = Place(s)
    OBVIOUS
  <2>3. t \in Screens
    BY <2>2, PutFields
  <2>4. ASSUME Fresh(s) PROVE Fresh(t)
    <3>1. here \in Nat /\ Width \in Nat /\ \A i \in Cells : i \in Int
      BY <2>2, ScreenFields DEF Cells
    <3>2. \A i \in Cells : i >= here => s.cell[i] = Blank
      BY <2>2, <2>4 DEF Fresh
    <3>3. PICK next : next = Place(t)
      OBVIOUS
    <3>4. next \in Nat
      BY <2>3, <3>3, ScreenFields
    <3>5. CASE /\ next = here + 1
               /\ \A i \in Cells : t.cell[i] = IF i = here THEN ch ELSE s.cell[i]
      <4>1. next = here + 1
        BY <3>5
      <4>2. \A i \in Cells : i >= next => i # here /\ i >= here
        BY ONLY <3>1, <3>4, <4>1
      <4>3. QED
        BY <3>2, <3>3, <3>5, <4>2 DEF Fresh
    <3>6. CASE /\ next + Width = here + 1
               /\ \A i \in Cells : t.cell[i] = IF i + Width \in Cells
                                               THEN IF i + Width = here THEN ch ELSE s.cell[i + Width]
                                               ELSE Blank
      <4>1. \A i \in Cells : i >= next => i + Width # here /\ i + Width >= here
        BY <3>1, <3>4, <3>6
      <4>2. QED
        BY <3>2, <3>3, <3>6, <4>1 DEF Fresh
    <3>7. QED
      BY <2>2, <3>3, <3>5, <3>6, PutFields
  <2>5. QED
    BY <2>1, <2>2, <2>3, <2>4
<1>4. QED
  BY <1>1, <1>2, <1>3

LEMMA WriteKeeps ==
  ASSUME NEW s \in Screens, NEW text \in Seq(Signs)
  PROVE  Write(s, text) \in Screens /\ (Fresh(s) => Fresh(Write(s, text)))
<1>1. Write(s, text) \in Screens
  <2>1. \A t \in Screens, ch \in Signs : Putc(t, ch) \in Screens
    BY PutcKeeps
  <2>2. QED
    BY <2>1, WriteStays
<1>2. ASSUME Fresh(s) PROVE Fresh(Write(s, text))
  <2>1. PICK S : S = {t \in Screens : Fresh(t)}
    OBVIOUS
  <2>2. s \in S /\ \A t \in S, ch \in Signs : Putc(t, ch) \in S
    BY <1>2, <2>1, PutcKeeps
  <2>3. Write(s, text) \in S
    BY <2>2, WriteStays
  <2>4. QED
    BY <2>1, <2>3
<1>3. QED
  BY <1>1, <1>2

-------------------------------------------------------------------------------
\* What was written last is before the cursor.

ShownText(text, s) ==
  \A i \in Cells : i < Place(s) /\ Len(text) + i - Place(s) >= 0 =>
                     s.cell[i] = text[Len(text) + 1 + i - Place(s)]

LEMMA PutShown ==
  ASSUME NEW s \in Screens, NEW text \in Seq(Signs), NEW ch \in Signs, ShownText(text, s)
  PROVE  ShownText(Append(text, ch), Put(s, ch))
<1>1. PICK t, here, next, n, new : /\ t = Put(s, ch) /\ here = Place(s) /\ next = Place(t)
                                   /\ n = Len(text) /\ new = Append(text, ch)
  OBVIOUS
<1>2. t \in Screens
  BY <1>1, PutFields
<1>3. /\ here \in Nat /\ here \in Cells /\ next \in Nat /\ Width \in Nat
      /\ Width * Height \in Nat
  BY <1>1, <1>2, ScreenFields
<1>4. n \in Nat /\ Len(new) = n + 1 /\ new[n + 1] = ch /\ \A j \in 1..n : new[j] = text[j]
  <2>1. n \in Nat
    BY <1>1, LenProperties
  <2>2. Len(new) = n + 1 /\ new[n + 1] = ch /\ \A j \in 1..n : new[j] = text[j]
    BY <1>1, AppendProperties
  <2>3. QED
    BY <2>1, <2>2
<1>5. \A i \in Cells : i < here /\ n + i - here >= 0 => s.cell[i] = text[n + 1 + i - here]
  BY <1>1 DEF ShownText
<1>6. PICK size : Cells = 0..(size - 1) /\ size \in Nat
  BY <1>3 DEF Cells
<1>7. SUFFICES ASSUME NEW i \in Cells, i < next, n + 1 + i - next >= 0
               PROVE  t.cell[i] = new[n + 1 + 1 + i - next]
  BY <1>1, <1>4 DEF ShownText
<1>8. i \in Nat
  BY <1>6
<1>9. CASE /\ next = here + 1
           /\ \A k \in Cells : t.cell[k] = IF k = here THEN ch ELSE s.cell[k]
  <2>1. n + 1 + 1 + i - next = n + 1 + i - here
    BY <1>3, <1>4, <1>8, <1>9
  <2>2. CASE i = here
    <3>1. n + 1 + i - here = n + 1
      BY <1>3, <1>4, <2>2
    <3>2. QED
      BY <1>4, <1>9, <2>1, <2>2, <3>1
  <2>3. CASE i # here
    <3>1. i < here /\ n + i - here >= 0 /\ n + 1 + i - here \in 1..n
      BY <1>3, <1>4, <1>7, <1>8, <1>9, <2>3
    <3>2. QED
      BY <1>4, <1>5, <1>9, <2>1, <2>3, <3>1
  <2>4. QED
    BY <2>2, <2>3
<1>10. CASE /\ next + Width = here + 1
            /\ \A k \in Cells : t.cell[k] = IF k + Width \in Cells
                                            THEN IF k + Width = here THEN ch ELSE s.cell[k + Width]
                                            ELSE Blank
  <2>1. PICK k : k = i + Width
    OBVIOUS
  <2>2. k \in Cells /\ k \in Nat /\ k <= here
    BY <1>3, <1>6, <1>7, <1>8, <1>10, <2>1
  <2>3. t.cell[i] = IF k = here THEN ch ELSE s.cell[k]
    BY <1>10, <2>1, <2>2
  <2>4. n + 1 + 1 + i - next = n + 1 + k - here
    BY <1>3, <1>4, <1>8, <1>10, <2>1
  <2>5. CASE k = here
    <3>1. n + 1 + k - here = n + 1
      BY <1>3, <1>4, <2>5
    <3>2. QED
      BY <1>4, <2>3, <2>4, <2>5, <3>1
  <2>6. CASE k # here
    <3>1. k < here /\ n + k - here >= 0 /\ n + 1 + k - here \in 1..n
      BY <1>3, <1>4, <1>7, <1>8, <1>10, <2>1, <2>2, <2>6
    <3>2. QED
      BY <1>4, <1>5, <2>2, <2>3, <2>4, <2>6, <3>1
  <2>7. QED
    BY <2>5, <2>6
<1>11. QED
  BY <1>1, <1>9, <1>10, PutFields

LEMMA ErasedShown ==
  ASSUME NEW s \in Screens, NEW text \in Seq(Signs), text # <<>>, ShownText(text, s), s.col > 0
  PROVE  ShownText(SubSeq(text, 1, Len(text) - 1), Erased(s))
<1>1. PICK t, here, next, n, new : /\ t = Erased(s) /\ here = Place(s) /\ next = Place(t)
                                   /\ n = Len(text) /\ new = SubSeq(text, 1, n - 1)
  OBVIOUS
<1>2. /\ t \in Screens /\ next = here - 1
      /\ \A i \in Cells : t.cell[i] = IF i = here - 1 THEN Blank ELSE s.cell[i]
  BY <1>1, ErasedFields
<1>3. here \in Nat /\ next \in Nat
  BY <1>1, <1>2, ScreenFields
<1>4. n \in Nat /\ n # 0
  BY <1>1, LenProperties, EmptySeq
<1>5. Len(new) = n - 1 /\ \A j \in 1..(n - 1) : new[j] = text[j]
  BY <1>1, <1>4, SubSeqProperties
<1>6. \A i \in Cells : i < here /\ n + i - here >= 0 => s.cell[i] = text[n + 1 + i - here]
  BY <1>1 DEF ShownText
<1>7. Cells \subseteq Int
  BY DEF Cells
<1>8. SUFFICES ASSUME NEW i \in Cells, i < next, n - 1 + i - next >= 0
               PROVE  t.cell[i] = new[n - 1 + 1 + i - next]
  BY <1>1, <1>5 DEF ShownText
<1>9. /\ i # here - 1 /\ i < here /\ n + i - here >= 0
      /\ n - 1 + 1 + i - next = n + 1 + i - here /\ n + 1 + i - here \in 1..(n - 1)
  BY <1>2, <1>3, <1>4, <1>7, <1>8
<1>10. QED
  BY <1>2, <1>5, <1>6, <1>9

LEMMA SignsBasics ==
  /\ Cleared \in Screens /\ Fresh(Cleared)
  /\ Prompt \in Seq(Signs) /\ Question \in Seq(Signs)
  /\ Seq(Characters) \subseteq Seq(Signs) /\ Outputs \subseteq Seq(Signs)
  /\ NL \in Signs /\ BS \in Signs /\ Characters \subseteq Signs
  /\ NL \notin Characters /\ BS \notin Characters
<1>1. Blank \in Signs /\ NL \in Signs /\ BS \in Signs /\ Characters \subseteq Signs
  BY DEF Signs
<1>2. Cleared \in Screens /\ Fresh(Cleared)
  <2>1. PICK cell : cell = [i \in Cells |-> Blank]
    OBVIOUS
  <2>2. cell \in [Cells -> Signs]
    BY <1>1, <2>1
  <2>3. 0 \in 0..(Height - 1) /\ 0 \in 0..(Width - 1)
    BY ConsoleAssumption
  <2>4. Cleared = [cell |-> cell, row |-> 0, col |-> 0]
    BY <2>1 DEF Cleared
  <2>5. Cleared \in Screens
    BY <2>2, <2>3, <2>4 DEF Screens
  <2>6. Cleared.cell = cell
    BY <2>4
  <2>7. QED
    BY <2>1, <2>5, <2>6 DEF Fresh
<1>3. Prompt \in Seq(Signs) /\ Question \in Seq(Signs)
  <2>1. ">" \in Signs /\ "?" \in Signs
    BY DEF Signs
  <2>2. QED
    BY <2>1 DEF Prompt, Question
<1>4. Seq(Characters) \subseteq Seq(Signs)
  BY <1>1
<1>5. Outputs \subseteq Seq(Signs)
  <2>1. PICK strings : strings = STRING
    OBVIOUS
  <2>2. strings \subseteq Signs
    BY <2>1 DEF Signs
  <2>3. Outputs \subseteq Seq(strings)
    BY <2>1, TerminalAssumption
  <2>4. QED
    BY ONLY <2>2, <2>3
<1>6. NL \notin Characters /\ BS \notin Characters
  BY DEF NL, BS, Characters, Letters
<1>7. QED
  BY <1>1, <1>2, <1>3, <1>4, <1>5, <1>6

\* The screen after a prompt.
LEMMA Prompted ==
  ASSUME NEW s \in Screens, Fresh(s)
  PROVE  LET t == Write(s, Prompt)
         IN  t \in Screens /\ Fresh(t) /\ ShownText(Prompt \o <<>>, t)
<1>1. PICK t : t = Write(s, Prompt)
  OBVIOUS
<1>2. t \in Screens /\ Fresh(t)
  BY <1>1, WriteKeeps, SignsBasics
<1>3. PICK ch : ch = ">"
  OBVIOUS
<1>4. ch \in Signs /\ ch # NL /\ ch # BS /\ Prompt = <<ch>>
  BY <1>3 DEF Signs, NL, BS, Prompt
<1>5. t = Putc(s, ch)
  <2>1. \A u \in Screens, c \in Signs : Putc(u, c) \in Screens
    BY PutcKeeps
  <2>2. Write(s, <<ch>>) = Putc(s, ch)
    BY <1>4, <2>1, WriteOne
  <2>3. QED
    BY <1>1, <1>4, <2>2
<1>6. t = Put(s, ch)
  BY <1>4, <1>5 DEF Putc
<1>7. ShownText(<<>>, s)
  <2>1. Len(<<>>) = 0 /\ Place(s) \in Nat /\ \A i \in Cells : i \in Int
    BY ScreenFields DEF Cells
  <2>2. PICK here, n : here = Place(s) /\ n = Len(<<>>)
    OBVIOUS
  <2>3. \A i \in Cells : ~(i < here /\ n + i - here >= 0)
    BY <2>1, <2>2
  <2>4. QED
    BY <2>2, <2>3 DEF ShownText
<1>8. Append(<<>>, ch) = Prompt \o <<>> /\ <<>> \in Seq(Signs)
  BY <1>4
<1>9. ShownText(Append(<<>>, ch), Put(s, ch))
  BY <1>4, <1>7, <1>8, PutShown
<1>10. QED
  BY <1>1, <1>2, <1>6, <1>8, <1>9

-------------------------------------------------------------------------------
\* The reader's line and screen.

Buffer == Len(queue) <= BufferSize /\ events \in 0..MaxEvents

ScreenInv ==
  /\ con \in Screens
  /\ line \in Seq(Characters) /\ Len(line) < LineSize
  /\ pc \in {"drain", "enable", "line", "ask", "editor"}
  /\ slipped \in BOOLEAN
  /\ pc # "editor" => Fresh(con)
  /\ pc \in {"drain", "enable"} => line = <<>>
  /\ pc = "line" /\ ~slipped => ShownText(Prompt \o line, con)

LEMMA ScreenInit == Init => ScreenInv /\ Buffer
<1> SUFFICES ASSUME Init PROVE ScreenInv /\ Buffer
  OBVIOUS
<1>1. /\ con = Cleared /\ line = <<>> /\ pc = "drain" /\ slipped = FALSE /\ queue = <<>>
      /\ events = MaxEvents
  BY DEF Init
<1>2. line \in Seq(Characters) /\ Len(line) < LineSize
  BY <1>1, TerminalAssumption
<1>3. ScreenInv
  BY <1>1, <1>2, SignsBasics DEF ScreenInv
<1>4. Buffer
  BY <1>1, TerminalAssumption DEF Buffer
<1>5. QED
  BY <1>3, <1>4

\* The next round of shell_run.
LEMMA PromptStep ==
  ASSUME NEW s \in Screens, Fresh(s), PromptOn(s)
  PROVE  ScreenInv'
<1>1. pc' = "line" /\ line' = <<>> /\ con' = Write(s, Prompt) /\ slipped' = FALSE
  BY DEF PromptOn
<1>2. con' \in Screens /\ Fresh(con') /\ ShownText(Prompt \o <<>>, con')
  BY <1>1, Prompted
<1>3. line' \in Seq(Characters) /\ Len(line') < LineSize
  BY <1>1, TerminalAssumption
<1>4. Fresh(con)' /\ ShownText(Prompt \o line, con)'
  BY <1>1, <1>2 DEF Fresh, ShownText, Place, Cells, Prompt
<1>5. QED
  BY <1>1, <1>2, <1>3, <1>4 DEF ScreenInv, Screens, Cells

\* handle_command.
LEMMA HandleStep ==
  ASSUME ScreenInv, pc = "line", NEW s \in Screens, Fresh(s), Handle(s)
  PROVE  ScreenInv'
<1>1. CASE \E t \in Screens : Fresh(t) /\ PromptOn(t)
  BY <1>1, PromptStep
<1>2. CASE pc' = "ask" /\ con' = Write(s, Question) /\ UNCHANGED <<line, slipped>>
  <2>1. Write(s, Question) \in Screens /\ Fresh(Write(s, Question))
    BY WriteKeeps, SignsBasics
  <2>2. con' \in Screens /\ Fresh(con)'
    BY <1>2, <2>1 DEF Fresh, Place, Cells
  <2>3. QED
    BY <1>2, <2>2 DEF ScreenInv, Screens, Cells
<1>3. PromptOn(s) \/ PromptOn(Cleared) => \E t \in Screens : Fresh(t) /\ PromptOn(t)
  BY SignsBasics
<1>4. ASSUME NEW text \in Seq(Signs), PromptOn(Write(s, Append(text, NL)))
      PROVE  \E t \in Screens : Fresh(t) /\ PromptOn(t)
  <2>1. Append(text, NL) \in Seq(Signs)
    BY SignsBasics, AppendProperties
  <2>2. Write(s, Append(text, NL)) \in Screens /\ Fresh(Write(s, Append(text, NL)))
    BY <2>1, WriteKeeps
  <2>3. QED
    BY <1>4, <2>2
<1>5. line \in Seq(Signs) /\ Outputs \subseteq Seq(Signs)
  BY SignsBasics DEF ScreenInv
<1>6. QED
  BY <1>1, <1>2, <1>3, <1>4, <1>5 DEF Handle

\* shell_run, for the characters of a line.
LEMMA EditStep ==
  ASSUME ScreenInv, pc = "line", NEW ch \in Characters \cup {NL, BS}, Edit(ch)
  PROVE  ScreenInv'
<1>1. /\ con \in Screens /\ Fresh(con) /\ line \in Seq(Characters) /\ Len(line) < LineSize
      /\ slipped \in BOOLEAN
      /\ ~slipped => ShownText(Prompt \o line, con)
  BY DEF ScreenInv
<1>2. /\ Prompt \in Seq(Signs) /\ line \in Seq(Signs) /\ Prompt \o line \in Seq(Signs)
      /\ Len(Prompt \o line) = Len(Prompt) + Len(line) /\ Len(Prompt) = 1
      /\ Len(line) \in Nat
  <2>1. Prompt \in Seq(Signs) /\ line \in Seq(Signs)
    BY <1>1, SignsBasics
  <2>2. Prompt \o line \in Seq(Signs) /\ Len(Prompt \o line) = Len(Prompt) + Len(line)
    BY <2>1, ConcatProperties
  <2>3. Len(Prompt) = 1
    BY DEF Prompt
  <2>4. QED
    BY <2>1, <2>2, <2>3, LenProperties
<1>3. CASE ch = NL
  <2>1. Putc(con, NL) \in Screens /\ Fresh(Putc(con, NL))
    BY <1>1, PutcKeeps, SignsBasics
  <2>2. Handle(Putc(con, NL))
    BY <1>3 DEF Edit, NL, BS
  <2>3. QED
    BY <2>1, <2>2, HandleStep
<1>4. CASE ch = BS
  <2>1. /\ UNCHANGED pc
        /\ IF line = <<>> THEN UNCHANGED <<line, con, slipped>>
           ELSE /\ line' = SubSeq(line, 1, Len(line) - 1)
                /\ con' = Putc(con, BS)
                /\ slipped' = (slipped \/ con.col = 0)
    BY <1>4 DEF Edit, NL, BS
  <2>2. CASE line = <<>>
    BY <2>1, <2>2 DEF ScreenInv, Screens, Cells, Fresh, Place, ShownText
  <2>3. CASE line # <<>>
    <3>1. /\ pc' = pc /\ line' = SubSeq(line, 1, Len(line) - 1) /\ con' = Putc(con, BS)
          /\ slipped' = (slipped \/ con.col = 0)
      BY <2>1, <2>3
    <3>2. con' \in Screens /\ Fresh(con')
      BY <1>1, <3>1, PutcKeeps, SignsBasics
    <3>3. line' \in Seq(Characters) /\ Len(line') = Len(line) - 1 /\ Len(line) # 0
      BY <1>1, <1>2, <2>3, <3>1, SubSeqProperties, EmptySeq
    <3>4. Len(line') < LineSize
      BY <1>1, <1>2, <3>3, TerminalAssumption
    <3>5. ASSUME ~slipped' PROVE ShownText(Prompt \o line', con')
      <4>1. ~slipped /\ con.col # 0
        BY <3>1, <3>5
      <4>2. con.col > 0
        BY <1>1, <4>1, ScreenFields
      <4>3. PICK text : text = Prompt \o line
        OBVIOUS
      <4>4. text \in Seq(Signs) /\ Len(text) = 1 + Len(line)
        BY <1>2, <4>3
      <4>5. ShownText(SubSeq(text, 1, Len(text) - 1), Erased(con))
        <5>1. PICK s : s = con
          OBVIOUS
        <5>2. s \in Screens /\ s.col > 0
          BY <1>1, <4>2, <5>1
        <5>6. ShownText(Prompt \o line, con)
          BY <1>1, <4>1
        <5>7. ShownText(text, s)
          BY <4>3, <5>1, <5>6
        <5>3. text # <<>>
          BY <1>2, <4>4
        <5>4. ShownText(SubSeq(text, 1, Len(text) - 1), Erased(s))
          BY ONLY <4>4, <5>2, <5>3, <5>7, ErasedShown
        <5>5. QED
          BY <5>1, <5>4
      <4>6. Putc(con, BS) = Erased(con)
        BY DEF Putc, NL, BS
      <4>7. SubSeq(text, 1, Len(text) - 1) = Prompt \o line'
        <5>1. PICK n, short, cut : /\ n = Len(line) /\ short = line'
                                   /\ cut = SubSeq(text, 1, Len(text) - 1)
          OBVIOUS
        <5>2. n \in Nat /\ n # 0 /\ Len(text) - 1 = n /\ Len(text) = n + 1
          BY <1>2, <3>3, <4>4, <5>1
        <5>3. /\ short \in Seq(Signs) /\ Len(short) = n - 1
              /\ \A i \in 1..(n - 1) : short[i] = line[i]
          BY <1>2, <3>1, <5>1, <5>2, SubSeqProperties
        <5>4. /\ cut \in Seq(Signs) /\ Len(cut) = n /\ \A i \in 1..n : cut[i] = text[i]
          BY <4>4, <5>1, <5>2, SubSeqProperties
        <5>5. PICK whole : whole = Prompt \o short
          OBVIOUS
        <5>6. whole \in Seq(Signs) /\ Len(whole) = n
          BY <1>2, <5>2, <5>3, <5>5, ConcatProperties
        <5>7. \A i \in 1..n : whole[i] = cut[i]
          <6>1. TAKE i \in 1..n
          <6>2. text[i] = IF i <= 1 THEN Prompt[i] ELSE line[i - 1]
            BY <1>2, <4>3, <5>2, ConcatProperties
          <6>3. whole[i] = IF i <= 1 THEN Prompt[i] ELSE short[i - 1]
            BY <1>2, <5>2, <5>3, <5>5, ConcatProperties
          <6>4. i > 1 => i - 1 \in 1..(n - 1)
            BY <5>2
          <6>5. QED
            BY <5>3, <5>4, <6>2, <6>3, <6>4, <5>2
        <5>8. QED
          BY <5>1, <5>4, <5>5, <5>6, <5>7, SeqEqual
      <4>8. QED
        BY <3>1, <4>5, <4>6, <4>7
    <3>6. Fresh(con)' /\ (~slipped' => ShownText(Prompt \o line, con)')
      BY <3>2, <3>5 DEF Fresh, ShownText, Place, Cells, Prompt
    <3>7. slipped' \in BOOLEAN
      BY <3>1
    <3>8. QED
      BY <3>1, <3>2, <3>3, <3>4, <3>6, <3>7 DEF ScreenInv, Screens, Cells
  <2>4. QED
    BY <2>2, <2>3
<1>5. CASE ch \in Characters
  <2>1. ch # NL /\ ch # BS /\ ch \in Signs
    BY <1>5, SignsBasics
  <2>2. /\ UNCHANGED <<pc, slipped>>
        /\ IF Room THEN line' = Append(line, ch) /\ con' = Putc(con, ch)
                   ELSE UNCHANGED <<line, con>>
    BY <2>1 DEF Edit
  <2>3. CASE ~Room
    BY <2>2, <2>3 DEF ScreenInv, Screens, Cells, Fresh, Place, ShownText
  <2>4. CASE Room
    <3>1. pc' = pc /\ slipped' = slipped /\ line' = Append(line, ch) /\ con' = Putc(con, ch)
      BY <2>2, <2>4
    <3>2. con' \in Screens /\ Fresh(con')
      BY <1>1, <2>1, <3>1, PutcKeeps
    <3>3. line' \in Seq(Characters) /\ Len(line') = Len(line) + 1
      BY <1>1, <1>5, <3>1, AppendProperties
    <3>4. Len(line') < LineSize
      BY <2>4, <3>3 DEF Room
    <3>5. ASSUME ~slipped PROVE ShownText(Prompt \o line', con')
      <4>1. ShownText(Append(Prompt \o line, ch), Put(con, ch))
        <5>1. PICK s, text : s = con /\ text = Prompt \o line
          OBVIOUS
        <5>2. s \in Screens /\ text \in Seq(Signs)
          BY <1>1, <1>2, <5>1
        <5>5. ShownText(Prompt \o line, con)
          BY <1>1, <3>5
        <5>6. ShownText(text, s)
          BY <5>1, <5>5
        <5>3. ShownText(Append(text, ch), Put(s, ch))
          BY ONLY <2>1, <5>2, <5>6, PutShown
        <5>7. QED
          BY <5>1, <5>3
      <4>2. Putc(con, ch) = Put(con, ch)
        BY <2>1 DEF Putc
      <4>3. Append(Prompt \o line, ch) = Prompt \o Append(line, ch)
        BY <1>2, <2>1
      <4>4. QED
        BY <3>1, <4>1, <4>2, <4>3
    <3>6. Fresh(con)' /\ (~slipped' => ShownText(Prompt \o line, con)')
      BY <3>1, <3>2, <3>5 DEF Fresh, ShownText, Place, Cells, Prompt
    <3>7. QED
      BY <1>1, <3>1, <3>2, <3>3, <3>4, <3>6 DEF ScreenInv, Screens, Cells
  <2>5. QED
    BY <2>3, <2>4
<1>6. QED
  BY <1>3, <1>4, <1>5

\* prompt_yes_no.
LEMMA ReplyStep ==
  ASSUME ScreenInv, pc = "ask", NEW ch \in Characters \cup {NL, BS}, Reply(ch)
  PROVE  ScreenInv'
<1>1. CASE ch = "y"
  <2>1. /\ pc' = "editor" /\ UNCHANGED <<line, slipped>>
        /\ con' = Moved(Write(Cleared, <<"e">>), Height - 1, 0)
    BY <1>1 DEF Reply
  <2>2. PICK text : text = <<"e">>
    OBVIOUS
  <2>3. text \in Seq(Signs)
    BY <2>2 DEF Signs
  <2>4. PICK t : t = Write(Cleared, text)
    OBVIOUS
  <2>5. t \in Screens
    BY <2>3, <2>4, WriteKeeps, SignsBasics
  <2>6. Height - 1 \in 0..(Height - 1) /\ 0 \in 0..(Width - 1)
    BY ConsoleAssumption
  <2>7. con' \in Screens
    BY <2>1, <2>2, <2>4, <2>5, <2>6, MovedFields
  <2>8. QED
    BY <2>1, <2>7 DEF ScreenInv, Screens, Cells
<1>2. CASE ch \in {"n", "N"}
  <2>1. PromptOn(Write(con, <<ch, NL>>))
    BY <1>2 DEF Reply
  <2>2. <<ch, NL>> \in Seq(Signs)
    <3>1. ch \in Signs /\ NL \in Signs
      BY <1>2 DEF Signs, Characters, Letters
    <3>2. QED
      BY <3>1
  <2>3. Write(con, <<ch, NL>>) \in Screens /\ Fresh(Write(con, <<ch, NL>>))
    BY <2>2, WriteKeeps DEF ScreenInv
  <2>4. QED
    BY <2>1, <2>3, PromptStep
<1>3. CASE ch # "y" /\ ch \notin {"n", "N"}
  <2>1. UNCHANGED reader
    BY <1>3 DEF Reply
  <2>2. QED
    BY <2>1 DEF reader, ScreenInv, Screens, Cells, Fresh, Place, ShownText
<1>4. QED
  BY <1>1, <1>2, <1>3

LEMMA CharacterStep ==
  ASSUME ScreenInv, Next1 \in Sent, ReadCharacter
  PROVE  ScreenInv'
<1>1. Reading /\ Next1.code \in Typing
  BY DEF ReadCharacter, Plain, Take
<1>2. Event.ch \in Characters \cup {NL, BS}
  BY <1>1 DEF Event, Translate, Typing, Letters, Characters, NL, BS
<1>3. /\ pc = "line" => Edit(Event.ch)
      /\ pc = "ask" => Reply(Event.ch)
      /\ pc = "editor" => EditorKey(Event)
  BY DEF ReadCharacter
<1>4. PICK ch : ch = Event.ch
  OBVIOUS
<1>5. CASE pc = "line"
  BY <1>2, <1>3, <1>4, <1>5, EditStep
<1>6. CASE pc = "ask"
  BY <1>2, <1>3, <1>4, <1>6, ReplyStep
<1>7. CASE pc = "editor"
  <2>1. PromptOn(Cleared) \/ UNCHANGED reader
    BY <1>3, <1>7 DEF EditorKey
  <2>2. CASE PromptOn(Cleared)
    BY <2>2, PromptStep, SignsBasics
  <2>3. CASE UNCHANGED reader
    BY <2>3 DEF reader, ScreenInv, Screens, Cells, Fresh, Place, ShownText
  <2>4. QED
    BY <2>1, <2>2, <2>3
<1>8. QED
  BY <1>1, <1>5, <1>6, <1>7 DEF Reading

\* The steps that the reader has no part in.
LEMMA ReaderRests ==
  ASSUME ScreenInv, UNCHANGED reader
  PROVE  ScreenInv'
BY DEF reader, ScreenInv, Screens, Cells, Fresh, Place, ShownText

LEMMA ScreenNext == DecoderInv /\ ScreenInv /\ [Next]_vars => ScreenInv'
<1> SUFFICES ASSUME DecoderInv, ScreenInv, [Next]_vars PROVE ScreenInv'
  OBVIOUS
<1>1. CASE Waits \/ UNCHANGED vars
  BY <1>1, ReaderRests DEF Waits, vars
<1>2. CASE \E k \in Keys : Press(k) \/ Release(k)
  BY <1>2, ReaderRests DEF Press, Release, Send
<1>3. CASE Drain
  BY <1>3 DEF Drain, ScreenInv, Screens, Cells, Fresh, Place, ShownText
<1>4. CASE Enable
  <2>1. /\ pc = "enable" /\ pc' = "line" /\ con' = Write(con, Prompt)
        /\ UNCHANGED <<line, slipped>>
    BY <1>4 DEF Enable
  <2>2. con \in Screens /\ Fresh(con) /\ line = <<>> /\ Len(line) < LineSize /\ slipped \in BOOLEAN
        /\ line \in Seq(Characters)
    BY <2>1 DEF ScreenInv
  <2>3. con' \in Screens /\ Fresh(con') /\ ShownText(Prompt \o <<>>, con')
    BY <2>1, <2>2, Prompted
  <2>4. Fresh(con)' /\ ShownText(Prompt \o line, con)'
    BY <2>1, <2>2, <2>3 DEF Fresh, ShownText, Place, Cells, Prompt
  <2>5. QED
    BY <2>1, <2>2, <2>3, <2>4 DEF ScreenInv, Screens, Cells
<1>5. CASE ReadPrefix \/ ReadExtended \/ ReadShift \/ ReadCtrl \/ ReadNothing
  BY <1>5, ReaderRests DEF ReadPrefix, ReadExtended, ReadShift, ReadCtrl, ReadNothing
<1>6. CASE ReadCharacter
  <2>1. queue \in Seq(Sent) /\ queue # <<>>
    BY <1>6 DEF ReadCharacter, Plain, Take, DecoderInv, DecoderTypes
  <2>2. Next1 \in Sent
    BY <2>1, HeadTailProperties DEF Next1
  <2>3. QED
    BY <1>6, <2>2, CharacterStep
<1>7. QED
  BY <1>1, <1>2, <1>3, <1>4, <1>5, <1>6 DEF Next

LEMMA BufferNext == DecoderInv /\ Buffer /\ [Next]_vars => Buffer'
<1> SUFFICES ASSUME DecoderInv, Buffer, [Next]_vars PROVE Buffer'
  OBVIOUS
<1>1. queue \in Seq(Sent) /\ Len(queue) \in Nat /\ Len(queue) <= BufferSize /\ events \in 0..MaxEvents
      /\ BufferSize \in Nat /\ MaxEvents \in Nat
  BY LenProperties, TerminalAssumption DEF DecoderInv, DecoderTypes, Buffer
<1>2. CASE Waits \/ UNCHANGED vars
  BY <1>2 DEF Waits, vars, keyboard, Buffer
<1>3. ASSUME NEW k \in Keys, NEW up \in BOOLEAN, Send(k, up) PROVE Buffer'
  <2>1. events' \in 0..MaxEvents
    BY <1>1, <1>3 DEF Send
  <2>2. Len(queue') <= BufferSize
    <3>1. CASE Fits(k)
      <4>1. queue \in Seq(Sent) /\ queue' = queue \o Bytes(k, up)
        BY <1>3, <3>1 DEF Send, DecoderInv, DecoderTypes
      <4>2. Len(queue \o Bytes(k, up)) = Len(queue \o Bytes(k, FALSE))
        <5>1. ASSUME NEW x \in BOOLEAN
              PROVE  Len(queue \o Bytes(k, x)) = IF k \in Extended THEN Len(queue) + 2
                                                                    ELSE Len(queue) + 1
          <6>1. PICK b : b = Byte(Code(k), x)
            OBVIOUS
          <6>2. E0 \in Sent /\ b \in Sent
            BY <6>1, KeyFacts DEF Sent
          <6>3. /\ Append(queue, E0) \in Seq(Sent) /\ Len(Append(queue, E0)) = Len(queue) + 1
                /\ Len(Append(queue, b)) = Len(queue) + 1
            BY <4>1, <6>2, AppendProperties
          <6>4. Len(Append(Append(queue, E0), b)) = Len(queue) + 1 + 1
            BY <6>2, <6>3, AppendProperties
          <6>5. queue \o Bytes(k, x) = IF k \in Extended THEN Append(Append(queue, E0), b)
                                                         ELSE Append(queue, b)
            BY <4>1, <6>1, BytesAdded
          <6>6. Len(queue) \in Nat
            BY <4>1, LenProperties
          <6>7. QED
            BY <6>3, <6>4, <6>5, <6>6
        <5>2. QED
          BY <5>1
      <4>3. QED
        BY <3>1, <4>1, <4>2 DEF Fits
    <3>2. CASE ~Fits(k)
      BY <1>1, <1>3, <3>2 DEF Send
    <3>3. QED
      BY <3>1, <3>2
  <2>3. QED
    BY <2>1, <2>2 DEF Buffer
<1>4. CASE Drain
  BY <1>1, <1>4 DEF Drain, Buffer
<1>5. CASE Enable
  <2>1. queue' = Tail(Append(queue, Answer)) /\ events' = events
    BY <1>5 DEF Enable
  <2>2. Answer \in Sent
    BY DEF Sent
  <2>3. /\ Append(queue, Answer) \in Seq(Sent) /\ Append(queue, Answer) # <<>>
        /\ Len(Append(queue, Answer)) = Len(queue) + 1
    BY <1>1, <2>2, AppendProperties
  <2>4. Len(queue') = Len(Append(queue, Answer)) - 1
    BY <2>1, <2>3, HeadTailProperties
  <2>5. QED
    BY <1>1, <2>1, <2>3, <2>4 DEF Buffer
<1>6. CASE Reads
  <2>1. queue # <<>> /\ queue' = Tail(queue) /\ events' = events
    BY <1>6 DEF Reads, ReadPrefix, ReadExtended, ReadShift, ReadCtrl, ReadNothing,
                ReadCharacter, Plain, Take
  <2>2. Len(queue') = Len(queue) - 1
    BY <1>1, <2>1, HeadTailProperties
  <2>3. QED
    BY <1>1, <2>1, <2>2 DEF Buffer
<1>7. QED
  BY <1>2, <1>3, <1>4, <1>5, <1>6 DEF Next, Reads, Press, Release

LEMMA ScreenInvariant == Spec => [](DecoderInv /\ ScreenInv /\ Buffer)
<1>1. Init => DecoderInv /\ ScreenInv /\ Buffer
  BY DecoderInit, ScreenInit
<1>2. DecoderInv /\ ScreenInv /\ Buffer /\ [Next]_vars => (DecoderInv /\ ScreenInv /\ Buffer)'
  BY DecoderNext, ScreenNext, BufferNext
<1>3. QED
  BY <1>1, <1>2, PTL DEF Spec

\* Every variable keeps its range: the cursor stays on the screen, the line in its
\* array with room for the end of the string.
THEOREM TerminalTypes == Spec => []TypeOK
<1>1. DecoderInv /\ ScreenInv /\ Buffer => TypeOK
  <2> SUFFICES ASSUME DecoderInv, ScreenInv, Buffer PROVE TypeOK
    OBVIOUS
  <2>1. held \subseteq Keys /\ Len(queue) <= BufferSize /\ events \in 0..MaxEvents
    BY DEF DecoderInv, DecoderTypes, Buffer
  <2>2. \A i \in DOMAIN queue : queue[i] \in [code : Keys \cup {"E0", "answer"}, up : BOOLEAN]
    <3>1. queue \in Seq(Sent)
      BY DEF DecoderInv, DecoderTypes
    <3>2. \A i \in DOMAIN queue : queue[i] \in Sent
      BY <3>1
    <3>3. Sent \subseteq [code : Keys \cup {"E0", "answer"}, up : BOOLEAN]
      <4>1. E0 \in [code : Keys \cup {"E0", "answer"}, up : BOOLEAN]
        BY DEF E0, Byte
      <4>2. Answer \in [code : Keys \cup {"E0", "answer"}, up : BOOLEAN]
        BY DEF Answer, Byte
      <4>3. \A b \in [code : Keys, up : BOOLEAN] : b \in [code : Keys \cup {"E0", "answer"}, up : BOOLEAN]
        BY ONLY Zenon
      <4>4. QED
        BY <4>1, <4>2, <4>3 DEF Sent
    <3>4. QED
      BY <3>2, <3>3
  <2>3. {shift, ctrl, prefix, slipped, half} \subseteq BOOLEAN /\ lost \subseteq Flags
    BY DEF DecoderInv, DecoderTypes, ScreenInv
  <2>4. /\ pc \in {"drain", "enable", "line", "ask", "editor"}
        /\ Len(line) < LineSize /\ line \in Seq(Characters)
    BY DEF ScreenInv
  <2>5. \A i \in DOMAIN line : line[i] \in Characters
    BY <2>4
  <2>6. /\ con.row \in 0..(Height - 1) /\ con.col \in 0..(Width - 1)
        /\ DOMAIN con.cell = Cells
    BY DEF ScreenInv, Screens
  <2>7. QED
    BY <2>1, <2>2, <2>3, <2>4, <2>5, <2>6 DEF TypeOK
<1>2. QED
  BY <1>1, ScreenInvariant, PTL

\* While a line is edited the cells before the cursor show the prompt and the line,
\* and those after it are blank: for screens, lines and outputs of every size.
THEOREM LineIsShown == Spec => []LineShown
<1>1. ScreenInv => LineShown
  <2> SUFFICES ASSUME ScreenInv, pc = "line", ~slipped,
                      NEW text, text = Prompt \o line, NEW here, here = Place(con), NEW i \in Cells
               PROVE  IF i >= here THEN con.cell[i] = Blank
                      ELSE Len(text) + i - here >= 0 =>
                             con.cell[i] = text[Len(text) + 1 + i - here]
    BY DEF LineShown
  <2>1. con \in Screens /\ Fresh(con) /\ ShownText(text, con)
    BY DEF ScreenInv
  <2>2. here \in Nat /\ i \in Int
    BY <2>1, ScreenFields DEF Cells
  <2>3. i >= here \/ i < here
    BY <2>2
  <2>4. QED
    BY <2>1, <2>3 DEF Fresh, ShownText
<1>2. QED
  BY <1>1, ScreenInvariant, PTL
===============================================================================
