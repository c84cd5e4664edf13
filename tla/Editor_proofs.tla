---------------------------- MODULE Editor_proofs -----------------------------
(***************************************************************************)
(* The editor keeps its cursor in the text and shows it where it is, moves *)
(* by whole lines, and does not call a text saved that is not: for texts,  *)
(* screens and numbers of lines of any size.                               *)
(***************************************************************************)
EXTENDS Editor, TLAPS, FiniteSetTheorems, SequenceTheorems

-------------------------------------------------------------------------------
\* Newlines are numbered by how many there are up to them.

LEMMA IntervalSize ==
  ASSUME NEW n \in Nat
  PROVE  IsFiniteSet(1..n) /\ Cardinality(1..n) = n
BY FS_Interval

LEMMA NewlineFacts ==
  ASSUME NEW b \in Text
  PROVE  /\ Len(b) \in Nat
         /\ Newlines(b) \subseteq 1..Len(b)
         /\ IsFiniteSet(Newlines(b)) /\ Cardinality(Newlines(b)) \in Nat
         /\ Cardinality(Newlines(b)) <= Len(b)
<1>1. Len(b) \in Nat
  BY LenProperties DEF Text
<1>2. Newlines(b) \subseteq 1..Len(b)
  BY DEF Newlines
<1>3. IsFiniteSet(1..Len(b)) /\ Cardinality(1..Len(b)) = Len(b)
  BY <1>1, IntervalSize
<1>4. IsFiniteSet(Newlines(b)) /\ Cardinality(Newlines(b)) <= Cardinality(1..Len(b))
  BY <1>2, <1>3, FS_Subset
<1>5. QED
  BY <1>1, <1>2, <1>3, <1>4, FS_CardinalityType

LEMMA BeforeType ==
  ASSUME NEW b \in Text, NEW p \in Int
  PROVE  /\ Before(b, p) \in Nat
         /\ IsFiniteSet({i \in Newlines(b) : i <= p})
         /\ Before(b, p) <= Cardinality(Newlines(b))
<1> DEFINE upTo == {i \in Newlines(b) : i <= p}
<1>1. IsFiniteSet(Newlines(b)) /\ upTo \in SUBSET Newlines(b)
  BY NewlineFacts
<1>2. IsFiniteSet(upTo) /\ Cardinality(upTo) <= Cardinality(Newlines(b))
  BY ONLY <1>1, FS_Subset
<1>3. Cardinality(upTo) \in Nat
  BY <1>2, FS_CardinalityType
<1>4. QED
  BY <1>2, <1>3 DEF Before

LEMMA BeforeMonotone ==
  ASSUME NEW b \in Text, NEW p \in Int, NEW q \in Int, p <= q
  PROVE  Before(b, p) <= Before(b, q)
<1> DEFINE first == {i \in Newlines(b) : i <= p}
           all == {i \in Newlines(b) : i <= q}
<1>1. IsFiniteSet(all)
  BY BeforeType
<1>2. first \in SUBSET all
  BY NewlineFacts
<1>3. Cardinality(first) <= Cardinality(all)
  BY ONLY <1>1, <1>2, FS_Subset
<1>4. QED
  BY <1>3 DEF Before

LEMMA BeforeStrict ==
  ASSUME NEW b \in Text, NEW p \in Int, NEW q \in Newlines(b), p < q
  PROVE  Before(b, p) < Before(b, q)
<1> DEFINE first == {i \in Newlines(b) : i <= p}
           all == {i \in Newlines(b) : i <= q}
<1>1. q \in Int
  BY NewlineFacts
<1>2. IsFiniteSet(all) /\ Before(b, p) \in Nat /\ Before(b, q) \in Nat
  BY <1>1, BeforeType
<1>3. first \in SUBSET all /\ q \in all /\ q \notin first
  BY <1>1, NewlineFacts
<1>4. /\ Cardinality(first) <= Cardinality(all)
      /\ Cardinality(first) = Cardinality(all) => first = all
  BY ONLY <1>2, <1>3, FS_Subset
<1>5. Cardinality(first) # Cardinality(all)
  BY <1>3, <1>4
<1>6. QED
  BY <1>2, <1>4, <1>5 DEF Before

-------------------------------------------------------------------------------
\* build_lines knows the first lines, and gives each of them one start.

LEMMA StartFacts ==
  ASSUME NEW b \in Text
  PROVE  /\ LineStarts(b) \subseteq 0..Len(b)
         /\ IsFiniteSet(LineStarts(b))
         /\ LineCount(b) \in Nat \ {0}
         /\ LineCount(b) = Cardinality(LineStarts(b) \ {0}) + 1
         /\ LineStarts(b) \ {0} = {i \in Newlines(b) : Before(b, i) < MaxLines}
<1> DEFINE known == {i \in Newlines(b) : Before(b, i) < MaxLines}
<1>1. IsFiniteSet(Newlines(b)) /\ Newlines(b) \subseteq 1..Len(b) /\ Len(b) \in Nat
  BY NewlineFacts
<1>2. IsFiniteSet(known)
  BY <1>1, FS_Subset
<1>3. 0 \notin known
  BY <1>1
<1>4. LineStarts(b) = known \cup {0}
  BY DEF LineStarts
<1>5. IsFiniteSet(known \cup {0}) /\ Cardinality(known \cup {0}) = Cardinality(known) + 1
  BY ONLY <1>2, <1>3, FS_AddElement
<1>6. (known \cup {0}) \ {0} = known
  BY <1>3
<1>7. Cardinality(known) \in Nat
  BY <1>2, FS_CardinalityType
<1>8. LineStarts(b) \subseteq 0..Len(b)
  BY <1>1, <1>4
<1>9. Cardinality(LineStarts(b)) = Cardinality(known) + 1 /\ LineStarts(b) \ {0} = known
  BY <1>4, <1>5, <1>6
<1>10. LineCount(b) = Cardinality(known) + 1
  BY <1>9 DEF LineCount
<1>11. LineCount(b) \in Nat \ {0}
  BY ONLY <1>7, <1>10
<1>12. IsFiniteSet(LineStarts(b))
  BY <1>4, <1>5
<1>13. QED
  BY <1>8, <1>9, <1>10, <1>11, <1>12

LEMMA KnownNewline ==
  ASSUME NEW b \in Text, NEW s \in LineStarts(b) \ {0}
  PROVE  /\ s \in Newlines(b) /\ s \in 1..Len(b) /\ s \in Int
         /\ Before(b, s) < MaxLines /\ Before(b, s) \in Nat
<1>1. s \in {i \in Newlines(b) : Before(b, i) < MaxLines}
  BY StartFacts
<1>2. s \in Newlines(b) /\ s \in 1..Len(b) /\ s \in Int
  BY <1>1, NewlineFacts
<1>3. QED
  BY <1>1, <1>2, BeforeType

\* A known line is known with all those before it.
LEMMA KnownBefore ==
  ASSUME NEW b \in Text, NEW s \in LineStarts(b) \ {0}
  PROVE  Before(b, s) \in 1..(LineCount(b) - 1)
<1> DEFINE known == LineStarts(b) \ {0}
           upTo == {i \in Newlines(b) : i <= s}
<1>1. s \in Newlines(b) /\ Before(b, s) < MaxLines /\ s \in 1..Len(b) /\ s \in Int
  BY KnownNewline
<1>2. ASSUME NEW i \in upTo PROVE i \in known
  <2>1. i \in Int /\ i \in Newlines(b) /\ i <= s
    BY NewlineFacts
  <2>2. Before(b, i) <= Before(b, s)
    BY <2>1, <1>1, BeforeMonotone
  <2>3. Before(b, i) \in Nat /\ Before(b, s) \in Nat
    BY <2>1, <1>1, BeforeType
  <2>4. Before(b, i) < MaxLines
    BY <2>2, <2>3, <1>1, EditorAssumption
  <2>5. QED
    BY <2>1, <2>4, StartFacts
<1>3. IsFiniteSet(known) /\ LineCount(b) = Cardinality(known) + 1
  <2>1. IsFiniteSet(LineStarts(b)) /\ known \in SUBSET LineStarts(b)
    BY StartFacts
  <2>2. IsFiniteSet(known)
    BY ONLY <2>1, FS_Subset
  <2>3. QED
    BY <2>2, StartFacts
<1>4. upTo \in SUBSET known
  BY <1>2
<1>5. Cardinality(upTo) <= Cardinality(known)
  BY ONLY <1>3, <1>4, FS_Subset
<1>6. Before(b, 0) < Before(b, s)
  BY <1>1, BeforeStrict
<1>7. Before(b, 0) \in Nat /\ Before(b, s) \in Nat
  <2>1. 0 \in Int
    OBVIOUS
  <2>2. QED
    BY <2>1, <1>1, BeforeType
<1>8. Cardinality(known) \in Nat
  BY <1>3, FS_CardinalityType
<1>9. QED
  BY <1>3, <1>5, <1>6, <1>7, <1>8 DEF Before

LEMMA NothingBefore ==
  ASSUME NEW b \in Text
  PROVE  Before(b, 0) = 0
<1>1. {i \in Newlines(b) : i <= 0} = {}
  BY NewlineFacts
<1>2. QED
  BY <1>1, FS_EmptySet DEF Before

\* So every number below the count of lines has its line, and no other line has
\* that number.
LEMMA LineNumbered ==
  ASSUME NEW b \in Text, NEW n \in 0..(LineCount(b) - 1)
  PROVE  \E s \in LineStarts(b) : Before(b, s) = n
<1> DEFINE known == LineStarts(b) \ {0}
           m == LineCount(b) - 1
           f == [s \in known |-> Before(b, s)]
<1>1. IsFiniteSet(known) /\ Cardinality(known) = m /\ m \in Nat
  <2>1. IsFiniteSet(LineStarts(b)) /\ known \in SUBSET LineStarts(b)
    BY StartFacts
  <2>2. IsFiniteSet(known)
    BY ONLY <2>1, FS_Subset
  <2>3. QED
    BY <2>2, StartFacts, FS_CardinalityType
<1>2. f \in [known -> 1..m]
  BY KnownBefore
<1>3. ASSUME NEW x \in known, NEW y \in known, f[x] = f[y] PROVE x = y
  <2>1. /\ x \in Newlines(b) /\ y \in Newlines(b) /\ x \in Int /\ y \in Int
        /\ Before(b, x) = Before(b, y)
    BY <1>3, KnownNewline
  <2>2. Before(b, x) \in Nat
    BY <2>1, BeforeType
  <2>3. ~(x < y)
    BY <2>1, <2>2, BeforeStrict
  <2>4. ~(y < x)
    BY <2>1, <2>2, BeforeStrict
  <2>5. QED
    BY <2>1, <2>3, <2>4
<1>4. f \in Injection(known, 1..m)
  BY <1>2, <1>3 DEF Injection, IsInjective
<1>5. IsFiniteSet(1..m) /\ Cardinality(1..m) = m
  BY <1>1, FS_Interval
<1>6. f \in Surjection(known, 1..m)
  BY <1>1, <1>4, <1>5, FS_Injection
<1>7. CASE n = 0
  BY <1>7, NothingBefore DEF LineStarts
<1>8. CASE n # 0
  <2>1. n \in 1..m
    BY <1>8, <1>1
  <2>2. PICK s \in known : f[s] = n
    BY <2>1, <1>6 DEF Surjection
  <2>3. QED
    BY <2>2
<1>9. QED
  BY <1>7, <1>8

LEMMA StartOf ==
  ASSUME NEW b \in Text, NEW n \in 0..(LineCount(b) - 1)
  PROVE  /\ Start(b, n) \in LineStarts(b) /\ Start(b, n) \in 0..Len(b)
         /\ Before(b, Start(b, n)) = n
         /\ n # 0 => Start(b, n) \in Newlines(b)
<1>1. Start(b, n) \in LineStarts(b) /\ Before(b, Start(b, n)) = n
  BY LineNumbered DEF Start
<1>2. Start(b, n) \in 0..Len(b)
  BY <1>1, StartFacts
<1>3. n # 0 => Start(b, n) # 0
  BY <1>1, NothingBefore
<1>4. QED
  BY <1>1, <1>2, <1>3, StartFacts
-------------------------------------------------------------------------------
\* find_line and line_end.

LEMMA KnownDown ==
  ASSUME NEW b \in Text, NEW s \in LineStarts(b) \ {0}, NEW i \in Newlines(b), i <= s
  PROVE  i \in LineStarts(b) \ {0}
<1>1. i \in Int /\ s \in Int /\ Before(b, s) < MaxLines /\ Before(b, s) \in Nat
  BY NewlineFacts, KnownNewline
<1>2. Before(b, i) <= Before(b, s)
  BY <1>1, BeforeMonotone
<1>3. Before(b, i) \in Nat
  BY <1>1, BeforeType
<1>4. Before(b, i) < MaxLines
  BY <1>1, <1>2, <1>3, EditorAssumption
<1>5. QED
  BY <1>4, StartFacts

LEMMA FirstStart ==
  ASSUME NEW b \in Text
  PROVE  0 \in 0..(LineCount(b) - 1) /\ Start(b, 0) = 0
<1>1. 0 \in 0..(LineCount(b) - 1)
  <2>1. LineCount(b) \in Nat \ {0}
    BY StartFacts
  <2>2. QED
    BY <2>1
<1>2. Start(b, 0) \in LineStarts(b) /\ Before(b, Start(b, 0)) = 0
  BY <1>1, StartOf
<1>3. ASSUME NEW s \in LineStarts(b) \ {0} PROVE Before(b, s) # 0
  <2>1. Before(b, s) \in 1..(LineCount(b) - 1)
    BY KnownBefore
  <2>2. LineCount(b) \in Nat
    BY StartFacts
  <2>3. QED
    BY <2>1, <2>2
<1>4. QED
  BY <1>1, <1>2, <1>3

\* The cursor's line is the one that begins last at or before it.
LEMMA LineAtFacts ==
  ASSUME NEW b \in Text, NEW c \in 0..Len(b), NEW n, n = LineAt(b, c)
  PROVE  /\ n \in 0..(LineCount(b) - 1) /\ n <= Len(b)
         /\ Start(b, n) <= c
         /\ n + 1 < LineCount(b) => c < Start(b, n + 1)
<1> DEFINE known == LineStarts(b) \ {0}
           before == {s \in known : s <= c}
<1>1. /\ IsFiniteSet(known) /\ known \in SUBSET Newlines(b)
      /\ LineCount(b) = Cardinality(known) + 1
      /\ Cardinality(known) \in Nat /\ Cardinality(known) <= Len(b)
  <2>1. IsFiniteSet(Newlines(b)) /\ known \in SUBSET Newlines(b)
    BY NewlineFacts, StartFacts
  <2>2. IsFiniteSet(known) /\ Cardinality(known) <= Cardinality(Newlines(b))
    BY ONLY <2>1, FS_Subset
  <2>3. Cardinality(known) \in Nat
    BY <2>2, FS_CardinalityType
  <2>4. Cardinality(Newlines(b)) <= Len(b) /\ Cardinality(Newlines(b)) \in Nat /\ Len(b) \in Nat
    BY NewlineFacts
  <2>5. Cardinality(known) <= Len(b)
    BY <2>2, <2>3, <2>4
  <2>6. QED
    BY <2>1, <2>2, <2>3, <2>5, StartFacts
<1>2. n = Cardinality(before)
  BY DEF LineAt
<1>3. IsFiniteSet(before) /\ n <= Cardinality(known) /\ n \in Nat
  <2>1. before \in SUBSET known
    OBVIOUS
  <2>2. IsFiniteSet(before) /\ Cardinality(before) <= Cardinality(known)
    BY ONLY <1>1, <2>1, FS_Subset
  <2>3. Cardinality(before) \in Nat
    BY <2>2, FS_CardinalityType
  <2>4. QED
    BY <1>2, <2>2, <2>3
<1>4. Len(b) \in Nat /\ c \in Nat /\ c \in Int
  <2>1. Len(b) \in Nat
    BY NewlineFacts
  <2>2. QED
    BY <2>1
<1>5. n \in 0..(LineCount(b) - 1) /\ n <= Len(b)
  BY ONLY <1>1, <1>3, <1>4
<1>6. Start(b, n) <= c
  <2>1. PICK s : s = Start(b, n)
    OBVIOUS
  <2>2. s \in 0..Len(b) /\ s \in LineStarts(b) /\ Before(b, s) = n
    BY <1>5, <2>1, StartOf
  <2>3. SUFFICES ASSUME c < s PROVE FALSE
    BY <1>4, <2>1, <2>2
  <2>4. s \in known /\ s \in Int
    BY <1>4, <2>2, <2>3
  <2>5. s \in Newlines(b)
    BY <2>4, KnownNewline
  <2>6. before \cup {s} \in SUBSET {i \in Newlines(b) : i <= s}
    <3>1. ASSUME NEW i \in before PROVE i \in Newlines(b) /\ i <= s
      <4>1. i \in Newlines(b) /\ i <= c /\ i \in Int
        BY KnownNewline
      <4>2. QED
        BY <4>1, <1>4, <2>3, <2>4
    <3>2. s <= s
      BY <2>4
    <3>3. QED
      BY <3>1, <3>2, <2>5
  <2>7. IsFiniteSet({i \in Newlines(b) : i <= s})
    BY <2>4, BeforeType
  <2>8. Cardinality(before \cup {s}) <= Before(b, s)
    BY <2>6, <2>7, FS_Subset DEF Before
  <2>9. s \notin before
    BY <1>4, <2>3, <2>4
  <2>10. Cardinality(before \cup {s}) = n + 1
    BY ONLY <1>2, <1>3, <2>9, FS_AddElement
  <2>11. QED
    BY ONLY <1>3, <2>2, <2>8, <2>10
<1>7. ASSUME n + 1 < LineCount(b) PROVE c < Start(b, n + 1)
  <2>1. PICK t : t = Start(b, n + 1)
    OBVIOUS
  <2>2. PICK m : m = n + 1
    OBVIOUS
  <2>3. m \in 0..(LineCount(b) - 1) /\ m # 0
    BY <1>1, <1>3, <1>7, <2>2
  <2>4. t \in Newlines(b) /\ t \in 0..Len(b) /\ Before(b, t) = m /\ t \in LineStarts(b)
    BY <2>1, <2>2, <2>3, StartOf
  <2>5. SUFFICES ASSUME t <= c PROVE FALSE
    BY <1>4, <2>1, <2>4
  <2>6. t \in known /\ t \in Int
    BY <2>4, NewlineFacts
  <2>7. {i \in Newlines(b) : i <= t} \in SUBSET before
    <3>1. ASSUME NEW i \in Newlines(b), i <= t PROVE i \in known /\ i <= c
      <4>1. i \in Int
        BY NewlineFacts
      <4>2. i <= c
        BY <1>4, <2>5, <2>6, <3>1, <4>1
      <4>3. i \in known
        BY <2>6, <3>1, KnownDown
      <4>4. QED
        BY <4>2, <4>3
    <3>2. QED
      BY <3>1
  <2>8. Before(b, t) <= Cardinality(before)
    BY <1>3, <2>7, FS_Subset DEF Before
  <2>9. QED
    BY ONLY <1>2, <1>3, <2>2, <2>4, <2>8
<1>8. QED
  BY <1>5, <1>6, <1>7

LEMMA LineEndFacts ==
  ASSUME NEW b \in Text, NEW n \in 0..(LineCount(b) - 1)
  PROVE  LineEnd(b, n) \in Start(b, n)..Len(b)
<1>1. PICK s : s = Start(b, n)
  OBVIOUS
<1>2. s \in 0..Len(b) /\ Before(b, s) = n
  BY <1>1, StartOf
<1>3. Len(b) \in Nat /\ LineCount(b) \in Nat
  BY NewlineFacts, StartFacts
<1>4. CASE n + 1 < LineCount(b)
  <2>1. PICK m : m = n + 1
    OBVIOUS
  <2>2. m \in 0..(LineCount(b) - 1) /\ m # 0
    BY <1>3, <1>4, <2>1
  <2>3. PICK t : t = Start(b, m)
    OBVIOUS
  <2>4. t \in 0..Len(b) /\ Before(b, t) = m
    BY <2>2, <2>3, StartOf
  <2>5. s \in Int /\ t \in Int
    BY <1>2, <1>3, <2>4
  <2>6. t <= s => Before(b, t) <= Before(b, s)
    BY <2>5, BeforeMonotone
  <2>7. s < t
    BY <1>2, <2>1, <2>4, <2>5, <2>6
  <2>8. LineEnd(b, n) = t - 1
    BY <1>4, <2>1, <2>3 DEF LineEnd
  <2>9. QED
    BY <1>1, <1>2, <1>3, <2>4, <2>7, <2>8
<1>5. CASE ~(n + 1 < LineCount(b))
  <2>1. LineEnd(b, n) = Len(b)
    BY <1>5 DEF LineEnd
  <2>2. QED
    BY <1>1, <1>2, <1>3, <2>1
<1>6. QED
  BY <1>4, <1>5
-------------------------------------------------------------------------------
\* Texts of which all lines are known.

LEMMA AllKnown ==
  ASSUME NEW b \in Text, Cardinality(Newlines(b)) < MaxLines
  PROVE  /\ LineStarts(b) \ {0} = Newlines(b)
         /\ LineCount(b) - 1 = Cardinality(Newlines(b))
<1>1. ASSUME NEW i \in Newlines(b) PROVE Before(b, i) < MaxLines
  <2>1. i \in Int /\ Cardinality(Newlines(b)) \in Nat
    BY NewlineFacts
  <2>2. Before(b, i) \in Nat /\ Before(b, i) <= Cardinality(Newlines(b))
    BY <2>1, BeforeType
  <2>3. QED
    BY <2>1, <2>2, EditorAssumption
<1>2. {i \in Newlines(b) : Before(b, i) < MaxLines} = Newlines(b)
  BY <1>1
<1>3. LineStarts(b) \ {0} = Newlines(b)
  BY <1>2, StartFacts
<1>4. LineCount(b) = Cardinality(Newlines(b)) + 1
  BY <1>3, StartFacts
<1>5. QED
  BY <1>3, <1>4, NewlineFacts

LEMMA LineTypes ==
  ASSUME NEW b \in Text, NEW n \in 0..(LineCount(b) - 1)
  PROVE  /\ Len(b) \in Nat /\ LineCount(b) \in Nat /\ n \in Nat
         /\ Start(b, n) \in Nat /\ LineEnd(b, n) \in Nat
<1>1. Len(b) \in Nat
  BY NewlineFacts
<1>2. LineCount(b) \in Nat
  BY StartFacts
<1>3. Start(b, n) \in 0..Len(b)
  BY StartOf
<1>4. LineEnd(b, n) \in Start(b, n)..Len(b)
  BY LineEndFacts
<1>5. QED
  BY <1>1, <1>2, <1>3, <1>4

\* Between the start and the end of a line there are no newlines but its last.
LEMMA NoNewlineInside ==
  ASSUME NEW b \in Text, Cardinality(Newlines(b)) < MaxLines,
         NEW n \in 0..(LineCount(b) - 1),
         NEW i \in Newlines(b), Start(b, n) < i
  PROVE  n + 1 < LineCount(b) /\ Start(b, n + 1) <= i
<1>1. PICK s : s = Start(b, n)
  OBVIOUS
<1>2. s \in Int /\ Before(b, s) = n /\ n \in Int /\ i \in Int /\ s < i
  BY <1>1, StartOf, NewlineFacts
<1>3. n < Before(b, i) /\ Before(b, i) \in Nat
  BY <1>2, BeforeStrict, BeforeType
<1>4. Before(b, i) <= LineCount(b) - 1 /\ LineCount(b) \in Nat
  BY <1>2, BeforeType, AllKnown, StartFacts
<1>5. n + 1 < LineCount(b)
  BY <1>2, <1>3, <1>4
<1>6. PICK m : m = n + 1
  OBVIOUS
<1>7. m \in 0..(LineCount(b) - 1) /\ m # 0 /\ m <= Before(b, i)
  BY <1>2, <1>3, <1>4, <1>5, <1>6
<1>8. PICK t : t = Start(b, m)
  OBVIOUS
<1>9. t \in Newlines(b) /\ Before(b, t) = m
  BY <1>7, <1>8, StartOf
<1>10. t \in Int
  BY <1>9, NewlineFacts
<1>11. i < t => Before(b, i) < Before(b, t)
  BY <1>2, <1>9, BeforeStrict
<1>12. t <= i
  BY <1>2, <1>3, <1>7, <1>9, <1>10, <1>11
<1>13. QED
  BY <1>5, <1>6, <1>8, <1>12

\* Everywhere on a line there are as many newlines before as its number says.
LEMMA BeforeOnLine ==
  ASSUME NEW b \in Text, Cardinality(Newlines(b)) < MaxLines,
         NEW n \in 0..(LineCount(b) - 1),
         NEW c \in Start(b, n)..LineEnd(b, n)
  PROVE  Before(b, c) = n
<1>1. PICK s : s = Start(b, n)
  OBVIOUS
<1>2. s \in Int /\ s \in Nat /\ Before(b, s) = n /\ n \in Nat /\ LineCount(b) \in Nat
  <2>1. s \in Nat /\ n \in Nat /\ LineCount(b) \in Nat
    BY <1>1, LineTypes
  <2>2. QED
    BY <1>1, <2>1, StartOf
<1>3. c \in Int /\ s <= c /\ c <= LineEnd(b, n) /\ LineEnd(b, n) \in Int
  <2>1. LineEnd(b, n) \in Nat
    BY LineTypes
  <2>2. QED
    BY <1>1, <1>2, <2>1
<1>4. n <= Before(b, c) /\ Before(b, c) \in Nat
  BY <1>2, <1>3, BeforeMonotone, BeforeType
<1>5. CASE n + 1 < LineCount(b)
  <2>1. PICK m : m = n + 1
    OBVIOUS
  <2>2. m \in 0..(LineCount(b) - 1) /\ m # 0
    BY <1>2, <1>5, <2>1
  <2>3. PICK t : t = Start(b, m)
    OBVIOUS
  <2>4. t \in Newlines(b) /\ Before(b, t) = m
    BY <2>2, <2>3, StartOf
  <2>5. t \in Int
    BY <2>4, NewlineFacts
  <2>6. LineEnd(b, n) = t - 1
    BY <1>5, <2>1, <2>3 DEF LineEnd
  <2>7. c < t
    BY <1>3, <2>5, <2>6
  <2>8. Before(b, c) < Before(b, t)
    BY <1>3, <2>4, <2>7, BeforeStrict
  <2>9. QED
    BY <1>2, <1>4, <2>1, <2>4, <2>8
<1>6. CASE ~(n + 1 < LineCount(b))
  <2>1. Before(b, c) <= LineCount(b) - 1
    BY <1>3, BeforeType, AllKnown
  <2>2. QED
    BY <1>2, <1>4, <1>6, <2>1
<1>7. QED
  BY <1>5, <1>6

\* The cursor's line ends where a newline stands, or at the end of the text.
LEMMA UnderCursor ==
  ASSUME NEW b \in Text, Cardinality(Newlines(b)) < MaxLines,
         NEW c \in 0..Len(b), NEW n, n = LineAt(b, c)
  PROVE  /\ n \in 0..(LineCount(b) - 1)
         /\ c \in Start(b, n)..LineEnd(b, n)
         /\ c < LineEnd(b, n) <=> c < Len(b) /\ b[c + 1] # NL
<1>1. /\ n \in 0..(LineCount(b) - 1) /\ n \in Nat /\ LineCount(b) \in Nat
      /\ Start(b, n) <= c /\ Len(b) \in Nat /\ c \in Nat
      /\ n + 1 < LineCount(b) => c < Start(b, n + 1)
  <2>1. /\ n \in 0..(LineCount(b) - 1) /\ Start(b, n) <= c
        /\ n + 1 < LineCount(b) => c < Start(b, n + 1)
    BY LineAtFacts
  <2>2. n \in Nat /\ LineCount(b) \in Nat /\ Len(b) \in Nat
    BY <2>1, LineTypes
  <2>3. c \in Nat
    BY <2>2
  <2>4. QED
    BY <2>1, <2>2, <2>3
<1>2. Start(b, n) \in Nat
  BY <1>1, LineTypes
<1>3. ASSUME c < Len(b), b[c + 1] = NL
      PROVE  n + 1 < LineCount(b) /\ Start(b, n + 1) <= c + 1
  <2>1. PICK i : i = c + 1
    OBVIOUS
  <2>2. i \in Newlines(b)
    BY <1>1, <1>3, <2>1 DEF Newlines
  <2>3. Start(b, n) < i
    BY <1>1, <1>2, <2>1
  <2>4. QED
    BY <1>1, <2>1, <2>2, <2>3, NoNewlineInside
<1>4. CASE n + 1 < LineCount(b)
  <2>1. PICK m : m = n + 1
    OBVIOUS
  <2>2. m \in 0..(LineCount(b) - 1) /\ m # 0
    BY <1>1, <1>4, <2>1
  <2>3. PICK t : t = Start(b, m)
    OBVIOUS
  <2>4. t \in Newlines(b)
    BY <2>2, <2>3, StartOf
  <2>5. t \in Int /\ b[t] = NL /\ t <= Len(b)
    <3>1. t \in 1..Len(b)
      BY <2>4, NewlineFacts
    <3>2. QED
      BY <1>1, <2>4, <3>1 DEF Newlines
  <2>6. LineEnd(b, n) = t - 1
    BY <1>4, <2>1, <2>3 DEF LineEnd
  <2>7. c < t
    BY <1>1, <1>4, <2>1, <2>3
  <2>8. ASSUME c < LineEnd(b, n) PROVE c < Len(b) /\ b[c + 1] # NL
    <3>1. c + 1 < t /\ c < Len(b)
      BY <1>1, <2>5, <2>6, <2>8
    <3>2. ~(t <= c + 1)
      BY <1>1, <2>5, <3>1
    <3>3. QED
      BY <1>3, <2>1, <2>3, <3>1, <3>2
  <2>9. ASSUME ~(c < LineEnd(b, n)) PROVE b[c + 1] = NL
    <3>1. c + 1 = t
      BY <1>1, <2>5, <2>6, <2>7, <2>9
    <3>2. QED
      BY <2>5, <3>1
  <2>10. c \in Start(b, n)..LineEnd(b, n)
    BY <1>1, <1>2, <2>5, <2>6, <2>7
  <2>11. QED
    BY <1>1, <2>8, <2>9, <2>10
<1>5. CASE ~(n + 1 < LineCount(b))
  <2>1. LineEnd(b, n) = Len(b)
    BY <1>5 DEF LineEnd
  <2>2. c \in Start(b, n)..LineEnd(b, n)
    BY <1>1, <1>2, <2>1
  <2>3. c < Len(b) => b[c + 1] # NL
    BY <1>3, <1>5
  <2>4. QED
    BY <1>1, <2>1, <2>2, <2>3
<1>6. QED
  BY <1>4, <1>5

\* And it begins after the last newline before the cursor.
LEMMA BeginsAfterLast ==
  ASSUME NEW b \in Text, Cardinality(Newlines(b)) < MaxLines,
         NEW c \in 0..Len(b), NEW s, s = Start(b, LineAt(b, c))
  PROVE  s = IF \E i \in Newlines(b) : i <= c
             THEN CHOOSE i \in Newlines(b) :
                    i <= c /\ \A j \in Newlines(b) : j <= c => j <= i
             ELSE 0
<1>1. PICK n : n = LineAt(b, c)
  OBVIOUS
<1>2. /\ n \in 0..(LineCount(b) - 1) /\ s = Start(b, n) /\ s <= c
      /\ n + 1 < LineCount(b) => c < Start(b, n + 1)
  BY <1>1, LineAtFacts
<1>3. /\ s \in LineStarts(b) /\ s \in Int /\ Len(b) \in Nat /\ c \in Int
      /\ LineCount(b) \in Nat /\ n \in Int
  <2>1. Len(b) \in Nat /\ LineCount(b) \in Nat /\ n \in Nat /\ s \in Nat
    BY <1>2, LineTypes
  <2>2. c \in Int
    BY <2>1
  <2>3. QED
    BY <1>2, <2>1, <2>2, StartOf
<1>4. ASSUME NEW j \in Newlines(b), j <= c PROVE j <= s
  <2>1. j \in Int
    BY NewlineFacts
  <2>2. SUFFICES ASSUME s < j PROVE FALSE
    BY <1>3, <2>1
  <2>3. n + 1 < LineCount(b) /\ Start(b, n + 1) <= j
    BY <1>2, <2>2, NoNewlineInside
  <2>4. PICK t : t = Start(b, n + 1)
    OBVIOUS
  <2>5. n + 1 \in 0..(LineCount(b) - 1)
    BY <1>2, <1>3, <2>3
  <2>6. t \in Int
    BY <2>4, <2>5, StartOf, NewlineFacts
  <2>7. c < t /\ t <= j
    BY <1>2, <2>3, <2>4
  <2>8. QED
    BY ONLY <1>3, <1>4, <2>1, <2>6, <2>7
<1>5. CASE s = 0
  <2>1. ASSUME NEW j \in Newlines(b), j <= c PROVE FALSE
    <3>1. j <= 0
      BY <1>4, <1>5, <2>1
    <3>2. QED
      BY <3>1, NewlineFacts
  <2>2. QED
    BY <1>5, <2>1
<1>6. CASE s # 0
  <2>1. s \in Newlines(b)
    BY <1>3, <1>6, AllKnown
  <2>2. ASSUME NEW i \in Newlines(b), i <= c, \A j \in Newlines(b) : j <= c => j <= i
        PROVE  i = s
    <3>1. i \in Int
      BY NewlineFacts
    <3>2. s <= i /\ i <= s
      BY <1>2, <1>4, <2>1, <2>2
    <3>3. QED
      BY ONLY <1>3, <3>1, <3>2
  <2>3. s <= c /\ \A j \in Newlines(b) : j <= c => j <= s
    BY <1>2, <1>4
  <2>4. QED
    BY <2>1, <2>2, <2>3
<1>7. QED
  BY <1>5, <1>6
-------------------------------------------------------------------------------
\* The inductive invariant.

\* While a key is awaited the screen shows the text as it is, scrolled so that the
\* cursor's line is on it, and the console's cursor stands on that line: what
\* editor_render has drawn after the last change.
Drawn ==
  pc = "key" =>
    LET line == LineAt(buffer, cursor)
    IN  /\ scroll <= line /\ line < scroll + Rows
        /\ at = <<line - scroll + 1, AtMost(cursor - Start(buffer, line), Cols - 1)>>
        /\ screen = [r \in 1..Rows |-> [c \in 0..(Cols - 1) |-> Cell(scroll, r, c)]]

EditorInv == TypeOK /\ CleanMeansSaved /\ Drawn

LEMMA Joined ==
  ASSUME NEW S, NEW s \in Seq(S), NEW t \in Seq(S), NEW d, d = s \o t,
         NEW m, NEW n, m = Len(s), n = Len(t)
  PROVE  d \in Seq(S) /\ Len(d) = m + n
BY ConcatProperties

\* Text is cut and joined without leaving the characters, or the size.
LEMMA Inserted ==
  ASSUME NEW b \in Text, NEW c \in 0..Len(b), NEW ch \in Chars \cup {NL}, NEW d,
         d = SubSeq(b, 1, c) \o <<ch>> \o SubSeq(b, c + 1, Len(b))
  PROVE  d \in Text /\ Len(d) = Len(b) + 1
<1> DEFINE S == Chars \cup {NL, Tab}
           front == SubSeq(b, 1, c)
           back == SubSeq(b, c + 1, Len(b))
<1>1. Len(b) \in Nat /\ c \in Nat /\ c <= Len(b) /\ \A i \in 1..Len(b) : b[i] \in S
  <2>1. Len(b) \in Nat /\ \A i \in 1..Len(b) : b[i] \in S
    BY LenProperties, ElementOfSeq DEF Text
  <2>2. QED
    BY <2>1
<1>2. front \in Seq(S) /\ Len(front) = c
  <2>1. \A i \in 1..c : b[i] \in S
    BY <1>1
  <2>2. Len(front) = IF 1 <= c THEN c - 1 + 1 ELSE 0
    BY <1>1, <2>1, SubSeqProperties
  <2>3. front \in Seq(S)
    BY <1>1, <2>1, SubSeqProperties
  <2>4. QED
    BY <1>1, <2>2, <2>3
<1>3. back \in Seq(S) /\ Len(back) = Len(b) - c
  <2>1. \A i \in (c + 1)..Len(b) : b[i] \in S
    BY <1>1
  <2>2. Len(back) = IF c + 1 <= Len(b) THEN Len(b) - (c + 1) + 1 ELSE 0
    BY <1>1, <2>1, SubSeqProperties
  <2>3. back \in Seq(S)
    BY <1>1, <2>1, SubSeqProperties
  <2>4. QED
    BY <1>1, <2>2, <2>3
<1>4. <<ch>> \in Seq(S) /\ Len(<<ch>>) = 1
  OBVIOUS
<1>5. front \o <<ch>> \in Seq(S) /\ Len(front \o <<ch>>) = c + 1
  BY <1>2, <1>4, ConcatProperties
<1>6. PICK m, n, k : m = c + 1 /\ n = Len(b) - c /\ k = Len(b)
  OBVIOUS
<1>7. d \in Seq(S) /\ Len(d) = m + n
  <2>1. PICK s, t : s = front \o <<ch>> /\ t = back
    OBVIOUS
  <2>2. s \in Seq(S) /\ t \in Seq(S) /\ m = Len(s) /\ n = Len(t) /\ d = s \o t
    BY <1>3, <1>5, <1>6, <2>1
  <2>3. QED
    BY ONLY <2>2, Joined
<1>8. m + n = k + 1
  BY <1>1, <1>6
<1>9. QED
  BY <1>6, <1>7, <1>8 DEF Text

LEMMA Deleted ==
  ASSUME NEW b \in Text, NEW c \in 1..Len(b), NEW d,
         d = SubSeq(b, 1, c - 1) \o SubSeq(b, c + 1, Len(b))
  PROVE  d \in Text /\ Len(d) = Len(b) - 1
<1> DEFINE S == Chars \cup {NL, Tab}
           front == SubSeq(b, 1, c - 1)
           back == SubSeq(b, c + 1, Len(b))
<1>1. /\ Len(b) \in Nat /\ c \in Nat /\ 1 <= c /\ c <= Len(b)
      /\ \A i \in 1..Len(b) : b[i] \in S
  <2>1. Len(b) \in Nat /\ \A i \in 1..Len(b) : b[i] \in S
    BY LenProperties, ElementOfSeq DEF Text
  <2>2. QED
    BY <2>1
<1>2. front \in Seq(S) /\ Len(front) = c - 1
  <2>1. \A i \in 1..(c - 1) : b[i] \in S
    BY <1>1
  <2>2. Len(front) = IF 1 <= c - 1 THEN (c - 1) - 1 + 1 ELSE 0
    BY <1>1, <2>1, SubSeqProperties
  <2>3. front \in Seq(S)
    BY <1>1, <2>1, SubSeqProperties
  <2>4. QED
    BY <1>1, <2>2, <2>3
<1>3. back \in Seq(S) /\ Len(back) = Len(b) - c
  <2>1. \A i \in (c + 1)..Len(b) : b[i] \in S
    BY <1>1
  <2>2. Len(back) = IF c + 1 <= Len(b) THEN Len(b) - (c + 1) + 1 ELSE 0
    BY <1>1, <2>1, SubSeqProperties
  <2>3. back \in Seq(S)
    BY <1>1, <2>1, SubSeqProperties
  <2>4. QED
    BY <1>1, <2>2, <2>3
<1>4. PICK m, n, k : m = c - 1 /\ n = Len(b) - c /\ k = Len(b)
  OBVIOUS
<1>5. d \in Seq(S) /\ Len(d) = m + n
  <2>1. PICK s, t : s = front /\ t = back
    OBVIOUS
  <2>2. s \in Seq(S) /\ t \in Seq(S) /\ m = Len(s) /\ n = Len(t) /\ d = s \o t
    BY <1>2, <1>3, <1>4, <2>1
  <2>3. QED
    BY ONLY <2>2, Joined
<1>6. m + n = k - 1
  BY <1>1, <1>4
<1>7. QED
  BY <1>4, <1>5, <1>6 DEF Text

LEMMA CellType ==
  ASSUME TypeOK, NEW s \in Nat, NEW r \in 1..Rows, NEW c \in 0..(Cols - 1)
  PROVE  Cell(s, r, c) \in Chars \cup {NL, Blank}
<1>1. PICK line : line = s + r - 1
  OBVIOUS
<1>2. line \in Nat /\ c \in Nat
  BY <1>1, EditorAssumption
<1>3. CASE line < LineCount(buffer) /\ Start(buffer, line) + c < LineEnd(buffer, line)
  <2>1. buffer \in Text
    BY DEF TypeOK
  <2>2. LineCount(buffer) \in Nat
    BY <2>1, StartFacts
  <2>3. line \in 0..(LineCount(buffer) - 1)
    BY <1>2, <1>3, <2>2
  <2>4. PICK i : i = Start(buffer, line) + c + 1
    OBVIOUS
  <2>5. Start(buffer, line) \in Nat /\ LineEnd(buffer, line) \in Nat /\ Len(buffer) \in Nat
    BY <2>1, <2>3, LineTypes
  <2>6. LineEnd(buffer, line) <= Len(buffer)
    <3>1. LineEnd(buffer, line) \in Start(buffer, line)..Len(buffer)
      BY <2>1, <2>3, LineEndFacts
    <3>2. QED
      BY <2>5, <3>1
  <2>7. i \in 1..Len(buffer)
    BY <1>2, <1>3, <2>4, <2>5, <2>6
  <2>8. buffer[i] \in Chars \cup {NL, Tab}
    BY <2>1, <2>7, ElementOfSeq DEF Text
  <2>9. Cell(s, r, c) = Shown(buffer[i])
    BY <1>1, <1>3, <2>4 DEF Cell
  <2>10. QED
    BY <2>8, <2>9 DEF Shown
<1>4. CASE ~(line < LineCount(buffer) /\ Start(buffer, line) + c < LineEnd(buffer, line))
  BY <1>1, <1>4 DEF Cell
<1>5. QED
  BY <1>3, <1>4

\* Drawing finds the cursor's line on the screen.
LEMMA ScrolledFacts ==
  ASSUME NEW line \in Nat, scroll \in Nat, NEW s, s = Scrolled(line)
  PROVE  /\ s \in Nat /\ s <= line /\ line < s + Rows
         /\ s = scroll \/ s <= line
         /\ AtMost(line - s, Rows - 1) = line - s
         /\ AtMost(line - s, Rows - 1) + 1 \in 1..Rows
BY EditorAssumption DEF Scrolled, AtMost

LEMMA CursorLine ==
  ASSUME TypeOK, NEW line, line = LineAt(buffer, cursor)
  PROVE  /\ line \in 0..(LineCount(buffer) - 1) /\ line \in Nat /\ line <= MaxSize
         /\ Start(buffer, line) \in Nat /\ Start(buffer, line) <= cursor
         /\ cursor \in Nat /\ Len(buffer) \in Nat
<1>1. buffer \in Text /\ cursor \in 0..Len(buffer) /\ Len(buffer) <= MaxSize
  BY DEF TypeOK, Length
<1>2. line \in 0..(LineCount(buffer) - 1) /\ line <= Len(buffer) /\ Start(buffer, line) <= cursor
  BY <1>1, LineAtFacts
<1>3. Len(buffer) \in Nat /\ line \in Nat /\ Start(buffer, line) \in Nat
  BY <1>1, <1>2, LineTypes
<1>4. line <= MaxSize
  BY ONLY <1>1, <1>2, <1>3, EditorAssumption
<1>5. QED
  BY <1>1, <1>2, <1>3, <1>4
-------------------------------------------------------------------------------
\* Steps.

LEMMA InitInv == Init => EditorInv
<1> SUFFICES ASSUME Init PROVE EditorInv
  OBVIOUS
<1>1. <<>> \in Text /\ Len(<<>>) = 0
  BY EmptySeq DEF Text
<1>2. file \in Text \cup {Absent, Damaged}
  BY EditorAssumption DEF Init, Text
<1>3. screen \in [1..Rows -> [0..(Cols - 1) -> Chars \cup {NL, Blank}]]
  BY DEF Init
<1>4. at \in (1..Rows) \X (0..(Cols - 1)) /\ scroll \in 0..MaxSize /\ faults \in Nat
  BY EditorAssumption DEF Init
<1>5. buffer \in Text /\ Length <= MaxSize /\ cursor \in 0..Length
  BY <1>1, EditorAssumption DEF Init, Length
<1>6. TypeOK
  BY <1>2, <1>3, <1>4, <1>5 DEF Init, TypeOK
<1>7. CleanMeansSaved /\ Drawn
  BY DEF Init, CleanMeansSaved, Drawn
<1>8. QED
  BY <1>6, <1>7 DEF EditorInv

LEMMA NothingDrawnYet ==
  ASSUME pc' # "key"
  PROVE  Drawn'
BY DEF Drawn

\* What a key may change, and what Draw leaves of it.
LEMMA KeyTypes ==
  ASSUME TypeOK, Key,
         buffer' \in Text, Len(buffer') <= MaxSize, cursor' \in 0..Len(buffer'),
         dirty' \in BOOLEAN, missed' \in BOOLEAN,
         file' \in Text \cup {Absent, Damaged}, faults' \in Nat
  PROVE  TypeOK' /\ Drawn'
<1>1. pc' = "draw" /\ scroll' = scroll /\ screen' = screen /\ at' = at
  BY DEF Key
<1>2. TypeOK'
  BY <1>1 DEF TypeOK, Length
<1>3. QED
  BY <1>1, <1>2, NothingDrawnYet

\* The buffer is opened with at most what the shell lets through.
LEMMA OpenStep ==
  ASSUME EditorInv, Open \/ OpenUnread
  PROVE  EditorInv'
<1>1. TypeOK
  BY DEF EditorInv
<1>2. <<>> \in Text /\ Len(<<>>) = 0 /\ 0 <= MaxSize
  BY EmptySeq, EditorAssumption DEF Text
<1>3. /\ buffer' \in Text /\ Len(buffer') <= MaxSize /\ cursor' = Len(buffer')
      /\ scroll' = 0 /\ dirty' = FALSE /\ missed' \in BOOLEAN /\ pc' = "draw"
      /\ file' = file /\ screen' = screen /\ at' = at /\ faults' \in Nat
  <2>1. CASE Open
    <3>1. file \in {Absent, Damaged} => buffer' = <<>>
      BY <2>1 DEF Open
    <3>2. file \notin {Absent, Damaged} =>
            buffer' = file /\ file \in Text /\ Len(file) <= MaxSize
      BY <1>1, <2>1 DEF Open, CanOpen, TypeOK
    <3>3. buffer' \in Text /\ Len(buffer') <= MaxSize
      BY <1>2, <3>1, <3>2
    <3>4. QED
      BY <1>1, <2>1, <3>3 DEF Open, TypeOK
  <2>2. CASE OpenUnread
    <3>1. buffer' = <<>> /\ cursor' = 0 /\ faults' = faults - 1 /\ faults > 0
      BY <2>2 DEF OpenUnread
    <3>2. faults' \in Nat
      BY <1>1, <3>1 DEF TypeOK
    <3>3. buffer' \in Text /\ Len(buffer') <= MaxSize /\ cursor' = Len(buffer')
      BY <1>2, <3>1
    <3>4. QED
      BY <2>2, <3>2, <3>3 DEF OpenUnread
  <2>3. QED
    BY <2>1, <2>2
<1>4. cursor' \in 0..Len(buffer') /\ scroll' \in 0..MaxSize
  <2>1. Len(buffer') \in Nat
    BY <1>3, LenProperties DEF Text
  <2>2. QED
    BY <1>3, <2>1, EditorAssumption
<1>5. TypeOK'
  BY <1>1, <1>3, <1>4 DEF TypeOK, Length
<1>6. CleanMeansSaved'
  <2>1. CASE Open
    <3>1. CASE file = Absent
      BY <2>1, <3>1 DEF Open, CleanMeansSaved
    <3>2. CASE file = Damaged
      BY <2>1, <3>2 DEF Open, CleanMeansSaved
    <3>3. CASE file \notin {Absent, Damaged}
      BY <2>1, <3>3 DEF Open, CleanMeansSaved
    <3>4. QED
      BY <3>1, <3>2, <3>3
  <2>2. CASE OpenUnread
    BY <2>2 DEF OpenUnread, CleanMeansSaved
  <2>3. QED
    BY <2>1, <2>2
<1>7. Drawn'
  BY <1>3, NothingDrawnYet
<1>8. QED
  BY <1>5, <1>6, <1>7 DEF EditorInv

LEMMA DrawStep ==
  ASSUME EditorInv, Draw
  PROVE  EditorInv'
<1>1. TypeOK /\ CleanMeansSaved /\ pc = "draw" /\ scroll \in Nat
  BY DEF EditorInv, TypeOK, Draw
<1>2. PICK line : line = LineAt(buffer, cursor)
  OBVIOUS
<1>3. PICK s : s = Scrolled(line)
  OBVIOUS
<1>4. PICK col : col = cursor - Start(buffer, line)
  OBVIOUS
<1>5. /\ line \in Nat /\ line <= MaxSize /\ col \in Nat
  <2>1. /\ line \in Nat /\ line <= MaxSize
        /\ Start(buffer, line) \in Nat /\ Start(buffer, line) <= cursor /\ cursor \in Nat
    BY <1>1, <1>2, CursorLine
  <2>2. QED
    BY <1>4, <2>1
<1>6. /\ s \in Nat /\ s <= line /\ line < s + Rows
      /\ AtMost(line - s, Rows - 1) = line - s
      /\ AtMost(line - s, Rows - 1) + 1 \in 1..Rows
  BY <1>1, <1>3, <1>5, ScrolledFacts
<1>7. /\ scroll' = s
      /\ at' = <<AtMost(line - s, Rows - 1) + 1, AtMost(col, Cols - 1)>>
      /\ screen' = [r \in 1..Rows |-> [c \in 0..(Cols - 1) |-> Cell(s, r, c)]]
  BY <1>2, <1>3, <1>4 DEF Draw
<1>8. pc' = "key" /\ UNCHANGED <<buffer, cursor, dirty, file, missed, faults>>
  BY DEF Draw
<1>9. AtMost(col, Cols - 1) \in 0..(Cols - 1)
  BY <1>5, EditorAssumption DEF AtMost
<1>10. at' \in (1..Rows) \X (0..(Cols - 1))
  BY <1>6, <1>7, <1>9
<1>11. screen' \in [1..Rows -> [0..(Cols - 1) -> Chars \cup {NL, Blank}]]
  BY <1>1, <1>6, <1>7, CellType
<1>12. scroll' \in 0..MaxSize
  BY <1>5, <1>6, <1>7, EditorAssumption
<1>13. TypeOK'
  BY <1>1, <1>8, <1>10, <1>11, <1>12 DEF TypeOK, Length
<1>14. CleanMeansSaved'
  BY <1>1, <1>8 DEF CleanMeansSaved
<1>15. Drawn'
  <2>1. line = LineAt(buffer', cursor') /\ col = cursor' - Start(buffer', line)
    BY <1>2, <1>4, <1>8
  <2>2. scroll' <= line /\ line < scroll' + Rows
    BY <1>6, <1>7
  <2>3. at' = <<line - scroll' + 1, AtMost(col, Cols - 1)>>
    BY <1>6, <1>7
  <2>4. screen' = [r \in 1..Rows |-> [c \in 0..(Cols - 1) |-> Cell(scroll, r, c)']]
    BY <1>7, <1>8 DEF Cell
  <2>5. QED
    BY <2>1, <2>2, <2>3, <2>4 DEF Drawn
<1>16. QED
  BY <1>13, <1>14, <1>15 DEF EditorInv
LEMMA EditStep ==
  ASSUME EditorInv, Backspace \/ \E ch \in Chars \cup {NL} : Insert(ch)
  PROVE  EditorInv'
<1>1. /\ TypeOK /\ buffer \in Text /\ Len(buffer) <= MaxSize /\ Len(buffer) \in Nat
      /\ cursor \in 0..Len(buffer) /\ cursor \in Nat /\ cursor <= Len(buffer)
  <2>1. TypeOK /\ buffer \in Text /\ Len(buffer) <= MaxSize /\ cursor \in 0..Len(buffer)
    BY DEF EditorInv, TypeOK, Length
  <2>2. Len(buffer) \in Nat
    BY <2>1, LenProperties DEF Text
  <2>3. QED
    BY <2>1, <2>2
<1>2. Key /\ UNCHANGED <<file, missed, faults>>
  BY DEF Insert, Backspace
<1>3. \/ UNCHANGED <<buffer, cursor, dirty>>
      \/ /\ buffer' \in Text /\ Len(buffer') <= MaxSize
         /\ cursor' \in 0..Len(buffer') /\ dirty' = TRUE
  <2>1. ASSUME NEW ch \in Chars \cup {NL}, Insert(ch), Len(buffer) < MaxSize
        PROVE  /\ buffer' \in Text /\ Len(buffer') <= MaxSize
               /\ cursor' \in 0..Len(buffer') /\ dirty' = TRUE
    <3>1. /\ buffer' = SubSeq(buffer, 1, cursor) \o <<ch>> \o SubSeq(buffer, cursor + 1, Len(buffer))
          /\ cursor' = cursor + 1 /\ dirty' = TRUE
      BY <2>1 DEF Insert, Length
    <3>2. buffer' \in Text /\ Len(buffer') = Len(buffer) + 1
      BY <1>1, <3>1, Inserted
    <3>3. PICK n, k : n = Len(buffer) /\ k = Len(buffer')
      OBVIOUS
    <3>4. k <= MaxSize /\ cursor + 1 \in 0..k
      BY ONLY <1>1, <2>1, <3>2, <3>3, EditorAssumption
    <3>5. QED
      BY <3>1, <3>2, <3>3, <3>4
  <2>2. ASSUME Backspace, cursor > 0
        PROVE  /\ buffer' \in Text /\ Len(buffer') <= MaxSize
               /\ cursor' \in 0..Len(buffer') /\ dirty' = TRUE
    <3>1. /\ buffer' = SubSeq(buffer, 1, cursor - 1) \o SubSeq(buffer, cursor + 1, Len(buffer))
          /\ cursor' = cursor - 1 /\ dirty' = TRUE
      BY <2>2 DEF Backspace, Length
    <3>2. cursor \in 1..Len(buffer)
      BY <1>1, <2>2
    <3>3. buffer' \in Text /\ Len(buffer') = Len(buffer) - 1
      BY <1>1, <3>1, <3>2, Deleted
    <3>4. PICK n, k : n = Len(buffer) /\ k = Len(buffer')
      OBVIOUS
    <3>5. k <= MaxSize /\ cursor - 1 \in 0..k
      BY ONLY <1>1, <2>2, <3>3, <3>4, EditorAssumption
    <3>6. QED
      BY <3>1, <3>3, <3>4, <3>5
  <2>3. QED
    BY <2>1, <2>2 DEF Insert, Backspace, Length
<1>4. TypeOK' /\ Drawn'
  <2>1. /\ buffer' \in Text /\ Len(buffer') <= MaxSize /\ cursor' \in 0..Len(buffer')
        /\ dirty' \in BOOLEAN
    BY <1>1, <1>3 DEF TypeOK
  <2>2. missed' \in BOOLEAN /\ file' \in Text \cup {Absent, Damaged} /\ faults' \in Nat
    BY <1>1, <1>2 DEF TypeOK
  <2>3. QED
    BY <1>1, <1>2, <2>1, <2>2, KeyTypes
<1>5. CleanMeansSaved'
  BY <1>2, <1>3 DEF EditorInv, CleanMeansSaved, Key
<1>6. QED
  BY <1>4, <1>5 DEF EditorInv

\* Where a step up or down ends: on the other line, or where it was.
LEMMA LandingFacts ==
  ASSUME TypeOK, NEW line, line = LineAt(buffer, cursor), NEW m \in 0..(LineCount(buffer) - 1)
  PROVE  /\ Landing(m, cursor - Start(buffer, line)) \in Start(buffer, m)..LineEnd(buffer, m)
         /\ Landing(m, cursor - Start(buffer, line)) \in 0..Len(buffer)
<1>1. Start(buffer, line) \in Nat /\ Start(buffer, line) <= cursor /\ cursor \in Nat
  BY CursorLine
<1>2. buffer \in Text
  BY DEF TypeOK
<1>3. /\ Start(buffer, m) \in Nat /\ LineEnd(buffer, m) \in Nat /\ Len(buffer) \in Nat
  BY <1>2, LineTypes
<1>4. Start(buffer, m) <= LineEnd(buffer, m) /\ LineEnd(buffer, m) <= Len(buffer)
  <2>1. LineEnd(buffer, m) \in Start(buffer, m)..Len(buffer)
    BY <1>2, LineEndFacts
  <2>2. QED
    BY <1>3, <2>1
<1>5. PICK a, z, col, n : /\ a = Start(buffer, m) /\ z = LineEnd(buffer, m)
                          /\ col = cursor - Start(buffer, line) /\ n = Len(buffer)
  OBVIOUS
<1>6. a \in Nat /\ z \in Nat /\ a <= z /\ col \in Nat /\ n \in Nat /\ z <= n
  BY <1>1, <1>3, <1>4, <1>5
<1>7. Landing(m, col) = a + AtMost(col, z - a)
  BY <1>5 DEF Landing
<1>8. a + AtMost(col, z - a) \in a..z /\ a + AtMost(col, z - a) \in 0..n
  BY ONLY <1>6 DEF AtMost
<1>9. QED
  BY <1>5, <1>7, <1>8

LEMMA MoveStep ==
  ASSUME EditorInv, Left \/ Right \/ Vertical(-1) \/ Vertical(1)
  PROVE  EditorInv'
<1>1. /\ TypeOK /\ buffer \in Text /\ Len(buffer) \in Nat /\ Len(buffer) <= MaxSize
      /\ cursor \in 0..Len(buffer) /\ cursor \in Nat
  <2>1. TypeOK /\ buffer \in Text /\ Len(buffer) <= MaxSize /\ cursor \in 0..Len(buffer)
    BY DEF EditorInv, TypeOK, Length
  <2>2. Len(buffer) \in Nat
    BY <2>1, LenProperties DEF Text
  <2>3. QED
    BY <2>1, <2>2
<1>2. Key /\ UNCHANGED <<buffer, dirty, file, missed, faults>>
  BY DEF Left, Right, Vertical
<1>3. cursor' \in 0..Len(buffer)
  <2>1. CASE Left
    BY <1>1, <2>1 DEF Left
  <2>2. CASE Right
    BY <1>1, <2>2 DEF Right, Length
  <2>3. ASSUME NEW d \in {-1, 1}, Vertical(d) PROVE cursor' \in 0..Len(buffer)
    <3>1. PICK line : line = LineAt(buffer, cursor)
      OBVIOUS
    <3>2. PICK m : m = line + d
      OBVIOUS
    <3>3. cursor' = IF m \in 0..(LineCount(buffer) - 1)
                    THEN Landing(m, cursor - Start(buffer, line)) ELSE cursor
      BY <2>3, <3>1, <3>2 DEF Vertical
    <3>4. QED
      BY <1>1, <3>1, <3>3, LandingFacts
  <2>4. QED
    BY <2>1, <2>2, <2>3
<1>4. TypeOK' /\ Drawn'
  <2>1. /\ buffer' \in Text /\ Len(buffer') <= MaxSize /\ cursor' \in 0..Len(buffer')
    BY <1>1, <1>2, <1>3
  <2>2. /\ missed' \in BOOLEAN /\ dirty' \in BOOLEAN
        /\ file' \in Text \cup {Absent, Damaged} /\ faults' \in Nat
    BY <1>1, <1>2 DEF TypeOK
  <2>3. QED
    BY <1>1, <1>2, <2>1, <2>2, KeyTypes
<1>5. CleanMeansSaved'
  BY <1>2 DEF EditorInv, CleanMeansSaved, Key
<1>6. QED
  BY <1>4, <1>5 DEF EditorInv

LEMMA SaveStep ==
  ASSUME EditorInv, Save \/ SaveFails
  PROVE  EditorInv'
<1>1. TypeOK /\ buffer \in Text /\ Len(buffer) <= MaxSize /\ cursor \in 0..Len(buffer)
  BY DEF EditorInv, TypeOK, Length
<1>2. Key /\ UNCHANGED <<buffer, cursor>>
  BY DEF Save, SaveFails
<1>3. /\ file' \in Text \cup {Absent, Damaged} /\ faults' \in Nat
      /\ missed' \in BOOLEAN /\ dirty' \in BOOLEAN
  <2>1. CASE Save
    BY <1>1, <2>1 DEF Save, TypeOK
  <2>2. CASE SaveFails
    <3>1. faults' \in Nat
      BY <1>1, <2>2 DEF SaveFails, TypeOK
    <3>2. file' \in {file, Damaged, buffer} /\ missed' = (missed \/ ~dirty) /\ dirty' = dirty
      BY <2>2 DEF SaveFails
    <3>3. missed' \in BOOLEAN
      BY <3>2
    <3>4. QED
      BY <1>1, <3>1, <3>2, <3>3 DEF TypeOK
  <2>3. QED
    BY <2>1, <2>2
<1>4. TypeOK' /\ Drawn'
  BY <1>1, <1>2, <1>3, KeyTypes
<1>5. CleanMeansSaved'
  <2>1. CASE Save
    BY <2>1 DEF Save, CleanMeansSaved
  <2>2. CASE SaveFails
    BY <2>2 DEF SaveFails, CleanMeansSaved
  <2>3. QED
    BY <2>1, <2>2
<1>6. QED
  BY <1>4, <1>5 DEF EditorInv

LEMMA NextInv == EditorInv /\ [Next]_vars => EditorInv'
<1> SUFFICES ASSUME EditorInv, [Next]_vars PROVE EditorInv'
  OBVIOUS
<1>1. CASE TooLarge \/ UNCHANGED vars
  <2>1. UNCHANGED <<pc, buffer, cursor, scroll, dirty, file, screen, at, missed, faults>>
    BY <1>1 DEF TooLarge, vars, state
  <2>2. TypeOK'
    BY <2>1 DEF EditorInv, TypeOK, Length
  <2>3. CleanMeansSaved' /\ Drawn'
    BY <2>1 DEF EditorInv, CleanMeansSaved, Drawn, Cell
  <2>4. QED
    BY <2>2, <2>3 DEF EditorInv
<1>2. CASE Quit
  <2>1. /\ pc' = "shell"
        /\ UNCHANGED <<buffer, cursor, scroll, dirty, file, screen, at, missed, faults>>
    BY <1>2 DEF Quit, state
  <2>2. TypeOK'
    BY <2>1 DEF EditorInv, TypeOK, Length
  <2>3. CleanMeansSaved' /\ Drawn'
    BY <2>1, NothingDrawnYet DEF CleanMeansSaved
  <2>4. QED
    BY <2>2, <2>3 DEF EditorInv
<1>3. CASE Open \/ OpenUnread
  BY <1>3, OpenStep
<1>4. CASE Draw
  BY <1>4, DrawStep
<1>5. CASE Backspace \/ \E ch \in Chars \cup {NL} : Insert(ch)
  BY <1>5, EditStep
<1>6. CASE Left \/ Right \/ Vertical(-1) \/ Vertical(1)
  BY <1>6, MoveStep
<1>7. CASE Save \/ SaveFails
  BY <1>7, SaveStep
<1>8. QED
  BY <1>1, <1>2, <1>3, <1>4, <1>5, <1>6, <1>7 DEF Next

LEMMA EditorInvariant == Spec => []EditorInv
BY InitInv, NextInv, PTL DEF Spec

-------------------------------------------------------------------------------
\* The properties.

\* Whatever is typed and opened, the cursor stays in the buffer, the buffer within
\* its size and the console's cursor in the text area.
THEOREM EditorTypes == Spec => []TypeOK
<1>1. EditorInv => TypeOK
  BY DEF EditorInv
<1>2. QED
  BY <1>1, EditorInvariant, PTL

\* A clear dirty flag means that the file holds the buffer, with the exceptions
\* that CleanMeansSaved names.
THEOREM CleanIsSaved == Spec => []CleanMeansSaved
<1>1. EditorInv => CleanMeansSaved
  BY DEF EditorInv
<1>2. QED
  BY <1>1, EditorInvariant, PTL

LEMMA ShownWhereItIs == EditorInv => CursorShown
<1> SUFFICES ASSUME EditorInv, pc = "key", ~TooManyLines PROVE CursorShown
  BY DEF CursorShown
<1>1. /\ TypeOK /\ buffer \in Text /\ cursor \in 0..Len(buffer)
      /\ Cardinality(Newlines(buffer)) < MaxLines
  <2>1. TypeOK /\ buffer \in Text /\ cursor \in 0..Len(buffer)
    BY DEF EditorInv, TypeOK, Length
  <2>2. Cardinality(Newlines(buffer)) \in Nat
    BY <2>1, NewlineFacts
  <2>3. QED
    BY <2>1, <2>2, EditorAssumption DEF TooManyLines
<1>2. PICK line : line = LineAt(buffer, cursor)
  OBVIOUS
<1>3. PICK begin : begin = Start(buffer, line)
  OBVIOUS
<1>4. Column(cursor) = cursor - begin
  BY <1>1, <1>2, <1>3, BeginsAfterLast DEF Column, LineBegin
<1>5. /\ line \in 0..(LineCount(buffer) - 1) /\ line \in Nat
      /\ begin \in Nat /\ begin <= cursor /\ cursor \in Nat
  BY <1>1, <1>2, <1>3, CursorLine
<1>6. cursor < LineEnd(buffer, line) <=> ~AtLineEnd(cursor)
  <2>1. cursor < Len(buffer) <=> cursor # Len(buffer)
    BY <1>1, <1>5, NewlineFacts
  <2>2. QED
    BY <1>1, <1>2, <2>1, UnderCursor DEF AtLineEnd, Length
<1>7. /\ scroll <= line /\ line < scroll + Rows /\ scroll \in Nat
      /\ at = <<line - scroll + 1, AtMost(cursor - begin, Cols - 1)>>
      /\ screen = [r \in 1..Rows |-> [c \in 0..(Cols - 1) |-> Cell(scroll, r, c)]]
  <2>1. scroll \in Nat
    BY <1>1 DEF TypeOK
  <2>2. QED
    BY <2>1, <1>2, <1>3 DEF EditorInv, Drawn
<1>8. ASSUME cursor - begin < Cols
      PROVE  /\ at[2] = cursor - begin
             /\ screen[at[1]][at[2]] =
                  IF AtLineEnd(cursor) THEN Blank ELSE Shown(buffer[cursor + 1])
  <2>1. PICK r, c : r = line - scroll + 1 /\ c = cursor - begin
    OBVIOUS
  <2>2. c \in 0..(Cols - 1) /\ AtMost(c, Cols - 1) = c /\ begin + c = cursor
    BY <1>5, <1>8, <2>1, EditorAssumption DEF AtMost
  <2>3. r \in 1..Rows /\ scroll + r - 1 = line
    BY <1>5, <1>7, <2>1, EditorAssumption
  <2>4. at = <<r, c>>
    BY <1>7, <2>1, <2>2
  <2>5. screen[r][c] = Cell(scroll, r, c)
    BY <1>7, <2>2, <2>3
  <2>6. line < LineCount(buffer)
    <3>1. LineCount(buffer) \in Nat
      BY <1>1, StartFacts
    <3>2. QED
      BY <1>5, <3>1
  <2>7. Cell(scroll, r, c) = IF cursor < LineEnd(buffer, line)
                             THEN Shown(buffer[cursor + 1]) ELSE Blank
    BY <1>3, <2>2, <2>3, <2>6 DEF Cell
  <2>8. at[1] = r /\ at[2] = c
    BY <2>4
  <2>9. QED
    BY <1>6, <2>1, <2>5, <2>7, <2>8
<1>9. QED
  BY <1>4, <1>8 DEF CursorShown

\* The console's cursor stands on the character that the next key is about, in
\* every text whose lines are all known.
THEOREM CursorIsShown == Spec => []CursorShown
BY EditorInvariant, ShownWhereItIs, PTL

\* Positions of a text whose lines are all known: line and column by the newlines
\* are those by the table.
LEMMA ByTheTable ==
  ASSUME buffer \in Text, Cardinality(Newlines(buffer)) < MaxLines,
         NEW n \in 0..(LineCount(buffer) - 1), NEW p \in Start(buffer, n)..LineEnd(buffer, n),
         p \in 0..Len(buffer)
  PROVE  /\ Before(buffer, p) = n /\ Column(p) = p - Start(buffer, n)
         /\ p = LineEnd(buffer, n) => AtLineEnd(p)
<1>1. Before(buffer, p) = n
  BY BeforeOnLine
<1>2. PICK l : l = LineAt(buffer, p)
  OBVIOUS
<1>3. /\ l \in 0..(LineCount(buffer) - 1) /\ p \in Start(buffer, l)..LineEnd(buffer, l)
      /\ p < LineEnd(buffer, l) <=> p < Len(buffer) /\ buffer[p + 1] # NL
  BY <1>2, UnderCursor
<1>4. l = n
  BY <1>1, <1>3, BeforeOnLine
<1>5. Column(p) = p - Start(buffer, n)
  <2>1. PICK b : b = Start(buffer, LineAt(buffer, p))
    OBVIOUS
  <2>2. b = LineBegin(p)
    BY <2>1, BeginsAfterLast DEF LineBegin
  <2>3. QED
    BY <1>2, <1>4, <2>1, <2>2 DEF Column
<1>6. ASSUME p = LineEnd(buffer, n) PROVE AtLineEnd(p)
  <2>1. Len(buffer) \in Nat /\ LineEnd(buffer, n) \in Nat
    BY LineTypes
  <2>2. ~(p < Len(buffer) /\ buffer[p + 1] # NL)
    BY <1>3, <1>4, <1>6, <2>1
  <2>3. QED
    BY <2>1, <2>2 DEF AtLineEnd, Length
<1>7. QED
  BY <1>1, <1>5, <1>6

LEMMA OneLine ==
  ASSUME EditorInv, ~TooManyLines, NEW d \in {-1, 1}, Vertical(d)
  PROVE  \/ /\ Before(buffer, cursor') = Before(buffer, cursor) + d
            /\ \/ Column(cursor') = Column(cursor)
               \/ Column(cursor') < Column(cursor) /\ AtLineEnd(cursor')
         \/ /\ Before(buffer, cursor) + d \notin 0..Cardinality(Newlines(buffer))
            /\ cursor' = cursor
<1>1. /\ TypeOK /\ buffer \in Text /\ cursor \in 0..Len(buffer)
      /\ Cardinality(Newlines(buffer)) < MaxLines
  <2>1. TypeOK /\ buffer \in Text /\ cursor \in 0..Len(buffer)
    BY DEF EditorInv, TypeOK, Length
  <2>2. Cardinality(Newlines(buffer)) \in Nat
    BY <2>1, NewlineFacts
  <2>3. QED
    BY <2>1, <2>2, EditorAssumption DEF TooManyLines
<1>2. PICK line : line = LineAt(buffer, cursor)
  OBVIOUS
<1>3. PICK m : m = line + d
  OBVIOUS
<1>4. cursor' = IF m \in 0..(LineCount(buffer) - 1)
                THEN Landing(m, cursor - Start(buffer, line)) ELSE cursor
  BY <1>2, <1>3 DEF Vertical
<1>5. line \in 0..(LineCount(buffer) - 1) /\ cursor \in Start(buffer, line)..LineEnd(buffer, line)
  BY <1>1, <1>2, UnderCursor
<1>6. /\ Before(buffer, cursor) = line /\ Column(cursor) = cursor - Start(buffer, line)
      /\ line \in Nat /\ Start(buffer, line) \in Nat /\ cursor \in Nat
  <2>1. line \in Nat /\ Start(buffer, line) \in Nat /\ cursor \in Nat
    BY <1>1, <1>2, CursorLine
  <2>2. QED
    BY <1>1, <1>5, <2>1, ByTheTable
<1>7. CASE m \in 0..(LineCount(buffer) - 1)
  <2>1. PICK c : c = cursor'
    OBVIOUS
  <2>2. c = Landing(m, cursor - Start(buffer, line))
    BY <1>4, <1>7, <2>1
  <2>3. c \in Start(buffer, m)..LineEnd(buffer, m) /\ c \in 0..Len(buffer)
    BY <1>1, <1>2, <1>7, <2>2, LandingFacts
  <2>4. /\ Before(buffer, c) = m /\ Column(c) = c - Start(buffer, m)
        /\ c = LineEnd(buffer, m) => AtLineEnd(c)
    BY <1>1, <1>7, <2>3, ByTheTable
  <2>5. Start(buffer, m) \in Nat /\ LineEnd(buffer, m) \in Nat
    BY <1>1, <1>7, LineTypes
  <2>6. \/ c - Start(buffer, m) = cursor - Start(buffer, line)
        \/ /\ c - Start(buffer, m) < cursor - Start(buffer, line)
           /\ c = LineEnd(buffer, m)
    BY <1>6, <2>2, <2>5 DEF Landing, AtMost
  <2>7. \/ Column(c) = Column(cursor)
        \/ Column(c) < Column(cursor) /\ AtLineEnd(c)
    BY <1>6, <2>4, <2>6
  <2>8. QED
    BY <1>3, <1>6, <2>1, <2>4, <2>7
<1>8. CASE m \notin 0..(LineCount(buffer) - 1)
  <2>1. cursor' = cursor
    BY <1>4, <1>8
  <2>2. LineCount(buffer) - 1 = Cardinality(Newlines(buffer))
    BY <1>1, AllKnown
  <2>3. QED
    BY <1>3, <1>6, <1>8, <2>1, <2>2
<1>9. QED
  BY <1>7, <1>8

\* For texts, windows and tables of lines of any size: up and down move the cursor by
\* exactly one line and keep its column or, on a shorter line, end at that line's end;
\* they leave it where it is only when there is no such line.
THEOREM MovesByLine == Spec => VerticalByLine
<1> DEFINE step == \A d \in {-1, 1} : Vertical(d) =>
       \/ TooManyLines
       \/ /\ Before(buffer, cursor') = Before(buffer, cursor) + d
          /\ \/ Column(cursor') = Column(cursor)
             \/ Column(cursor') < Column(cursor) /\ AtLineEnd(cursor')
       \/ /\ Before(buffer, cursor) + d \notin 0..Cardinality(Newlines(buffer))
          /\ cursor' = cursor
<1>1. EditorInv /\ [Next]_vars => [step]_vars
  <2>1. ASSUME EditorInv PROVE step
    BY <2>1, OneLine
  <2>2. QED
    BY <2>1
<1>2. VerticalByLine <=> [][step]_vars
  BY DEF VerticalByLine
<1>3. QED
  BY <1>1, <1>2, EditorInvariant, PTL DEF Spec
===============================================================================
