------------------------------ MODULE Xhci_proofs ------------------------------
(***************************************************************************)
(* The rings of Xhci stay in step, the device that is set up is a keyboard *)
(* on the port the driver thinks of, no report is translated twice, and a  *)
(* controller that looks elsewhere for the rings leaves no keyboard found. *)
(* For any number of keys, errors, port events, timeouts and late answers. *)
(***************************************************************************)
EXTENDS Xhci, FiniteSetTheorems, TLAPS

-------------------------------------------------------------------------------
\* One ring of the driver: n entries, x what the driver has written, h how far the
\* controller has read.

Consumer(n) == [deq : 0..(n - 1), cycle : {0, 1}, rung : BOOLEAN]

\* Writer and reader agree on each entry.  A link entry is only looked at from
\* one lap to the next, when it has been handed over.
InStep(n, x, h) ==
  /\ x.cycle = h.cycle => h.deq <= x.enq
  /\ x.cycle # h.cycle => x.enq <= h.deq /\ x.trb[n - 1].cycle = h.cycle
  /\ \A i \in 0..(n - 2) :
       LooksWritten(i, x.trb[i].cycle, h.deq, h.cycle)
         <=> InFlight(i, x.enq, x.cycle, h.deq, h.cycle)

\* The entries not yet read: their places, how many, and how many lie before each.
Flying(n, x, h) == {i \in 0..(n - 2) : InFlight(i, x.enq, x.cycle, h.deq, h.cycle)}
Count(n, x, h)  == IF x.cycle = h.cycle THEN x.enq - h.deq ELSE x.enq + (n - 1) - h.deq
Before(n, i, h) == IF i >= h.deq THEN i - h.deq ELSE i + (n - 1) - h.deq

Fly(r)      == Flying(Size[r], ring[r], hc[r])
Pending(r)  == Count(Size[r], ring[r], hc[r])
Ahead(r, i) == Before(Size[r], i, hc[r])
Op(r, i)    == ring[r].trb[i].op

\* The event ring: the events not yet taken, by type, and how many lie before one.
EventsInStep ==
  /\ erdp = evt.deq
  /\ evt.cycle = hcEvt.cycle => evt.deq <= hcEvt.enq
  /\ evt.cycle # hcEvt.cycle => hcEvt.enq < evt.deq
  /\ \A i \in 0..(EvtSize - 1) :
       LooksWritten(i, evt.event[i].cycle, evt.deq, evt.cycle)
         <=> InFlight(i, hcEvt.enq, hcEvt.cycle, evt.deq, evt.cycle)

Waiting(i) == InFlight(i, hcEvt.enq, hcEvt.cycle, evt.deq, evt.cycle)
Answers(t) == {i \in 0..(EvtSize - 1) : Waiting(i) /\ evt.event[i].type = t}
Turn(i)    == IF i >= evt.deq THEN i - evt.deq ELSE i + EvtSize - evt.deq

-------------------------------------------------------------------------------
\* The inductive invariant.

Todos(s) ==
  CASE s \in Commands         -> {<<s>>, <<>>}
    [] s \in {"head", "full"} -> {<<"setup", "data", "status">>, <<"data", "status">>, <<"status">>, <<>>}
    [] OTHER                  -> {<<"setup", "status">>, <<"status">>, <<>>}

Trying == pc \in {"submit", "wait"}
Using  == pc \in {"ready", "again"}
Stage  == Stages[stage]

EpStates == [RingNames -> {"none", "good", "away", "halted"}]

Types ==
  /\ TypeOK
  /\ device \in [Ports -> {"none", "keyboard", "other"}]
  /\ reports \in Nat /\ errors \in Nat /\ portEvents \in Nat
  /\ DOMAIN ring = RingNames /\ DOMAIN hc = RingNames
  /\ Trying => todo \in Todos(Stage)
  /\ pc = "wait" => todo = <<>>
  /\ Trying \/ Using => port \in Ports

\* The ring for commands has room for one command of every port: its 64 entries are
\* enough for 62 ports.  Without that a controller that answers nothing would be
\* written over, since xhci_ring_enqueue never looks how full the ring is.
FewPorts == NPorts + 2 <= CmdSize

Rings ==
  /\ InStep(CmdSize, ring["cmd"], hc["cmd"])
  /\ ~late => InStep(CtrlSize, ring["ctrl"], hc["ctrl"])
  /\ InStep(IntrSize, ring["intr"], hc["intr"])
  /\ EventsInStep

\* Commands without their answers taken, and whether the driver's last is one.
Outstanding == Pending("cmd") + Cardinality(Answers("cmd"))
Asked       == Trying /\ Stage \in Commands /\ todo = <<>>
Own         == IF Asked THEN 1 ELSE 0

\* There is one slot, and so there is one token.  It starts with the controller;
\* a slot granted, a later command and a later success each carry it on; and who
\* has it may go on to a keyboard.
Holding    == (Trying /\ stage > 1 /\ ~Asked) \/ Using
Success(i) == i \in Answers("cmd") /\ evt.event[i].ok
Later(i)   == i \in Fly("cmd") /\ Op("cmd", i) # "enable"
Lost       == granted # 0 /\ ~Holding /\ (\A i \in Answers("cmd") : ~Success(i))
                /\ (\A i \in Fly("cmd") : ~Later(i))

OneToken ==
  /\ granted = 0 \/ Holding =>
       /\ granted # 0 \/ ~Holding
       /\ \A i \in Answers("cmd") : ~Success(i)
       /\ \A i \in Fly("cmd") : ~Later(i)
  /\ \A i, j \in Answers("cmd") : Success(i) /\ Success(j) => i = j
  /\ \A i, j \in Fly("cmd") : Later(i) /\ Later(j) => i = j
  /\ \A i \in Answers("cmd"), j \in Fly("cmd") : ~(Success(i) /\ Later(j))
  /\ Trying /\ stage > 1 => granted # 0

\* A wait that has timed out leaves an answer too many, which stays one too many;
\* or it was the token's.
Lag ==
  /\ Outstanding <= port - 1 + Own
  /\ ~late => Outstanding = Own
  /\ late => Lost \/ Outstanding >= Own + 1
  /\ late => ~Using /\ (Trying => stage <= 2)

\* The token's command and its answer come last.
TokenLast ==
  Trying /\ stage = 2 /\ Asked =>
    /\ \A i \in Fly("cmd") : Later(i) => Ahead("cmd", i) + 1 = Pending("cmd")
    /\ \A i \in Answers("cmd") : Success(i) =>
         Pending("cmd") = 0 /\ \A j \in Answers("cmd") : Turn(j) <= Turn(i)

\* Before any answer is late, the controller works at what the driver waits for.
OnTime ==
  ~late =>
    /\ \A i \in Fly("cmd") : Trying /\ Op("cmd", i) = Stage /\ ring["cmd"].trb[i].port = port
    /\ Using \/ (Trying /\ (stage > 2 \/ (stage = 2 /\ \E i \in Answers("cmd") : Success(i))))
         => addressed = port

\* The rings for transfers are as new until the controller learns of them.
Idle0 == [deq |-> 0, cycle |-> 1, rung |-> FALSE]

Unaddressed ==
  \/ granted = 0
  \/ Trying /\ stage = 1 /\ \E i \in Answers("cmd") : Success(i)
  \/ Trying /\ stage = 2

Unused ==
  /\ ~late /\ Unaddressed =>
       /\ ring["ctrl"] = NewRing(CtrlSize) /\ hc["ctrl"] = Idle0
       /\ Answers("transfer") = {}
  /\ ~Using => ring["intr"] = NewRing(IntrSize) /\ hc["intr"] = Idle0

\* The request that is under way.  consumed of its entries are read.
Controlling == Trying /\ stage \in 3..7
Sent        == Len(Entries(Stage)) - Len(todo)
Consumed    == Sent - Pending("ctrl")

Request ==
  ~late /\ Controlling =>
    /\ Pending("ctrl") <= Sent
    /\ \A i \in Fly("ctrl") : Op("ctrl", i) = Entries(Stage)[Consumed + Ahead("ctrl", i) + 1]
    /\ Sent = 0 => Answers("transfer") = {}
    /\ \A i \in Answers("transfer") : evt.event[i].ok =>
         /\ Consumed = Len(Entries(Stage))
         /\ \A j \in Answers("transfer") : Turn(j) <= Turn(i)
    /\ Stage = "full" /\ Consumed >= 2 => conf = device[port]

\* What is known of the device at each stage.
Keyboard ==
  /\ ~late /\ Trying /\ stage > 4 => device[port] = "keyboard"
  /\ ~late /\ Trying /\ stage = 8 => Pending("ctrl") = 0 /\ Answers("transfer") = {}
  /\ Using => device[port] \in {"keyboard", "none"} /\ Pending("ctrl") = 0

\* At most one transfer is out to the keyboard, or its event is.
OneReport ==
  /\ ~Using => ~pending /\ owed = <<>>
  /\ Using =>
       \/ ~pending /\ Pending("intr") = 0 /\ Answers("transfer") = {} /\ owed = <<>>
       \/ pending /\ Pending("intr") = 1 /\ Answers("transfer") = {} /\ owed = <<>>
       \/ /\ pending /\ Pending("intr") = 0
          /\ \E i \in 0..(EvtSize - 1) :
               /\ Answers("transfer") = {i}
               /\ owed = IF evt.event[i].ok THEN <<report>> ELSE <<>>

\* The controller that looks for the rings elsewhere works at neither of them: the
\* first control transfer is as far as the driver comes, and its only answer, in
\* time or late, is a failure.
Nowhere ==
  ~AsMeant =>
    /\ ep["ctrl"] # "good" /\ ep["intr"] # "good"
    /\ ~Using /\ (Trying => stage <= 3)
    /\ \A i \in Answers("transfer") : ~evt.event[i].ok
    /\ ~late /\ Trying /\ stage = 3 /\ todo # <<>> => ~hc["ctrl"].rung

Astray ==
  /\ ep["ctrl"] = "away" \/ ep["intr"] = "away" => ~AsMeant
  /\ Nowhere

XhciInv ==
  /\ Types /\ Rings /\ OneToken /\ Lag /\ TokenLast /\ OnTime
  /\ Unused /\ Request /\ Keyboard /\ OneReport
-------------------------------------------------------------------------------
\* One ring, step by step.

LEMMA NewRingInStep ==
  ASSUME NEW n \in Nat, n >= 3
  PROVE  /\ NewRing(n) \in Ring(n) /\ Idle0 \in Consumer(n)
         /\ InStep(n, NewRing(n), Idle0) /\ Count(n, NewRing(n), Idle0) = 0
         /\ Flying(n, NewRing(n), Idle0) = {}
<1> DEFINE trb == [i \in 0..(n - 1) |-> [op |-> "none", port |-> 0, cycle |-> IF i = n - 1 THEN 1 ELSE 0]]
<1>a. NewRing(n) = [trb |-> trb, enq |-> 0, cycle |-> 1]
  BY DEF NewRing
<1>b. trb \in [0..(n - 1) -> Trbs] /\ \A i \in 0..(n - 2) : trb[i].cycle = 0
  BY XhciAssumption, SMT DEF Trbs
<1> HIDE DEF trb
<1>1. NewRing(n) \in Ring(n) /\ Idle0 \in Consumer(n)
  BY <1>a, <1>b, SMT DEF Ring, Idle0, Consumer
<1>2. InStep(n, NewRing(n), Idle0) /\ Count(n, NewRing(n), Idle0) = 0 /\ Flying(n, NewRing(n), Idle0) = {}
  BY <1>a, <1>b, SMT DEF Idle0, InStep, LooksWritten, InFlight, Count, Flying
<1> QED
  BY <1>1, <1>2

\* How many entries are out, and where.
LEMMA CountBounds ==
  ASSUME NEW n \in Nat, n >= 3, NEW x \in Ring(n), NEW h \in Consumer(n), InStep(n, x, h)
  PROVE  /\ Count(n, x, h) \in 0..(n - 1)
         /\ Count(n, x, h) = 0 => Flying(n, x, h) = {}
         /\ \A i \in Flying(n, x, h) : Before(n, i, h) \in 0..(Count(n, x, h) - 1)
BY SMT DEF Ring, Consumer, InStep, Count, Flying, Before, InFlight

\* An entry more is out, the last one.
Puts(n, x, h, op, p, y) ==
  /\ y \in Ring(n) /\ InStep(n, y, h)
  /\ Count(n, y, h) = Count(n, x, h) + 1
  /\ x.enq \notin Flying(n, x, h) /\ Flying(n, y, h) = Flying(n, x, h) \cup {x.enq}
  /\ Before(n, x.enq, h) = Count(n, x, h)
  /\ \A i \in Flying(n, x, h) : y.trb[i] = x.trb[i]
  /\ y.trb[x.enq].op = op /\ y.trb[x.enq].port = p

LEMMA EnqueueInStep ==
  ASSUME NEW n \in Nat, n >= 3, NEW x \in Ring(n), NEW h \in Consumer(n),
         InStep(n, x, h), Count(n, x, h) + 1 <= n - 2,
         NEW op \in Commands \cup {"none", "setup", "data", "status", "normal"}, NEW p \in 0..NPorts,
         NEW y, y = Enqueue(x, n, op, p)
  PROVE  Puts(n, x, h, op, p, y)
<1> DEFINE e == [op |-> op, port |-> p, cycle |-> x.cycle]
<1>1. /\ x.trb \in [0..(n - 1) -> Trbs] /\ x.enq \in 0..(n - 2) /\ x.cycle \in {0, 1}
      /\ x = [trb |-> x.trb, enq |-> x.enq, cycle |-> x.cycle]
      /\ h.deq \in 0..(n - 1) /\ h.cycle \in {0, 1} /\ e \in Trbs
      /\ e.op = op /\ e.port = p /\ e.cycle = x.cycle
  BY SMT DEF Ring, Consumer, Trbs
<1> DEFINE put == [x.trb EXCEPT ![x.enq] = e]
           l == [put[n - 1] EXCEPT !.cycle = x.cycle]
           put2 == [put EXCEPT ![n - 1] = l]
<1>2. /\ put \in [0..(n - 1) -> Trbs] /\ put[x.enq] = e
      /\ \A i \in 0..(n - 1) : i # x.enq => put[i] = x.trb[i]
  BY <1>1, SMT
<1>3. /\ put2 \in [0..(n - 1) -> Trbs] /\ put2[n - 1].cycle = x.cycle
      /\ \A i \in 0..(n - 2) : put2[i] = put[i]
  <2>1. n - 1 \in 0..(n - 1) /\ put[n - 1] \in Trbs
    BY <1>2, SMT
  <2>2. l \in Trbs /\ l.cycle = x.cycle
    BY <2>1, <1>1, SMT DEF Trbs
  <2> HIDE DEF put, l
  <2> QED
    BY <2>1, <2>2, <1>2, SMT
<1> DEFINE z == [x EXCEPT !.trb = put]
           z2 == [z EXCEPT !.trb = put2, !.enq = 0, !.cycle = 1 - x.cycle]
           z3 == [z EXCEPT !.enq = x.enq + 1]
<1>4. y = IF x.enq + 1 = n - 1 THEN z2 ELSE z3
  <2>1. z = [x EXCEPT !.trb[x.enq] = e] /\ z.trb = put
    BY <1>1, SMT
  <2>2. y = IF x.enq + 1 = n - 1 THEN [z EXCEPT !.trb[n - 1].cycle = x.cycle, !.enq = 0, !.cycle = 1 - x.cycle]
                                 ELSE z3
    BY <2>1 DEF Enqueue
  <2> HIDE DEF z
  <2>3. [z EXCEPT !.trb[n - 1].cycle = x.cycle, !.enq = 0, !.cycle = 1 - x.cycle]
           = [z EXCEPT !.trb = [z.trb EXCEPT ![n - 1] = [z.trb[n - 1] EXCEPT !.cycle = x.cycle]],
                       !.enq = 0, !.cycle = 1 - x.cycle]
    OBVIOUS
  <2>4. [z.trb EXCEPT ![n - 1] = [z.trb[n - 1] EXCEPT !.cycle = x.cycle]] = put2
    BY <2>1
  <2> QED
    BY <2>2, <2>3, <2>4, Zenon
<1> HIDE DEF e, put, l, put2
<1>5. y \in Ring(n)
  <2>1. 1 - x.cycle \in {0, 1} /\ 0 \in 0..(n - 2)
    BY <1>1, SMT
  <2>2. x.enq + 1 # n - 1 => x.enq + 1 \in 0..(n - 2)
    BY <1>1, SMT
  <2> QED
    BY <2>1, <2>2, <1>2, <1>3, <1>4, Zenon DEF Ring
<1>6. /\ (x.cycle = h.cycle /\ h.deq <= x.enq) \/ (x.cycle = 1 - h.cycle /\ x.enq < h.deq /\ x.enq + 1 # n - 1)
  BY <1>1, SMT DEF InStep, Count
<1>10. /\ x.enq + 1 = n - 1 => y.trb = put2 /\ y.enq = 0 /\ y.cycle = 1 - x.cycle
       /\ x.enq + 1 # n - 1 => y.trb = put /\ y.enq = x.enq + 1 /\ y.cycle = x.cycle
  BY <1>1, <1>4, SMT
<1>7. InStep(n, y, h)
  <2>1. (y.cycle = h.cycle => h.deq <= y.enq) /\ (y.cycle # h.cycle => y.enq <= h.deq)
    BY <1>1, <1>2, <1>3, <1>6, <1>10, SMT DEF InStep
  <2>2. y.cycle # h.cycle => y.trb[n - 1].cycle = h.cycle
    <3>1. CASE x.enq + 1 = n - 1
      BY <3>1, <1>1, <1>3, <1>6, <1>10, SMT
    <3>2. CASE x.enq + 1 # n - 1
      <4>1. n - 1 \in 0..(n - 1) /\ n - 1 # x.enq
        BY <1>1, SMT
      <4> QED
        BY <4>1, <3>2, <1>2, <1>10, SMT DEF InStep
    <3> QED
      BY <3>1, <3>2
  <2>3. ASSUME NEW i \in 0..(n - 2)
        PROVE  LooksWritten(i, y.trb[i].cycle, h.deq, h.cycle)
                 <=> InFlight(i, y.enq, y.cycle, h.deq, h.cycle)
    <3>1. i # x.enq => y.trb[i].cycle = x.trb[i].cycle
      BY <1>1, <1>2, <1>3, <1>4, SMT
    <3>2. i = x.enq => y.trb[i].cycle = x.cycle
      BY <1>1, <1>2, <1>3, <1>4, SMT
    <3>3. LooksWritten(i, x.trb[i].cycle, h.deq, h.cycle) <=> InFlight(i, x.enq, x.cycle, h.deq, h.cycle)
      BY DEF InStep
    <3> QED
      BY <1>1, <1>6, <1>10, <3>1, <3>2, <3>3, SMT DEF InFlight, LooksWritten
  <2> QED
    BY <2>1, <2>2, <2>3 DEF InStep
<1>8. /\ Count(n, y, h) = Count(n, x, h) + 1 /\ Before(n, x.enq, h) = Count(n, x, h)
      /\ x.enq \notin Flying(n, x, h) /\ Flying(n, y, h) = Flying(n, x, h) \cup {x.enq}
  <2>1. Count(n, y, h) = Count(n, x, h) + 1 /\ Before(n, x.enq, h) = Count(n, x, h)
    <3>1. /\ x.enq \in Nat /\ h.deq \in Nat /\ x.cycle \in {0, 1} /\ h.cycle \in {0, 1}
          /\ x.enq + 1 <= n - 1
      BY <1>1
    <3>2. Before(n, x.enq, h) = Count(n, x, h)
      BY <1>6, <3>1, SMT DEF Count, Before
    <3>3. CASE x.enq + 1 = n - 1
      BY ONLY <3>1, <3>2, <3>3, <1>6, <1>10, n \in Nat, SMTT(60) DEF Count
    <3>4. CASE x.enq + 1 # n - 1
      BY ONLY <3>1, <3>2, <3>4, <1>6, <1>10, n \in Nat, SMTT(60) DEF Count
    <3> QED
      BY <3>2, <3>3, <3>4
  <2>2. ~InFlight(x.enq, x.enq, x.cycle, h.deq, h.cycle)
    BY <1>1, <1>6, SMT DEF InFlight
  <2>3. ASSUME NEW i \in 0..(n - 2)
        PROVE  InFlight(i, y.enq, y.cycle, h.deq, h.cycle)
                 <=> InFlight(i, x.enq, x.cycle, h.deq, h.cycle) \/ i = x.enq
    BY <1>1, <1>6, <1>10, SMT DEF InFlight
  <2> QED
    BY <1>1, <2>1, <2>2, <2>3, Zenon DEF Flying
<1>9. /\ \A i \in Flying(n, x, h) : y.trb[i] = x.trb[i]
      /\ y.trb[x.enq].op = op /\ y.trb[x.enq].port = p
  BY <1>1, <1>2, <1>3, <1>4, <1>8, SMT DEF Flying
<1> QED
  BY <1>5, <1>7, <1>8, <1>9 DEF Puts

\* The entry that the controller reads is the first one out.
LEMMA ReadFlies ==
  ASSUME NEW n \in Nat, n >= 3, NEW x \in Ring(n), NEW h \in Consumer(n), InStep(n, x, h),
         x.trb[h.deq].cycle = h.cycle, h.deq # n - 1
  PROVE  h.deq \in Flying(n, x, h) /\ Before(n, h.deq, h) = 0 /\ Count(n, x, h) >= 1
BY SMT DEF Ring, Consumer, InStep, Count, Flying, Before, InFlight, LooksWritten

LEMMA AdvanceInStep ==
  ASSUME NEW n \in Nat, n >= 3, NEW x \in Ring(n), NEW h \in Consumer(n), InStep(n, x, h),
         x.trb[h.deq].cycle = h.cycle, h.deq # n - 1, NEW k, k = [h EXCEPT !.deq = @ + 1]
  PROVE  /\ k \in Consumer(n) /\ InStep(n, x, k)
         /\ Count(n, x, k) = Count(n, x, h) - 1
         /\ Flying(n, x, k) = Flying(n, x, h) \ {h.deq}
         /\ \A i \in Flying(n, x, k) : Before(n, i, k) = Before(n, i, h) - 1
<1>1. k \in Consumer(n) /\ k.deq = h.deq + 1 /\ k.cycle = h.cycle
  BY SMT DEF Consumer
<1>0. /\ x.enq \in 0..(n - 2) /\ x.cycle \in {0, 1}
      /\ h.deq \in 0..(n - 1) /\ h.cycle \in {0, 1}
      /\ \A i \in 0..(n - 1) : x.trb[i].cycle \in {0, 1}
  BY SMT DEF Ring, Consumer, Trbs
<1>5. InFlight(h.deq, x.enq, x.cycle, h.deq, h.cycle)
  BY ReadFlies DEF Flying
<1>2. InStep(n, x, k)
  <2>1. (x.cycle = k.cycle => k.deq <= x.enq) /\ (x.cycle # k.cycle => x.enq <= k.deq)
    BY <1>1, <1>0, <1>5, SMT DEF InStep, InFlight
  <2>2. x.cycle # k.cycle => x.trb[n - 1].cycle = k.cycle
    BY <1>1, <1>0, <1>5, SMT DEF InStep, InFlight
  <2>3. ASSUME NEW i \in 0..(n - 2)
        PROVE  LooksWritten(i, x.trb[i].cycle, k.deq, k.cycle)
                 <=> InFlight(i, x.enq, x.cycle, k.deq, k.cycle)
    BY <1>1, <1>0, SMT DEF InStep, Count, InFlight, LooksWritten
  <2> QED
    BY <2>1, <2>2, <2>3 DEF InStep
<1>3. /\ Count(n, x, k) = Count(n, x, h) - 1
      /\ \A i \in Flying(n, x, k) : Before(n, i, k) = Before(n, i, h) - 1
  BY <1>1, <1>0, SMT DEF InStep, Count, Before, Flying, InFlight, LooksWritten
<1>4. ASSUME NEW i \in 0..(n - 2)
      PROVE  InFlight(i, x.enq, x.cycle, k.deq, k.cycle)
               <=> InFlight(i, x.enq, x.cycle, h.deq, h.cycle) /\ i # h.deq
  BY <1>1, <1>0, SMT DEF InStep, InFlight
<1> QED
  BY <1>1, <1>2, <1>3, <1>4, Zenon DEF Flying

LEMMA LinkInStep ==
  ASSUME NEW n \in Nat, n >= 3, NEW x \in Ring(n), NEW h \in Consumer(n), InStep(n, x, h),
         h.deq = n - 1, NEW k \in Consumer(n), k.deq = 0, k.cycle = 1 - h.cycle
  PROVE  /\ InStep(n, x, k)
         /\ Count(n, x, k) = Count(n, x, h) /\ Flying(n, x, k) = Flying(n, x, h)
         /\ \A i \in 0..(n - 2) : Before(n, i, k) = Before(n, i, h)
<1>0. /\ x.enq \in 0..(n - 2) /\ x.cycle \in {0, 1}
      /\ h.deq \in 0..(n - 1) /\ h.cycle \in {0, 1}
      /\ \A i \in 0..(n - 1) : x.trb[i].cycle \in {0, 1}
  BY SMT DEF Ring, Consumer, Trbs
<1>2. InStep(n, x, k)
  <2>1. (x.cycle = k.cycle => k.deq <= x.enq) /\ (x.cycle # k.cycle => x.enq <= k.deq)
    BY <1>0, SMT DEF InStep, Count
  <2>2. x.cycle # k.cycle => x.trb[n - 1].cycle = k.cycle
    BY <1>0, SMT DEF InStep, Count
  <2>3. ASSUME NEW i \in 0..(n - 2)
        PROVE  LooksWritten(i, x.trb[i].cycle, k.deq, k.cycle)
                 <=> InFlight(i, x.enq, x.cycle, k.deq, k.cycle)
    BY <1>0, SMT DEF InStep, Count, InFlight, LooksWritten
  <2> QED
    BY <2>1, <2>2, <2>3 DEF InStep
<1>3. /\ Count(n, x, k) = Count(n, x, h)
      /\ \A i \in 0..(n - 2) : Before(n, i, k) = Before(n, i, h)
  BY <1>0, SMT DEF InStep, Count, Before
<1>4. ASSUME NEW i \in 0..(n - 2)
      PROVE  InFlight(i, x.enq, x.cycle, k.deq, k.cycle)
               <=> InFlight(i, x.enq, x.cycle, h.deq, h.cycle)
  BY <1>0, SMT DEF InStep, InFlight
<1> QED
  BY <1>2, <1>3, <1>4, Zenon DEF Flying

\* The doorbell makes no difference.
LEMMA RungInStep ==
  ASSUME NEW n, NEW x, NEW h, NEW k, k.deq = h.deq, k.cycle = h.cycle
  PROVE  /\ InStep(n, x, k) <=> InStep(n, x, h)
         /\ Count(n, x, k) = Count(n, x, h) /\ Flying(n, x, k) = Flying(n, x, h)
         /\ \A i : Before(n, i, k) = Before(n, i, h)
BY DEF InStep, Count, Flying, Before

-------------------------------------------------------------------------------
\* The event ring, step by step.

EvtRing == [event : [0..(EvtSize - 1) -> Events], deq : 0..(EvtSize - 1), cycle : {0, 1}]
HcPlace == [enq : 0..(EvtSize - 1), cycle : {0, 1}]

LEMMA AnswersFinite == \A t : IsFiniteSet(Answers(t)) /\ Answers(t) \subseteq 0..(EvtSize - 1)
<1>1. IsFiniteSet(0..(EvtSize - 1))
  BY XhciAssumption, FS_Interval
<1> QED
  BY <1>1, FS_Subset DEF Answers

\* The event ring has no Link entry: its last index is followed by its first.
LEMMA WrapsAround ==
  ASSUME NEW i \in 0..(EvtSize - 1)
  PROVE  /\ i + 1 = EvtSize => (i + 1) % EvtSize = 0
         /\ i + 1 # EvtSize => (i + 1) % EvtSize = i + 1
<1>1. EvtSize \in Nat /\ EvtSize >= 2
  BY XhciAssumption
<1>2. ASSUME NEW n \in Nat, n >= 2, NEW j \in Nat, j < n
      PROVE  j % n = j
  BY ONLY <1>2, SMTT(60)
<1>3. ASSUME NEW n \in Nat, n >= 2
      PROVE  n % n = 0
  BY ONLY <1>3, SMTT(60)
<1> QED
  BY <1>1, <1>2, <1>3, SMTT(60)

\* An event that is posted is the last one.
LEMMA PostInStep ==
  ASSUME evt \in EvtRing, hcEvt \in HcPlace, EventsInStep,
         NEW type \in {"cmd", "transfer", "port"}, NEW ok \in BOOLEAN,
         HcPost(type, ok), erdp' = erdp
  PROVE  /\ evt' \in EvtRing /\ hcEvt' \in HcPlace /\ EventsInStep'
         /\ hcEvt.enq \in 0..(EvtSize - 1) /\ ~Waiting(hcEvt.enq)
         /\ Answers(type)' = Answers(type) \cup {hcEvt.enq}
         /\ \A t : t # type => Answers(t)' = Answers(t)
         /\ evt'.event[hcEvt.enq].ok = ok
         /\ \A i \in 0..(EvtSize - 1) : Waiting(i) => evt'.event[i] = evt.event[i]
         /\ evt'.deq = evt.deq
         /\ \A i \in 0..(EvtSize - 1) : Waiting(i) => Turn(i) < Turn(hcEvt.enq)
<1> DEFINE e == [type |-> type, ok |-> ok, cycle |-> hcEvt.cycle]
<1>1. /\ EvtSize \in Nat /\ EvtSize >= 2
      /\ hcEvt.enq \in 0..(EvtSize - 1) /\ hcEvt.cycle \in {0, 1}
      /\ evt.deq \in 0..(EvtSize - 1) /\ evt.cycle \in {0, 1}
      /\ evt.event \in [0..(EvtSize - 1) -> Events]
      /\ e \in Events /\ e.type = type /\ e.ok = ok /\ e.cycle = hcEvt.cycle
  BY XhciAssumption, SMT DEF EvtRing, HcPlace, Events
<1>2. /\ evt'.deq = evt.deq /\ evt'.cycle = evt.cycle /\ evt'.event[hcEvt.enq] = e
      /\ \A i \in 0..(EvtSize - 1) : i # hcEvt.enq => evt'.event[i] = evt.event[i]
      /\ evt' \in EvtRing
  <2>1. evt' = [evt EXCEPT !.event = [evt.event EXCEPT ![hcEvt.enq] = e]]
    BY DEF HcPost
  <2> DEFINE f == [evt.event EXCEPT ![hcEvt.enq] = e]
  <2>2. /\ f \in [0..(EvtSize - 1) -> Events] /\ f[hcEvt.enq] = e
        /\ \A i \in 0..(EvtSize - 1) : i # hcEvt.enq => f[i] = evt.event[i]
    <3> HIDE DEF e
    <3> QED BY <1>1, SMT
  <2> HIDE DEF e, f
  <2>3. evt' = [evt EXCEPT !.event = f]
    BY <2>1 DEF f
  <2>4. evt' \in EvtRing /\ evt'.event = f /\ evt'.deq = evt.deq /\ evt'.cycle = evt.cycle
    BY <2>2, <2>3, Zenon DEF EvtRing
  <2> QED
    BY <2>2, <2>4
<1>3. (hcEvt.enq + 1) % EvtSize # evt.deq
  BY DEF HcPost, HcCanPost, EventsInStep
<1>4. /\ hcEvt.enq + 1 = EvtSize => hcEvt'.enq = 0 /\ hcEvt'.cycle = 1 - hcEvt.cycle /\ evt.deq # 0
      /\ hcEvt.enq + 1 # EvtSize => hcEvt'.enq = hcEvt.enq + 1 /\ hcEvt'.cycle = hcEvt.cycle
                                       /\ hcEvt.enq + 1 # evt.deq
      /\ hcEvt' \in HcPlace
  <2>1. CASE hcEvt.enq + 1 = EvtSize
    <3>1. (hcEvt.enq + 1) % EvtSize = 0
      BY <2>1, <1>1, WrapsAround
    <3> QED
      BY <3>1, <2>1, <1>1, <1>3, SMT DEF HcPost, HcPlace
  <2>2. CASE hcEvt.enq + 1 # EvtSize
    <3>1. (hcEvt.enq + 1) % EvtSize = hcEvt.enq + 1
      BY <2>2, <1>1, WrapsAround
    <3>2. hcEvt' = [hcEvt EXCEPT !.enq = @ + 1]
      BY <2>2 DEF HcPost
    <3> QED
      BY <3>1, <3>2, <2>2, <1>1, <1>3, SMT DEF HcPlace
  <2> QED
    BY <2>1, <2>2
<1> HIDE DEF e
<1>5. \A i \in 0..(EvtSize - 1) : Waiting(i)' <=> Waiting(i) \/ i = hcEvt.enq
  BY <1>1, <1>2, <1>4, SMT DEF Waiting, InFlight, EventsInStep
<1>6. ~Waiting(hcEvt.enq)
  BY <1>1, SMT DEF Waiting, InFlight, EventsInStep
<1>7. EventsInStep'
  <2>1. /\ erdp' = evt'.deq
        /\ evt'.cycle = hcEvt'.cycle => evt'.deq <= hcEvt'.enq
        /\ evt'.cycle # hcEvt'.cycle => hcEvt'.enq < evt'.deq
    BY <1>1, <1>2, <1>4, SMT DEF EventsInStep
  <2>2. ASSUME NEW i \in 0..(EvtSize - 1)
        PROVE  LooksWritten(i, evt'.event[i].cycle, evt'.deq, evt'.cycle) <=> Waiting(i)'
    <3>1. CASE i = hcEvt.enq
      BY <3>1, <1>1, <1>2, <1>5, SMT DEF LooksWritten, EventsInStep
    <3>2. CASE i # hcEvt.enq
      BY <3>2, <1>1, <1>2, <1>5, SMT DEF LooksWritten, EventsInStep, Waiting
    <3> QED
      BY <3>1, <3>2
  <2> QED
    BY <2>1, <2>2 DEF EventsInStep, Waiting
<1>8. /\ Answers(type)' = Answers(type) \cup {hcEvt.enq}
      /\ \A t : t # type => Answers(t)' = Answers(t)
  BY <1>1, <1>2, <1>5, <1>6, Zenon DEF Answers
<1>9. \A i \in 0..(EvtSize - 1) : Waiting(i) => Turn(i) < Turn(hcEvt.enq)
  BY <1>1, SMT DEF Waiting, InFlight, Turn, EventsInStep
<1> QED
  BY <1>1, <1>2, <1>4, <1>6, <1>7, <1>8, <1>9

\* An event that is taken was the first one.
LEMMA TakeInStep ==
  ASSUME evt \in EvtRing, hcEvt \in HcPlace, EventsInStep, EventReady, TakeEvent, hcEvt' = hcEvt
  PROVE  /\ evt' \in EvtRing /\ erdp' \in 0..(EvtSize - 1) /\ EventsInStep'
         /\ evt.deq \in 0..(EvtSize - 1) /\ Waiting(evt.deq) /\ Turn(evt.deq) = 0
         /\ evt.deq \in Answers(NextEvent.type)
         /\ \A t : Answers(t)' = Answers(t) \ {evt.deq}
         /\ evt'.event = evt.event
         /\ \A i \in 0..(EvtSize - 1) :
              (Waiting(i)' => Turn(i)' = Turn(i) - 1) /\ Turn(i) >= 0 /\ (Turn(i) = 0 => i = evt.deq)
<1>1. /\ EvtSize \in Nat /\ EvtSize >= 2
      /\ hcEvt.enq \in 0..(EvtSize - 1) /\ hcEvt.cycle \in {0, 1}
      /\ evt.deq \in 0..(EvtSize - 1) /\ evt.cycle \in {0, 1}
      /\ evt.event \in [0..(EvtSize - 1) -> Events]
      /\ \A i \in 0..(EvtSize - 1) : evt.event[i].cycle \in {0, 1}
  BY XhciAssumption, SMT DEF EvtRing, HcPlace, Events
<1>2. /\ evt'.event = evt.event /\ evt' \in EvtRing /\ erdp' = evt'.deq
      /\ evt.deq + 1 = EvtSize => evt'.deq = 0 /\ evt'.cycle = 1 - evt.cycle
      /\ evt.deq + 1 # EvtSize => evt'.deq = evt.deq + 1 /\ evt'.cycle = evt.cycle
  <2>1. CASE evt.deq + 1 = EvtSize
    <3>1. evt' = [evt EXCEPT !.deq = 0, !.cycle = 1 - evt.cycle]
      BY <2>1 DEF TakeEvent
    <3>2. 0 \in 0..(EvtSize - 1) /\ 1 - evt.cycle \in {0, 1}
      BY <1>1, SMT
    <3>3. evt' \in EvtRing /\ evt'.event = evt.event /\ evt'.deq = 0 /\ evt'.cycle = 1 - evt.cycle
      BY <3>1, <3>2, Zenon DEF EvtRing
    <3> QED
      BY <3>3, <2>1 DEF TakeEvent
  <2>2. CASE evt.deq + 1 # EvtSize
    <3>1. evt' = [evt EXCEPT !.deq = evt.deq + 1]
      BY <2>2 DEF TakeEvent
    <3>2. evt.deq + 1 \in 0..(EvtSize - 1)
      BY <2>2, <1>1, SMT
    <3>3. evt' \in EvtRing /\ evt'.event = evt.event /\ evt'.deq = evt.deq + 1 /\ evt'.cycle = evt.cycle
      BY <3>1, <3>2, Zenon DEF EvtRing
    <3> QED
      BY <3>3, <2>2 DEF TakeEvent
  <2> QED
    BY <2>1, <2>2
<1>3. Waiting(evt.deq) /\ Turn(evt.deq) = 0
  BY <1>1, SMT DEF Waiting, Turn, EventsInStep, LooksWritten, EventReady
<1>4. \A i \in 0..(EvtSize - 1) : Waiting(i)' <=> Waiting(i) /\ i # evt.deq
  BY <1>1, <1>2, <1>3, SMT DEF Waiting, InFlight, EventsInStep
<1>5. EventsInStep'
  <2>1. /\ erdp' = evt'.deq
        /\ evt'.cycle = hcEvt'.cycle => evt'.deq <= hcEvt'.enq
        /\ evt'.cycle # hcEvt'.cycle => hcEvt'.enq < evt'.deq
    BY <1>1, <1>2, <1>3, SMT DEF EventsInStep, Waiting, InFlight
  <2>2. ASSUME NEW i \in 0..(EvtSize - 1)
        PROVE  LooksWritten(i, evt'.event[i].cycle, evt'.deq, evt'.cycle) <=> Waiting(i)'
    BY <1>1, <1>2, <1>3, <1>4, SMT DEF LooksWritten, EventsInStep, Waiting, InFlight
  <2> QED
    BY <2>1, <2>2 DEF EventsInStep, Waiting
<1>6. \A i \in 0..(EvtSize - 1) :
        (Waiting(i)' => Turn(i)' = Turn(i) - 1) /\ Turn(i) >= 0 /\ (Turn(i) = 0 => i = evt.deq)
  BY <1>1, <1>2, <1>3, SMT DEF Turn, Waiting, InFlight, EventsInStep
<1>7. \A t : Answers(t)' = Answers(t) \ {evt.deq}
  BY <1>2, <1>4, Zenon DEF Answers
<1>8. evt.deq \in Answers(NextEvent.type)
  BY <1>1, <1>3 DEF Answers, NextEvent
<1>9. erdp' \in 0..(EvtSize - 1)
  BY <1>2 DEF EvtRing
<1> QED
  BY <1>1, <1>2, <1>3, <1>5, <1>6, <1>7, <1>8, <1>9

-------------------------------------------------------------------------------
\* The requests.

LEMMA StageFacts ==
  \A s \in 1..8 :
    /\ Stages[s] \in Commands <=> s \in {1, 2, 8}
    /\ Stages[s] = "enable" <=> s = 1
    /\ Stages[s] = "address" <=> s = 2
    /\ Stages[s] = "head" <=> s = 3
    /\ Stages[s] = "full" <=> s = 4
    /\ Stages[s] = "configure" <=> s = 8
    /\ RingOf(Stages[s]) = IF s \in {1, 2, 8} THEN "cmd" ELSE "ctrl"
BY DEF Stages, Commands, RingOf

Ops == {"enable", "address", "configure", "setup", "data", "status"}

LEMMA EntryFacts ==
  ASSUME NEW s \in 1..8
  PROVE  /\ Entries(Stages[s]) \in Todos(Stages[s]) /\ Len(Entries(Stages[s])) \in 1..3
         /\ s \in {1, 2, 8} => Entries(Stages[s]) = <<Stages[s]>> /\ Todos(Stages[s]) = {<<Stages[s]>>, <<>>}
         /\ s \in 3..7 => \A k \in 1..Len(Entries(Stages[s])) :
                            Entries(Stages[s])[k] = "status" <=> k = Len(Entries(Stages[s]))
         /\ s = 4 => Entries(Stages[s]) = <<"setup", "data", "status">>
<1>1. s = 1 \/ s = 2 \/ s = 3 \/ s = 4 \/ s = 5 \/ s = 6 \/ s = 7 \/ s = 8
  OBVIOUS
<1> QED
  BY <1>1, SMT DEF Entries, Todos, Stages, Commands

LEMMA TodoFacts ==
  ASSUME NEW s \in 1..8, NEW t \in Todos(Stages[s])
  PROVE  /\ Len(t) \in 0..Len(Entries(Stages[s])) /\ (t = <<>> <=> Len(t) = 0)
         /\ t # <<>> =>
              /\ Tail(t) \in Todos(Stages[s]) /\ Len(Tail(t)) = Len(t) - 1
              /\ Head(t) \in Ops
              /\ Head(t) = Entries(Stages[s])[Len(Entries(Stages[s])) - Len(t) + 1]
              /\ s \in {1, 2, 8} => Head(t) = Stages[s] /\ Tail(t) = <<>>
              /\ s = 4 => (Head(t) = "setup" <=> Len(t) = 3)
<1> DEFINE e == Entries(Stages[s])
<1>1. CASE s \in {1, 2, 8}
  <2>1. e = <<Stages[s]>> /\ Stages[s] \in Ops /\ (t = <<Stages[s]>> \/ t = <<>>)
    BY <1>1, EntryFacts, StageFacts DEF Commands, Ops
  <2>2. Todos(Stages[s]) = {<<Stages[s]>>, <<>>}
    BY <1>1, EntryFacts
  <2>3. s # 4
    BY <1>1
  <2> DEFINE w == Stages[s]
  <2>4. Len(<<w>>) = 1 /\ Head(<<w>>) = w /\ Tail(<<w>>) = <<>> /\ <<w>> # <<>> /\ <<w>>[1] = w /\ Len(<<>>) = 0
    OBVIOUS
  <2>5. CASE t = <<w>>
    BY <2>1, <2>2, <2>3, <2>4, <2>5, SMT
  <2>6. CASE t = <<>>
    BY <2>1, <2>3, <2>4, <2>6, SMT
  <2> QED
    BY <2>1, <2>5, <2>6
<1>2. CASE s \in {3, 4}
  <2>1. /\ e = <<"setup", "data", "status">>
        /\ Todos(Stages[s]) = {<<"setup", "data", "status">>, <<"data", "status">>, <<"status">>, <<>>}
    BY <1>2 DEF Entries, Todos, Stages, Commands
  <2>2. CASE t = <<"setup", "data", "status">>
    BY <2>1, <2>2, <1>2, SMT DEF Ops
  <2>3. CASE t = <<"data", "status">>
    BY <2>1, <2>3, <1>2, SMT DEF Ops
  <2>4. CASE t = <<"status">>
    BY <2>1, <2>4, <1>2, SMT DEF Ops
  <2>5. CASE t = <<>>
    BY <2>1, <2>5, <1>2, SMT
  <2> QED
    BY <2>1, <2>2, <2>3, <2>4, <2>5
<1>3. CASE s \in {5, 6, 7}
  <2>1. /\ e = <<"setup", "status">>
        /\ Todos(Stages[s]) = {<<"setup", "status">>, <<"status">>, <<>>}
    BY <1>3 DEF Entries, Todos, Stages, Commands
  <2>2. CASE t = <<"setup", "status">>
    BY <2>1, <2>2, <1>3, SMT DEF Ops
  <2>3. CASE t = <<"status">>
    BY <2>1, <2>3, <1>3, SMT DEF Ops
  <2>4. CASE t = <<>>
    BY <2>1, <2>4, <1>3, SMT
  <2> QED
    BY <2>1, <2>2, <2>3, <2>4
<1> QED
  BY <1>1, <1>2, <1>3

-------------------------------------------------------------------------------
\* What a step leaves as it was.

Same(r) ==
  /\ Fly(r)' = Fly(r) /\ Pending(r)' = Pending(r)
  /\ \A i \in Fly(r) : Ahead(r, i)' = Ahead(r, i) /\ ring'[r].trb[i] = ring[r].trb[i]

Quiet ==
  /\ \A t : Answers(t)' = Answers(t)
  /\ \A i : Turn(i)' = Turn(i)
  /\ evt' = evt

LEMMA SameRing == \A r : ring'[r] = ring[r] /\ hc'[r] = hc[r] => Same(r)
BY DEF Same, Fly, Pending, Ahead

LEMMA QuietEvents ==
  ASSUME UNCHANGED <<evt, hcEvt, erdp>>
  PROVE  Quiet /\ (EventsInStep => EventsInStep')
BY DEF Quiet, Answers, Turn, Waiting, EventsInStep

\* The types, ring by ring.
LEMMA RingTypes ==
  ASSUME Types
  PROVE  /\ Size["cmd"] = CmdSize /\ Size["ctrl"] = CtrlSize /\ Size["intr"] = IntrSize
         /\ ring["cmd"] \in Ring(CmdSize) /\ hc["cmd"] \in Consumer(CmdSize)
         /\ ring["ctrl"] \in Ring(CtrlSize) /\ hc["ctrl"] \in Consumer(CtrlSize)
         /\ ring["intr"] \in Ring(IntrSize) /\ hc["intr"] \in Consumer(IntrSize)
         /\ evt \in EvtRing /\ hcEvt \in HcPlace
         /\ stage \in 1..8
<1>1. Size["cmd"] = CmdSize /\ Size["ctrl"] = CtrlSize /\ Size["intr"] = IntrSize
  BY DEF Size, RingNames
<1>2. DOMAIN Stages = 1..8
  BY DEF Stages
<1> QED
  BY <1>1, <1>2 DEF Types, TypeOK, Consumer, EvtRing, HcPlace, RingNames

\* No other ring than r.
LEMMA TypesByRing ==
  ASSUME \A r \in RingNames : ring[r] \in Ring(Size[r]) /\ hc[r] \in Consumer(Size[r])
  PROVE  \A r \in RingNames : ring[r] \in Ring(Size[r]) /\ hc[r] \in [deq : 0..(Size[r] - 1), cycle : {0, 1}, rung : BOOLEAN]
BY DEF Consumer
-------------------------------------------------------------------------------
\* Steps.

LEMMA InitInv == Init => XhciInv
<1> SUFFICES ASSUME Init PROVE XhciInv
  OBVIOUS
<1>1. /\ \A r \in RingNames : ring[r] = NewRing(Size[r]) /\ hc[r] = Idle0
      /\ DOMAIN ring = RingNames /\ DOMAIN hc = RingNames
  BY DEF Init, Idle0
<1>2. Size["cmd"] = CmdSize /\ Size["ctrl"] = CtrlSize /\ Size["intr"] = IntrSize
  BY DEF Size, RingNames
<1>3. \A r \in RingNames :
        /\ ring[r] \in Ring(Size[r]) /\ hc[r] \in Consumer(Size[r])
        /\ InStep(Size[r], ring[r], hc[r]) /\ Pending(r) = 0 /\ Fly(r) = {}
  BY <1>1, <1>2, XhciAssumption, NewRingInStep DEF RingNames, Pending, Fly
<1>4. \A t : t # "none" => Answers(t) = {}
  BY DEF Init, Answers
<1>5. EventsInStep
  BY XhciAssumption, SMT DEF Init, EventsInStep, LooksWritten, InFlight
<1>6. Types
  <2>1. evt \in EvtRing /\ hcEvt \in HcPlace /\ erdp \in 0..(EvtSize - 1)
    BY XhciAssumption, SMT DEF Init, EvtRing, HcPlace, Events
  <2>2. owed \in Seq(Reports) /\ typed \in Seq(Reports) /\ report \in Reports /\ stage \in DOMAIN Stages
    BY DEF Init, Reports, Stages
  <2>3. port \in 1..(NPorts + 1) /\ granted \in 0..SlotsEnabled /\ addressed \in 0..NPorts
        /\ reports \in Nat /\ errors \in Nat /\ portEvents \in Nat
    BY XhciAssumption, SMT DEF Init, SlotsEnabled
  <2> QED
    BY <1>1, <1>3, <2>1, <2>2, <2>3, Zenon DEF Init, Types, TypeOK, EvtRing, HcPlace, Consumer, Trying, Using
<1>7. Rings
  BY <1>2, <1>3, <1>5, Zenon DEF Rings, RingNames
<1>8. Outstanding = 0
  BY <1>3, <1>4, FS_EmptySet, SMT DEF Outstanding, RingNames
<1> QED
  BY <1>1, <1>2, <1>3, <1>4, <1>6, <1>7, <1>8, SMT
     DEF XhciInv, Init, OneToken, Lag, TokenLast, OnTime, Unused, Unaddressed, Request, Controlling, Keyboard,
         OneReport, Own, RingNames, Holding, Asked, Success, Later, Trying, Using, Stage, Op

\* A step that touches neither rings nor events.
LEMMA StillStep ==
  ASSUME Rings, UNCHANGED <<ring, hc, evt, hcEvt, erdp>>, late => late'
  PROVE  /\ Same("cmd") /\ Same("ctrl") /\ Same("intr") /\ Quiet /\ Rings'
         /\ Outstanding' = Outstanding
<1>1. Same("cmd") /\ Same("ctrl") /\ Same("intr")
  BY SameRing
<1>2. Quiet /\ EventsInStep'
  BY QuietEvents DEF Rings
<1>3. Rings'
  BY <1>2 DEF Rings
<1> QED
  BY <1>1, <1>2, <1>3 DEF Outstanding, Same, Quiet

LEMMA OutstandingFacts ==
  ASSUME Types, Rings
  PROVE  /\ Outstanding \in Nat /\ Pending("cmd") \in Nat /\ Cardinality(Answers("cmd")) \in Nat
         /\ Outstanding = Pending("cmd") + Cardinality(Answers("cmd"))
         /\ Outstanding = 0 => Answers("cmd") = {} /\ Fly("cmd") = {}
         /\ Pending("cmd") = 0 => Fly("cmd") = {}
         /\ Fly("cmd") # {} => Pending("cmd") >= 1
         /\ Answers("cmd") # {} => Cardinality(Answers("cmd")) >= 1
<1>1. Pending("cmd") \in Nat /\ (Pending("cmd") = 0 => Fly("cmd") = {})
  BY RingTypes, CountBounds, XhciAssumption DEF Pending, Fly, Rings
<1>2. Cardinality(Answers("cmd")) \in Nat /\ (Cardinality(Answers("cmd")) = 0 => Answers("cmd") = {})
  BY AnswersFinite, FS_CardinalityType, FS_EmptySet
<1> QED
  BY <1>1, <1>2, SMT DEF Outstanding

LEMMA Basics ==
  ASSUME XhciInv
  PROVE  /\ stage \in 1..8 /\ port \in Nat /\ (Trying \/ Using => port \in Ports)
         /\ Outstanding \in Nat /\ (Outstanding = 0 => Answers("cmd") = {} /\ Fly("cmd") = {})
         /\ Using => ~late
<1>1. stage \in 1..8 /\ port \in Nat /\ (Trying \/ Using => port \in Ports)
  BY RingTypes, XhciAssumption, SMT DEF XhciInv, Types, TypeOK
<1> QED
  BY <1>1, OutstandingFacts DEF XhciInv, Lag

LEMMA StartUpInv == XhciInv /\ StartUp => XhciInv'
<1> SUFFICES ASSUME XhciInv, StartUp PROVE XhciInv'
  OBVIOUS
<1> USE DEF XhciInv
<1>1. /\ Same("cmd") /\ Same("ctrl") /\ Same("intr") /\ Quiet /\ Rings'
      /\ Outstanding' = Outstanding
  BY StillStep DEF StartUp, controller, world, driver
<1>0. /\ stage \in 1..8 /\ port \in Nat /\ (Trying \/ Using => port \in Ports)
      /\ Outstanding \in Nat /\ (Outstanding = 0 => Answers("cmd") = {} /\ Fly("cmd") = {})
  BY Basics
<1>2. Types'
  BY XhciAssumption, StageFacts, EntryFacts, SMT DEF StartUp, controller, world, driver, Types, TypeOK, Trying, Using, Stage
<1>3. OneToken'
  BY <1>0, <1>1, StageFacts, XhciAssumption, SMT DEF StartUp, controller, world, driver, Same, Quiet, Ports, OneToken, Holding, Asked, Success, Later, Trying, Using, Stage, Op
<1>4. Lag'
  BY <1>0, <1>1, StageFacts, XhciAssumption, SMT DEF StartUp, controller, world, driver, Same, Quiet, Ports, Lag, Lost, Own, Holding, Asked, Success, Later, Trying, Using, Stage, Op
<1>5. TokenLast'
  BY <1>0, <1>1, StageFacts, XhciAssumption, SMT DEF StartUp, controller, world, driver, Same, Quiet, Ports, TokenLast, Holding, Asked, Success, Later, Trying, Using, Stage, Op
<1>6. OnTime'
  BY <1>0, <1>1, StageFacts, XhciAssumption, SMT DEF StartUp, controller, world, driver, Same, Quiet, Ports, OnTime, Holding, Asked, Success, Later, Trying, Using, Stage, Op
<1>7. Unused'
  BY <1>0, <1>1, StageFacts, XhciAssumption, SMT DEF StartUp, controller, world, driver, Same, Quiet, Ports, Unused, Unaddressed, Holding, Asked, Success, Later, Trying, Using, Stage, Op
<1>8. Request'
  BY <1>0, <1>1, StageFacts, XhciAssumption, SMT DEF StartUp, controller, world, driver, Same, Quiet, Ports, Request, Controlling, Sent, Consumed, Holding, Asked, Success, Later, Trying, Using, Stage, Op
<1>9. Keyboard'
  BY <1>0, <1>1, StageFacts, XhciAssumption, SMT DEF StartUp, controller, world, driver, Same, Quiet, Ports, Keyboard, Holding, Asked, Success, Later, Trying, Using, Stage, Op
<1>10. OneReport'
  BY <1>0, <1>1, StageFacts, XhciAssumption, SMT DEF StartUp, controller, world, driver, Same, Quiet, Ports, OneReport, Holding, Asked, Success, Later, Trying, Using, Stage, Op
<1> QED
  BY <1>1, <1>2, <1>3, <1>4, <1>5, <1>6, <1>7, <1>8, <1>9, <1>10

LEMMA ScanEndsInv == XhciInv /\ ScanEnds => XhciInv'
<1> SUFFICES ASSUME XhciInv, ScanEnds PROVE XhciInv'
  OBVIOUS
<1> USE DEF XhciInv
<1>1. /\ Same("cmd") /\ Same("ctrl") /\ Same("intr") /\ Quiet /\ Rings'
      /\ Outstanding' = Outstanding
  BY StillStep DEF ScanEnds, controller, world, driver
<1>0. /\ stage \in 1..8 /\ port \in Nat /\ (Trying \/ Using => port \in Ports)
      /\ Outstanding \in Nat /\ (Outstanding = 0 => Answers("cmd") = {} /\ Fly("cmd") = {})
  BY Basics
<1>2. Types'
  BY XhciAssumption, StageFacts, EntryFacts, SMT DEF ScanEnds, controller, world, driver, Types, TypeOK, Trying, Using, Stage
<1>3. OneToken'
  BY <1>0, <1>1, StageFacts, XhciAssumption, SMT DEF ScanEnds, controller, world, driver, Same, Quiet, Ports, OneToken, Holding, Asked, Success, Later, Trying, Using, Stage, Op
<1>4. Lag'
  BY <1>0, <1>1, StageFacts, XhciAssumption, SMT DEF ScanEnds, controller, world, driver, Same, Quiet, Ports, Lag, Lost, Own, Holding, Asked, Success, Later, Trying, Using, Stage, Op
<1>5. TokenLast'
  BY <1>0, <1>1, StageFacts, XhciAssumption, SMT DEF ScanEnds, controller, world, driver, Same, Quiet, Ports, TokenLast, Holding, Asked, Success, Later, Trying, Using, Stage, Op
<1>6. OnTime'
  BY <1>0, <1>1, StageFacts, XhciAssumption, SMT DEF ScanEnds, controller, world, driver, Same, Quiet, Ports, OnTime, Holding, Asked, Success, Later, Trying, Using, Stage, Op
<1>7. Unused'
  BY <1>0, <1>1, StageFacts, XhciAssumption, SMT DEF ScanEnds, controller, world, driver, Same, Quiet, Ports, Unused, Unaddressed, Holding, Asked, Success, Later, Trying, Using, Stage, Op
<1>8. Request'
  BY <1>0, <1>1, StageFacts, XhciAssumption, SMT DEF ScanEnds, controller, world, driver, Same, Quiet, Ports, Request, Controlling, Sent, Consumed, Holding, Asked, Success, Later, Trying, Using, Stage, Op
<1>9. Keyboard'
  BY <1>0, <1>1, StageFacts, XhciAssumption, SMT DEF ScanEnds, controller, world, driver, Same, Quiet, Ports, Keyboard, Holding, Asked, Success, Later, Trying, Using, Stage, Op
<1>10. OneReport'
  BY <1>0, <1>1, StageFacts, XhciAssumption, SMT DEF ScanEnds, controller, world, driver, Same, Quiet, Ports, OneReport, Holding, Asked, Success, Later, Trying, Using, Stage, Op
<1> QED
  BY <1>1, <1>2, <1>3, <1>4, <1>5, <1>6, <1>7, <1>8, <1>9, <1>10

LEMMA SkipPortInv == XhciInv /\ SkipPort => XhciInv'
<1> SUFFICES ASSUME XhciInv, SkipPort PROVE XhciInv'
  OBVIOUS
<1> USE DEF XhciInv
<1>1. /\ Same("cmd") /\ Same("ctrl") /\ Same("intr") /\ Quiet /\ Rings'
      /\ Outstanding' = Outstanding
  BY StillStep DEF SkipPort, controller, world, driver
<1>0. /\ stage \in 1..8 /\ port \in Nat /\ (Trying \/ Using => port \in Ports)
      /\ Outstanding \in Nat /\ (Outstanding = 0 => Answers("cmd") = {} /\ Fly("cmd") = {})
  BY Basics
<1>2. Types'
  BY XhciAssumption, StageFacts, EntryFacts, SMT DEF SkipPort, controller, world, driver, Types, TypeOK, Trying, Using, Stage
<1>3. OneToken'
  BY <1>0, <1>1, StageFacts, XhciAssumption, SMT DEF SkipPort, controller, world, driver, Same, Quiet, Ports, OneToken, Holding, Asked, Success, Later, Trying, Using, Stage, Op
<1>4. Lag'
  BY <1>0, <1>1, StageFacts, XhciAssumption, SMT DEF SkipPort, controller, world, driver, Same, Quiet, Ports, Lag, Lost, Own, Holding, Asked, Success, Later, Trying, Using, Stage, Op
<1>5. TokenLast'
  BY <1>0, <1>1, StageFacts, XhciAssumption, SMT DEF SkipPort, controller, world, driver, Same, Quiet, Ports, TokenLast, Holding, Asked, Success, Later, Trying, Using, Stage, Op
<1>6. OnTime'
  BY <1>0, <1>1, StageFacts, XhciAssumption, SMT DEF SkipPort, controller, world, driver, Same, Quiet, Ports, OnTime, Holding, Asked, Success, Later, Trying, Using, Stage, Op
<1>7. Unused'
  BY <1>0, <1>1, StageFacts, XhciAssumption, SMT DEF SkipPort, controller, world, driver, Same, Quiet, Ports, Unused, Unaddressed, Holding, Asked, Success, Later, Trying, Using, Stage, Op
<1>8. Request'
  BY <1>0, <1>1, StageFacts, XhciAssumption, SMT DEF SkipPort, controller, world, driver, Same, Quiet, Ports, Request, Controlling, Sent, Consumed, Holding, Asked, Success, Later, Trying, Using, Stage, Op
<1>9. Keyboard'
  BY <1>0, <1>1, StageFacts, XhciAssumption, SMT DEF SkipPort, controller, world, driver, Same, Quiet, Ports, Keyboard, Holding, Asked, Success, Later, Trying, Using, Stage, Op
<1>10. OneReport'
  BY <1>0, <1>1, StageFacts, XhciAssumption, SMT DEF SkipPort, controller, world, driver, Same, Quiet, Ports, OneReport, Holding, Asked, Success, Later, Trying, Using, Stage, Op
<1> QED
  BY <1>1, <1>2, <1>3, <1>4, <1>5, <1>6, <1>7, <1>8, <1>9, <1>10

LEMMA ResetPortInv == XhciInv /\ ResetPort => XhciInv'
<1> SUFFICES ASSUME XhciInv, ResetPort PROVE XhciInv'
  OBVIOUS
<1> USE DEF XhciInv
<1>1. /\ Same("cmd") /\ Same("ctrl") /\ Same("intr") /\ Quiet /\ Rings'
      /\ Outstanding' = Outstanding
  BY StillStep DEF ResetPort, controller, world, driver
<1>0. /\ stage \in 1..8 /\ port \in Nat /\ (Trying \/ Using => port \in Ports)
      /\ Outstanding \in Nat /\ (Outstanding = 0 => Answers("cmd") = {} /\ Fly("cmd") = {})
  BY Basics
<1>2. Types'
  <2>1. todo' \in Todos(Stages[stage']) /\ stage' = 1 /\ stage' \in DOMAIN Stages /\ pc' = "submit"
    BY EntryFacts DEF ResetPort, Stages
  <2>2. port' \in Ports /\ port' = port /\ enabled' \subseteq Ports
    <3>1. port \in Ports
      <4>1. port \in 1..(NPorts + 1) /\ port <= NPorts
        BY Zenon DEF ResetPort, Types, TypeOK
      <4> QED
        BY <4>1, XhciAssumption, SMT DEF Ports
    <3>2. enabled \subseteq Ports
      BY Zenon DEF Types, TypeOK
    <3> QED
      BY <3>1, <3>2, Zenon DEF ResetPort
  <2>3. UNCHANGED <<port, ring, evt, erdp, pending, late, hc, ep, hcEvt, granted, addressed, conf,
                    report, owed, reads, device, typed, reports, errors, portEvents>>
    BY DEF ResetPort, controller
  <2>4. TypeOK'
    BY <2>1, <2>2, <2>3, Zenon DEF Types, TypeOK
  <2> QED
    BY <2>1, <2>2, <2>3, <2>4, Zenon DEF Types, Trying, Using, Stage
<1>3. OneToken'
  BY <1>0, <1>1, StageFacts, XhciAssumption, SMT DEF ResetPort, controller, world, driver, Same, Quiet, Ports, OneToken, Holding, Asked, Success, Later, Trying, Using, Stage, Op
<1>4. Lag'
  <2>1. todo' # <<>>
    BY EntryFacts DEF ResetPort, Stages
  <2> QED
    BY <1>0, <1>1, <2>1, SMT DEF ResetPort, controller, world, driver, Same, Quiet, Lag, Lost, Own, Holding, Asked, Success, Later, Trying, Using, Stage, Op
<1>5. TokenLast'
  BY <1>0, <1>1, StageFacts, XhciAssumption, SMT DEF ResetPort, controller, world, driver, Same, Quiet, Ports, TokenLast, Holding, Asked, Success, Later, Trying, Using, Stage, Op
<1>6. OnTime'
  BY <1>0, <1>1, StageFacts, XhciAssumption, SMT DEF ResetPort, controller, world, driver, Same, Quiet, Ports, OnTime, Holding, Asked, Success, Later, Trying, Using, Stage, Op
<1>7. Unused'
  <2>1. late \/ Answers("cmd") = {}
    BY <1>0, SMT DEF ResetPort, controller, world, driver, Lag, Own, Holding, Asked, Success, Later, Trying, Using, Stage, Op
  <2> QED
    BY <1>0, <1>1, <2>1, SMT DEF ResetPort, controller, world, driver, Same, Quiet, Unused, Unaddressed, Holding, Asked, Success, Later, Trying, Using, Stage, Op
<1>8. Request'
  BY <1>0, <1>1, StageFacts, XhciAssumption, SMT DEF ResetPort, controller, world, driver, Same, Quiet, Ports, Request, Controlling, Sent, Consumed, Holding, Asked, Success, Later, Trying, Using, Stage, Op
<1>9. Keyboard'
  BY <1>0, <1>1, StageFacts, XhciAssumption, SMT DEF ResetPort, controller, world, driver, Same, Quiet, Ports, Keyboard, Holding, Asked, Success, Later, Trying, Using, Stage, Op
<1>10. OneReport'
  BY <1>0, <1>1, StageFacts, XhciAssumption, SMT DEF ResetPort, controller, world, driver, Same, Quiet, Ports, OneReport, Holding, Asked, Success, Later, Trying, Using, Stage, Op
<1> QED
  BY <1>1, <1>2, <1>3, <1>4, <1>5, <1>6, <1>7, <1>8, <1>9, <1>10

LEMMA TimesOutInv == XhciInv /\ TimesOut => XhciInv'
<1> SUFFICES ASSUME XhciInv, TimesOut PROVE XhciInv'
  OBVIOUS
<1> USE DEF XhciInv
<1>1. /\ Same("cmd") /\ Same("ctrl") /\ Same("intr") /\ Quiet /\ Rings'
      /\ Outstanding' = Outstanding
  BY StillStep DEF TimesOut, controller, world, driver, NextPort
<1>0. /\ stage \in 1..8 /\ port \in Nat /\ (Trying \/ Using => port \in Ports)
      /\ Outstanding \in Nat /\ (Outstanding = 0 => Answers("cmd") = {} /\ Fly("cmd") = {})
  BY Basics
<1>2. Types'
  <2>1. port' \in 1..(NPorts + 1)
    BY <1>0, XhciAssumption, SMT DEF TimesOut, NextPort, Ports, Trying
  <2> QED
    BY <2>1, SMT DEF TimesOut, controller, world, driver, NextPort, Types, TypeOK, Trying, Using, Stage
<1>3. OneToken'
  BY <1>0, <1>1, StageFacts, XhciAssumption, SMT DEF TimesOut, controller, world, driver, NextPort, Same, Quiet, Ports, OneToken, Holding, Asked, Success, Later, Trying, Using, Stage, Op
<1>4. Lag'
  <2>1. Own \in {0, 1} /\ Own' = 0 /\ port' = port + 1 /\ late' = TRUE
    BY SMT DEF TimesOut, controller, world, driver, NextPort, Own, Holding, Asked, Success, Later, Trying, Using, Stage, Op
  <2>2. Own = 0 => Trying /\ stage > 1 /\ ~Asked
    BY <1>0, StageFacts, SMT DEF TimesOut, Own, Holding, Asked, Success, Later, Trying, Using, Stage, Op, Types
  <2>3. ~Using' /\ ~Trying'
    BY SMT DEF TimesOut, controller, world, driver, NextPort, Using, Trying
  <2>4. Own = 0 => Lost'
    BY <1>1, <2>2, <2>3, SMT DEF TimesOut, controller, world, driver, NextPort, Same, Quiet, Lost, OneToken, Holding, Asked, Success, Later, Trying, Using, Stage, Op
  <2>5. late /\ Lost => Lost'
    BY <1>1, <2>3, SMT DEF TimesOut, controller, world, driver, NextPort, Same, Quiet, Lost, Holding, Asked, Success, Later, Trying, Using, Stage, Op
  <2> QED
    BY <1>0, <1>1, <2>1, <2>3, <2>4, <2>5, SMT DEF Lag
<1>5. TokenLast'
  BY <1>0, <1>1, StageFacts, XhciAssumption, SMT DEF TimesOut, controller, world, driver, NextPort, Same, Quiet, Ports, TokenLast, Holding, Asked, Success, Later, Trying, Using, Stage, Op
<1>6. OnTime'
  BY <1>0, <1>1, StageFacts, XhciAssumption, SMT DEF TimesOut, controller, world, driver, NextPort, Same, Quiet, Ports, OnTime, Holding, Asked, Success, Later, Trying, Using, Stage, Op
<1>7. Unused'
  BY <1>0, <1>1, StageFacts, XhciAssumption, SMT DEF TimesOut, controller, world, driver, NextPort, Same, Quiet, Ports, Unused, Unaddressed, Holding, Asked, Success, Later, Trying, Using, Stage, Op
<1>8. Request'
  BY <1>0, <1>1, StageFacts, XhciAssumption, SMT DEF TimesOut, controller, world, driver, NextPort, Same, Quiet, Ports, Request, Controlling, Sent, Consumed, Holding, Asked, Success, Later, Trying, Using, Stage, Op
<1>9. Keyboard'
  BY <1>0, <1>1, StageFacts, XhciAssumption, SMT DEF TimesOut, controller, world, driver, NextPort, Same, Quiet, Ports, Keyboard, Holding, Asked, Success, Later, Trying, Using, Stage, Op
<1>10. OneReport'
  BY <1>0, <1>1, StageFacts, XhciAssumption, SMT DEF TimesOut, controller, world, driver, NextPort, Same, Quiet, Ports, OneReport, Holding, Asked, Success, Later, Trying, Using, Stage, Op
<1> QED
  BY <1>1, <1>2, <1>3, <1>4, <1>5, <1>6, <1>7, <1>8, <1>9, <1>10

LEMMA UnplugInv == XhciInv /\ Unplug => XhciInv'
<1> SUFFICES ASSUME XhciInv, Unplug PROVE XhciInv'
  OBVIOUS
<1> USE DEF XhciInv
<1>1. /\ Same("cmd") /\ Same("ctrl") /\ Same("intr") /\ Quiet /\ Rings'
      /\ Outstanding' = Outstanding
  BY StillStep DEF Unplug, controller, world, driver
<1>0. /\ stage \in 1..8 /\ port \in Nat /\ (Trying \/ Using => port \in Ports)
      /\ Outstanding \in Nat /\ (Outstanding = 0 => Answers("cmd") = {} /\ Fly("cmd") = {})
  BY Basics
<1>2. Types'
  BY XhciAssumption, StageFacts, EntryFacts, SMT DEF Unplug, controller, world, driver, Types, TypeOK, Trying, Using, Stage
<1>3. OneToken'
  BY <1>0, <1>1, StageFacts, XhciAssumption, SMT DEF Unplug, controller, world, driver, Same, Quiet, Ports, OneToken, Holding, Asked, Success, Later, Trying, Using, Stage, Op
<1>4. Lag'
  BY <1>0, <1>1, StageFacts, XhciAssumption, SMT DEF Unplug, controller, world, driver, Same, Quiet, Ports, Lag, Lost, Own, Holding, Asked, Success, Later, Trying, Using, Stage, Op
<1>5. TokenLast'
  BY <1>0, <1>1, StageFacts, XhciAssumption, SMT DEF Unplug, controller, world, driver, Same, Quiet, Ports, TokenLast, Holding, Asked, Success, Later, Trying, Using, Stage, Op
<1>6. OnTime'
  BY <1>0, <1>1, StageFacts, XhciAssumption, SMT DEF Unplug, controller, world, driver, Same, Quiet, Ports, OnTime, Holding, Asked, Success, Later, Trying, Using, Stage, Op
<1>7. Unused'
  BY <1>0, <1>1, StageFacts, XhciAssumption, SMT DEF Unplug, controller, world, driver, Same, Quiet, Ports, Unused, Unaddressed, Holding, Asked, Success, Later, Trying, Using, Stage, Op
<1>8. Request'
  BY <1>0, <1>1, StageFacts, XhciAssumption, SMT DEF Unplug, controller, world, driver, Same, Quiet, Ports, Request, Controlling, Sent, Consumed, Holding, Asked, Success, Later, Trying, Using, Stage, Op
<1>9. Keyboard'
  BY <1>0, <1>1, StageFacts, XhciAssumption, SMT DEF Unplug, controller, world, driver, Same, Quiet, Ports, Keyboard, Holding, Asked, Success, Later, Trying, Using, Stage, Op
<1>10. OneReport'
  BY <1>0, <1>1, StageFacts, XhciAssumption, SMT DEF Unplug, controller, world, driver, Same, Quiet, Ports, OneReport, Holding, Asked, Success, Later, Trying, Using, Stage, Op
<1> QED
  BY <1>1, <1>2, <1>3, <1>4, <1>5, <1>6, <1>7, <1>8, <1>9, <1>10

\* The doorbell, and the way over a link entry, leave what is out on every ring.
LEMMA SpinStep ==
  ASSUME Types, Rings, NEW r \in RingNames, NEW k, ring' = ring, hc' = [hc EXCEPT ![r] = k],
         UNCHANGED <<evt, hcEvt, erdp, late>>,
         k \in Consumer(Size[r]),
         \/ k.deq = hc[r].deq /\ k.cycle = hc[r].cycle
         \/ hc[r].deq = Size[r] - 1 /\ k.deq = 0 /\ k.cycle = 1 - hc[r].cycle
  PROVE  /\ Same("cmd") /\ (late \/ Same("ctrl")) /\ Same("intr") /\ Quiet /\ Rings'
         /\ Outstanding' = Outstanding
         /\ DOMAIN hc' = RingNames
         /\ \A q \in RingNames : hc'[q] \in Consumer(Size[q]) /\ (q # r => hc'[q] = hc[q])
<1>1. hc'[r] = k /\ DOMAIN hc' = RingNames /\ \A q \in RingNames : q # r => hc'[q] = hc[q]
  BY DEF Types
<1>2. /\ \A q \in RingNames : Size[q] \in Nat /\ Size[q] >= 3 /\ ring[q] \in Ring(Size[q]) /\ hc[q] \in Consumer(Size[q])
      /\ r \in {"cmd", "ctrl", "intr"} /\ "cmd" \in RingNames /\ "ctrl" \in RingNames /\ "intr" \in RingNames
  BY RingTypes, XhciAssumption, SMT DEF RingNames
<1>3. \A q \in RingNames : (q = "ctrl" /\ late) \/ InStep(Size[q], ring[q], hc[q])
  BY RingTypes DEF Rings, RingNames
<1>5. ASSUME InStep(Size[r], ring[r], hc[r])
      PROVE  Same(r) /\ InStep(Size[r], ring[r], hc'[r])
  <2>0. /\ Size[r] \in Nat /\ Size[r] >= 3
        /\ ring[r] \in Ring(Size[r]) /\ hc[r] \in Consumer(Size[r])
    BY <1>2
  <2>1. /\ InStep(Size[r], ring[r], k) /\ Count(Size[r], ring[r], k) = Count(Size[r], ring[r], hc[r])
            /\ Flying(Size[r], ring[r], k) = Flying(Size[r], ring[r], hc[r])
            /\ \A i \in 0..(Size[r] - 2) : Before(Size[r], i, k) = Before(Size[r], i, hc[r])
    BY <2>0, <1>5, RungInStep, LinkInStep
  <2>3. \A i \in Flying(Size[r], ring[r], hc[r]) : i \in 0..(Size[r] - 2)
    BY DEF Flying
  <2> QED
    BY <1>1, <2>1, <2>3 DEF Same, Fly, Pending, Ahead
<1>6. \A q \in RingNames : (q = "ctrl" /\ late) \/ (Same(q) /\ InStep(Size[q], ring[q], hc'[q]))
  BY <1>1, <1>3, <1>5, SameRing
<1>7. Quiet /\ EventsInStep'
  BY QuietEvents DEF Rings
<1>8. Rings'
  BY <1>2, <1>6, <1>7, RingTypes, Zenon DEF Rings, RingNames
<1> QED
  BY <1>1, <1>2, <1>6, <1>7, <1>8 DEF Outstanding, Same, Quiet

LEMMA RingDoorbellInv ==
  ASSUME XhciInv, RingDoorbell
  PROVE  XhciInv'
<1> USE DEF XhciInv
<1>0. /\ stage \in 1..8 /\ port \in Nat /\ (Trying \/ Using => port \in Ports)
      /\ Outstanding \in Nat /\ (Outstanding = 0 => Answers("cmd") = {} /\ Fly("cmd") = {})
      /\ (Using => ~late)
  BY Basics
<1>1. /\ Same("cmd") /\ (late \/ Same("ctrl")) /\ Same("intr") /\ Quiet /\ Rings'
      /\ Outstanding' = Outstanding /\ DOMAIN hc' = RingNames
      /\ \A q \in RingNames : hc'[q] \in Consumer(Size[q]) /\ (q # RingOf(Stage) => hc'[q] = hc[q])
  <2>1. hc' = [hc EXCEPT ![RingOf(Stage)] = [hc[RingOf(Stage)] EXCEPT !.rung = TRUE]] /\ RingOf(Stage) \in RingNames
    BY <1>0, StageFacts DEF RingDoorbell, Stage, RingNames
  <2> QED
    <3> DEFINE k == [hc[RingOf(Stage)] EXCEPT !.rung = TRUE]
    <3>1. k \in Consumer(Size[RingOf(Stage)]) /\ k.deq = hc[RingOf(Stage)].deq /\ k.cycle = hc[RingOf(Stage)].cycle
      BY <2>1, RingTypes, Zenon DEF Consumer, RingNames
    <3> HIDE DEF k
    <3>2. hc' = [hc EXCEPT ![RingOf(Stage)] = k]
      BY <2>1 DEF k
    <3> QED
      BY <2>1, <3>1, <3>2, SpinStep DEF RingDoorbell, world
<1>2. Types'
  <2>1. UNCHANGED <<port, stage, todo, ring, ep, evt, hcEvt, erdp, granted, addressed, enabled, conf, pending, late,
                    report, typed, owed, reads, device, reports, errors, portEvents>> /\ pc' \in {"wait"}
    BY DEF RingDoorbell, controller, world, driver
  <2>2. \A q \in RingNames : hc'[q] \in [deq : 0..(Size[q] - 1), cycle : {0, 1}, rung : BOOLEAN]
    BY <1>1, Zenon DEF Consumer
  <2> QED
    BY <1>0, <1>1, <2>1, <2>2, Zenon DEF Types, TypeOK, Trying, Using, Stage, RingDoorbell
<1>3. OneToken'
  BY <1>0, <1>1, StageFacts, XhciAssumption, SMT DEF RingDoorbell, controller, world, driver, Same, Quiet, Ports, OneToken, Holding, Asked, Success, Later, Trying, Using, Stage, Op
<1>4. Lag'
  BY <1>0, <1>1, StageFacts, XhciAssumption, SMT DEF RingDoorbell, controller, world, driver, Same, Quiet, Ports, Lag, Lost, Own, Holding, Asked, Success, Later, Trying, Using, Stage, Op
<1>5. TokenLast'
  BY <1>0, <1>1, StageFacts, XhciAssumption, SMT DEF RingDoorbell, controller, world, driver, Same, Quiet, Ports, TokenLast, Holding, Asked, Success, Later, Trying, Using, Stage, Op
<1>6. OnTime'
  BY <1>0, <1>1, StageFacts, XhciAssumption, SMT DEF RingDoorbell, controller, world, driver, Same, Quiet, Ports, OnTime, Holding, Asked, Success, Later, Trying, Using, Stage, Op
<1>7. Unused'
  <2>1. Using \/ hc'["intr"] = hc["intr"]
    BY <1>0, <1>1, StageFacts DEF RingNames, Stage
  <2>2. Trying /\ Trying' /\ ~Using /\ UNCHANGED <<ring, stage, granted, late, evt>>
    BY DEF RingDoorbell, Trying, Using, controller, world, driver
  <2>3. Unaddressed => hc'["ctrl"] = hc["ctrl"]
    BY <1>0, <1>1, <2>2, StageFacts, SMT DEF RingNames, Stage, Unaddressed, OneToken
  <2>4. Unaddressed' => Unaddressed
    BY <1>1, <2>2, Zenon DEF Quiet, Unaddressed, Success
  <2> QED
    BY <1>1, <2>1, <2>2, <2>3, <2>4, Zenon DEF Quiet, Unused, Using
<1>8. Request'
  BY <1>0, <1>1, StageFacts, XhciAssumption, SMT DEF RingDoorbell, controller, world, driver, Same, Quiet, Ports, Request, Controlling, Sent, Consumed, Holding, Asked, Success, Later, Trying, Using, Stage, Op
<1>9. Keyboard'
  BY <1>0, <1>1, StageFacts, XhciAssumption, SMT DEF RingDoorbell, controller, world, driver, Same, Quiet, Ports, Keyboard, Holding, Asked, Success, Later, Trying, Using, Stage, Op
<1>10. OneReport'
  BY <1>0, <1>1, StageFacts, XhciAssumption, SMT DEF RingDoorbell, controller, world, driver, Same, Quiet, Ports, OneReport, Holding, Asked, Success, Later, Trying, Using, Stage, Op
<1> QED
  BY <1>1, <1>2, <1>3, <1>4, <1>5, <1>6, <1>7, <1>8, <1>9, <1>10

LEMMA HcLinkInv ==
  ASSUME XhciInv, NEW r \in RingNames, HcLink(r)
  PROVE  XhciInv'
<1> USE DEF XhciInv
<1>0. /\ stage \in 1..8 /\ port \in Nat /\ (Trying \/ Using => port \in Ports)
      /\ Outstanding \in Nat /\ (Outstanding = 0 => Answers("cmd") = {} /\ Fly("cmd") = {})
      /\ (Using => ~late)
  BY Basics
<1>1. /\ Same("cmd") /\ (late \/ Same("ctrl")) /\ Same("intr") /\ Quiet /\ Rings'
      /\ Outstanding' = Outstanding /\ DOMAIN hc' = RingNames
      /\ \A q \in RingNames : hc'[q] \in Consumer(Size[q]) /\ (q # r => hc'[q] = hc[q])
  <2>1. hc' = [hc EXCEPT ![r] = [hc[r] EXCEPT !.deq = 0, !.cycle = 1 - @]]
    BY DEF HcLink
  <2> QED
    <3> DEFINE k == [hc[r] EXCEPT !.deq = 0, !.cycle = 1 - hc[r].cycle]
    <3>1. /\ k \in Consumer(Size[r])
          /\ \/ k.deq = hc[r].deq /\ k.cycle = hc[r].cycle
             \/ hc[r].deq = Size[r] - 1 /\ k.deq = 0 /\ k.cycle = 1 - hc[r].cycle
      <4>1. hc[r] \in Consumer(Size[r]) /\ 1 - hc[r].cycle \in {0, 1} /\ 0 \in 0..(Size[r] - 1)
        BY RingTypes, XhciAssumption, SMT DEF Consumer, RingNames
      <4> QED
        BY <4>1, <2>1, Zenon DEF Consumer, HcLink, AtLink
    <3> HIDE DEF k
    <3>2. hc' = [hc EXCEPT ![r] = k]
      BY <2>1 DEF k
    <3> QED
      BY <3>1, <3>2, SpinStep DEF HcLink, AtLink, driver
<1>u. UNCHANGED <<pc, port, stage, todo, ring, late, device, conf, granted, addressed, pending, owed, report>>
  BY DEF HcLink, controller, world, driver
<1>2. Types'
  <2>1. UNCHANGED <<port, stage, todo, ring, ep, evt, hcEvt, erdp, granted, addressed, enabled, conf, pending, late,
                    report, typed, owed, reads, device, reports, errors, portEvents>> /\ pc' \in {pc}
    BY DEF HcLink, controller, world, driver
  <2>2. \A q \in RingNames : hc'[q] \in [deq : 0..(Size[q] - 1), cycle : {0, 1}, rung : BOOLEAN]
    BY <1>1, Zenon DEF Consumer
  <2> QED
    BY <1>0, <1>1, <2>1, <2>2, Zenon DEF Types, TypeOK, Trying, Using, Stage
<1>3. OneToken'
  BY <1>0, <1>1, <1>u, SMT DEF Same, Quiet, OneToken, Holding, Asked, Success, Later, Trying, Using, Stage, Op
<1>4. Lag'
  BY <1>0, <1>1, <1>u, SMT DEF Same, Quiet, Lag, Lost, Own, Holding, Asked, Success, Later, Trying, Using, Stage, Op
<1>5. TokenLast'
  BY <1>0, <1>1, <1>u, SMT DEF Same, Quiet, TokenLast, Holding, Asked, Success, Later, Trying, Using, Stage, Op
<1>6. OnTime'
  BY <1>0, <1>1, <1>u, SMT DEF Same, Quiet, OnTime, Holding, Asked, Success, Later, Trying, Using, Stage, Op
<1>7. Unused'
  <2>1. hc[r] = Idle0 => r \notin {"ctrl", "intr"}
    BY XhciAssumption, RingTypes, SMT DEF HcLink, AtLink, Idle0
  <2>2. \A q \in RingNames : hc[q] = Idle0 /\ q \in {"ctrl", "intr"} => hc'[q] = hc[q]
    BY <1>1, <2>1
  <2> QED
    BY <1>0, <1>1, <2>2, SMT DEF HcLink, controller, world, driver, Same, Quiet, RingNames, Unused, Unaddressed, Holding, Asked, Success, Later, Trying, Using, Stage, Op
<1>8. Request'
  BY <1>0, <1>1, <1>u, SMT DEF Same, Quiet, Request, Controlling, Sent, Consumed, Holding, Asked, Success, Later, Trying, Using, Stage, Op
<1>9. Keyboard'
  BY <1>0, <1>1, <1>u, SMT DEF Same, Quiet, Keyboard, Holding, Asked, Success, Later, Trying, Using, Stage, Op
<1>10. OneReport'
  BY <1>0, <1>1, <1>u, SMT DEF Same, Quiet, OneReport, Holding, Asked, Success, Later, Trying, Using, Stage, Op
<1> QED
  BY <1>1, <1>2, <1>3, <1>4, <1>5, <1>6, <1>7, <1>8, <1>9, <1>10

LEMMA HcIdleInv ==
  ASSUME XhciInv, NEW r \in RingNames, HcIdle(r)
  PROVE  XhciInv'
<1> USE DEF XhciInv
<1>0. /\ stage \in 1..8 /\ port \in Nat /\ (Trying \/ Using => port \in Ports)
      /\ Outstanding \in Nat /\ (Outstanding = 0 => Answers("cmd") = {} /\ Fly("cmd") = {})
      /\ (Using => ~late)
  BY Basics
<1>1. /\ Same("cmd") /\ (late \/ Same("ctrl")) /\ Same("intr") /\ Quiet /\ Rings'
      /\ Outstanding' = Outstanding /\ DOMAIN hc' = RingNames
      /\ \A q \in RingNames : hc'[q] \in Consumer(Size[q]) /\ (q # r => hc'[q] = hc[q])
  <2>1. hc' = [hc EXCEPT ![r] = [hc[r] EXCEPT !.rung = FALSE]]
    BY DEF HcIdle
  <2> QED
    <3> DEFINE k == [hc[r] EXCEPT !.rung = FALSE]
    <3>1. /\ k \in Consumer(Size[r])
          /\ \/ k.deq = hc[r].deq /\ k.cycle = hc[r].cycle
             \/ hc[r].deq = Size[r] - 1 /\ k.deq = 0 /\ k.cycle = 1 - hc[r].cycle
      <4>1. hc[r] \in Consumer(Size[r]) /\ 1 - hc[r].cycle \in {0, 1} /\ 0 \in 0..(Size[r] - 1)
        BY RingTypes, XhciAssumption, SMT DEF Consumer, RingNames
      <4> QED
        BY <4>1, <2>1, Zenon DEF Consumer, HcIdle, AtLink
    <3> HIDE DEF k
    <3>2. hc' = [hc EXCEPT ![r] = k]
      BY <2>1 DEF k
    <3> QED
      BY <3>1, <3>2, SpinStep DEF HcIdle, AtLink, driver
<1>u. UNCHANGED <<pc, port, stage, todo, ring, late, device, conf, granted, addressed, pending, owed, report>>
  BY DEF HcIdle, controller, world, driver
<1>2. Types'
  <2>1. UNCHANGED <<port, stage, todo, ring, ep, evt, hcEvt, erdp, granted, addressed, enabled, conf, pending, late,
                    report, typed, owed, reads, device, reports, errors, portEvents>> /\ pc' \in {pc}
    BY DEF HcIdle, controller, world, driver
  <2>2. \A q \in RingNames : hc'[q] \in [deq : 0..(Size[q] - 1), cycle : {0, 1}, rung : BOOLEAN]
    BY <1>1, Zenon DEF Consumer
  <2> QED
    BY <1>0, <1>1, <2>1, <2>2, Zenon DEF Types, TypeOK, Trying, Using, Stage
<1>3. OneToken'
  BY <1>0, <1>1, <1>u, SMT DEF Same, Quiet, OneToken, Holding, Asked, Success, Later, Trying, Using, Stage, Op
<1>4. Lag'
  BY <1>0, <1>1, <1>u, SMT DEF Same, Quiet, Lag, Lost, Own, Holding, Asked, Success, Later, Trying, Using, Stage, Op
<1>5. TokenLast'
  BY <1>0, <1>1, <1>u, SMT DEF Same, Quiet, TokenLast, Holding, Asked, Success, Later, Trying, Using, Stage, Op
<1>6. OnTime'
  BY <1>0, <1>1, <1>u, SMT DEF Same, Quiet, OnTime, Holding, Asked, Success, Later, Trying, Using, Stage, Op
<1>7. Unused'
  <2>1. hc[r] = Idle0 => r \notin {"ctrl", "intr"}
    BY XhciAssumption, RingTypes, SMT DEF HcIdle, AtLink, Idle0
  <2>2. \A q \in RingNames : hc[q] = Idle0 /\ q \in {"ctrl", "intr"} => hc'[q] = hc[q]
    BY <1>1, <2>1
  <2> QED
    BY <1>0, <1>1, <2>2, SMT DEF HcIdle, controller, world, driver, Same, Quiet, RingNames, Unused, Unaddressed, Holding, Asked, Success, Later, Trying, Using, Stage, Op
<1>8. Request'
  BY <1>0, <1>1, <1>u, SMT DEF Same, Quiet, Request, Controlling, Sent, Consumed, Holding, Asked, Success, Later, Trying, Using, Stage, Op
<1>9. Keyboard'
  BY <1>0, <1>1, <1>u, SMT DEF Same, Quiet, Keyboard, Holding, Asked, Success, Later, Trying, Using, Stage, Op
<1>10. OneReport'
  BY <1>0, <1>1, <1>u, SMT DEF Same, Quiet, OneReport, Holding, Asked, Success, Later, Trying, Using, Stage, Op
<1> QED
  BY <1>1, <1>2, <1>3, <1>4, <1>5, <1>6, <1>7, <1>8, <1>9, <1>10

LEMMA PressInv ==
  ASSUME XhciInv, NEW r \in Reports, Press(r)
  PROVE  XhciInv'
<1> USE DEF XhciInv
<1>1. /\ Same("cmd") /\ Same("ctrl") /\ Same("intr") /\ Quiet /\ Rings'
      /\ Outstanding' = Outstanding
  BY StillStep DEF Press, controller, world, driver
<1>0. /\ stage \in 1..8 /\ port \in Nat /\ (Trying \/ Using => port \in Ports)
      /\ Outstanding \in Nat /\ (Outstanding = 0 => Answers("cmd") = {} /\ Fly("cmd") = {})
  BY Basics
<1>2. Types'
  <2>1. typed' \in Seq(Reports) /\ reports' \in Nat
    BY SMT DEF Press, Types, TypeOK
  <2> QED
    BY <2>1, SMT DEF Press, controller, world, driver, Types, TypeOK, Trying, Using, Stage
<1>3. OneToken'
  BY <1>0, <1>1, StageFacts, XhciAssumption, SMT DEF Press, controller, world, driver, Same, Quiet, Ports, OneToken, Holding, Asked, Success, Later, Trying, Using, Stage, Op
<1>4. Lag'
  BY <1>0, <1>1, StageFacts, XhciAssumption, SMT DEF Press, controller, world, driver, Same, Quiet, Ports, Lag, Lost, Own, Holding, Asked, Success, Later, Trying, Using, Stage, Op
<1>5. TokenLast'
  BY <1>0, <1>1, StageFacts, XhciAssumption, SMT DEF Press, controller, world, driver, Same, Quiet, Ports, TokenLast, Holding, Asked, Success, Later, Trying, Using, Stage, Op
<1>6. OnTime'
  BY <1>0, <1>1, StageFacts, XhciAssumption, SMT DEF Press, controller, world, driver, Same, Quiet, Ports, OnTime, Holding, Asked, Success, Later, Trying, Using, Stage, Op
<1>7. Unused'
  BY <1>0, <1>1, StageFacts, XhciAssumption, SMT DEF Press, controller, world, driver, Same, Quiet, Ports, Unused, Unaddressed, Holding, Asked, Success, Later, Trying, Using, Stage, Op
<1>8. Request'
  BY <1>0, <1>1, StageFacts, XhciAssumption, SMT DEF Press, controller, world, driver, Same, Quiet, Ports, Request, Controlling, Sent, Consumed, Holding, Asked, Success, Later, Trying, Using, Stage, Op
<1>9. Keyboard'
  BY <1>0, <1>1, StageFacts, XhciAssumption, SMT DEF Press, controller, world, driver, Same, Quiet, Ports, Keyboard, Holding, Asked, Success, Later, Trying, Using, Stage, Op
<1>10. OneReport'
  <2>1. UNCHANGED <<pc, pending, owed, evt, report>>
    BY DEF Press, controller, world, driver
  <2> QED
    BY <1>1, <2>1, SMT DEF Same, Quiet, OneReport, Using
<1> QED
  BY <1>1, <1>2, <1>3, <1>4, <1>5, <1>6, <1>7, <1>8, <1>9, <1>10

LEMMA StutterInv == XhciInv /\ UNCHANGED vars => XhciInv'
<1> SUFFICES ASSUME XhciInv, UNCHANGED vars PROVE XhciInv'
  OBVIOUS
<1> USE DEF XhciInv
<1>1. /\ Same("cmd") /\ Same("ctrl") /\ Same("intr") /\ Quiet /\ Rings'
      /\ Outstanding' = Outstanding
  BY StillStep DEF vars, controller, world, driver
<1>0. /\ stage \in 1..8 /\ port \in Nat /\ (Trying \/ Using => port \in Ports)
      /\ Outstanding \in Nat /\ (Outstanding = 0 => Answers("cmd") = {} /\ Fly("cmd") = {})
  BY Basics
<1>2. Types'
  BY XhciAssumption, StageFacts, EntryFacts, SMT DEF vars, controller, world, driver, Types, TypeOK, Trying, Using, Stage
<1>3. OneToken'
  BY <1>0, <1>1, StageFacts, XhciAssumption, SMT DEF vars, controller, world, driver, Same, Quiet, Ports, OneToken, Holding, Asked, Success, Later, Trying, Using, Stage, Op
<1>4. Lag'
  BY <1>0, <1>1, StageFacts, XhciAssumption, SMT DEF vars, controller, world, driver, Same, Quiet, Ports, Lag, Lost, Own, Holding, Asked, Success, Later, Trying, Using, Stage, Op
<1>5. TokenLast'
  BY <1>0, <1>1, StageFacts, XhciAssumption, SMT DEF vars, controller, world, driver, Same, Quiet, Ports, TokenLast, Holding, Asked, Success, Later, Trying, Using, Stage, Op
<1>6. OnTime'
  BY <1>0, <1>1, StageFacts, XhciAssumption, SMT DEF vars, controller, world, driver, Same, Quiet, Ports, OnTime, Holding, Asked, Success, Later, Trying, Using, Stage, Op
<1>7. Unused'
  BY <1>0, <1>1, StageFacts, XhciAssumption, SMT DEF vars, controller, world, driver, Same, Quiet, Ports, Unused, Unaddressed, Holding, Asked, Success, Later, Trying, Using, Stage, Op
<1>8. Request'
  BY <1>0, <1>1, StageFacts, XhciAssumption, SMT DEF vars, controller, world, driver, Same, Quiet, Ports, Request, Controlling, Sent, Consumed, Holding, Asked, Success, Later, Trying, Using, Stage, Op
<1>9. Keyboard'
  BY <1>0, <1>1, StageFacts, XhciAssumption, SMT DEF vars, controller, world, driver, Same, Quiet, Ports, Keyboard, Holding, Asked, Success, Later, Trying, Using, Stage, Op
<1>10. OneReport'
  BY <1>0, <1>1, StageFacts, XhciAssumption, SMT DEF vars, controller, world, driver, Same, Quiet, Ports, OneReport, Holding, Asked, Success, Later, Trying, Using, Stage, Op
<1> QED
  BY <1>1, <1>2, <1>3, <1>4, <1>5, <1>6, <1>7, <1>8, <1>9, <1>10

\* An event is posted: what is out on the event ring, and in which order.
LEMMA PostStep ==
  ASSUME Types, Rings, NEW type \in {"cmd", "transfer", "port"}, NEW ok \in BOOLEAN,
         HcPost(type, ok), erdp' = erdp, NEW q, q = hcEvt.enq
  PROVE  /\ EventsInStep' /\ evt' \in EvtRing /\ hcEvt' \in HcPlace
         /\ q \in 0..(EvtSize - 1)
         /\ Answers(type)' = Answers(type) \cup {q}
         /\ Cardinality(Answers(type)') = Cardinality(Answers(type)) + 1
         /\ evt'.event[q].ok = ok
         /\ \A t : t # type => Answers(t)' = Answers(t)
         /\ \A t : /\ q \notin Answers(t)
                   /\ \A i \in Answers(t) : /\ evt'.event[i] = evt.event[i] /\ Turn(i)' = Turn(i)
                                            /\ Turn(i)' <= Turn(q)'
<1>1. evt \in EvtRing /\ hcEvt \in HcPlace /\ EventsInStep
  BY RingTypes DEF Rings
<1>2. /\ evt' \in EvtRing /\ hcEvt' \in HcPlace /\ EventsInStep'
      /\ hcEvt.enq \in 0..(EvtSize - 1) /\ ~Waiting(hcEvt.enq)
      /\ Answers(type)' = Answers(type) \cup {hcEvt.enq}
      /\ \A t : t # type => Answers(t)' = Answers(t)
      /\ evt'.event[hcEvt.enq].ok = ok
      /\ \A i \in 0..(EvtSize - 1) : Waiting(i) => evt'.event[i] = evt.event[i]
      /\ evt'.deq = evt.deq
      /\ \A i \in 0..(EvtSize - 1) : Waiting(i) => Turn(i) < Turn(hcEvt.enq)
  BY <1>1, PostInStep
<1>3. \A i \in 0..(EvtSize - 1) : Turn(i)' = Turn(i) /\ Turn(i) \in Int
  BY <1>1, <1>2, XhciAssumption, SMT DEF Turn, EvtRing
<1>4. \A t : hcEvt.enq \notin Answers(t) /\ \A i \in Answers(t) : i \in 0..(EvtSize - 1) /\ Waiting(i)
  BY <1>2 DEF Answers
<1>5. Cardinality(Answers(type)') = Cardinality(Answers(type)) + 1
  BY <1>2, <1>4, AnswersFinite, FS_AddElement
<1>6. ASSUME NEW t, NEW i \in Answers(t)
      PROVE  evt'.event[i] = evt.event[i] /\ Turn(i)' = Turn(i) /\ Turn(i)' <= Turn(q)'
  <2>1. i \in 0..(EvtSize - 1) /\ Waiting(i)
    BY <1>4
  <2>2. Turn(i)' = Turn(i) /\ Turn(q)' = Turn(q) /\ Turn(i) \in Int /\ Turn(q) \in Int
    BY <1>2, <1>3, <2>1, Zenon
  <2>3. Turn(i) < Turn(q) /\ evt'.event[i] = evt.event[i]
    BY <1>2, <2>1, Zenon
  <2> QED
    BY <2>2, <2>3, SMT
<1> QED
  BY <1>2, <1>4, <1>5, <1>6

\* An event is taken: it was the first one.
LEMMA TakeStep ==
  ASSUME Types, Rings, EventReady, TakeEvent, hcEvt' = hcEvt,
         NEW d, d = evt.deq, NEW type, type = NextEvent.type
  PROVE  /\ EventsInStep' /\ evt' \in EvtRing /\ erdp' \in 0..(EvtSize - 1)
         /\ NextEvent.ok \in BOOLEAN /\ NextEvent = evt.event[d] /\ evt'.event = evt.event
         /\ d \in Answers(type) /\ Turn(d) = 0
         /\ Cardinality(Answers(type)') = Cardinality(Answers(type)) - 1
         /\ \A t : /\ Answers(t)' = Answers(t) \ {d}
                   /\ t # type => Answers(t)' = Answers(t) /\ d \notin Answers(t)
                   /\ \A i \in Answers(t) : Turn(i) \in Nat /\ (Turn(i) = 0 => i = d)
                   /\ \A i \in Answers(t)' : Turn(i)' = Turn(i) - 1
<1>1. evt \in EvtRing /\ hcEvt \in HcPlace /\ EventsInStep
  BY RingTypes DEF Rings
<1>2. /\ evt' \in EvtRing /\ erdp' \in 0..(EvtSize - 1) /\ EventsInStep'
      /\ evt.deq \in 0..(EvtSize - 1) /\ Waiting(evt.deq) /\ Turn(evt.deq) = 0
      /\ evt.deq \in Answers(type)
      /\ \A t : Answers(t)' = Answers(t) \ {evt.deq}
      /\ evt'.event = evt.event
      /\ \A i \in 0..(EvtSize - 1) :
           (Waiting(i)' => Turn(i)' = Turn(i) - 1) /\ Turn(i) >= 0 /\ (Turn(i) = 0 => i = evt.deq)
  BY <1>1, TakeInStep
<1>3. \A i \in 0..(EvtSize - 1) : Turn(i) \in Int
  BY <1>1, <1>2, XhciAssumption, SMT DEF Turn, EvtRing
<1>4. NextEvent.ok \in BOOLEAN /\ NextEvent = evt.event[evt.deq]
  BY <1>1, <1>2 DEF NextEvent, EvtRing, Events
<1>5. \A t : t # NextEvent.type => evt.deq \notin Answers(t)
  BY <1>4 DEF Answers
<1>6. Cardinality(Answers(type)') = Cardinality(Answers(type)) - 1
  <2> DEFINE A == Answers(type)
  <2>1. IsFiniteSet(A) /\ evt.deq \in A /\ Answers(type)' = A \ {evt.deq}
    <3>1. \A t : Answers(t)' = Answers(t) \ {evt.deq}
      BY <1>2
    <3> QED
      BY <1>2, <3>1, AnswersFinite
  <2> QED
    BY <2>1, FS_RemoveElement
<1>7. ASSUME NEW t, NEW i \in Answers(t)
      PROVE  Turn(i) \in Nat /\ (Turn(i) = 0 => i = evt.deq)
  BY <1>2, <1>3, SMT DEF Answers
<1>8. ASSUME NEW t, NEW i \in Answers(t)'
      PROVE  Turn(i)' = Turn(i) - 1
  BY <1>2, SMT DEF Answers
<1>9. \A t : t # NextEvent.type => Answers(t)' = Answers(t)
  BY <1>2, <1>5
<1> QED
  BY <1>2, <1>4, <1>5, <1>6, <1>7, <1>8, <1>9

LEMMA HcPortEventInv ==
  ASSUME XhciInv, HcPortEvent
  PROVE  XhciInv'
<1> USE DEF XhciInv
<1>0. /\ stage \in 1..8 /\ port \in Nat /\ (Trying \/ Using => port \in Ports)
      /\ Outstanding \in Nat /\ (Outstanding = 0 => Answers("cmd") = {} /\ Fly("cmd") = {})
      /\ (Using => ~late)
  BY Basics
<1>q. PICK q : q = hcEvt.enq
  OBVIOUS
<1>u. UNCHANGED <<pc, port, stage, todo, ring, late, device, conf, granted, addressed, pending, owed, report, hc>>
  BY DEF HcPortEvent
<1>1. /\ Same("cmd") /\ Same("ctrl") /\ Same("intr") /\ Rings' /\ Outstanding' = Outstanding
      /\ Answers("cmd")' = Answers("cmd") /\ Answers("transfer")' = Answers("transfer")
      /\ \A i \in Answers("cmd") \cup Answers("transfer") : evt'.event[i] = evt.event[i] /\ Turn(i)' = Turn(i)
      /\ evt' \in EvtRing /\ hcEvt' \in HcPlace
  <2>1. Same("cmd") /\ Same("ctrl") /\ Same("intr")
    BY <1>u, SameRing
  <2>2. HcPost("port", TRUE) /\ erdp' = erdp
    BY DEF HcPortEvent
  <2>3. /\ EventsInStep' /\ evt' \in EvtRing /\ hcEvt' \in HcPlace
        /\ \A t : t # "port" => Answers(t)' = Answers(t)
        /\ \A t : \A i \in Answers(t) : evt'.event[i] = evt.event[i] /\ Turn(i)' = Turn(i)
    BY <1>q, <2>2, PostStep
  <2>4. Rings'
    BY <1>u, <2>3 DEF Rings
  <2> QED
    BY <2>1, <2>3, <2>4 DEF Outstanding, Same
 <1>2. Types'
  <2>1. UNCHANGED <<pc, port, stage, todo, ring, hc, ep, erdp, granted, addressed, enabled, conf, pending, late, report, typed, owed, reads, device, reports, errors>>
    BY DEF HcPortEvent
  <2>2. portEvents' \in Nat
    BY SMT DEF HcPortEvent, Types, TypeOK
  <2> QED
    BY <1>1, <2>1, <2>2, Zenon DEF Types, TypeOK, Trying, Using, Stage, EvtRing, HcPlace
<1>3. OneToken'
  BY <1>0, <1>1, <1>u, SMT DEF Same, Quiet, OneToken, Holding, Asked, Success, Later, Trying, Using, Stage, Op
<1>4. Lag'
  BY <1>0, <1>1, <1>u, SMT DEF Same, Quiet, Lag, Lost, Own, Holding, Asked, Success, Later, Trying, Using, Stage, Op
<1>5. TokenLast'
  BY <1>0, <1>1, <1>u, SMT DEF Same, Quiet, TokenLast, Holding, Asked, Success, Later, Trying, Using, Stage, Op
<1>6. OnTime'
  BY <1>0, <1>1, <1>u, SMT DEF Same, Quiet, OnTime, Holding, Asked, Success, Later, Trying, Using, Stage, Op
<1>7. Unused'
  BY <1>0, <1>1, <1>u, SMT DEF Same, Quiet, Unused, Unaddressed, Holding, Asked, Success, Later, Trying, Using, Stage, Op
<1>8. Request'
  BY <1>0, <1>1, <1>u, SMT DEF Same, Quiet, Request, Controlling, Sent, Consumed, Holding, Asked, Success, Later, Trying, Using, Stage, Op
<1>9. Keyboard'
  BY <1>0, <1>1, <1>u, SMT DEF Same, Quiet, Keyboard, Holding, Asked, Success, Later, Trying, Using, Stage, Op
<1>10. OneReport'
  BY <1>0, <1>1, <1>u, SMT DEF Same, Quiet, OneReport, Holding, Asked, Success, Later, Trying, Using, Stage, Op
<1> QED
  BY <1>1, <1>2, <1>3, <1>4, <1>5, <1>6, <1>7, <1>8, <1>9, <1>10

\* The controller moves on to the next entry.
LEMMA AdvanceStep ==
  ASSUME Types, NEW r \in RingNames, InStep(Size[r], ring[r], hc[r]), HcOwns(r), ~AtLink(r),
         ring' = ring, hc'[r] = [hc[r] EXCEPT !.deq = @ + 1], NEW d, d = hc[r].deq
  PROVE  /\ InStep(Size[r], ring[r], hc'[r])
         /\ Pending(r) \in Nat /\ Pending(r) >= 1 /\ Pending(r)' = Pending(r) - 1
         /\ d \in Fly(r) /\ Fly(r)' = Fly(r) \ {d} /\ Ahead(r, d) = 0
         /\ \A i \in Fly(r)' : Ahead(r, i)' = Ahead(r, i) - 1
<1>1. /\ Size[r] \in Nat /\ Size[r] >= 3
      /\ ring[r] \in Ring(Size[r]) /\ hc[r] \in Consumer(Size[r])
  BY RingTypes, XhciAssumption, SMT DEF RingNames
<1>2. hc[r].deq # Size[r] - 1 /\ ring[r].trb[hc[r].deq].cycle = hc[r].cycle
  BY DEF AtLink, HcOwns
<1>3. /\ InStep(Size[r], ring[r], hc'[r])
      /\ Count(Size[r], ring[r], hc'[r]) = Count(Size[r], ring[r], hc[r]) - 1
      /\ Flying(Size[r], ring[r], hc'[r]) = Flying(Size[r], ring[r], hc[r]) \ {hc[r].deq}
      /\ \A i \in Flying(Size[r], ring[r], hc'[r]) : Before(Size[r], i, hc'[r]) = Before(Size[r], i, hc[r]) - 1
  BY <1>1, <1>2, AdvanceInStep
<1>4. /\ hc[r].deq \in Flying(Size[r], ring[r], hc[r]) /\ Before(Size[r], hc[r].deq, hc[r]) = 0
      /\ Count(Size[r], ring[r], hc[r]) >= 1
  BY <1>1, <1>2, ReadFlies
<1>5. Count(Size[r], ring[r], hc[r]) \in Nat
  BY <1>1, CountBounds, SMT
<1> QED
  BY <1>3, <1>4, <1>5 DEF Pending, Fly, Ahead

\* Nothing is read from a ring that is as new.
LEMMA UnusedRing ==
  ASSUME Types, NEW r \in RingNames, ring[r] = NewRing(Size[r]), hc[r] = Idle0
  PROVE  InStep(Size[r], ring[r], hc[r]) /\ Pending(r) = 0 /\ Fly(r) = {} /\ ~HcOwns(r)
<1>1. Size[r] \in Nat /\ Size[r] >= 3
  BY RingTypes, XhciAssumption, SMT DEF RingNames
<1> QED
  BY <1>1, NewRingInStep DEF Pending, Fly, HcOwns, Idle0

LEMMA HcReportInv ==
  ASSUME XhciInv, HcReport
  PROVE  XhciInv'
<1> USE DEF XhciInv
<1>0. /\ stage \in 1..8 /\ port \in Nat /\ (Trying \/ Using => port \in Ports)
      /\ Outstanding \in Nat /\ (Outstanding = 0 => Answers("cmd") = {} /\ Fly("cmd") = {})
      /\ (Using => ~late)
  BY Basics
<1>q. PICK q : q = hcEvt.enq
  OBVIOUS
<1>u. /\ UNCHANGED <<pc, port, stage, todo, ring, late, device, conf, granted, addressed, pending>>
      /\ hc' = HcAdvance("intr") /\ erdp' = erdp /\ HcPost("transfer", TRUE)
      /\ HcOwns("intr") /\ ~AtLink("intr")
  BY DEF HcReport
<1>1. /\ Same("cmd") /\ Same("ctrl") /\ Rings' /\ Outstanding' = Outstanding
      /\ Answers("cmd")' = Answers("cmd") /\ Answers("transfer")' = Answers("transfer") \cup {q}
      /\ \A i \in Answers("cmd") : evt'.event[i] = evt.event[i] /\ Turn(i)' = Turn(i)
      /\ q \in 0..(EvtSize - 1) /\ evt'.event[q].ok = TRUE
      /\ Pending("intr") \in Nat /\ Pending("intr") >= 1 /\ Pending("intr")' = Pending("intr") - 1
      /\ evt' \in EvtRing /\ hcEvt' \in HcPlace
      /\ DOMAIN hc' = RingNames /\ \A r \in RingNames : hc'[r] \in Consumer(Size[r])
      /\ hc'["ctrl"] = hc["ctrl"]
  <2>1. /\ \A r \in RingNames : r # "intr" => hc'[r] = hc[r]
        /\ hc'["intr"] = [hc["intr"] EXCEPT !.deq = @ + 1] /\ DOMAIN hc' = RingNames
    BY <1>u DEF HcAdvance, Types, RingNames
  <2>2. Same("cmd") /\ Same("ctrl")
    BY <1>u, <2>1, SameRing DEF RingNames
  <2>3. /\ InStep(Size["intr"], ring["intr"], hc'["intr"])
        /\ Pending("intr") \in Nat /\ Pending("intr") >= 1 /\ Pending("intr")' = Pending("intr") - 1
    BY <1>u, <2>1, RingTypes, AdvanceStep DEF RingNames, Rings
  <2>4. /\ EventsInStep' /\ evt' \in EvtRing /\ hcEvt' \in HcPlace
        /\ q \in 0..(EvtSize - 1) /\ Answers("transfer")' = Answers("transfer") \cup {q}
        /\ evt'.event[q].ok = TRUE
        /\ \A t : t # "transfer" => Answers(t)' = Answers(t)
        /\ \A t : \A i \in Answers(t) : evt'.event[i] = evt.event[i] /\ Turn(i)' = Turn(i)
    BY <1>q, <1>u, PostStep
  <2>5. Rings'
    BY <1>u, <2>1, <2>3, <2>4, RingTypes DEF Rings, RingNames
  <2>6. \A r \in RingNames : hc[r] \in Consumer(Size[r])
    BY RingTypes DEF RingNames
  <2>7. hc'["intr"] \in Consumer(Size["intr"])
    <3>1. hc["intr"].deq + 1 \in 0..(Size["intr"] - 1)
      BY <1>u, <2>6, XhciAssumption, RingTypes, SMT DEF AtLink, Consumer, RingNames
    <3> QED
      BY <2>1, <2>6, <3>1, Zenon DEF Consumer, RingNames
  <2> QED
    BY <2>1, <2>2, <2>3, <2>4, <2>5, <2>6, <2>7 DEF Outstanding, Same, RingNames
<1>w. /\ Using /\ pending /\ Pending("intr") = 1 /\ Answers("transfer") = {} /\ owed = <<>>
  <2>1. Using
    BY <1>u, UnusedRing, RingTypes DEF Unused, RingNames
  <2> QED
    BY <1>1, <2>1, SMT DEF OneReport
 <1>2. Types'
  <2>1. UNCHANGED <<pc, port, stage, todo, ring, ep, erdp, granted, addressed, enabled, conf, pending, late, reads, device, reports, errors, portEvents>>
    BY DEF HcReport
  <2>2. report' \in Reports /\ owed' \in Seq(Reports) /\ typed' \in Seq(Reports) /\ errors' \in Nat
    BY SMT DEF HcReport, Types, TypeOK
  <2>3. \A q_1 \in RingNames : hc'[q_1] \in [deq : 0..(Size[q_1] - 1), cycle : {0, 1}, rung : BOOLEAN]
    BY <1>1, Zenon DEF Consumer
  <2> QED
    BY <1>1, <2>1, <2>2, <2>3, Zenon DEF Types, TypeOK, Trying, Using, Stage, EvtRing, HcPlace
<1>3. OneToken'
  BY <1>0, <1>1, <1>u, SMT DEF Same, Quiet, OneToken, Holding, Asked, Success, Later, Trying, Using, Stage, Op
<1>4. Lag'
  BY <1>0, <1>1, <1>u, SMT DEF Same, Quiet, Lag, Lost, Own, Holding, Asked, Success, Later, Trying, Using, Stage, Op
<1>5. TokenLast'
  BY <1>0, <1>1, <1>u, SMT DEF Same, Quiet, TokenLast, Holding, Asked, Success, Later, Trying, Using, Stage, Op
<1>6. OnTime'
  BY <1>0, <1>1, <1>u, SMT DEF Same, Quiet, OnTime, Holding, Asked, Success, Later, Trying, Using, Stage, Op
<1>7. Unused'
  <2>1. late' \/ ~Unaddressed'
    BY <1>u, <1>w DEF Unaddressed, OneToken, Using, Trying, Holding
  <2> QED
    BY <1>u, <1>w, <2>1 DEF Unused, Using
<1>8. Request'
  BY <1>u, <1>w DEF Request, Controlling, Trying, Using
<1>9. Keyboard'
  BY <1>1, <1>u, <1>w, SMT DEF Same, Keyboard, Using, Trying
<1>10. OneReport'
  <2>1. owed' = <<report'>>
    BY <1>w DEF HcReport
  <2>2. Answers("transfer")' = {q} /\ Pending("intr")' = 0 /\ pending' /\ Using'
    BY <1>1, <1>u, <1>w, SMT DEF Using
  <2> QED
    BY <1>1, <2>1, <2>2 DEF OneReport
<1> QED
  BY <1>1, <1>2, <1>3, <1>4, <1>5, <1>6, <1>7, <1>8, <1>9, <1>10

LEMMA HcReportFailsInv ==
  ASSUME XhciInv, HcReportFails
  PROVE  XhciInv'
<1> USE DEF XhciInv
<1>0. /\ stage \in 1..8 /\ port \in Nat /\ (Trying \/ Using => port \in Ports)
      /\ Outstanding \in Nat /\ (Outstanding = 0 => Answers("cmd") = {} /\ Fly("cmd") = {})
      /\ (Using => ~late)
  BY Basics
<1>q. PICK q : q = hcEvt.enq
  OBVIOUS
<1>u. /\ UNCHANGED <<pc, port, stage, todo, ring, late, device, conf, granted, addressed, pending>>
      /\ hc' = HcAdvance("intr") /\ erdp' = erdp /\ HcPost("transfer", FALSE)
      /\ HcOwns("intr") /\ ~AtLink("intr")
  BY DEF HcReportFails
<1>1. /\ Same("cmd") /\ Same("ctrl") /\ Rings' /\ Outstanding' = Outstanding
      /\ Answers("cmd")' = Answers("cmd") /\ Answers("transfer")' = Answers("transfer") \cup {q}
      /\ \A i \in Answers("cmd") : evt'.event[i] = evt.event[i] /\ Turn(i)' = Turn(i)
      /\ q \in 0..(EvtSize - 1) /\ evt'.event[q].ok = FALSE
      /\ Pending("intr") \in Nat /\ Pending("intr") >= 1 /\ Pending("intr")' = Pending("intr") - 1
      /\ evt' \in EvtRing /\ hcEvt' \in HcPlace
      /\ DOMAIN hc' = RingNames /\ \A r \in RingNames : hc'[r] \in Consumer(Size[r])
      /\ hc'["ctrl"] = hc["ctrl"]
  <2>1. /\ \A r \in RingNames : r # "intr" => hc'[r] = hc[r]
        /\ hc'["intr"] = [hc["intr"] EXCEPT !.deq = @ + 1] /\ DOMAIN hc' = RingNames
    BY <1>u DEF HcAdvance, Types, RingNames
  <2>2. Same("cmd") /\ Same("ctrl")
    BY <1>u, <2>1, SameRing DEF RingNames
  <2>3. /\ InStep(Size["intr"], ring["intr"], hc'["intr"])
        /\ Pending("intr") \in Nat /\ Pending("intr") >= 1 /\ Pending("intr")' = Pending("intr") - 1
    BY <1>u, <2>1, RingTypes, AdvanceStep DEF RingNames, Rings
  <2>4. /\ EventsInStep' /\ evt' \in EvtRing /\ hcEvt' \in HcPlace
        /\ q \in 0..(EvtSize - 1) /\ Answers("transfer")' = Answers("transfer") \cup {q}
        /\ evt'.event[q].ok = FALSE
        /\ \A t : t # "transfer" => Answers(t)' = Answers(t)
        /\ \A t : \A i \in Answers(t) : evt'.event[i] = evt.event[i] /\ Turn(i)' = Turn(i)
    BY <1>q, <1>u, PostStep
  <2>5. Rings'
    BY <1>u, <2>1, <2>3, <2>4, RingTypes DEF Rings, RingNames
  <2>6. \A r \in RingNames : hc[r] \in Consumer(Size[r])
    BY RingTypes DEF RingNames
  <2>7. hc'["intr"] \in Consumer(Size["intr"])
    <3>1. hc["intr"].deq + 1 \in 0..(Size["intr"] - 1)
      BY <1>u, <2>6, XhciAssumption, RingTypes, SMT DEF AtLink, Consumer, RingNames
    <3> QED
      BY <2>1, <2>6, <3>1, Zenon DEF Consumer, RingNames
  <2> QED
    BY <2>1, <2>2, <2>3, <2>4, <2>5, <2>6, <2>7 DEF Outstanding, Same, RingNames
<1>w. /\ Using /\ pending /\ Pending("intr") = 1 /\ Answers("transfer") = {} /\ owed = <<>>
  <2>1. Using
    BY <1>u, UnusedRing, RingTypes DEF Unused, RingNames
  <2> QED
    BY <1>1, <2>1, SMT DEF OneReport
 <1>2. Types'
  <2>1. UNCHANGED <<pc, port, stage, todo, ring, erdp, granted, addressed, enabled, conf, pending, late, report, typed, owed, reads, device, reports, portEvents>>
    BY DEF HcReportFails
  <2>2. report' \in Reports /\ owed' \in Seq(Reports) /\ typed' \in Seq(Reports) /\ errors' \in Nat
    BY SMT DEF HcReportFails, Types, TypeOK
  <2>3. \A q_1 \in RingNames : hc'[q_1] \in [deq : 0..(Size[q_1] - 1), cycle : {0, 1}, rung : BOOLEAN]
    BY <1>1, Zenon DEF Consumer
  <2>4. ep' \in EpStates
    BY Zenon DEF HcReportFails, Types, TypeOK, EpStates, RingNames
  <2> QED
    BY <1>1, <2>1, <2>2, <2>3, <2>4, Zenon DEF Types, TypeOK, Trying, Using, Stage, EvtRing, HcPlace, EpStates
<1>3. OneToken'
  BY <1>0, <1>1, <1>u, SMT DEF Same, Quiet, OneToken, Holding, Asked, Success, Later, Trying, Using, Stage, Op
<1>4. Lag'
  BY <1>0, <1>1, <1>u, SMT DEF Same, Quiet, Lag, Lost, Own, Holding, Asked, Success, Later, Trying, Using, Stage, Op
<1>5. TokenLast'
  BY <1>0, <1>1, <1>u, SMT DEF Same, Quiet, TokenLast, Holding, Asked, Success, Later, Trying, Using, Stage, Op
<1>6. OnTime'
  BY <1>0, <1>1, <1>u, SMT DEF Same, Quiet, OnTime, Holding, Asked, Success, Later, Trying, Using, Stage, Op
<1>7. Unused'
  <2>1. late' \/ ~Unaddressed'
    BY <1>u, <1>w DEF Unaddressed, OneToken, Using, Trying, Holding
  <2> QED
    BY <1>u, <1>w, <2>1 DEF Unused, Using
<1>8. Request'
  BY <1>u, <1>w DEF Request, Controlling, Trying, Using
<1>9. Keyboard'
  BY <1>1, <1>u, <1>w, SMT DEF Same, Keyboard, Using, Trying
<1>10. OneReport'
  <2>1. owed' = <<>>
    BY <1>w DEF HcReportFails
  <2>2. Answers("transfer")' = {q} /\ Pending("intr")' = 0 /\ pending' /\ Using'
    BY <1>1, <1>u, <1>w, SMT DEF Using
  <2> QED
    BY <1>1, <2>1, <2>2 DEF OneReport
<1> QED
  BY <1>1, <1>2, <1>3, <1>4, <1>5, <1>6, <1>7, <1>8, <1>9, <1>10

LEMMA HcShortInv ==
  ASSUME XhciInv, HcShort
  PROVE  XhciInv'
<1> USE DEF XhciInv
<1>0. /\ stage \in 1..8 /\ port \in Nat /\ (Trying \/ Using => port \in Ports)
      /\ Outstanding \in Nat /\ (Outstanding = 0 => Answers("cmd") = {} /\ Fly("cmd") = {})
      /\ (Using => ~late)
  BY Basics
<1>q. PICK q : q = hcEvt.enq
  OBVIOUS
<1>u. /\ UNCHANGED <<pc, port, stage, todo, ring, late, device, conf, granted, addressed, pending>>
      /\ hc' = HcAdvance("intr") /\ erdp' = erdp /\ HcPost("transfer", FALSE)
      /\ HcOwns("intr") /\ ~AtLink("intr")
  BY DEF HcShort
<1>1. /\ Same("cmd") /\ Same("ctrl") /\ Rings' /\ Outstanding' = Outstanding
      /\ Answers("cmd")' = Answers("cmd") /\ Answers("transfer")' = Answers("transfer") \cup {q}
      /\ \A i \in Answers("cmd") : evt'.event[i] = evt.event[i] /\ Turn(i)' = Turn(i)
      /\ q \in 0..(EvtSize - 1) /\ evt'.event[q].ok = FALSE
      /\ Pending("intr") \in Nat /\ Pending("intr") >= 1 /\ Pending("intr")' = Pending("intr") - 1
      /\ evt' \in EvtRing /\ hcEvt' \in HcPlace
      /\ DOMAIN hc' = RingNames /\ \A r \in RingNames : hc'[r] \in Consumer(Size[r])
      /\ hc'["ctrl"] = hc["ctrl"]
  <2>1. /\ \A r \in RingNames : r # "intr" => hc'[r] = hc[r]
        /\ hc'["intr"] = [hc["intr"] EXCEPT !.deq = @ + 1] /\ DOMAIN hc' = RingNames
    BY <1>u DEF HcAdvance, Types, RingNames
  <2>2. Same("cmd") /\ Same("ctrl")
    BY <1>u, <2>1, SameRing DEF RingNames
  <2>3. /\ InStep(Size["intr"], ring["intr"], hc'["intr"])
        /\ Pending("intr") \in Nat /\ Pending("intr") >= 1 /\ Pending("intr")' = Pending("intr") - 1
    BY <1>u, <2>1, RingTypes, AdvanceStep DEF RingNames, Rings
  <2>4. /\ EventsInStep' /\ evt' \in EvtRing /\ hcEvt' \in HcPlace
        /\ q \in 0..(EvtSize - 1) /\ Answers("transfer")' = Answers("transfer") \cup {q}
        /\ evt'.event[q].ok = FALSE
        /\ \A t : t # "transfer" => Answers(t)' = Answers(t)
        /\ \A t : \A i \in Answers(t) : evt'.event[i] = evt.event[i] /\ Turn(i)' = Turn(i)
    BY <1>q, <1>u, PostStep
  <2>5. Rings'
    BY <1>u, <2>1, <2>3, <2>4, RingTypes DEF Rings, RingNames
  <2>6. \A r \in RingNames : hc[r] \in Consumer(Size[r])
    BY RingTypes DEF RingNames
  <2>7. hc'["intr"] \in Consumer(Size["intr"])
    <3>1. hc["intr"].deq + 1 \in 0..(Size["intr"] - 1)
      BY <1>u, <2>6, XhciAssumption, RingTypes, SMT DEF AtLink, Consumer, RingNames
    <3> QED
      BY <2>1, <2>6, <3>1, Zenon DEF Consumer, RingNames
  <2> QED
    BY <2>1, <2>2, <2>3, <2>4, <2>5, <2>6, <2>7 DEF Outstanding, Same, RingNames
<1>w. /\ Using /\ pending /\ Pending("intr") = 1 /\ Answers("transfer") = {} /\ owed = <<>>
  <2>1. Using
    BY <1>u, UnusedRing, RingTypes DEF Unused, RingNames
  <2> QED
    BY <1>1, <2>1, SMT DEF OneReport
 <1>2. Types'
  <2>1. UNCHANGED <<pc, port, stage, todo, ring, ep, erdp, granted, addressed, enabled, conf, pending, late, owed, reads, device, reports, portEvents>>
    BY DEF HcShort
  <2>2. report' \in Reports /\ owed' \in Seq(Reports) /\ typed' \in Seq(Reports) /\ errors' \in Nat
    BY SMT DEF HcShort, Types, TypeOK
  <2>3. \A q_1 \in RingNames : hc'[q_1] \in [deq : 0..(Size[q_1] - 1), cycle : {0, 1}, rung : BOOLEAN]
    BY <1>1, Zenon DEF Consumer
  <2> QED
    BY <1>1, <2>1, <2>2, <2>3, Zenon DEF Types, TypeOK, Trying, Using, Stage, EvtRing, HcPlace
<1>3. OneToken'
  BY <1>0, <1>1, <1>u, SMT DEF Same, Quiet, OneToken, Holding, Asked, Success, Later, Trying, Using, Stage, Op
<1>4. Lag'
  BY <1>0, <1>1, <1>u, SMT DEF Same, Quiet, Lag, Lost, Own, Holding, Asked, Success, Later, Trying, Using, Stage, Op
<1>5. TokenLast'
  BY <1>0, <1>1, <1>u, SMT DEF Same, Quiet, TokenLast, Holding, Asked, Success, Later, Trying, Using, Stage, Op
<1>6. OnTime'
  BY <1>0, <1>1, <1>u, SMT DEF Same, Quiet, OnTime, Holding, Asked, Success, Later, Trying, Using, Stage, Op
<1>7. Unused'
  <2>1. late' \/ ~Unaddressed'
    BY <1>u, <1>w DEF Unaddressed, OneToken, Using, Trying, Holding
  <2> QED
    BY <1>u, <1>w, <2>1 DEF Unused, Using
<1>8. Request'
  BY <1>u, <1>w DEF Request, Controlling, Trying, Using
<1>9. Keyboard'
  BY <1>1, <1>u, <1>w, SMT DEF Same, Keyboard, Using, Trying
<1>10. OneReport'
  <2>1. owed' = <<>>
    BY <1>w DEF HcShort
  <2>2. Answers("transfer")' = {q} /\ Pending("intr")' = 0 /\ pending' /\ Using'
    BY <1>1, <1>u, <1>w, SMT DEF Using
  <2> QED
    BY <1>1, <2>1, <2>2 DEF OneReport
<1> QED
  BY <1>1, <1>2, <1>3, <1>4, <1>5, <1>6, <1>7, <1>8, <1>9, <1>10

\* How much of the request has been written.
LEMMA SentFacts ==
  ASSUME Types, Trying
  PROVE  /\ Sent \in Nat /\ Len(Entries(Stage)) \in 1..3 /\ Sent <= Len(Entries(Stage))
         /\ Len(todo) \in Nat /\ Sent = Len(Entries(Stage)) - Len(todo)
         /\ (todo = <<>> <=> Sent = Len(Entries(Stage)))
<1>1. stage \in 1..8 /\ todo \in Todos(Stages[stage])
  BY RingTypes DEF Types, Stage
<1>2. /\ Len(todo) \in 0..Len(Entries(Stages[stage])) /\ (todo = <<>> <=> Len(todo) = 0)
      /\ Len(Entries(Stages[stage])) \in 1..3
  BY <1>1, TodoFacts, EntryFacts
<1> QED
  BY <1>2, SMT DEF Sent, Stage

LEMMA HcStallInv ==
  ASSUME XhciInv, HcStall
  PROVE  XhciInv'
<1> USE DEF XhciInv
<1>0. /\ stage \in 1..8 /\ port \in Nat /\ (Trying \/ Using => port \in Ports)
      /\ Outstanding \in Nat /\ (Outstanding = 0 => Answers("cmd") = {} /\ Fly("cmd") = {})
      /\ (Using => ~late)
  BY Basics
<1>q. PICK q, d : q = hcEvt.enq /\ d = hc["ctrl"].deq
  OBVIOUS
<1>u. /\ UNCHANGED <<pc, port, stage, todo, ring, late, device, granted, addressed, pending, owed, report, erdp>>
      /\ HcOwns("ctrl") /\ ~AtLink("ctrl")
  BY DEF HcStall, world
<1>h. hc' = [hc EXCEPT !["ctrl"] = [hc["ctrl"] EXCEPT !.rung = FALSE]]
  BY DEF HcStall, HcAdvance
<1>1. /\ Same("cmd") /\ Same("intr") /\ Rings' /\ Outstanding' = Outstanding
      /\ Answers("cmd")' = Answers("cmd")
      /\ \A i \in Answers("cmd") : evt'.event[i] = evt.event[i] /\ Turn(i)' = Turn(i)
      /\ evt' \in EvtRing /\ hcEvt' \in HcPlace
      /\ DOMAIN hc' = RingNames /\ \A r \in RingNames : hc'[r] \in Consumer(Size[r])
      /\ hc'["intr"] = hc["intr"]
  <2>1. /\ \A r \in RingNames : r # "ctrl" => hc'[r] = hc[r]
        /\ hc'["ctrl"] = [hc["ctrl"] EXCEPT !.rung = FALSE] /\ DOMAIN hc' = RingNames
    BY <1>h DEF Types, RingNames
  <2>2. Same("cmd") /\ Same("intr")
    BY <1>u, <2>1, SameRing DEF RingNames
  <2>3. ~late => InStep(Size["ctrl"], ring["ctrl"], hc'["ctrl"])
    <3>1. hc["ctrl"] \in Consumer(CtrlSize)
      BY RingTypes
    <3>2. hc'["ctrl"].deq = hc["ctrl"].deq /\ hc'["ctrl"].cycle = hc["ctrl"].cycle
      BY <2>1, <3>1, Zenon DEF Consumer
    <3> QED
      BY <3>2, RungInStep, RingTypes DEF Rings
  <2>4. /\ EventsInStep' /\ evt' \in EvtRing /\ hcEvt' \in HcPlace
        /\ \A t : t # "transfer" => Answers(t)' = Answers(t)
        /\ \A t : \A i \in Answers(t) : evt'.event[i] = evt.event[i] /\ Turn(i)' = Turn(i)
    <3>1. HcPost("transfer", FALSE)
      BY DEF HcStall
    <3> QED
      BY <1>q, <1>u, <3>1, PostStep
  <2>5. Rings'
    BY <1>u, <2>1, <2>3, <2>4, RingTypes DEF Rings, RingNames
  <2>6. \A r \in RingNames : hc[r] \in Consumer(Size[r])
    BY RingTypes DEF RingNames
  <2>7. hc'["ctrl"] \in Consumer(Size["ctrl"])
    BY <2>1, <2>6, Zenon DEF Consumer, RingNames
  <2> QED
    BY <2>1, <2>2, <2>4, <2>5, <2>6, <2>7 DEF Outstanding, Same, RingNames
<1>w. ~late => /\ Pending("ctrl") \in Nat /\ Pending("ctrl") >= 1 /\ ~Unaddressed /\ ~Using
               /\ (Trying => stage # 8) /\ (Controlling => Consumed < Sent)
               /\ d \in Fly("ctrl") /\ Ahead("ctrl", d) = 0
  <2> SUFFICES ASSUME ~late PROVE /\ Pending("ctrl") \in Nat /\ Pending("ctrl") >= 1 /\ ~Unaddressed /\ ~Using
               /\ (Trying => stage # 8) /\ (Controlling => Consumed < Sent)
               /\ d \in Fly("ctrl") /\ Ahead("ctrl", d) = 0
    OBVIOUS
  <2>1. /\ Pending("ctrl") \in Nat /\ Pending("ctrl") >= 1
        /\ d \in Fly("ctrl") /\ Ahead("ctrl", d) = 0
    <3>1. /\ CtrlSize \in Nat /\ CtrlSize >= 3 /\ Size["ctrl"] = CtrlSize
          /\ ring["ctrl"] \in Ring(CtrlSize) /\ hc["ctrl"] \in Consumer(CtrlSize)
          /\ InStep(CtrlSize, ring["ctrl"], hc["ctrl"])
          /\ ring["ctrl"].trb[hc["ctrl"].deq].cycle = hc["ctrl"].cycle /\ hc["ctrl"].deq # CtrlSize - 1
      BY <1>u, RingTypes, XhciAssumption, SMT DEF Rings, HcOwns, AtLink
    <3>2. Count(CtrlSize, ring["ctrl"], hc["ctrl"]) \in Nat
      BY <3>1, CountBounds, SMT
    <3> QED
      BY <1>q, <3>1, <3>2, ReadFlies DEF Pending, Fly, Ahead
  <2>2. ~Unaddressed
    BY <1>u, UnusedRing, RingTypes DEF Unused, RingNames
  <2>3. ~Using /\ (Trying => stage # 8)
    BY <2>1, SMT DEF Keyboard
  <2>4. Controlling => Sent \in Nat /\ Sent - Pending("ctrl") < Sent
    BY <2>1, SentFacts, SMT DEF Controlling
  <2> QED
    BY <2>1, <2>2, <2>3, <2>4 DEF Consumed
 <1>2. Types'
  <2>1. UNCHANGED <<pc, port, stage, todo, ring, erdp, granted, addressed, enabled, conf, pending, late, report, typed, owed, reads, device, reports, errors, portEvents>>
    BY DEF HcStall, world
  <2>2. conf' \in {"garbage", "none", "keyboard", "other"}
    <3>1. addressed # 0 => device[addressed] \in {"none", "keyboard", "other"}
      BY XhciAssumption, SMT DEF Types, TypeOK, Ports
    <3> QED
      BY <3>1 DEF HcStall, Types, TypeOK
  <2>3. \A r \in RingNames : hc'[r] \in [deq : 0..(Size[r] - 1), cycle : {0, 1}, rung : BOOLEAN]
    BY <1>1, Zenon DEF Consumer
  <2>4. ep' \in EpStates
    BY Zenon DEF HcStall, Types, TypeOK, EpStates, RingNames
  <2> QED
    BY <1>1, <2>1, <2>2, <2>3, <2>4, Zenon DEF Types, TypeOK, Trying, Using, Stage, EvtRing, HcPlace, EpStates
<1>3. OneToken'
  BY <1>0, <1>1, <1>u, SMT DEF Same, Quiet, OneToken, Holding, Asked, Success, Later, Trying, Using, Stage, Op
<1>4. Lag'
  BY <1>0, <1>1, <1>u, SMT DEF Same, Quiet, Lag, Lost, Own, Holding, Asked, Success, Later, Trying, Using, Stage, Op
<1>5. TokenLast'
  BY <1>0, <1>1, <1>u, SMT DEF Same, Quiet, TokenLast, Holding, Asked, Success, Later, Trying, Using, Stage, Op
<1>6. OnTime'
  BY <1>0, <1>1, <1>u, SMT DEF Same, Quiet, OnTime, Holding, Asked, Success, Later, Trying, Using, Stage, Op
<1>7. Unused'
  <2>1. late' \/ ~Unaddressed'
    BY <1>1, <1>u, <1>w, Zenon DEF Unaddressed, Trying, Success
  <2> QED
    BY <1>1, <1>u, <2>1 DEF Unused, Using
<1>8. Request'
  <2> SUFFICES ASSUME ~late, Controlling PROVE Request'
    BY <1>u DEF Request, Controlling, Trying, Stage
  <2>1. HcPost("transfer", FALSE) /\ conf' = conf
    BY DEF HcStall
  <2>2. /\ Answers("transfer")' = Answers("transfer") \cup {q} /\ evt'.event[q].ok = FALSE
        /\ \A i \in Answers("transfer") : evt'.event[i] = evt.event[i]
    BY <1>q, <1>u, <2>1, PostStep
  <2>3. hc["ctrl"] \in Consumer(CtrlSize)
    BY RingTypes
  <2>4. hc'["ctrl"].deq = hc["ctrl"].deq /\ hc'["ctrl"].cycle = hc["ctrl"].cycle
    BY <1>h, <2>3, Zenon DEF Types, RingNames, Consumer
  <2>5. Pending("ctrl")' = Pending("ctrl") /\ Fly("ctrl")' = Fly("ctrl") /\ \A i : Ahead("ctrl", i)' = Ahead("ctrl", i)
    BY <1>u, <2>4, RungInStep, RingTypes DEF Pending, Fly, Ahead
  <2>6. Sent' = Sent /\ Consumed' = Consumed /\ Stage' = Stage /\ Sent # 0 /\ Consumed < Sent
    <3>1. Sent \in Nat /\ Sent - Pending("ctrl") = Consumed
      BY SentFacts DEF Controlling, Consumed
    <3>2. Pending("ctrl") <= Sent
      BY DEF Request
    <3>3. Sent # 0 /\ Consumed < Sent
      BY <1>w, <3>1, <3>2, SMT
    <3> QED
      BY <1>u, <2>5, <3>3 DEF Sent, Consumed, Stage
  <2>7. Sent <= Len(Entries(Stage)) /\ Sent \in Nat /\ Len(Entries(Stage)) \in Nat /\ Consumed \in Int
    <3>1. Consumed = Sent - Pending("ctrl")
      BY DEF Consumed
    <3> QED
      BY <3>1, <1>w, SentFacts, SMT DEF Controlling
  <2>8. \A i \in Answers("transfer") : ~evt.event[i].ok
    BY <2>6, <2>7, SMT DEF Request
  <2>9. /\ Pending("ctrl") <= Sent
        /\ \A i \in Fly("ctrl") : Op("ctrl", i) = Entries(Stage)[Consumed + Ahead("ctrl", i) + 1]
        /\ Stage = "full" /\ Consumed >= 2 => conf = device[port]
    BY DEF Request
  <2>10. \A i \in Answers("transfer")' : ~evt'.event[i].ok
    BY <2>2, <2>8
  <2> QED
    BY <1>u, <2>1, <2>5, <2>6, <2>9, <2>10 DEF Request, Op
<1>9. Keyboard'
  BY <1>1, <1>u, <1>w, SMT DEF Same, Keyboard, Using, Trying, Lag
<1>10. OneReport'
  BY <1>1, <1>u, <1>w, SMT DEF Same, OneReport, Using, Lag
<1> QED
  BY <1>1, <1>2, <1>3, <1>4, <1>5, <1>6, <1>7, <1>8, <1>9, <1>10

LEMMA HcControlInv ==
  ASSUME XhciInv, HcControl
  PROVE  XhciInv'
<1> USE DEF XhciInv
<1>0. /\ stage \in 1..8 /\ port \in Nat /\ (Trying \/ Using => port \in Ports)
      /\ Outstanding \in Nat /\ (Outstanding = 0 => Answers("cmd") = {} /\ Fly("cmd") = {})
      /\ (Using => ~late)
  BY Basics
<1>q. PICK q, d : q = hcEvt.enq /\ d = hc["ctrl"].deq
  OBVIOUS
<1>u. /\ UNCHANGED <<pc, port, stage, todo, ring, late, device, granted, addressed, pending, owed, report, erdp>>
      /\ HcOwns("ctrl") /\ ~AtLink("ctrl")
  BY DEF HcControl, world
<1>h. hc' = [hc EXCEPT !["ctrl"] = [hc["ctrl"] EXCEPT !.deq = @ + 1]]
  BY DEF HcControl, HcAdvance
<1>1. /\ Same("cmd") /\ Same("intr") /\ Rings' /\ Outstanding' = Outstanding
      /\ Answers("cmd")' = Answers("cmd")
      /\ \A i \in Answers("cmd") : evt'.event[i] = evt.event[i] /\ Turn(i)' = Turn(i)
      /\ evt' \in EvtRing /\ hcEvt' \in HcPlace
      /\ DOMAIN hc' = RingNames /\ \A r \in RingNames : hc'[r] \in Consumer(Size[r])
      /\ hc'["intr"] = hc["intr"]
  <2>1. /\ \A r \in RingNames : r # "ctrl" => hc'[r] = hc[r]
        /\ hc'["ctrl"] = [hc["ctrl"] EXCEPT !.deq = @ + 1] /\ DOMAIN hc' = RingNames
    BY <1>h DEF Types, RingNames
  <2>2. Same("cmd") /\ Same("intr")
    BY <1>u, <2>1, SameRing DEF RingNames
  <2>3. ~late => InStep(Size["ctrl"], ring["ctrl"], hc'["ctrl"])
    BY <1>u, <2>1, RingTypes, AdvanceStep DEF Rings, RingNames
  <2>4. /\ EventsInStep' /\ evt' \in EvtRing /\ hcEvt' \in HcPlace
        /\ \A t : t # "transfer" => Answers(t)' = Answers(t)
        /\ \A t : \A i \in Answers(t) : evt'.event[i] = evt.event[i] /\ Turn(i)' = Turn(i)
    <3>1. CASE HcEntry("ctrl").op = "status"
      <4>1. HcPost("transfer", TRUE)
        BY <3>1 DEF HcControl
      <4> QED
        BY <1>q, <1>u, <4>1, PostStep
    <3>2. CASE HcEntry("ctrl").op # "status"
      <4>1. UNCHANGED <<evt, hcEvt, erdp>>
        BY <3>2 DEF HcControl
      <4> QED
        BY <4>1, RingTypes, QuietEvents DEF Rings, Quiet
    <3> QED
      BY <3>1, <3>2
  <2>5. Rings'
    BY <1>u, <2>1, <2>3, <2>4, RingTypes DEF Rings, RingNames
  <2>6. \A r \in RingNames : hc[r] \in Consumer(Size[r])
    BY RingTypes DEF RingNames
  <2>7. hc'["ctrl"] \in Consumer(Size["ctrl"])
    <3>1. hc["ctrl"].deq + 1 \in 0..(Size["ctrl"] - 1)
      BY <1>u, <2>6, XhciAssumption, RingTypes, SMT DEF AtLink, Consumer, RingNames
    <3> QED
      BY <2>1, <2>6, <3>1, Zenon DEF Consumer, RingNames
  <2> QED
    BY <2>1, <2>2, <2>4, <2>5, <2>6, <2>7 DEF Outstanding, Same, RingNames
<1>w. ~late => /\ Pending("ctrl") \in Nat /\ Pending("ctrl") >= 1 /\ ~Unaddressed /\ ~Using
               /\ (Trying => stage # 8) /\ (Controlling => Consumed < Sent)
               /\ d \in Fly("ctrl") /\ Ahead("ctrl", d) = 0
  <2> SUFFICES ASSUME ~late PROVE /\ Pending("ctrl") \in Nat /\ Pending("ctrl") >= 1 /\ ~Unaddressed /\ ~Using
               /\ (Trying => stage # 8) /\ (Controlling => Consumed < Sent)
               /\ d \in Fly("ctrl") /\ Ahead("ctrl", d) = 0
    OBVIOUS
  <2>1. /\ Pending("ctrl") \in Nat /\ Pending("ctrl") >= 1
        /\ d \in Fly("ctrl") /\ Ahead("ctrl", d) = 0
    <3>1. /\ CtrlSize \in Nat /\ CtrlSize >= 3 /\ Size["ctrl"] = CtrlSize
          /\ ring["ctrl"] \in Ring(CtrlSize) /\ hc["ctrl"] \in Consumer(CtrlSize)
          /\ InStep(CtrlSize, ring["ctrl"], hc["ctrl"])
          /\ ring["ctrl"].trb[hc["ctrl"].deq].cycle = hc["ctrl"].cycle /\ hc["ctrl"].deq # CtrlSize - 1
      BY <1>u, RingTypes, XhciAssumption, SMT DEF Rings, HcOwns, AtLink
    <3>2. Count(CtrlSize, ring["ctrl"], hc["ctrl"]) \in Nat
      BY <3>1, CountBounds, SMT
    <3> QED
      BY <1>q, <3>1, <3>2, ReadFlies DEF Pending, Fly, Ahead
  <2>2. ~Unaddressed
    BY <1>u, UnusedRing, RingTypes DEF Unused, RingNames
  <2>3. ~Using /\ (Trying => stage # 8)
    BY <2>1, SMT DEF Keyboard
  <2>4. Controlling => Sent \in Nat /\ Sent - Pending("ctrl") < Sent
    BY <2>1, SentFacts, SMT DEF Controlling
  <2> QED
    BY <2>1, <2>2, <2>3, <2>4 DEF Consumed
 <1>2. Types'
  <2>1. UNCHANGED <<pc, port, stage, todo, ring, ep, erdp, granted, addressed, enabled, pending, late, report, typed, owed, reads, device, reports, errors, portEvents>>
    BY DEF HcControl, world
  <2>2. conf' \in {"garbage", "none", "keyboard", "other"}
    <3>1. addressed # 0 => device[addressed] \in {"none", "keyboard", "other"}
      BY XhciAssumption, SMT DEF Types, TypeOK, Ports
    <3> QED
      BY <3>1 DEF HcControl, Types, TypeOK
  <2>3. \A r \in RingNames : hc'[r] \in [deq : 0..(Size[r] - 1), cycle : {0, 1}, rung : BOOLEAN]
    BY <1>1, Zenon DEF Consumer
  <2> QED
    BY <1>1, <2>1, <2>2, <2>3, Zenon DEF Types, TypeOK, Trying, Using, Stage, EvtRing, HcPlace
<1>3. OneToken'
  BY <1>0, <1>1, <1>u, SMT DEF Same, Quiet, OneToken, Holding, Asked, Success, Later, Trying, Using, Stage, Op
<1>4. Lag'
  BY <1>0, <1>1, <1>u, SMT DEF Same, Quiet, Lag, Lost, Own, Holding, Asked, Success, Later, Trying, Using, Stage, Op
<1>5. TokenLast'
  BY <1>0, <1>1, <1>u, SMT DEF Same, Quiet, TokenLast, Holding, Asked, Success, Later, Trying, Using, Stage, Op
<1>6. OnTime'
  BY <1>0, <1>1, <1>u, SMT DEF Same, Quiet, OnTime, Holding, Asked, Success, Later, Trying, Using, Stage, Op
<1>7. Unused'
  <2>1. late' \/ ~Unaddressed'
    BY <1>1, <1>u, <1>w, Zenon DEF Unaddressed, Trying, Success
  <2> QED
    BY <1>1, <1>u, <2>1 DEF Unused, Using
<1>8. Request'
  <2> SUFFICES ASSUME ~late, Controlling PROVE Request'
    BY <1>u DEF Request, Controlling, Trying, Stage
  <2> DEFINE op == HcEntry("ctrl").op
             len == Len(Entries(Stage))
  <2>1. /\ IF op = "status" THEN HcPost("transfer", TRUE) ELSE UNCHANGED <<evt, hcEvt>>
        /\ conf' = IF op = "data" /\ addressed # 0 THEN device[addressed] ELSE conf
    BY DEF HcControl
  <2>2. /\ Pending("ctrl") <= Sent
        /\ \A i \in Fly("ctrl") : Op("ctrl", i) = Entries(Stage)[Consumed + Ahead("ctrl", i) + 1]
        /\ \A i \in Answers("transfer") : evt.event[i].ok => Consumed = len
        /\ Stage = "full" /\ Consumed >= 2 => conf = device[port]
    BY DEF Request
  <2>3. /\ Sent \in Nat /\ len \in 1..3 /\ Sent <= len /\ Pending("ctrl") \in Nat
        /\ Consumed \in Nat /\ Consumed < Sent /\ Consumed + 1 <= len
    <3>1. Consumed = Sent - Pending("ctrl")
      BY DEF Consumed
    <3> QED
      BY <1>w, <2>2, <3>1, SentFacts, SMT DEF Controlling
  <2>4. op = Entries(Stage)[Consumed + 1]
    <3>1. op = Op("ctrl", d)
      BY <1>q DEF HcEntry, Op
    <3>2. Op("ctrl", d) = Entries(Stage)[Consumed + 0 + 1]
      BY <1>w, <2>2
    <3> QED
      BY <2>3, <3>1, <3>2
  <2>5. op = "status" <=> Consumed + 1 = len
    BY <1>0, <2>3, <2>4, EntryFacts DEF Controlling, Stage
  <2>6. \A i \in Answers("transfer") : ~evt.event[i].ok
    BY <2>2, <2>3, SMT
  <2>7. /\ Pending("ctrl")' = Pending("ctrl") - 1
        /\ Fly("ctrl")' \subseteq Fly("ctrl")
        /\ \A i \in Fly("ctrl")' : Ahead("ctrl", i)' = Ahead("ctrl", i) - 1 /\ Ahead("ctrl", i) \in Nat
    <3>1. hc'["ctrl"] = [hc["ctrl"] EXCEPT !.deq = @ + 1] /\ InStep(Size["ctrl"], ring["ctrl"], hc["ctrl"]) /\ "ctrl" \in RingNames
      BY <1>h, RingTypes DEF Types, RingNames, Rings
    <3>2. /\ Pending("ctrl")' = Pending("ctrl") - 1
          /\ Fly("ctrl")' \subseteq Fly("ctrl")
          /\ \A i \in Fly("ctrl")' : Ahead("ctrl", i)' = Ahead("ctrl", i) - 1
      BY <1>u, <3>1, AdvanceStep
    <3>3. \A i \in Fly("ctrl") : Ahead("ctrl", i) \in Nat
      BY <3>1, RingTypes, CountBounds, XhciAssumption, SMT DEF Fly, Ahead
    <3> QED
      BY <3>2, <3>3
  <2>8. Stage' = Stage /\ Sent' = Sent /\ Consumed' = Consumed + 1 /\ len' = len
    <3>1. Stage' = Stage /\ Sent' = Sent /\ len' = len
      BY <1>u DEF Stage, Sent
    <3>2. Consumed = Sent - Pending("ctrl") /\ Consumed' = Sent - (Pending("ctrl") - 1)
      BY <2>7, <3>1 DEF Consumed
    <3> QED
      BY <2>3, <3>1, <3>2, SMT
  <2>9. \A i \in Fly("ctrl")' : Op("ctrl", i)' = Entries(Stage)'[Consumed' + Ahead("ctrl", i)' + 1]
    <3> SUFFICES ASSUME NEW i \in Fly("ctrl")'
                 PROVE  Op("ctrl", i)' = Entries(Stage)[Consumed' + Ahead("ctrl", i)' + 1]
      BY <2>8
    <3>1. Op("ctrl", i)' = Op("ctrl", i) /\ Op("ctrl", i) = Entries(Stage)[Consumed + Ahead("ctrl", i) + 1]
      BY <1>u, <2>2, <2>7 DEF Op
    <3>2. Consumed' + Ahead("ctrl", i)' + 1 = Consumed + Ahead("ctrl", i) + 1
      BY <2>3, <2>7, <2>8, SMT
    <3> QED
      BY <3>1, <3>2
  <2>10. ASSUME NEW i \in Answers("transfer")', evt'.event[i].ok
         PROVE  Consumed' = len /\ \A j \in Answers("transfer")' : Turn(j)' <= Turn(i)'
    <3>1. CASE op = "status"
      <4>1. /\ Answers("transfer")' = Answers("transfer") \cup {q}
            /\ \A j \in Answers("transfer") : evt'.event[j] = evt.event[j] /\ Turn(j)' <= Turn(q)'
        BY <1>q, <1>u, <2>1, <3>1, PostStep
      <4>2. i = q
        BY <2>6, <2>10, <4>1
      <4>3. Turn(q)' <= Turn(q)'
        <5>1. evt' \in EvtRing /\ q \in 0..(EvtSize - 1)
          BY <1>q, <1>u, <2>1, <3>1, PostStep
        <5>2. Turn(q)' \in Int
          BY <5>1, XhciAssumption, SMT DEF Turn, EvtRing
        <5> QED
          BY <5>2, SMT
      <4> QED
        BY <2>5, <2>8, <3>1, <4>1, <4>2, <4>3
    <3>2. CASE op # "status"
      BY <2>1, <2>6, <2>10, <3>2, <1>u, QuietEvents DEF Quiet
    <3> QED
      BY <3>1, <3>2
  <2>11. Stage = "full" /\ Consumed' >= 2 => conf' = device[port]
    <3> SUFFICES ASSUME Stage = "full", Consumed + 1 >= 2 PROVE conf' = device[port]
      BY <2>8
    <3>1. addressed = port /\ port # 0
      BY <1>0, StageFacts, SMT DEF OnTime, Controlling, Stage, Ports
    <3>2. stage = 4
      BY <1>0, StageFacts DEF Stage
    <3>3. Entries(Stage) = <<"setup", "data", "status">> /\ len = 3
      BY <3>2, EntryFacts DEF Stage
    <3>4. CASE Consumed = 1
      <4>1. op = "data"
        BY <2>4, <3>3, <3>4, SMT
      <4> QED
        BY <2>1, <3>1, <4>1
    <3>5. CASE Consumed # 1
      <4>1. Consumed >= 2
        BY <2>3, <3>5, SMT
      <4>2. op = "status"
        <5>1. len = 3 /\ len \in Nat
          BY <3>3
        <5> HIDE DEF op, len
        <5>2. Consumed + 1 = len
          BY <2>3, <4>1, <5>1, SMT
        <5> QED
          BY <2>5, <5>2
      <4> QED
        BY <2>1, <2>2, <4>1, <4>2
    <3> QED
      BY <3>4, <3>5
  <2>12. Pending("ctrl")' <= Sent' /\ Sent' # 0
    BY <2>2, <2>3, <2>7, <2>8, <1>w, SMT
  <2> QED
    BY <1>u, <2>8, <2>9, <2>10, <2>11, <2>12 DEF Request
<1>9. Keyboard'
  BY <1>1, <1>u, <1>w, SMT DEF Same, Keyboard, Using, Trying, Lag
<1>10. OneReport'
  BY <1>1, <1>u, <1>w, SMT DEF Same, OneReport, Using, Lag
<1> QED
  BY <1>1, <1>2, <1>3, <1>4, <1>5, <1>6, <1>7, <1>8, <1>9, <1>10

LEMMA HcCommandInv ==
  ASSUME XhciInv, HcCommand
  PROVE  XhciInv'
<1> USE DEF XhciInv
<1>0. /\ stage \in 1..8 /\ port \in Nat /\ (Trying \/ Using => port \in Ports)
      /\ Outstanding \in Nat /\ (Outstanding = 0 => Answers("cmd") = {} /\ Fly("cmd") = {})
      /\ (Using => ~late)
  BY Basics
<1>q. PICK q, d : q = hcEvt.enq /\ d = hc["cmd"].deq
  OBVIOUS
<1>u. /\ UNCHANGED <<pc, port, stage, todo, ring, late, device, conf, pending, owed, report, erdp>>
      /\ HcOwns("cmd") /\ ~AtLink("cmd")
  BY DEF HcCommand, world
<1> DEFINE op == HcEntry("cmd").op
<1>c. PICK ok \in BOOLEAN :
        /\ ok => op # "enable" \/ granted = 0
        /\ HcPost("cmd", ok)
        /\ granted' = IF op = "enable" /\ ok THEN granted + 1 ELSE granted
        /\ addressed' = IF op = "address" /\ ok THEN HcEntry("cmd").port ELSE addressed
        /\ hc' = [r \in RingNames |-> IF r \in (IF ok THEN HandedOver(op) ELSE {})
                                       THEN Idle0 ELSE HcAdvance("cmd")[r]]
        /\ ep' \in EpStates
  <2>1. granted < SlotsEnabled => granted = 0
    BY SMT DEF SlotsEnabled, Types, TypeOK
  <2>2. ASSUME NEW given
        PROVE  [r \in RingNames |-> IF r \in given THEN EpContext ELSE ep[r]] \in EpStates
    BY Zenon DEF EpContext, EpStates, Types, TypeOK
  <2>3. PICK ok \in {FALSE, op # "enable" \/ granted < SlotsEnabled} :
          /\ HcPost("cmd", ok)
          /\ granted' = IF op = "enable" /\ ok THEN granted + 1 ELSE granted
          /\ addressed' = IF op = "address" /\ ok THEN HcEntry("cmd").port ELSE addressed
          /\ ep' = [r \in RingNames |-> IF r \in (IF ok THEN HandedOver(op) ELSE {}) THEN EpContext ELSE ep[r]]
          /\ hc' = [r \in RingNames |-> IF r \in (IF ok THEN HandedOver(op) ELSE {})
                                         THEN [deq |-> 0, cycle |-> 1, rung |-> FALSE] ELSE HcAdvance("cmd")[r]]
    BY Zenon DEF HcCommand
  <2>4. ok \in BOOLEAN /\ (ok => op # "enable" \/ granted = 0)
    BY <2>1, <2>3, Zenon
  <2>5. ep' \in EpStates
    BY <2>2, <2>3, Zenon
  <2> QED
    BY <2>3, <2>4, <2>5, Zenon DEF Idle0
<1>o. /\ op = Op("cmd", d) /\ HcEntry("cmd").port = ring["cmd"].trb[d].port
      /\ op \in Commands \cup {"none", "setup", "data", "status", "normal"} /\ HcEntry("cmd").port \in 0..NPorts
  <2>1. HcEntry("cmd") \in Trbs
    BY RingTypes, XhciAssumption, SMT DEF HcEntry, Ring, Consumer
  <2> QED
    BY <1>q, <2>1 DEF HcEntry, Op, Trbs
<1> HIDE DEF op
<1>a. /\ hc'["cmd"] = [hc["cmd"] EXCEPT !.deq = @ + 1] /\ DOMAIN hc' = RingNames
      /\ hc'["ctrl"] = IF op = "address" /\ ok THEN Idle0 ELSE hc["ctrl"]
      /\ hc'["intr"] = IF op = "configure" /\ ok THEN Idle0 ELSE hc["intr"]
  BY <1>c DEF HcAdvance, Types, RingNames, HandedOver
<1>f. /\ InStep(Size["cmd"], ring["cmd"], hc'["cmd"])
      /\ Pending("cmd") \in Nat /\ Pending("cmd") >= 1 /\ Pending("cmd")' = Pending("cmd") - 1
      /\ d \in Fly("cmd") /\ Fly("cmd")' = Fly("cmd") \ {d} /\ Ahead("cmd", d) = 0
      /\ \A i \in Fly("cmd")' : Ahead("cmd", i)' = Ahead("cmd", i) - 1 /\ Ahead("cmd", i) \in Nat
  <2>1. InStep(Size["cmd"], ring["cmd"], hc["cmd"]) /\ "cmd" \in RingNames
    BY RingTypes DEF Rings, RingNames
  <2>2. \A i \in Fly("cmd") : Ahead("cmd", i) \in Nat
    BY <2>1, RingTypes, CountBounds, XhciAssumption, SMT DEF Fly, Ahead
  <2> QED
    BY <1>q, <1>u, <1>a, <2>1, <2>2, AdvanceStep
<1>p. /\ EventsInStep' /\ evt' \in EvtRing /\ hcEvt' \in HcPlace
      /\ q \in 0..(EvtSize - 1)
      /\ Answers("cmd")' = Answers("cmd") \cup {q} /\ q \notin Answers("cmd")
      /\ Cardinality(Answers("cmd")') = Cardinality(Answers("cmd")) + 1
      /\ evt'.event[q].ok = ok
      /\ Answers("transfer")' = Answers("transfer")
      /\ \A i \in Answers("cmd") : /\ evt'.event[i] = evt.event[i] /\ Turn(i)' = Turn(i)
                                   /\ Turn(i)' <= Turn(q)'
  BY <1>q, <1>u, <1>c, PostStep
<1>w. /\ ~Using /\ Outstanding' = Outstanding
      /\ ~late => /\ Trying /\ op = Stage /\ HcEntry("cmd").port = port
                  /\ Answers("cmd") = {} /\ Fly("cmd") = {d} /\ Asked
  <2>1. Outstanding = Pending("cmd") + Cardinality(Answers("cmd")) /\ Cardinality(Answers("cmd")) \in Nat
    BY OutstandingFacts
  <2>2. Outstanding' = Outstanding
    BY <1>f, <1>p, <2>1, SMT DEF Outstanding
  <2>3. ~late => Own = 1 /\ Outstanding = 1
    BY <1>f, <2>1, SMT DEF Lag, Own
  <2>4. ~late => Trying /\ Asked /\ op = Stage /\ HcEntry("cmd").port = port
    BY <1>f, <1>o, <2>3 DEF Own, Asked, OnTime
  <2>5. ~late => Answers("cmd") = {}
    <3>1. ~late => Cardinality(Answers("cmd")) = 0
      BY <1>f, <2>1, <2>3, SMT
    <3> QED
      BY <3>1, AnswersFinite, FS_EmptySet
  <2>6. ~late => Pending("cmd") = 1
    BY <1>f, <2>1, <2>3, SMT
  <2>7. ~late => Fly("cmd") = {d}
    <3>1. Pending("cmd") = 1 => \A i \in Fly("cmd") : i = d
      <4> SUFFICES ASSUME Pending("cmd") = 1, NEW i \in Fly("cmd") PROVE i = d
        OBVIOUS
      <4>1. /\ CmdSize \in Nat /\ CmdSize >= 3 /\ Size["cmd"] = CmdSize
            /\ ring["cmd"] \in Ring(CmdSize) /\ hc["cmd"] \in Consumer(CmdSize)
            /\ InStep(CmdSize, ring["cmd"], hc["cmd"])
        BY RingTypes, XhciAssumption DEF Rings
      <4>2. Before(CmdSize, i, hc["cmd"]) \in 0..(Count(CmdSize, ring["cmd"], hc["cmd"]) - 1)
        BY <4>1, CountBounds DEF Fly
      <4>3. Before(CmdSize, i, hc["cmd"]) = 0 /\ i \in 0..(CmdSize - 2)
        BY <4>1, <4>2, SMT DEF Pending, Fly, Flying
      <4>4. hc["cmd"].deq \in 0..(CmdSize - 1) /\ hc["cmd"].deq # CmdSize - 1
        BY <1>u, <4>1 DEF AtLink, Consumer
      <4> QED
        BY <1>q, <4>1, <4>3, <4>4, SMT DEF Before
    <3> QED
      BY <1>f, <2>6, <3>1
  <2>8. Using => Trying
    BY <1>0, <2>4
  <2> QED
    BY <2>2, <2>4, <2>5, <2>7, <2>8 DEF Using, Trying
<1>h. /\ hc'["intr"] = hc["intr"] /\ hc'["ctrl"] \in {hc["ctrl"], Idle0}
      /\ ~late => hc'["ctrl"] = hc["ctrl"]
  <2>1. hc["intr"] = Idle0
    BY <1>w DEF Unused
  <2>2. ~late /\ op = "address" => hc["ctrl"] = Idle0
    BY <1>0, <1>w, StageFacts DEF Unused, Unaddressed, Stage
  <2> QED
    BY <1>a, <2>1, <2>2
<1>1. Same("intr") /\ (late \/ Same("ctrl")) /\ Rings'
      /\ \A r \in RingNames : hc'[r] \in [deq : 0..(Size[r] - 1), cycle : {0, 1}, rung : BOOLEAN]
  <2>1. Same("intr") /\ (late \/ Same("ctrl"))
    BY <1>u, <1>h, SameRing
  <2>2. Rings'
    BY <1>u, <1>f, <1>p, <1>h, RingTypes DEF Rings
  <2>3. hc'["cmd"] \in Consumer(Size["cmd"])
    <3>1. hc["cmd"] \in Consumer(Size["cmd"])
      BY RingTypes
    <3>2. hc["cmd"].deq + 1 \in 0..(Size["cmd"] - 1)
      BY <1>u, <3>1, XhciAssumption, RingTypes, SMT DEF AtLink, Consumer
    <3> QED
      BY <1>a, <3>1, <3>2, Zenon DEF Consumer
  <2>4. \A r \in RingNames : hc'[r] \in Consumer(Size[r])
    <3>1. Idle0 \in Consumer(Size["ctrl"])
      BY RingTypes, XhciAssumption, SMT DEF Idle0, Consumer
    <3>2. hc["intr"] \in Consumer(Size["intr"]) /\ hc["ctrl"] \in Consumer(Size["ctrl"])
      BY RingTypes
    <3> QED
      BY <1>h, <2>3, <3>1, <3>2 DEF RingNames
  <2> QED
    BY <2>1, <2>2, <2>4 DEF Consumer
<1>s. /\ Success(q)' <=> ok
      /\ \A i \in Answers("cmd") : Success(i)' <=> Success(i)
      /\ \A i \in Fly("cmd")' : Later(i)' <=> Later(i)
      /\ Later(d) <=> op # "enable"
      /\ Trying' = Trying /\ Asked' = Asked /\ Holding' = Holding /\ Using' = Using /\ Own' = Own /\ Stage' = Stage
      /\ granted' # 0 <=> granted # 0 \/ (op = "enable" /\ ok)
  <2>1. Success(q)' <=> ok
    BY <1>p DEF Success
  <2>2. \A i \in Answers("cmd") : Success(i)' <=> Success(i)
    BY <1>p DEF Success
  <2>3. (\A i \in Fly("cmd")' : Later(i)' <=> Later(i)) /\ (Later(d) <=> op # "enable")
    BY <1>u, <1>f, <1>o DEF Later, Op
  <2>4. Trying' = Trying /\ Asked' = Asked /\ Holding' = Holding /\ Using' = Using /\ Own' = Own /\ Stage' = Stage
    BY <1>u DEF Trying, Asked, Holding, Using, Own, Stage
  <2>5. granted' # 0 <=> granted # 0 \/ (op = "enable" /\ ok)
    BY <1>c, SMT DEF Types, TypeOK
  <2> QED
    BY <2>1, <2>2, <2>3, <2>4, <2>5
 <1>2. Types'
  <2>1. UNCHANGED <<pc, port, stage, todo, ring, erdp, enabled, conf, pending, late, report, typed, owed, reads, device, reports, errors, portEvents>>
    BY DEF HcCommand, world
  <2>2. granted' \in 0..SlotsEnabled /\ addressed' \in 0..NPorts
    BY <1>c, <1>o, SMT DEF Types, TypeOK, SlotsEnabled
  <2>3. DOMAIN hc' = RingNames
    BY <1>a
  <2> QED
    BY <1>1, <1>c, <1>p, <2>1, <2>2, <2>3, Zenon DEF Types, TypeOK, Trying, Using, Stage, EvtRing, HcPlace, EpStates
<1>3. OneToken'
  <2>1. \A i \in Answers("cmd")' : i = q \/ i \in Answers("cmd")
    BY <1>p
  <2>2. Fly("cmd")' \subseteq Fly("cmd") /\ d \notin Fly("cmd")'
    BY <1>f
  <2>3. ok => (op = "enable" /\ granted = 0) \/ (op # "enable" /\ Later(d))
    BY <1>c, <1>s
  <2>4. ok => /\ \A i \in Answers("cmd") : ~Success(i)
              /\ \A i \in Fly("cmd")' : ~Later(i)
              /\ ~Holding
    BY <1>f, <2>2, <2>3 DEF OneToken
  <2>5. (Trying /\ stage > 1 => granted # 0)'
    BY <1>s, <1>u DEF OneToken
  <2>6. \A i, j \in Answers("cmd")' : Success(i)' /\ Success(j)' => i = j
    BY <1>s, <2>1, <2>4 DEF OneToken
  <2>7. \A i, j \in Fly("cmd")' : Later(i)' /\ Later(j)' => i = j
    BY <1>s, <2>2 DEF OneToken
  <2>8. \A i \in Answers("cmd")', j \in Fly("cmd")' : ~(Success(i)' /\ Later(j)')
    BY <1>s, <2>1, <2>2, <2>4 DEF OneToken
  <2>9. granted' = 0 \/ Holding' => /\ granted' # 0 \/ ~Holding'
                                    /\ \A i \in Answers("cmd")' : ~Success(i)'
                                    /\ \A i \in Fly("cmd")' : ~Later(i)'
    <3> SUFFICES ASSUME granted' = 0 \/ Holding'
                 PROVE  /\ granted' # 0 \/ ~Holding'
                        /\ \A i \in Answers("cmd")' : ~Success(i)'
                        /\ \A i \in Fly("cmd")' : ~Later(i)'
      OBVIOUS
    <3>1. granted = 0 \/ Holding
      BY <1>s
    <3>2. /\ granted # 0 \/ ~Holding
          /\ \A i \in Answers("cmd") : ~Success(i)
          /\ \A i \in Fly("cmd") : ~Later(i)
      BY <3>1 DEF OneToken
    <3>3. ~ok
      BY <1>f, <1>s, <2>3, <2>4, <3>2
    <3> QED
      BY <1>s, <2>1, <2>2, <3>2, <3>3
  <2> QED
    BY <2>5, <2>6, <2>7, <2>8, <2>9 DEF OneToken
<1>4. Lag'
  <2>1. late /\ Lost => Lost'
    <3> SUFFICES ASSUME Lost PROVE Lost'
      OBVIOUS
    <3>1. granted # 0 /\ ~Holding /\ (\A i \in Answers("cmd") : ~Success(i)) /\ (\A i \in Fly("cmd") : ~Later(i))
      BY DEF Lost
    <3>2. ~ok
      BY <1>c, <1>f, <1>s, <3>1
    <3> QED
      BY <1>f, <1>p, <1>s, <3>1, <3>2 DEF Lost
  <2> QED
    BY <1>u, <1>s, <1>w, <2>1 DEF Lag
<1>5. TokenLast'
  <2> SUFFICES ASSUME Trying, stage = 2, Asked
               PROVE  /\ \A i \in Fly("cmd")' : Later(i)' => Ahead("cmd", i)' + 1 = Pending("cmd")'
                      /\ \A i \in Answers("cmd")' : Success(i)' =>
                           Pending("cmd")' = 0 /\ \A j \in Answers("cmd")' : Turn(j)' <= Turn(i)'
    BY <1>s, <1>u DEF TokenLast
  <2>1. /\ \A i \in Fly("cmd") : Later(i) => Ahead("cmd", i) + 1 = Pending("cmd")
        /\ \A i \in Answers("cmd") : ~Success(i)
    BY <1>f, SMT DEF TokenLast
  <2>2. ASSUME NEW i \in Fly("cmd")', Later(i)'
        PROVE  Ahead("cmd", i)' + 1 = Pending("cmd")'
    <3>1. Ahead("cmd", i) + 1 = Pending("cmd")
      BY <1>f, <1>s, <2>1, <2>2
    <3> QED
      BY <1>f, <3>1, SMT
  <2>3. ASSUME NEW i \in Answers("cmd")', Success(i)'
        PROVE  Pending("cmd")' = 0 /\ \A j \in Answers("cmd")' : Turn(j)' <= Turn(i)'
    <3>1. i = q /\ ok
      BY <1>p, <1>s, <2>1, <2>3
    <3>2. Later(d)
      BY <1>c, <1>s, <3>1, SMT DEF OneToken
    <3>3. 0 + 1 = Pending("cmd")
      BY <1>f, <2>1, <3>2
    <3>4. Turn(q)' \in Int
      BY <1>p, XhciAssumption, SMT DEF Turn, EvtRing
    <3> QED
      BY <1>f, <1>p, <3>1, <3>3, <3>4, SMT
  <2> QED
    BY <2>2, <2>3
<1>6. OnTime'
  <2> SUFFICES ASSUME ~late PROVE OnTime'
    BY <1>u DEF OnTime
  <2>1. Fly("cmd")' = {}
    BY <1>f, <1>w
  <2>2. Using \/ (Trying /\ (stage > 2 \/ (stage = 2 /\ \E i \in Answers("cmd")' : Success(i)'))) => addressed' = port
    <3>1. CASE stage = 2
      <4>1. op = "address"
        BY <1>0, <1>w, <3>1, StageFacts DEF Stage
      <4> QED
        BY <1>c, <1>p, <1>s, <1>w, <3>1, <4>1
    <3>2. CASE stage # 2
      <4>1. op # "address"
        BY <1>0, <1>w, <3>2, StageFacts DEF Stage
      <4> QED
        BY <1>c, <1>w, <3>2, <4>1 DEF OnTime
    <3> QED
      BY <3>1, <3>2
  <2> QED
    BY <1>u, <1>s, <2>1, <2>2 DEF OnTime
<1>7. Unused'
  <2>1. ~late /\ Unaddressed' => Unaddressed
    <3>1. ~late /\ Trying /\ stage = 1 /\ ok => granted = 0
      BY <1>0, <1>c, <1>w, StageFacts DEF Stage
    <3>2. granted' = 0 => granted = 0
      BY <1>s
    <3>3. Trying /\ stage = 1 /\ (\E i \in Answers("cmd")' : Success(i)') /\ ~ok => \E i \in Answers("cmd") : Success(i)
      BY <1>p, <1>s
    <3> QED
      BY <1>u, <1>s, <3>1, <3>2, <3>3 DEF Unaddressed
  <2> QED
    BY <1>u, <1>p, <1>h, <1>w, <2>1 DEF Unused
<1>8. Request'
  <2>1. late \/ ~Controlling
    BY <1>0, <1>w, StageFacts DEF Controlling, Asked, Stage
  <2> QED
    BY <1>u, <2>1 DEF Request, Controlling, Trying
<1>9. Keyboard'
  BY <1>1, <1>u, <1>p, <1>w DEF Same, Keyboard, Using, Trying
<1>10. OneReport'
  BY <1>u, <1>w DEF OneReport, Using
<1> QED
  BY <1>1, <1>2, <1>3, <1>4, <1>5, <1>6, <1>7, <1>8, <1>9, <1>10

\* What the entry e that the driver has just written to ring r (of n entries)
\* adds: one entry in flight, behind the others.
Written(r, n, op, p, e) ==
  /\ ring'[r] \in Ring(n) /\ InStep(n, ring'[r], hc'[r])
  /\ Pending(r) \in Nat /\ Pending(r)' = Pending(r) + 1
  /\ e \notin Fly(r) /\ Fly(r)' = Fly(r) \cup {e} /\ Ahead(r, e)' = Pending(r)
  /\ \A i \in Fly(r) : ring'[r].trb[i] = ring[r].trb[i] /\ Ahead(r, i)' = Ahead(r, i)
  /\ ring'[r].trb[e].op = op /\ ring'[r].trb[e].port = p

LEMMA PutStep ==
  ASSUME Types, NEW r \in RingNames, NEW n, Size[r] = n, InStep(n, ring[r], hc[r]), Pending(r) + 1 <= n - 2,
         NEW op, op \in Ops \cup {"normal"}, NEW p, p \in 0..NPorts,
         ring'[r] = Enqueue(ring[r], n, op, p),
         hc'[r].deq = hc[r].deq, hc'[r].cycle = hc[r].cycle, NEW e, e = ring[r].enq
  PROVE  Written(r, n, op, p, e)
<1> DEFINE x == ring[r]
           h == hc[r]
           y == ring'[r]
<1>1. n \in Nat /\ n >= 3 /\ x \in Ring(n) /\ h \in Consumer(n)
  BY RingTypes, XhciAssumption, SMT DEF RingNames
<1>2. InStep(n, x, h) /\ Count(n, x, h) + 1 <= n - 2 /\ y = Enqueue(x, n, op, p)
  BY DEF Pending
<1>3. op \in Commands \cup {"none", "setup", "data", "status", "normal"}
  BY DEF Ops, Commands
<1> HIDE DEF x, h, y
<1>4. /\ y \in Ring(n) /\ InStep(n, y, h)
      /\ Count(n, y, h) = Count(n, x, h) + 1
      /\ x.enq \notin Flying(n, x, h) /\ Flying(n, y, h) = Flying(n, x, h) \cup {x.enq}
      /\ Before(n, x.enq, h) = Count(n, x, h)
      /\ \A i \in Flying(n, x, h) : y.trb[i] = x.trb[i]
      /\ y.trb[x.enq].op = op /\ y.trb[x.enq].port = p
  <2>1. Puts(n, x, h, op, p, y)
    BY <1>1, <1>2, <1>3, EnqueueInStep
  <2> QED
    BY <2>1 DEF Puts
<1>5. Count(n, x, h) \in Nat
  BY <1>1, <1>2, CountBounds, SMT
<1>6. /\ InStep(n, y, hc'[r]) <=> InStep(n, y, h)
      /\ Count(n, y, hc'[r]) = Count(n, y, h) /\ Flying(n, y, hc'[r]) = Flying(n, y, h)
      /\ \A i : Before(n, i, hc'[r]) = Before(n, i, h)
  BY RungInStep DEF h
<1>7. /\ Pending(r) = Count(n, x, h) /\ Pending(r)' = Count(n, y, hc'[r])
      /\ Fly(r) = Flying(n, x, h) /\ Fly(r)' = Flying(n, y, hc'[r])
      /\ \A i : Ahead(r, i) = Before(n, i, h) /\ Ahead(r, i)' = Before(n, i, hc'[r])
  BY DEF Pending, Fly, Ahead, x, h, y
<1>8. x = ring[r] /\ y = ring'[r]
  BY DEF x, y
<1>9. /\ y \in Ring(n) /\ InStep(n, y, hc'[r])
      /\ Pending(r) \in Nat /\ Pending(r)' = Pending(r) + 1
      /\ e \notin Fly(r) /\ Fly(r)' = Fly(r) \cup {e} /\ Ahead(r, e)' = Pending(r)
  BY ONLY e = ring[r].enq, <1>4, <1>5, <1>6, <1>7, <1>8, Zenon
<1>10. /\ \A i \in Fly(r) : y.trb[i] = ring[r].trb[i] /\ Ahead(r, i)' = Ahead(r, i)
       /\ y.trb[e].op = op /\ y.trb[e].port = p
  BY ONLY e = ring[r].enq, <1>4, <1>6, <1>7, <1>8, Zenon
<1> QED
  BY ONLY <1>8, <1>9, <1>10, Zenon DEF Written

LEMMA SubmitCommandInv ==
  ASSUME XhciInv, FewPorts, SubmitEntry, stage \in {1, 2, 8}
  PROVE  XhciInv'
<1> USE DEF XhciInv
<1>0. /\ stage \in 1..8 /\ port \in Nat /\ (Trying \/ Using => port \in Ports)
      /\ Outstanding \in Nat /\ (Outstanding = 0 => Answers("cmd") = {} /\ Fly("cmd") = {})
      /\ (Using => ~late)
  BY Basics
<1>e. PICK e : e = ring["cmd"].enq
  OBVIOUS
<1>u. /\ UNCHANGED <<pc, port, stage, hc, late, device, evt, hcEvt, erdp, granted, addressed, pending, owed, report>>
      /\ pc = "submit" /\ todo # <<>> /\ Trying /\ ~Using /\ port \in Ports
  BY <1>0 DEF SubmitEntry, world, Trying, Using
<1>t. /\ todo' = Tail(todo) /\ todo' \in Todos(Stage) /\ Head(todo) \in Ops
      /\ Len(todo) \in Nat /\ Len(todo) >= 1 /\ Len(todo)' = Len(todo) - 1
      /\ Head(todo) = Entries(Stage)[Sent + 1] /\ Sent \in Nat
      /\ stage \in {1, 2, 8} => Head(todo) = Stage /\ todo' = <<>>
  <2>1. todo \in Todos(Stages[stage])
    BY <1>u DEF Types, Stage
  <2>2. todo' = Tail(todo)
    BY DEF SubmitEntry
  <2>3. /\ Len(todo) \in Nat /\ Len(todo) # 0 /\ Tail(todo) \in Todos(Stages[stage])
        /\ Len(Tail(todo)) = Len(todo) - 1 /\ Head(todo) \in Ops
        /\ Head(todo) = Entries(Stages[stage])[Len(Entries(Stages[stage])) - Len(todo) + 1]
        /\ stage \in {1, 2, 8} => Head(todo) = Stages[stage] /\ Tail(todo) = <<>>
    <3>1. Len(todo) \in 0..Len(Entries(Stages[stage])) /\ Len(Entries(Stages[stage])) \in 1..3
      BY <1>0, <2>1, TodoFacts, EntryFacts
    <3>2. Len(todo) \in Nat
      BY <3>1
    <3> QED
      BY <1>0, <1>u, <2>1, <3>2, TodoFacts
  <2>4. Sent \in Nat /\ Len(todo) >= 1
    BY <1>u, <2>3, SentFacts, SMT
  <2> QED
    BY <2>2, <2>3, <2>4 DEF Stage, Sent
<1>v. Quiet /\ EventsInStep'
  BY <1>u, QuietEvents DEF Rings
<1>s. /\ Stage' = Stage /\ Trying' = Trying /\ Using' = Using /\ Stage \in Commands
      /\ Asked' /\ ~Asked /\ Own' = 1 /\ Own = 0 /\ ~Holding' /\ (Holding <=> stage > 1)
      /\ RingOf(Stage) = "cmd" /\ (Stage = "address" <=> stage = 2) /\ (Stage = "enable" <=> stage = 1)
      /\ (Stage = "configure" <=> stage = 8)
  <2>1. /\ Stage \in Commands /\ RingOf(Stage) = "cmd" /\ (Stage = "address" <=> stage = 2) /\ (Stage = "enable" <=> stage = 1)
        /\ (Stage = "configure" <=> stage = 8)
    BY <1>0, StageFacts DEF Stage
  <2> QED
    BY <1>u, <1>t, <2>1 DEF Stage, Trying, Using, Asked, Own, Holding
<1>r. /\ ring'["cmd"] = Enqueue(ring["cmd"], CmdSize, Stage, port)
      /\ ring'["ctrl"] = IF stage = 2 THEN NewRing(CtrlSize) ELSE ring["ctrl"]
      /\ ring'["intr"] = ring["intr"] /\ DOMAIN ring' = RingNames
  <2>1. ring' = [Fresh(Stage, ring) EXCEPT !["cmd"] = Enqueue(@, CmdSize, Stage, port)]
    BY <1>s, <1>t, RingTypes DEF SubmitEntry, Stage
  <2>2. Fresh(Stage, ring) = IF stage = 2 THEN FreshControl(ring) ELSE IF stage = 8 THEN FreshKeyboard(ring) ELSE ring
    BY <1>0, <1>s DEF Fresh
  <2>3. stage = 8 => ring["intr"] = NewRing(IntrSize)
    BY <1>u DEF Unused
  <2> QED
    BY <2>1, <2>2, <2>3 DEF FreshControl, FreshKeyboard, Types, RingNames
<1>p. /\ ring'["cmd"] \in Ring(CmdSize) /\ InStep(CmdSize, ring'["cmd"], hc'["cmd"])
      /\ Pending("cmd") \in Nat /\ Pending("cmd")' = Pending("cmd") + 1
      /\ e \notin Fly("cmd") /\ Fly("cmd")' = Fly("cmd") \cup {e} /\ Ahead("cmd", e)' = Pending("cmd")
      /\ \A i \in Fly("cmd") : ring'["cmd"].trb[i] = ring["cmd"].trb[i] /\ Ahead("cmd", i)' = Ahead("cmd", i)
      /\ ring'["cmd"].trb[e].op = Stage /\ ring'["cmd"].trb[e].port = port
  <2>1. Pending("cmd") + 1 <= CmdSize - 2
    <3>1. Outstanding <= port - 1 /\ Pending("cmd") <= Outstanding /\ Pending("cmd") \in Nat /\ Outstanding \in Nat
      BY <1>0, <1>s, OutstandingFacts, SMT DEF Lag
    <3> QED
      BY <1>u, <3>1, XhciAssumption, SMT DEF FewPorts, Ports
  <2>2. Stage \in Ops \cup {"normal"} /\ port \in 0..NPorts
    BY <1>u, <1>s, SMT DEF Commands, Ops, Ports
  <2>3. "cmd" \in RingNames /\ Size["cmd"] = CmdSize /\ InStep(CmdSize, ring["cmd"], hc["cmd"])
    BY RingTypes DEF RingNames, Rings
  <2>4. hc'["cmd"].deq = hc["cmd"].deq /\ hc'["cmd"].cycle = hc["cmd"].cycle
    BY <1>u
  <2>5. Types /\ ring'["cmd"] = Enqueue(ring["cmd"], CmdSize, Stage, port)
    BY <1>r
  <2>6. Written("cmd", CmdSize, Stage, port, e)
    BY ONLY <1>e, <2>1, <2>2, <2>3, <2>4, <2>5, PutStep, Zenon
  <2> QED
    BY <2>6, Zenon DEF Written
<1>o. Outstanding' = Outstanding + 1 /\ Outstanding \in Nat
  BY <1>v, <1>p, OutstandingFacts, SMT DEF Outstanding, Quiet
<1>n. /\ ~late => ring'["ctrl"] = ring["ctrl"] /\ Same("ctrl")
      /\ Same("intr") /\ \A q \in RingNames : ring'[q] \in Ring(Size[q])
  <2>1. ~late /\ stage = 2 => ring["ctrl"] = NewRing(CtrlSize)
    BY <1>u DEF Unused, Unaddressed
  <2>2. NewRing(CtrlSize) \in Ring(CtrlSize)
    BY NewRingInStep, XhciAssumption, SMT
  <2>3. \A q \in RingNames : ring[q] \in Ring(Size[q])
    BY RingTypes DEF RingNames
  <2> QED
    BY <1>u, <1>r, <1>p, <2>1, <2>2, <2>3, RingTypes, SameRing DEF RingNames
<1>1. Rings' /\ DOMAIN ring' = RingNames /\ \A q \in RingNames : ring'[q] \in Ring(Size[q])
  BY <1>u, <1>r, <1>p, <1>n, <1>v DEF Rings
 <1>2. Types'
  <2>1. UNCHANGED <<pc, port, stage, hc, ep, hcEvt, evt, erdp, granted, addressed, enabled, pending, late, report, typed, owed, reads, device, reports, errors, portEvents>>
    BY DEF SubmitEntry, world
  <2>2. conf' \in {"garbage", "none", "keyboard", "other"}
    BY DEF SubmitEntry, Types, TypeOK
  <2>3. todo' \in Todos(Stage') /\ pc' = "submit" /\ port' \in Ports
    BY <1>t, <1>u, <2>1 DEF Stage
  <2>4. TypeOK'
    BY <1>1, <2>1, <2>2, Zenon DEF Types, TypeOK
  <2> QED
    BY <1>1, <2>1, <2>3, <2>4, Zenon DEF Types
<1>3. OneToken'
  <2>1. granted' = granted /\ (stage > 1 => granted # 0) /\ (stage \in {2, 8} => Holding)
    BY <1>0, <1>u, <1>s DEF OneToken
  <2>2. (\A i \in Fly("cmd") : Later(i)' <=> Later(i)) /\ (Later(e)' <=> stage # 1)
    BY <1>s, <1>p DEF Later, Op
  <2>3. \A i : Success(i)' <=> Success(i)
    BY <1>u, <1>v DEF Success, Quiet
  <2>4. stage # 1 => (\A i \in Answers("cmd") : ~Success(i)) /\ (\A i \in Fly("cmd") : ~Later(i))
    BY <2>1 DEF OneToken
  <2>5. granted = 0 => (\A i \in Answers("cmd") : ~Success(i)) /\ (\A i \in Fly("cmd") : ~Later(i)) /\ stage = 1
    BY <1>0, <1>u, <2>1, SMT DEF OneToken
  <2>6. \A i, j \in Fly("cmd")' : Later(i)' /\ Later(j)' => i = j
    BY <1>p, <2>2, <2>4 DEF OneToken
  <2>7. \A i \in Answers("cmd")', j \in Fly("cmd")' : ~(Success(i)' /\ Later(j)')
    BY <1>v, <1>p, <2>2, <2>3, <2>4 DEF OneToken, Quiet
  <2>8. \A i, j \in Answers("cmd")' : Success(i)' /\ Success(j)' => i = j
    BY <1>v, <2>3 DEF OneToken, Quiet
  <2>9. granted' = 0 \/ Holding' => /\ granted' # 0 \/ ~Holding'
                                    /\ \A i \in Answers("cmd")' : ~Success(i)'
                                    /\ \A i \in Fly("cmd")' : ~Later(i)'
    BY <1>s, <1>p, <1>v, <2>1, <2>2, <2>3, <2>5 DEF Quiet
  <2> QED
    BY <1>u, <1>s, <2>1, <2>6, <2>7, <2>8, <2>9 DEF OneToken
<1>4. Lag'
  <2>1. late => stage \in {1, 2}
    BY <1>0, <1>u, SMT DEF Lag
  <2>2. late /\ stage = 1 /\ Lost => Lost'
    <3>1. (\A i \in Fly("cmd") : Later(i)' <=> Later(i)) /\ (stage = 1 => ~Later(e)')
      BY <1>s, <1>p DEF Later, Op
    <3>2. \A i : Success(i)' <=> Success(i)
      BY <1>u, <1>v DEF Success, Quiet
    <3> QED
      BY <1>u, <1>s, <1>p, <1>v, <3>1, <3>2 DEF Lost, Quiet
  <2>3. stage = 2 => ~Lost
    BY <1>s, SMT DEF Lost
  <2>4. port \in Nat /\ Own = 0 /\ Own' = 1
    BY <1>0, <1>s
  <2>5. Outstanding <= port - 1 /\ (~late => Outstanding = 0) /\ (late => Lost \/ Outstanding >= 1)
    BY <1>o, <2>4, SMT DEF Lag
  <2>6. Outstanding' <= port - 1 + 1 /\ (~late => Outstanding' = 1) /\ (late => Lost' \/ Outstanding' >= 1 + 1)
    <3> HIDE DEF Lost
    <3> QED
      BY <1>o, <2>1, <2>2, <2>3, <2>4, <2>5, SMT
  <2>7. late' => ~Using' /\ (Trying' => stage' <= 2)
    BY <1>u, <1>s, <2>1
  <2> QED
    BY <1>u, <2>4, <2>6, <2>7 DEF Lag
<1>5. TokenLast'
  <2> SUFFICES ASSUME stage = 2
               PROVE  /\ \A i \in Fly("cmd")' : Later(i)' => Ahead("cmd", i)' + 1 = Pending("cmd")'
                      /\ \A i \in Answers("cmd")' : ~Success(i)'
    BY <1>u DEF TokenLast
  <2>1. /\ \A i \in Answers("cmd") : ~Success(i)
        /\ \A i \in Fly("cmd") : ~Later(i)
    BY <1>s, SMT DEF OneToken
  <2>2. \A i \in Fly("cmd") : Later(i)' <=> Later(i)
    BY <1>p DEF Later, Op
  <2>3. \A i : Success(i)' <=> Success(i)
    BY <1>u, <1>v DEF Success, Quiet
  <2>4. Ahead("cmd", e)' + 1 = Pending("cmd")'
    BY <1>p
  <2> QED
    BY <1>p, <1>v, <2>1, <2>2, <2>3, <2>4 DEF Quiet
<1>6. OnTime'
  <2> SUFFICES ASSUME ~late PROVE OnTime'
    BY <1>u DEF OnTime
  <2>1. Outstanding = 0
    BY <1>s DEF Lag
  <2>2. Fly("cmd")' = {e} /\ Answers("cmd")' = {}
    BY <1>0, <1>p, <1>v, <2>1 DEF Quiet
  <2>3. stage > 2 => addressed = port
    BY <1>u DEF OnTime
  <2> QED
    BY <1>u, <1>s, <1>p, <2>2, <2>3 DEF OnTime, Op
<1>7. Unused'
  <2>1. Unaddressed' => Unaddressed
    BY <1>u, <1>s, <1>v DEF Unaddressed, Success, Quiet
  <2> QED
    BY <1>u, <1>s, <1>n, <1>r, <1>v, <2>1 DEF Unused, Quiet
<1>8. Request'
  BY <1>0, <1>u DEF Request, Controlling
<1>9. Keyboard'
  BY <1>u, <1>s, <1>n, <1>v DEF Keyboard, Same, Quiet
<1>10. OneReport'
  BY <1>u, <1>s DEF OneReport
<1> QED
  BY <1>1, <1>2, <1>3, <1>4, <1>5, <1>6, <1>7, <1>8, <1>9, <1>10

LEMMA SubmitControlInv ==
  ASSUME XhciInv, SubmitEntry, stage \in 3..7
  PROVE  XhciInv'
<1> USE DEF XhciInv
<1>0. /\ stage \in 1..8 /\ port \in Nat /\ (Trying \/ Using => port \in Ports)
      /\ Outstanding \in Nat /\ (Outstanding = 0 => Answers("cmd") = {} /\ Fly("cmd") = {})
      /\ (Using => ~late)
  BY Basics
<1>e. PICK e : e = ring["ctrl"].enq
  OBVIOUS
<1>u. /\ UNCHANGED <<pc, port, stage, hc, late, device, evt, hcEvt, erdp, granted, addressed, pending, owed, report>>
      /\ pc = "submit" /\ todo # <<>> /\ Trying /\ ~Using /\ port \in Ports
  BY <1>0 DEF SubmitEntry, world, Trying, Using
<1>t. /\ todo' = Tail(todo) /\ todo' \in Todos(Stage) /\ Head(todo) \in Ops
      /\ Len(todo) \in Nat /\ Len(todo) >= 1 /\ Len(todo)' = Len(todo) - 1
      /\ Head(todo) = Entries(Stage)[Sent + 1] /\ Sent \in Nat
      /\ stage \in {1, 2, 8} => Head(todo) = Stage /\ todo' = <<>>
  <2>1. todo \in Todos(Stages[stage])
    BY <1>u DEF Types, Stage
  <2>2. todo' = Tail(todo)
    BY DEF SubmitEntry
  <2>3. /\ Len(todo) \in Nat /\ Len(todo) # 0 /\ Tail(todo) \in Todos(Stages[stage])
        /\ Len(Tail(todo)) = Len(todo) - 1 /\ Head(todo) \in Ops
        /\ Head(todo) = Entries(Stages[stage])[Len(Entries(Stages[stage])) - Len(todo) + 1]
        /\ stage \in {1, 2, 8} => Head(todo) = Stages[stage] /\ Tail(todo) = <<>>
    <3>1. Len(todo) \in 0..Len(Entries(Stages[stage])) /\ Len(Entries(Stages[stage])) \in 1..3
      BY <1>0, <2>1, TodoFacts, EntryFacts
    <3>2. Len(todo) \in Nat
      BY <3>1
    <3> QED
      BY <1>0, <1>u, <2>1, <3>2, TodoFacts
  <2>4. Sent \in Nat /\ Len(todo) >= 1
    BY <1>u, <2>3, SentFacts, SMT
  <2> QED
    BY <2>2, <2>3, <2>4 DEF Stage, Sent
<1>v. Quiet /\ EventsInStep'
  BY <1>u, QuietEvents DEF Rings
<1>s. /\ Stage' = Stage /\ Trying' = Trying /\ Using' = Using /\ Stage \notin Commands
      /\ ~Asked' /\ ~Asked /\ Own' = 0 /\ Own = 0 /\ Holding' /\ Holding
      /\ RingOf(Stage) = "ctrl" /\ ~late /\ Controlling /\ Controlling'
  <2>1. /\ Stage \notin Commands /\ RingOf(Stage) = "ctrl"
    BY <1>0, StageFacts DEF Stage
  <2>2. ~late /\ stage > 1
    BY <1>0, <1>u, SMT DEF Lag
  <2> QED
    BY <1>u, <1>t, <2>1, <2>2 DEF Stage, Trying, Using, Asked, Own, Holding, Controlling
<1>r. /\ ring'["ctrl"] = Enqueue(ring["ctrl"], CtrlSize, Head(todo), port)
      /\ ring'["cmd"] = ring["cmd"]
      /\ ring'["intr"] = ring["intr"] /\ DOMAIN ring' = RingNames
  <2>1. ring' = [Fresh(Stage, ring) EXCEPT !["ctrl"] = Enqueue(@, CtrlSize, Head(todo), port)]
    BY <1>s, RingTypes DEF SubmitEntry, Stage
  <2>2. Fresh(Stage, ring) = ring
    BY <1>0, StageFacts DEF Fresh, Stage
  <2> QED
    BY <2>1, <2>2 DEF Types, RingNames
<1>p. /\ ring'["ctrl"] \in Ring(CtrlSize) /\ InStep(CtrlSize, ring'["ctrl"], hc'["ctrl"])
      /\ Pending("ctrl") \in Nat /\ Pending("ctrl")' = Pending("ctrl") + 1
      /\ e \notin Fly("ctrl") /\ Fly("ctrl")' = Fly("ctrl") \cup {e} /\ Ahead("ctrl", e)' = Pending("ctrl")
      /\ \A i \in Fly("ctrl") : ring'["ctrl"].trb[i] = ring["ctrl"].trb[i] /\ Ahead("ctrl", i)' = Ahead("ctrl", i)
      /\ ring'["ctrl"].trb[e].op = Head(todo) /\ ring'["ctrl"].trb[e].port = port
  <2>3. "ctrl" \in RingNames /\ Size["ctrl"] = CtrlSize /\ InStep(CtrlSize, ring["ctrl"], hc["ctrl"])
    BY <1>s, RingTypes DEF RingNames, Rings
  <2>1. Pending("ctrl") + 1 <= CtrlSize - 2
    <3>1. Pending("ctrl") \in Nat
      BY <2>3, RingTypes, CountBounds, XhciAssumption, SMT DEF Pending
    <3>2. Sent \in Nat /\ Sent <= 2
      <4> DEFINE a == Len(Entries(Stage))
                 b == Len(todo)
      <4>1. Sent \in Nat /\ Sent = a - b /\ a \in 1..3
        BY <1>u, SentFacts
      <4>2. b \in Nat /\ b >= 1
        BY <1>t
      <4> HIDE DEF a, b
      <4> QED
        BY <4>1, <4>2, SMT
    <3>3. Pending("ctrl") <= Sent
      BY <1>s DEF Request
    <3> QED
      BY <3>1, <3>2, <3>3, XhciAssumption, SMT
  <2>2. Head(todo) \in Ops \cup {"normal"} /\ port \in 0..NPorts
    BY <1>u, <1>t, SMT DEF Ports
  <2>4. hc'["ctrl"].deq = hc["ctrl"].deq /\ hc'["ctrl"].cycle = hc["ctrl"].cycle
    BY <1>u
  <2>5. Types /\ ring'["ctrl"] = Enqueue(ring["ctrl"], CtrlSize, Head(todo), port)
    BY <1>r
  <2>6. Written("ctrl", CtrlSize, Head(todo), port, e)
    BY ONLY <1>e, <2>1, <2>2, <2>3, <2>4, <2>5, PutStep, Zenon
  <2> QED
    BY <2>6, Zenon DEF Written
<1>n. /\ Same("cmd") /\ Same("intr") /\ \A q \in RingNames : ring'[q] \in Ring(Size[q])
  <2>3. \A q \in RingNames : ring[q] \in Ring(Size[q])
    BY RingTypes DEF RingNames
  <2> QED
    BY <1>u, <1>r, <1>p, <2>3, RingTypes, SameRing DEF RingNames
<1>1. /\ Rings' /\ DOMAIN ring' = RingNames /\ \A q \in RingNames : ring'[q] \in Ring(Size[q])
      /\ Same("cmd") /\ Same("intr") /\ Quiet /\ Outstanding' = Outstanding
  <2>1. Rings'
    BY <1>u, <1>r, <1>p, <1>n, <1>v DEF Rings
  <2> QED
    BY <1>r, <1>n, <1>v, <2>1 DEF Outstanding, Same, Quiet
 <1>2. Types'
  <2>1. UNCHANGED <<pc, port, stage, hc, ep, hcEvt, evt, erdp, granted, addressed, enabled, pending, late, report, typed, owed, reads, device, reports, errors, portEvents>>
    BY DEF SubmitEntry, world
  <2>2. conf' \in {"garbage", "none", "keyboard", "other"}
    BY DEF SubmitEntry, Types, TypeOK
  <2>3. todo' \in Todos(Stage') /\ pc' = "submit" /\ port' \in Ports
    BY <1>t, <1>u, <2>1 DEF Stage
  <2>4. TypeOK'
    BY <1>1, <2>1, <2>2, Zenon DEF Types, TypeOK
  <2> QED
    BY <1>1, <2>1, <2>3, <2>4, Zenon DEF Types
<1>3. OneToken'
  <2>1. (\A i \in Fly("cmd") : Later(i)' <=> Later(i)) /\ Fly("cmd")' = Fly("cmd")
    BY <1>1 DEF Same, Later, Op
  <2>2. (\A i : Success(i)' <=> Success(i)) /\ Answers("cmd")' = Answers("cmd")
    BY <1>1 DEF Quiet, Success
  <2> QED
    BY <1>u, <1>s, <2>1, <2>2 DEF OneToken
<1>4. Lag'
  BY <1>u, <1>s, <1>1 DEF Lag
<1>5. TokenLast'
  BY <1>u, <1>s DEF TokenLast
<1>6. OnTime'
  BY <1>u, <1>s, <1>1 DEF OnTime, Same, Op, Quiet, Success
<1>7. Unused'
  <2>1. ~Unaddressed'
    BY <1>u, <1>s, SMT DEF Unaddressed, OneToken, Holding, Using
  <2> QED
    BY <1>u, <1>r, <2>1 DEF Unused, Using
<1>8. Request'
  <2>1. /\ Pending("ctrl") <= Sent
        /\ \A i \in Fly("ctrl") : Op("ctrl", i) = Entries(Stage)[Consumed + Ahead("ctrl", i) + 1]
        /\ \A i \in Answers("transfer") : evt.event[i].ok =>
             /\ Consumed = Len(Entries(Stage))
             /\ \A j \in Answers("transfer") : Turn(j) <= Turn(i)
        /\ Stage = "full" /\ Consumed >= 2 => conf = device[port]
    BY <1>s DEF Request
  <2>2. Sent' = Sent + 1 /\ Consumed' = Consumed /\ Consumed = Sent - Pending("ctrl")
    <3>1. Sent = Len(Entries(Stage)) - Len(todo) /\ Len(Entries(Stage)) \in Nat
      BY <1>u, SentFacts
    <3>2. Sent' = Len(Entries(Stage)) - (Len(todo) - 1)
      BY <1>s, <1>t DEF Sent
    <3>3. Sent' = Sent + 1
      BY <1>t, <3>1, <3>2, SMT
    <3>4. Consumed = Sent - Pending("ctrl") /\ Consumed' = (Sent + 1) - (Pending("ctrl") + 1)
      BY <1>p, <3>3 DEF Consumed
    <3> QED
      BY <1>p, <1>t, <3>3, <3>4, SMT
  <2>3. Op("ctrl", e)' = Entries(Stage)[Consumed' + Ahead("ctrl", e)' + 1]
    <3>1. Consumed' + Ahead("ctrl", e)' + 1 = Sent + 1
      BY <1>p, <1>t, <2>2, SMT
    <3> QED
      BY <1>t, <1>p, <3>1 DEF Op
  <2>4. \A i \in Fly("ctrl")' : Op("ctrl", i)' = Entries(Stage)'[Consumed' + Ahead("ctrl", i)' + 1]
    BY <1>s, <1>p, <2>1, <2>2, <2>3 DEF Op
  <2>5. conf' = conf \/ (Stage = "full" /\ Consumed < 2)
    <3>1. SUFFICES ASSUME Stage = "full", Head(todo) = "setup" PROVE Consumed < 2
      BY DEF SubmitEntry, Stage
    <3>2. stage = 4
      BY <1>0, <3>1, StageFacts DEF Stage
    <3>3. Len(todo) = 3 /\ Len(Entries(Stages[4])) = 3
      <4>1. todo \in Todos(Stages[4])
        BY <1>u, <3>2 DEF Types, Stage
      <4>2. 4 \in 1..8 /\ todo # <<>>
        BY <1>u
      <4> QED
        BY <3>1, <4>1, <4>2, TodoFacts, EntryFacts
    <3>4. Sent = 0
      BY <3>2, <3>3, SMT DEF Sent, Stage
    <3> QED
      BY <1>p, <2>2, <3>4, SMT
  <2>6. Sent' # 0 /\ Pending("ctrl")' <= Sent'
    BY <1>t, <1>p, <2>1, <2>2, SMT
  <2>7. \A i \in Answers("transfer")' : evt'.event[i].ok =>
             /\ Consumed' = Len(Entries(Stage))
             /\ \A j \in Answers("transfer")' : Turn(j)' <= Turn(i)'
    BY <1>v, <2>1, <2>2 DEF Quiet
  <2>8. Stage = "full" /\ Consumed' >= 2 => conf' = device[port]
    BY <1>p, <1>t, <2>1, <2>2, <2>5, SMT
  <2> QED
    BY <1>u, <1>s, <2>4, <2>6, <2>7, <2>8 DEF Request
<1>9. Keyboard'
  BY <1>u, <1>s DEF Keyboard, Using
<1>10. OneReport'
  BY <1>u, <1>s DEF OneReport, Using
<1> QED
  BY <1>1, <1>2, <1>3, <1>4, <1>5, <1>6, <1>7, <1>8, <1>9, <1>10

LEMMA AnswerGivesUp ==
  ASSUME XhciInv, Answered, NextPort
  PROVE  XhciInv'
<1> USE DEF XhciInv
<1>0. /\ stage \in 1..8 /\ port \in Nat /\ (Trying \/ Using => port \in Ports)
      /\ Outstanding \in Nat /\ (Outstanding = 0 => Answers("cmd") = {} /\ Fly("cmd") = {})
      /\ (Using => ~late)
  BY Basics
<1>d. PICK d, t : d = evt.deq /\ t = NextEvent.type
  OBVIOUS
<1>u. /\ UNCHANGED <<ring, hc, ep, hcEvt, late, reads, device, conf, granted, addressed, pending, owed, report>>
      /\ UNCHANGED <<enabled, typed, reports, errors, portEvents>>
      /\ pc = "wait" /\ EventReady /\ TakeEvent /\ Trying /\ ~Using /\ port \in Ports
      /\ todo = <<>> /\ (Asked <=> Stage \in Commands) /\ (Own = 1 <=> Asked) /\ Own \in {0, 1}
  <2>1. pc = "wait" /\ Trying /\ ~Using
    BY DEF Answered, Trying, Using
  <2> QED
    BY <1>0, <2>1 DEF Answered, controller, world, Types, Asked, Own
<1>1. /\ Same("cmd") /\ Same("ctrl") /\ Same("intr") /\ Rings'
      /\ evt' \in EvtRing /\ erdp' \in 0..(EvtSize - 1)
      /\ NextEvent.ok \in BOOLEAN /\ NextEvent.ok = evt.event[d].ok /\ evt'.event = evt.event
      /\ d \in Answers(t) /\ Turn(d) = 0
      /\ Cardinality(Answers(t)') = Cardinality(Answers(t)) - 1
      /\ \A s : /\ Answers(s)' = Answers(s) \ {d}
                /\ s # t => Answers(s)' = Answers(s) /\ d \notin Answers(s)
                /\ \A i \in Answers(s) : Turn(i) \in Nat /\ (Turn(i) = 0 => i = d)
                /\ \A i \in Answers(s)' : Turn(i)' = Turn(i) - 1
  <2>1. /\ EventsInStep' /\ evt' \in EvtRing /\ erdp' \in 0..(EvtSize - 1)
        /\ NextEvent.ok \in BOOLEAN /\ NextEvent = evt.event[d] /\ evt'.event = evt.event
        /\ d \in Answers(t) /\ Turn(d) = 0
        /\ Cardinality(Answers(t)') = Cardinality(Answers(t)) - 1
        /\ \A s : /\ Answers(s)' = Answers(s) \ {d}
                  /\ s # t => Answers(s)' = Answers(s) /\ d \notin Answers(s)
                  /\ \A i \in Answers(s) : Turn(i) \in Nat /\ (Turn(i) = 0 => i = d)
                  /\ \A i \in Answers(s)' : Turn(i)' = Turn(i) - 1
    BY <1>d, <1>u, TakeStep
  <2>2. Rings'
    BY <1>u, <2>1 DEF Rings
  <2> QED
    BY <1>u, <2>1, <2>2, SameRing
<1>l. /\ Fly("cmd")' = Fly("cmd") /\ (\A i \in Fly("cmd") : Later(i)' <=> Later(i))
      /\ Answers("cmd")' \subseteq Answers("cmd") /\ (\A i : Success(i)' => Success(i))
  BY <1>u, <1>1 DEF Same, Later, Op, Success
<1>o. /\ Outstanding = Pending("cmd") + Cardinality(Answers("cmd"))
      /\ Outstanding' = Pending("cmd") + Cardinality(Answers("cmd")')
      /\ Pending("cmd") \in Nat /\ Cardinality(Answers("cmd")) \in Nat
      /\ Pending("cmd") = 0 => Fly("cmd") = {}
      /\ Cardinality(Answers("cmd")) = 0 => Answers("cmd") = {}
  BY <1>1, OutstandingFacts, AnswersFinite, FS_EmptySet DEF Outstanding, Same
<1>a. /\ Stage \in Commands => t = "cmd" /\ Outstanding' = Outstanding - 1 /\ (~late => Fly("cmd") = {} /\ Answers("cmd") = {d} /\ Outstanding = 1)
      /\ Stage \notin Commands => t = "transfer" /\ Outstanding' = Outstanding /\ ~late /\ stage \in 3..7
                                    /\ Fly("cmd") = {} /\ Answers("cmd") = {} /\ Outstanding = 0
  <2>1. t = IF Stage \in Commands THEN "cmd" ELSE "transfer"
    BY <1>0, <1>d, StageFacts DEF Answered, Stage
  <2>2. CASE Stage \in Commands
    <3>1. Outstanding' = Outstanding - 1
      BY <1>1, <1>o, <2>1, <2>2, SMT
    <3>2. ~late => Outstanding = 1
      BY <1>u, <2>2 DEF Lag
    <3>3. d \in Answers("cmd")
      BY <1>1, <2>1, <2>2
    <3>4. ~late => Pending("cmd") = 0 /\ Cardinality(Answers("cmd")) = 1
      <4>1. Cardinality(Answers("cmd")) # 0
        BY <3>3, AnswersFinite, FS_EmptySet
      <4> QED
        BY <1>o, <3>2, <4>1, SMT
    <3>5. ~late => Answers("cmd")' = {}
      <4>1. ~late => Cardinality(Answers("cmd")') = 0
        BY <1>1, <2>1, <2>2, <3>4, SMT
      <4>2. IsFiniteSet(Answers("cmd")')
        BY <1>1, AnswersFinite, FS_RemoveElement
      <4> QED
        BY <4>1, <4>2, FS_EmptySet
    <3> QED
      BY <1>1, <1>o, <2>1, <2>2, <3>1, <3>2, <3>3, <3>4, <3>5
  <2>3. CASE Stage \notin Commands
    <3>1. ~late /\ stage \in 3..7
      BY <1>0, <1>u, <2>3, StageFacts, SMT DEF Lag, Stage
    <3>2. Outstanding = 0
      BY <1>u, <2>3, <3>1 DEF Lag
    <3>3. Answers("cmd")' = Answers("cmd")
      BY <1>1, <2>1, <2>3
    <3> QED
      BY <1>0, <1>o, <2>1, <2>3, <3>1, <3>2, <3>3
  <2> QED
    BY <2>2, <2>3
<1>n. pc' = "scan" /\ port' = port + 1 /\ stage' = stage /\ todo' = todo
  BY DEF NextPort
<1>m. ~Trying' /\ ~Using' /\ ~Holding' /\ ~Asked' /\ Own' = 0
  BY <1>n DEF Trying, Using, Holding, Asked, Own
<1>k. Stage \in Commands => ~NextEvent.ok
  BY <1>0, <1>n, StageFacts DEF Answered, NextStage, Stage
 <1>2. Types'
  <2>1. port' \in 1..(NPorts + 1) /\ stage' \in DOMAIN Stages
    <3>1. stage' \in 1..8 /\ DOMAIN Stages = 1..8
      BY <1>0, <1>n, <1>k DEF Stages
    <3>2. port' \in 1..(NPorts + 1)
      BY <1>u, <1>n, XhciAssumption, SMT DEF Ports
    <3> QED
      BY <3>1, <3>2
  <2>2. TypeOK'
    BY <1>u, <1>1, <1>n, <2>1, Zenon DEF Types, TypeOK, EvtRing, HcPlace
  <2>3. (Trying' => todo' \in Todos(Stage')) /\ (pc' = "wait" => todo' = <<>>) /\ (Trying' \/ Using' => port' \in Ports)
    BY <1>u, <1>n, <1>m DEF Trying, Using
  <2> QED
    BY <1>u, <2>2, <2>3, Zenon DEF Types
<1>3. OneToken'
  BY <1>u, <1>l, <1>m, <1>n DEF OneToken, Trying
<1>4. Lag'
  <2>1. Lost => Lost'
    BY <1>u, <1>l, <1>m DEF Lost
  <2>2. late => Stage \in Commands /\ Own = 1
    BY <1>u, <1>a
  <2>3. /\ Outstanding <= port - 1 + Own /\ (~late => Outstanding = Own) /\ (late => Lost \/ Outstanding >= Own + 1)
    BY DEF Lag
  <2>4. Outstanding \in Nat /\ port \in Nat /\ Own \in {0, 1}
    BY <1>0, <1>u
  <2>5. Outstanding' = Outstanding - Own
    BY <1>0, <1>u, <1>a, SMT
  <2>6. Outstanding' <= port' - 1 + 0 /\ (~late => Outstanding' = 0) /\ (late => Lost' \/ Outstanding' >= 0 + 1)
    <3> HIDE DEF Lost
    <3> QED
      BY <1>n, <2>1, <2>2, <2>3, <2>4, <2>5, SMT
  <2> QED
    BY <1>u, <1>m, <2>6 DEF Lag
<1>5. TokenLast'
  BY <1>m DEF TokenLast
<1>6. OnTime'
  BY <1>u, <1>a, <1>l, <1>m DEF OnTime
<1>7. Unused'
  <2>1. Unaddressed' => Unaddressed
    BY <1>u, <1>m DEF Unaddressed
  <2> QED
    BY <1>u, <1>1, <2>1 DEF Unused
<1>8. Request'
  BY <1>m DEF Request, Controlling
<1>9. Keyboard'
  BY <1>m DEF Keyboard
<1>10. OneReport'
  BY <1>u, <1>m DEF OneReport
<1> QED
  BY <1>1, <1>2, <1>3, <1>4, <1>5, <1>6, <1>7, <1>8, <1>9, <1>10

LEMMA AnswerMovesOn ==
  ASSUME XhciInv, Answered, NextStage
  PROVE  XhciInv'
<1> USE DEF XhciInv
<1>0. /\ stage \in 1..8 /\ port \in Nat /\ (Trying \/ Using => port \in Ports)
      /\ Outstanding \in Nat /\ (Outstanding = 0 => Answers("cmd") = {} /\ Fly("cmd") = {})
      /\ (Using => ~late)
  BY Basics
<1>d. PICK d, t : d = evt.deq /\ t = NextEvent.type
  OBVIOUS
<1>u. /\ UNCHANGED <<ring, hc, ep, hcEvt, late, reads, device, conf, granted, addressed, pending, owed, report>>
      /\ UNCHANGED <<enabled, typed, reports, errors, portEvents>>
      /\ pc = "wait" /\ EventReady /\ TakeEvent /\ Trying /\ ~Using /\ port \in Ports
      /\ todo = <<>> /\ (Asked <=> Stage \in Commands) /\ (Own = 1 <=> Asked) /\ Own \in {0, 1}
  <2>1. pc = "wait" /\ Trying /\ ~Using
    BY DEF Answered, Trying, Using
  <2> QED
    BY <1>0, <2>1 DEF Answered, controller, world, Types, Asked, Own
<1>1. /\ Same("cmd") /\ Same("ctrl") /\ Same("intr") /\ Rings'
      /\ evt' \in EvtRing /\ erdp' \in 0..(EvtSize - 1)
      /\ NextEvent.ok \in BOOLEAN /\ NextEvent.ok = evt.event[d].ok /\ evt'.event = evt.event
      /\ d \in Answers(t) /\ Turn(d) = 0
      /\ Cardinality(Answers(t)') = Cardinality(Answers(t)) - 1
      /\ \A s : /\ Answers(s)' = Answers(s) \ {d}
                /\ s # t => Answers(s)' = Answers(s) /\ d \notin Answers(s)
                /\ \A i \in Answers(s) : Turn(i) \in Nat /\ (Turn(i) = 0 => i = d)
                /\ \A i \in Answers(s)' : Turn(i)' = Turn(i) - 1
  <2>1. /\ EventsInStep' /\ evt' \in EvtRing /\ erdp' \in 0..(EvtSize - 1)
        /\ NextEvent.ok \in BOOLEAN /\ NextEvent = evt.event[d] /\ evt'.event = evt.event
        /\ d \in Answers(t) /\ Turn(d) = 0
        /\ Cardinality(Answers(t)') = Cardinality(Answers(t)) - 1
        /\ \A s : /\ Answers(s)' = Answers(s) \ {d}
                  /\ s # t => Answers(s)' = Answers(s) /\ d \notin Answers(s)
                  /\ \A i \in Answers(s) : Turn(i) \in Nat /\ (Turn(i) = 0 => i = d)
                  /\ \A i \in Answers(s)' : Turn(i)' = Turn(i) - 1
    BY <1>d, <1>u, TakeStep
  <2>2. Rings'
    BY <1>u, <2>1 DEF Rings
  <2> QED
    BY <1>u, <2>1, <2>2, SameRing
<1>l. /\ Fly("cmd")' = Fly("cmd") /\ (\A i \in Fly("cmd") : Later(i)' <=> Later(i))
      /\ Answers("cmd")' \subseteq Answers("cmd") /\ (\A i : Success(i)' => Success(i))
  BY <1>u, <1>1 DEF Same, Later, Op, Success
<1>o. /\ Outstanding = Pending("cmd") + Cardinality(Answers("cmd"))
      /\ Outstanding' = Pending("cmd") + Cardinality(Answers("cmd")')
      /\ Pending("cmd") \in Nat /\ Cardinality(Answers("cmd")) \in Nat
      /\ Pending("cmd") = 0 => Fly("cmd") = {}
      /\ Cardinality(Answers("cmd")) = 0 => Answers("cmd") = {}
  BY <1>1, OutstandingFacts, AnswersFinite, FS_EmptySet DEF Outstanding, Same
<1>a. /\ Stage \in Commands => t = "cmd" /\ Outstanding' = Outstanding - 1 /\ (~late => Fly("cmd") = {} /\ Answers("cmd") = {d} /\ Outstanding = 1)
      /\ Stage \notin Commands => t = "transfer" /\ Outstanding' = Outstanding /\ ~late /\ stage \in 3..7
                                    /\ Fly("cmd") = {} /\ Answers("cmd") = {} /\ Outstanding = 0
  <2>1. t = IF Stage \in Commands THEN "cmd" ELSE "transfer"
    BY <1>0, <1>d, StageFacts DEF Answered, Stage
  <2>2. CASE Stage \in Commands
    <3>1. Outstanding' = Outstanding - 1
      BY <1>1, <1>o, <2>1, <2>2, SMT
    <3>2. ~late => Outstanding = 1
      BY <1>u, <2>2 DEF Lag
    <3>3. d \in Answers("cmd")
      BY <1>1, <2>1, <2>2
    <3>4. ~late => Pending("cmd") = 0 /\ Cardinality(Answers("cmd")) = 1
      <4>1. Cardinality(Answers("cmd")) # 0
        BY <3>3, AnswersFinite, FS_EmptySet
      <4> QED
        BY <1>o, <3>2, <4>1, SMT
    <3>5. ~late => Answers("cmd")' = {}
      <4>1. ~late => Cardinality(Answers("cmd")') = 0
        BY <1>1, <2>1, <2>2, <3>4, SMT
      <4>2. IsFiniteSet(Answers("cmd")')
        BY <1>1, AnswersFinite, FS_RemoveElement
      <4> QED
        BY <4>1, <4>2, FS_EmptySet
    <3> QED
      BY <1>1, <1>o, <2>1, <2>2, <3>1, <3>2, <3>3, <3>4, <3>5
  <2>3. CASE Stage \notin Commands
    <3>1. ~late /\ stage \in 3..7
      BY <1>0, <1>u, <2>3, StageFacts, SMT DEF Lag, Stage
    <3>2. Outstanding = 0
      BY <1>u, <2>3, <3>1 DEF Lag
    <3>3. Answers("cmd")' = Answers("cmd")
      BY <1>1, <2>1, <2>3
    <3> QED
      BY <1>0, <1>o, <2>1, <2>3, <3>1, <3>2, <3>3
  <2> QED
    BY <2>2, <2>3
<1>n. pc' = "submit" /\ port' = port /\ stage' = stage + 1 /\ todo' = Entries(Stages[stage + 1])
  BY DEF NextStage
<1>k. /\ NextEvent.ok /\ stage \in 1..7 /\ stage' \in 2..8
      /\ stage = 4 => TRUE \in Parses
  <2>1. stage # 8 /\ NextEvent.ok
    BY <1>0, <1>n, <1>1, StageFacts DEF Answered, NextPort, Stage
  <2>2. stage = 4 => TRUE \in Parses
    BY <1>0, <1>n, <2>1, StageFacts DEF Answered, NextPort
  <2>3. stage \in 1..7 /\ stage' \in 2..8
    BY <1>0, <1>n, <2>1, SMT
  <2> QED
    BY <2>1, <2>2, <2>3
<1>m. /\ Trying' /\ ~Using' /\ Holding' /\ ~Asked' /\ Own' = 0
      /\ Stage' = Stages[stage'] /\ todo' \in Todos(Stage') /\ Len(todo)' = Len(Entries(Stage))' /\ Len(todo)' \in Nat
  <2>1. Stage' = Stages[stage'] /\ todo' = Entries(Stage')
    BY <1>n DEF Stage
  <2>2. todo' \in Todos(Stage') /\ Len(todo') \in 1..3
    BY <1>k, <2>1, EntryFacts
  <2>3. todo' # <<>>
    BY <2>2
  <2> QED
    BY <1>n, <1>k, <2>1, <2>2, <2>3, SMT DEF Trying, Using, Holding, Asked, Own
<1>c. /\ granted # 0 /\ ~Lost
      /\ \A i \in Answers("cmd")' : ~Success(i)'
      /\ \A i \in Fly("cmd") : ~Later(i)
      /\ Stage \in Commands => Success(d)
  <2>1. CASE Stage \in Commands
    <3>1. d \in Answers("cmd") /\ Success(d)
      BY <1>1, <1>a, <1>k, <2>1 DEF Success
    <3>2. granted # 0 /\ \A i \in Fly("cmd") : ~Later(i)
      BY <3>1 DEF OneToken
    <3>3. \A i \in Answers("cmd") : Success(i) => i = d
      BY <3>1 DEF OneToken
    <3>4. d \notin Answers("cmd")'
      BY <1>1
    <3> QED
      BY <1>l, <3>1, <3>2, <3>3, <3>4 DEF Lost
  <2>2. CASE Stage \notin Commands
    <3>1. Holding
      BY <1>u, <1>a, <2>2, SMT DEF Holding
    <3> QED
      BY <1>l, <2>2, <3>1 DEF OneToken, Lost
  <2> QED
    BY <2>1, <2>2
<1>b. stage \in 2..8 => ~late
  <2>1. SUFFICES ASSUME stage = 2, late PROVE FALSE
    BY <1>0, <1>u, SMT DEF Lag
  <2>2. Stage \in Commands
    BY <2>1, StageFacts DEF Stage
  <2>3. Pending("cmd") = 0 /\ \A j \in Answers("cmd") : Turn(j) <= Turn(d)
    BY <1>u, <1>1, <1>a, <1>c, <2>1, <2>2 DEF TokenLast
  <2>4. Answers("cmd") = {d}
    BY <1>1, <1>a, <2>2, <2>3, SMT
  <2>5. Cardinality(Answers("cmd")) = 1
    BY <2>4, FS_Singleton
  <2>6. Outstanding = 1
    BY <1>o, <2>3, <2>5, SMT
  <2>7. Outstanding >= 1 + 1
    BY <1>u, <1>c, <2>1, <2>2 DEF Lag
  <2> QED
    BY <2>6, <2>7, SMT
<1>z. stage \in 2..7 => Pending("ctrl") = 0 /\ Fly("ctrl") = {} /\ Answers("transfer")' = {}
  <2>1. CASE stage = 2
    <3>1. ring["ctrl"] = NewRing(CtrlSize) /\ hc["ctrl"] = Idle0 /\ Answers("transfer") = {}
      BY <1>u, <1>b, <2>1 DEF Unused, Unaddressed
    <3> QED
      BY <1>1, <3>1, UnusedRing, RingTypes DEF RingNames
  <2>2. CASE stage \in 3..7
    <3>1. Stage \notin Commands /\ Controlling /\ ~late
      BY <1>0, <1>u, <1>b, <2>2, StageFacts DEF Stage, Controlling
    <3>2. d \in Answers("transfer") /\ evt.event[d].ok
      BY <1>1, <1>a, <1>k, <3>1
    <3>3. Consumed = Len(Entries(Stage)) /\ \A j \in Answers("transfer") : Turn(j) <= Turn(d)
      BY <3>1, <3>2 DEF Request
    <3>4. Sent = Len(Entries(Stage)) /\ Consumed = Sent - Pending("ctrl") /\ Sent \in Nat
      BY <1>u, SentFacts DEF Consumed
    <3>5. \A j \in Answers("transfer") : j = d
      BY <1>1, <3>3, SMT
    <3>6. Answers("transfer")' = {}
      BY <1>1, <3>5
    <3>7. InStep(CtrlSize, ring["ctrl"], hc["ctrl"])
      BY <3>1 DEF Rings
    <3>8. Pending("ctrl") \in Nat /\ (Pending("ctrl") = 0 => Fly("ctrl") = {})
      BY <3>7, RingTypes, CountBounds, XhciAssumption, SMT DEF Pending, Fly
    <3>9. Pending("ctrl") = 0
      BY <3>3, <3>4, <3>8, SMT
    <3> QED
      BY <3>6, <3>8, <3>9
  <2> QED
    BY <2>1, <2>2
 <1>2. Types'
  <2>1. port' \in 1..(NPorts + 1) /\ stage' \in DOMAIN Stages
    <3>1. stage' \in 1..8 /\ DOMAIN Stages = 1..8
      BY <1>0, <1>n, <1>k DEF Stages
    <3>2. port' \in 1..(NPorts + 1)
      BY <1>u, <1>n, XhciAssumption, SMT DEF Ports
    <3> QED
      BY <3>1, <3>2
  <2>2. TypeOK'
    BY <1>u, <1>1, <1>n, <2>1, Zenon DEF Types, TypeOK, EvtRing, HcPlace
  <2>3. (Trying' => todo' \in Todos(Stage')) /\ (pc' = "wait" => todo' = <<>>) /\ (Trying' \/ Using' => port' \in Ports)
    BY <1>u, <1>n, <1>m DEF Trying, Using
  <2> QED
    BY <1>u, <2>2, <2>3, Zenon DEF Types
<1>3. OneToken'
  BY <1>u, <1>l, <1>m, <1>c DEF OneToken
<1>4. Lag'
  <2>1. late => stage = 1
    BY <1>k, <1>b, SMT
  <2>2. /\ Outstanding <= port - 1 + Own /\ (~late => Outstanding = Own) /\ (late => Outstanding >= Own + 1)
    BY <1>c DEF Lag
  <2>3. Outstanding \in Nat /\ port \in Nat /\ Own \in {0, 1}
    BY <1>0, <1>u
  <2>4. Outstanding' = Outstanding - Own
    BY <1>0, <1>u, <1>a, SMT
  <2>5. Outstanding' <= port' - 1 + 0 /\ (~late => Outstanding' = 0) /\ (late => Outstanding' >= 0 + 1)
    BY <1>n, <2>2, <2>3, <2>4, SMT
  <2>6. late => stage' <= 2
    BY <1>n, <2>1, SMT
  <2> QED
    BY <1>u, <1>m, <2>5, <2>6 DEF Lag
<1>5. TokenLast'
  BY <1>m DEF TokenLast
<1>6. OnTime'
  <2>1. ~late /\ stage >= 2 => addressed = port
    BY <1>0, <1>u, <1>1, <1>a, <1>c, StageFacts, SMT DEF OnTime, Stage
  <2>2. stage' > 2 => stage >= 2
    BY <1>0, <1>n, SMT
  <2> QED
    BY <1>u, <1>a, <1>c, <1>l, <1>m, <1>n, <2>1, <2>2 DEF OnTime
<1>7. Unused'
  <2>1. Unaddressed' => stage = 1
    BY <1>0, <1>u, <1>c, <1>n, <1>k, SMT DEF Unaddressed
  <2>2. Unaddressed' => Unaddressed
    BY <1>0, <1>u, <1>1, <1>a, <1>c, <2>1, StageFacts DEF Unaddressed, Stage
  <2> QED
    BY <1>u, <1>1, <1>m, <2>2 DEF Unused
<1>8. Request'
  <2> SUFFICES ASSUME Controlling' PROVE Request'
    BY DEF Request
  <2>1. stage \in 2..6 /\ stage' # 1
    BY <1>0, <1>n, SMT DEF Controlling
  <2>2. Pending("ctrl")' = 0 /\ Fly("ctrl")' = {} /\ Answers("transfer")' = {}
    BY <1>1, <1>z, <2>1, SMT DEF Same
  <2>3. Sent' = 0 /\ Consumed' = 0
    <3>1. Sent' = 0
      BY <1>m, SMT DEF Sent
    <3> QED
      BY <2>2, <3>1, SMT DEF Consumed
  <2> QED
    BY <2>2, <2>3, SMT DEF Request
<1>9. Keyboard'
  <2>1. ~late /\ stage' > 4 => device[port] = "keyboard"
    <3>1. SUFFICES ASSUME ~late, stage' > 4 PROVE device[port] = "keyboard"
      OBVIOUS
    <3>2. CASE stage > 4
      BY <1>u, <3>1, <3>2 DEF Keyboard
    <3>3. CASE ~(stage > 4)
      <4>1. stage = 4
        BY <1>0, <1>n, <3>1, <3>3, SMT
      <4>2. Stage \notin Commands /\ Controlling /\ Stage = "full"
        BY <1>u, <4>1, StageFacts DEF Stage, Controlling
      <4>3. d \in Answers("transfer") /\ evt.event[d].ok
        BY <1>1, <1>a, <1>k, <4>2
      <4>4. Consumed = Len(Entries(Stage))
        BY <3>1, <4>2, <4>3 DEF Request
      <4>5. Len(Entries(Stage)) = 3
        BY <4>1, EntryFacts DEF Stage
      <4>6. conf = device[port]
        BY <3>1, <4>2, <4>4, <4>5, SMT DEF Request
      <4>7. device[port] \in {"none", "keyboard", "other"}
        BY <1>u DEF Types
      <4> QED
        BY <1>k, <4>1, <4>6, <4>7 DEF Parses
    <3> QED
      BY <3>2, <3>3
  <2>2. stage' = 8 => Pending("ctrl")' = 0 /\ Answers("transfer")' = {}
    <3>1. stage' = 8 => stage \in 2..7
      BY <1>0, <1>n, SMT
    <3> QED
      BY <1>1, <1>z, <3>1 DEF Same
  <2> QED
    BY <1>u, <1>m, <1>n, <2>1, <2>2 DEF Keyboard
<1>10. OneReport'
  BY <1>u, <1>m DEF OneReport
<1> QED
  BY <1>1, <1>2, <1>3, <1>4, <1>5, <1>6, <1>7, <1>8, <1>9, <1>10

LEMMA AnswerReady ==
  ASSUME XhciInv, Answered, pc' = "ready"
  PROVE  XhciInv'
<1> USE DEF XhciInv
<1>0. /\ stage \in 1..8 /\ port \in Nat /\ (Trying \/ Using => port \in Ports)
      /\ Outstanding \in Nat /\ (Outstanding = 0 => Answers("cmd") = {} /\ Fly("cmd") = {})
      /\ (Using => ~late)
  BY Basics
<1>d. PICK d, t : d = evt.deq /\ t = NextEvent.type
  OBVIOUS
<1>u. /\ UNCHANGED <<ring, hc, ep, hcEvt, late, reads, device, conf, granted, addressed, pending, owed, report>>
      /\ UNCHANGED <<enabled, typed, reports, errors, portEvents>>
      /\ pc = "wait" /\ EventReady /\ TakeEvent /\ Trying /\ ~Using /\ port \in Ports
      /\ todo = <<>> /\ (Asked <=> Stage \in Commands) /\ (Own = 1 <=> Asked) /\ Own \in {0, 1}
  <2>1. pc = "wait" /\ Trying /\ ~Using
    BY DEF Answered, Trying, Using
  <2> QED
    BY <1>0, <2>1 DEF Answered, controller, world, Types, Asked, Own
<1>1. /\ Same("cmd") /\ Same("ctrl") /\ Same("intr") /\ Rings'
      /\ evt' \in EvtRing /\ erdp' \in 0..(EvtSize - 1)
      /\ NextEvent.ok \in BOOLEAN /\ NextEvent.ok = evt.event[d].ok /\ evt'.event = evt.event
      /\ d \in Answers(t) /\ Turn(d) = 0
      /\ Cardinality(Answers(t)') = Cardinality(Answers(t)) - 1
      /\ \A s : /\ Answers(s)' = Answers(s) \ {d}
                /\ s # t => Answers(s)' = Answers(s) /\ d \notin Answers(s)
                /\ \A i \in Answers(s) : Turn(i) \in Nat /\ (Turn(i) = 0 => i = d)
                /\ \A i \in Answers(s)' : Turn(i)' = Turn(i) - 1
  <2>1. /\ EventsInStep' /\ evt' \in EvtRing /\ erdp' \in 0..(EvtSize - 1)
        /\ NextEvent.ok \in BOOLEAN /\ NextEvent = evt.event[d] /\ evt'.event = evt.event
        /\ d \in Answers(t) /\ Turn(d) = 0
        /\ Cardinality(Answers(t)') = Cardinality(Answers(t)) - 1
        /\ \A s : /\ Answers(s)' = Answers(s) \ {d}
                  /\ s # t => Answers(s)' = Answers(s) /\ d \notin Answers(s)
                  /\ \A i \in Answers(s) : Turn(i) \in Nat /\ (Turn(i) = 0 => i = d)
                  /\ \A i \in Answers(s)' : Turn(i)' = Turn(i) - 1
    BY <1>d, <1>u, TakeStep
  <2>2. Rings'
    BY <1>u, <2>1 DEF Rings
  <2> QED
    BY <1>u, <2>1, <2>2, SameRing
<1>l. /\ Fly("cmd")' = Fly("cmd") /\ (\A i \in Fly("cmd") : Later(i)' <=> Later(i))
      /\ Answers("cmd")' \subseteq Answers("cmd") /\ (\A i : Success(i)' => Success(i))
  BY <1>u, <1>1 DEF Same, Later, Op, Success
<1>o. /\ Outstanding = Pending("cmd") + Cardinality(Answers("cmd"))
      /\ Outstanding' = Pending("cmd") + Cardinality(Answers("cmd")')
      /\ Pending("cmd") \in Nat /\ Cardinality(Answers("cmd")) \in Nat
      /\ Pending("cmd") = 0 => Fly("cmd") = {}
      /\ Cardinality(Answers("cmd")) = 0 => Answers("cmd") = {}
  BY <1>1, OutstandingFacts, AnswersFinite, FS_EmptySet DEF Outstanding, Same
<1>a. /\ Stage \in Commands => t = "cmd" /\ Outstanding' = Outstanding - 1 /\ (~late => Fly("cmd") = {} /\ Answers("cmd") = {d} /\ Outstanding = 1)
      /\ Stage \notin Commands => t = "transfer" /\ Outstanding' = Outstanding /\ ~late /\ stage \in 3..7
                                    /\ Fly("cmd") = {} /\ Answers("cmd") = {} /\ Outstanding = 0
  <2>1. t = IF Stage \in Commands THEN "cmd" ELSE "transfer"
    BY <1>0, <1>d, StageFacts DEF Answered, Stage
  <2>2. CASE Stage \in Commands
    <3>1. Outstanding' = Outstanding - 1
      BY <1>1, <1>o, <2>1, <2>2, SMT
    <3>2. ~late => Outstanding = 1
      BY <1>u, <2>2 DEF Lag
    <3>3. d \in Answers("cmd")
      BY <1>1, <2>1, <2>2
    <3>4. ~late => Pending("cmd") = 0 /\ Cardinality(Answers("cmd")) = 1
      <4>1. Cardinality(Answers("cmd")) # 0
        BY <3>3, AnswersFinite, FS_EmptySet
      <4> QED
        BY <1>o, <3>2, <4>1, SMT
    <3>5. ~late => Answers("cmd")' = {}
      <4>1. ~late => Cardinality(Answers("cmd")') = 0
        BY <1>1, <2>1, <2>2, <3>4, SMT
      <4>2. IsFiniteSet(Answers("cmd")')
        BY <1>1, AnswersFinite, FS_RemoveElement
      <4> QED
        BY <4>1, <4>2, FS_EmptySet
    <3> QED
      BY <1>1, <1>o, <2>1, <2>2, <3>1, <3>2, <3>3, <3>4, <3>5
  <2>3. CASE Stage \notin Commands
    <3>1. ~late /\ stage \in 3..7
      BY <1>0, <1>u, <2>3, StageFacts, SMT DEF Lag, Stage
    <3>2. Outstanding = 0
      BY <1>u, <2>3, <3>1 DEF Lag
    <3>3. Answers("cmd")' = Answers("cmd")
      BY <1>1, <2>1, <2>3
    <3> QED
      BY <1>0, <1>o, <2>1, <2>3, <3>1, <3>2, <3>3
  <2> QED
    BY <2>2, <2>3
<1>n. pc' = "ready" /\ port' = port /\ stage' = stage /\ todo' = todo /\ stage = 8 /\ NextEvent.ok
  <2>1. pc' = "ready"
    OBVIOUS
  <2>2. NextEvent.ok
    BY <2>1 DEF Answered, NextPort
  <2>3. Stage = "configure"
    BY <2>1, <2>2 DEF Answered, NextPort, NextStage, Stage
  <2> QED
    BY <1>0, <2>1, <2>2, <2>3, StageFacts DEF Answered, Stage
<1>k. NextEvent.ok /\ stage \in 1..8
  BY <1>n
<1>m. ~Trying' /\ Using' /\ Holding' /\ ~Asked' /\ Own' = 0
  BY <1>n DEF Trying, Using, Holding, Asked, Own
<1>c. /\ granted # 0 /\ ~Lost
      /\ \A i \in Answers("cmd")' : ~Success(i)'
      /\ \A i \in Fly("cmd") : ~Later(i)
      /\ Stage \in Commands => Success(d)
  <2>1. CASE Stage \in Commands
    <3>1. d \in Answers("cmd") /\ Success(d)
      BY <1>1, <1>a, <1>k, <2>1 DEF Success
    <3>2. granted # 0 /\ \A i \in Fly("cmd") : ~Later(i)
      BY <3>1 DEF OneToken
    <3>3. \A i \in Answers("cmd") : Success(i) => i = d
      BY <3>1 DEF OneToken
    <3>4. d \notin Answers("cmd")'
      BY <1>1
    <3> QED
      BY <1>l, <3>1, <3>2, <3>3, <3>4 DEF Lost
  <2>2. CASE Stage \notin Commands
    <3>1. Holding
      BY <1>u, <1>a, <2>2, SMT DEF Holding
    <3> QED
      BY <1>l, <2>2, <3>1 DEF OneToken, Lost
  <2> QED
    BY <2>1, <2>2
<1>b. stage \in 2..8 => ~late
  <2>1. SUFFICES ASSUME stage = 2, late PROVE FALSE
    BY <1>0, <1>u, SMT DEF Lag
  <2>2. Stage \in Commands
    BY <2>1, StageFacts DEF Stage
  <2>3. Pending("cmd") = 0 /\ \A j \in Answers("cmd") : Turn(j) <= Turn(d)
    BY <1>u, <1>1, <1>a, <1>c, <2>1, <2>2 DEF TokenLast
  <2>4. Answers("cmd") = {d}
    BY <1>1, <1>a, <2>2, <2>3, SMT
  <2>5. Cardinality(Answers("cmd")) = 1
    BY <2>4, FS_Singleton
  <2>6. Outstanding = 1
    BY <1>o, <2>3, <2>5, SMT
  <2>7. Outstanding >= 1 + 1
    BY <1>u, <1>c, <2>1, <2>2 DEF Lag
  <2> QED
    BY <2>6, <2>7, SMT
<1>x. ~late /\ Stage \in Commands /\ device[port] = "keyboard" /\ addressed = port
      /\ Pending("ctrl") = 0 /\ Answers("transfer") = {} /\ Pending("intr") = 0
  <2>1. ~late /\ Stage \in Commands
    BY <1>b, <1>n, StageFacts DEF Stage
  <2>2. device[port] = "keyboard" /\ addressed = port /\ Pending("ctrl") = 0 /\ Answers("transfer") = {}
    BY <1>u, <1>n, <2>1, SMT DEF Keyboard, OnTime
  <2>3. Pending("intr") = 0
    BY <1>u, UnusedRing, RingTypes DEF Unused, RingNames
  <2> QED
    BY <2>1, <2>2, <2>3
 <1>2. Types'
  <2>1. port' \in 1..(NPorts + 1) /\ stage' \in DOMAIN Stages
    <3>1. stage' \in 1..8 /\ DOMAIN Stages = 1..8
      BY <1>0, <1>n, <1>k DEF Stages
    <3>2. port' \in 1..(NPorts + 1)
      BY <1>u, <1>n, XhciAssumption, SMT DEF Ports
    <3> QED
      BY <3>1, <3>2
  <2>2. TypeOK'
    BY <1>u, <1>1, <1>n, <2>1, Zenon DEF Types, TypeOK, EvtRing, HcPlace
  <2>3. (Trying' => todo' \in Todos(Stage')) /\ (pc' = "wait" => todo' = <<>>) /\ (Trying' \/ Using' => port' \in Ports)
    BY <1>u, <1>n, <1>m DEF Trying, Using
  <2> QED
    BY <1>u, <2>2, <2>3, Zenon DEF Types
<1>3. OneToken'
  BY <1>u, <1>l, <1>m, <1>c DEF OneToken
<1>4. Lag'
  <2>1. Outstanding' = 0 /\ Own' = 0 /\ Outstanding' <= port' - 1 + Own'
    BY <1>0, <1>u, <1>a, <1>m, <1>n, <1>x, SMT DEF Ports
  <2> QED
    BY <1>u, <1>x, <2>1 DEF Lag
<1>5. TokenLast'
  BY <1>m DEF TokenLast
<1>6. OnTime'
  BY <1>u, <1>a, <1>l, <1>m, <1>n, <1>x DEF OnTime
<1>7. Unused'
  <2>1. ~Unaddressed'
    BY <1>u, <1>c, <1>m DEF Unaddressed
  <2> QED
    BY <1>m, <2>1 DEF Unused
<1>8. Request'
  BY <1>m DEF Request, Controlling
<1>9. Keyboard'
  BY <1>u, <1>1, <1>m, <1>n, <1>x DEF Keyboard, Same
<1>10. OneReport'
  BY <1>u, <1>1, <1>m, <1>x DEF OneReport, Same
<1> QED
  BY <1>1, <1>2, <1>3, <1>4, <1>5, <1>6, <1>7, <1>8, <1>9, <1>10

LEMMA DroppedInv ==
  ASSUME XhciInv, Dropped
  PROVE  XhciInv'
<1> USE DEF XhciInv
<1>0. /\ stage \in 1..8 /\ port \in Nat /\ (Trying \/ Using => port \in Ports)
      /\ Outstanding \in Nat /\ (Outstanding = 0 => Answers("cmd") = {} /\ Fly("cmd") = {})
      /\ (Using => ~late)
  BY Basics
<1>d. PICK d, t : d = evt.deq /\ t = NextEvent.type
  OBVIOUS
<1>u. /\ UNCHANGED <<ring, hc, ep, hcEvt, late, reads, device, conf, granted, addressed, pending, owed, report>>
      /\ UNCHANGED <<enabled, typed, reports, errors, portEvents>>
      /\ pc = "wait" /\ EventReady /\ TakeEvent /\ Trying /\ ~Using /\ port \in Ports
      /\ todo = <<>> /\ (Asked <=> Stage \in Commands) /\ (Own = 1 <=> Asked) /\ Own \in {0, 1}
  <2>1. pc = "wait" /\ Trying /\ ~Using
    BY DEF Dropped, Trying, Using
  <2> QED
    BY <1>0, <2>1 DEF Dropped, controller, world, Types, Asked, Own
<1>1. /\ Same("cmd") /\ Same("ctrl") /\ Same("intr") /\ Rings'
      /\ evt' \in EvtRing /\ erdp' \in 0..(EvtSize - 1)
      /\ NextEvent.ok \in BOOLEAN /\ NextEvent.ok = evt.event[d].ok /\ evt'.event = evt.event
      /\ d \in Answers(t) /\ Turn(d) = 0
      /\ Cardinality(Answers(t)') = Cardinality(Answers(t)) - 1
      /\ \A s : /\ Answers(s)' = Answers(s) \ {d}
                /\ s # t => Answers(s)' = Answers(s) /\ d \notin Answers(s)
                /\ \A i \in Answers(s) : Turn(i) \in Nat /\ (Turn(i) = 0 => i = d)
                /\ \A i \in Answers(s)' : Turn(i)' = Turn(i) - 1
  <2>1. /\ EventsInStep' /\ evt' \in EvtRing /\ erdp' \in 0..(EvtSize - 1)
        /\ NextEvent.ok \in BOOLEAN /\ NextEvent = evt.event[d] /\ evt'.event = evt.event
        /\ d \in Answers(t) /\ Turn(d) = 0
        /\ Cardinality(Answers(t)') = Cardinality(Answers(t)) - 1
        /\ \A s : /\ Answers(s)' = Answers(s) \ {d}
                  /\ s # t => Answers(s)' = Answers(s) /\ d \notin Answers(s)
                  /\ \A i \in Answers(s) : Turn(i) \in Nat /\ (Turn(i) = 0 => i = d)
                  /\ \A i \in Answers(s)' : Turn(i)' = Turn(i) - 1
    BY <1>d, <1>u, TakeStep
  <2>2. Rings'
    BY <1>u, <2>1 DEF Rings
  <2> QED
    BY <1>u, <2>1, <2>2, SameRing
<1>l. /\ Fly("cmd")' = Fly("cmd") /\ (\A i \in Fly("cmd") : Later(i)' <=> Later(i))
      /\ Answers("cmd")' \subseteq Answers("cmd") /\ (\A i : Success(i)' => Success(i))
  BY <1>u, <1>1 DEF Same, Later, Op, Success
<1>o. /\ Outstanding = Pending("cmd") + Cardinality(Answers("cmd"))
      /\ Outstanding' = Pending("cmd") + Cardinality(Answers("cmd")')
      /\ Pending("cmd") \in Nat /\ Cardinality(Answers("cmd")) \in Nat
      /\ Pending("cmd") = 0 => Fly("cmd") = {}
      /\ Cardinality(Answers("cmd")) = 0 => Answers("cmd") = {}
  BY <1>1, OutstandingFacts, AnswersFinite, FS_EmptySet DEF Outstanding, Same
<1>n. UNCHANGED <<pc, port, stage, todo>>
  BY DEF Dropped
<1>k. stage \in 1..8
  BY <1>0
<1>m. /\ Trying' = Trying /\ Using' = Using /\ Holding' = Holding /\ Asked' = Asked /\ Own' = Own /\ Stage' = Stage
      /\ (Trying => todo \in Todos(Stage))
  BY <1>n DEF Trying, Using, Holding, Asked, Own, Stage, Types
<1>a. t # "cmd" /\ (Stage \notin Commands => t # "transfer") /\ Outstanding' = Outstanding
      /\ Answers("cmd")' = Answers("cmd") /\ (\A i \in Answers("cmd") : Success(i)' <=> Success(i))
  <2>1. t # IF Stage \in Commands THEN "cmd" ELSE "transfer"
    BY <1>0, <1>d, StageFacts DEF Dropped, Stage
  <2>2. Stage \notin Commands => Outstanding = 0
    <3>1. Stage \notin Commands => ~late
      BY <1>0, <1>u, StageFacts, SMT DEF Lag, Stage
    <3> QED
      BY <1>u, <3>1 DEF Lag
  <2>3. t # "cmd"
    BY <1>0, <1>1, <2>1, <2>2
  <2>4. Answers("cmd")' = Answers("cmd")
    BY <1>1, <2>3
  <2> QED
    BY <1>1, <1>o, <2>1, <2>3, <2>4 DEF Success
 <1>2. Types'
  <2>1. port' \in 1..(NPorts + 1) /\ stage' \in DOMAIN Stages
    <3>1. stage' \in 1..8 /\ DOMAIN Stages = 1..8
      BY <1>0, <1>n, <1>k DEF Stages
    <3>2. port' \in 1..(NPorts + 1)
      BY <1>u, <1>n, XhciAssumption, SMT DEF Ports
    <3> QED
      BY <3>1, <3>2
  <2>2. TypeOK'
    BY <1>u, <1>1, <1>n, <2>1, Zenon DEF Types, TypeOK, EvtRing, HcPlace
  <2>3. (Trying' => todo' \in Todos(Stage')) /\ (pc' = "wait" => todo' = <<>>) /\ (Trying' \/ Using' => port' \in Ports)
    BY <1>u, <1>n, <1>m DEF Trying, Using
  <2> QED
    BY <1>u, <2>2, <2>3, Zenon DEF Types
<1>3. OneToken'
  BY <1>u, <1>l, <1>m, <1>n, <1>a DEF OneToken
<1>4. Lag'
  <2>1. Lost => Lost'
    BY <1>u, <1>l, <1>m, <1>a DEF Lost
  <2> QED
    BY <1>u, <1>m, <1>n, <1>a, <2>1 DEF Lag
<1>5. TokenLast'
  <2> SUFFICES ASSUME stage = 2, Asked
               PROVE  /\ \A i \in Fly("cmd")' : Later(i)' => Ahead("cmd", i)' + 1 = Pending("cmd")'
                      /\ \A i \in Answers("cmd")' : Success(i)' =>
                           Pending("cmd")' = 0 /\ \A j \in Answers("cmd")' : Turn(j)' <= Turn(i)'
    BY <1>n, <1>m DEF TokenLast
  <2>1. /\ \A i \in Fly("cmd") : Later(i) => Ahead("cmd", i) + 1 = Pending("cmd")
        /\ \A i \in Answers("cmd") : Success(i) =>
             Pending("cmd") = 0 /\ \A j \in Answers("cmd") : Turn(j) <= Turn(i)
    BY <1>u DEF TokenLast
  <2>2. \A i, j \in Answers("cmd") : Turn(j) <= Turn(i) => Turn(j)' <= Turn(i)'
    BY <1>1, <1>a, SMT
  <2> QED
    BY <1>1, <1>l, <1>a, <2>1, <2>2 DEF Same
<1>6. OnTime'
  BY <1>u, <1>1, <1>m, <1>n, <1>a DEF OnTime, Same, Op
<1>7. Unused'
  <2>1. Unaddressed' => Unaddressed
    BY <1>u, <1>m, <1>n, <1>a DEF Unaddressed
  <2> QED
    BY <1>u, <1>1, <1>m, <2>1 DEF Unused
<1>8. Request'
  <2> SUFFICES ASSUME ~late, Controlling PROVE Request'
    BY <1>u, <1>m, <1>n DEF Request, Controlling
  <2>1. Answers("transfer")' = Answers("transfer")
    BY <1>0, <1>1, <1>a, StageFacts DEF Controlling, Stage
  <2>2. \A i, j \in Answers("transfer") : Turn(j) <= Turn(i) => Turn(j)' <= Turn(i)'
    BY <1>1, <2>1, SMT
  <2>3. Sent' = Sent /\ Consumed' = Consumed
    BY <1>1, <1>m, <1>n DEF Sent, Consumed, Same
  <2>4. /\ Pending("ctrl") <= Sent
        /\ \A i \in Fly("ctrl") : Op("ctrl", i) = Entries(Stage)[Consumed + Ahead("ctrl", i) + 1]
        /\ Sent = 0 => Answers("transfer") = {}
        /\ \A i \in Answers("transfer") : evt.event[i].ok =>
             /\ Consumed = Len(Entries(Stage))
             /\ \A j \in Answers("transfer") : Turn(j) <= Turn(i)
        /\ Stage = "full" /\ Consumed >= 2 => conf = device[port]
    BY DEF Request
  <2>5. Pending("ctrl")' <= Sent' /\ \A i \in Fly("ctrl")' : Op("ctrl", i)' = Entries(Stage)'[Consumed' + Ahead("ctrl", i)' + 1]
    BY <1>1, <1>m, <2>3, <2>4 DEF Same, Op
  <2>6. \A i \in Answers("transfer")' : evt'.event[i].ok =>
             /\ Consumed' = Len(Entries(Stage))'
             /\ \A j \in Answers("transfer")' : Turn(j)' <= Turn(i)'
    BY <1>1, <1>m, <2>1, <2>2, <2>3, <2>4
  <2> QED
    BY <1>u, <1>m, <1>n, <2>1, <2>3, <2>4, <2>5, <2>6 DEF Request
<1>9. Keyboard'
  BY <1>u, <1>1, <1>m, <1>n DEF Keyboard, Same
<1>10. OneReport'
  BY <1>u, <1>m DEF OneReport
<1> QED
  BY <1>1, <1>2, <1>3, <1>4, <1>5, <1>6, <1>7, <1>8, <1>9, <1>10

\* While the keyboard is in use nothing is out on the other rings but what is known.
LEMMA UsingFacts ==
  ASSUME XhciInv, Using
  PROVE  /\ ~late /\ ~Trying /\ port \in Ports /\ Outstanding = 0 /\ Own = 0 /\ ~Asked /\ Holding
         /\ Fly("cmd") = {} /\ Answers("cmd") = {} /\ granted # 0 /\ ~Unaddressed /\ ~Controlling
<1>1. ~Trying /\ Own = 0 /\ ~Asked /\ Holding
  BY DEF Using, Trying, Own, Asked, Holding
<1>2. ~late /\ Outstanding = 0
  BY <1>1 DEF XhciInv, Lag
<1> QED
  BY <1>1, <1>2, Basics DEF XhciInv, OneToken, Unaddressed, Controlling

\* A call changes only the ring for reports and the events.
LEMMA UsingStep ==
  ASSUME XhciInv, Using, Using', Rings', Same("cmd"), Same("ctrl"),
         Outstanding' = Outstanding, Answers("cmd")' = Answers("cmd"),
         UNCHANGED <<port, late, granted, addressed, device>>, Types', OneReport'
  PROVE  XhciInv'
<1>1. /\ ~late /\ ~Trying /\ port \in Ports /\ Outstanding = 0 /\ Own = 0 /\ ~Asked /\ Holding
      /\ Fly("cmd") = {} /\ Answers("cmd") = {} /\ granted # 0
  BY UsingFacts
<1>2. ~Trying' /\ Own' = 0 /\ ~Asked' /\ Holding' /\ ~Unaddressed' /\ ~Controlling'
  BY <1>1 DEF Using, Trying, Own, Asked, Holding, Unaddressed, Controlling
<1>3. OneToken'
  BY <1>1, <1>2 DEF OneToken, Same
<1>4. Lag'
  BY <1>1, <1>2 DEF XhciInv, Lag
<1>5. TokenLast' /\ Request'
  BY <1>2 DEF TokenLast, Request
<1>6. OnTime' /\ Unused' /\ Keyboard'
  BY <1>1, <1>2 DEF XhciInv, OnTime, Unused, Keyboard, Same
<1> QED
  BY <1>3, <1>4, <1>5, <1>6 DEF XhciInv

LEMMA SubmitReportInv ==
  ASSUME XhciInv, Using, Using', ~pending, SubmitReport,
         UNCHANGED <<evt, erdp, owed, port, stage, todo, late, ep, hcEvt, granted, addressed, conf, report, world>>
  PROVE  XhciInv'
<1> USE DEF XhciInv
<1>1. Pending("intr") = 0 /\ Answers("transfer") = {} /\ owed = <<>> /\ port \in Ports
  BY UsingFacts DEF OneReport
<1>2. /\ ring' = [ring EXCEPT !["intr"] = Enqueue(ring["intr"], IntrSize, "normal", port)]
      /\ hc' = [hc EXCEPT !["intr"] = [hc["intr"] EXCEPT !.rung = TRUE]] /\ pending'
  BY DEF SubmitReport
<1>3. /\ ring'["intr"] = Enqueue(ring["intr"], IntrSize, "normal", port)
      /\ hc'["intr"] = [hc["intr"] EXCEPT !.rung = TRUE]
      /\ \A q \in RingNames : q # "intr" => ring'[q] = ring[q] /\ hc'[q] = hc[q]
      /\ DOMAIN ring' = RingNames /\ DOMAIN hc' = RingNames
  BY <1>2 DEF Types, RingNames
<1>4. hc'["intr"] \in Consumer(IntrSize) /\ hc'["intr"].deq = hc["intr"].deq /\ hc'["intr"].cycle = hc["intr"].cycle
  BY <1>3, RingTypes, Zenon DEF Consumer
<1>5. ring'["intr"] \in Ring(IntrSize) /\ InStep(IntrSize, ring'["intr"], hc'["intr"]) /\ Pending("intr")' = 1
  <2>1. "intr" \in RingNames /\ Size["intr"] = IntrSize /\ InStep(IntrSize, ring["intr"], hc["intr"])
    BY RingTypes DEF Rings, RingNames
  <2>2. Pending("intr") + 1 <= IntrSize - 2
    BY <1>1, XhciAssumption, SMT
  <2>3. "normal" \in Ops \cup {"normal"} /\ port \in 0..NPorts
    BY <1>1, SMT DEF Ports
  <2>4. /\ ring'["intr"] \in Ring(IntrSize) /\ InStep(IntrSize, ring'["intr"], hc'["intr"])
        /\ Pending("intr")' = Pending("intr") + 1
    <3>1. PICK e : e = ring["intr"].enq
      OBVIOUS
    <3>2. Types /\ ring'["intr"] = Enqueue(ring["intr"], IntrSize, "normal", port)
      BY <1>3
    <3>3. Written("intr", IntrSize, "normal", port, e)
      BY ONLY <3>1, <3>2, <1>4, <2>1, <2>2, <2>3, PutStep, Zenon
    <3> QED
      BY <3>3, Zenon DEF Written
  <2> QED
    BY <1>1, <2>4, SMT
<1>6. Same("cmd") /\ Same("ctrl")
  BY <1>3, SameRing DEF RingNames
<1>7. Quiet /\ EventsInStep'
  BY QuietEvents DEF Rings
<1>8. Rings'
  BY <1>3, <1>5, <1>7 DEF Rings, RingNames
<1>9. Types'
  <2>1. \A q \in RingNames : ring'[q] \in Ring(Size[q]) /\ hc'[q] \in Consumer(Size[q])
    BY <1>3, <1>4, <1>5, RingTypes DEF RingNames
  <2>2. TypeOK'
    BY <1>2, <2>1, Zenon DEF Types, TypeOK, Consumer, world, Using
  <2>3. ~Trying' /\ pc' # "wait"
    BY DEF Trying, Using
  <2> QED
    BY <1>1, <1>3, <2>2, <2>3, Zenon DEF Types, world
<1>10. OneReport'
  BY <1>1, <1>2, <1>5, <1>7 DEF OneReport, Quiet
<1> QED
  BY <1>6, <1>7, <1>8, <1>9, <1>10, UsingStep DEF Outstanding, Same, Quiet, world

\* The driver takes a report: it is the one that is owed, from the buffer as it was.
Translated == owed # <<>> /\ report = Head(owed) /\ owed' = Tail(owed)

Polled == IF Translates THEN Translated ELSE owed' = owed

LEMMA ReceiveInv ==
  ASSUME XhciInv, Using, pending, NEW onward \in {"ready", "again"}, Receive(onward),
         UNCHANGED <<port, stage, todo, late, ep, hcEvt, granted, addressed, conf, report, world>>
  PROVE  XhciInv' /\ Polled
<1> USE DEF XhciInv
<1>u. UNCHANGED <<ring, hc, reads, device, enabled, typed, reports, errors, portEvents>> /\ Using' /\ pc' \in {"ready", "again"}
  BY DEF Receive, world, Using
<1>s. Same("cmd") /\ Same("ctrl") /\ Same("intr")
  BY <1>u, SameRing
<1>k. ~Trying' /\ pc' # "wait" /\ port' \in Ports
  BY <1>u, UsingFacts DEF Trying
<1>1. CASE ~EventReady
  <2>1. UNCHANGED <<evt, erdp, pending, owed>>
    BY <1>1 DEF Receive
  <2>2. Quiet /\ EventsInStep'
    BY <2>1, QuietEvents DEF Rings
  <2>3. Rings'
    BY <1>u, <2>2 DEF Rings
  <2>4. Types'
    BY <1>u, <1>k, <2>1, Zenon DEF Types, TypeOK
  <2>5. OneReport'
    BY <1>u, <1>s, <2>1, <2>2 DEF OneReport, Same, Quiet
  <2> QED
    BY <1>u, <1>s, <2>1, <2>2, <2>3, <2>4, <2>5, UsingStep DEF Outstanding, Same, Quiet, Polled, Translates
<1>2. CASE EventReady
  <2>d. PICK d, t : d = evt.deq /\ t = NextEvent.type
    OBVIOUS
  <2>0. /\ TakeEvent /\ pending' = (pending /\ t # "transfer")
        /\ owed' = IF t = "transfer" /\ NextEvent.ok /\ owed # <<>> THEN Tail(owed) ELSE owed
    BY <1>2, <2>d DEF Receive
  <2>1. /\ EventsInStep' /\ evt' \in EvtRing /\ erdp' \in 0..(EvtSize - 1)
        /\ NextEvent = evt.event[d] /\ evt'.event = evt.event
        /\ d \in Answers(t)
        /\ \A s : /\ Answers(s)' = Answers(s) \ {d}
                  /\ s # t => Answers(s)' = Answers(s) /\ d \notin Answers(s)
    BY <1>2, <2>d, <2>0, TakeStep
  <2>2. t # "cmd" /\ Answers("cmd")' = Answers("cmd")
    BY <2>1, UsingFacts
  <2>3. Rings'
    BY <1>u, <2>1 DEF Rings
  <2>4. owed' \in Seq(Reports) /\ pending' \in BOOLEAN
    <3>1. owed \in Seq(Reports) /\ (owed # <<>> => Tail(owed) \in Seq(Reports))
      BY SMT DEF Types, TypeOK
    <3> QED
      BY <2>0, <3>1
  <2>5. Types'
    BY <1>u, <1>k, <2>1, <2>4, Zenon DEF Types, TypeOK, EvtRing
  <2>e. erdp' # erdp /\ (Translates <=> t = "transfer" /\ NextEvent.ok)
    <3>1. erdp = d /\ d \in 0..(EvtSize - 1)
      BY <2>d, RingTypes DEF Rings, EventsInStep, EvtRing
    <3>2. erdp' # erdp
      <4>1. evt \in EvtRing
        BY RingTypes
      <4>2. CASE d + 1 = EvtSize
        <5>1. evt' = [evt EXCEPT !.deq = 0, !.cycle = 1 - @] /\ erdp' = evt'.deq
          BY <2>d, <2>0, <4>2, Zenon DEF TakeEvent
        <5>2. erdp' = 0
          BY <4>1, <5>1, Zenon DEF EvtRing
        <5> QED
          BY <3>1, <4>2, <5>2, XhciAssumption, SMT
      <4>3. CASE d + 1 # EvtSize
        <5>1. evt' = [evt EXCEPT !.deq = @ + 1] /\ erdp' = evt'.deq
          BY <2>d, <2>0, <4>3, Zenon DEF TakeEvent
        <5>2. erdp' = d + 1
          BY <2>d, <4>1, <5>1, Zenon DEF EvtRing
        <5> QED
          BY <3>1, <5>2, SMT
      <4> QED
        BY <4>2, <4>3
    <3> QED
      BY <2>d, <3>2 DEF Translates, Using
  <2>6. OneReport' /\ Polled
    <3>1. CASE t = "transfer"
      <4>1. Pending("intr") = 0 /\ Answers("transfer") = {d} /\ owed = IF evt.event[d].ok THEN <<report>> ELSE <<>>
        BY <2>1, <3>1 DEF OneReport
      <4>2. Pending("intr")' = 0 /\ Answers("transfer")' = {} /\ ~pending'
        BY <1>s, <2>0, <2>1, <3>1, <4>1 DEF Same
      <4>3. owed' = <<>> /\ Polled
        BY <2>0, <2>1, <2>e, <3>1, <4>1, SMT DEF Translated, Polled
      <4> QED
        BY <1>u, <4>2, <4>3 DEF OneReport
    <3>2. CASE t # "transfer"
      BY <1>u, <1>s, <2>0, <2>1, <2>e, <3>2 DEF OneReport, Same, Polled
    <3> QED
      BY <3>1, <3>2
  <2> QED
    BY <1>u, <1>s, <2>2, <2>3, <2>5, <2>6, UsingStep DEF Outstanding, Same
<1> QED
  BY <1>1, <1>2

LEMMA PollInv == XhciInv /\ Poll => XhciInv' /\ Polled
<1> SUFFICES ASSUME XhciInv, Poll PROVE XhciInv' /\ Polled
  OBVIOUS
<1>1. Using /\ UNCHANGED <<port, stage, todo, late, ep, hcEvt, granted, addressed, conf, report, world>>
  BY DEF Poll, Using
<1>2. CASE ~Plugged
  <2>1. pc' = "again" /\ UNCHANGED <<ring, hc, evt, erdp, pending, owed>>
    BY <1>2 DEF Poll
  <2>2. Same("cmd") /\ Same("ctrl") /\ Same("intr") /\ Quiet /\ Rings' /\ Outstanding' = Outstanding
    BY <1>1, <2>1, StillStep DEF XhciInv
  <2>3. Using' /\ ~Trying' /\ pc' # "wait" /\ port \in Ports
    BY <1>1, <2>1, UsingFacts DEF Using, Trying
  <2>4. Types'
    BY <1>1, <2>1, <2>3, Zenon DEF XhciInv, Types, TypeOK, world
  <2>5. OneReport'
    BY <1>1, <2>1, <2>2, <2>3 DEF XhciInv, OneReport, Same, Quiet
  <2> QED
    BY <1>1, <2>1, <2>2, <2>3, <2>4, <2>5, UsingStep DEF Quiet, world, Polled, Translates
<1>3. CASE Plugged /\ ~pending
  BY <1>1, <1>3, SubmitReportInv DEF Poll, Using, Polled, Translates
<1>4. CASE Plugged /\ pending
  BY <1>1, <1>4, ReceiveInv DEF Poll
<1> QED
  BY <1>2, <1>3, <1>4

LEMMA PollAgainInv == XhciInv /\ PollAgain => XhciInv' /\ Polled
<1> SUFFICES ASSUME XhciInv, PollAgain PROVE XhciInv' /\ Polled
  OBVIOUS
<1>1. Using /\ UNCHANGED <<port, stage, todo, late, ep, hcEvt, granted, addressed, conf, report, world>>
  BY DEF PollAgain, Using
<1>2. CASE ~pending
  BY <1>1, <1>2, SubmitReportInv DEF PollAgain, Using, Polled, Translates
<1>3. CASE pending
  BY <1>1, <1>3, ReceiveInv DEF PollAgain
<1> QED
  BY <1>2, <1>3

\* The controller finds nothing where it looks for a ring.
LEMMA HcStrayInv ==
  ASSUME XhciInv, Astray, NEW r \in {"ctrl", "intr"}, HcStray(r)
  PROVE  XhciInv'
<1> USE DEF XhciInv
<1>0. /\ stage \in 1..8 /\ port \in Nat /\ (Trying \/ Using => port \in Ports)
      /\ Outstanding \in Nat /\ (Outstanding = 0 => Answers("cmd") = {} /\ Fly("cmd") = {})
  BY Basics
<1>q. PICK q : q = hcEvt.enq
  OBVIOUS
<1>u. UNCHANGED <<pc, port, stage, todo, ring, late, device, conf, granted, addressed, pending, owed, report, hc>>
  BY DEF HcStray, world
<1>1. /\ Same("cmd") /\ Same("ctrl") /\ Same("intr") /\ Rings' /\ Outstanding' = Outstanding
      /\ Answers("cmd")' = Answers("cmd") /\ Answers("transfer")' = Answers("transfer") \cup {q}
      /\ \A i \in Answers("cmd") \cup Answers("transfer") : evt'.event[i] = evt.event[i] /\ Turn(i)' = Turn(i)
      /\ evt' \in EvtRing /\ hcEvt' \in HcPlace /\ evt'.event[q].ok = FALSE
  <2>1. Same("cmd") /\ Same("ctrl") /\ Same("intr")
    BY <1>u, SameRing
  <2>2. HcPost("transfer", FALSE) /\ erdp' = erdp
    BY DEF HcStray
  <2>3. /\ EventsInStep' /\ evt' \in EvtRing /\ hcEvt' \in HcPlace /\ evt'.event[q].ok = FALSE
        /\ Answers("transfer")' = Answers("transfer") \cup {q}
        /\ \A t : t # "transfer" => Answers(t)' = Answers(t)
        /\ \A t : \A i \in Answers(t) : evt'.event[i] = evt.event[i] /\ Turn(i)' = Turn(i)
    BY <1>q, <2>2, PostStep
  <2>4. Rings'
    BY <1>u, <2>3 DEF Rings
  <2> QED
    BY <2>1, <2>3, <2>4 DEF Outstanding, Same
<1>w. /\ ~Using /\ (Trying => stage <= 3) /\ (late \/ ~Unaddressed)
      /\ \A i \in Answers("transfer") : ~evt.event[i].ok
      /\ ~late /\ Controlling => stage = 3 /\ todo = <<>>
  <2>1. ~AsMeant /\ hc[r].rung
    BY DEF Astray, HcStray
  <2>2. /\ ~Using /\ (Trying => stage <= 3)
        /\ \A i \in Answers("transfer") : ~evt.event[i].ok
        /\ ~late /\ Trying /\ stage = 3 /\ todo # <<>> => ~hc["ctrl"].rung
    BY <2>1 DEF Astray, Nowhere
  <2>3. r = "ctrl"
    BY <2>1, <2>2 DEF Unused, Idle0
  <2>4. late \/ ~Unaddressed
    BY <2>1, <2>3 DEF Unused, Idle0
  <2>5. Controlling => Trying /\ stage = 3
    BY <2>2, SMT DEF Controlling
  <2> QED
    BY <2>1, <2>2, <2>3, <2>4, <2>5
<1>2. Types'
  <2>1. UNCHANGED <<pc, port, stage, todo, ring, hc, erdp, granted, addressed, enabled, conf, pending, late,
                    report, typed, owed, reads, device, reports, errors, portEvents>>
    BY DEF HcStray, world
  <2>2. ep' \in EpStates
    BY Zenon DEF HcStray, Types, TypeOK, EpStates, RingNames
  <2> QED
    BY <1>1, <2>1, <2>2, Zenon DEF Types, TypeOK, Trying, Using, Stage, EvtRing, HcPlace, EpStates
<1>3. OneToken'
  BY <1>0, <1>1, <1>u, SMT DEF Same, Quiet, OneToken, Holding, Asked, Success, Later, Trying, Using, Stage, Op
<1>4. Lag'
  BY <1>0, <1>1, <1>u, SMT DEF Same, Quiet, Lag, Lost, Own, Holding, Asked, Success, Later, Trying, Using, Stage, Op
<1>5. TokenLast'
  BY <1>0, <1>1, <1>u, SMT DEF Same, Quiet, TokenLast, Holding, Asked, Success, Later, Trying, Using, Stage, Op
<1>6. OnTime'
  BY <1>0, <1>1, <1>u, SMT DEF Same, Quiet, OnTime, Holding, Asked, Success, Later, Trying, Using, Stage, Op
<1>7. Unused'
  <2>1. late' \/ ~Unaddressed'
    BY <1>1, <1>u, <1>w, Zenon DEF Unaddressed, Trying, Success
  <2> QED
    BY <1>u, <1>w, <2>1 DEF Unused, Using
<1>8. Request'
  <2> SUFFICES ASSUME ~late, Controlling PROVE Request'
    BY <1>u DEF Request, Controlling, Trying, Stage
  <2>1. Stage = "head" /\ Sent = 3
    <3>1. Stage = "head" /\ Len(Entries(Stage)) = 3 /\ Len(todo) = 0
      BY <1>w DEF Stage, Stages, Entries, Commands
    <3> QED
      BY <3>1, SMT DEF Sent
  <2>2. Sent' = Sent /\ Consumed' = Consumed /\ Stage' = Stage
    BY <1>1, <1>u DEF Sent, Consumed, Stage, Same
  <2>3. \A i \in Answers("transfer")' : ~evt'.event[i].ok
    BY <1>1, <1>w
  <2>4. /\ Pending("ctrl") <= Sent
        /\ \A i \in Fly("ctrl") : Op("ctrl", i) = Entries(Stage)[Consumed + Ahead("ctrl", i) + 1]
    BY DEF Request
  <2> QED
    BY <1>1, <1>u, <2>1, <2>2, <2>3, <2>4 DEF Request, Op, Same
<1>9. Keyboard'
  BY <1>0, <1>1, <1>u, <1>w, SMT DEF Same, Keyboard, Using, Trying
<1>10. OneReport'
  BY <1>1, <1>u, <1>w DEF Same, OneReport, Using
<1> QED
  BY <1>1, <1>2, <1>3, <1>4, <1>5, <1>6, <1>7, <1>8, <1>9, <1>10

-------------------------------------------------------------------------------
\* The controller that looks elsewhere.

\* What a command does to the rings.
LEMMA CommandStep ==
  ASSUME HcCommand
  PROVE  \E ok \in BOOLEAN, given \in {{}, {"ctrl"}, {"intr"}} :
           /\ HcPost("cmd", ok)
           /\ ep' = [r \in RingNames |-> IF r \in given THEN EpContext ELSE ep[r]]
           /\ hc' = [r \in RingNames |-> IF r \in given THEN [deq |-> 0, cycle |-> 1, rung |-> FALSE]
                                                         ELSE HcAdvance("cmd")[r]]
<1> DEFINE op == HcEntry("cmd").op
<1>1. PICK ok \in {FALSE, op # "enable" \/ granted < SlotsEnabled} :
        /\ HcPost("cmd", ok)
        /\ ep' = [r \in RingNames |-> IF r \in (IF ok THEN HandedOver(op) ELSE {}) THEN EpContext ELSE ep[r]]
        /\ hc' = [r \in RingNames |-> IF r \in (IF ok THEN HandedOver(op) ELSE {})
                                       THEN [deq |-> 0, cycle |-> 1, rung |-> FALSE] ELSE HcAdvance("cmd")[r]]
  BY Zenon DEF HcCommand
<1> DEFINE given == IF ok THEN HandedOver(op) ELSE {}
<1>2. ok \in BOOLEAN
  BY <1>1, Zenon
<1>3. given \in {{}, {"ctrl"}, {"intr"}}
  BY DEF HandedOver
<1> HIDE DEF given
<1>4. /\ HcPost("cmd", ok)
      /\ ep' = [r \in RingNames |-> IF r \in given THEN EpContext ELSE ep[r]]
      /\ hc' = [r \in RingNames |-> IF r \in given THEN [deq |-> 0, cycle |-> 1, rung |-> FALSE]
                                                    ELSE HcAdvance("cmd")[r]]
  BY <1>1, Zenon DEF given
<1> QED
  BY <1>2, <1>3, <1>4, Zenon

\* The controller reads endpoint contexts all along as it did at first.
LEMMA ReadsStays ==
  ASSUME [Next]_vars
  PROVE  AsMeant' <=> AsMeant
<1>1. reads' = reads
  BY Zenon DEF Next, Driver, Controller, Abandoned, Receive, vars, world, StartUp, ScanEnds, SkipPort, ResetPort,
       SubmitEntry, RingDoorbell, Answered, Dropped, TimesOut, Poll, PollAgain, HcLink, HcIdle, HcCommand,
       HcControl, HcStall, HcReport, HcShort, HcReportFails, HcStray, HcPortEvent, Press, Unplug
<1> QED
  BY <1>1 DEF AsMeant

\* Only the command that hands a ring over makes the controller look away.
LEMMA AwayOnly ==
  ASSUME XhciInv, Astray, [Next]_vars
  PROVE  ep'["ctrl"] = "away" \/ ep'["intr"] = "away" => ~AsMeant
<1> SUFFICES ASSUME AsMeant PROVE ep'["ctrl"] # "away" /\ ep'["intr"] # "away"
  OBVIOUS
<1>1. ep["ctrl"] # "away" /\ ep["intr"] # "away" /\ DOMAIN ep = RingNames
  BY DEF Astray, XhciInv, Types, TypeOK
<1>2. CASE ep' = ep
  BY <1>1, <1>2
<1>3. CASE HcCommand
  <2>1. \E given : ep' = [r \in RingNames |-> IF r \in given THEN EpContext ELSE ep[r]]
    BY <1>3, CommandStep, Zenon
  <2> QED
    BY <1>1, <2>1 DEF EpContext, RingNames
<1>4. CASE HcStall \/ HcReportFails \/ \E r \in {"ctrl", "intr"} : HcStray(r)
  BY <1>1, <1>4 DEF HcStall, HcReportFails, HcStray, RingNames
<1>5. ep' = ep \/ HcCommand \/ HcStall \/ HcReportFails \/ \E r \in {"ctrl", "intr"} : HcStray(r)
  BY Zenon DEF Next, Driver, Controller, Abandoned, vars, controller, StartUp, ScanEnds, SkipPort, ResetPort,
       SubmitEntry, RingDoorbell, Answered, Dropped, TimesOut, Poll, PollAgain, HcLink, HcIdle, HcControl,
       HcReport, HcShort, HcPortEvent, Press, Unplug
<1> QED
  BY <1>2, <1>3, <1>4, <1>5

LEMMA NowhereInv ==
  ASSUME XhciInv, Astray, [Next]_vars
  PROVE  Nowhere'
<1> SUFFICES ASSUME ~AsMeant PROVE Nowhere'
  BY ReadsStays DEF Nowhere
<1>0. /\ ep["ctrl"] # "good" /\ ep["intr"] # "good"
      /\ ~Using /\ (Trying => stage <= 3) /\ stage \in 1..8
      /\ \A i \in Answers("transfer") : ~evt.event[i].ok
      /\ ~late /\ Trying /\ stage = 3 /\ todo # <<>> => ~hc["ctrl"].rung
  BY Basics DEF Astray, Nowhere
<1>t. Types /\ Rings /\ Unused /\ DOMAIN ep = RingNames /\ DOMAIN hc = RingNames
  BY DEF XhciInv, Types, TypeOK
<1>n. ~HcControl /\ ~HcStall /\ ~HcReport /\ ~HcShort /\ ~HcReportFails /\ ~Poll /\ ~PollAgain
      /\ (\A r \in Reports : ~Press(r)) /\ ~Unplug
  BY <1>0 DEF HcControl, HcStall, HcReport, HcShort, HcReportFails, Poll, PollAgain, Press, Unplug, HcOwns, Using
<1>e. UNCHANGED <<evt, hcEvt, erdp>> => \A i \in Answers("transfer")' : ~evt'.event[i].ok
  BY <1>0, QuietEvents DEF Quiet
<1>1. CASE StartUp \/ ScanEnds \/ SkipPort \/ ResetPort \/ TimesOut
  <2>1. UNCHANGED <<ep, evt, hcEvt, erdp>> /\ pc' \in {"scan", "failed", "submit"} /\ (pc' = "submit" => stage' = 1)
    BY <1>1 DEF StartUp, ScanEnds, SkipPort, ResetPort, TimesOut, NextPort, controller
  <2> QED
    BY <1>0, <1>e, <2>1 DEF Nowhere, Using, Trying
<1>2. CASE SubmitEntry \/ RingDoorbell
  <2>1. /\ UNCHANGED <<ep, evt, hcEvt, erdp, stage, late>> /\ pc = "submit" /\ pc' \in {"submit", "wait"}
        /\ todo' # <<>> => todo # <<>> /\ hc' = hc
    BY <1>2 DEF SubmitEntry, RingDoorbell
  <2> QED
    BY <1>0, <1>e, <2>1 DEF Nowhere, Using, Trying
<1>3. CASE Answered \/ Dropped
  <2>d. PICK d, t : d = evt.deq /\ t = NextEvent.type
    OBVIOUS
  <2>1. /\ UNCHANGED <<ep, hcEvt, hc, late>> /\ EventReady /\ TakeEvent /\ pc = "wait" /\ todo = <<>> /\ Trying
    BY <1>3, <1>t DEF Answered, Dropped, controller, Types, Trying
  <2>2. /\ NextEvent = evt.event[d] /\ evt'.event = evt.event /\ d \in Answers(t)
        /\ \A s : Answers(s)' = Answers(s) \ {d}
    BY <1>t, <2>d, <2>1, TakeStep
  <2>3. \A i \in Answers("transfer")' : ~evt'.event[i].ok
    BY <1>0, <2>2
  <2>4. CASE Dropped
    BY <1>0, <2>1, <2>3, <2>4 DEF Dropped, Nowhere, Using, Trying
  <2>5. CASE Answered
    <3>1. NextEvent.ok => stage \in 1..2
      <4>1. NextEvent.ok => t # "transfer"
        BY <1>0, <2>d, <2>2
      <4>2. stage = 3 => t = "transfer"
        BY <2>d, <2>5 DEF Answered, RingOf, Stages, Commands
      <4> QED
        BY <1>0, <2>1, <4>1, <4>2, SMT
    <3>2. NextPort \/ (NextEvent.ok /\ NextStage)
      <4>1. NextEvent.ok => Stages[stage] \in {"enable", "address"}
        BY <3>1 DEF Stages
      <4> QED
        BY <2>5, <4>1 DEF Answered
    <3>3. CASE NextPort
      BY <1>0, <2>1, <2>3, <3>3 DEF NextPort, Nowhere, Using, Trying
    <3>4. CASE NextEvent.ok /\ NextStage
      <4>1. pc' = "submit" /\ stage' = stage + 1 /\ stage' <= 3 /\ (stage' = 3 => stage = 2)
        BY <3>1, <3>4, SMT DEF NextStage
      <4>2. ~late /\ stage = 2 => ~hc["ctrl"].rung
        BY <1>t, <2>1 DEF Unused, Unaddressed, Idle0
      <4> QED
        BY <1>0, <2>1, <2>3, <4>1, <4>2 DEF Nowhere, Using, Trying
    <3> QED
      BY <3>2, <3>3, <3>4
  <2> QED
    BY <1>3, <2>4, <2>5
<1>4. CASE \E r \in RingNames : HcLink(r) \/ HcIdle(r)
  <2>1. /\ UNCHANGED <<ep, evt, hcEvt, erdp, pc, stage, todo, late>>
        /\ hc'["ctrl"].rung => hc["ctrl"].rung
    <3> PICK r \in RingNames : HcLink(r) \/ HcIdle(r)
      BY <1>4
    <3>1. UNCHANGED <<ep, evt, hcEvt, erdp, pc, stage, todo, late>>
      BY DEF HcLink, HcIdle, driver
    <3>2. hc' = [hc EXCEPT ![r] = [hc[r] EXCEPT !.deq = 0, !.cycle = 1 - @]]
            \/ hc' = [hc EXCEPT ![r] = [hc[r] EXCEPT !.rung = FALSE]]
      BY DEF HcLink, HcIdle
    <3>3. PICK k : /\ hc' = [hc EXCEPT ![r] = k]
                   /\ k \in {[hc[r] EXCEPT !.deq = 0, !.cycle = 1 - @], [hc[r] EXCEPT !.rung = FALSE]}
      BY <3>2, Zenon
    <3>4. /\ hc["ctrl"] \in Consumer(CtrlSize) /\ "ctrl" \in DOMAIN hc
      BY <1>t, RingTypes DEF RingNames
    <3>5. hc'["ctrl"] = IF r = "ctrl" THEN k ELSE hc["ctrl"]
      BY <3>3, <3>4
    <3>6. r = "ctrl" => k.rung \in {hc["ctrl"].rung, FALSE}
      BY <3>3, <3>4, Zenon DEF Consumer
    <3> QED
      BY <3>1, <3>5, <3>6
  <2> QED
    BY <1>0, <1>e, <2>1 DEF Nowhere, Using, Trying
<1>5. CASE HcCommand
  <2>1. UNCHANGED <<erdp, pc, stage, todo, late>>
    BY <1>5 DEF HcCommand
  <2>2. PICK ok \in BOOLEAN, given \in {{}, {"ctrl"}, {"intr"}} :
          /\ HcPost("cmd", ok)
          /\ ep' = [r \in RingNames |-> IF r \in given THEN EpContext ELSE ep[r]]
          /\ hc' = [r \in RingNames |-> IF r \in given THEN [deq |-> 0, cycle |-> 1, rung |-> FALSE]
                                                        ELSE HcAdvance("cmd")[r]]
    BY <1>5, CommandStep, Zenon
  <2>3. ep'["ctrl"] # "good" /\ ep'["intr"] # "good"
    BY <1>0, <2>2 DEF EpContext, RingNames
  <2>4. hc'["ctrl"].rung => hc["ctrl"].rung
    BY <1>t, <2>2 DEF HcAdvance, RingNames
  <2>5. \A i \in Answers("transfer")' : ~evt'.event[i].ok
    <3>1. PICK q : q = hcEvt.enq
      OBVIOUS
    <3>2. /\ Answers("transfer")' = Answers("transfer")
          /\ \A i \in Answers("transfer") : evt'.event[i] = evt.event[i]
      BY <1>t, <2>1, <2>2, <3>1, PostStep
    <3> QED
      BY <1>0, <3>2
  <2> QED
    BY <1>0, <2>1, <2>3, <2>4, <2>5 DEF Nowhere, Using, Trying
<1>6. CASE HcPortEvent
  <2>1. UNCHANGED <<ep, hc, erdp, pc, stage, todo, late>> /\ HcPost("port", TRUE)
    BY <1>6 DEF HcPortEvent
  <2>2. \A i \in Answers("transfer")' : ~evt'.event[i].ok
    <3>1. PICK q : q = hcEvt.enq
      OBVIOUS
    <3>2. /\ Answers("transfer")' = Answers("transfer")
          /\ \A i \in Answers("transfer") : evt'.event[i] = evt.event[i]
      BY <1>t, <2>1, <3>1, PostStep
    <3> QED
      BY <1>0, <3>2
  <2> QED
    BY <1>0, <2>1, <2>2 DEF Nowhere, Using, Trying
<1>7. CASE \E r \in {"ctrl", "intr"} : HcStray(r)
  <2>1. /\ UNCHANGED <<hc, erdp, pc, stage, todo, late>> /\ HcPost("transfer", FALSE)
        /\ ep'["ctrl"] # "good" /\ ep'["intr"] # "good"
    BY <1>0, <1>7, <1>t DEF HcStray, RingNames
  <2>2. PICK q : q = hcEvt.enq
    OBVIOUS
  <2>3. /\ Answers("transfer")' = Answers("transfer") \cup {q} /\ evt'.event[q].ok = FALSE
        /\ \A i \in Answers("transfer") : evt'.event[i] = evt.event[i]
    BY <1>t, <2>1, <2>2, PostStep
  <2> QED
    BY <1>0, <2>1, <2>3 DEF Nowhere, Using, Trying
<1>8. CASE UNCHANGED vars
  <2>1. UNCHANGED <<ep, evt, hcEvt, erdp, hc, pc, stage, todo, late>>
    BY <1>8 DEF vars, driver, controller
  <2> QED
    BY <1>0, <1>e, <2>1 DEF Nowhere, Using, Trying
<1> QED
  BY <1>n, <1>1, <1>2, <1>3, <1>4, <1>5, <1>6, <1>7, <1>8 DEF Next, Driver, Controller, Abandoned

-------------------------------------------------------------------------------
\* The invariant, and what follows from it.

LEMMA NextInv ==
  ASSUME FewPorts, XhciInv, Astray, [Next]_vars
  PROVE  XhciInv' /\ Astray'
<1>1. ASSUME Driver PROVE XhciInv'
  <2>1. ASSUME SubmitEntry PROVE XhciInv'
    <3>1. stage \in {1, 2, 8} \/ stage \in 3..7
      BY Basics
    <3> QED
      BY <2>1, <3>1, SubmitCommandInv, SubmitControlInv
  <2>2. ASSUME Answered PROVE XhciInv'
    <3>1. NextPort \/ NextStage \/ pc' = "ready"
      BY <2>2 DEF Answered
    <3> QED
      BY <2>2, <3>1, AnswerGivesUp, AnswerMovesOn, AnswerReady
  <2> QED
    BY <1>1, <2>1, <2>2, StartUpInv, ScanEndsInv, SkipPortInv, ResetPortInv, RingDoorbellInv, DroppedInv,
       TimesOutInv, PollInv, PollAgainInv DEF Driver
<1>2. ASSUME Controller PROVE XhciInv'
  <2>1. ASSUME NEW r \in {"ctrl", "intr"}, HcStray(r) PROVE XhciInv'
    BY <2>1, HcStrayInv
  <2>2. ASSUME NEW r \in RingNames, HcLink(r) \/ HcIdle(r) PROVE XhciInv'
    BY <2>2, HcLinkInv, HcIdleInv
  <2> QED
    BY <1>2, <2>1, <2>2, HcCommandInv, HcControlInv, HcStallInv, HcReportInv, HcShortInv,
       HcReportFailsInv, HcPortEventInv DEF Controller
<1>3. ASSUME UNCHANGED vars PROVE XhciInv'
  BY <1>3, StutterInv
<1>4. XhciInv'
  <2>1. ASSUME NEW r \in Reports, Press(r) PROVE XhciInv'
    BY <2>1, PressInv
  <2>2. Driver \/ Controller \/ (\E r \in Reports : Press(r)) \/ Unplug \/ UNCHANGED vars
    BY Zenon DEF Next, Abandoned
  <2> QED
    BY <1>1, <1>2, <1>3, <2>1, <2>2, UnplugInv
<1>5. Astray'
  BY AwayOnly, NowhereInv, ReadsStays DEF Astray
<1> QED
  BY <1>4, <1>5

LEMMA Invariance ==
  ASSUME FewPorts
  PROVE  Spec => [](XhciInv /\ Astray)
<1>1. Init => Astray
  <2> SUFFICES ASSUME Init PROVE Astray
    OBVIOUS
  <2>1. pc = "reset" /\ ep["ctrl"] = "none" /\ ep["intr"] = "none"
    BY DEF Init, RingNames
  <2>2. Answers("transfer") = {}
    BY DEF Init, Answers
  <2> QED
    BY <2>1, <2>2 DEF Astray, Nowhere, Using, Trying
<1>2. XhciInv /\ Astray /\ [Next]_vars => XhciInv' /\ Astray'
  BY NextInv
<1> QED
  BY <1>1, <1>2, InitInv, PTL DEF Spec

\* Whatever the controller does and however late, no place leaves its ring and
\* every variable keeps its range (xhci_ring_enqueue, xhci_poll_event).
THEOREM XhciTypes ==
  ASSUME FewPorts
  PROVE  Spec => []TypeOK
<1>1. XhciInv => TypeOK
  BY DEF XhciInv, Types
<1> QED
  BY <1>1, Invariance, PTL

\* The invariant of one ring gives the agreement on each entry, the link included.
LEMMA AgreeOnRing ==
  ASSUME NEW n \in Nat, n >= 3, NEW x \in Ring(n), NEW h \in Consumer(n), InStep(n, x, h),
         NEW i \in 0..(n - 2) \cup {h.deq}
  PROVE  LooksWritten(i, x.trb[i].cycle, h.deq, h.cycle) <=> InFlight(i, x.enq, x.cycle, h.deq, h.cycle)
<1>1. CASE i \in 0..(n - 2)
  BY <1>1 DEF InStep
<1>2. CASE i \notin 0..(n - 2)
  <2>1. i = h.deq /\ h.deq = n - 1 /\ x.enq \in 0..(n - 2)
    BY <1>2, SMT DEF Consumer, Ring
  <2>2. x.cycle # h.cycle /\ x.trb[n - 1].cycle = h.cycle
    BY <2>1, SMT DEF InStep
  <2> QED
    BY <2>1, <2>2, SMT DEF LooksWritten, InFlight
<1> QED
  BY <1>1, <1>2

\* On the rings for commands and events the reader takes what the writer has put there
\* and it has not yet taken, on every lap (xhci_ring_enqueue, xhci_poll_event).  On the
\* rings for transfers the same holds of a controller that takes them where the driver
\* built them, until a wait has timed out.
THEOREM RingsStayInStep ==
  ASSUME FewPorts
  PROVE  Spec => []RingsAgree
<1>1. XhciInv => RingsAgree
  <2> SUFFICES ASSUME XhciInv PROVE RingsAgree
    OBVIOUS
  <2>1. ASSUME NEW r \in RingNames, r = "cmd" \/ (AsMeant /\ ~late), NEW i \in 0..(Size[r] - 2) \cup {hc[r].deq}
        PROVE  LooksWritten(i, ring[r].trb[i].cycle, hc[r].deq, hc[r].cycle)
                 <=> InFlight(i, ring[r].enq, ring[r].cycle, hc[r].deq, hc[r].cycle)
    <3>1. /\ Size[r] \in Nat /\ Size[r] >= 3
          /\ ring[r] \in Ring(Size[r]) /\ hc[r] \in Consumer(Size[r])
      BY RingTypes, XhciAssumption, SMT DEF RingNames, XhciInv
    <3>2. InStep(Size[r], ring[r], hc[r])
      BY <2>1, RingTypes DEF RingNames, XhciInv, Rings
    <3> QED
      BY <3>1, <3>2, AgreeOnRing
  <2>2. EventsInStep
    BY DEF XhciInv, Rings
  <2> QED
    BY <2>1, <2>2 DEF RingsAgree, EventsInStep
<1> QED
  BY <1>1, Invariance, PTL

\* xhci_init finds a keyboard only where there was one, on the port it says, even
\* though it tells answers apart by their type alone: the one slot that CONFIG
\* allows is the token that only the attempt in time can hold.
THEOREM FoundOnRightPort ==
  ASSUME FewPorts
  PROVE  Spec => []FoundRight
<1>1. XhciInv => FoundRight
  BY DEF XhciInv, Lag, OnTime, Keyboard, FoundRight, Using
<1> QED
  BY <1>1, Invariance, PTL

\* A controller that reads the endpoint context as specified looks for the rings for
\* transfers where they are not, and the driver never finds a keyboard: what comes
\* late for one port is no success for another (xhci_setup_ep_context,
\* xhci_wait_event).
THEOREM NoKeyboardAstray ==
  ASSUME FewPorts
  PROVE  Spec => []NoneFound
<1>1. Astray => NoneFound
  BY DEF Astray, Nowhere, NoneFound, Using
<1> QED
  BY <1>1, Invariance, PTL

\* No report is translated that was not transferred, none twice, none out of order and
\* none from a buffer that has been written over: xhci_submit_kbd_in is called only
\* while no transfer is out, and after its event has been taken.
THEOREM ReportsInOrder ==
  ASSUME FewPorts
  PROVE  Spec => OnceInOrder
<1>1. XhciInv /\ [Next]_vars =>
        [IF Translates THEN owed # <<>> /\ report = Head(owed) /\ owed' = Tail(owed)
                       ELSE owed' \in {owed, Append(owed, report')}]_vars
  <2> SUFFICES ASSUME XhciInv, [Next]_vars
               PROVE  (IF Translates THEN Translated ELSE owed' \in {owed, Append(owed, report')})
    BY DEF Translated
  <2>1. CASE Poll \/ PollAgain
    BY <2>1, PollInv, PollAgainInv DEF Polled
  <2>2. CASE Driver /\ ~Poll /\ ~PollAgain
    <3>1. ~Translates /\ owed' = owed
      BY <2>2 DEF Driver, StartUp, ScanEnds, SkipPort, ResetPort, SubmitEntry, RingDoorbell, Answered, Dropped,
           TimesOut, Translates
    <3> QED
      BY <3>1
  <2>3. CASE Controller \/ UNCHANGED vars \/ (\E r \in Reports : Press(r)) \/ Unplug
    <3>1. erdp' = erdp
      BY <2>3 DEF Controller, HcLink, HcIdle, HcCommand, HcControl, HcStall, HcStray, HcReport, HcShort,
           HcReportFails, HcPortEvent, Press, Unplug, vars, driver
    <3>2. owed' \in {owed, Append(owed, report')}
      BY <2>3 DEF Controller, HcLink, HcIdle, HcCommand, HcControl, HcStall, HcStray, HcReport, HcShort,
           HcReportFails, HcPortEvent, Press, Unplug, vars
    <3> QED
      BY <3>1, <3>2 DEF Translates
  <2> QED
    BY <2>1, <2>2, <2>3 DEF Next, Abandoned
<1> QED
  BY <1>1, Invariance, PTL DEF Spec, OnceInOrder
===============================================================================
