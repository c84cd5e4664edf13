--------------------------------- MODULE Xhci ---------------------------------
(***************************************************************************)
(* The xHCI driver of src/src/usb_xhci.c and the controller it talks to.   *)
(*                                                                         *)
(* They share four rings.  The driver writes commands, control transfers   *)
(* and interrupt transfers into three of them and the controller writes    *)
(* events into the fourth.  Who owns an entry is told by its cycle bit     *)
(* alone, whose meaning flips on every lap.  The driver polls: it waits    *)
(* for an event of some type, gives up after 500000 polls, and never asks  *)
(* to which request an event belongs.                                      *)
(*                                                                         *)
(* Actions of the controller are external.  There are two of them: with    *)
(* AsMeant it takes a transfer ring where the driver has built it; without *)
(* it reads the endpoint context as the xHCI specification lays it out,    *)
(* and looks for the ring 4 GiB higher.  Real controllers do the latter.   *)
(***************************************************************************)
EXTENDS Integers, Sequences

CONSTANTS
  NPorts,                                  \* xhci_max_ports
  CmdSize, CtrlSize, IntrSize, EvtSize,    \* XHCI_..._RING_SIZE
  Keys,                                    \* keys of the keyboard
  MaxReports,                              \* bound: reports the keyboard sends
  MaxErrors,                               \* bound: interrupt transfers that fail
  MaxPortEvents                            \* bound: port status events

ASSUME XhciAssumption ==
  /\ NPorts \in Nat \ {0} /\ NPorts < 255   \* with 255 the loop's uint8_t never ends
  /\ CmdSize \in Nat /\ CmdSize >= 3    \* the smallest rings that hold what is
  /\ CtrlSize \in Nat /\ CtrlSize >= 5  \* written to them at once, with the link
  /\ IntrSize \in Nat /\ IntrSize >= 3  \* entry between
  /\ EvtSize \in Nat /\ EvtSize >= 2
  /\ "up" \notin Keys
  /\ MaxReports \in Nat /\ MaxErrors \in Nat /\ MaxPortEvents \in Nat

Ports == 1..NPorts

Reports == Keys \cup {"up"}        \* a report with a key down, or with none

RingNames == {"cmd", "ctrl", "intr"}

Size == [r \in RingNames |-> CASE r = "cmd" -> CmdSize [] r = "ctrl" -> CtrlSize
                               [] OTHER -> IntrSize]

\* The requests of xhci_enumerate_keyboard, in order.
Stages == <<"enable", "address", "head", "full",
            "setConfig", "setProtocol", "setIdle", "configure">>

Commands == {"enable", "address", "configure"}

\* The entries that a request puts on its ring.
Entries(stage) ==
  CASE stage \in Commands         -> <<stage>>
    [] stage \in {"head", "full"} -> <<"setup", "data", "status">>
    [] OTHER                      -> <<"setup", "status">>

RingOf(stage) == IF stage \in Commands THEN "cmd" ELSE "ctrl"

Trbs == [op : Commands \cup {"none", "setup", "data", "status", "normal"},
         port : 0..NPorts, cycle : {0, 1}]

Events == [type : {"none", "cmd", "transfer", "port"}, ok : BOOLEAN,
           cycle : {0, 1}]

VARIABLES
  pc, port, stage,   \* where xhci_init is; then where xhci_keyboard_get_event is
  todo,              \* the entries still to be written
  ring,              \* the driver's rings: entries, enqueue, cycle
  hc,                \* the controller's view of them: dequeue, cycle, doorbell
  ep,                \* whether the controller works at a ring
  evt,               \* the event ring and the driver's place in it
  hcEvt,             \* the controller's place in the event ring
  erdp,              \* the place the driver has told the controller
  granted, addressed,  \* slots granted, the first is slot 1; the port it stands for
  reads,             \* how the controller reads endpoint contexts: "meant" or "specified"
  device, enabled,   \* what is plugged into each port; the enabled ports
  conf,              \* config_full, the buffer for the configuration
  pending,           \* xhci_kbd_pending
  report,            \* xhci_kbd_report
  typed,             \* reports that wait in the keyboard
  owed,              \* history: reports transferred and not yet translated
  late,              \* history: a wait has timed out
  reports, errors, portEvents                    \* what the bounds still allow

driver     == <<pc, port, stage, todo, ring, evt, erdp, pending, late>>
controller == <<hc, ep, hcEvt, granted, addressed, conf, report>>
world      == <<reads, device, enabled, typed, reports, errors, portEvents>>
vars       == <<driver, controller, world, owed>>

-------------------------------------------------------------------------------
\* Rings.

\* xhci_ring_init: all zero but the link entry, which carries the cycle bit 1.
NewRing(n) ==
  [trb   |-> [i \in 0..(n - 1) |->
                [op |-> "none", port |-> 0, cycle |-> IF i = n - 1 THEN 1 ELSE 0]],
   enq   |-> 0,
   cycle |-> 1]

\* Slip: the link entry keeps its cycle bit.
EnqueueNoHandover(r, n, op, p) ==
  LET put  == [r EXCEPT !.trb[r.enq] = [op |-> op, port |-> p, cycle |-> r.cycle]]
      next == r.enq + 1
  IN  IF next = n - 1
      THEN [put EXCEPT !.enq = 0, !.cycle = 1 - r.cycle]
      ELSE [put EXCEPT !.enq = next]

\* Slip: the link entry is written over.
EnqueueOverLink(r, n, op, p) ==
  LET put == [r EXCEPT !.trb[r.enq] = [op |-> op, port |-> p, cycle |-> r.cycle]]
  IN  IF r.enq + 1 = n THEN [put EXCEPT !.enq = 0, !.cycle = 1 - r.cycle]
                       ELSE [put EXCEPT !.enq = @ + 1]

\* xhci_ring_enqueue: before the last entry the link entry is handed over and
\* the cycle flips.
Enqueue(r, n, op, p) ==
  LET put  == [r EXCEPT !.trb[r.enq] = [op |-> op, port |-> p, cycle |-> r.cycle]]
      next == r.enq + 1
  IN  IF next = n - 1
      THEN [put EXCEPT !.trb[n - 1].cycle = r.cycle, !.enq = 0, !.cycle = 1 - r.cycle]
      ELSE [put EXCEPT !.enq = next]

EventReady == evt.event[evt.deq].cycle = evt.cycle
NextEvent  == evt.event[evt.deq]

\* xhci_poll_event, when there is one: the driver moves on and tells the controller.
TakeEvent ==
  /\ IF evt.deq + 1 = EvtSize
     THEN evt' = [evt EXCEPT !.deq = 0, !.cycle = 1 - @]
     ELSE evt' = [evt EXCEPT !.deq = @ + 1]
  /\ erdp' = evt'.deq

-------------------------------------------------------------------------------
\* xhci_init.

Init ==
  /\ pc = "reset" /\ port = 1 /\ stage = 1 /\ todo = <<>>
  /\ ring = [r \in RingNames |-> NewRing(Size[r])]
  /\ hc = [r \in RingNames |-> [deq |-> 0, cycle |-> 1, rung |-> FALSE]]
  /\ ep = [r \in RingNames |-> IF r = "cmd" THEN "good" ELSE "none"]
  /\ evt = [event |-> [i \in 0..(EvtSize - 1) |->
                         [type |-> "none", ok |-> FALSE, cycle |-> 0]],
            deq |-> 0, cycle |-> 1]
  /\ hcEvt = [enq |-> 0, cycle |-> 1]
  /\ erdp = 0 /\ granted = 0 /\ addressed = 0
  /\ reads \in {"meant", "specified"}
  /\ device \in [Ports -> {"none", "keyboard", "other"}]
  /\ enabled = {}
  /\ conf = "garbage"
  /\ pending = FALSE /\ report = "up" /\ typed = <<>> /\ owed = <<>>
  /\ late = FALSE
  /\ reports = MaxReports /\ errors = MaxErrors /\ portEvents = MaxPortEvents

\* The controller is reset, its memory set up and started; it may not come to a
\* halt, leave its reset or start in time, or ask for too many scratchpads.
\* Init holds the rings as this step sets them up.
StartUp ==
  /\ pc = "reset"
  /\ pc' \in {"scan", "failed"}
  /\ UNCHANGED <<port, stage, todo, ring, evt, erdp, pending, late, controller, world, owed>>

\* No port is left: "No USB keyboard found on xHCI."
ScanEnds ==
  /\ pc = "scan" /\ port > NPorts
  /\ pc' = "failed"
  /\ UNCHANGED <<port, stage, todo, ring, evt, erdp, pending, late, controller, world, owed>>

\* Nothing on this port, or xhci_reset_port does not enable it.
SkipPort ==
  /\ pc = "scan" /\ port <= NPorts
  /\ port' = port + 1
  /\ UNCHANGED <<pc, stage, todo, ring, evt, erdp, pending, late, controller, world, owed>>

\* xhci_reset_port has enabled the port: enumerate the device.
ResetPort ==
  /\ pc = "scan" /\ port <= NPorts /\ device[port] # "none"
  /\ enabled' = enabled \cup {port}
  /\ pc' = "submit" /\ stage' = 1 /\ todo' = Entries(Stages[1])
  /\ UNCHANGED <<port, ring, evt, erdp, pending, late, controller, owed,
                 reads, device, typed, reports, errors, portEvents>>

\* xhci_cmd_address_device and xhci_configure_keyboard_endpoint begin with a
\* fresh ring, which the controller will learn of from the command.
FreshControl(r)  == [r EXCEPT !["ctrl"] = NewRing(CtrlSize)]
FreshKeyboard(r) == [r EXCEPT !["intr"] = NewRing(IntrSize)]

Fresh(s, r) ==
  CASE s = "address"   -> FreshControl(r)
    [] s = "configure" -> FreshKeyboard(r)
    [] OTHER           -> r

\* One entry of the request.  The buffer for the configuration lies on the stack
\* and is not cleared.
SubmitEntry ==
  /\ pc = "submit" /\ todo # <<>>
  /\ LET s == Stages[stage]
         r == RingOf(s)
     IN  ring' = [Fresh(s, ring) EXCEPT ![r] = Enqueue(@, Size[r], Head(todo), port)]
  /\ todo' = Tail(todo)
  /\ conf' = IF Stages[stage] = "full" /\ Head(todo) = "setup" THEN "garbage" ELSE conf
  /\ UNCHANGED <<pc, port, stage, evt, erdp, pending, late,
                 hc, ep, hcEvt, granted, addressed, report, world, owed>>

\* The doorbell, and the wait for the answer.
RingDoorbell ==
  /\ pc = "submit" /\ todo = <<>>
  /\ hc' = [hc EXCEPT ![RingOf(Stages[stage])].rung = TRUE]
  /\ pc' = "wait"
  /\ UNCHANGED <<port, stage, todo, ring, evt, erdp, pending, late,
                 ep, hcEvt, granted, addressed, conf, report, world, owed>>

\* Give up this port.
NextPort == pc' = "scan" /\ port' = port + 1 /\ UNCHANGED <<stage, todo>>

NextStage ==
  /\ pc' = "submit" /\ stage' = stage + 1 /\ todo' = Entries(Stages[stage + 1])
  /\ UNCHANGED port

\* xhci_parse_hid_keyboard finds the endpoint of a keyboard in the buffer.
Parses == IF conf = "garbage" THEN BOOLEAN ELSE {conf = "keyboard"}

\* xhci_wait_event sees an event of the type it waits for; whose it is it does
\* not ask.  After the head the configuration may turn out to be too long.
Answered ==
  /\ pc = "wait" /\ EventReady
  /\ NextEvent.type = IF RingOf(Stages[stage]) = "cmd" THEN "cmd" ELSE "transfer"
  /\ TakeEvent
  /\ LET s == Stages[stage]
     IN  CASE ~NextEvent.ok                        -> NextPort
           [] NextEvent.ok /\ s = "head"           -> NextStage \/ NextPort
           [] NextEvent.ok /\ s = "full"           ->
                \E found \in Parses : IF found THEN NextStage ELSE NextPort
           [] NextEvent.ok /\ s = "configure"      ->
                pc' = "ready" /\ UNCHANGED <<port, stage, todo>>
           [] OTHER                                -> NextStage
  /\ UNCHANGED <<ring, pending, late, controller, world, owed>>

\* An event of another type is dropped.
Dropped ==
  /\ pc = "wait" /\ EventReady
  /\ NextEvent.type # IF RingOf(Stages[stage]) = "cmd" THEN "cmd" ELSE "transfer"
  /\ TakeEvent
  /\ UNCHANGED <<pc, port, stage, todo, ring, pending, late, controller, world, owed>>

\* Slip: goes on as if it had been answered.
TimesOutIgnored ==
  /\ pc = "wait"
  /\ late' = TRUE
  /\ IF stage < Len(Stages) THEN NextStage ELSE NextPort
  /\ UNCHANGED <<ring, evt, erdp, pending, controller, world, owed>>


\* 500000 polls have passed.
TimesOut ==
  /\ pc = "wait"
  /\ late' = TRUE
  /\ NextPort
  /\ UNCHANGED <<ring, evt, erdp, pending, controller, world, owed>>

-------------------------------------------------------------------------------
\* xhci_keyboard_get_event, which the shell and the editor call in a loop.  It
\* first calls xhci_poll_kbd_report and then polls once more.

\* xhci_submit_kbd_in
SubmitReport ==
  /\ ring' = [ring EXCEPT !["intr"] = Enqueue(@, IntrSize, "normal", port)]
  /\ hc' = [hc EXCEPT !["intr"].rung = TRUE]
  /\ pending' = TRUE

\* One event, if there is one; onward is where the function goes on when it has
\* no key to return.
Receive(onward) ==
  /\ IF ~EventReady
     THEN pc' = onward /\ UNCHANGED <<evt, erdp, pending, owed>>
     ELSE /\ TakeEvent
          /\ pending' = (pending /\ NextEvent.type # "transfer")
          /\ IF NextEvent.type = "transfer" /\ NextEvent.ok
             THEN /\ pc' = IF report = "up" THEN onward ELSE "ready"
                  /\ owed' = IF owed = <<>> THEN owed ELSE Tail(owed)
             ELSE pc' = onward /\ UNCHANGED owed
  /\ UNCHANGED <<ring, hc>>

Plugged == \E p \in enabled : device[p] # "none"

\* Slip: a new transfer is submitted while one is out.
PollTwice ==
  /\ pc = "ready"
  /\ IF EventReady THEN Receive("again")
     ELSE SubmitReport /\ pc' = "again" /\ UNCHANGED <<evt, erdp, owed>>
  /\ UNCHANGED <<port, stage, todo, late, ep, hcEvt, granted, addressed, conf, report, world>>

Poll ==
  /\ pc = "ready"
  /\ CASE ~Plugged             -> pc' = "again" /\ UNCHANGED <<ring, hc, evt, erdp, pending, owed>>
       [] Plugged /\ ~pending  -> SubmitReport /\ pc' = "again" /\ UNCHANGED <<evt, erdp, owed>>
       [] OTHER                -> Receive("again")
  /\ UNCHANGED <<port, stage, todo, late, ep, hcEvt, granted, addressed, conf, report, world>>

PollAgain ==
  /\ pc = "again"
  /\ IF ~pending THEN SubmitReport /\ UNCHANGED <<pc, evt, erdp, owed>>
                 ELSE Receive("ready")
  /\ UNCHANGED <<port, stage, todo, late, ep, hcEvt, granted, addressed, conf, report, world>>

-------------------------------------------------------------------------------
\* The controller and the world.

\* The controller works at the ring, and the next entry is its on its present lap.
HcOwns(r) == hc[r].rung /\ ep[r] = "good" /\ ring[r].trb[hc[r].deq].cycle = hc[r].cycle
AtLink(r) == hc[r].deq = Size[r] - 1
HcEntry(r) == ring[r].trb[hc[r].deq]

HcCanPost == (hcEvt.enq + 1) % EvtSize # erdp

HcPost(type, ok) ==
  /\ HcCanPost
  /\ evt' = [evt EXCEPT !.event[hcEvt.enq] =
                          [type |-> type, ok |-> ok, cycle |-> hcEvt.cycle]]
  /\ hcEvt' = IF hcEvt.enq + 1 = EvtSize
              THEN [enq |-> 0, cycle |-> 1 - hcEvt.cycle]
              ELSE [hcEvt EXCEPT !.enq = @ + 1]

HcAdvance(r) == [hc EXCEPT ![r].deq = @ + 1]

\* The link entry: back to the start, and the cycle flips.
HcLink(r) ==
  /\ HcOwns(r) /\ AtLink(r)
  /\ hc' = [hc EXCEPT ![r].deq = 0, ![r].cycle = 1 - @]
  /\ UNCHANGED <<driver, ep, hcEvt, granted, addressed, conf, report, world, owed>>

\* No more entries: wait for the doorbell.
HcIdle(r) ==
  /\ hc[r].rung /\ ~HcOwns(r)
  /\ hc' = [hc EXCEPT ![r].rung = FALSE]
  /\ UNCHANGED <<driver, ep, hcEvt, granted, addressed, conf, report, world, owed>>

\* Slip: xhci_init enables as many slots as there are ports.
SlotsEnabledAll == NPorts

\* What xhci_init writes to CONFIG.
SlotsEnabled == 1

\* xhci_setup_ep_context puts the cycle bit into the upper half of the dequeue
\* pointer instead of the lower: that is 4 GiB off, and with a cycle of 0.
AsMeant   == reads = "meant"
EpContext == IF AsMeant THEN "good" ELSE "away"

HandedOver(op) == CASE op = "address" -> {"ctrl"} [] op = "configure" -> {"intr"} [] OTHER -> {}

\* A command.  The driver's XHCI_CONFIG of 1 leaves one slot to grant.  In hc stands
\* the place that the driver means, wherever the controller looks.
HcCommand ==
  /\ HcOwns("cmd") /\ ~AtLink("cmd")
  /\ LET c == HcEntry("cmd")
     IN  \E ok \in {FALSE, c.op # "enable" \/ granted < SlotsEnabled} :
           /\ HcPost("cmd", ok)
           /\ granted' = IF c.op = "enable" /\ ok THEN granted + 1 ELSE granted
           /\ addressed' = IF c.op = "address" /\ ok THEN c.port ELSE addressed
           /\ LET given == IF ok THEN HandedOver(c.op) ELSE {}
              IN  /\ ep' = [r \in RingNames |-> IF r \in given THEN EpContext ELSE ep[r]]
                  /\ hc' = [r \in RingNames |-> IF r \in given
                                                THEN [deq |-> 0, cycle |-> 1, rung |-> FALSE]
                                                ELSE HcAdvance("cmd")[r]]
  /\ UNCHANGED <<pc, port, stage, todo, ring, erdp, pending, late, conf, report, world, owed>>

\* One stage of a control transfer: the data stage fills the buffer, and the
\* status stage asks for an event.
HcControl ==
  /\ HcOwns("ctrl") /\ ~AtLink("ctrl")
  /\ LET c == HcEntry("ctrl")
     IN  /\ IF c.op = "status" THEN HcPost("transfer", TRUE) ELSE UNCHANGED <<evt, hcEvt>>
         /\ conf' = IF c.op = "data" /\ addressed # 0 THEN device[addressed] ELSE conf
  /\ hc' = HcAdvance("ctrl")
  /\ UNCHANGED <<pc, port, stage, todo, ring, erdp, pending, late, ep,
                 granted, addressed, report, world, owed>>

\* The device stalls: an event, and the endpoint halts.
HcStall ==
  /\ HcOwns("ctrl") /\ ~AtLink("ctrl")
  /\ HcPost("transfer", FALSE)
  /\ hc' = [hc EXCEPT !["ctrl"].rung = FALSE]
  /\ ep' = [ep EXCEPT !["ctrl"] = "halted"]
  /\ UNCHANGED <<pc, port, stage, todo, ring, erdp, pending, late,
                 granted, addressed, conf, report, world, owed>>

\* A ring that the controller takes for somewhere else.  What lies there is not the
\* driver's: no entry, at which it does nothing, or one that is not valid.
HcStray(r) ==
  /\ hc[r].rung /\ ep[r] = "away"
  /\ HcPost("transfer", FALSE)
  /\ ep' = [ep EXCEPT ![r] = "halted"]
  /\ UNCHANGED <<pc, port, stage, todo, ring, erdp, pending, late, hc,
                 granted, addressed, conf, report, world, owed>>

\* The keyboard's next report goes into the driver's buffer.
HcReport ==
  /\ HcOwns("intr") /\ ~AtLink("intr") /\ typed # <<>>
  /\ HcPost("transfer", TRUE)
  /\ report' = Head(typed) /\ owed' = Append(owed, Head(typed))
  /\ typed' = Tail(typed)
  /\ hc' = HcAdvance("intr")
  /\ UNCHANGED <<pc, port, stage, todo, ring, erdp, pending, late, ep,
                 granted, addressed, conf, reads, device, enabled, reports, errors, portEvents>>

\* A report shorter than asked for: the event does not tell of success, and the
\* driver drops the report.
HcShort ==
  /\ HcOwns("intr") /\ ~AtLink("intr") /\ typed # <<>> /\ errors > 0
  /\ HcPost("transfer", FALSE)
  /\ report' = Head(typed) /\ typed' = Tail(typed)
  /\ hc' = HcAdvance("intr")
  /\ errors' = errors - 1
  /\ UNCHANGED <<pc, port, stage, todo, ring, erdp, pending, late, ep, owed,
                 granted, addressed, conf, reads, device, enabled, reports, portEvents>>

\* A stall, or an error on the bus: the endpoint halts.  The driver submits again,
\* but never resets the endpoint.
HcReportFails ==
  /\ HcOwns("intr") /\ ~AtLink("intr") /\ errors > 0
  /\ HcPost("transfer", FALSE)
  /\ hc' = HcAdvance("intr")
  /\ ep' = [ep EXCEPT !["intr"] = "halted"]
  /\ errors' = errors - 1
  /\ UNCHANGED <<pc, port, stage, todo, ring, erdp, pending, late, owed,
                 granted, addressed, conf, report, reads, device, enabled, typed, reports,
                 portEvents>>

HcPortEvent ==
  /\ portEvents > 0 /\ enabled # {}
  /\ HcPost("port", TRUE)
  /\ portEvents' = portEvents - 1
  /\ UNCHANGED <<pc, port, stage, todo, ring, erdp, pending, late, owed, hc, ep,
                 granted, addressed, conf, report, reads, device, enabled, typed, reports, errors>>

\* A key goes down or up; what is typed before the keyboard is in use waits in it.
Press(r) ==
  /\ pc \in {"ready", "again"} /\ reports > 0 /\ device[port] = "keyboard"
  /\ typed' = Append(typed, r) /\ reports' = reports - 1
  /\ UNCHANGED <<driver, controller, owed, reads, device, enabled, errors, portEvents>>

Unplug ==
  /\ pc \in {"ready", "again"} /\ device[port] = "keyboard"
  /\ device' = [device EXCEPT ![port] = "none"]
  /\ enabled' = enabled \ {port}
  /\ typed' = <<>>
  /\ UNCHANGED <<driver, controller, owed, reads, reports, errors, portEvents>>

-------------------------------------------------------------------------------
Driver ==
  \/ StartUp \/ ScanEnds \/ SkipPort \/ ResetPort \/ SubmitEntry \/ RingDoorbell
  \/ Answered \/ Dropped \/ TimesOut \/ Poll \/ PollAgain

Controller ==
  \/ \E r \in RingNames : HcLink(r) \/ HcIdle(r)
  \/ \E r \in {"ctrl", "intr"} : HcStray(r)
  \/ HcCommand \/ HcControl \/ HcStall \/ HcReport \/ HcShort \/ HcReportFails \/ HcPortEvent

\* After xhci_init has failed the driver is never called again.
Abandoned == pc = "failed" /\ UNCHANGED vars

Next ==
  \/ Driver \/ Controller
  \/ \E r \in Reports : Press(r)
  \/ Unplug
  \/ Abandoned

Spec == Init /\ [][Next]_vars

\* The kernel runs.  Nothing is assumed of the controller and of the keys.
FairSpec == Spec /\ WF_vars(Driver)
-------------------------------------------------------------------------------
\* Properties.

Ring(n) == [trb : [0..(n - 1) -> Trbs], enq : 0..(n - 2), cycle : {0, 1}]

\* Every variable keeps its range: no place leaves its ring.
TypeOK ==
  /\ pc \in {"reset", "scan", "submit", "wait", "ready", "again", "failed"}
  /\ port \in 1..(NPorts + 1) /\ stage \in DOMAIN Stages
  /\ \A r \in RingNames : ring[r] \in Ring(Size[r])
  /\ \A r \in RingNames : hc[r] \in [deq : 0..(Size[r] - 1), cycle : {0, 1}, rung : BOOLEAN]
  /\ ep \in [RingNames -> {"none", "good", "away", "halted"}]
  /\ evt \in [event : [0..(EvtSize - 1) -> Events], deq : 0..(EvtSize - 1), cycle : {0, 1}]
  /\ hcEvt \in [enq : 0..(EvtSize - 1), cycle : {0, 1}]
  /\ erdp \in 0..(EvtSize - 1)
  /\ granted \in 0..SlotsEnabled /\ addressed \in 0..NPorts
  /\ enabled \subseteq Ports /\ reads \in {"meant", "specified"}
  /\ conf \in {"garbage", "none", "keyboard", "other"}
  /\ pending \in BOOLEAN /\ late \in BOOLEAN
  /\ report \in Reports /\ typed \in Seq(Reports) /\ owed \in Seq(Reports)

\* Place i lies in what the producer (at p) has written and the
\* consumer (at c) has not yet read.
InFlight(i, p, pCycle, c, cCycle) ==
  IF pCycle = cCycle THEN c <= i /\ i < p ELSE c <= i \/ i < p

\* By its cycle bit the consumer at c takes entry i for written.
LooksWritten(i, bit, c, cCycle) == bit = IF i >= c THEN cCycle ELSE 1 - cCycle

\* On the rings for commands and events, on every lap, the cycle bits tell the reader
\* to take exactly the entries that the writer has put there and the reader has not
\* yet taken: xhci_ring_enqueue hands the link entry over and flips the cycle at the
\* right place, xhci_poll_event flips at the right place of a ring without a link.
\* The same holds of the rings for transfers, with two exceptions: a controller that
\* reads the endpoint context as specified is not at the ring at all (EpContext); and
\* once a wait has timed out a ring may be rebuilt while the controller is in it.
RingsAgree ==
  /\ \A r \in RingNames : (r = "cmd" \/ (AsMeant /\ ~late)) =>
       \A i \in 0..(Size[r] - 2) \cup {hc[r].deq} :
         LooksWritten(i, ring[r].trb[i].cycle, hc[r].deq, hc[r].cycle)
           <=> InFlight(i, ring[r].enq, ring[r].cycle, hc[r].deq, hc[r].cycle)
  /\ \A i \in 0..(EvtSize - 1) :
       LooksWritten(i, evt.event[i].cycle, evt.deq, evt.cycle)
         <=> InFlight(i, hcEvt.enq, hcEvt.cycle, evt.deq, evt.cycle)

\* xhci_init reports a keyboard only on the port where it found one, addressed,
\* and only if no answer was ever late.  The driver tells answers apart by their
\* type alone, so an answer that comes after its wait has ended is taken for the
\* next one; what keeps a wrong device from being set up is that CONFIG allows a
\* single slot, so that every attempt after a late answer meets a refusal.
FoundRight ==
  pc \in {"ready", "again"} =>
    /\ ~late
    /\ addressed = port
    /\ device[port] \in {"keyboard", "none"}

\* On a controller that reads the endpoint context as specified no keyboard is ever
\* found: the first control transfer fails or is not answered, and nothing that
\* comes late is taken for its answer.  So the shell is not left without keys: it
\* goes on with another USB driver or the PS/2 keyboard.
NoneFound == ~AsMeant => pc \notin {"ready", "again"}

\* xhci_keyboard_get_event calls usb_hid_translate.
Translates ==
  /\ pc \in {"ready", "again"} /\ erdp' # erdp
  /\ NextEvent.type = "transfer" /\ NextEvent.ok

\* A report is translated only if it was transferred, at most once, in the order of
\* the keyboard, and from a buffer that the controller has not yet written over;
\* none is dropped that was transferred without error.
OnceInOrder ==
  [][IF Translates THEN owed # <<>> /\ report = Head(owed) /\ owed' = Tail(owed)
                   ELSE owed' \in {owed, Append(owed, report')}]_vars

===============================================================================
