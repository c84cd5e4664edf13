------------------------------- MODULE UsbHost --------------------------------
(***************************************************************************)
(* src/src/usb.c, which tries one kind of USB controller after another, and*)
(* the two drivers that find the keyboard by a fixed series of control     *)
(* transfers, src/src/usb_ehci.c and src/src/usb_ohci.c.  Of the xHCI      *)
(* driver only the outcome is here (see Xhci); the UHCI driver cannot be   *)
(* reached, and its event function is empty.                               *)
(*                                                                         *)
(* A controller may or may not work off what a driver has set up: every    *)
(* transfer may time out.  One that keeps to its specification works off   *)
(* nothing: the EHCI driver never enables the schedule that holds its queue*)
(* head (lines 228-236) and sets bit 31 of a transfer where the active bit *)
(* is bit 7; the OHCI driver lets its last stage be the end of the list    *)
(* (line 112) and puts the keyboard's endpoint into a register that only   *)
(* the controller writes (line 248).  Then the scans fail and usb_init ends*)
(* with the PS/2 keyboard.  The model has this and what would happen on a  *)
(* controller that takes the drivers as they mean it.  A device answers to *)
(* its address, and so do those that earlier ports have left behind.       *)
(***************************************************************************)
EXTENDS Integers, Sequences

CONSTANTS
  NPorts, Keys,
  MaxReports, MaxErrors     \* bounds: reports, transfers that fail

ASSUME UsbHostAssumption ==
  /\ NPorts \in Nat \ {0} /\ "up" \notin Keys
  /\ NPorts < 255                        \* with 255 the loops' uint8_t never ends
  /\ MaxReports \in Nat /\ MaxErrors \in Nat

Ports == 1..NPorts
Order == <<"xhci", "ehci", "ohci", "uhci">>    \* of usb_init
Hid   == {"keyboard", "mouse"}                 \* devices with class 3 and an interrupt endpoint
Kinds == Hid \cup {"none", "other"}

Reports == Keys \cup {"up"}

VARIABLES
  pc, ctl,                  \* where usb_init is; which of Order it tries
  backend,                  \* usb_backend
  port, step,               \* the port that is scanned, the control transfer that is next
  ep,                       \* ehci_kbd_ep is set
  device, address,          \* what is plugged in, and the address it answers to
  qh,                       \* the overlay of ehci_qh_mem: "clear" or "halted"
  td, pending, buf,         \* the interrupt transfer, ohci_kbd_pending, the report buffer
  typed, owed,              \* reports in the keyboard; history: in buf and not translated
  reports, errors,          \* what the bounds leave
  failed                    \* history: a transfer has ended without a report

setup == <<pc, ctl, backend, port, step, ep, device, address>>   \* what usb_init works on
poll  == <<td, pending, buf, typed, owed, reports, errors, failed>>
vars  == <<setup, qh, poll>>

Off == 99               \* no address: the port is not enabled
Mine == 5               \* the address both drivers choose

Init ==
  /\ pc = "choose" /\ ctl = 1 /\ backend = "none"
  /\ port = 1 /\ step = "device" /\ ep = FALSE
  /\ device = [p \in Ports |-> "none"] /\ address = [p \in Ports |-> Off]
  /\ qh = "clear" /\ td = "none" /\ pending = FALSE /\ buf = "up"
  /\ typed = <<>> /\ owed = <<>>
  /\ reports = MaxReports /\ errors = MaxErrors
  /\ failed = FALSE

-------------------------------------------------------------------------------
\* usb_init.

\* pci_read_bar: where the registers are.  The UHCI registers are in I/O space,
\* for which it returns 0.
Bases(c) == IF c = "uhci" THEN {"zero"} ELSE {"low", "above 4G"}

\* controller_mmio_valid
Valid(base) == base = "low"

NextController == pc' = "choose" /\ ctl' = ctl + 1 /\ UNCHANGED backend

\* scan_usb_controllers has not found one of this kind, or its registers cannot
\* be reached.
Skip ==
  /\ pc = "choose" /\ ctl <= Len(Order)
  /\ NextController
  /\ UNCHANGED <<port, step, ep, device, address, qh, poll>>

Usable(c) == \E base \in Bases(c) : Valid(base)

\* xhci_init, and uhci_init, by their outcome.
InitElsewhere ==
  /\ pc = "choose" /\ ctl <= Len(Order) /\ Order[ctl] \in {"xhci", "uhci"} /\ Usable(Order[ctl])
  /\ device' \in [Ports -> Kinds]
  /\ \/ \E p \in Ports :
          /\ device'[p] = "keyboard" /\ address' = [q \in Ports |-> IF q = p THEN Mine ELSE Off]
          /\ pc' = "ready" /\ backend' = Order[ctl] /\ UNCHANGED ctl
     \/ NextController /\ UNCHANGED address
  /\ UNCHANGED <<port, step, ep, qh, poll>>

\* ehci_init, ohci_init: the controller is reset and started, with any devices.
StartController ==
  /\ pc = "choose" /\ ctl <= Len(Order) /\ Order[ctl] \in {"ehci", "ohci"} /\ Usable(Order[ctl])
  /\ pc' = "scan" /\ port' = 1
  /\ device' \in [Ports -> Kinds] /\ address' = [p \in Ports |-> Off]
  /\ UNCHANGED <<ctl, backend, step, ep, qh, poll>>

\* "USB init failed."  From here on the PS/2 keyboard is used, as it is when
\* there is no controller.
GiveUp ==
  /\ pc = "choose" /\ ctl > Len(Order)
  /\ pc' = "ps2"
  /\ UNCHANGED <<ctl, backend, port, step, ep, device, address, qh, poll>>

-------------------------------------------------------------------------------
\* The scan of the ports.

\* The controller does not reset or start, or no port is left.
ScanFails ==
  /\ pc = "scan" /\ (port = 1 \/ port > NPorts)
  /\ NextController
  /\ UNCHANGED <<port, step, ep, device, address, qh, poll>>

SkipPort ==
  /\ pc = "scan" /\ port <= NPorts /\ device[port] = "none"
  /\ port' = port + 1
  /\ UNCHANGED <<pc, ctl, backend, step, ep, device, address, qh, poll>>

\* The drivers do not look whether the reset has enabled the port.
ResetPort ==
  /\ pc = "scan" /\ port <= NPorts /\ device[port] # "none"
  /\ address' \in {address, [address EXCEPT ![port] = 0]}
  /\ pc' = "transfer" /\ step' = "device"
  /\ UNCHANGED <<ctl, backend, port, ep, device, qh, poll>>

\* The control transfers are: device, address, config (again, and shorter, on
\* EHCI), setConf, setProto.
AddressOf(s) == IF s \in {"device", "address"} THEN 0 ELSE Mine

Answering == {p \in Ports : device[p] # "none" /\ address[p] = AddressOf(step)}

\* Slip: the result of the search is not looked at.
EndpointKnownAlways(p) == TRUE

\* ehci_init sets ehci_kbd_ep when it finds an endpoint and never clears it.
EndpointKnown(p) == ep \/ device[p] \in Hid

\* Slip: the port is counted up where the device is given up, and by the loop.
NextPortTwice == pc' = "scan" /\ port' = port + 2 /\ UNCHANGED <<ctl, backend, step>>

Goto(s)  == pc' = "transfer" /\ step' = s /\ UNCHANGED <<ctl, backend, port>>
NextPort == pc' = "scan" /\ port' = port + 1 /\ UNCHANGED <<ctl, backend, step>>
Found    == pc' = "ready" /\ backend' = Order[ctl] /\ UNCHANGED <<ctl, port, step>>

\* ehci_submit_control_sync clears the whole queue head; a stall, also in the last
\* stage, leaves its overlay halted.
Overlay == IF Order[ctl] = "ehci" THEN {"clear", "halted"} ELSE {qh}

\* A transfer is done: all devices with the address have heard it, one has
\* answered or refused.  The drivers look at nothing but the bit that says that the
\* last stage is over, so that a new address may not have been taken.
\* ohci_enumerate_keyboard takes the endpoint from a fixed place of the
\* configuration, whatever the device is.
Done ==
  /\ pc = "transfer"
  /\ \E p \in Answering :
       /\ CASE step = "device"   -> Goto("address")
            [] step = "address"  -> Goto("config")
            [] step \in {"config", "again"} ->
                 IF Order[ctl] = "ohci" \/ EndpointKnown(p) THEN Goto("setConf") ELSE NextPort
            [] step = "setConf"  -> Goto("setProto")
            [] step = "setProto" -> Found
       /\ ep' = (ep \/ (Order[ctl] = "ehci" /\ step \in {"config", "again"} /\ device[p] \in Hid))
  /\ address' \in {address,
                   IF step = "address"
                   THEN [p \in Ports |-> IF p \in Answering THEN Mine ELSE address[p]]
                   ELSE address}
  /\ qh' \in Overlay
  /\ UNCHANGED <<device, poll>>

\* Two million polls pass.  What a device may have done is not undone.
TimesOut ==
  /\ pc = "transfer"
  /\ CASE step = "config" /\ Order[ctl] = "ehci" -> Goto("again")
       [] step = "setProto"                      -> Found
       [] OTHER                                  -> NextPort
  /\ address' \in {address,
                   IF step = "address"
                   THEN [p \in Ports |-> IF p \in Answering THEN Mine ELSE address[p]]
                   ELSE address}
  /\ qh' \in Overlay
  /\ UNCHANGED <<ep, device, poll>>

-------------------------------------------------------------------------------
\* usb_keyboard_get_event.

Submit == td' = "active"

\* usb_hid_translate on the buffer.  That the transfer has failed is not seen: the
\* drivers only ask whether it is still active.
Translate == owed' = IF owed = <<>> THEN owed ELSE Tail(owed)

\* ehci_submit_interrupt_in_sync ignores address and endpoint: it links the transfer
\* to the queue head as the last control transfer has left it, with endpoint 0 and
\* with its overlay, halted or not.
EhciSubmit ==
  /\ pc = "ready" /\ backend = "ehci"
  /\ Submit /\ pc' = "polling"
  /\ UNCHANGED <<ctl, backend, port, step, ep, device, address, qh, pending, buf, typed, owed,
                 reports, errors, failed>>

EhciDone ==
  /\ pc = "polling" /\ td = "ended"
  /\ Translate /\ pc' = "ready"
  /\ UNCHANGED <<ctl, backend, port, step, ep, device, address, qh, td, pending, buf, typed,
                 reports, errors, failed>>

\* Two million polls pass, and usb_keyboard_get_event has no event.  The transfer
\* stays where the controller finds it.
EhciTimesOut ==
  /\ pc = "polling" /\ td = "active"
  /\ pc' = "ready"
  /\ UNCHANGED <<ctl, backend, port, step, ep, device, address, qh, poll>>

\* Slip: the next transfer is submitted before the report is read.
OhciPollEager ==
  /\ pc = "ready" /\ backend = "ohci"
  /\ \/ ~pending /\ Submit /\ pending' = TRUE /\ UNCHANGED owed
     \/ pending /\ td = "ended" /\ Submit /\ UNCHANGED <<pending, owed>>
     \/ pending /\ td = "active" /\ Translate /\ UNCHANGED <<td, pending>>
  /\ UNCHANGED <<setup, qh, buf, typed, reports, errors, failed>>

\* ohci_keyboard_get_event: the report, and the next transfer.  The one that
\* ohci_enumerate_keyboard asks for comes too early and is not submitted.
OhciPoll ==
  /\ pc = "ready" /\ backend = "ohci"
  /\ \/ ~pending /\ Submit /\ pending' = TRUE /\ UNCHANGED owed
     \/ pending /\ td = "ended" /\ Translate /\ Submit /\ UNCHANGED pending
     \/ pending /\ td = "active" /\ UNCHANGED <<td, pending, owed>>
  /\ UNCHANGED <<setup, qh, buf, typed, reports, errors, failed>>

\* xhci_keyboard_get_event brings one report; uhci_keyboard_get_event nothing.
PollElsewhere ==
  /\ pc = "ready" /\ backend \in {"xhci", "uhci"}
  /\ typed' = IF backend = "xhci" /\ typed # <<>> THEN Tail(typed) ELSE typed
  /\ UNCHANGED <<setup, qh, td, pending, buf, owed, reports, errors, failed>>

-------------------------------------------------------------------------------
\* The controller and the keyboard.

Using == pc \in {"ready", "polling"}

\* A report comes from the keyboard's interrupt endpoint, which is what the OHCI
\* driver polls; the EHCI driver polls endpoint 0, which has none.
HcReport ==
  /\ backend = "ohci" /\ td = "active" /\ typed # <<>>
  /\ td' = "ended" /\ buf' = Head(typed)
  /\ typed' = Tail(typed) /\ owed' = Append(owed, Head(typed))
  /\ UNCHANGED <<setup, qh, pending, reports, errors, failed>>

\* A transfer ends without a report: it fails, or on EHCI endpoint 0 answers with no
\* data or a stall.  A stall halts the overlay, and a halted queue head carries out
\* nothing any more.  The OHCI driver builds its endpoint anew for every transfer.
HcFails ==
  /\ td = "active" /\ errors > 0
  /\ backend = "ehci" => qh = "clear"
  /\ qh' \in (IF backend = "ehci" THEN {"clear", "halted"} ELSE {qh})
  /\ td' = "ended" /\ failed' = TRUE /\ errors' = errors - 1
  /\ UNCHANGED <<setup, pending, buf, typed, owed, reports>>

Press(r) ==
  /\ Using /\ reports > 0
  /\ \E p \in Ports : address[p] = Mine /\ device[p] = "keyboard"
  /\ typed' = Append(typed, r) /\ reports' = reports - 1
  /\ UNCHANGED <<setup, qh, td, pending, buf, owed, errors, failed>>

\* Terminal goes on from here.
Ps2 == pc = "ps2" /\ UNCHANGED vars

-------------------------------------------------------------------------------
Setup == Skip \/ InitElsewhere \/ StartController \/ GiveUp \/ ScanFails \/ SkipPort
           \/ ResetPort \/ Done \/ TimesOut

Poll == EhciSubmit \/ EhciDone \/ EhciTimesOut \/ OhciPoll \/ PollElsewhere

Next ==
  \/ Setup \/ Poll \/ HcReport \/ HcFails
  \/ \E r \in Reports : Press(r)
  \/ Ps2

Spec == Init /\ [][Next]_vars

-------------------------------------------------------------------------------
\* Properties.

\* Every variable keeps its range.
TypeOK ==
  /\ pc \in {"choose", "scan", "transfer", "ready", "polling", "ps2"}
  /\ ctl \in 1..(Len(Order) + 1)
  /\ backend \in {Order[i] : i \in DOMAIN Order} \cup {"none"}
  /\ port \in 1..(NPorts + 1)
  /\ step \in {"device", "address", "config", "again", "setConf", "setProto"}
  /\ ep \in BOOLEAN /\ pending \in BOOLEAN /\ failed \in BOOLEAN
  /\ device \in [Ports -> Kinds] /\ address \in [Ports -> {Off, 0, Mine}]
  /\ td \in {"none", "active", "ended"} /\ qh \in {"clear", "halted"}
  /\ buf \in Reports /\ typed \in Seq(Reports) /\ owed \in Seq(Reports)

\* When the EHCI driver is chosen, and the PS/2 keyboard given up, a device of class
\* HID answers at the address that is polled: although ehci_kbd_ep may stem from
\* an earlier port, and the device on this port may not be one.
HidAnswers ==
  Using /\ backend = "ehci" => \E p \in Ports : address[p] = Mine /\ device[p] \in Hid

\* Until one ends without a report, a transfer that has ended stands for one report that is
\* in the buffer and not yet translated, and there is no other: none is overwritten
\* before it is read, and none is read twice, although the driver tells the end of a
\* transfer by its active bit alone and keeps that bit apart from ohci_kbd_pending.
\* After such a failure the old report in the buffer is translated again.
OncePerReport ==
  failed \/ (Len(owed) <= 1 /\ (td = "ended" => owed = <<buf>>))
===============================================================================
