----------------------------- MODULE UsbHost_proofs ----------------------------
(***************************************************************************)
(* For any number of ports, keys, reports and failing transfers: the       *)
(* variables of UsbHost keep their ranges, and what the EHCI driver polls  *)
(* is a device of class HID.                                               *)
(***************************************************************************)
EXTENDS UsbHost, TLAPS

\* The order in which usb_init tries the controllers.
LEMMA OrderIs ==
  /\ Len(Order) = 4 /\ DOMAIN Order = 1..4
  /\ Order[1] = "xhci" /\ Order[2] = "ehci" /\ Order[3] = "ohci" /\ Order[4] = "uhci"
BY DEF Order

\* The names usb_backend takes.
LEMMA Backends == {Order[i] : i \in DOMAIN Order} = {"xhci", "ehci", "ohci", "uhci"}
<1>1. \A i \in 1..4 : i = 1 \/ i = 2 \/ i = 3 \/ i = 4
  OBVIOUS
<1> QED
  BY OrderIs, <1>1

\* Ports are scanned for EHCI and OHCI; a transfer is for a port that exists, and
\* the ports ahead are still disabled.
ScanInv ==
  /\ pc \in {"scan", "transfer"} => ctl = 2 \/ ctl = 3
  /\ pc = "transfer" => port <= NPorts
  /\ pc = "scan" => \A p \in Ports : p >= port => address[p] = Off
  /\ pc = "transfer" => \A p \in Ports : p > port => address[p] = Off

HidThere == \E p \in Ports : address[p] = Mine /\ device[p] \in Hid

\* ehci_kbd_ep is set when a device of class HID has answered at the driver's
\* address, and that device still does; past the check of the endpoint it is set.
EndpointInv ==
  /\ ep => ctl > 2 \/ (ctl = 2 /\ pc # "choose" /\ HidThere)
  /\ pc = "transfer" /\ ctl = 2 /\ step \in {"setConf", "setProto"} => ep
  /\ backend = "ehci" => ctl = 2 /\ ep
  /\ pc \in {"choose", "scan", "transfer"} => backend = "none"

UsbInv == TypeOK /\ ScanInv /\ EndpointInv

\* Off, 0 and the address the drivers choose are three.
LEMMA AddressesDiffer == Off # Mine /\ Off # 0 /\ Mine # 0
BY DEF Off, Mine

\* The initial state satisfies the invariant.
LEMMA InitUsb == Init => UsbInv
<1> SUFFICES ASSUME Init PROVE UsbInv
  OBVIOUS
<1> USE OrderIs, Backends, UsbHostAssumption DEF Init
<1>1. TypeOK
  <2>1. device \in [Ports -> Kinds] /\ address \in [Ports -> {Off, 0, Mine}]
    BY DEF Kinds
  <2>2. buf \in Reports /\ typed \in Seq(Reports) /\ owed \in Seq(Reports)
    BY DEF Reports
  <2>3. ep \in BOOLEAN /\ pending \in BOOLEAN /\ failed \in BOOLEAN
    BY Zenon
  <2> QED
    BY <2>1, <2>2, <2>3, SMT DEF TypeOK
<1>2. ScanInv /\ EndpointInv
  BY SMT DEF ScanInv, EndpointInv, Ports
<1> QED
  BY <1>1, <1>2 DEF UsbInv

\* What the end of a control transfer does: devices with address 0 may take the
\* driver's, and the driver goes on with a transfer, a port or the keyboard.
LEMMA TransferEnds ==
  ASSUME
    UsbInv, pc = "transfer", UNCHANGED <<device, poll>>, qh' \in {"clear", "halted"},
    address' \in [Ports -> {Off, 0, Mine}],
    \A p \in Ports : address'[p] = address[p] \/ (address[p] = 0 /\ address'[p] = Mine),
    ep' \in BOOLEAN, ep => ep', ep' => ep \/ (ctl = 2 /\ HidThere),
    \/ \E s \in {"address", "config", "again", "setConf", "setProto"} :
         Goto(s) /\ (ctl = 2 /\ s \in {"setConf", "setProto"} => ep')
    \/ NextPort
    \/ Found /\ step = "setProto"
  PROVE UsbInv'
<1> USE OrderIs, Backends, UsbHostAssumption
<1>1. HidThere => HidThere'
  BY AddressesDiffer, Zenon DEF HidThere
<1>2. \A p \in Ports : address[p] = Off => address'[p] = Off
  BY AddressesDiffer, Zenon
<1>3. ctl \in {2, 3} /\ port \in 1..NPorts /\ backend = "none"
  BY SMT DEF UsbInv, TypeOK, ScanInv, EndpointInv
<1>4. /\ UNCHANGED <<device, td, pending, buf, typed, owed, failed>>
      /\ ctl' = ctl
  BY Zenon DEF poll, Goto, NextPort, Found
<1>5. /\ device' \in [Ports -> Kinds] /\ td' \in {"none", "active", "ended"}
      /\ pending' \in BOOLEAN /\ failed' \in BOOLEAN
      /\ buf' \in Reports /\ typed' \in Seq(Reports) /\ owed' \in Seq(Reports)
  BY <1>4, Zenon DEF UsbInv, TypeOK
<1>6. ep' => HidThere' \/ ctl > 2
  BY <1>1, <1>3, SMT DEF UsbInv, EndpointInv
<1>7. CASE \E s \in {"address", "config", "again", "setConf", "setProto"} :
             Goto(s) /\ (ctl = 2 /\ s \in {"setConf", "setProto"} => ep')
  <2>1. PICK s \in {"address", "config", "again", "setConf", "setProto"} :
          Goto(s) /\ (ctl = 2 /\ s \in {"setConf", "setProto"} => ep')
    BY <1>7
  <2>2. TypeOK'
    BY <2>1, <1>3, <1>4, <1>5, SMT DEF TypeOK, Goto
  <2>3. ScanInv'
    BY <2>1, <1>2, <1>3, SMT DEF UsbInv, ScanInv, Goto
  <2>4. EndpointInv'
    BY <2>1, <1>3, <1>4, <1>6, SMT DEF EndpointInv, Goto
  <2> QED
    BY <2>2, <2>3, <2>4 DEF UsbInv
<1>8. CASE NextPort
  <2>1. TypeOK'
    BY <1>8, <1>3, <1>4, <1>5, SMT DEF UsbInv, TypeOK, NextPort
  <2>2. ScanInv'
    BY <1>8, <1>2, <1>3, SMT DEF UsbInv, ScanInv, NextPort, Ports
  <2>3. EndpointInv'
    BY <1>8, <1>3, <1>4, <1>6, SMT DEF EndpointInv, NextPort
  <2> QED
    BY <2>1, <2>2, <2>3 DEF UsbInv
<1>9. CASE Found /\ step = "setProto"
  <2>1. (backend' = "ehci" /\ ctl = 2) \/ (backend' = "ohci" /\ ctl = 3)
    <3>1. backend' = Order[ctl]
      BY <1>9, Zenon DEF Found
    <3>2. CASE ctl = 2
      BY <3>1, <3>2, Zenon
    <3>3. CASE ctl = 3
      BY <3>1, <3>3, Zenon
    <3> QED
      BY <1>3, <3>2, <3>3
  <2>2. TypeOK'
    BY <1>9, <2>1, <1>3, <1>4, <1>5, SMT DEF UsbInv, TypeOK, Found
  <2>3. ScanInv'
    BY <1>9, SMT DEF ScanInv, Found
  <2>4. ctl = 2 => ep'
    BY <1>9, SMT DEF UsbInv, EndpointInv
  <2>5. EndpointInv'
    BY <1>9, <2>1, <2>4, <1>3, <1>4, <1>6, SMT DEF EndpointInv, Found
  <2> QED
    BY <2>2, <2>3, <2>5 DEF UsbInv
<1> QED
  BY <1>7, <1>8, <1>9

\* The steps of usb_init keep the invariant.
LEMMA SetupKeeps == UsbInv /\ Setup => UsbInv'
<1> SUFFICES ASSUME UsbInv, Setup PROVE UsbInv'
  OBVIOUS
<1> USE OrderIs, Backends, UsbHostAssumption DEF UsbInv
<1>1. CASE Skip
  BY <1>1, SMT DEF Skip, TypeOK, ScanInv, EndpointInv, HidThere, NextController, poll, Ports
<1>2. CASE InitElsewhere
  BY <1>2, SMT DEF InitElsewhere, TypeOK, ScanInv, EndpointInv, HidThere, NextController, poll, Ports
<1>3. CASE StartController
  BY <1>3, SMT DEF StartController, TypeOK, ScanInv, EndpointInv, HidThere, NextController, poll, Ports
<1>4. CASE GiveUp
  BY <1>4, SMT DEF GiveUp, TypeOK, ScanInv, EndpointInv, HidThere, NextController, poll, Ports
<1>5. CASE ScanFails
  BY <1>5, SMT DEF ScanFails, TypeOK, ScanInv, EndpointInv, HidThere, NextController, poll, Ports
<1>6. CASE SkipPort
  BY <1>6, SMT DEF SkipPort, TypeOK, ScanInv, EndpointInv, HidThere, NextController, poll, Ports
<1>7. CASE ResetPort
  <2> USE <1>7 DEF ResetPort
  <2>1. port \in Ports /\ address[port] = Off
    BY SMT DEF TypeOK, ScanInv, Ports
  <2>2. address' \in [Ports -> {Off, 0, Mine}]
    BY <2>1, Zenon DEF TypeOK
  <2>3. \A p \in Ports : p # port => address'[p] = address[p]
    BY <2>1, Zenon DEF TypeOK
  <2>4. HidThere => HidThere'
    BY <2>1, <2>3, AddressesDiffer, Zenon DEF HidThere
  <2>5. TypeOK'
    BY <2>2, SMT DEF TypeOK, poll
  <2>6. ScanInv'
    BY <2>3, SMT DEF ScanInv, TypeOK, Ports
  <2>7. EndpointInv'
    BY <2>4, SMT DEF EndpointInv, ScanInv, TypeOK, poll
  <2> QED
    BY <2>5, <2>6, <2>7
<1>8. CASE Done
  <2>1. PICK q \in Answering :
          /\ CASE step = "device"   -> Goto("address")
               [] step = "address"  -> Goto("config")
               [] step \in {"config", "again"} ->
                    IF Order[ctl] = "ohci" \/ EndpointKnown(q) THEN Goto("setConf") ELSE NextPort
               [] step = "setConf"  -> Goto("setProto")
               [] step = "setProto" -> Found
          /\ ep' = (ep \/ (Order[ctl] = "ehci" /\ step \in {"config", "again"} /\ device[q] \in Hid))
    BY <1>8, Zenon DEF Done
  <2>2. q \in Ports /\ (step # "device" /\ step # "address" => address[q] = Mine)
    BY <2>1, Zenon DEF Answering, AddressOf
  <2>3. pc = "transfer" /\ UNCHANGED <<device, poll>>
    BY <1>8, Zenon DEF Done
  <2>4. ctl \in {2, 3} /\ (ctl = 2 <=> Order[ctl] = "ehci") /\ (ctl = 3 <=> Order[ctl] = "ohci")
    BY <2>3, SMT DEF TypeOK, ScanInv
  <2>5. ep' \in BOOLEAN /\ (ep => ep')
    BY <2>1, Zenon
  <2>6. ep' => ep \/ (ctl = 2 /\ HidThere)
    BY <2>1, <2>2, <2>4, Zenon DEF HidThere
  <2>7. /\ address' \in [Ports -> {Off, 0, Mine}]
        /\ \A p \in Ports : address'[p] = address[p] \/ (address[p] = 0 /\ address'[p] = Mine)
    BY <1>8, Zenon DEF Done, TypeOK, Answering, AddressOf
  <2>8. \/ \E s \in {"address", "config", "again", "setConf", "setProto"} :
             Goto(s) /\ (ctl = 2 /\ s \in {"setConf", "setProto"} => ep')
        \/ NextPort
        \/ Found /\ step = "setProto"
    <3>1. step \in {"device", "address", "config", "again", "setConf", "setProto"}
      BY Zenon DEF TypeOK
    <3>2. CASE step = "device" \/ step = "address"
      <4>1. Goto("address") \/ Goto("config")
        BY <2>1, <3>2, Zenon
      <4>2. {"address", "config"} \cap {"setConf", "setProto"} = {}
        OBVIOUS
      <4> QED
        BY <4>1, <4>2, Zenon
    <3>3. CASE step = "config" \/ step = "again"
      <4>1. Order[ctl] = "ohci" \/ EndpointKnown(q) => Goto("setConf")
        BY <2>1, <3>3, Zenon
      <4>2. ~(Order[ctl] = "ohci" \/ EndpointKnown(q)) => NextPort
        BY <2>1, <3>3, Zenon
      <4>3. ctl = 2 /\ EndpointKnown(q) => ep'
        BY <2>1, <2>4, <3>3, Zenon DEF EndpointKnown
      <4>4. ctl = 2 => Order[ctl] # "ohci"
        BY <2>4, SMT
      <4> QED
        BY <4>1, <4>2, <4>3, <4>4, Zenon
    <3>4. CASE step = "setConf"
      <4>1. Goto("setProto") /\ (ctl = 2 => ep')
        BY <2>1, <2>3, <2>5, <3>4, SMT DEF EndpointInv
      <4> QED
        BY <4>1, Zenon
    <3>5. CASE step = "setProto"
      BY <2>1, <3>5, SMT
    <3> QED
      BY <3>1, <3>2, <3>3, <3>4, <3>5, Zenon
  <2>9. qh' \in {"clear", "halted"}
    BY <1>8, Zenon DEF Done, Overlay, TypeOK
  <2> QED
    BY <2>3, <2>5, <2>6, <2>7, <2>8, <2>9, TransferEnds, Zenon
<1>9. CASE TimesOut
  <2>1. pc = "transfer" /\ UNCHANGED <<ep, device, poll>>
    BY <1>9, Zenon DEF TimesOut
  <2>2. /\ address' \in [Ports -> {Off, 0, Mine}]
        /\ \A p \in Ports : address'[p] = address[p] \/ (address[p] = 0 /\ address'[p] = Mine)
    BY <1>9, Zenon DEF TimesOut, TypeOK, Answering, AddressOf
  <2>3. Goto("again") \/ NextPort \/ (Found /\ step = "setProto")
    <3>1. CASE step = "config" /\ Order[ctl] = "ehci"
      BY <1>9, <3>1, SMT DEF TimesOut
    <3>2. CASE step = "setProto"
      BY <1>9, <3>2, Zenon DEF TimesOut
    <3>3. CASE ~(step = "config" /\ Order[ctl] = "ehci") /\ step # "setProto"
      BY <1>9, <3>3, SMT DEF TimesOut
    <3> QED
      BY <3>1, <3>2, <3>3
  <2>4. \/ \E s \in {"address", "config", "again", "setConf", "setProto"} :
             Goto(s) /\ (ctl = 2 /\ s \in {"setConf", "setProto"} => ep')
        \/ NextPort
        \/ Found /\ step = "setProto"
    <3>1. "again" \notin {"setConf", "setProto"}
      BY Zenon
    <3> QED
      BY <2>3, <3>1, Zenon
  <2>5. ep' \in BOOLEAN /\ (ep => ep') /\ (ep' => ep \/ (ctl = 2 /\ HidThere))
    BY <2>1, Zenon DEF TypeOK
  <2>6. qh' \in {"clear", "halted"}
    BY <1>9, Zenon DEF TimesOut, Overlay, TypeOK
  <2> QED
    BY <2>1, <2>2, <2>4, <2>5, <2>6, TransferEnds, Zenon
<1> QED
  BY <1>1, <1>2, <1>3, <1>4, <1>5, <1>6, <1>7, <1>8, <1>9 DEF Setup

\* Only the setting up changes what the invariant is about, but for the ranges.
LEMMA PollKeeps ==
  ASSUME UsbInv, TypeOK', UNCHANGED <<ctl, backend, port, step, ep, device, address>>,
         pc' = pc \/ {pc, pc'} \subseteq {"ready", "polling"}
  PROVE  UsbInv'
<1>1. HidThere => HidThere'
  BY DEF HidThere
<1>2. CASE pc' = pc
  BY <1>1, <1>2, SMT DEF UsbInv, ScanInv, EndpointInv
<1>3. CASE {pc, pc'} \subseteq {"ready", "polling"}
  <2>1. pc \in {"ready", "polling"} /\ pc' \in {"ready", "polling"}
    BY <1>3, Zenon
  <2> QED
    BY <1>1, <2>1, SMT DEF UsbInv, ScanInv, EndpointInv
<1> QED
  BY <1>2, <1>3
\* Every step keeps the invariant.
LEMMA StepUsb == UsbInv /\ [Next]_vars => UsbInv'
<1> SUFFICES ASSUME UsbInv, [Next]_vars PROVE UsbInv'
  OBVIOUS
<1>1. CASE Setup
  BY <1>1, SetupKeeps
<1>2. CASE EhciSubmit
  <2>1. TypeOK'
    BY <1>2, SMT DEF EhciSubmit, Submit, Translate, setup, UsbInv, TypeOK
  <2> QED
    BY <1>2, <2>1, PollKeeps, SMT DEF EhciSubmit, setup
<1>3. CASE EhciDone
  <2>1. TypeOK'
    BY <1>3, SMT DEF EhciDone, Submit, Translate, setup, UsbInv, TypeOK
  <2> QED
    BY <1>3, <2>1, PollKeeps, SMT DEF EhciDone, setup
<1>4. CASE EhciTimesOut
  <2>1. TypeOK'
    BY <1>4, SMT DEF EhciTimesOut, poll, setup, UsbInv, TypeOK
  <2> QED
    BY <1>4, <2>1, PollKeeps, SMT DEF EhciTimesOut, setup
<1>5. CASE OhciPoll
  <2>1. owed' \in Seq(Reports)
    <3>1. owed \in Seq(Reports)
      BY DEF UsbInv, TypeOK
    <3>2. Translate \/ UNCHANGED owed
      BY <1>5, Zenon DEF OhciPoll
    <3> QED
      BY <3>1, <3>2, SMT DEF Translate
  <2>2. td' \in {"none", "active", "ended"} /\ pending' \in BOOLEAN
    BY <1>5, Zenon DEF OhciPoll, Submit, UsbInv, TypeOK
  <2>3. UNCHANGED <<pc, ctl, backend, port, step, ep, device, address, qh, buf, typed, failed>>
    BY <1>5, Zenon DEF OhciPoll, setup
  <2>4. TypeOK'
    BY <2>1, <2>2, <2>3, Zenon DEF UsbInv, TypeOK
  <2> QED
    BY <2>3, <2>4, PollKeeps
<1>6. CASE PollElsewhere
  <2>1. TypeOK'
    BY <1>6, SMT DEF PollElsewhere, Submit, Translate, setup, UsbInv, TypeOK
  <2> QED
    BY <1>6, <2>1, PollKeeps, SMT DEF PollElsewhere, setup
<1>7. CASE HcReport
  <2>1. TypeOK'
    BY <1>7, SMT DEF HcReport, Submit, Translate, setup, UsbInv, TypeOK
  <2> QED
    BY <1>7, <2>1, PollKeeps, SMT DEF HcReport, setup
<1>8. CASE HcFails
  <2>1. TypeOK'
    BY <1>8, SMT DEF HcFails, Submit, Translate, setup, UsbInv, TypeOK
  <2> QED
    BY <1>8, <2>1, PollKeeps, SMT DEF HcFails, setup
<1>9. ASSUME NEW r \in Reports, Press(r) PROVE UsbInv'
  <2>1. TypeOK'
    BY <1>9, SMT DEF Press, Submit, Translate, setup, UsbInv, TypeOK
  <2> QED
    BY <1>9, <2>1, PollKeeps, SMT DEF Press, setup
<1>10. CASE Ps2
  BY <1>10, PollKeeps DEF Ps2, vars, setup, poll, UsbInv, TypeOK
<1>11. CASE UNCHANGED vars
  BY <1>11, PollKeeps DEF vars, setup, poll, UsbInv, TypeOK
<1> QED
  BY <1>1, <1>2, <1>3, <1>4, <1>5, <1>6, <1>7, <1>8, <1>9, <1>10, <1>11 DEF Next, Poll

\* The inductive invariant holds always.
THEOREM UsbInvariant == Spec => []UsbInv
BY InitUsb, StepUsb, PTL DEF Spec

\* Every variable of the USB host keeps its range (usb_init, the scans of ehci_init
\* and ohci_init, the event functions), however many ports there are.
THEOREM UsbTypes == Spec => []TypeOK
<1>1. UsbInv => TypeOK
  BY DEF UsbInv
<1> QED
  BY <1>1, UsbInvariant, PTL

\* What the EHCI driver polls is a device of class HID, although ehci_kbd_ep is
\* never cleared: a port that has failed after it was set leaves its device at
\* the driver's address.
THEOREM HidPolled == Spec => []HidAnswers
<1>1. UsbInv => HidAnswers
  BY SMT DEF UsbInv, TypeOK, EndpointInv, HidThere, HidAnswers, Using
<1> QED
  BY <1>1, UsbInvariant, PTL

\* A transfer that has ended has put one report into the buffer of the OHCI driver;
\* nothing is under way before a driver is chosen.
OnceInv ==
  /\ pc = "polling" => backend = "ehci"
  /\ pc \notin {"ready", "polling"} => td = "none"
  /\ td # "none" => backend \in {"ehci", "ohci"}
  /\ pending <=> backend = "ohci" /\ td # "none"
  /\ failed \/
       /\ td # "ended" => owed = <<>>
       /\ td = "ended" => owed = <<buf>> /\ backend = "ohci"

\* The initial state satisfies OnceInv.
LEMMA InitOnce == Init => OnceInv
BY SMT DEF Init, OnceInv

\* The head of the reports is one, and to translate the only one leaves none.
LEMMA OneReport == \A r : Tail(<<r>>) = <<>> /\ Len(<<r>>) = 1 /\ Append(<<>>, r) = <<r>> /\ <<r>> # <<>>
OBVIOUS

\* Every step keeps OnceInv.
LEMMA StepOnce == UsbInv /\ OnceInv /\ [Next]_vars => OnceInv'
<1> SUFFICES ASSUME UsbInv, OnceInv, [Next]_vars PROVE OnceInv'
  OBVIOUS
<1> USE OneReport
<1>1. CASE Skip
  BY <1>1, SMT DEF Skip, UsbInv, TypeOK, ScanInv, EndpointInv, OnceInv, NextController, Goto, NextPort, Found, Submit, Translate, setup, poll, Using
<1>2. CASE InitElsewhere
  BY <1>2, SMT DEF InitElsewhere, UsbInv, TypeOK, ScanInv, EndpointInv, OnceInv, NextController, Goto, NextPort, Found, Submit, Translate, setup, poll, Using
<1>3. CASE StartController
  BY <1>3, SMT DEF StartController, UsbInv, TypeOK, ScanInv, EndpointInv, OnceInv, NextController, Goto, NextPort, Found, Submit, Translate, setup, poll, Using
<1>4. CASE GiveUp
  BY <1>4, SMT DEF GiveUp, UsbInv, TypeOK, ScanInv, EndpointInv, OnceInv, NextController, Goto, NextPort, Found, Submit, Translate, setup, poll, Using
<1>5. CASE ScanFails
  BY <1>5, SMT DEF ScanFails, UsbInv, TypeOK, ScanInv, EndpointInv, OnceInv, NextController, Goto, NextPort, Found, Submit, Translate, setup, poll, Using
<1>6. CASE SkipPort
  BY <1>6, SMT DEF SkipPort, UsbInv, TypeOK, ScanInv, EndpointInv, OnceInv, NextController, Goto, NextPort, Found, Submit, Translate, setup, poll, Using
<1>7. CASE ResetPort
  BY <1>7, SMT DEF ResetPort, UsbInv, TypeOK, ScanInv, EndpointInv, OnceInv, NextController, Goto, NextPort, Found, Submit, Translate, setup, poll, Using
<1>8. CASE Done
  <2>1. pc = "transfer" /\ UNCHANGED poll
    BY <1>8, Zenon DEF Done
  <2>2. pc' = "transfer" \/ pc' = "scan" \/ pc' = "ready"
    <3>1. step \in {"device", "address", "config", "again", "setConf", "setProto"}
      BY Zenon DEF UsbInv, TypeOK
    <3>2. PICK q \in Answering :
            CASE step = "device"   -> Goto("address")
              [] step = "address"  -> Goto("config")
              [] step \in {"config", "again"} ->
                   IF Order[ctl] = "ohci" \/ EndpointKnown(q) THEN Goto("setConf") ELSE NextPort
              [] step = "setConf"  -> Goto("setProto")
              [] step = "setProto" -> Found
      BY <1>8, Zenon DEF Done
    <3>3. \/ Goto("address") \/ Goto("config") \/ Goto("setConf") \/ Goto("setProto")
          \/ NextPort \/ Found
      <4>1. CASE step = "device"
        BY <3>2, <4>1, SMT
      <4>2. CASE step = "address"
        BY <3>2, <4>2, SMT
      <4>3. CASE step = "config"
        BY <3>2, <4>3, SMT
      <4>4. CASE step = "again"
        BY <3>2, <4>4, SMT
      <4>5. CASE step = "setConf"
        BY <3>2, <4>5, SMT
      <4>6. CASE step = "setProto"
        BY <3>2, <4>6, SMT
      <4> QED
        BY <3>1, <4>1, <4>2, <4>3, <4>4, <4>5, <4>6
    <3> QED
      BY <3>3, Zenon DEF Goto, NextPort, Found
  <2> QED
    BY <2>1, <2>2, SMT DEF OnceInv, poll
<1>9. CASE TimesOut
  BY <1>9, SMT DEF TimesOut, UsbInv, TypeOK, ScanInv, EndpointInv, OnceInv, NextController, Goto, NextPort, Found, Submit, Translate, setup, poll, Using
<1>10. CASE EhciSubmit
  BY <1>10, SMT DEF EhciSubmit, UsbInv, TypeOK, ScanInv, EndpointInv, OnceInv, NextController, Goto, NextPort, Found, Submit, Translate, setup, poll, Using
<1>11. CASE EhciDone
  BY <1>11, SMT DEF EhciDone, UsbInv, TypeOK, ScanInv, EndpointInv, OnceInv, NextController, Goto, NextPort, Found, Submit, Translate, setup, poll, Using
<1>12. CASE EhciTimesOut
  BY <1>12, SMT DEF EhciTimesOut, UsbInv, TypeOK, ScanInv, EndpointInv, OnceInv, NextController, Goto, NextPort, Found, Submit, Translate, setup, poll, Using
<1>13. CASE OhciPoll
  BY <1>13, SMT DEF OhciPoll, UsbInv, TypeOK, ScanInv, EndpointInv, OnceInv, NextController, Goto, NextPort, Found, Submit, Translate, setup, poll, Using
<1>14. CASE PollElsewhere
  BY <1>14, SMT DEF PollElsewhere, UsbInv, TypeOK, ScanInv, EndpointInv, OnceInv, NextController, Goto, NextPort, Found, Submit, Translate, setup, poll, Using
<1>15. CASE HcReport
  <2>1. /\ backend = "ohci" /\ td = "active" /\ td' = "ended" /\ buf' = Head(typed)
        /\ owed' = Append(owed, Head(typed))
        /\ UNCHANGED <<pc, backend, pending, failed>>
    BY <1>15, Zenon DEF HcReport, setup
  <2>2. owed = <<>> => owed' = <<buf'>>
    BY <2>1, Zenon
  <2> QED
    BY <2>1, <2>2, SMT DEF OnceInv
<1>16. CASE HcFails
  BY <1>16, SMT DEF HcFails, UsbInv, TypeOK, ScanInv, EndpointInv, OnceInv, NextController, Goto, NextPort, Found, Submit, Translate, setup, poll, Using
<1>17. ASSUME NEW r \in Reports, Press(r) PROVE OnceInv'
  BY <1>17, SMT DEF Press, UsbInv, TypeOK, ScanInv, EndpointInv, OnceInv, NextController, Goto, NextPort, Found, Submit, Translate, setup, poll, Using
<1>18. CASE Ps2
  BY <1>18, SMT DEF Ps2, vars, setup, poll, OnceInv
<1>19. CASE UNCHANGED vars
  BY <1>19, SMT DEF vars, setup, poll, OnceInv
<1> QED
  BY <1>1, <1>2, <1>3, <1>4, <1>5, <1>6, <1>7, <1>8, <1>9, <1>10, <1>11, <1>12, <1>13, <1>14, <1>15, <1>16, <1>17, <1>18, <1>19 DEF Next, Setup, Poll

\* For any number of ports and keys, and whatever the keyboard sends: until a transfer
\* ends without a report, every report that the OHCI driver's single buffer has taken
\* is translated once, before the next is asked for.
THEOREM ReportsOnce == Spec => []OncePerReport
<1>1. UsbInv /\ OnceInv => OncePerReport
  <2> SUFFICES ASSUME UsbInv, OnceInv, ~failed
               PROVE  Len(owed) <= 1 /\ (td = "ended" => owed = <<buf>>)
    BY Zenon DEF OncePerReport
  <2>1. Len(<<>>) = 0
    OBVIOUS
  <2>2. \/ owed = <<>>
        \/ owed = <<buf>>
    BY SMT DEF OnceInv
  <2>3. Len(owed) <= 1
    <3>1. CASE owed = <<>>
      BY <2>1, <3>1
    <3>2. CASE owed = <<buf>>
      <4>1. Len(<<buf>>) = 1
        BY OneReport
      <4>2. QED
        BY <3>2, <4>1
    <3> QED
      BY <2>2, <3>1, <3>2
  <2> QED
    BY <2>3, SMT DEF OnceInv
<1> QED
  BY <1>1, InitOnce, StepOnce, UsbInvariant, PTL DEF Spec
================================================================================
