------------------------------ MODULE Disk_proofs -----------------------------
(***************************************************************************)
(* Disk implements SectorStore, for any sectors, contents, errors of the   *)
(* drive and power losses; and what was reported as written stays.         *)
(***************************************************************************)
EXTENDS Disk, TLAPS

\* A call is what its kind says; none is NoCall.
LEMMA CallKinds ==
  /\ \A c \in Reads : c.op = "read" /\ c.lba \in Lbas
  /\ \A c \in Writes : c.op = "write" /\ c.lba \in Lbas /\ c.val \in Values
  /\ NoCall.op = "none" /\ NoCall \notin Calls
  /\ Reads \cap Writes = {} /\ Calls \ Writes = Reads
<1>1. \A c \in Reads : c.op = "read" /\ c.lba \in Lbas
  BY DEF Reads
<1>2. \A c \in Writes : c.op = "write" /\ c.lba \in Lbas /\ c.val \in Values
  BY DEF Writes
<1>3. NoCall.op = "none"
  BY DEF NoCall
<1>4. "read" # "write" /\ "read" # "none" /\ "write" # "none"
  OBVIOUS
<1> QED
  BY <1>1, <1>2, <1>3, <1>4, Zenon DEF Calls

Idle == drive.phase = "idle"

\* Which medium is in use, and what the phases of the drive go with.
Media ==
  /\ backend = "none" <=> pc = "boot"
  /\ pc \in {"ram", "ramStored"} => backend = "ram"
  /\ pc \in {"waitIdle", "waitDrq", "waitDone"} => backend = "ata"
  /\ ~Idle => backend = "ata" /\ ~drive.err

\* The driver and the drive agree about the command while the call is open.
Handshake ==
  /\ pc = "waitDrq" => drive.cmd = call /\ drive.phase \in {"idle", "working", "data"}
  /\ pc = "waitDone" => call \in Writes /\ drive.cmd = call /\ drive.phase \in {"idle", "storing"}
  /\ drive.phase = "storing" => drive.cmd \in Writes /\ acked[drive.cmd.lba] = Unknown

\* What is stored when the driver is about to report success.
Stored ==
  /\ pc = "ramStored" => call \in Writes /\ ram[call.lba] = call.val
  /\ pc = "waitDone" /\ Idle /\ ~drive.err => medium[call.lba] = call.val
  /\ pc = "boot" => kept = Nothing

DiskInv == TypeOK /\ Media /\ Handshake /\ Stored /\ AckedStays

LEMMA InitInv == Init => DiskInv
<1> SUFFICES ASSUME Init PROVE DiskInv
  OBVIOUS
<1>1. TypeOK
  BY CallKinds, DiskAssumption DEF Init, TypeOK, NoCall, Calls, Failed, Zeros, Contents, Unknown, Nothing
<1>2. Media /\ Handshake /\ Stored /\ AckedStays
  BY DEF Init, Media, Handshake, Stored, AckedStays, Idle, Unknown, Nothing
<1> QED
  BY <1>1, <1>2 DEF DiskInv

LEMMA StepInv == DiskInv /\ [Next]_vars => DiskInv'
<1> SUFFICES ASSUME DiskInv, [Next]_vars PROVE DiskInv'
  OBVIOUS
<1> USE CallKinds, DiskAssumption DEF DiskInv
<1>1. CASE InitAta
  BY <1>1, SMT DEF InitAta, TypeOK, Media, Handshake, Stored, AckedStays, Idle, Busy, Drq, Return, Ok, Failed, Contents, Zeros, Unknown, Nothing, Calls
<1>2. CASE InitRam
  BY <1>2, SMT DEF InitRam, TypeOK, Media, Handshake, Stored, AckedStays, Idle, Busy, Drq, Return, Ok, Failed, Contents, Zeros, Unknown, Nothing, Calls
<1>3. ASSUME NEW c \in Calls, Begin(c) PROVE DiskInv'
  BY <1>3, SMT DEF Begin, TypeOK, Media, Handshake, Stored, AckedStays, Idle, Busy, Drq, Return, Ok, Failed, Contents, Zeros, Unknown, Nothing, Calls
<1>4. CASE RamRefuses
  BY <1>4, SMT DEF RamRefuses, TypeOK, Media, Handshake, Stored, AckedStays, Idle, Busy, Drq, Return, Ok, Failed, Contents, Zeros, Unknown, Nothing, Calls
<1>5. CASE RamRead
  BY <1>5, SMT DEF RamRead, TypeOK, Media, Handshake, Stored, AckedStays, Idle, Busy, Drq, Return, Ok, Failed, Contents, Zeros, Unknown, Nothing, Calls
<1>6. CASE RamStore
  BY <1>6, SMT DEF RamStore, TypeOK, Media, Handshake, Stored, AckedStays, Idle, Busy, Drq, Return, Ok, Failed, Contents, Zeros, Unknown, Nothing, Calls
<1>7. CASE RamWritten
  BY <1>7, SMT DEF RamWritten, TypeOK, Media, Handshake, Stored, AckedStays, Idle, Busy, Drq, Return, Ok, Failed, Contents, Zeros, Unknown, Nothing, Calls
<1>8. CASE SendCommand
  BY <1>8, SMT DEF SendCommand, TypeOK, Media, Handshake, Stored, AckedStays, Idle, Busy, Drq, Return, Ok, Failed, Contents, Zeros, Unknown, Nothing, Calls
<1>9. CASE StaysBusy
  BY <1>9, SMT DEF StaysBusy, TypeOK, Media, Handshake, Stored, AckedStays, Idle, Busy, Drq, Return, Ok, Failed, Contents, Zeros, Unknown, Nothing, Calls
<1>10. CASE DrqError
  BY <1>10, SMT DEF DrqError, TypeOK, Media, Handshake, Stored, AckedStays, Idle, Busy, Drq, Return, Ok, Failed, Contents, Zeros, Unknown, Nothing, Calls
<1>11. CASE ReadData
  BY <1>11, SMT DEF ReadData, TypeOK, Media, Handshake, Stored, AckedStays, Idle, Busy, Drq, Return, Ok, Failed, Contents, Zeros, Unknown, Nothing, Calls
<1>12. CASE WriteData
  BY <1>12, SMT DEF WriteData, TypeOK, Media, Handshake, Stored, AckedStays, Idle, Busy, Drq, Return, Ok, Failed, Contents, Zeros, Unknown, Nothing, Calls
<1>13. CASE WriteEnds
  BY <1>13, SMT DEF WriteEnds, TypeOK, Media, Handshake, Stored, AckedStays, Idle, Busy, Drq, Return, Ok, Failed, Contents, Zeros, Unknown, Nothing, Calls
<1>14. CASE DriveReady
  BY <1>14, SMT DEF DriveReady, TypeOK, Media, Handshake, Stored, AckedStays, Idle, Busy, Drq, Return, Ok, Failed, Contents, Zeros, Unknown, Nothing, Calls
<1>15. CASE DriveStores
  BY <1>15, SMT DEF DriveStores, TypeOK, Media, Handshake, Stored, AckedStays, Idle, Busy, Drq, Return, Ok, Failed, Contents, Zeros, Unknown, Nothing, Calls
<1>16. CASE DriveFault
  <2>1. /\ drive'.phase = "idle" /\ drive'.err = TRUE /\ drive'.cmd = drive.cmd
        /\ drive' \in [phase : {"idle", "working", "data", "storing"}, err : BOOLEAN,
                        cmd : Calls \cup {NoCall}]
    <3> DEFINE Cmds == Calls \cup {NoCall}
    <3>1. drive' = [drive EXCEPT !.phase = "idle", !.err = TRUE]
      BY <1>16 DEF DriveFault
    <3>2. drive \in [phase : {"idle", "working", "data", "storing"}, err : BOOLEAN, cmd : Cmds]
      BY DEF TypeOK
    <3> HIDE DEF Cmds
    <3>3. /\ drive'.phase = "idle" /\ drive'.err = TRUE /\ drive'.cmd = drive.cmd
          /\ drive' \in [phase : {"idle", "working", "data", "storing"}, err : BOOLEAN, cmd : Cmds]
      BY <3>1, <3>2, Zenon
    <3> QED
      BY <3>3 DEF Cmds
  <2>2. faults' \in Nat /\ UNCHANGED <<pc, call, backend, ram, present, medium, answer, acked, kept, denied, crashes>>
    BY <1>16, SMT DEF DriveFault, TypeOK
  <2>3. TypeOK'
    BY <2>1, <2>2, Zenon DEF TypeOK, Contents, Unknown, Calls
  <2>4. Busy /\ Media'
    BY <1>16, <2>1, <2>2, Zenon DEF DriveFault, Media, Idle, Busy
  <2>5. Handshake' /\ Stored' /\ AckedStays'
    BY <2>1, <2>2, <2>4, SMT DEF Handshake, Stored, AckedStays, Busy, Idle
  <2> QED
    BY <2>3, <2>4, <2>5
<1>17. CASE Crash
  BY <1>17, SMT DEF Crash, TypeOK, Media, Handshake, Stored, AckedStays, Idle, Busy, Drq, Return, Ok, Failed, Contents, Zeros, Unknown, Nothing, Calls
<1>18. CASE UNCHANGED vars
  BY <1>18, SMT DEF vars, TypeOK, Media, Handshake, Stored, AckedStays, Idle, Unknown, Nothing
<1> QED
  BY <1>1, <1>2, <1>3, <1>4, <1>5, <1>6, <1>7, <1>8, <1>9, <1>10, <1>11, <1>12, <1>13, <1>14, <1>15, <1>16, <1>17, <1>18 DEF Next

\* For any sectors, contents, faults and power losses every variable keeps its
\* range, and a call is open just while it runs.
THEOREM DiskTypes == Spec => []TypeOK
<1>1. DiskInv => TypeOK
  BY DEF DiskInv
<1> QED
  BY InitInv, StepInv, <1>1, PTL DEF Spec

\* For any sectors, contents, faults and power losses: what disk_write has reported
\* as written stays on the medium it was written to, unless it is a sector whose last
\* write the drive refused after it took the data and disk_write reported all the same.
THEOREM WritesStay == Spec => []AckedStays
<1>1. DiskInv => AckedStays
  BY DEF DiskInv
<1> QED
  BY InitInv, StepInv, <1>1, PTL DEF Spec

-------------------------------------------------------------------------------
\* The refinement.

\* The names of SectorStore mean the same here.
LEMMA SameNames ==
  /\ Store!Calls = Calls /\ Store!Writes = Writes /\ Store!NoCall = NoCall
  /\ Store!Failed = Failed /\ \A v : Store!Ok(v) = Ok(v)
BY DEF Store!Calls, Store!Writes, Store!NoCall, Store!Failed, Store!Ok, Calls, Reads, Writes,
       NoCall, Failed, Ok

\* The variables of the store, as the mapping gives them.
Mapped == <<Current, call, Landed, Floating, Refused, answer>>

LEMMA InitImplements == Init => Store!Init
BY SameNames, SMT DEF Init, Store!Init, Current, Landed, Floating, Refused, Attended, Zeros

LEMMA StepImplements == DiskInv /\ DiskInv' /\ [Next]_vars => [Store!Next]_(Store!vars)
<1> SUFFICES ASSUME DiskInv, DiskInv', [Next]_vars PROVE Store!Next \/ UNCHANGED Store!vars
  OBVIOUS
<1> USE CallKinds, SameNames DEF DiskInv
<1>1. ASSUME InitAta PROVE UNCHANGED Store!vars
  BY <1>1, SMT DEF InitAta, Store!vars, TypeOK, Media, Handshake, Stored, Idle, Busy, Drq, Return, Calls, Current, Landed, Floating, Refused, Attended
<1>2. ASSUME InitRam PROVE Store!PowerLoss
  <2>1. UNCHANGED <<call, answer>> /\ call = NoCall
    BY <1>2, SMT DEF InitRam, TypeOK
  <2>2. Landed' = FALSE /\ Refused' = FALSE /\ Floating' = NoCall
    BY <1>2, SMT DEF InitRam, Landed, Refused, Floating, Media, Idle
  <2>3. Current' \in [Lbas -> Values \cup {Blank}]
    BY <1>2, SMT DEF InitRam, Current, Zeros
  <2> QED
    BY <2>1, <2>2, <2>3, SMT DEF Store!PowerLoss
<1>3. ASSUME NEW c \in Calls, Begin(c) PROVE Store!Call(c)
  BY <1>3, SMT DEF Begin, Store!Call, TypeOK, Media, Handshake, Stored, Idle, Busy, Drq, Return, Calls, Current, Landed, Floating, Refused, Attended
<1>4. ASSUME RamRefuses PROVE Store!Fail
  BY <1>4, SMT DEF RamRefuses, Store!Fail, Store!Return, TypeOK, Media, Handshake, Stored, Idle, Busy, Drq, Return, Calls, Current, Landed, Floating, Refused, Attended
<1>5. ASSUME RamRead PROVE Store!Succeed
  BY <1>5, SMT DEF RamRead, Store!Succeed, Store!Return, TypeOK, Media, Handshake, Stored, Idle, Busy, Drq, Return, Calls, Current, Landed, Floating, Refused, Attended
<1>6. ASSUME RamStore PROVE Store!Land
  BY <1>6, SMT DEF RamStore, Store!Land, TypeOK, Media, Handshake, Stored, Idle, Busy, Drq, Return, Calls, Current, Landed, Floating, Refused, Attended
<1>7. ASSUME RamWritten PROVE Store!Succeed
  BY <1>7, SMT DEF RamWritten, Store!Succeed, Store!Return, TypeOK, Media, Handshake, Stored, Idle, Busy, Drq, Return, Calls, Current, Landed, Floating, Refused, Attended
<1>8. ASSUME SendCommand PROVE UNCHANGED Store!vars
  BY <1>8, SMT DEF SendCommand, Store!vars, TypeOK, Media, Handshake, Stored, Idle, Busy, Drq, Return, Calls, Current, Landed, Floating, Refused, Attended
<1>9. ASSUME StaysBusy PROVE Store!Fail
  BY <1>9, SMT DEF StaysBusy, Store!Fail, Store!Return, TypeOK, Media, Handshake, Stored, Idle, Busy, Drq, Return, Calls, Current, Landed, Floating, Refused, Attended
<1>10. ASSUME DrqError PROVE Store!Fail
  BY <1>10, SMT DEF DrqError, Store!Fail, Store!Return, TypeOK, Media, Handshake, Stored, Idle, Busy, Drq, Return, Calls, Current, Landed, Floating, Refused, Attended
<1>11. ASSUME ReadData PROVE Store!Succeed
  BY <1>11, SMT DEF ReadData, Store!Succeed, Store!Return, TypeOK, Media, Handshake, Stored, Idle, Busy, Drq, Return, Calls, Current, Landed, Floating, Refused, Attended
<1>12. ASSUME WriteData PROVE UNCHANGED Store!vars
  BY <1>12, SMT DEF WriteData, Store!vars, TypeOK, Media, Handshake, Stored, Idle, Busy, Drq, Return, Calls, Current, Landed, Floating, Refused, Attended
<1>13. ASSUME WriteEnds PROVE Store!Succeed
  BY <1>13, SMT DEF WriteEnds, Store!Succeed, Store!Return, TypeOK, Media, Handshake, Stored, Idle, Busy, Drq, Return, Calls, Current, Landed, Floating, Refused, Attended
<1>14. ASSUME DriveReady PROVE UNCHANGED Store!vars
  BY <1>14, SMT DEF DriveReady, Store!vars, TypeOK, Media, Handshake, Stored, Idle, Busy, Drq, Return, Calls, Current, Landed, Floating, Refused, Attended
<1>15. ASSUME DriveStores PROVE Store!Land \/ Store!Settle
  <2>1. /\ drive.phase = "storing" /\ drive'.phase = "idle" /\ drive'.err = drive.err
        /\ medium' = [medium EXCEPT ![drive.cmd.lba] = drive.cmd.val]
        /\ UNCHANGED <<pc, call, backend, ram, answer>>
    BY <1>15, SMT DEF DriveStores, TypeOK
  <2>2. backend = "ata" /\ ~drive.err /\ drive.cmd \in Writes
    BY <2>1, SMT DEF Media, Handshake, Idle
  <2>3. Current' = [Current EXCEPT ![drive.cmd.lba] = drive.cmd.val]
    BY <2>1, <2>2, Zenon DEF Current
  <2>4. CASE pc = "waitDone"
    <3>1. drive.cmd = call /\ call \in Writes
      BY <2>4 DEF Handshake
    <3>2. ~Landed /\ Landed' /\ UNCHANGED <<Floating, Refused>>
      BY <2>1, <2>2, <2>4, SMT DEF Landed, Floating, Refused, Attended
    <3> QED
      BY <2>1, <2>3, <3>1, <3>2, Zenon DEF Store!Land
  <2>5. CASE pc # "waitDone"
    <3>1. Floating = drive.cmd /\ Floating' = NoCall /\ UNCHANGED <<Landed, Refused>>
      BY <2>1, <2>2, <2>5, SMT DEF Landed, Floating, Refused, Attended, Handshake
    <3> QED
      BY <2>1, <2>2, <2>3, <3>1, Zenon DEF Store!Settle
  <2> QED
    BY <2>4, <2>5
<1>16. ASSUME DriveFault PROVE Store!Refuse \/ Store!Settle \/ UNCHANGED Store!vars
  BY <1>16, SMT DEF DriveFault, Store!Refuse, Store!Settle, Store!vars, TypeOK, Media, Handshake, Stored, Idle, Busy, Drq, Return, Calls, Current, Landed, Floating, Refused, Attended
<1>17. ASSUME Crash PROVE Store!PowerLoss
  <2>1. UNCHANGED answer /\ call' = NoCall
    BY <1>17 DEF Crash
  <2>2. Landed' = FALSE /\ Refused' = FALSE /\ Floating' = NoCall
    BY <1>17, SMT DEF Crash, Landed, Refused, Floating
  <2>3. Current' \in [Lbas -> Values \cup {Blank}]
    BY SMT DEF TypeOK, Current, Contents
  <2> QED
    BY <2>1, <2>2, <2>3, SMT DEF Store!PowerLoss
<1>18. CASE UNCHANGED vars
  BY <1>18, SMT DEF vars, Store!vars, Current, Landed, Floating, Refused, Attended
<1> QED
  BY <1>1, <1>2, <1>3, <1>4, <1>5, <1>6, <1>7, <1>8, <1>9, <1>10, <1>11, <1>12, <1>13, <1>14, <1>15, <1>16, <1>17, <1>18 DEF Next, Store!Next

\* The disk layer is a store of sectors: every behaviour of driver and drive is one
\* that SectorStore allows, for any number of faults and power losses.
THEOREM DiskIsStore == Spec => ImplementsStore
<1> QED
  BY InitInv, StepInv, InitImplements, StepImplements, PTL DEF Spec, ImplementsStore, Store!Spec
===============================================================================
