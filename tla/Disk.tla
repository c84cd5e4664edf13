-------------------------------- MODULE Disk ----------------------------------
(***************************************************************************)
(* src/src/disk.c: the choice of a medium and the handshake with an ATA    *)
(* drive.  The driver polls the status register a bounded number of times  *)
(* and gives up; the drive goes on with what it has been told.             *)
(***************************************************************************)
EXTENDS Integers

CONSTANTS
  Lbas, Values, Blank,    \* sectors, contents, a sector never written
  RamLbas,                \* the sectors the RAM disk has
  MaxFaults,              \* bound: errors the drive reports
  MaxCrashes              \* bound: power losses

ASSUME DiskAssumption ==
  Blank \notin Values /\ RamLbas \subseteq Lbas /\ MaxFaults \in Nat /\ MaxCrashes \in Nat

VARIABLES
  pc,          \* where disk_init, disk_read or disk_write is
  call,        \* its arguments
  backend,     \* g_using_ramdisk; "none" before disk_init
  ram,         \* g_ramdisk
  present,     \* an ATA drive is attached
  drive,       \* phase, error bit and command of the drive
  medium,      \* its sectors
  answer,      \* what the last call returned
  acked,       \* history: what each sector of the drive should hold, where the last
               \* write to it was reported as done
  kept,        \* history: the same of the RAM disk
  denied,      \* history: sectors whose last such write the drive had refused
  faults, crashes

vars == <<pc, call, backend, ram, present, drive, medium, answer, acked, kept, denied,
          faults, crashes>>

NoCall == [op |-> "none"]
Reads  == [op : {"read"}, lba : Lbas]
Writes == [op : {"write"}, lba : Lbas, val : Values]
Calls  == Reads \cup Writes

Ok(v)  == [ok |-> TRUE, val |-> v]
Failed == [ok |-> FALSE, val |-> Blank]

Contents == Values \cup {Blank}
Zeros    == [l \in Lbas |-> Blank]
Unknown  == "unknown"
Nothing  == [l \in Lbas |-> Unknown]

\* BSY and DRQ as they follow from the phase: a command is being worked on, data
\* can be transferred, data is being stored.
Busy == drive.phase \in {"working", "storing"}
Drq  == drive.phase = "data"

Init ==
  /\ pc = "boot" /\ call = NoCall /\ backend = "none" /\ ram = Zeros
  /\ present \in BOOLEAN
  /\ drive = [phase |-> "idle", err |-> FALSE, cmd |-> NoCall]
  /\ medium = Zeros /\ answer = Failed
  /\ acked = Nothing /\ kept = Nothing /\ denied = {}
  /\ faults = MaxFaults /\ crashes = MaxCrashes

-------------------------------------------------------------------------------
\* disk_init.

\* ata_identify finds a drive and its size.
InitAta ==
  /\ pc = "boot" /\ present
  /\ backend' = "ata" /\ pc' = "ready"
  /\ UNCHANGED <<call, ram, present, drive, medium, answer, acked, kept, denied, faults, crashes>>

\* There is no drive, or it is slow, a CD drive or without a size; usb_msc_init
\* finds nothing, so the RAM disk is taken, and disk_init returns 0 all the same.
InitRam ==
  /\ pc = "boot"
  /\ backend' = "ram" /\ ram' = Zeros /\ pc' = "ready"
  /\ UNCHANGED <<call, present, drive, medium, answer, acked, kept, denied, faults, crashes>>

-------------------------------------------------------------------------------
\* disk_read and disk_write.

Return(a) == answer' = a /\ pc' = "ready" /\ call' = NoCall

Begin(c) ==
  /\ pc = "ready" /\ call' = c
  /\ pc' = IF backend = "ram" THEN "ram" ELSE "waitIdle"
  /\ UNCHANGED <<backend, ram, present, drive, medium, answer, acked, kept, denied, faults, crashes>>

\* disk_read and disk_write on the RAM disk.
RamRefuses ==
  /\ pc = "ram" /\ call.lba \notin RamLbas
  /\ Return(Failed)
  /\ UNCHANGED <<backend, ram, present, drive, medium, acked, kept, denied, faults, crashes>>

RamRead ==
  /\ pc = "ram" /\ call \in Reads /\ call.lba \in RamLbas
  /\ Return(Ok(ram[call.lba]))
  /\ UNCHANGED <<backend, ram, present, drive, medium, acked, kept, denied, faults, crashes>>

RamStore ==
  /\ pc = "ram" /\ call \in Writes /\ call.lba \in RamLbas
  /\ ram' = [ram EXCEPT ![call.lba] = call.val]
  /\ pc' = "ramStored"
  /\ kept' = [kept EXCEPT ![call.lba] = Unknown]
  /\ UNCHANGED <<call, backend, present, drive, medium, answer, acked, denied, faults, crashes>>

RamWritten ==
  /\ pc = "ramStored"
  /\ Return(Ok(call.val))
  /\ kept' = [kept EXCEPT ![call.lba] = call.val]
  /\ UNCHANGED <<backend, ram, present, drive, medium, acked, denied, faults, crashes>>

\* ata_wait_not_busy succeeds; drive, sector and command are written.  A drive
\* that still waits to transfer the data of an abandoned command drops it.
SendCommand ==
  /\ pc = "waitIdle" /\ ~Busy
  /\ drive' = [phase |-> "working", err |-> FALSE, cmd |-> call]
  /\ pc' = "waitDrq"
  /\ UNCHANGED <<call, backend, ram, present, medium, answer, acked, kept, denied, faults, crashes>>

\* Slip: the arguments of the call are kept.
StaysBusyOpen ==
  /\ pc \in {"waitIdle", "waitDrq", "waitDone"} /\ Busy
  /\ answer' = Failed /\ pc' = "ready" /\ UNCHANGED call
  /\ UNCHANGED <<backend, ram, present, drive, medium, acked, kept, denied, faults, crashes>>

\* 100000 polls pass and the drive stays busy.
StaysBusy ==
  /\ pc \in {"waitIdle", "waitDrq", "waitDone"} /\ Busy
  /\ Return(Failed)
  /\ UNCHANGED <<backend, ram, present, drive, medium, acked, kept, denied, faults, crashes>>

\* ata_wait_drq sees the error bit.
DrqError ==
  /\ pc = "waitDrq" /\ drive.err
  /\ Return(Failed)
  /\ UNCHANGED <<backend, ram, present, drive, medium, acked, kept, denied, faults, crashes>>

ReadData ==
  /\ pc = "waitDrq" /\ ~drive.err /\ Drq /\ call \in Reads
  /\ Return(Ok(medium[drive.cmd.lba]))
  /\ drive' = [drive EXCEPT !.phase = "idle"]
  /\ UNCHANGED <<backend, ram, present, medium, acked, kept, denied, faults, crashes>>

WriteData ==
  /\ pc = "waitDrq" /\ ~drive.err /\ Drq /\ call \in Writes
  /\ drive' = [drive EXCEPT !.phase = "storing"]
  /\ pc' = "waitDone"
  /\ acked' = [acked EXCEPT ![call.lba] = Unknown]
  /\ UNCHANGED <<call, backend, ram, present, medium, answer, kept, denied, faults, crashes>>

\* Slip: disk_write returns before the drive has stored the sector.
WriteEndsEarly ==
  /\ pc = "waitDone"
  /\ Return(Ok(call.val))
  /\ acked' = [acked EXCEPT ![call.lba] = call.val]
  /\ denied' = IF drive.err THEN denied \cup {call.lba} ELSE denied \ {call.lba}
  /\ UNCHANGED <<backend, ram, present, drive, medium, kept, faults, crashes>>

\* The drive is no longer busy: disk_write returns 0.  The error bit is not looked
\* at, so the sector counts as written also when the drive has refused it.
WriteEnds ==
  /\ pc = "waitDone" /\ ~Busy
  /\ Return(Ok(call.val))
  /\ acked' = [acked EXCEPT ![call.lba] = call.val]
  /\ denied' = IF drive.err THEN denied \cup {call.lba} ELSE denied \ {call.lba}
  /\ UNCHANGED <<backend, ram, present, drive, medium, kept, faults, crashes>>

-------------------------------------------------------------------------------
\* The drive, and power.

DriveReady ==
  /\ drive.phase = "working"
  /\ drive' = [drive EXCEPT !.phase = "data"]
  /\ UNCHANGED <<pc, call, backend, ram, present, medium, answer, acked, kept, denied, faults, crashes>>

DriveStores ==
  /\ drive.phase = "storing"
  /\ medium' = [medium EXCEPT ![drive.cmd.lba] = drive.cmd.val]
  /\ drive' = [drive EXCEPT !.phase = "idle"]
  /\ UNCHANGED <<pc, call, backend, ram, present, answer, acked, kept, denied, faults, crashes>>

\* An error before the data, or after it.
DriveFault ==
  /\ Busy /\ faults > 0
  /\ drive' = [drive EXCEPT !.phase = "idle", !.err = TRUE]
  /\ faults' = faults - 1
  /\ UNCHANGED <<pc, call, backend, ram, present, medium, answer, acked, kept, denied, crashes>>

\* The drive finishes the sector it is storing, or not; memory is lost.
Crash ==
  /\ crashes > 0 /\ pc # "boot"
  /\ \/ UNCHANGED medium
     \/ /\ drive.phase = "storing"
        /\ medium' = [medium EXCEPT ![drive.cmd.lba] = drive.cmd.val]
  /\ pc' = "boot" /\ call' = NoCall /\ backend' = "none" /\ ram' = Zeros
  /\ drive' = [phase |-> "idle", err |-> FALSE, cmd |-> NoCall]
  /\ kept' = Nothing
  /\ crashes' = crashes - 1
  /\ UNCHANGED <<present, answer, acked, denied, faults>>

-------------------------------------------------------------------------------
Next ==
  \/ InitAta \/ InitRam
  \/ \E c \in Calls : Begin(c)
  \/ RamRefuses \/ RamRead \/ RamStore \/ RamWritten
  \/ SendCommand \/ StaysBusy \/ DrqError \/ ReadData \/ WriteData \/ WriteEnds
  \/ DriveReady \/ DriveStores \/ DriveFault \/ Crash

Spec == Init /\ [][Next]_vars

-------------------------------------------------------------------------------
\* Properties.

\* Every variable keeps its range, and a call is open just while it runs.
TypeOK ==
  /\ pc \in {"boot", "ready", "ram", "ramStored", "waitIdle", "waitDrq", "waitDone"}
  /\ call \in Calls \cup {NoCall} /\ (call = NoCall <=> pc \in {"boot", "ready"})
  /\ backend \in {"none", "ata", "ram"}
  /\ ram \in [Lbas -> Contents] /\ medium \in [Lbas -> Contents]
  /\ present \in BOOLEAN
  /\ drive \in [phase : {"idle", "working", "data", "storing"}, err : BOOLEAN,
                cmd : Calls \cup {NoCall}]
  /\ answer \in [ok : BOOLEAN, val : Contents]
  /\ acked \in [Lbas -> Values \cup {Unknown}] /\ kept \in [Lbas -> Values \cup {Unknown}]
  /\ denied \subseteq Lbas
  /\ faults \in Nat /\ crashes \in Nat

\* The call whose command the drive works on is still open.
Attended == pc \in {"waitDrq", "waitDone"}

\* A write whose data the drive holds after disk_write has given up.
Floating == IF drive.phase = "storing" /\ ~Attended THEN drive.cmd ELSE NoCall

\* The medium in use; whether the open write has reached it, or been refused.
Current == IF backend = "ram" THEN ram ELSE medium
Landed  == pc = "ramStored" \/ (pc = "waitDone" /\ drive.phase = "idle" /\ ~drive.err)
Refused == pc = "waitDone" /\ drive.phase = "idle" /\ drive.err

Store == INSTANCE SectorStore WITH
  store <- Current, open <- call, landed <- Landed, floating <- Floating, refused <- Refused

\* The disk layer is the store of sectors that the file system takes it for: a
\* read that succeeds returns what is stored, although commands are abandoned and
\* the drive finishes them later; a failed write lands before the next success or
\* never.  The one lie is a drive that reports an error after it has taken the
\* data: disk_write does not look.
ImplementsStore == Store!Spec

\* What disk_write has reported as written is on the medium it was written to until
\* the next write to the sector: on the drive also over abandoned commands, power
\* losses and boots on the RAM disk, on the RAM disk until power is lost.  It does not
\* hold of a sector whose last write the drive has refused after it took the data:
\* disk_write returns 0 for it all the same, and the sector keeps what it held.
AckedStays ==
  /\ \A l \in Lbas \ denied : acked[l] # Unknown => medium[l] = acked[l]
  /\ \A l \in Lbas : kept[l] # Unknown => ram[l] = kept[l]
===============================================================================
