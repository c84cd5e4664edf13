------------------------------- MODULE KososFs -------------------------------
(***************************************************************************)
(* The file system of src/src/fs.c: the FAT and the current directory in   *)
(* memory, the superblock, the FAT and the clusters on disk, and every     *)
(* operation that fs.h offers the shell and the editor.                    *)
(*                                                                         *)
(* The kernel is one thread with no interrupts, so the only things that    *)
(* can come between two steps of an operation are a failing disk access    *)
(* and the loss of power.  An operation is therefore cut at its disk       *)
(* writes: one step per component of the path it walks, then one step per  *)
(* sector it writes, each of which may fail, and a power loss between any  *)
(* two of them.                                                            *)
(***************************************************************************)
EXTENDS FatTable, Sequences

CONSTANTS
  NSlots,          \* directory entries in a cluster (16 in the code)
  FatPerSector,    \* links in a FAT sector (128 in the code)
  Names,           \* names of files and directories
  Texts,           \* what a file may contain
  MaxSize,         \* bound: clusters of data in a file
  MaxDepth,        \* names that fit in g_cwd_path
  MaxNesting,      \* activations of fs_remove_dir_contents that fit the stack
  Requests,        \* the calls the shell makes (a set of Request)
  MaxFaults,       \* bound: disk accesses that fail
  MaxCrashes       \* bound: power losses

Dots == {".", ".."}
TooLong == "tooLong"       \* a component of 16 characters or more
Empty   == "-"             \* the empty name of a free slot, and no text
Components == Names \cup Dots \cup {TooLong}

-------------------------------------------------------------------------------
\* Directory entries and clusters.

Slots == 1..NSlots

Entries ==
  [name  : Names \cup Texts \cup Dots \cup {Empty},
   type  : {"none", "file", "dir", "text"},
   size  : 0..MaxSize,
   first : Clusters \cup {NoCluster}]

\* A zeroed entry: its empty name marks the slot as free.
Zeroed == [name |-> Empty, type |-> "none", size |-> 0, first |-> NoCluster]

\* Slip: a cluster more than there is.
FileEntryLonger(n, s, c) == [name |-> n, type |-> "file", size |-> s + 1, first |-> c]

FileEntry(n, s, c) == [name |-> n, type |-> "file", size |-> s, first |-> c]
DirEntry(n, c)     == [name |-> n, type |-> "dir",  size |-> 0, first |-> c]

Blocks == [Slots -> Entries]
ZeroBlock == [i \in Slots |-> Zeroed]

\* Slip: the parent link leads to the directory itself.
DirBlockOrphan(self, parent) ==
  [i \in Slots |-> IF i <= 2 THEN DirEntry(IF i = 1 THEN "." ELSE "..", self) ELSE Zeroed]

\* The block that fs_init_dir_cluster writes.
DirBlock(self, parent) ==
  [i \in Slots |-> CASE i = 1 -> DirEntry(".", self)
                     [] i = 2 -> DirEntry("..", parent)
                     [] OTHER -> Zeroed]

\* Cluster number k of a file that contains text.  Read as a directory it is
\* full of entries whose type byte is neither FS_ENTRY_FILE nor FS_ENTRY_DIR.
TextBlock(text, k) ==
  [i \in Slots |-> [name |-> text, type |-> "text", size |-> k, first |-> NoCluster]]

\* A file or directory, as opposed to a free slot, a dot entry or file text.
IsProper(e) == e.type \in {"file", "dir"} /\ e.name \notin Dots

-------------------------------------------------------------------------------
\* Calls.  In a path abs tells whether it starts with '/'.

Paths == [abs : BOOLEAN, comps : Seq(Components)]

Request ==
  [op   : {"mkdir", "touch", "write", "rm", "rmdir", "cd"},
   path : Paths,
   text : Texts \cup {Empty},       \* write: what is written
   size : 0..MaxSize,            \* write: how much of it, in clusters
   flag : BOOLEAN]               \* write: overwrite, rmdir: recursive

ASSUME FsAssumption ==
  /\ RootCluster \in Clusters
  /\ NSlots \in Nat /\ NSlots >= 3
  /\ FatPerSector \in Nat \ {0}
  /\ Names \cap (Dots \cup {TooLong, Empty}) = {}
  /\ Texts \cap (Names \cup Dots \cup {TooLong, Empty}) = {}
  /\ Requests \subseteq Request
  /\ MaxSize \in Nat /\ MaxDepth \in Nat /\ MaxNesting \in Nat
  /\ MaxFaults \in Nat /\ MaxCrashes \in Nat

\* What is written is a text.
ASSUME TextAssumption == \A r \in Requests : r.size > 0 => r.text \in Texts

NoRequest == [op |-> "none", path |-> [abs |-> TRUE, comps |-> <<>>],
              text |-> Empty, size |-> 0, flag |-> FALSE]

VARIABLES
  super,       \* the superblock on disk carries FS_MAGIC
  diskFat,     \* the FAT on disk
  block,       \* the data clusters on disk
  ready,       \* g_ready
  fat,         \* g_fat
  cwd,         \* g_cwd_cluster
  cwdPath,     \* g_cwd_path, as a sequence of names
  pc,          \* the step about to run
  loc,         \* the locals of the running operation
  frames,      \* the activations of fs_remove_dir_contents, innermost first
  ret,         \* what the last operation returned
  faults,      \* disk faults still allowed
  crashes,     \* power losses still allowed
  marks        \* history: what interrupted or refused operations left behind

disk   == <<super, diskFat, block>>
memory == <<ready, fat, cwd, cwdPath>>
vars   == <<disk, memory, pc, loc, frames, ret, faults, crashes, marks>>

\* req: the call; rest: the components still to walk; cur: the directory the
\* walk has reached, then the parent; path: out_path; missed: fs_lookup_entry
\* failed on a disk fault; found: the looked-up name existed; at: entry_cluster
\* and entry_index; entry: the entry to be written; k: the next sector of a
\* loop; data: the cluster to be written next; then: the step after a flush.
Locals ==
  [req : Requests \cup {NoRequest}, rest : Seq(Components),
   cur : Clusters \cup {NoCluster}, path : Seq(Names), missed : BOOLEAN,
   found : BOOLEAN, at : Clusters \X Slots, entry : Entries, k : Nat,
   data : Clusters \cup {NoCluster},
   then : {"formatRoot", "initDir", "addEntry", "addCluster", "setEntry", "return"}]

NoLocals ==
  [req |-> NoRequest, rest |-> <<>>, cur |-> NoCluster, path |-> <<>>,
   missed |-> FALSE, found |-> FALSE, at |-> <<RootCluster, 1>>, entry |-> Zeroed,
   k |-> 0, data |-> NoCluster, then |-> "return"]

Frames == [dir : Clusters, buf : Blocks, dirty : BOOLEAN]

Marks == {"leak", "dangling", "stale", "torn", "duplicate", "cwdGone", "dotCut", "halfFormat"}

-------------------------------------------------------------------------------
\* The disk.

\* A read succeeds, or fails at the cost of a fault.
Reads == {TRUE} \cup (IF faults > 0 THEN {FALSE} ELSE {})

\* A write succeeds, or fails and is lost, or fails after the sector has been
\* written (disk_write fails, too, when the drive stays busy after the last byte).
Writes == {"done"} \cup (IF faults > 0 THEN {"lost", "landed"} ELSE {})

Spend(ok) == faults' = IF ok THEN faults ELSE faults - 1

WriteBlock(c, b, w) ==
  /\ block' = IF w = "lost" THEN block ELSE [block EXCEPT ![c] = b]
  /\ Spend(w = "done")
  /\ UNCHANGED <<super, diskFat>>

LastFatSector == (NClusters + 1) \div FatPerSector

\* The disk FAT after sector k of the memory FAT has been written.
FlushSector(k) ==
  [c \in Indices |-> IF c \div FatPerSector = k THEN fat[c] ELSE diskFat[c]]

-------------------------------------------------------------------------------
\* Control.

Goto(label, l) == pc' = label /\ loc' = l

Return(r) == pc' = "idle" /\ loc' = NoLocals /\ ret' = r

\* The operation gives up and leaves m behind.
GiveUp(m) == Return("failed") /\ marks' = marks \cup m

\* A write that landed has its effect although the operation reports a failure.
Unless(w, m) == IF w = "landed" THEN {} ELSE m

\* Slip: the first sector is taken for one that does not change.
StartFlushLate(l, label) == Goto("flush", [l EXCEPT !.k = 1, !.then = label])

\* fs_flush_fat, then step label.
StartFlush(l, label) == Goto("flush", [l EXCEPT !.k = 0, !.then = label])

Running(op, label) == pc = label /\ loc.req.op = op

-------------------------------------------------------------------------------
\* Looking a name up: fs_find_entry.

\* Cluster d comes after cluster c on their chain.
After(f, c, d) == c # d /\ d \in Chain(f, c)

Earlier(f, p, q) == After(f, p[1], q[1]) \/ (p[1] = q[1] /\ p[2] < q[2])

\* The first place in the chain of directory d with one of these names.
FirstPlace(d, names) ==
  LET places == {p \in Chain(fat, d) \X Slots : block[p[1]][p[2]].name \in names}
  IN  {p \in places : \A q \in places : ~Earlier(fat, q, p)}

\* Slip: only the first cluster of the directory is searched.
FindInFirstCluster(d, n) == {p \in FirstPlace(d, {n}) : p[1] = d}

\* Where directory d has name n: one place, or none.
FindEntry(d, n) == FirstPlace(d, {n})

\* Where fs_add_entry puts a new entry.
FreeSlot(d) == FirstPlace(d, {Empty})

EntryAt(p) == block[p[1]][p[2]]

\* fs_dir_is_empty
DirIsEmpty(d) ==
  \A c \in Chain(fat, d), i \in Slots : block[c][i].name \in Dots \cup {Empty}

-------------------------------------------------------------------------------
\* Starting up: fs_init, fs_format.

Init ==
  /\ super = FALSE                       \* the blank image of the Makefile
  /\ diskFat = ZeroFat
  /\ block = [c \in Clusters |-> ZeroBlock]
  /\ ready = FALSE
  /\ fat = ZeroFat
  /\ cwd = RootCluster
  /\ cwdPath = <<>>
  /\ pc = "off"
  /\ loc = NoLocals
  /\ frames = <<>>
  /\ ret = "none"
  /\ faults = MaxFaults
  /\ crashes = MaxCrashes
  /\ marks = {}

\* fs_init reads the superblock and formats a disk that has none.
Boot ==
  /\ pc = "off"
  /\ \E ok \in Reads :
       /\ Spend(ok)
       /\ CASE ~ok         -> pc' = "idle" /\ fat' = fat
            [] ok /\ super  -> pc' = "load" /\ fat' = fat
            [] ok /\ ~super -> pc' = "formatSuper" /\ fat' = FormattedFat
  /\ UNCHANGED <<disk, ready, cwd, cwdPath, loc, frames, ret, crashes, marks>>

FormatSuper ==
  /\ pc = "formatSuper"
  /\ \E w \in Writes :
       /\ super' = (w # "lost")
       /\ Spend(w = "done")
       /\ IF w = "done" THEN StartFlush(loc, "formatRoot")
                        ELSE Goto("idle", loc)
       /\ marks' = IF w = "landed" THEN marks \cup {"halfFormat"} ELSE marks
  /\ UNCHANGED <<diskFat, block, memory, frames, ret, crashes>>

FormatRoot ==
  /\ pc = "formatRoot"
  /\ \E w \in Writes :
       /\ WriteBlock(RootCluster, DirBlock(RootCluster, RootCluster), w)
       /\ IF w = "done" THEN Goto("load", NoLocals) /\ marks' = marks
                        ELSE Goto("idle", NoLocals) /\ marks' = marks \cup {"halfFormat"}
  /\ UNCHANGED <<memory, frames, ret, crashes>>

\* Slip: the FAT is not loaded.
LoadNothing ==
  /\ pc = "load"
  /\ ready' = TRUE
  /\ cwd' = RootCluster /\ cwdPath' = <<>>
  /\ pc' = "idle"
  /\ UNCHANGED <<disk, fat, loc, frames, ret, faults, crashes, marks>>

\* fs_load_fat, and the end of fs_init.
Load ==
  /\ pc = "load"
  /\ \E ok \in Reads :
       /\ Spend(ok)
       /\ ready' = ok
       /\ fat' = IF ok THEN diskFat ELSE fat
  /\ cwd' = RootCluster /\ cwdPath' = <<>>
  /\ pc' = "idle"
  /\ UNCHANGED <<disk, loc, frames, ret, crashes, marks>>

Flushing(label) == pc = "flush" /\ loc.then = label

\* What a power loss at this step leaves on the disk.
CrashMarks ==
  IF Flushing("formatRoot") \/ pc = "formatRoot" THEN {"halfFormat"}
  ELSE IF pc = "data" THEN IF loc.found THEN {"torn"} ELSE {}
  ELSE IF Flushing("setEntry") \/ Running("write", "setEntry") THEN {"dangling", "torn"}
  ELSE IF Flushing("addCluster") \/ pc = "addCluster" THEN {"stale", "leak"}
  ELSE IF pc \in {"flush", "initDir", "addEntry", "setEntry", "scan", "halted"} THEN {"leak"}
  ELSE {}

\* The power goes, at any step; memory is lost and the machine starts again.
Crash ==
  /\ pc # "off" /\ (crashes > 0 \/ pc = "halted")
  /\ crashes' = IF pc = "halted" THEN crashes ELSE crashes - 1
  /\ marks' = marks \cup CrashMarks
  /\ pc' = "off"
  /\ fat' = ZeroFat /\ ready' = FALSE /\ cwd' = RootCluster /\ cwdPath' = <<>>
  /\ loc' = NoLocals /\ frames' = <<>> /\ ret' = "none"
  /\ UNCHANGED <<disk, faults>>

-------------------------------------------------------------------------------
\* Calls and the walk along their path: fs_lookup_entry, fs_split_path and
\* fs_resolve_dir.

Offline ==
  /\ pc = "idle" /\ ~ready
  /\ ret' = "failed"                     \* "Storage is offline."
  /\ UNCHANGED <<disk, memory, pc, loc, frames, faults, crashes, marks>>

\* The first component of the walk, from the root or from the cwd.
StartWalk(r) ==
  [NoLocals EXCEPT !.req  = r,
                   !.rest = r.path.comps,
                   !.cur  = IF r.path.abs THEN RootCluster ELSE cwd,
                   !.path = IF r.op \in {"cd", "mkdir"} /\ ~r.path.abs THEN cwdPath ELSE <<>>]

Call(r) ==
  /\ pc = "idle" /\ ready
  /\ r.op = "cd" \/ r.path.comps # <<>>
  /\ Goto("walk", StartWalk(r))
  /\ ret' = "none"
  /\ UNCHANGED <<disk, memory, frames, faults, crashes, marks>>

\* "/" itself cannot be created, written or removed.
CallRoot(r) ==
  /\ pc = "idle" /\ ready
  /\ r.op # "cd" /\ r.path.comps = <<>>
  /\ ret' = "failed"
  /\ UNCHANGED <<disk, memory, pc, loc, frames, faults, crashes, marks>>

Name == Head(loc.rest)

\* All but the change of directory stop before the last component.
AtLast == loc.req.op # "cd" /\ Len(loc.rest) = 1

Walking == pc = "walk" /\ loc.rest # <<>> /\ ~AtLast /\ Name # TooLong

WalkDot ==
  /\ Walking /\ Name = "."
  /\ Goto("walk", [loc EXCEPT !.rest = Tail(@)])
  /\ UNCHANGED <<disk, memory, frames, ret, faults, crashes, marks>>

\* Slip: ".." does not shorten the path text.
PathAfterNoPop(path, n) ==
  IF loc.req.op \in {"cd", "mkdir"} /\ n # ".." THEN Append(path, n) ELSE path

\* fs_path_append and fs_path_pop, in the two operations that keep a path text.
PathAfter(path, n) ==
  IF loc.req.op \notin {"cd", "mkdir"} THEN path
  ELSE IF n # ".." THEN Append(path, n)
  ELSE IF path = <<>> THEN path
  ELSE SubSeq(path, 1, Len(path) - 1)

\* Slip: the length of the path text is not looked at.
NextHopUnbounded ==
  {p \in FindEntry(loc.cur, Name) : Name = ".." \/ EntryAt(p).type = "dir"}

\* The entry to follow; for ".." the code does not look at its type.
NextHop ==
  {p \in FindEntry(loc.cur, Name) :
     /\ Name = ".." \/ EntryAt(p).type = "dir"
     /\ Len(PathAfter(loc.path, Name)) <= MaxDepth}

WalkDown ==
  /\ Walking /\ Name # "."
  /\ \E p \in NextHop :
       Goto("walk", [loc EXCEPT !.rest = Tail(@),
                                !.cur  = EntryAt(p).first,
                                !.path = PathAfter(@, Name)])
  /\ UNCHANGED <<disk, memory, frames, ret, faults, crashes, marks>>

\* No such directory, or it could not be read.
WalkFails ==
  /\ Walking /\ Name # "."
  /\ \E ok \in Reads :
       /\ Spend(ok)
       /\ ok => NextHop = {}
       /\ ok \/ loc.req.op # "write" \/ loc.missed
  /\ GiveUp({})
  /\ UNCHANGED <<disk, memory, frames, crashes>>

\* fs_write_file takes a failed look-up for "does not exist" and splits the
\* path again.
MissedByWrite ==
  /\ Running("write", "walk") /\ ~loc.missed
  /\ Name # TooLong /\ (AtLast \/ Name # ".")
  /\ FALSE \in Reads
  /\ Spend(FALSE)
  /\ Goto("walk", [StartWalk(loc.req) EXCEPT !.missed = TRUE])
  /\ UNCHANGED <<disk, memory, frames, ret, crashes, marks>>

\* A component that fs_next_component cannot hold ends the walk; only
\* fs_resolve_dir takes that for the end of the path.
WalkTooLong ==
  /\ pc = "walk" /\ loc.rest # <<>> /\ Name = TooLong
  /\ loc.req.op # "cd"
  /\ GiveUp({})
  /\ UNCHANGED <<disk, memory, frames, faults, crashes>>

\* fs_cd
Cd ==
  /\ Running("cd", "walk")
  /\ IF loc.rest = <<>> THEN TRUE ELSE Name = TooLong
  /\ cwd' = loc.cur
  /\ cwdPath' = loc.path
  /\ Return("ok")
  /\ UNCHANGED <<disk, ready, fat, frames, faults, crashes, marks>>

-------------------------------------------------------------------------------
\* The last component: what each operation does before its first write.

Arrived(op) == Running(op, "walk") /\ AtLast /\ Name # TooLong

Places == FindEntry(loc.cur, Name)

\* The checks for an existing name take a failed read for "not found".
Hidden(ok) == IF ~ok /\ Places # {} THEN marks \cup {"duplicate"} ELSE marks

\* fs_mkdir: "Name already exists." or "No free space."
MkdirRefused ==
  /\ Arrived("mkdir")
  /\ Places # {} \/ ~HasRoom(fat, 1)
  /\ GiveUp({})
  /\ UNCHANGED <<disk, memory, frames, faults, crashes>>

Mkdir ==
  /\ Arrived("mkdir") /\ HasRoom(fat, 1)
  /\ \E ok \in Reads :
       /\ ok => Places = {}
       /\ Spend(ok)
       /\ marks' = Hidden(ok)
  /\ fat' = AllocChain(fat, 1)
  /\ StartFlush([loc EXCEPT !.entry = DirEntry(Name, Least(FirstFit(fat, 1)))], "initDir")
  /\ UNCHANGED <<disk, ready, cwd, cwdPath, frames, ret, crashes>>

TouchRefused ==
  /\ Arrived("touch") /\ Places # {}
  /\ GiveUp({})
  /\ UNCHANGED <<disk, memory, frames, faults, crashes>>

\* fs_touch
Touch ==
  /\ Arrived("touch")
  /\ \E ok \in Reads :
       /\ ok => Places = {}
       /\ Spend(ok)
       /\ marks' = Hidden(ok)
  /\ Goto("addEntry", [loc EXCEPT !.entry = FileEntry(Name, 0, NoCluster)])
  /\ UNCHANGED <<disk, memory, frames, ret, crashes>>

\* fs_write_file: "Not a file." or "File exists."
WriteRefused ==
  /\ Arrived("write") /\ ~loc.missed
  /\ \E p \in Places : EntryAt(p).type # "file" \/ ~loc.req.flag
  /\ GiveUp({})
  /\ UNCHANGED <<disk, memory, frames, faults, crashes>>

\* How fs_write_file stores the entry in the end.
StoreStep(l) == IF l.found THEN "setEntry" ELSE "addEntry"

\* The locals at the first of the clusters to be written, which begin at first.
AtData(l, e, first) ==
  [l EXCEPT !.entry = [e EXCEPT !.first = first], !.data = first, !.k = 1]

\* Allocating the clusters of the file from the table f and going on to write
\* them, with the entry e to be stored in the end.
StartData(f, l, e) ==
  /\ HasRoom(f, l.req.size)
  /\ fat' = AllocChain(f, l.req.size)
  /\ \/ l.req.size = 0 /\ StartFlush([l EXCEPT !.entry = e], StoreStep(l))
     \/ l.req.size > 0 /\ Goto("data", AtData(l, e, Least(FirstFit(f, l.req.size))))

\* The old contents are released before the new ones are allocated.
Released(e) == FreeChain(fat, e.first)

\* An existing file that may be overwritten.
Overwritable == {p \in Places : ~loc.missed /\ EntryAt(p).type = "file" /\ loc.req.flag}

WriteOver ==
  /\ Arrived("write")
  /\ \E p \in Overwritable :
       StartData(Released(EntryAt(p)), [loc EXCEPT !.found = TRUE, !.at = p],
                 [EntryAt(p) EXCEPT !.size = loc.req.size, !.first = NoCluster])
  /\ UNCHANGED <<disk, ready, cwd, cwdPath, frames, ret, faults, crashes, marks>>

\* "No free space.": the old contents stay released.
WriteOverNoRoom ==
  /\ Arrived("write")
  /\ \E p \in Overwritable :
       /\ ~HasRoom(Released(EntryAt(p)), loc.req.size)
       /\ fat' = Released(EntryAt(p))
       /\ GiveUp(IF EntryAt(p).first = NoCluster THEN {} ELSE {"dangling"})
  /\ UNCHANGED <<disk, ready, cwd, cwdPath, frames, faults, crashes>>

WriteNew ==
  /\ Arrived("write")
  /\ loc.missed \/ Places = {}
  /\ marks' = Hidden(~loc.missed)
  /\ StartData(fat, loc, FileEntry(Name, loc.req.size, NoCluster))
  /\ UNCHANGED <<disk, ready, cwd, cwdPath, frames, ret, faults, crashes>>

WriteNewNoRoom ==
  /\ Arrived("write")
  /\ loc.missed \/ Places = {}
  /\ ~HasRoom(fat, loc.req.size)
  /\ GiveUp({})
  /\ UNCHANGED <<disk, memory, frames, faults, crashes>>

\* The file or directory that an operation looks up, without which it fails.
LookedUp(type) == {p \in Places : EntryAt(p).type = type}

\* Releasing a chain frees the current directory if it is part of it.
Forget(c) == IF cwd \in Chain(fat, c) THEN {"cwdGone"} ELSE {}

\* Slip: the FAT is written before the entry is cleared.
RmFatFirst ==
  /\ Arrived("rm")
  /\ \E p \in LookedUp("file") :
       /\ fat' = FreeChain(fat, EntryAt(p).first)
       /\ StartFlush([loc EXCEPT !.at = p, !.entry = Zeroed], "setEntry")
  /\ UNCHANGED <<disk, ready, cwd, cwdPath, frames, ret, faults, crashes, marks>>

\* fs_remove_file
Rm ==
  /\ Arrived("rm")
  /\ \E p \in LookedUp("file") :
       /\ fat' = FreeChain(fat, EntryAt(p).first)
       /\ Goto("setEntry", [loc EXCEPT !.at = p, !.entry = Zeroed])
       /\ marks' = marks \cup Forget(EntryAt(p).first)
  /\ UNCHANGED <<disk, ready, cwd, cwdPath, frames, ret, faults, crashes>>

\* fs_remove_file and fs_remove_dir: not found, not readable or of the wrong
\* type; without the recursive flag also "Directory not empty."
RemoveRefused ==
  /\ Arrived("rm") \/ Arrived("rmdir")
  /\ \E ok \in Reads :
       /\ Spend(ok)
       /\ ok => \/ LookedUp(IF loc.req.op = "rm" THEN "file" ELSE "dir") = {}
                \/ /\ loc.req.op = "rmdir" /\ ~loc.req.flag
                   /\ \E p \in LookedUp("dir") : ~DirIsEmpty(EntryAt(p).first)
  /\ GiveUp({})
  /\ UNCHANGED <<disk, memory, frames, crashes>>

\* Slip: the entry is written back without having been cleared.
UnlinkKeepingEntry(l, c) ==
  /\ fat' = FreeChain(fat, c)
  /\ Goto("setEntry", [l EXCEPT !.entry = EntryAt(l.at)])
  /\ marks' = marks

\* fs_remove_dir once the directory is empty: release its chain, clear the entry.
Unlink(l, c) ==
  /\ fat' = FreeChain(fat, c)
  /\ Goto("setEntry", [l EXCEPT !.entry = Zeroed])
  /\ marks' = marks \cup Forget(c) \cup (IF l.rest[1] \in Dots THEN {"dotCut"} ELSE {})

RmdirEmpty ==
  /\ Arrived("rmdir") /\ ~loc.req.flag
  /\ \E p \in LookedUp("dir") :
       /\ DirIsEmpty(EntryAt(p).first)
       /\ Unlink([loc EXCEPT !.at = p], EntryAt(p).first)
  /\ UNCHANGED <<disk, ready, cwd, cwdPath, frames, ret, faults, crashes>>

\* A directory whose contents fs_remove_dir_contents starts to remove.
Frame(c) == [dir |-> c, buf |-> block[c], dirty |-> FALSE]

RmdirAll ==
  /\ Arrived("rmdir") /\ loc.req.flag
  /\ \E p \in LookedUp("dir") :
       /\ EntryAt(p).first \in Clusters
       /\ frames' = <<Frame(EntryAt(p).first)>>
       /\ Goto("scan", [loc EXCEPT !.at = p, !.entry = EntryAt(p)])
  /\ UNCHANGED <<disk, memory, ret, faults, crashes, marks>>

\* fs_remove_dir_contents works through the entries of a copy of one cluster,
\* in order; the entries it has dealt with are cleared in the copy.
Top == Head(frames)
Pending(t) == {i \in Slots : IsProper(t.buf[i])}

\* Slip: the entry stays in the copy.
ClearedNot(t) == [t EXCEPT !.dirty = TRUE]

Cleared(t) == [t EXCEPT !.buf[Least(Pending(t))] = Zeroed, !.dirty = TRUE]

ScanEntry == Top.buf[Least(Pending(Top))]

Scanning == pc = "scan" /\ frames # <<>>

ScanFile ==
  /\ Scanning /\ Pending(Top) # {} /\ ScanEntry.type = "file"
  /\ fat' = FreeChain(fat, ScanEntry.first)
  /\ marks' = marks \cup Forget(ScanEntry.first)
  /\ frames' = <<Cleared(Top)>> \o Tail(frames)
  /\ UNCHANGED <<disk, ready, cwd, cwdPath, pc, loc, ret, faults, crashes>>

\* Slip: the recursion goes into the same directory.
ScanDirAgain ==
  /\ Scanning /\ Pending(Top) # {} /\ ScanEntry.type = "dir"
  /\ Len(frames) < MaxNesting
  /\ frames' = <<Frame(Top.dir)>> \o frames
  /\ UNCHANGED <<disk, memory, pc, loc, ret, faults, crashes, marks>>

\* The recursive call.
ScanDir ==
  /\ Scanning /\ Pending(Top) # {} /\ ScanEntry.type = "dir"
  /\ ScanEntry.first \in Clusters
  /\ Len(frames) < MaxNesting
  /\ frames' = <<Frame(ScanEntry.first)>> \o frames
  /\ UNCHANGED <<disk, memory, pc, loc, ret, faults, crashes, marks>>

\* The recursion has used up the 64 KiB stack of boot.S, as it does in a
\* directory that contains itself; the machine is followed no further.
ScanOverrun ==
  /\ Scanning /\ Pending(Top) # {} /\ ScanEntry.type = "dir"
  /\ ScanEntry.first \in Clusters
  /\ Len(frames) >= MaxNesting
  /\ pc' = "halted"
  /\ UNCHANGED <<disk, memory, loc, frames, ret, faults, crashes, marks>>

\* A failed read of the next cluster ends every activation.
ScanFails ==
  /\ Scanning
  /\ \/ Pending(Top) # {} /\ ScanEntry.type = "dir"
     \/ Pending(Top) = {} /\ ~Top.dirty /\ fat[Top.dir] \in Clusters
  /\ FALSE \in Reads
  /\ Spend(FALSE)
  /\ GiveUp({"dangling"})
  /\ frames' = <<>>
  /\ UNCHANGED <<disk, memory, crashes>>

\* The cluster is written back once its last entry is dealt with.
ScanWrite ==
  /\ Scanning /\ Pending(Top) = {} /\ Top.dirty
  /\ \E w \in Writes :
       /\ WriteBlock(Top.dir, Top.buf, w)
       /\ IF w = "done"
          THEN /\ frames' = <<[Top EXCEPT !.dirty = FALSE]>> \o Tail(frames)
               /\ UNCHANGED <<pc, loc, ret, marks>>
          ELSE frames' = <<>> /\ GiveUp({"dangling"})
  /\ UNCHANGED <<memory, crashes>>

ScanNextCluster ==
  /\ Scanning /\ Pending(Top) = {} /\ ~Top.dirty
  /\ fat[Top.dir] \in Clusters
  /\ frames' = <<Frame(fat[Top.dir])>> \o Tail(frames)
  /\ UNCHANGED <<disk, memory, pc, loc, ret, faults, crashes, marks>>

ScanDone == Scanning /\ Pending(Top) = {} /\ ~Top.dirty /\ fat[Top.dir] \notin Clusters

\* Back in the activation for the parent: release the subdirectory.
ScanReturn ==
  /\ ScanDone /\ Len(frames) > 1
  /\ LET above == Head(Tail(frames))
         sub   == above.buf[Least(Pending(above))]
     IN  /\ fat' = FreeChain(fat, sub.first)
         /\ marks' = marks \cup Forget(sub.first)
         /\ frames' = <<Cleared(above)>> \o Tail(Tail(frames))
  /\ UNCHANGED <<disk, ready, cwd, cwdPath, pc, loc, ret, faults, crashes>>

\* Back in fs_remove_dir.
ScanFinish ==
  /\ ScanDone /\ Len(frames) = 1
  /\ frames' = <<>>
  /\ Unlink(loc, loc.entry.first)
  /\ UNCHANGED <<disk, ready, cwd, cwdPath, ret, faults, crashes>>

-------------------------------------------------------------------------------
\* The writes of an operation.

\* The data of fs_write_file, cluster by cluster.
WriteData ==
  /\ pc = "data"
  /\ \E w \in Writes :
       /\ WriteBlock(loc.data, TextBlock(loc.req.text, loc.k), w)
       /\ IF w # "done"
          THEN GiveUp(IF loc.found THEN {"dangling", "torn"} ELSE {"leak"})
          ELSE /\ IF loc.k < loc.req.size /\ fat[loc.data] \in Clusters
                  THEN Goto("data", [loc EXCEPT !.data = fat[@], !.k = @ + 1])
                  ELSE StartFlush(loc, StoreStep(loc))
               /\ UNCHANGED <<ret, marks>>
  /\ UNCHANGED <<memory, frames, crashes>>

\* What a flush that fails leaves behind.
FlushMarks ==
  CASE loc.then = "setEntry"   -> {"dangling", "torn"}
    [] loc.then = "addCluster" -> {"stale", "leak"}
    [] loc.then = "formatRoot" -> {"halfFormat"}
    [] OTHER                   -> {"leak"}

\* fs_flush_fat, sector by sector.
Flush ==
  /\ pc = "flush"
  /\ \E w \in Writes :
       /\ diskFat' = IF w = "lost" THEN diskFat ELSE FlushSector(loc.k)
       /\ Spend(w = "done")
       /\ CASE w # "done" -> GiveUp(FlushMarks)
            [] w = "done" /\ loc.k < LastFatSector ->
                 Goto("flush", [loc EXCEPT !.k = @ + 1]) /\ UNCHANGED <<ret, marks>>
            [] w = "done" /\ loc.k >= LastFatSector /\ loc.then = "return" ->
                 Return("ok") /\ UNCHANGED marks
            [] OTHER -> Goto(loc.then, loc) /\ UNCHANGED <<ret, marks>>
  /\ UNCHANGED <<super, block, memory, frames, crashes>>

\* fs_init_dir_cluster, for fs_mkdir.
InitDir ==
  /\ pc = "initDir"
  /\ \E w \in Writes :
       /\ WriteBlock(loc.entry.first, DirBlock(loc.entry.first, loc.cur), w)
       /\ IF w = "done" THEN Goto("addEntry", loc) /\ UNCHANGED <<ret, marks>>
                        ELSE GiveUp({"leak"})
  /\ UNCHANGED <<memory, frames, crashes>>

\* What the caller of fs_add_entry has allocated already is lost if it fails.
Unowned == IF loc.entry.first = NoCluster THEN {} ELSE {"leak"}

\* Slip: the result of the write is not looked at.
AddEntryUnchecked ==
  /\ pc = "addEntry"
  /\ \E p \in FreeSlot(loc.cur), w \in Writes :
       WriteBlock(p[1], [block[p[1]] EXCEPT ![p[2]] = loc.entry], w)
  /\ Return("ok")
  /\ UNCHANGED <<memory, frames, crashes, marks>>

\* fs_add_entry: a free slot in one of the clusters of the directory.
AddEntry ==
  /\ pc = "addEntry"
  /\ \E p \in FreeSlot(loc.cur), w \in Writes :
       /\ WriteBlock(p[1], [block[p[1]] EXCEPT ![p[2]] = loc.entry], w)
       /\ IF w = "done" THEN Return("ok") /\ UNCHANGED marks
                        ELSE GiveUp(Unless(w, Unowned))
  /\ UNCHANGED <<memory, frames, crashes>>

\* No free slot: the chain of the directory gets another cluster.
AddEntryExtend ==
  /\ pc = "addEntry" /\ FreeSlot(loc.cur) = {} /\ loc.cur \in Clusters
  /\ HasRoom(fat, 1)
  /\ LET new == Least(FirstFit(fat, 1))
     IN  /\ fat' = Extend(AllocChain(fat, 1), Last(fat, loc.cur), new)
         /\ StartFlush([loc EXCEPT !.data = new], "addCluster")
  /\ UNCHANGED <<disk, ready, cwd, cwdPath, frames, ret, faults, crashes, marks>>

\* No room for it, or the directory cannot be read.
AddEntryFails ==
  /\ pc = "addEntry"
  /\ \E ok \in Reads :
       /\ Spend(ok)
       /\ ok => FreeSlot(loc.cur) = {} /\ ~HasRoom(fat, 1)
  /\ GiveUp(Unowned)
  /\ UNCHANGED <<disk, memory, frames, crashes>>

AddCluster ==
  /\ pc = "addCluster"
  /\ \E w \in Writes :
       /\ WriteBlock(loc.data, [ZeroBlock EXCEPT ![1] = loc.entry], w)
       /\ IF w = "done" THEN Return("ok") /\ UNCHANGED marks
                        ELSE GiveUp(Unless(w, {"stale"} \cup Unowned))
  /\ UNCHANGED <<memory, frames, crashes>>

\* fs_write_entry_at: the last write of an overwrite, and in a removal the
\* write before the FAT.
SetEntry ==
  /\ pc = "setEntry"
  /\ \E w \in Writes :
       /\ WriteBlock(loc.at[1], [block[loc.at[1]] EXCEPT ![loc.at[2]] = loc.entry], w)
       /\ IF w # "done" THEN GiveUp(Unless(w, {"dangling"}) \cup {"leak"})
          ELSE IF loc.req.op = "write" THEN Return("ok") /\ UNCHANGED marks
          ELSE StartFlush(loc, "return") /\ UNCHANGED <<ret, marks>>
  /\ UNCHANGED <<memory, frames, crashes>>

-------------------------------------------------------------------------------
Starting == Boot \/ FormatSuper \/ FormatRoot \/ Load

Walk == WalkDot \/ WalkDown \/ WalkFails \/ MissedByWrite \/ WalkTooLong \/ Cd

Decide ==
  \/ MkdirRefused \/ Mkdir \/ TouchRefused \/ Touch
  \/ WriteRefused \/ WriteOver \/ WriteOverNoRoom \/ WriteNew \/ WriteNewNoRoom
  \/ Rm \/ RemoveRefused \/ RmdirEmpty \/ RmdirAll

Scan ==
  \/ ScanFile \/ ScanDir \/ ScanOverrun \/ ScanFails \/ ScanWrite \/ ScanNextCluster
  \/ ScanReturn \/ ScanFinish

Store ==
  \/ WriteData \/ Flush \/ InitDir
  \/ AddEntry \/ AddEntryExtend \/ AddEntryFails \/ AddCluster \/ SetEntry

\* A step of the machine, as opposed to a call from the shell or a power loss.
Step == Starting \/ Walk \/ Decide \/ Scan \/ Store

Next ==
  \/ Step
  \/ \E r \in Requests : Call(r) \/ CallRoot(r)
  \/ Offline
  \/ Crash

Spec == Init /\ [][Next]_vars

\* The processor executes the next instruction of the kernel: a step that can
\* be taken is taken.  Calls and power losses may or may not come.
FairSpec == Spec /\ WF_vars(Step)

-------------------------------------------------------------------------------
\* The tree that a FAT f and clusters b describe.

ProperAt(b, c, i) == IsProper(b[c][i])

\* The clusters of the directories that can be reached from the root.
Dirs(f, b) ==
  LET closed == {S \in SUBSET Clusters :
                   /\ RootCluster \in S
                   /\ ClosedUnderLinks(f, S)
                   /\ \A c \in S, i \in Slots :
                        ProperAt(b, c, i) /\ b[c][i].type = "dir" => b[c][i].first \in S}
  IN  {c \in Clusters : \A S \in closed : c \in S}

\* Where the reachable files and directories have their entries.
ProperPlaces(f, b) == {p \in Dirs(f, b) \X Slots : ProperAt(b, p[1], p[2])}

FilesIn(f, b) ==
  {e \in {b[p[1]][p[2]] : p \in ProperPlaces(f, b)} : e.type = "file"}

\* Every cluster that a directory or a file reaches.
Used(f, b) ==
  Dirs(f, b) \cup UNION {Chain(f, e.first) : e \in FilesIn(f, b)}

\* No cluster belongs to two files or directories, or to one of them twice: one
\* entry or link of a reachable cluster leads to each reachable cluster.
NoCrossLink(f, b) ==
  LET used       == Used(f, b)
      places     == ProperPlaces(f, b)
      entries(c) == {p \in places : b[p[1]][p[2]].first = c}
      links(c)   == {d \in used : f[d] = c}
  IN  \A c \in used :
        Cardinality(entries(c)) + Cardinality(links(c)) = IF c = RootCluster THEN 0 ELSE 1

\* Nothing that can be reached is free for the next allocation.
NoDangling(f, b) == \A c \in Used(f, b) : f[c] # FREE

NoLeak(f, b) == {c \in Clusters : f[c] # FREE} \subseteq Used(f, b)

\* The chain of file e has a cluster for each of the clusters of its size, and
\* they hold one text, in order.
Whole(f, b, e) ==
  IF e.size = 0 THEN e.first = NoCluster
  ELSE /\ e.first \in Clusters
       /\ Cardinality(Chain(f, e.first)) = e.size
       /\ \E text \in Texts :
            /\ b[e.first] = TextBlock(text, 1)
            /\ \A c \in Chain(f, e.first), k \in 1..MaxSize :
                 b[c] = TextBlock(text, k) =>
                   IF k = e.size THEN f[c] = EOC
                   ELSE f[c] \in Clusters /\ b[f[c]] = TextBlock(text, k + 1)

\* The first clusters of the reachable directories.
DirHeads(f, b) ==
  {RootCluster} \cup
  {b[p[1]][p[2]].first : p \in {p \in ProperPlaces(f, b) : b[p[1]][p[2]].type = "dir"}}

\* A name stands for one entry of a directory, also across its clusters.
NamesUnique(f, b) ==
  \A d \in DirHeads(f, b) :
    \A p, q \in Chain(f, d) \X Slots :
      /\ b[p[1]][p[2]].name = b[q[1]][q[2]].name
      /\ b[p[1]][p[2]].name # Empty
      => p = q

\* "." leads to the directory itself and ".." to the one its entry is in.
DotsLead(f, b) ==
  \A d \in DirHeads(f, b) :
    /\ b[d][1] = DirEntry(".", d)
    /\ d = RootCluster => b[d][2] = DirEntry("..", d)
    /\ \A c \in Chain(f, d), i \in Slots :
         ProperAt(b, c, i) /\ b[c][i].type = "dir" =>
           b[b[c][i].first][2] = DirEntry("..", d)

\* The cluster at which a walk along names arrives, or NoCluster.
WalkTo(start, names) ==
  LET at[i \in 0..Len(names)] ==
        IF i = 0 THEN start
        ELSE LET places == FindEntry(at[i - 1], names[i])
             IN  IF places = {} THEN NoCluster
                 ELSE EntryAt(CHOOSE p \in places : TRUE).first
  IN  at[Len(names)]

-------------------------------------------------------------------------------
\* Properties.

\* Every variable keeps the range of the C object it stands for.
TypeOK ==
  /\ super \in BOOLEAN
  /\ diskFat \in Fats
  /\ block \in [Clusters -> Blocks]
  /\ ready \in BOOLEAN
  /\ fat \in Fats
  /\ cwd \in Clusters \cup {NoCluster}
  /\ cwdPath \in Seq(Names)
  /\ pc \in {"off", "idle", "formatSuper", "formatRoot", "load", "walk", "data",
             "flush", "initDir", "addEntry", "addCluster", "setEntry", "scan", "halted"}
  /\ loc \in Locals
  /\ frames \in Seq(Frames)
  /\ ret \in {"none", "ok", "failed"}
  /\ faults \in 0..MaxFaults
  /\ crashes \in 0..MaxCrashes
  /\ marks \subseteq Marks

\* Between two commands.
Settled == pc = "idle" /\ ready

Free(m) == marks \cap m = {}

\* The mishaps that can leave a cluster in two places, or in use and free.
Breaks == {"dangling", "stale", "dotCut", "halfFormat"}

\* The same, or a current directory that no longer exists.
Strays == Breaks \cup {"cwdGone"}

\* Bounds for TLC: a behaviour is followed until the mishap.
Unbroken == Free(Breaks)
Unharmed == Free(Strays)

\* Between commands the files and directories are a tree over disjoint chains of
\* allocated clusters, unless one of the named mishaps has happened.
TreeSound ==
  Settled /\ Free(Breaks) => NoCrossLink(fat, block) /\ NoDangling(fat, block)

\* Every allocated cluster can be reached, unless an operation was cut short.
NothingLost == Settled /\ Free(Strays \cup {"leak", "duplicate"}) => NoLeak(fat, block)

\* Every file reads back as one text that was written, in full and in order.
FilesWhole ==
  Settled /\ Free(Strays \cup {"torn"}) => \A e \in FilesIn(fat, block) : Whole(fat, block, e)

\* "Name already exists.": names stay unique within a directory.
UniqueNames ==
  Settled /\ Free(Strays \cup {"duplicate"}) => NamesUnique(fat, block)

\* The parent links agree with the tree.
DotsAgree == Settled /\ Free(Strays) => DotsLead(fat, block)

\* where/pwd shows a path that leads to the current directory.
CwdPathLeads ==
  Settled /\ Free(Strays \cup {"duplicate"}) => WalkTo(RootCluster, cwdPath) = cwd

\* fs_remove_dir_contents never runs out of stack in a sound tree: fs_mkdir bounds
\* the depth of a directory by the path text of its parent, and so the recursion by
\* that length and two, unless a directory has come to contain itself.
RecursionFits == pc = "halted" => ~Free(Strays)

\* The three windows in which the disk alone does not describe a sound tree: while
\* an overwritten file has its new chain in the FAT and its old one in its entry,
\* while a directory is being extended, and between the first and the last write of
\* fs_format.
Exposed ==
  \/ Flushing("setEntry") \/ Running("write", "setEntry")
  \/ Flushing("addCluster") \/ pc = "addCluster"
  \/ Flushing("formatRoot") \/ pc = "formatRoot"

\* At every other step the disk alone describes a tree over disjoint chains of
\* allocated clusters.  A power loss there can leave clusters that are in no chain,
\* and a file whose clusters were being overwritten with parts of both texts.
DiskSound ==
  super /\ ~Exposed /\ Free(Breaks) => NoCrossLink(diskFat, block) /\ NoDangling(diskFat, block)

\* Between commands the FAT on disk is the one in memory, unless an operation
\* that has changed the table gave up before it could write it.
FatOnDisk == Settled /\ Free({"leak", "dangling", "stale"}) => diskFat = fat

\* "Cannot remove root.": no command removes the root directory.
RootKept == Settled /\ Free({"halfFormat"}) => fat[RootCluster] # FREE

\* "where/pwd - show current directory": the path shown leads to the directory
\* in which relative paths are looked up.
CwdShown == Settled /\ Free(Breaks \cup {"duplicate"}) => WalkTo(RootCluster, cwdPath) = cwd

\* What an operation that returns 0 has promised about the path it was given.
Done(r) ==
  LET n      == Len(r.path.comps)
      parent == WalkTo(IF r.path.abs THEN RootCluster ELSE cwd,
                       SubSeq(r.path.comps, 1, n - 1))
      places == FindEntry(parent, r.path.comps[n])
      holds(type, size) == \E p \in places : EntryAt(p).type = type /\ EntryAt(p).size = size
  IN  CASE r.op = "mkdir"            -> holds("dir", 0)
        [] r.op = "touch"            -> holds("file", 0)
        [] r.op = "write"            -> holds("file", r.size)
        [] r.op \in {"rm", "rmdir"}  -> places = {}
        [] OTHER                     -> TRUE

\* An operation that returns success has done what it was asked to.
SuccessKept ==
  [][\A r \in Requests :
       pc # "idle" /\ loc.req = r /\ ret' = "ok" /\ (Free(Strays \cup {"duplicate"}))' => Done(r)']_vars

\* The loops that follow g_fat to its next FS_FAT_EOC or FS_FAT_FREE all end,
\* also in a tree that a removed current directory has spoilt.
ChainsEnd == Ends(fat)

\* Every operation ends and the shell reads the next command, unless the stack
\* overflows: no path and no removal goes in circles (ChainsEnd says the same
\* of the walk along a single chain, which is one step here).
OperationsEnd == pc # "idle" ~> pc \in {"idle", "halted"}
===============================================================================
