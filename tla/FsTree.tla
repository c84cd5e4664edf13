-------------------------------- MODULE FsTree --------------------------------
(***************************************************************************)
(* What the file system promises its callers: a tree of named files and    *)
(* folders and a current directory.  A call takes effect at one moment     *)
(* between its start and its return, or it fails and has changed nothing.  *)
(* The promise holds until the file system is no longer intact.            *)
(***************************************************************************)
EXTENDS Integers, SequencesExt

CONSTANTS Names, Texts, TooLong, NoText, MaxDepth, Requests, NoRequest

VARIABLES
  tree,      \* the files and folders, each with its path
  cwd,       \* the path of the current directory
  call,      \* the call that runs, or NoRequest
  took,      \* it has taken effect
  ret,       \* what the last call has returned
  intact     \* nothing has gone wrong for which the promise makes an exception

vars == <<tree, cwd, call, took, ret, intact>>

Folder(p)     == [path |-> p, type |-> "dir", text |-> NoText, size |-> 0]
File(p, t, n) == [path |-> p, type |-> "file", text |-> IF n = 0 THEN NoText ELSE t, size |-> n]

Nowhere == <<NoText>>

-------------------------------------------------------------------------------
\* Paths.

Hop(p, c) ==
  CASE c = "."  -> p
    [] c = ".." -> IF p = <<>> THEN p ELSE Front(p)
    [] OTHER    -> Append(p, c)

\* Where a walk over folders arrives.
Reach(start, comps) ==
  LET at[i \in 0..Len(comps)] ==
        IF i = 0 THEN start
        ELSE LET p == Hop(at[i - 1], comps[i])
             IN  IF Folder(p) \in tree THEN p ELSE Nowhere
  IN  at[Len(comps)]

Start(r)  == IF r.path.abs THEN <<>> ELSE cwd
Parent(r) == Reach(Start(r), Front(r.path.comps))
Target(r) == Append(Parent(r), Last(r.path.comps))

\* A change of directory ends at a component that is too long.
Kept(comps) ==
  LET cuts == {i \in DOMAIN comps : comps[i] = TooLong}
  IN  IF cuts = {} THEN comps
      ELSE SubSeq(comps, 1, (CHOOSE i \in cuts : \A j \in cuts : i <= j) - 1)

Destination(r) == Reach(Start(r), Kept(r.path.comps))

-------------------------------------------------------------------------------
\* The operations.

At(p)    == {n \in tree : n.path = p}
Below(p) == {n \in tree : IsPrefix(p, n.path)}

\* The last component of r is a name, in a folder.
Named(r) == r.path.comps # <<>> /\ Last(r.path.comps) \in Names /\ Parent(r) # Nowhere

Missing(r) == Named(r) /\ At(Target(r)) = {}

Is(r, type) == Named(r) /\ \E n \in At(Target(r)) : n.type = type

\* r can be done.
Possible(r) ==
  CASE r.op \in {"mkdir", "touch"} -> Missing(r)
    [] r.op = "write" -> Missing(r) \/ (r.flag /\ Is(r, "file"))
    [] r.op = "rm"    -> Is(r, "file")
    [] r.op = "rmdir" -> Is(r, "dir") /\ (r.flag \/ Below(Target(r)) = At(Target(r)))
    [] r.op = "cd"    -> Destination(r) # Nowhere

TreeAfter(r) ==
  CASE r.op = "mkdir" -> tree \cup {Folder(Target(r))}
    [] r.op = "touch" -> tree \cup {File(Target(r), NoText, 0)}
    [] r.op = "write" -> (tree \ At(Target(r))) \cup {File(Target(r), r.text, r.size)}
    [] r.op \in {"rm", "rmdir"} -> tree \ Below(Target(r))
    [] r.op = "cd"    -> tree

\* Only a call that needs room on the disk, or for the text of its path, may
\* fail although it is possible.
MayFail(r) ==
  \/ r.op \in {"mkdir", "touch", "write"}
  \/ r.op = "cd" /\ Len(Start(r)) + Len(r.path.comps) > MaxDepth
  \/ ~Possible(r)

Init ==
  /\ tree = {Folder(<<>>)} /\ cwd = <<>>
  /\ call = NoRequest /\ took = FALSE /\ ret = "none" /\ intact = TRUE

\* Something goes wrong for which there is no promise.
Harm == intact' = FALSE

Call(r) ==
  /\ call = NoRequest /\ call' = r /\ ret' = "none"
  /\ UNCHANGED <<tree, cwd, took, intact>>

Return(r) == call' = NoRequest /\ took' = FALSE /\ ret' = r

\* "/" cannot be created, written or removed.
Refuse(r) ==
  /\ call = NoRequest /\ r.op # "cd" /\ r.path.comps = <<>>
  /\ Return("failed")
  /\ UNCHANGED <<tree, cwd, intact>>

TakeEffect ==
  /\ call # NoRequest /\ ~took
  /\ \/ took' = TRUE /\ UNCHANGED <<call, ret>>
     \/ Return("ok")
  /\ Possible(call)
  /\ tree' = TreeAfter(call)
  /\ cwd' = IF call.op = "cd" THEN Destination(call) ELSE cwd
  /\ UNCHANGED intact

Succeed == took /\ Return("ok") /\ UNCHANGED <<tree, cwd, intact>>

Fail ==
  /\ call # NoRequest /\ ~took
  /\ Return("failed") /\ MayFail(call)
  /\ UNCHANGED <<tree, cwd, intact>>

Next ==
  \/ Harm
  \/ \E r \in Requests : Call(r) \/ Refuse(r)
  \/ TakeEffect \/ Succeed \/ Fail

Spec == Init /\ [][Next]_vars
===============================================================================
