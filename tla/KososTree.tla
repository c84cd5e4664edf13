------------------------------- MODULE KososTree -------------------------------
(***************************************************************************)
(* KososFs implements FsTree: the tree is read off the FAT in memory and   *)
(* the clusters on disk.  An operation that adds an entry takes effect     *)
(* when the entry is written; one that replaces or removes an entry does   *)
(* so as soon as it starts to change the FAT, since the contents are gone  *)
(* from then on.                                                           *)
(***************************************************************************)
EXTENDS KososFs

\* The operation has replaced or removed what its entry leads to.
Took ==
  \/ loc.req.op = "write" /\ loc.found
  \/ loc.req.op \in {"rm", "rmdir"} /\ pc # "walk"

\* The cluster that is being added to a directory is not yet part of it.
Shown(d) ==
  Chain(fat, d) \ (IF Flushing("addCluster") \/ pc = "addCluster" THEN {loc.data} ELSE {})

\* The places of the files and directories in directory d.
PlacesIn(d) ==
  {p \in Shown(d) \X Slots :
     IsProper(EntryAt(p)) /\ (Took /\ p = loc.at => loc.req.op = "write")}

Folder(path) == [path |-> path, type |-> "dir", text |-> Empty, size |-> 0]

\* What place p holds for a caller who knows it by this path.
Node(path, p) ==
  LET e       == EntryAt(p)
      written == Took /\ p = loc.at
      size    == IF written THEN loc.req.size ELSE e.size
  IN  IF e.type = "dir" THEN Folder(path)
      ELSE [path |-> path, type |-> "file", size |-> size,
            text |-> CASE size = 0            -> Empty
                       [] size # 0 /\ written -> loc.req.text
                       [] size # 0 /\ ~written /\ Whole(fat, block, e) ->
                            EntryAt(<<e.first, 1>>).name
                       [] OTHER               -> "damaged"]

\* The paths of up to n names, and the places they lead to.  A tree on the disk has
\* no longer paths than clusters.
Walks(n) ==
  LET further(walks) ==
        UNION {{<<Append(w[1], EntryAt(p).name), p>> : p \in PlacesIn(EntryAt(w[2]).first)} :
                 w \in {w \in walks : EntryAt(w[2]).type = "dir"}}
      ofLength[i \in 0..n] == IF i = 0 THEN {<<<<>>, <<RootCluster, 1>>>>}
                              ELSE further(ofLength[i - 1])
  IN  UNION {ofLength[i] : i \in 1..n}

\* A removal of '.' or '..' is under way; it ends in the mark dotCut.
CuttingDots == pc = "scan" /\ loc.rest[1] \in Dots

Tree == INSTANCE FsTree WITH
  NoText <- Empty,
  cwd    <- cwdPath,
  call   <- loc.req,
  took   <- Took,
  intact <- Free(Strays) /\ ~CuttingDots,
  tree   <- {Folder(<<>>)} \cup
            (IF ready THEN {Node(w[1], w[2]) : w \in Walks(NClusters)} ELSE {})

\* Callers see a tree: every operation takes effect as a whole, at one moment, or
\* fails and changes nothing, and rm and rmdir never fail on what is there; until
\* one of the mishaps of Strays.
ImplementsTree == Tree!Spec
===============================================================================
