----------------------------- MODULE MCKososFs -----------------------------
\* KososFs on a disk of a few clusters, and the calls its runs make.  The shell
\* always passes the recursive and the overwrite flag; fs.h also offers the
\* operations without them.
EXTENDS KososTree

CONSTANTS a, b,      \* two names
          t, u       \* two texts, of one cluster and of two

MCNames == {a, b}
MCTexts == {t, u}

Abs(comps) == [abs |-> TRUE, comps |-> comps]
Rel(comps) == [abs |-> FALSE, comps |-> comps]

Ask(op, path) == [op |-> op, path |-> path, text |-> Empty, size |-> 0, flag |-> TRUE]

Write(path, n) ==
  [op |-> "write", path |-> path, text |-> IF n = 1 THEN t ELSE u, size |-> n, flag |-> TRUE]

Mildly(r) == [r EXCEPT !.flag = FALSE]

\* Every operation but a change of directory, two levels deep; a third level is
\* one more than the path text allows, and a removal may begin in the root.
CorePaths == {Abs(<<a>>), Abs(<<b>>), Abs(<<a, b>>)}

CoreRequests ==
  {Ask(op, p) : op \in {"mkdir", "rmdir", "rm"}, p \in CorePaths}
    \cup {Write(p, n) : p \in CorePaths \ {Abs(<<a>>)}, n \in {1, 2}}
    \cup {Ask("mkdir", Abs(<<a, b, a>>)), Ask("rmdir", Rel(<<".">>))}
    \cup {Mildly(Ask("rmdir", Abs(<<a>>))), Mildly(Write(Abs(<<b>>), 1)), Write(Abs(<<b>>), 0)}

\* Changes of directory, relative paths and dots.
CwdPaths == {Abs(<<a>>), Rel(<<a>>), Rel(<<b>>), Rel(<<"..">>), Rel(<<".">>),
             Rel(<<a, b>>), Rel(<<"..", a>>), Rel(<<a, TooLong>>), Rel(<<a, ".">>),
             Abs(<<>>)}

CwdRequests ==
  {Ask(op, p) : op \in {"mkdir", "rmdir", "cd"}, p \in CwdPaths}
    \cup {Ask("touch", Rel(<<b>>)), Ask("rm", Rel(<<b>>)), Ask("rm", Rel(<<a, b>>))}
    \cup {Write(Abs(<<b>>), 1), Write(Rel(<<b>>), 2), Mildly(Ask("rmdir", Rel(<<a>>)))}

\* The calls of a run in which disk accesses fail and the power goes: two texts
\* of the same length, so that an overwrite cut short can mix them.
MishapRequests ==
  {Ask("mkdir", Abs(<<a>>)), Ask("rmdir", Abs(<<a>>)), Ask("rm", Abs(<<b>>))}
    \cup {Ask("mkdir", Abs(<<a, b>>)), Ask("touch", Abs(<<b>>))}
    \cup {Write(Abs(<<b>>), 2), [Write(Abs(<<b>>), 2) EXCEPT !.text = t]}

\* Life in a current directory that has been removed.
LostCwdRequests ==
  {Ask("cd", Abs(<<a>>)), Ask("cd", Rel(<<"..">>)), Ask("mkdir", Abs(<<a>>)),
   Ask("mkdir", Rel(<<b>>)), Ask("rmdir", Abs(<<a>>)), Ask("rmdir", Rel(<<b>>)),
   Ask("touch", Rel(<<a>>)), Ask("touch", Rel(<<b>>)), Write(Abs(<<b>>), 1)}
=============================================================================
