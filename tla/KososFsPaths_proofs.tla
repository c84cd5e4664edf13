-------------------------- MODULE KososFsPaths_proofs --------------------------
(***************************************************************************)
(* Names, paths and the contents of files in the tree of KososFs_proofs: a *)
(* name stands for one entry (UniqueNames), the path that is shown leads   *)
(* to the current directory (CwdPathLeads), the recursion of a removal     *)
(* fits the stack (RecursionFits), a file has all of its text and no other *)
(* (FilesWhole) and a call that reports success has done what it was asked *)
(* for (SuccessKept), for every disk and any number of disk faults and     *)
(* power losses, unless one of the mishaps has happened that the           *)
(* properties name.                                                        *)
(*                                                                         *)
(* The argument for names.  Each directory has a path: a label on its      *)
(* clusters that grows by a name on the way from the root (Named), short   *)
(* enough for g_cwd_path at every directory that has another in it.  The   *)
(* invariant PathInv holds beside SoundInv: there are such labels, no name *)
(* stands in two places of one directory (Single), and the paths in memory *)
(* are those labels (Walked).  Then the names of a path are followed.      *)
(*                                                                         *)
(* The argument for files.  FileInv holds beside SoundInv.  In the view of *)
(* the clusters that the operation under way will leave (Seen), every file *)
(* that can be reached is whole (Texted), but for the one that is being    *)
(* written over (Unfinished); a text on its way to a new entry is laid on  *)
(* its chain so far (Coming); and the files on the disk are whole too      *)
(* (DiskFiles) at every write that is not Exposed, unless one of them is   *)
(* being written over.                                                     *)
(*                                                                         *)
(* The argument for calls.  SuccInv holds beside both.  The names of the   *)
(* path that the walk has passed lead to loc.cur by directories that are   *)
(* there (Route), in the view Seen; for a removal they lead nowhere else   *)
(* and loc.at is the only place of the name (NoOther).  What the call has  *)
(* still to do is what its request asks for (CallInv), and what has been   *)
(* done at the last step (Finished) is what the walk of Done finds.        *)
(***************************************************************************)
EXTENDS KososFs_proofs

-------------------------------------------------------------------------------
\* Paths.  Every directory has one: a label on its clusters that grows by a name
\* with each directory on the way from the root.

Labels == Seq(Names \cup Texts \cup Dots \cup {Empty})

\* The clusters S are all that can be reached from the root through directories.
Closed(f, b, S) ==
  /\ S \subseteq Clusters /\ RootCluster \in S /\ ClosedUnderLinks(f, S)
  /\ \A p \in Proper(b, S) : At(b, p).type = "dir" => At(b, p).first \in S

\* They have the paths pt; the last directory of a path lies in one that fits g_cwd_path.
Named(f, b, S, pt) ==
  /\ Closed(f, b, S)
  /\ pt \in [Clusters -> Labels] /\ pt[RootCluster] = <<>>
  /\ \A c \in S : f[c] \in Clusters => pt[f[c]] = pt[c]
  /\ \A p \in Proper(b, S) : At(b, p).type = "dir" =>
       pt[At(b, p).first] = Append(pt[p[1]], At(b, p).name) /\ Len(pt[p[1]]) <= MaxDepth

\* A name stands in one place of a chain.
Single(f, b, S) ==
  \A h \in S : \A p, q \in Chain(f, h) \X Slots :
    At(b, p).name = At(b, q).name /\ At(b, p).name # Empty => p = q

\* Table g and clusters b2 have no link and no directory that f and b do not have.
Thinner(f, b, g, b2, S) ==
  /\ \A c \in S : g[c] \in Clusters => g[c] = f[c]
  /\ \A p \in S \X Slots :
       /\ At(b2, p).name \in {Empty, At(b, p).name}
       /\ IsProper(At(b2, p)) /\ At(b2, p).type = "dir" => At(b2, p) = At(b, p)

LEMMA TreeClosed ==
  ASSUME NEW f \in Fats, NEW b, NEW D, NEW F, NEW dp, Tree(f, b, D, F, dp),
         NEW S, Closed(f, b, S)
  PROVE  Closed(f, b, S \cap D)
<1>1. /\ D \subseteq Clusters /\ RootCluster \in D /\ ClosedUnderLinks(f, D)
      /\ \A p \in Proper(b, D) : At(b, p).type = "dir" => At(b, p).first \in D
  BY DEF Tree, Ground, Entered, ClosedUnderLinks
<1>2. \A p \in Proper(b, S \cap D) : p \in Proper(b, S) /\ p \in Proper(b, D)
  BY DEF Proper
<1>3. QED
  BY <1>1, <1>2 DEF Closed, ClosedUnderLinks

\* What a chain does not lead to before, it does not lead to with fewer links.
LEMMA ChainThinner ==
  ASSUME NEW f \in Fats, NEW g \in Fats, NEW b, NEW b2, NEW S, Closed(f, b, S),
         Thinner(f, b, g, b2, S), NEW h \in S
  PROVE  Chain(g, h) \subseteq Chain(f, h) \cap S
<1>1. PICK A : A = Chain(f, h) \cap S
  OBVIOUS
<1>2. h \in Clusters /\ h \in A /\ A \subseteq Clusters
  BY <1>1, ChainProperties DEF Closed
<1>3. ClosedUnderLinks(f, Chain(f, h))
  BY <1>2, ChainProperties
<1>4. ClosedUnderLinks(g, A)
  BY <1>1, <1>3 DEF ClosedUnderLinks, Closed, Thinner
<1>5. Chain(g, h) \subseteq A
  BY <1>2, <1>4, ChainWithin
<1>6. QED
  BY <1>1, <1>5

LEMMA PathsThinner ==
  ASSUME NEW f \in Fats, NEW g \in Fats, NEW b, NEW b2, NEW S, NEW pt, Named(f, b, S, pt),
         NEW T \in SUBSET S, Closed(f, b, T), Thinner(f, b, g, b2, T)
  PROVE  Named(g, b2, T, pt) /\ (Single(f, b, S) => Single(g, b2, T))
<1>1. \A p \in Proper(b2, T) : At(b2, p).type = "dir" =>
         p \in Proper(b, T) /\ p \in Proper(b, S) /\ At(b2, p) = At(b, p)
  BY DEF Proper, Thinner
<1>2. Closed(g, b2, T)
  BY <1>1 DEF Closed, ClosedUnderLinks, Thinner
<1>3. Named(g, b2, T, pt)
  BY <1>1, <1>2 DEF Named, Thinner
<1>4. ASSUME Single(f, b, S), NEW h \in T, NEW p \in Chain(g, h) \X Slots, NEW q \in Chain(g, h) \X Slots,
             At(b2, p).name = At(b2, q).name, At(b2, p).name # Empty
      PROVE  p = q
  <2>1. Chain(g, h) \subseteq Chain(f, h) \cap T
    BY ChainThinner
  <2>2. p \in T \X Slots /\ q \in T \X Slots /\ p \in Chain(f, h) \X Slots /\ q \in Chain(f, h) \X Slots
    BY <2>1
  <2>3. At(b2, p).name = At(b, p).name /\ At(b2, q).name = At(b, q).name
    BY <1>4, <2>2 DEF Thinner
  <2>4. QED
    BY <1>4, <2>2, <2>3 DEF Single
<1>5. QED
  BY <1>3, <1>4 DEF Single

\* The clusters of a directory have one path.
LEMMA OnePath ==
  ASSUME NEW f \in Fats, NEW b, NEW S, NEW pt, Named(f, b, S, pt), NEW h \in S
  PROVE  Chain(f, h) \subseteq S /\ \A c \in Chain(f, h) : pt[c] = pt[h]
<1>1. PICK A : A = {c \in S : pt[c] = pt[h]}
  OBVIOUS
<1>2. S \subseteq Clusters /\ h \in A /\ A \in SUBSET Clusters
  BY <1>1 DEF Named, Closed
<1>3. ClosedUnderLinks(f, A)
  BY <1>1 DEF Named, Closed, ClosedUnderLinks
<1>4. Chain(f, h) \subseteq A
  BY <1>2, <1>3, ChainWithin
<1>5. QED
  BY <1>1, <1>4

\* A cluster from which a directory is reached belongs to this directory.
LEMMA ChainsMeet ==
  ASSUME NEW f \in Fats, NEW b, NEW D, NEW F, NEW dp, Tree(f, b, D, F, dp),
         NEW d \in Heads(f, D), NEW h \in D, NEW c \in Chain(f, h), c \in Chain(f, d)
  PROVE  Chain(f, h) \subseteq Chain(f, d)
<1>1. PICK A, B : A = Chain(f, h) /\ B = Chain(f, d)
  OBVIOUS
<1>2. d \in D /\ d \in Clusters /\ h \in Clusters /\ D \subseteq Clusters
  BY DEF Tree, Ground, Heads
<1>3. /\ A \subseteq Clusters /\ ClosedUnderLinks(f, A) /\ h \in A
      /\ B \subseteq Clusters /\ ClosedUnderLinks(f, B) /\ d \in B
      /\ \A y \in B : y # d => \E z \in B : f[z] = y
  BY <1>1, <1>2, ChainProperties
<1>4. A \subseteq D /\ B \subseteq D
  BY <1>1, <1>2, ChainGround DEF Tree
<1>5. ASSUME h \notin B PROVE FALSE
  <2>1. PICK E : E = A \ B
    OBVIOUS
  <2>2. h \in E /\ E \in SUBSET Clusters /\ ~(A \subseteq E)
    BY <1>1, <1>3, <1>5, <2>1
  <2>3. ~ClosedUnderLinks(f, E)
    BY <1>1, <2>2, ChainWithin
  <2>4. PICK x \in E : f[x] \in Clusters /\ f[x] \notin E
    BY <2>3 DEF ClosedUnderLinks
  <2>5. f[x] \in B /\ x \in D /\ x \notin B
    BY <1>3, <1>4, <2>1, <2>4 DEF ClosedUnderLinks
  <2>6. f[x] # d
    BY <2>5 DEF Heads
  <2>7. PICK z \in B : f[z] = f[x]
    BY <1>3, <2>5, <2>6
  <2>8. z = x
    BY <1>4, <2>4, <2>5, <2>7 DEF Tree, Once
  <2>9. QED
    BY <2>5, <2>7, <2>8
<1>6. h \in B
  BY <1>5
<1>7. A \subseteq B
  BY <1>1, <1>3, <1>6, ChainWithin
<1>8. QED
  BY <1>1, <1>7

-------------------------------------------------------------------------------
\* Entries that come.

\* An entry that is no directory.
LEMMA FileEntered ==
  ASSUME NEW f \in Fats, NEW b, NEW b2, NEW S, NEW pt, Named(f, b, S, pt), NEW d \in S,
         NEW p \in S \X Slots, p[1] \in Chain(f, d),
         \A h \in S : p[1] \in Chain(f, h) => Chain(f, h) \subseteq Chain(f, d),
         NEW e, At(b2, p) = e, ~IsProper(e) \/ e.type # "dir",
         \A q \in S \X Slots : q # p => At(b2, q) = At(b, q)
  PROVE  /\ Named(f, b2, S, pt)
         /\ Single(f, b, S) /\ (\A q \in Chain(f, d) \X Slots : At(b, q).name # e.name)
            => Single(f, b2, S)
<1>1. \A q \in Proper(b2, S) : At(b2, q).type = "dir" => q \in Proper(b, S) /\ At(b2, q) = At(b, q)
  BY DEF Proper
<1>2. Named(f, b2, S, pt)
  BY <1>1 DEF Named, Closed
<1>3. ASSUME Single(f, b, S), \A q \in Chain(f, d) \X Slots : At(b, q).name # e.name,
             NEW h \in S, NEW q \in Chain(f, h) \X Slots, NEW r \in Chain(f, h) \X Slots,
             At(b2, q).name = At(b2, r).name, At(b2, q).name # Empty
      PROVE  q = r
  <2>1. Chain(f, h) \subseteq S
    BY OnePath
  <2>2. q \in S \X Slots /\ r \in S \X Slots
    BY <2>1
  <2>3. ASSUME NEW x \in Chain(f, h) \X Slots, x # p, p \in Chain(f, h) \X Slots
        PROVE  At(b2, x).name # At(b2, p).name
    <3>1. p[1] \in Chain(f, h)
      BY <2>3
    <3>2. Chain(f, h) \subseteq Chain(f, d) /\ x \in S \X Slots
      BY <2>1, <3>1
    <3>3. At(b, x).name # e.name /\ At(b2, x) = At(b, x)
      BY <1>3, <2>3, <3>2
    <3>4. QED
      BY <3>3
  <2>4. CASE q = p \/ r = p
    BY <1>3, <2>3, <2>4
  <2>5. CASE q # p /\ r # p
    BY <1>3, <2>2, <2>5 DEF Single
  <2>6. QED
    BY <2>4, <2>5
<1>4. QED
  BY <1>2, <1>3 DEF Single

\* Directory d has got entry e: T and pt2 are S and pt with it.
DirAdded(f, b, b2, S, pt, d, e, T, pt2) ==
  /\ Named(f, b2, T, pt2) /\ S \subseteq T /\ \A c \in S : pt2[c] = pt[c]
  /\ Single(f, b, S) /\ (\A q \in Chain(f, d) \X Slots : At(b, q).name # e.name) => Single(f, b2, T)

\* The entry of a new directory.
LEMMA DirEntered ==
  ASSUME NEW f \in Fats, NEW b, NEW b2, NEW S, NEW pt, Named(f, b, S, pt), NEW d \in S,
         NEW p \in S \X Slots, p[1] \in Chain(f, d),
         \A h \in S : p[1] \in Chain(f, h) => Chain(f, h) \subseteq Chain(f, d),
         NEW e \in Entries, At(b2, p) = e, IsProper(e), e.type = "dir", Len(pt[d]) <= MaxDepth,
         \A q \in S \X Slots : q # p => At(b2, q) = At(b, q),
         NEW y, y = e.first, y \in Clusters \ S, f[y] \notin Clusters, NEW x, b2[y] = DirBlock(y, x),
         NEW T, T = S \cup {y},
         NEW pt2, pt2 = [pt EXCEPT ![y] = Append(pt[d], e.name)]
  PROVE  DirAdded(f, b, b2, S, pt, d, e, T, pt2)
<1>1. /\ S \subseteq Clusters /\ RootCluster \in S /\ ClosedUnderLinks(f, S)
      /\ pt \in [Clusters -> Labels] /\ pt[RootCluster] = <<>>
      /\ \A c \in S : f[c] \in Clusters => pt[f[c]] = pt[c]
  BY DEF Named, Closed
<1>2. pt2 \in [Clusters -> Labels] /\ pt2[y] = Append(pt[d], e.name) /\ \A c \in Clusters : c # y => pt2[c] = pt[c]
  <2>1. pt[d] \in Labels /\ e.name \in Names \cup Texts \cup Dots \cup {Empty}
    BY <1>1 DEF Entries
  <2>2. Append(pt[d], e.name) \in Labels
    BY <2>1 DEF Labels
  <2>3. QED
    BY <1>1, <2>2
<1>3. \A c \in S : c # y /\ c \in Clusters /\ pt2[c] = pt[c]
  BY <1>1, <1>2
<1>4. \A i \in Slots : ~IsProper(At(b2, <<y, i>>))
  BY DEF At, DirBlock, DirEntry, Zeroed, IsProper, Dots
<1>5. ASSUME NEW q \in Proper(b2, T), q # p PROVE q \in Proper(b, S) /\ At(b2, q) = At(b, q)
  <2>1. PICK c \in T, i \in Slots : q = <<c, i>>
    BY DEF Proper
  <2>2. c # y
    BY <1>4, <2>1 DEF Proper
  <2>3. q \in S \X Slots
    BY <2>1, <2>2
  <2>4. QED
    BY <1>5, <2>3 DEF Proper
<1>6. p[1] \in S /\ pt[p[1]] = pt[d]
  BY OnePath
<1>7. Closed(f, b2, T)
  <2>1. T \subseteq Clusters /\ RootCluster \in T /\ ClosedUnderLinks(f, T)
    BY <1>1 DEF ClosedUnderLinks
  <2>2. ASSUME NEW q \in Proper(b2, T), At(b2, q).type = "dir" PROVE At(b2, q).first \in T
    <3>1. CASE q = p
      BY <3>1
    <3>2. CASE q # p
      BY <1>5, <2>2, <3>2 DEF Named, Closed
    <3>3. QED
      BY <3>1, <3>2
  <2>3. QED
    BY <2>1, <2>2 DEF Closed
<1>8. ASSUME NEW q \in Proper(b2, T), At(b2, q).type = "dir"
      PROVE  pt2[At(b2, q).first] = Append(pt2[q[1]], At(b2, q).name) /\ Len(pt2[q[1]]) <= MaxDepth
  <2>1. CASE q = p
    BY <1>2, <1>3, <1>6, <2>1
  <2>2. CASE q # p
    <3>1. q \in Proper(b, S) /\ At(b2, q) = At(b, q) /\ q[1] \in S
      BY <1>5, <2>2 DEF Proper
    <3>2. At(b, q).first \in S /\ pt[At(b, q).first] = Append(pt[q[1]], At(b, q).name) /\ Len(pt[q[1]]) <= MaxDepth
      BY <1>8, <3>1 DEF Named, Closed
    <3>3. QED
      BY <1>3, <3>1, <3>2
  <2>3. QED
    BY <2>1, <2>2
<1>9. Named(f, b2, T, pt2)
  <2>1. \A c \in T : f[c] \in Clusters => pt2[f[c]] = pt2[c]
    BY <1>1, <1>3 DEF ClosedUnderLinks
  <2>2. pt2[RootCluster] = <<>>
    BY <1>1, <1>3
  <2>3. QED
    BY <1>2, <1>7, <1>8, <2>1, <2>2 DEF Named
<1>10. ASSUME Single(f, b, S), \A q \in Chain(f, d) \X Slots : At(b, q).name # e.name,
              NEW h \in T, NEW q \in Chain(f, h) \X Slots, NEW r \in Chain(f, h) \X Slots,
              At(b2, q).name = At(b2, r).name, At(b2, q).name # Empty
       PROVE  q = r
  <2>1. CASE h = y
    <3>1. Chain(f, y) \subseteq {y}
      <4>1. ClosedUnderLinks(f, {y})
        BY DEF ClosedUnderLinks
      <4>2. QED
        BY <4>1, ChainWithin
    <3>2. PICK i \in Slots, j \in Slots : q = <<y, i>> /\ r = <<y, j>>
      BY <2>1, <3>1
    <3>3. DirBlock(y, x)[i].name = DirBlock(y, x)[j].name /\ DirBlock(y, x)[i].name # Empty
      BY <1>10, <3>2 DEF At
    <3>4. i = j
      BY <3>3 DEF DirBlock, DirEntry, Zeroed
    <3>5. QED
      BY <3>2, <3>4
  <2>2. CASE h # y
    <3>1. h \in S
      BY <2>2
    <3>2. Chain(f, h) \subseteq S
      BY <3>1, OnePath
    <3>3. q \in S \X Slots /\ r \in S \X Slots
      BY <3>2
    <3>4. ASSUME NEW z \in Chain(f, h) \X Slots, z # p, p \in Chain(f, h) \X Slots
          PROVE  At(b2, z).name # At(b2, p).name
      <4>1. p[1] \in Chain(f, h)
        BY <3>4
      <4>2. Chain(f, h) \subseteq Chain(f, d) /\ z \in S \X Slots
        BY <3>1, <3>2, <4>1
      <4>3. At(b, z).name # e.name /\ At(b2, z) = At(b, z)
        BY <1>10, <3>4, <4>2
      <4>4. QED
        BY <4>3
    <3>5. CASE q = p \/ r = p
      BY <1>10, <3>4, <3>5
    <3>6. CASE q # p /\ r # p
      BY <1>10, <3>1, <3>3, <3>6 DEF Single
    <3>7. QED
      BY <3>5, <3>6
  <2>3. QED
    BY <2>1, <2>2
<1>11. Single(f, b, S) /\ (\A q \in Chain(f, d) \X Slots : At(b, q).name # e.name) => Single(f, b2, T)
  BY <1>10 DEF Single
<1>12. S \subseteq T /\ \A c \in S : pt2[c] = pt[c]
  BY <1>3
<1>13. QED
  BY <1>9, <1>11, <1>12 DEF DirAdded

\* Directory d has got an empty cluster: T and pt2 are S and pt with it.
ClusterGiven(f, g, b, b2, S, pt, d, T, pt2) ==
  /\ Named(g, b2, T, pt2) /\ \A c \in S : pt2[c] = pt[c]
  /\ Single(f, b, S) => Single(g, b2, T)
  /\ \A q \in Chain(g, d) \X Slots : q \in Chain(f, d) \X Slots \/ At(b2, q).name = Empty

\* An empty cluster at the end of a directory.
LEMMA ClusterEntered ==
  ASSUME NEW f \in Fats, NEW g \in Fats, NEW b, NEW b2, NEW S, NEW pt, Named(f, b, S, pt),
         NEW d \in S, NEW last \in Chain(f, d), NEW new \in Clusters \ S,
         g[last] = new, g[new] \notin Clusters, \A c \in S : c # last => g[c] = f[c],
         f[last] \notin Clusters,
         \A i \in Slots : At(b2, <<new, i>>) = Zeroed,
         \A q \in S \X Slots : At(b2, q) = At(b, q),
         NEW T, T = S \cup {new}, NEW pt2, pt2 = [pt EXCEPT ![new] = pt[d]]
  PROVE  ClusterGiven(f, g, b, b2, S, pt, d, T, pt2)
<1>1. /\ S \subseteq Clusters /\ RootCluster \in S /\ ClosedUnderLinks(f, S)
      /\ pt \in [Clusters -> Labels] /\ pt[RootCluster] = <<>>
      /\ \A c \in S : f[c] \in Clusters => pt[f[c]] = pt[c]
  BY DEF Named, Closed
<1>2. /\ pt2 \in [Clusters -> Labels] /\ pt2[new] = pt[d] /\ \A c \in S : c # new /\ pt2[c] = pt[c]
  BY <1>1
<1>3. last \in S /\ pt[last] = pt[d]
  BY OnePath
<1>4. \A q \in Proper(b2, T) : q \in Proper(b, S) /\ At(b2, q) = At(b, q)
  <2>1. ASSUME NEW q \in Proper(b2, T) PROVE q \in S \X Slots
    <3>1. PICK c \in T, i \in Slots : q = <<c, i>>
      BY DEF Proper
    <3>2. c # new
      BY <3>1 DEF Proper, IsProper, Zeroed
    <3>3. QED
      BY <3>1, <3>2
  <2>2. QED
    BY <2>1 DEF Proper
<1>5. Closed(g, b2, T)
  <2>1. T \subseteq Clusters /\ RootCluster \in T /\ ClosedUnderLinks(g, T)
    BY <1>1 DEF ClosedUnderLinks
  <2>2. QED
    BY <1>4, <2>1 DEF Closed, Named
<1>6. Named(g, b2, T, pt2)
  <2>1. \A c \in T : g[c] \in Clusters => pt2[g[c]] = pt2[c]
    BY <1>1, <1>2, <1>3 DEF ClosedUnderLinks
  <2>2. ASSUME NEW q \in Proper(b2, T), At(b2, q).type = "dir"
        PROVE  pt2[At(b2, q).first] = Append(pt2[q[1]], At(b2, q).name) /\ Len(pt2[q[1]]) <= MaxDepth
    <3>1. q \in Proper(b, S) /\ At(b2, q) = At(b, q) /\ q[1] \in S
      BY <1>4 DEF Proper
    <3>2. At(b, q).first \in S /\ pt[At(b, q).first] = Append(pt[q[1]], At(b, q).name) /\ Len(pt[q[1]]) <= MaxDepth
      BY <2>2, <3>1 DEF Named, Closed
    <3>3. QED
      BY <1>2, <3>1, <3>2
  <2>3. pt2[RootCluster] = <<>>
    BY <1>1, <1>2
  <2>4. QED
    BY <1>2, <1>5, <2>1, <2>2, <2>3 DEF Named
<1>7. ASSUME NEW h \in S PROVE Chain(g, h) \subseteq Chain(f, h) \cup {new}
  <2>1. PICK A : A = Chain(f, h) \cup {new}
    OBVIOUS
  <2>2. /\ Chain(f, h) \subseteq S /\ h \in Chain(f, h) /\ ClosedUnderLinks(f, Chain(f, h))
        /\ h \in Clusters
    BY <1>1, OnePath, ChainProperties
  <2>3. ClosedUnderLinks(g, A)
    BY <2>1, <2>2 DEF ClosedUnderLinks
  <2>4. A \in SUBSET Clusters /\ h \in A
    BY <1>1, <2>1, <2>2
  <2>5. QED
    BY <2>1, <2>3, <2>4, ChainWithin
<1>8. Chain(g, new) \subseteq {new}
  <2>1. ClosedUnderLinks(g, {new})
    BY DEF ClosedUnderLinks
  <2>2. QED
    BY <2>1, ChainWithin
<1>9. \A i \in Slots : At(b2, <<new, i>>).name = Empty
  BY DEF Zeroed
<1>10. ASSUME NEW h \in S, NEW q \in Chain(g, h) \X Slots
       PROVE  q \in Chain(f, h) \X Slots \/ At(b2, q).name = Empty
  <2>1. PICK c \in Chain(f, h) \cup {new}, i \in Slots : q = <<c, i>>
    BY <1>7
  <2>2. QED
    BY <1>9, <2>1
<1>11. ASSUME Single(f, b, S), NEW h \in T, NEW q \in Chain(g, h) \X Slots, NEW r \in Chain(g, h) \X Slots,
              At(b2, q).name = At(b2, r).name, At(b2, q).name # Empty
       PROVE  q = r
  <2>1. h # new
    <3>1. ASSUME h = new PROVE FALSE
      <4>1. PICK i \in Slots : q = <<new, i>>
        BY <1>8, <3>1
      <4>2. QED
        BY <1>9, <1>11, <4>1
    <3>2. QED
      BY <3>1
  <2>2. h \in S
    BY <2>1
  <2>3. q \in Chain(f, h) \X Slots /\ r \in Chain(f, h) \X Slots
    BY <1>10, <1>11, <2>2
  <2>4. Chain(f, h) \subseteq S
    BY <2>2, OnePath
  <2>5. At(b2, q) = At(b, q) /\ At(b2, r) = At(b, r)
    BY <2>3, <2>4
  <2>6. QED
    BY <1>11, <2>2, <2>3, <2>5 DEF Single
<1>12. Single(f, b, S) => Single(g, b2, T)
  BY <1>11 DEF Single
<1>13. QED
  BY <1>2, <1>6, <1>10, <1>12 DEF ClusterGiven

\* The clusters as the operation will have left them with its next entry.
Seen ==
  IF Growing THEN Grown ELSE IF Storing THEN With(block, loc.at, loc.entry) ELSE block

\* They have paths, and names are unique if u holds.
Pathed(u, f, b, S, pt) == Named(f, b, S, pt) /\ (u => Single(f, b, S))

\* No name has been hidden by a failed read.
Clear == Free({"duplicate"})

\* The entry that comes is new in its directory, and its path fits if it has one.
Fitting(S, pt) ==
  /\ loc.cur \in S
  /\ loc.entry.type = "dir" => Len(pt[loc.cur]) <= MaxDepth
  /\ Clear => \A q \in Chain(fat, loc.cur) \X Slots : At(block, q).name # loc.entry.name

\* The activations of fs_remove_dir_contents work on deeper and deeper directories.
Nested(S, pt) ==
  \A i \in 1..Len(frames) :
    frames[i].dir \in S /\ Len(pt[frames[i].dir]) >= Len(frames) - i

\* The paths that the program keeps are those of the directories it is in.
Walked(S, pt) ==
  /\ cwd \in S /\ pt[cwd] = cwdPath
  /\ pc = "walk" => loc.cur \in S /\ (loc.req.op \in {"cd", "mkdir"} => pt[loc.cur] = loc.path)
  /\ Adding => Fitting(S, pt)
  /\ pc = "scan" => Nested(S, pt)

MemPaths ==
  ready /\ Free(Strays) => \E S, pt : Pathed(Clear, fat, Seen, S, pt) /\ Walked(S, pt)

DiskPaths ==
  super /\ ~Exposed /\ Free(Strays) => \E S, pt : Pathed(Clear, diskFat, block, S, pt)

LengthInv == Len(cwdPath) <= MaxDepth /\ Len(loc.path) <= MaxDepth

\* The stack has room for an activation for each directory of the longest path, and for
\* the two directories that may come below it: the 64 KiB of boot.S hold more than the 65
\* that the 128 bytes of g_cwd_path call for.
NestingFits == MaxNesting >= MaxDepth + 2

PathInv == MemPaths /\ DiskPaths /\ LengthInv /\ (NestingFits => RecursionFits)

\* What a step may rely on.
Known == Given /\ SoundInv' /\ PathInv

-------------------------------------------------------------------------------
\* The ways in which a step keeps the paths.

\* Nothing is promised after a mishap.
LEMMA PathsStrayed ==
  ASSUME ~Free(Strays)', LengthInv'
  PROVE  PathInv'
BY DEF PathInv, MemPaths, DiskPaths, RecursionFits

LEMMA FewerPaths ==
  ASSUME NEW f \in Fats, NEW g \in Fats, NEW b, NEW b2, NEW S, NEW pt, NEW u, NEW v,
         Pathed(u, f, b, S, pt), v => u,
         NEW T \in SUBSET S, Closed(f, b, T), Thinner(f, b, g, b2, T)
  PROVE  Pathed(v, g, b2, T, pt)
<1>1. Named(f, b, S, pt)
  BY DEF Pathed
<1>2. Named(g, b2, T, pt) /\ (Single(f, b, S) => Single(g, b2, T))
  BY <1>1, PathsThinner
<1>3. QED
  BY <1>2 DEF Pathed

\* The paths of the step before.
LEMMA PathsNow ==
  ASSUME Known, Free(Strays)',
         \/ pc \in {"walk", "data", "initDir", "addEntry", "addCluster", "setEntry", "scan"}
         \/ pc = "flush" /\ loc.then # "formatRoot"
  PROVE  ready /\ Free(Strays) /\ \E S, pt : Pathed(Clear, fat, Seen, S, pt) /\ Walked(S, pt)
<1>1. ready /\ Free(Strays)
  BY TreeNow DEF Known
<1>2. QED
  BY <1>1 DEF Known, PathInv, MemPaths

LEMMA ClearBefore ==
  ASSUME marks \subseteq marks'
  PROVE  Clear' => Clear
BY DEF Clear, Free

\* A power loss after this step finds what was there before it.
LEMMA DiskSame ==
  ASSUME Known, UNCHANGED <<super, diskFat, block>>, ~Exposed
  PROVE  DiskPaths'
<1>1. SUFFICES ASSUME super', Free(Strays)'
               PROVE  \E S, pt : Pathed(Clear, diskFat, block, S, pt)'
  BY DEF DiskPaths
<1>2. super /\ Free(Strays) /\ (Clear' => Clear)
  BY <1>1, FreeBefore, ClearBefore DEF Known, Given
<1>3. PICK S, pt : Pathed(Clear, diskFat, block, S, pt)
  BY <1>2 DEF Known, PathInv, DiskPaths
<1>4. Pathed(Clear, diskFat, block, S, pt)'
  BY <1>2, <1>3 DEF Pathed
<1>5. QED
  BY <1>4

\* The steps at which the disk has the tree that is in memory.
Calm2 == pc = "idle" \/ pc = "walk" \/ Flushing("return") \/ Adding

\* The paths in memory are on disk, too.
LEMMA DiskFollows ==
  ASSUME TypeInv', SoundInv', ready', MemPaths', Calm2'
  PROVE  DiskPaths'
<1>1. SUFFICES ASSUME Free(Strays)'
               PROVE  \E S, pt : Pathed(Clear, diskFat, block, S, pt)'
  BY DEF DiskPaths
<1>2. ~Growing' /\ ~Storing'
  BY DEF Calm2, Growing, Storing, Adding, Flushing
<1>3. PICK f, g, b, u : f = fat' /\ g = diskFat' /\ b = block' /\ u = Clear'
  OBVIOUS
<1>4. f \in Fats /\ g \in Fats
  BY <1>3 DEF TypeInv, TypeOK
<1>5. PICK S, pt : Pathed(u, f, b, S, pt)
  <2>1. PICK S, pt : Pathed(Clear, fat, Seen, S, pt)'
    BY <1>1 DEF MemPaths
  <2>2. QED
    BY <1>2, <1>3, <2>1 DEF Seen
<1>6. PICK D, F, dp : Phase(D, F, dp)'
  BY <1>1 DEF SoundInv, MemInv
<1>7. Resting(D, F, dp)'
  BY <1>6 DEF Calm2, Phase, Still, AddPhase
<1>8. Tree(f, b, D, F, dp) /\ \A c \in D : g[c] = f[c]
  BY <1>3, <1>7 DEF Resting, Shape, Agree
<1>9. PICK T : T = S \cap D
  OBVIOUS
<1>10. T \in SUBSET S /\ Closed(f, b, T)
  BY <1>4, <1>5, <1>8, <1>9, TreeClosed DEF Pathed, Named
<1>11. Thinner(f, b, g, b, T)
  BY <1>8, <1>9 DEF Thinner
<1>12. Pathed(u, g, b, T, pt)
  BY <1>4, <1>5, <1>10, <1>11, FewerPaths
<1>13. QED
  BY <1>3, <1>12

-------------------------------------------------------------------------------
\* The walk along a path.

\* What can be reached is in every closed set.
LEMMA DirsWithin ==
  ASSUME NEW f, NEW b, NEW S, Closed(f, b, S)
  PROVE  Dirs(f, b) \subseteq S
<1>1. ASSUME NEW c \in S, NEW i \in Slots, ProperAt(b, c, i), b[c][i].type = "dir"
      PROVE  b[c][i].first \in S
  <2>1. PICK p : p = <<c, i>>
    OBVIOUS
  <2>2. p \in Proper(b, S) /\ At(b, p) = b[c][i]
    BY <1>1, <2>1 DEF Proper, At, ProperAt
  <2>3. QED
    BY <1>1, <2>2 DEF Closed
<1>2. QED
  BY <1>1 DEF Dirs, Closed

LEMMA TreeWithin ==
  ASSUME NEW f \in Fats, NEW b, NEW D, NEW F, NEW dp, Tree(f, b, D, F, dp), Reached(f, b, D, F),
         NEW S, Closed(f, b, S)
  PROVE  D \subseteq S
<1>1. Used(f, b) = D \cup F
  BY ReachedAll
<1>2. Used(f, b) = Dirs(f, b) \cup FileClusters(f, b) /\ FileClusters(f, b) \subseteq F
  BY FileClustersOf
<1>3. D \cap F = {}
  BY DEF Tree, Ground
<1>4. D \subseteq Dirs(f, b)
  BY <1>1, <1>2, <1>3
<1>5. QED
  BY <1>4, DirsWithin

\* A name that is not found stands nowhere in the directory.
LEMMA NotThere ==
  ASSUME fat \in Fats, NEW D, NEW F, NEW dp, Tree(fat, block, D, F, dp), NEW d \in D,
         NEW n, FindEntry(d, n) = {}, NEW q \in Chain(fat, d) \X Slots
  PROVE  At(block, q).name # n
<1>1. SUFFICES ASSUME At(block, q).name = n PROVE FALSE
  OBVIOUS
<1>2. PICK C, P : C = Chain(fat, d) /\ P = {p \in C \X Slots : At(block, p).name = n}
  OBVIOUS
<1>3. q \in P
  BY <1>1, <1>2
<1>4. ASSUME NEW p \in P PROVE \E r \in P : Earlier(fat, r, p)
  BY <1>2, <1>4 DEF FindEntry, FirstPlace, At
<1>5. C \subseteq D /\ D \subseteq Clusters /\ dp \in [Clusters -> Nat]
  BY <1>2, ChainGround DEF Tree, Ground, Deeper
<1>6. IsWellFoundedOn(OpToRel(<, Nat), Nat)
  BY NatLessThanWellFounded
<1> DEFINE depths == {k \in Nat : \E p \in P : k = dp[p[1]]}
<1>7. PICK k \in depths : \A m \in depths : ~(<<m, k>> \in OpToRel(<, Nat))
  <2>1. dp[q[1]] \in depths
    BY <1>2, <1>3, <1>5
  <2>2. QED
    BY <1>6, <2>1, WFMin
<1>8. PICK x \in P : k = dp[x[1]]
  OBVIOUS
<1> DEFINE slots == {j \in Nat : <<x[1], j>> \in P}
<1>9. x = <<x[1], x[2]>> /\ x[1] \in C /\ x[2] \in Slots /\ Slots \subseteq Nat
  BY <1>2, <1>8, FsAssumption DEF Slots
<1>10. PICK j \in slots : \A m \in slots : ~(<<m, j>> \in OpToRel(<, Nat))
  <2>1. x[2] \in slots
    BY <1>9
  <2>2. QED
    BY <1>6, <2>1, WFMin
<1>11. PICK r \in P : Earlier(fat, r, <<x[1], j>>)
  BY <1>4, <1>10
<1>12. r[1] \in C /\ r[2] \in Nat /\ r = <<r[1], r[2]>> /\ dp[r[1]] \in Nat /\ dp[x[1]] \in Nat
  <2>1. r \in C \X Slots
    BY <1>2, <1>11
  <2>2. r = <<r[1], r[2]>> /\ r[1] \in C /\ r[2] \in Slots
    BY <2>1
  <2>3. r[1] \in Clusters /\ x[1] \in Clusters
    BY <1>5, <1>9, <2>2
  <2>4. QED
    BY <1>5, <1>9, <2>2, <2>3
<1>13. CASE After(fat, r[1], x[1])
  <2>1. dp[r[1]] < dp[x[1]]
    BY <1>5, <1>12, <1>13, ChainDeeper DEF After
  <2>2. <<dp[r[1]], k>> \in OpToRel(<, Nat)
    BY <1>8, <1>12, <2>1 DEF OpToRel
  <2>3. QED
    BY <1>7, <1>11, <1>12, <2>2
<1>14. CASE r[1] = x[1] /\ r[2] < j
  <2>1. r[2] \in slots /\ <<r[2], j>> \in OpToRel(<, Nat)
    BY <1>10, <1>11, <1>12, <1>14 DEF OpToRel
  <2>2. QED
    BY <1>10, <2>1
<1>15. QED
  BY <1>11, <1>13, <1>14 DEF Earlier

\* The directory that a head is in: it has one path more name.
LEMMA ParentOf ==
  ASSUME NEW f \in Fats, NEW b, NEW D, NEW F, NEW dp, Tree(f, b, D, F, dp), Reached(f, b, D, F),
         NEW S, NEW pt, Named(f, b, S, pt), NEW x \in Heads(f, D), x # RootCluster
  PROVE  \E h \in Heads(f, D), p \in Proper(b, D) :
           /\ At(b, p).type = "dir" /\ At(b, p).first = x
           /\ At(b, <<x, 2>>) = DirEntry("..", h) /\ p[1] \in Chain(f, h)
           /\ pt[x] = Append(pt[h], At(b, p).name)
<1>1. x \in D /\ x \in Clusters /\ x \notin F /\ \A c \in D : f[c] # x
  BY DEF Heads, Tree, Ground
<1>2. \A c \in F : f[c] # x
  BY <1>1 DEF Tree, Ground
<1>3. PICK p \in Proper(b, D) : At(b, p).first = x
  BY <1>1, <1>2 DEF Reached
<1>4. x # NoCluster
  BY <1>1, ClusterFacts DEF NoCluster, FREE
<1>5. At(b, p).type = "dir"
  BY <1>1, <1>3, <1>4 DEF Tree, Entered, Proper, IsProper
<1>6. PICK h \in Heads(f, D) : At(b, <<x, 2>>) = DirEntry("..", h) /\ p[1] \in Chain(f, h)
  BY <1>3, <1>5 DEF Tree, Dotted
<1>7. D \subseteq S
  BY TreeWithin DEF Named
<1>8. h \in S /\ p \in Proper(b, S)
  BY <1>7 DEF Heads, Proper
<1>9. pt[p[1]] = pt[h]
  BY <1>6, <1>8, OnePath
<1>10. pt[x] = Append(pt[h], At(b, p).name)
  BY <1>3, <1>5, <1>8, <1>9 DEF Named
<1>11. QED
  BY <1>3, <1>5, <1>6, <1>10

\* fs_path_append and fs_path_pop keep the path in step with the directory.
LEMMA HopPath ==
  ASSUME TypeOK, NEW D, NEW F, NEW dp, Tree(fat, block, D, F, dp), Reached(fat, block, D, F),
         NEW S, NEW pt, Named(fat, block, S, pt),
         NEW d \in Heads(fat, D), NEW n \in Names \cup {".."}, NEW p \in FindEntry(d, n),
         n = ".." \/ EntryAt(p).type = "dir",
         NEW y, y = EntryAt(p).first
  PROVE  y \in S /\ (loc.req.op \in {"cd", "mkdir"} => pt[y] = PathAfter(pt[d], n))
<1>1. D \subseteq S /\ fat \in Fats /\ S \subseteq Clusters
  BY TreeWithin DEF Named, Closed, TypeOK
<1>2. n \in Names \cup Dots /\ d \in S
  BY <1>1 DEF Dots, Heads
<1>3. p \in D \X Slots /\ p[1] \in Chain(fat, d) /\ At(block, p) = EntryAt(p) /\ EntryAt(p).name = n
  BY <1>1, <1>2, FoundAt
<1>4. pt[p[1]] = pt[d]
  BY <1>1, <1>2, <1>3, OnePath
<1>5. pt[d] \in Labels
  BY <1>1, <1>2 DEF Named
<1>6. CASE n # ".."
  <2>1. n \notin Dots
    BY <1>6, FsAssumption DEF Dots
  <2>2. p \in Proper(block, S) /\ At(block, p).type = "dir"
    BY <1>1, <1>3, <1>6, <2>1 DEF Proper, IsProper
  <2>3. y \in S /\ pt[y] = Append(pt[d], n)
    BY <1>3, <1>4, <2>2 DEF Named, Closed
  <2>4. QED
    BY <1>6, <2>3 DEF PathAfter
<1>7. CASE n = ".."
  <2>1. PICK h \in Heads(fat, D) : At(block, <<d, 1>>) = DirEntry(".", d) /\ At(block, <<d, 2>>) = DirEntry("..", h)
    BY DotsOf
  <2>2. p = <<d, 2>>
    <3>1. PICK i : i = 2
      OBVIOUS
    <3>2. i \in {1, 2} /\ n = IF i = 1 THEN "." ELSE ".."
      BY <1>7, <3>1
    <3>3. d \in Clusters /\ n \in Dots
      BY <1>1, <1>2, <1>7 DEF Dots
    <3>4. p = <<d, i>>
      BY <1>1, <2>1, <3>2, <3>3, DotFound
    <3>5. QED
      BY <3>1, <3>4
  <2>3. y = h
    BY <1>3, <2>1, <2>2 DEF DirEntry
  <2>4. y \in S
    BY <1>1, <2>3 DEF Heads
  <2>5. CASE d = RootCluster
    <3>1. y = d /\ pt[d] = <<>>
      BY <1>3, <2>2, <2>5 DEF Tree, Dotted, DirEntry, Named
    <3>2. QED
      BY <1>7, <2>4, <3>1 DEF PathAfter
  <2>6. CASE d # RootCluster
    <3>1. PICK h2 \in Heads(fat, D), q \in Proper(block, D) :
            /\ At(block, <<d, 2>>) = DirEntry("..", h2) /\ pt[d] = Append(pt[h2], At(block, q).name)
      BY <1>1, <2>6, ParentOf
    <3>2. h2 = y
      BY <2>1, <2>3, <3>1 DEF DirEntry
    <3>3. pt[y] \in Labels
      BY <1>1, <2>4 DEF Named
    <3>4. PICK s, x : s = pt[y] /\ x = At(block, q).name
      OBVIOUS
    <3>5. pt[d] = Append(s, x) /\ s \in Labels
      BY <3>1, <3>2, <3>3, <3>4
    <3>6. pt[d] # <<>> /\ SubSeq(pt[d], 1, Len(pt[d]) - 1) = s
      BY <1>5, <3>5 DEF Labels
    <3>7. QED
      BY <1>7, <2>4, <3>4, <3>6 DEF PathAfter
  <2>7. QED
    BY <2>5, <2>6
<1>8. QED
  BY <1>6, <1>7

\* A step that leaves the table and the clusters as they are.
LEMMA PathsKept ==
  ASSUME Known, UNCHANGED <<fat, diskFat, block, super>>, pc \in {"idle", "walk"}, pc' \in {"idle", "walk"},
         LengthInv',
         ASSUME NEW S, NEW pt, ready', Free(Strays)', Named(fat, block, S, pt), Walked(S, pt)
         PROVE  Walked(S, pt)',
         ready' => ready
  PROVE  PathInv'
<1>1. ~Growing /\ ~Growing' /\ ~Storing /\ ~Storing' /\ ~Exposed
  BY DEF Growing, Storing, Flushing, Exposed, Running
<1>2. MemPaths'
  <2>1. SUFFICES ASSUME ready', Free(Strays)' PROVE \E S, pt : (Pathed(Clear, fat, Seen, S, pt) /\ Walked(S, pt))'
    BY DEF MemPaths
  <2>2. ready /\ Free(Strays) /\ (Clear' => Clear)
    BY <2>1, FreeBefore, ClearBefore DEF Known, Given
  <2>3. PICK S, pt : Pathed(Clear, fat, Seen, S, pt) /\ Walked(S, pt)
    BY <2>2 DEF Known, PathInv, MemPaths
  <2>4. Named(fat, block, S, pt)
    BY <1>1, <2>3 DEF Pathed, Seen
  <2>5. Walked(S, pt)'
    BY <2>1, <2>3, <2>4
  <2>6. Pathed(Clear, fat, Seen, S, pt)'
    BY <1>1, <2>2, <2>3 DEF Pathed, Seen
  <2>7. QED
    BY <2>5, <2>6
<1>3. DiskPaths'
  BY <1>1, DiskSame
<1>4. RecursionFits'
  BY DEF RecursionFits
<1>5. QED
  BY <1>2, <1>3, <1>4 DEF PathInv

\* The path with which a walk starts.
LEMMA StartPath ==
  ASSUME NEW r, NEW S, NEW pt, Named(fat, block, S, pt), cwd \in S, pt[cwd] = cwdPath
  PROVE  /\ StartWalk(r).cur \in S /\ StartWalk(r).req = r
         /\ r.op \in {"cd", "mkdir"} => pt[StartWalk(r).cur] = StartWalk(r).path
<1>1. /\ StartWalk(r).cur = IF r.path.abs THEN RootCluster ELSE cwd
      /\ StartWalk(r).path = IF r.op \in {"cd", "mkdir"} /\ ~r.path.abs THEN cwdPath ELSE <<>>
      /\ StartWalk(r).req = r
  BY DEF StartWalk, NoLocals
<1>2. RootCluster \in S /\ pt[RootCluster] = <<>>
  BY DEF Named, Closed
<1>3. QED
  BY <1>1, <1>2

LEMMA StartLength ==
  ASSUME LengthInv, NEW r
  PROVE  Len(StartWalk(r).path) <= MaxDepth
<1>1. StartWalk(r).path = IF r.op \in {"cd", "mkdir"} /\ ~r.path.abs THEN cwdPath ELSE <<>>
  BY DEF StartWalk, NoLocals
<1>2. Len(<<>>) <= MaxDepth
  BY FsAssumption
<1>3. QED
  BY <1>1, <1>2 DEF LengthInv

LEMMA CallPaths ==
  ASSUME Known, Offline \/ \E r \in Requests : Call(r) \/ CallRoot(r)
  PROVE  PathInv'
<1>1. /\ pc = "idle" /\ pc' \in {"idle", "walk"} /\ UNCHANGED <<fat, diskFat, block, super, ready, cwd, cwdPath>>
      /\ (pc' = "idle" /\ loc' = loc) \/ (pc' = "walk" /\ \E r \in Requests : loc' = StartWalk(r))
  BY DEF Offline, Call, CallRoot, Goto, memory, disk
<1>2. LengthInv'
  <2>1. Len(loc'.path) <= MaxDepth
    BY <1>1, StartLength DEF Known, PathInv, LengthInv
  <2>2. QED
    BY <1>1, <2>1 DEF Known, PathInv, LengthInv
<1>3. ASSUME NEW S, NEW pt, ready', Free(Strays)', Named(fat, block, S, pt), Walked(S, pt)
      PROVE  Walked(S, pt)'
  <2>1. cwd \in S /\ pt[cwd] = cwdPath
    BY <1>3 DEF Walked
  <2>2. pc' = "walk" => loc'.cur \in S /\ (loc'.req.op \in {"cd", "mkdir"} => pt[loc'.cur] = loc'.path)
    BY <1>1, <1>3, <2>1, StartPath
  <2>3. ~Adding' /\ pc' # "scan"
    BY <1>1 DEF Adding, Flushing
  <2>4. QED
    BY <1>1, <2>1, <2>2, <2>3 DEF Walked
<1>4. QED
  BY <1>1, <1>2, <1>3, PathsKept

\* Looking a name up, and the change of directory.
LEMMA WalkPaths ==
  ASSUME Known, Walk
  PROVE  PathInv'
<1>1. /\ pc = "walk" /\ pc' \in {"walk", "idle"} /\ UNCHANGED <<ready, fat, diskFat, block, super>>
      /\ loc \in Locals /\ fat \in Fats /\ TypeOK
  BY DEF Walk, WalkDot, WalkDown, WalkFails, MissedByWrite, WalkTooLong, Cd, Walking, Running,
         Goto, GiveUp, Return, memory, disk, Known, Given, TypeInv, TypeOK
<1>2. LengthInv /\ 0 <= MaxDepth
  BY FsAssumption DEF Known, PathInv
<1>3. CASE WalkDot
  <2>1. pc' = "walk" /\ UNCHANGED <<cwd, cwdPath>> /\ loc' = [loc EXCEPT !.rest = Tail(@)]
    BY <1>3 DEF WalkDot, Goto, memory
  <2>2. loc'.cur = loc.cur /\ loc'.req = loc.req /\ loc'.path = loc.path
    BY <1>1, <2>1 DEF Locals
  <2>3. LengthInv'
    BY <1>2, <2>1, <2>2 DEF LengthInv
  <2>4. \A S, pt : Walked(S, pt) => Walked(S, pt)'
    BY <1>1, <2>1, <2>2 DEF Walked, Adding, Flushing
  <2>5. QED
    BY <1>1, <2>3, <2>4, PathsKept
<1>4. CASE WalkDown
  <2>1. PICK p \in NextHop : Goto("walk", [loc EXCEPT !.rest = Tail(@), !.cur  = EntryAt(p).first,
                                                      !.path = PathAfter(@, Name)])
    BY <1>4 DEF WalkDown
  <2>2. pc' = "walk" /\ UNCHANGED <<cwd, cwdPath>>
    BY <1>4, <2>1 DEF WalkDown, Goto, memory
  <2>3. PICK n, y, q : n = Name /\ y = EntryAt(p).first /\ q = PathAfter(loc.path, Name)
    OBVIOUS
  <2>4. loc'.cur = y /\ loc'.req = loc.req /\ loc'.path = q
    BY <1>1, <2>1, <2>3 DEF Goto, Locals
  <2>5. Len(q) <= MaxDepth /\ p \in FindEntry(loc.cur, n) /\ (n = ".." \/ EntryAt(p).type = "dir")
    BY <2>1, <2>3 DEF NextHop
  <2>6. n \in Names \cup {".."}
    BY <1>1, <1>4, <2>3, NameType DEF WalkDown, Walking, Components, Dots
  <2>7. LengthInv'
    BY <1>2, <2>2, <2>4, <2>5 DEF LengthInv
  <2>8. ASSUME NEW S, NEW pt, ready', Free(Strays)', Named(fat, block, S, pt), Walked(S, pt)
        PROVE  Walked(S, pt)'
    <3>1. PICK D, F, dp : Phase(D, F, dp)
      BY <1>1, <2>8, TreeNow DEF Known
    <3>2. Tree(fat, block, D, F, dp) /\ Reached(fat, block, D, F) /\ loc.cur \in Heads(fat, D)
      BY <1>1, <3>1 DEF Phase, Still, Resting, Shape
    <3>3. y \in S /\ (loc.req.op \in {"cd", "mkdir"} => pt[y] = PathAfter(pt[loc.cur], n))
      BY <1>1, <2>3, <2>5, <2>6, <2>8, <3>2, HopPath
    <3>4. loc.req.op \in {"cd", "mkdir"} => pt[loc.cur] = loc.path
      BY <1>1, <2>8 DEF Walked
    <3>5. loc'.cur \in S /\ (loc'.req.op \in {"cd", "mkdir"} => pt[loc'.cur] = loc'.path)
      BY <2>3, <2>4, <3>3, <3>4
    <3>6. QED
      BY <2>2, <2>8, <3>5 DEF Walked, Adding, Flushing
  <2>9. QED
    BY <1>1, <2>7, <2>8, PathsKept
<1>5. CASE WalkFails \/ WalkTooLong
  <2>1. pc' = "idle" /\ UNCHANGED <<cwd, cwdPath>> /\ loc' = NoLocals
    BY <1>5 DEF WalkFails, WalkTooLong, GiveUp, Return, memory
  <2>2. LengthInv'
    BY <1>2, <2>1 DEF LengthInv, NoLocals
  <2>3. \A S, pt : Walked(S, pt) => Walked(S, pt)'
    BY <1>1, <2>1 DEF Walked, Adding, Flushing
  <2>4. QED
    BY <1>1, <2>2, <2>3, PathsKept
<1>6. CASE MissedByWrite
  <2>1. /\ pc' = "walk" /\ UNCHANGED <<cwd, cwdPath>> /\ loc' = [StartWalk(loc.req) EXCEPT !.missed = TRUE]
        /\ loc.req.op = "write"
    BY <1>6 DEF MissedByWrite, Goto, memory, Running
  <2>2. StartWalk(loc.req) \in Locals
    BY <1>1, StartWalkType DEF Locals
  <2>3. PICK l : l = StartWalk(loc.req)
    OBVIOUS
  <2>4. loc'.cur = l.cur /\ loc'.req = l.req /\ loc'.path = l.path
    BY <2>1, <2>2, <2>3 DEF Locals
  <2>5. LengthInv'
    BY <1>2, <2>1, <2>3, <2>4, StartLength DEF LengthInv
  <2>6. ASSUME NEW S, NEW pt, ready', Free(Strays)', Named(fat, block, S, pt), Walked(S, pt)
        PROVE  Walked(S, pt)'
    <3>1. cwd \in S /\ pt[cwd] = cwdPath
      BY <2>6 DEF Walked
    <3>2. l.cur \in S /\ l.req = loc.req
      BY <2>3, <2>6, <3>1, StartPath
    <3>3. QED
      BY <2>1, <2>4, <3>1, <3>2 DEF Walked, Adding, Flushing
  <2>7. QED
    BY <1>1, <2>5, <2>6, PathsKept
<1>7. CASE Cd
  <2>1. cwd' = loc.cur /\ cwdPath' = loc.path /\ pc' = "idle" /\ loc' = NoLocals /\ loc.req.op = "cd"
    BY <1>7 DEF Cd, Return, Running
  <2>2. LengthInv'
    BY <1>2, <2>1 DEF LengthInv, NoLocals
  <2>3. \A S, pt : Walked(S, pt) => Walked(S, pt)'
    BY <1>1, <2>1 DEF Walked, Adding, Flushing
  <2>4. QED
    BY <1>1, <2>2, <2>3, PathsKept
<1>8. QED
  BY <1>3, <1>4, <1>5, <1>6, <1>7 DEF Walk

\* A power loss, at any step.
LEMMA CrashPaths ==
  ASSUME Known, Crash
  PROVE  PathInv'
<1>1. /\ pc' = "off" /\ ready' = FALSE /\ cwdPath' = <<>> /\ loc' = NoLocals
      /\ UNCHANGED <<super, diskFat, block>> /\ marks' = marks \cup CrashMarks
  BY DEF Crash, disk
<1>2. LengthInv'
  BY <1>1, FsAssumption DEF LengthInv, NoLocals
<1>3. CASE Exposed
  <2>1. CrashMarks \cap Strays # {}
    BY <1>3 DEF Exposed, CrashMarks, Flushing, Running, Strays, Breaks
  <2>2. ~Free(Strays)'
    BY <1>1, <2>1 DEF Free
  <2>3. QED
    BY <1>2, <2>2, PathsStrayed
<1>4. CASE ~Exposed
  BY <1>1, <1>2, <1>4, DiskSame DEF PathInv, MemPaths, RecursionFits
<1>5. QED
  BY <1>3, <1>4

\* The paths of a disk that has just been formatted.
LEMMA FormattedPaths ==
  ASSUME NEW b, b[RootCluster] = DirBlock(RootCluster, RootCluster), NEW u
  PROVE  \E S, pt : Pathed(u, FormattedFat, b, S, pt)
<1>1. PICK f, S, pt : f = FormattedFat /\ S = {RootCluster} /\ pt = [c \in Clusters |-> <<>>]
  OBVIOUS
<1>2. RootCluster \in Clusters /\ f[RootCluster] = EOC /\ EOC \notin Clusters
  <2>1. RootCluster \in Clusters /\ Clusters \subseteq Indices /\ RootCluster \notin {0, 1}
    BY FsAssumption, ClusterFacts DEF RootCluster
  <2>2. QED
    BY <1>1, <2>1, ClusterFacts DEF FormattedFat
<1>3. Proper(b, S) = {}
  <2>1. SUFFICES ASSUME NEW p \in Proper(b, S) PROVE FALSE
    OBVIOUS
  <2>2. PICK i \in Slots : p = <<RootCluster, i>> /\ IsProper(b[RootCluster][i])
    BY <1>1, <2>1 DEF Proper, At
  <2>3. QED
    BY <2>2 DEF DirBlock, DirEntry, Zeroed, IsProper, Dots
<1>4. Named(f, b, S, pt)
  <2>1. <<>> \in Labels
    BY DEF Labels
  <2>2. QED
    BY <1>1, <1>2, <1>3, <2>1 DEF Named, Closed, ClosedUnderLinks
<1>5. Single(f, b, S)
  <2>1. ASSUME NEW h \in S, NEW p \in Chain(f, h) \X Slots, NEW q \in Chain(f, h) \X Slots,
               At(b, p).name = At(b, q).name, At(b, p).name # Empty
        PROVE  p = q
    <3>1. ClosedUnderLinks(f, S) /\ S \in SUBSET Clusters
      BY <1>1, <1>2 DEF ClosedUnderLinks
    <3>2. Chain(f, h) \subseteq S
      BY <3>1, ChainWithin
    <3>3. PICK i \in Slots, j \in Slots : p = <<RootCluster, i>> /\ q = <<RootCluster, j>>
      BY <1>1, <3>2
    <3>4. DirBlock(RootCluster, RootCluster)[i].name = DirBlock(RootCluster, RootCluster)[j].name
          /\ DirBlock(RootCluster, RootCluster)[i].name # Empty
      BY <2>1, <3>3 DEF At
    <3>5. i = j
      BY <3>4 DEF DirBlock, DirEntry, Zeroed
    <3>6. QED
      BY <3>3, <3>5
  <2>2. QED
    BY <2>1 DEF Single
<1>6. QED
  BY <1>1, <1>4, <1>5 DEF Pathed

\* Starting up.
LEMMA StartingPaths ==
  ASSUME Known, Starting
  PROVE  PathInv'
<1>1. TypeOK /\ loc \in Locals /\ LengthInv /\ 0 <= MaxDepth
  BY FsAssumption DEF Known, Given, TypeInv, TypeOK, PathInv
<1>2. CASE Boot
  <2>1. pc = "off" /\ UNCHANGED <<super, diskFat, block, ready, cwdPath, loc>> /\ pc' # "halted"
    BY <1>2 DEF Boot, disk, Reads, TypeOK
  <2>2. ~ready'
    BY <2>1 DEF Known, Given, SyncInv, OfflineInv
  <2>3. DiskPaths'
    BY <2>1, DiskSame DEF Exposed, Flushing, Running
  <2>4. QED
    BY <1>1, <2>1, <2>2, <2>3 DEF PathInv, MemPaths, LengthInv, RecursionFits
<1>3. CASE FormatSuper
  <2>1. pc = "formatSuper" /\ UNCHANGED <<ready, cwdPath>> /\ ~ready
    BY <1>3 DEF FormatSuper, memory, Known, Given, SyncInv, OfflineInv
  <2>2. PICK w \in Writes :
          /\ super' = (w # "lost")
          /\ IF w = "done" THEN StartFlush(loc, "formatRoot") ELSE Goto("idle", loc)
          /\ marks' = IF w = "landed" THEN marks \cup {"halfFormat"} ELSE marks
    BY <1>3 DEF FormatSuper
  <2>3. loc'.path = loc.path /\ pc' # "halted" /\ (w = "done" => pc' = "flush" /\ loc'.then = "formatRoot")
    BY <1>1, <2>2 DEF StartFlush, Goto, Locals
  <2>4. LengthInv'
    BY <1>1, <2>1, <2>3 DEF LengthInv
  <2>5. DiskPaths'
    <3>1. w = "done" \/ w = "lost" \/ w = "landed"
      BY DEF Writes
    <3>2. CASE w = "done"
      BY <2>3, <3>2 DEF DiskPaths, Exposed, Flushing
    <3>3. CASE w = "lost"
      BY <2>2, <3>3 DEF DiskPaths
    <3>4. CASE w = "landed"
      BY <2>2, <3>4 DEF DiskPaths, Free, Strays, Breaks
    <3>5. QED
      BY <3>1, <3>2, <3>3, <3>4
  <2>6. QED
    BY <2>1, <2>3, <2>4, <2>5 DEF PathInv, MemPaths, RecursionFits
<1>4. CASE FormatRoot
  <2>1. /\ pc = "formatRoot" /\ UNCHANGED <<ready, fat, cwdPath>> /\ ~ready /\ diskFat = FormattedFat
    BY <1>4 DEF FormatRoot, memory, Known, Given, SyncInv, OfflineInv, SoundInv, CtlInv
  <2>2. PICK w \in Writes :
          /\ WriteBlock(RootCluster, DirBlock(RootCluster, RootCluster), w)
          /\ IF w = "done" THEN Goto("load", NoLocals) /\ marks' = marks
                           ELSE Goto("idle", NoLocals) /\ marks' = marks \cup {"halfFormat"}
    BY <1>4 DEF FormatRoot
  <2>3. UNCHANGED diskFat /\ pc' # "halted" /\ loc' = NoLocals
    BY <2>2 DEF WriteBlock, Goto
  <2>4. LengthInv'
    BY <1>1, <2>1, <2>3 DEF LengthInv, NoLocals
  <2>5. DiskPaths'
    <3>1. CASE w = "done"
      <4>1. block' = [block EXCEPT ![RootCluster] = DirBlock(RootCluster, RootCluster)]
        BY <2>2, <3>1 DEF WriteBlock
      <4>2. block'[RootCluster] = DirBlock(RootCluster, RootCluster)
        BY <1>1, <4>1, FsAssumption DEF TypeOK
      <4>3. PICK f, b, u : f = diskFat' /\ b = block' /\ u = Clear'
        OBVIOUS
      <4>4. \E S, pt : Pathed(u, FormattedFat, b, S, pt)
        BY <4>2, <4>3, FormattedPaths
      <4>5. QED
        BY <2>1, <2>3, <4>3, <4>4 DEF DiskPaths
    <3>2. CASE w # "done"
      BY <2>2, <3>2 DEF DiskPaths, Free, Strays, Breaks
    <3>3. QED
      BY <3>1, <3>2
  <2>6. QED
    BY <2>1, <2>3, <2>4, <2>5 DEF PathInv, MemPaths, RecursionFits
<1>5. CASE Load
  <2>1. PICK ok \in Reads : ready' = ok /\ fat' = IF ok THEN diskFat ELSE fat
    BY <1>5 DEF Load
  <2>2. /\ pc = "load" /\ pc' = "idle" /\ cwd' = RootCluster /\ cwdPath' = <<>> /\ super
        /\ UNCHANGED <<super, diskFat, block, loc, marks>>
    BY <1>5 DEF Load, disk, Known, Given, SoundInv, CtlInv
  <2>3. LengthInv'
    BY <1>1, <2>2 DEF LengthInv
  <2>4. DiskPaths'
    BY <2>2, DiskSame DEF Exposed, Flushing, Running
  <2>5. MemPaths'
    <3>1. SUFFICES ASSUME ready', Free(Strays)'
                   PROVE  \E S, pt : (Pathed(Clear, fat, Seen, S, pt) /\ Walked(S, pt))'
      BY DEF MemPaths
    <3>2. fat' = diskFat /\ Free(Strays) /\ (Clear' => Clear)
      BY <1>1, <2>1, <2>2, <3>1 DEF Free, Reads, Clear
    <3>3. PICK S, pt : Pathed(Clear, diskFat, block, S, pt)
      BY <2>2, <3>2 DEF Known, PathInv, DiskPaths, Exposed, Flushing, Running
    <3>4. ~Growing' /\ ~Storing' /\ ~Adding'
      BY <2>2 DEF Growing, Storing, Adding, Flushing
    <3>5. Pathed(Clear, fat, Seen, S, pt)'
      BY <2>2, <3>2, <3>3, <3>4 DEF Pathed, Seen
    <3>6. RootCluster \in S /\ pt[RootCluster] = <<>>
      BY <3>3 DEF Pathed, Named, Closed
    <3>7. Walked(S, pt)'
      BY <2>2, <3>4, <3>6 DEF Walked
    <3>8. QED
      BY <3>5, <3>7
  <2>6. QED
    BY <2>2, <2>3, <2>4, <2>5 DEF PathInv, RecursionFits
<1>6. QED
  BY <1>2, <1>3, <1>4, <1>5 DEF Starting

-------------------------------------------------------------------------------
\* What each operation does before its first write.

\* A call that is turned down.
LEMMA RefusedPaths ==
  ASSUME Known, pc = "walk", pc' = "idle", loc' = NoLocals,
         UNCHANGED <<ready, fat, cwd, cwdPath, super, diskFat, block>>
  PROVE  PathInv'
<1>1. LengthInv'
  BY FsAssumption DEF LengthInv, NoLocals, Known, PathInv
<1>2. \A S, pt : Walked(S, pt) => Walked(S, pt)'
  BY DEF Walked, Adding, Flushing
<1>3. QED
  BY <1>1, <1>2, PathsKept

\* The paths at the last component of the path of a call.
LEMMA ArrivesPaths ==
  ASSUME Known, Free(Strays)', NEW op, Arrived(op), ready' = ready
  PROVE  \E S, pt, D, F, dp :
           /\ Pathed(Clear, fat, block, S, pt) /\ D \subseteq S
           /\ cwd \in D /\ pt[cwd] = cwdPath
           /\ loc.req.op \in {"cd", "mkdir"} => pt[loc.cur] = loc.path
           /\ Tree(fat, block, D, F, dp) /\ Reached(fat, block, D, F) /\ loc.cur \in Heads(fat, D)
<1>1. PICK D, F, dp : /\ Still(D, F, dp) /\ loc.cur \in Heads(fat, D)
                      /\ Tree(fat, block, D, F, dp) /\ Reached(fat, block, D, F)
  BY Arrives DEF Known
<1>2. pc = "walk" /\ fat \in Fats
  BY DEF Arrived, Running, Known, Given, TypeInv, TypeOK
<1>3. PICK S, pt : Pathed(Clear, fat, Seen, S, pt) /\ Walked(S, pt)
  BY <1>2, PathsNow
<1>4. Seen = block
  BY <1>2 DEF Seen, Growing, Storing, Flushing
<1>5. D \subseteq S
  BY <1>1, <1>2, <1>3, <1>4, TreeWithin DEF Pathed, Named
<1>6. cwd \in D
  BY <1>1 DEF Still, Resting, Shape, Heads
<1>7. QED
  BY <1>1, <1>2, <1>3, <1>4, <1>5, <1>6 DEF Walked

\* The chain of a directory of the tree, when only other links have changed.
LEMMA SameChain ==
  ASSUME NEW f \in Fats, NEW g \in Fats, NEW b, NEW D, NEW F, NEW dp, Tree(f, b, D, F, dp),
         \A c \in D : g[c] = f[c], NEW d \in D
  PROVE  Chain(g, d) = Chain(f, d) /\ Chain(f, d) \subseteq D
<1>1. D \subseteq Clusters /\ ClosedUnderLinks(f, D)
  BY DEF Tree, Ground, ClosedUnderLinks
<1>2. Chain(f, d) \subseteq D
  BY <1>1, ChainWithin
<1>3. \A c \in Chain(f, d) : g[c] = f[c]
  BY <1>2
<1>4. QED
  BY <1>1, <1>2, <1>3, ChainSame

\* An entry is to be added, and its clusters are allocated.
LEMMA AddPaths ==
  ASSUME Known, NEW S, NEW pt, NEW D, NEW F, NEW dp,
         Pathed(Clear, fat, block, S, pt), D \subseteq S, cwd \in D, pt[cwd] = cwdPath,
         Tree(fat, block, D, F, dp), loc.cur \in D, \A c \in D : fat'[c] = fat[c],
         UNCHANGED <<block, cwd, cwdPath>>, Adding', loc'.cur = loc.cur, loc'.entry.name = Name,
         loc'.entry.type = "dir" => Len(pt[loc.cur]) <= MaxDepth,
         NEW ok, ok => Places = {}, marks' = Hidden(ok)
  PROVE  MemPaths'
<1>1. fat \in Fats /\ fat' \in Fats
  BY DEF Known, Given, TypeInv, TypeOK
<1>2. ~Growing' /\ ~Storing' /\ pc' # "walk" /\ pc' # "scan"
  BY DEF Adding, Growing, Storing, Flushing
<1>3. PICK f, g, b, u, v : f = fat /\ g = fat' /\ b = block /\ u = Clear /\ v = Clear'
  OBVIOUS
<1>4. v => u
  BY <1>3, ClearBefore DEF Known, Given
<1>5. S \cap D = D
  OBVIOUS
<1>6. Closed(f, b, D)
  BY <1>1, <1>3, <1>5, TreeClosed DEF Pathed, Named
<1>7. Thinner(f, b, g, b, D)
  BY <1>3 DEF Thinner
<1>8. Pathed(v, g, b, D, pt)
  <2>1. f \in Fats /\ g \in Fats /\ Pathed(u, f, b, S, pt) /\ D \in SUBSET S
    BY <1>1, <1>3
  <2>2. QED
    BY <2>1, <1>4, <1>6, <1>7, FewerPaths
<1>9. Pathed(Clear, fat, Seen, D, pt)'
  BY <1>2, <1>3, <1>8 DEF Seen
<1>10. Clear' => Places = {}
  <2>1. Clear' => "duplicate" \notin marks'
    BY DEF Clear, Free
  <2>2. QED
    BY <2>1 DEF Hidden
<1>11. ASSUME Clear', NEW q \in Chain(fat', loc.cur) \X Slots PROVE At(block, q).name # Name
  <2>1. Chain(fat', loc.cur) = Chain(fat, loc.cur)
    BY <1>1, SameChain
  <2>2. q \in Chain(fat, loc.cur) \X Slots
    BY <1>11, <2>1
  <2>3. FindEntry(loc.cur, Name) = {}
    BY <1>10, <1>11 DEF Places
  <2>4. PICK d, n : d = loc.cur /\ n = Name
    OBVIOUS
  <2>5. FindEntry(d, n) = {} /\ d \in D /\ q \in Chain(fat, d) \X Slots
    BY <2>2, <2>3, <2>4
  <2>6. At(block, q).name # n
    BY <1>1, <2>5, NotThere
  <2>7. QED
    BY <2>4, <2>6
<1>12. Fitting(D, pt)'
  BY <1>11 DEF Fitting
<1>13. Walked(D, pt)'
  BY <1>2, <1>12 DEF Walked
<1>14. QED
  BY <1>9, <1>13 DEF MemPaths

\* The text of a path outlives the start of a flush.
LEMMA FlushPath ==
  ASSUME NEW l \in Locals, NEW label, StartFlush(l, label)
  PROVE  loc'.path = l.path /\ pc' = "flush"
BY DEF StartFlush, Goto, Locals

LEMMA DataPath ==
  ASSUME NEW f, NEW l \in Locals, NEW e \in Entries, StartData(f, l, e)
  PROVE  loc'.path = l.path /\ pc' \in {"flush", "data"}
<1>1. CASE l.req.size = 0 /\ StartFlush([l EXCEPT !.entry = e], StoreStep(l))
  <2>1. [l EXCEPT !.entry = e] \in Locals /\ [l EXCEPT !.entry = e].path = l.path
    BY DEF Locals
  <2>2. QED
    BY <1>1, <2>1, FlushPath
<1>2. CASE \E y : Goto("data", AtData(l, e, y))
  BY <1>2 DEF Goto, AtData, Locals
<1>3. QED
  BY <1>1, <1>2 DEF StartData

LEMMA NewEntryPaths ==
  ASSUME Known, NEW op, Arrived(op), UNCHANGED <<super, ready, diskFat, block, cwd, cwdPath>>,
         Adding', loc'.path = loc.path, loc'.cur = loc.cur, loc'.entry.name = Name,
         loc'.entry.type = "dir" => op = "mkdir",
         NEW ok, ok => Places = {}, marks' = Hidden(ok),
         fat' = fat \/ \E n \in Nat \ {0} : HasRoom(fat, n) /\ fat' = AllocChain(fat, n)
  PROVE  PathInv'
<1>1. pc = "walk" /\ loc.req.op = op /\ pc' # "halted" /\ fat \in Fats
  BY DEF Arrived, Running, Adding, Flushing, Known, Given, TypeInv, TypeOK
<1>2. LengthInv' /\ RecursionFits'
  BY <1>1 DEF LengthInv, Known, PathInv, RecursionFits
<1>3. DiskPaths'
  BY <1>1, DiskSame DEF Exposed, Flushing, Running
<1>4. MemPaths'
  <2>1. SUFFICES ASSUME Free(Strays)' PROVE MemPaths'
    BY DEF MemPaths
  <2>2. PICK S, pt, D, F, dp :
          /\ Pathed(Clear, fat, block, S, pt) /\ D \subseteq S
          /\ cwd \in D /\ pt[cwd] = cwdPath
          /\ loc.req.op \in {"cd", "mkdir"} => pt[loc.cur] = loc.path
          /\ Tree(fat, block, D, F, dp) /\ Reached(fat, block, D, F) /\ loc.cur \in Heads(fat, D)
    BY <2>1, ArrivesPaths
  <2>3. loc.cur \in D
    BY <2>2 DEF Heads
  <2>4. loc'.entry.type = "dir" => Len(pt[loc.cur]) <= MaxDepth
    BY <1>1, <2>2 DEF Known, PathInv, LengthInv
  <2>5. \A c \in D : fat'[c] = fat[c]
    <3>1. CASE fat' = fat
      BY <3>1
    <3>2. CASE \E n \in Nat \ {0} : HasRoom(fat, n) /\ fat' = AllocChain(fat, n)
      <4>1. PICK n \in Nat \ {0} : fat' = AllocChain(fat, n)
        BY <3>2
      <4>2. PICK f, b : f = fat /\ b = block
        OBVIOUS
      <4>3. f \in Fats /\ Tree(f, b, D, F, dp)
        BY <1>1, <2>2, <4>2
      <4>4. \A c \in D : c \in Indices /\ c \notin FirstFit(f, n)
        BY <4>3, FirstFitFree, ClusterFacts DEF Tree, Ground
      <4>5. QED
        BY <4>1, <4>2, <4>3, <4>4, AllocChainLinks
    <3>3. QED
      BY <3>1, <3>2
  <2>6. QED
    BY <2>2, <2>3, <2>4, <2>5, AddPaths
<1>5. QED
  BY <1>2, <1>3, <1>4 DEF PathInv

LEMMA MkdirPaths ==
  ASSUME Known, Mkdir
  PROVE  PathInv'
<1>1. PICK y, e, l : /\ y = Least(FirstFit(fat, 1)) /\ e = DirEntry(Name, y)
                     /\ l = [loc EXCEPT !.entry = e]
  OBVIOUS
<1>2. /\ Arrived("mkdir") /\ UNCHANGED <<super, ready, diskFat, block, cwd, cwdPath>> /\ TypeOK
      /\ HasRoom(fat, 1) /\ fat' = AllocChain(fat, 1) /\ StartFlush(l, "initDir")
  BY <1>1 DEF Mkdir, disk, Known, Given, TypeInv
<1>3. fat \in Fats /\ loc \in Locals
  BY <1>2 DEF TypeOK
<1>4. y \in Clusters
  BY <1>1, <1>2, <1>3, AllocOne
<1>5. Name \in Names \cup Dots
  BY <1>2, LastName
<1>6. e \in Entries /\ e.name = Name
  BY <1>1, <1>4, <1>5, FsAssumption DEF DirEntry, Entries
<1>7. l \in Locals /\ l.entry = e /\ l.cur = loc.cur /\ l.path = loc.path
  BY <1>1, <1>3, <1>6 DEF Locals
<1>8. /\ pc' = "flush" /\ loc'.then = "initDir" /\ loc'.cur = loc.cur /\ loc'.entry = e
      /\ loc'.path = loc.path
  BY <1>2, <1>7, ToFlush, FlushPath
<1>9. Adding'
  BY <1>8 DEF Adding, Flushing
<1>10. PICK ok \in Reads : (ok => Places = {}) /\ marks' = Hidden(ok)
  BY DEF Mkdir
<1>11. PICK n \in Nat \ {0} : n = 1
  OBVIOUS
<1>12. HasRoom(fat, n) /\ fat' = AllocChain(fat, n)
  BY <1>2, <1>11
<1>13. QED
  BY <1>2, <1>6, <1>8, <1>9, <1>10, <1>12, NewEntryPaths

LEMMA TouchPaths ==
  ASSUME Known, Touch
  PROVE  PathInv'
<1>1. PICK e : e = FileEntry(Name, 0, NoCluster)
  OBVIOUS
<1>2. /\ Arrived("touch") /\ UNCHANGED <<super, ready, fat, diskFat, block, cwd, cwdPath>> /\ loc \in Locals
      /\ pc' = "addEntry" /\ loc' = [loc EXCEPT !.entry = e]
  BY <1>1 DEF Touch, Goto, memory, disk, Known, Given, TypeInv, TypeOK
<1>3. loc'.entry = e /\ loc'.cur = loc.cur /\ loc'.path = loc.path
  BY <1>2 DEF Locals
<1>4. e.name = Name /\ e.type = "file"
  BY <1>1 DEF FileEntry
<1>5. Adding'
  BY <1>2 DEF Adding
<1>6. PICK ok \in Reads : (ok => Places = {}) /\ marks' = Hidden(ok)
  BY DEF Touch
<1>7. loc'.entry.type # "dir" /\ loc'.entry.name = Name
  BY <1>3, <1>4
<1>8. QED
  BY <1>2, <1>3, <1>5, <1>6, <1>7, NewEntryPaths

LEMMA WriteNewPaths ==
  ASSUME Known, WriteNew
  PROVE  PathInv'
<1>1. PICK e, y : e = FileEntry(Name, loc.req.size, NoCluster) /\ y = Least(FirstFit(fat, loc.req.size))
  OBVIOUS
<1>2. /\ Arrived("write") /\ UNCHANGED <<super, ready, diskFat, block, cwd, cwdPath>> /\ TypeOK
      /\ StartData(fat, loc, e) /\ loc.req.op = "write" /\ ~loc.found
  BY <1>1 DEF WriteNew, disk, Known, Given, TypeInv, Arrived, Running, SoundInv, CtlInv
<1>3. fat \in Fats /\ loc \in Locals
  BY <1>2 DEF TypeOK
<1>4. loc.req.size \in 0..MaxSize
  BY <1>3, RequestFields DEF Locals
<1>5. Name \in Names \cup Dots
  BY <1>2, LastName
<1>6. e \in Entries /\ e.name = Name /\ e.type = "file"
  BY <1>1, <1>4, <1>5 DEF FileEntry, Entries
<1>7. DataStarted(fat, loc, e, y)
  BY <1>1, <1>2, <1>3, <1>4, <1>6, StartDataSteps
<1>8. loc'.path = loc.path
  BY <1>2, <1>3, <1>6, DataPath
<1>9. Adding' /\ loc'.cur = loc.cur
  BY <1>2, <1>7 DEF DataStarted, StoreStep, Adding, Flushing
<1>10. loc'.entry.name = Name /\ loc'.entry.type = "file"
  BY <1>6, <1>7 DEF DataStarted, Entries
<1>11. fat' = fat \/ \E n \in Nat \ {0} : HasRoom(fat, n) /\ fat' = AllocChain(fat, n)
  BY <1>7 DEF DataStarted
<1>12. PICK ok : ok = ~loc.missed
  OBVIOUS
<1>13. (ok => Places = {}) /\ marks' = Hidden(ok)
  BY <1>12 DEF WriteNew
<1>14. loc'.entry.type = "dir" => "write" = "mkdir"
  BY <1>10
<1>15. QED
  BY <1>2, <1>8, <1>9, <1>10, <1>11, <1>13, <1>14, NewEntryPaths

\* An entry is to be replaced by one that is not that of a directory.
LEMMA StorePaths ==
  ASSUME Known, NEW S, NEW pt, NEW D, NEW F, NEW dp,
         Pathed(Clear, fat, block, S, pt), D \subseteq S, cwd \in D, pt[cwd] = cwdPath,
         Tree(fat, block, D, F, dp), \A c \in D : fat'[c] \in Clusters => fat'[c] = fat[c],
         UNCHANGED <<block, cwd, cwdPath>>, Storing',
         NEW p \in D \X Slots, loc'.at = p, NEW e \in Entries, loc'.entry = e,
         e.name \in {Empty, At(block, p).name}, ~(IsProper(e) /\ e.type = "dir")
  PROVE  MemPaths'
<1>1. fat \in Fats /\ fat' \in Fats /\ block \in [Clusters -> Blocks] /\ D \subseteq Clusters
  BY DEF Known, Given, TypeInv, TypeOK, Tree, Ground
<1>2. ~Growing' /\ ~Adding' /\ pc' # "walk" /\ pc' # "scan"
  BY DEF Adding, Growing, Storing, Flushing
<1>3. PICK f, g, b, b2, u, v : f = fat /\ g = fat' /\ b = block /\ b2 = With(block, p, e) /\ u = Clear /\ v = Clear'
  OBVIOUS
<1>4. v => u
  BY <1>3, ClearBefore DEF Known, Given
<1>5. Closed(f, b, D)
  <2>1. S \cap D = D
    OBVIOUS
  <2>2. QED
    BY <1>1, <1>3, <2>1, TreeClosed DEF Pathed, Named
<1>6. Thinner(f, b, g, b2, D)
  <2>1. p \in Clusters \X Slots
    BY <1>1
  <2>2. At(b2, p) = e /\ \A q \in Clusters \X Slots : q # p => At(b2, q) = At(b, q)
    BY <1>1, <1>3, <2>1, WithAt
  <2>3. \A q \in D \X Slots : q \in Clusters \X Slots
    BY <1>1
  <2>4. ASSUME NEW q \in D \X Slots
        PROVE  /\ At(b2, q).name \in {Empty, At(b, q).name}
               /\ IsProper(At(b2, q)) /\ At(b2, q).type = "dir" => At(b2, q) = At(b, q)
    BY <1>3, <2>2, <2>3
  <2>5. QED
    BY <1>3, <2>4 DEF Thinner
<1>7. Pathed(v, g, b2, D, pt)
  <2>1. f \in Fats /\ g \in Fats /\ Pathed(u, f, b, S, pt) /\ D \in SUBSET S
    BY <1>1, <1>3
  <2>2. QED
    BY <2>1, <1>4, <1>5, <1>6, FewerPaths
<1>8. Pathed(Clear, fat, Seen, D, pt)'
  BY <1>2, <1>3, <1>7 DEF Seen
<1>9. Walked(D, pt)'
  BY <1>2 DEF Walked
<1>10. QED
  BY <1>8, <1>9 DEF MemPaths

\* The clusters of a file are no directory's.
LEMMA FileApart ==
  ASSUME NEW f \in Fats, NEW b, NEW D, NEW F, NEW dp, Tree(f, b, D, F, dp),
         NEW p \in Proper(b, D), At(b, p).type = "file"
  PROVE  Chain(f, At(b, p).first) \cap D = {}
<1>1. PICK x : x = At(b, p).first
  OBVIOUS
<1>2. Ground(f, D, F) /\ (x \in F \/ x = NoCluster)
  BY <1>1 DEF Tree, Entered
<1>3. CASE x \in F
  <2>1. Chain(f, x) \subseteq F
    BY <1>2, <1>3, ChainGround
  <2>2. QED
    BY <1>1, <1>2, <2>1 DEF Ground
<1>4. CASE x = NoCluster
  <2>1. NoCluster \notin Clusters
    BY ClusterAssumption DEF NoCluster, Clusters
  <2>2. Chain(f, x) = {}
    BY <1>4, <2>1, NoChain
  <2>3. QED
    BY <1>1, <2>2
<1>5. QED
  BY <1>2, <1>3, <1>4

\* What is released of a tree leads nowhere.
LEMMA ReleasedLinks ==
  ASSUME NEW f, NEW s, NEW c \in Clusters, FreeChain(f, s)[c] \in Clusters
  PROVE  FreeChain(f, s)[c] = f[c]
BY ClusterFacts DEF FreeChain

LEMMA WriteOverPaths ==
  ASSUME Known, WriteOver
  PROVE  PathInv'
<1>1. PICK p \in Overwritable :
        StartData(Released(EntryAt(p)), [loc EXCEPT !.found = TRUE, !.at = p],
                  [EntryAt(p) EXCEPT !.size = loc.req.size, !.first = NoCluster])
  BY DEF WriteOver
<1>2. PICK l, e, x, f, y : /\ l = [loc EXCEPT !.found = TRUE, !.at = p]
                           /\ x = EntryAt(p).first /\ f = FreeChain(fat, x)
                           /\ e = [EntryAt(p) EXCEPT !.size = loc.req.size, !.first = NoCluster]
                           /\ y = Least(FirstFit(f, loc.req.size))
  OBVIOUS
<1>3. /\ Arrived("write") /\ UNCHANGED <<super, ready, diskFat, block, cwd, cwdPath, marks>> /\ TypeOK
      /\ StartData(f, l, e) /\ loc.req.op = "write" /\ pc = "walk"
  BY <1>1, <1>2 DEF WriteOver, disk, Known, Given, TypeInv, Arrived, Running, Released
<1>4. fat \in Fats /\ loc \in Locals
  BY <1>3 DEF TypeOK
<1>5. loc.req.size \in 0..MaxSize
  BY <1>4, RequestFields DEF Locals
<1>6. p \in Places /\ EntryAt(p).type = "file"
  BY DEF Overwritable
<1>7. p \in Clusters \X Slots /\ EntryAt(p) \in Entries
  BY <1>3, <1>6, PlaceType
<1>8. e \in Entries /\ e.name = EntryAt(p).name /\ e.type = "file" /\ e.first = NoCluster
  BY <1>2, <1>5, <1>6, <1>7 DEF Entries
<1>9. l \in Locals /\ l.req = loc.req /\ l.found /\ l.at = p /\ l.path = loc.path
  BY <1>2, <1>4, <1>7 DEF Locals
<1>10. f \in Fats
  BY <1>2, <1>4, FreeChainType
<1>11. DataStarted(f, l, e, y)
  <2>1. l.req.op = "write" /\ l.req.size \in 0..MaxSize /\ y = Least(FirstFit(f, l.req.size))
    BY <1>2, <1>3, <1>5, <1>9
  <2>2. QED
    BY <1>3, <1>8, <1>9, <1>10, <2>1, StartDataSteps
<1>12. loc'.path = loc.path
  BY <1>3, <1>8, <1>9, DataPath
<1>13. Storing' /\ loc'.at = p /\ pc' # "halted"
  BY <1>9, <1>11 DEF DataStarted, StoreStep, Storing, Flushing
<1>14. loc'.entry \in Entries
  BY DEF Known, Given, TypeInv, TypeOK, Locals
<1>15. loc'.entry.name = EntryAt(p).name /\ loc'.entry.type = "file"
  BY <1>8, <1>11 DEF DataStarted, Entries
<1>16. LengthInv' /\ RecursionFits'
  BY <1>3, <1>12, <1>13 DEF LengthInv, Known, PathInv, RecursionFits
<1>17. DiskPaths'
  BY <1>3, DiskSame DEF Exposed, Flushing, Running
<1>18. MemPaths'
  <2>1. SUFFICES ASSUME Free(Strays)' PROVE MemPaths'
    BY DEF MemPaths
  <2>2. PICK S, pt, D, F, dp :
          /\ Pathed(Clear, fat, block, S, pt) /\ D \subseteq S
          /\ cwd \in D /\ pt[cwd] = cwdPath
          /\ Tree(fat, block, D, F, dp) /\ Reached(fat, block, D, F) /\ loc.cur \in Heads(fat, D)
    BY <1>3, <2>1, ArrivesPaths
  <2>3. Name \in Names \cup Dots
    BY <1>3, LastName
  <2>4. p \in D \X Slots /\ At(block, p) = EntryAt(p) /\ p \in Proper(block, D)
    BY <1>3, <1>6, <2>2, <2>3, PlaceFound
  <2>5. D \subseteq Clusters /\ \A c \in D : fat[c] # FREE
    BY <2>2 DEF Tree, Ground
  <2>6. Chain(fat, x) \cap D = {}
    BY <1>2, <1>4, <1>6, <2>2, <2>4, FileApart
  <2>7. \A c \in D : f[c] = fat[c] /\ c \in Indices
    BY <1>2, <2>5, <2>6, ClusterFacts DEF FreeChain
  <2>8. \A c \in D : fat'[c] = fat[c]
    <3>1. CASE fat' = f
      BY <2>7, <3>1
    <3>2. CASE fat' = AllocChain(f, l.req.size)
      <4>1. PICK n : n = l.req.size
        OBVIOUS
      <4>2. \A c \in D : c \notin FirstFit(f, n)
        BY <1>10, <2>5, <2>7, FirstFitFree
      <4>3. QED
        BY <1>10, <2>7, <3>2, <4>1, <4>2, AllocChainLinks
    <3>3. QED
      BY <1>11, <3>1, <3>2 DEF DataStarted
  <2>9. \A c \in D : fat'[c] \in Clusters => fat'[c] = fat[c]
    BY <2>8
  <2>10. PICK e2 \in Entries : e2 = loc'.entry
    BY <1>14
  <2>11. e2.name \in {Empty, At(block, p).name} /\ ~(IsProper(e2) /\ e2.type = "dir")
    BY <1>15, <2>4, <2>10
  <2>12. QED
    BY <1>3, <1>13, <2>2, <2>4, <2>9, <2>10, <2>11, StorePaths
<1>19. QED
  BY <1>16, <1>17, <1>18 DEF PathInv

LEMMA WriteOverNoRoomPaths ==
  ASSUME Known, WriteOverNoRoom
  PROVE  PathInv'
<1>1. PICK p \in Overwritable :
        /\ fat' = Released(EntryAt(p))
        /\ GiveUp(IF EntryAt(p).first = NoCluster THEN {} ELSE {"dangling"})
  BY DEF WriteOverNoRoom
<1>2. /\ pc = "walk" /\ UNCHANGED <<super, ready, diskFat, block, cwd, cwdPath>> /\ TypeOK /\ pc' = "idle"
      /\ loc' = NoLocals
  BY <1>1 DEF WriteOverNoRoom, disk, GiveUp, Return, Known, Given, TypeInv, Arrived, Running
<1>3. CASE EntryAt(p).first = NoCluster
  <2>1. fat' = fat
    BY <1>1, <1>2, <1>3, ReleaseNothing DEF Released
  <2>2. QED
    BY <1>2, <2>1, RefusedPaths
<1>4. CASE EntryAt(p).first # NoCluster
  <2>1. "dangling" \in marks'
    BY <1>1, <1>4 DEF GiveUp
  <2>2. ~Free(Strays)'
    BY <2>1 DEF Free, Strays, Breaks
  <2>3. LengthInv'
    BY <1>2, FsAssumption DEF LengthInv, NoLocals, Known, PathInv
  <2>4. QED
    BY <2>2, <2>3, PathsStrayed
<1>5. QED
  BY <1>3, <1>4

\* The entry that has been looked up is to be cleared, and its chain is free.
LEMMA ClearPaths ==
  ASSUME Known, NEW op, Arrived(op), UNCHANGED <<super, ready, diskFat, block, cwd, cwdPath>>,
         NEW p \in Places, EntryAt(p).type \in {"file", "dir"}, NEW s, fat' = FreeChain(fat, s),
         pc' = "setEntry", loc'.at = p, loc'.entry = Zeroed, loc'.path = loc.path
  PROVE  PathInv'
<1>1. pc = "walk" /\ loc.req.op = op /\ fat \in Fats /\ TypeOK
  BY DEF Arrived, Running, Known, Given, TypeInv, TypeOK
<1>2. LengthInv' /\ RecursionFits'
  BY <1>1 DEF LengthInv, Known, PathInv, RecursionFits
<1>3. DiskPaths'
  BY <1>1, DiskSame DEF Exposed, Flushing, Running
<1>4. MemPaths'
  <2>1. SUFFICES ASSUME Free(Strays)' PROVE MemPaths'
    BY DEF MemPaths
  <2>2. PICK S, pt, D, F, dp :
          /\ Pathed(Clear, fat, block, S, pt) /\ D \subseteq S
          /\ cwd \in D /\ pt[cwd] = cwdPath
          /\ Tree(fat, block, D, F, dp) /\ Reached(fat, block, D, F) /\ loc.cur \in Heads(fat, D)
    BY <2>1, ArrivesPaths
  <2>3. Name \in Names \cup Dots
    BY <1>1, LastName
  <2>4. p \in D \X Slots
    BY <1>1, <2>2, <2>3, PlaceFound
  <2>5. D \subseteq Clusters
    BY <2>2 DEF Tree, Ground
  <2>6. \A c \in D : fat'[c] \in Clusters => fat'[c] = fat[c]
    BY <2>5, ReleasedLinks
  <2>7. PICK e : e = Zeroed
    OBVIOUS
  <2>8. e \in Entries /\ e.name \in {Empty, At(block, p).name} /\ ~(IsProper(e) /\ e.type = "dir")
    BY <2>7, FsAssumption DEF Zeroed, Entries
  <2>9. Storing'
    BY DEF Storing
  <2>10. loc'.entry = e
    BY <2>7
  <2>11. QED
    BY <2>2, <2>4, <2>6, <2>8, <2>9, <2>10, StorePaths
<1>5. QED
  BY <1>2, <1>3, <1>4 DEF PathInv

LEMMA RmPaths ==
  ASSUME Known, Rm
  PROVE  PathInv'
<1>1. PICK p \in LookedUp("file") :
        /\ fat' = FreeChain(fat, EntryAt(p).first)
        /\ Goto("setEntry", [loc EXCEPT !.at = p, !.entry = Zeroed])
  BY DEF Rm
<1>2. /\ Arrived("rm") /\ UNCHANGED <<super, ready, diskFat, block, cwd, cwdPath>> /\ loc \in Locals
      /\ p \in Places /\ EntryAt(p).type \in {"file", "dir"}
  BY DEF Rm, disk, Known, Given, TypeInv, TypeOK, LookedUp
<1>3. pc' = "setEntry" /\ loc'.at = p /\ loc'.entry = Zeroed /\ loc'.path = loc.path
  BY <1>1, <1>2 DEF Goto, Locals
<1>4. QED
  BY <1>1, <1>2, <1>3, ClearPaths

LEMMA RmdirEmptyPaths ==
  ASSUME Known, RmdirEmpty
  PROVE  PathInv'
<1>1. PICK p \in LookedUp("dir") : Unlink([loc EXCEPT !.at = p], EntryAt(p).first)
  BY DEF RmdirEmpty
<1>2. /\ Arrived("rmdir") /\ UNCHANGED <<super, ready, diskFat, block, cwd, cwdPath>> /\ TypeOK
      /\ p \in Places /\ EntryAt(p).type \in {"file", "dir"}
  BY DEF RmdirEmpty, disk, Known, Given, TypeInv, LookedUp
<1>3. loc \in Locals /\ p \in Clusters \X Slots
  BY <1>2, PlaceType DEF TypeOK
<1>4. fat' = FreeChain(fat, EntryAt(p).first) /\ pc' = "setEntry" /\ loc' = [[loc EXCEPT !.at = p] EXCEPT !.entry = Zeroed]
  BY <1>1 DEF Unlink, Goto
<1>5. loc'.at = p /\ loc'.entry = Zeroed /\ loc'.path = loc.path
  BY <1>3, <1>4 DEF Locals
<1>6. QED
  BY <1>2, <1>4, <1>5, ClearPaths

LEMMA RmdirAllPaths ==
  ASSUME Known, RmdirAll
  PROVE  PathInv'
<1>1. PICK p \in LookedUp("dir") :
        /\ EntryAt(p).first \in Clusters
        /\ frames' = <<Frame(EntryAt(p).first)>>
        /\ Goto("scan", [loc EXCEPT !.at = p, !.entry = EntryAt(p)])
  BY DEF RmdirAll
<1>2. /\ Arrived("rmdir") /\ UNCHANGED <<super, ready, fat, diskFat, block, cwd, cwdPath, marks>> /\ TypeOK
      /\ p \in Places /\ EntryAt(p).type = "dir" /\ pc = "walk"
  BY DEF RmdirAll, disk, memory, Known, Given, TypeInv, LookedUp, Arrived, Running
<1>3. loc \in Locals /\ fat \in Fats
  BY <1>2 DEF TypeOK
<1>4. PICK x : x = EntryAt(p).first
  OBVIOUS
<1>5. pc' = "scan" /\ loc'.path = loc.path
  BY <1>1, <1>3 DEF Goto, Locals
<1>6. Len(frames') = 1 /\ frames'[1].dir = x
  BY <1>1, <1>4 DEF Frame
<1>7. LengthInv' /\ RecursionFits'
  BY <1>2, <1>5 DEF LengthInv, Known, PathInv, RecursionFits
<1>8. DiskPaths'
  BY <1>2, DiskSame DEF Exposed, Flushing, Running
<1>9. MemPaths'
  <2>1. SUFFICES ASSUME Free(Strays)' PROVE \E S, pt : (Pathed(Clear, fat, Seen, S, pt) /\ Walked(S, pt))'
    BY DEF MemPaths
  <2>2. PICK S, pt, D, F, dp :
          /\ Pathed(Clear, fat, block, S, pt) /\ D \subseteq S
          /\ cwd \in D /\ pt[cwd] = cwdPath
          /\ Tree(fat, block, D, F, dp) /\ Reached(fat, block, D, F) /\ loc.cur \in Heads(fat, D)
    BY <1>2, <2>1, ArrivesPaths
  <2>3. Name \in Names \cup Dots
    BY <1>2, LastName
  <2>4. x \in Heads(fat, D)
    BY <1>2, <1>4, <2>2, <2>3, PlaceFound
  <2>5. x \in S /\ x \in Clusters
    BY <2>2, <2>4 DEF Heads, Pathed, Named, Closed
  <2>6. Len(pt[x]) >= 0
    BY <2>2, <2>5 DEF Pathed, Named, Labels
  <2>7. Nested(S, pt)'
    BY <1>6, <2>5, <2>6 DEF Nested
  <2>8. ~Growing' /\ ~Storing' /\ ~Adding'
    BY <1>5 DEF Growing, Storing, Adding, Flushing
  <2>9. Walked(S, pt)'
    BY <1>2, <1>5, <2>2, <2>7, <2>8 DEF Walked
  <2>10. Pathed(Clear, fat, Seen, S, pt)'
    BY <1>2, <2>2, <2>8 DEF Pathed, Seen, Clear, Free
  <2>11. QED
    BY <2>9, <2>10
<1>10. QED
  BY <1>7, <1>8, <1>9 DEF PathInv

LEMMA DecidePaths ==
  ASSUME Known, Decide
  PROVE  PathInv'
<1>1. CASE MkdirRefused \/ TouchRefused \/ WriteRefused \/ WriteNewNoRoom \/ RemoveRefused
  <2>1. /\ pc = "walk" /\ pc' = "idle" /\ loc' = NoLocals
        /\ UNCHANGED <<ready, fat, cwd, cwdPath, super, diskFat, block>>
    BY <1>1 DEF MkdirRefused, TouchRefused, WriteRefused, WriteNewNoRoom, RemoveRefused, Arrived, Running,
                GiveUp, Return, disk, memory
  <2>2. QED
    BY <2>1, RefusedPaths
<1>2. QED
  BY <1>1, MkdirPaths, TouchPaths, WriteOverPaths, WriteOverNoRoomPaths, WriteNewPaths,
     RmPaths, RmdirEmptyPaths, RmdirAllPaths DEF Decide

-------------------------------------------------------------------------------
\* Removing the contents of a directory.

\* A step of fs_remove_dir_contents that may only take links and entries away.
LEMMA ScanPaths ==
  ASSUME Known, pc = "scan", pc' \in {"scan", "halted"},
         UNCHANGED <<super, diskFat, ready, cwd, cwdPath, loc>>,
         \A c \in Clusters : fat'[c] \in Clusters => fat'[c] = fat[c],
         \A q \in Clusters \X Slots :
           /\ At(block', q).name \in {Empty, At(block, q).name}
           /\ IsProper(At(block', q)) /\ At(block', q).type = "dir" => At(block', q) = At(block, q),
         ASSUME NEW S, NEW pt, Free(Strays)', Named(fat, block, S, pt), Nested(S, pt)
         PROVE  Nested(S, pt)',
         NestingFits => RecursionFits'
  PROVE  PathInv'
<1>1. /\ fat \in Fats /\ fat' \in Fats /\ diskFat \in Fats
      /\ ~Growing /\ ~Growing' /\ ~Storing /\ ~Storing' /\ ~Adding' /\ ~Exposed /\ pc' # "walk"
  BY DEF Known, Given, TypeInv, TypeOK, Growing, Storing, Adding, Flushing, Exposed, Running
<1>2. LengthInv'
  BY DEF LengthInv, Known, PathInv
<1>3. PICK f, g, k, b, b2, u, v : f = fat /\ g = fat' /\ k = diskFat /\ b = block /\ b2 = block' /\ u = Clear /\ v = Clear'
  OBVIOUS
<1>4. v => u
  BY <1>3, ClearBefore DEF Known, Given
<1>5. ASSUME NEW S, S \subseteq Clusters
      PROVE  Thinner(f, b, g, b2, S) /\ Thinner(k, b, k, b2, S)
  <2>1. \A q \in S \X Slots : q \in Clusters \X Slots
    BY <1>5
  <2>2. \A q \in S \X Slots :
           /\ At(b2, q).name \in {Empty, At(b, q).name}
           /\ IsProper(At(b2, q)) /\ At(b2, q).type = "dir" => At(b2, q) = At(b, q)
    BY <1>3, <2>1
  <2>3. \A c \in S : g[c] \in Clusters => g[c] = f[c]
    BY <1>3, <1>5
  <2>4. QED
    BY <2>2, <2>3 DEF Thinner
<1>6. MemPaths'
  <2>1. SUFFICES ASSUME Free(Strays)' PROVE \E S, pt : (Pathed(Clear, fat, Seen, S, pt) /\ Walked(S, pt))'
    BY DEF MemPaths
  <2>2. PICK S, pt : Pathed(Clear, fat, Seen, S, pt) /\ Walked(S, pt)
    BY <2>1, PathsNow
  <2>3. Pathed(u, f, b, S, pt) /\ S \subseteq Clusters /\ Closed(f, b, S)
    BY <1>1, <1>3, <2>2 DEF Seen, Pathed, Named, Closed
  <2>4. Pathed(v, g, b2, S, pt)
    <3>1. f \in Fats /\ g \in Fats /\ S \in SUBSET S
      BY <1>1, <1>3
    <3>2. Thinner(f, b, g, b2, S)
      BY <1>5, <2>3
    <3>3. QED
      BY <1>4, <2>3, <3>1, <3>2, FewerPaths
  <2>5. Pathed(Clear, fat, Seen, S, pt)'
    BY <1>1, <1>3, <2>4 DEF Seen
  <2>6. Nested(S, pt)'
    <3>1. Named(fat, block, S, pt) /\ Nested(S, pt)
      BY <1>3, <2>2, <2>3 DEF Pathed, Walked
    <3>2. QED
      BY <2>1, <3>1
  <2>7. Walked(S, pt)'
    BY <1>1, <2>2, <2>6 DEF Walked
  <2>8. QED
    BY <2>5, <2>7
<1>7. DiskPaths'
  <2>1. SUFFICES ASSUME super', Free(Strays)' PROVE \E S, pt : Pathed(Clear, diskFat, block, S, pt)'
    BY DEF DiskPaths
  <2>2. Free(Strays)
    BY <2>1, FreeBefore DEF Known, Given
  <2>3. PICK S, pt : Pathed(Clear, diskFat, block, S, pt)
    BY <1>1, <2>1, <2>2 DEF Known, PathInv, DiskPaths
  <2>4. Pathed(u, k, b, S, pt) /\ S \subseteq Clusters /\ Closed(k, b, S)
    BY <1>3, <2>3 DEF Pathed, Named, Closed
  <2>5. Pathed(v, k, b2, S, pt)
    <3>1. k \in Fats /\ S \in SUBSET S
      BY <1>1, <1>3
    <3>2. Thinner(k, b, k, b2, S)
      BY <1>5, <2>4
    <3>3. QED
      BY <1>4, <2>4, <3>1, <3>2, FewerPaths
  <2>6. Pathed(Clear, diskFat, block, S, pt)'
    BY <1>3, <2>5
  <2>7. QED
    BY <2>6
<1>8. QED
  BY <1>2, <1>6, <1>7 DEF PathInv

\* The subdirectory that an activation has come to.
LEMMA DueDir ==
  ASSUME Known, Free(Strays)', Scanning, Pending(Top) # {}, ScanEntry.type = "dir",
         NEW S, NEW pt, Named(fat, block, S, pt), Nested(S, pt)
  PROVE  /\ ScanEntry.first \in S /\ Len(pt[ScanEntry.first]) \in Nat
         /\ Len(pt[ScanEntry.first]) >= Len(frames) /\ Len(frames) <= MaxDepth + 1
<1>1. /\ TypeOK /\ Len(frames) \in Nat \ {0} /\ Top = frames[1] /\ Top \in Frames
  BY ScanNow DEF Known
<1>2. PICK E, D, F, dp : ScanPhase(E, D, F, dp)
  BY ScanNow DEF Known
<1>3. PICK t, i, e : t = frames[1] /\ i = Least(Pending(t)) /\ e = t.buf[i]
  OBVIOUS
<1>4. Tree(fat, E, D, F, dp)
  BY <1>1, <1>2, ScanFacts
<1>5. Working(t, HeadOf(1), fat, block, E, D) /\ t.dir \in D /\ E[t.dir] = t.buf
  BY <1>1, <1>2, <1>3, ScanFacts
<1>6. i \in Slots /\ IsProper(e)
  BY <1>1, <1>3, <1>4, <1>5, PendingPlace
<1>7. e = block[t.dir][i]
  <2>1. t.buf[i] = block[t.dir][i] \/ t.buf[i] = Zeroed
    BY <1>5, <1>6 DEF Working
  <2>2. QED
    BY <1>3, <1>6, <2>1 DEF IsProper, Zeroed
<1>8. t.dir \in S /\ Len(pt[t.dir]) >= Len(frames) - 1
  BY <1>1, <1>3 DEF Nested
<1>9. PICK p : p = <<t.dir, i>>
  OBVIOUS
<1>10. p \in Proper(block, S) /\ At(block, p) = e
  BY <1>6, <1>7, <1>8, <1>9 DEF Proper, At
<1>11. e = ScanEntry /\ e.type = "dir"
  BY <1>1, <1>3 DEF ScanEntry
<1>12. e.first \in S /\ pt[e.first] = Append(pt[t.dir], e.name) /\ Len(pt[t.dir]) <= MaxDepth
  BY <1>9, <1>10, <1>11 DEF Named, Closed
<1>13. pt[t.dir] \in Labels
  BY <1>8 DEF Named, Closed
<1>14. PICK s, n : s = pt[t.dir] /\ n = Len(frames)
  OBVIOUS
<1>15. Len(pt[e.first]) = Len(s) + 1 /\ Len(s) \in Nat
  BY <1>12, <1>13, <1>14 DEF Labels
<1>16. n \in Nat /\ Len(s) >= n - 1 /\ Len(s) <= MaxDepth /\ MaxDepth \in Nat
  BY <1>1, <1>8, <1>12, <1>14, FsAssumption
<1>17. QED
  BY <1>11, <1>12, <1>14, <1>15, <1>16

LEMMA ClearedDir ==
  ASSUME NEW t \in Frames
  PROVE  Cleared(t).dir = t.dir
BY DEF Cleared, Frames

\* A step that leaves the clusters as they are, too.
LEMMA ScanOn ==
  ASSUME Known, pc = "scan", pc' = "scan",
         UNCHANGED <<super, diskFat, block, ready, cwd, cwdPath, loc>>,
         \A c \in Clusters : fat'[c] \in Clusters => fat'[c] = fat[c],
         ASSUME NEW S, NEW pt, Free(Strays)', Named(fat, block, S, pt), Nested(S, pt)
         PROVE  Nested(S, pt)'
  PROVE  PathInv'
<1>1. \A q \in Clusters \X Slots :
           /\ At(block', q).name \in {Empty, At(block, q).name}
           /\ IsProper(At(block', q)) /\ At(block', q).type = "dir" => At(block', q) = At(block, q)
  OBVIOUS
<1>2. NestingFits => RecursionFits'
  BY DEF RecursionFits
<1>3. ASSUME NEW S, NEW pt, Free(Strays)', Named(fat, block, S, pt), Nested(S, pt)
      PROVE  Nested(S, pt)'
  BY <1>3
<1>4. pc' \in {"scan", "halted"}
  OBVIOUS
<1>5. QED
  BY <1>1, <1>2, <1>3, <1>4, ScanPaths

LEMMA ScanFilePaths ==
  ASSUME Known, ScanFile
  PROVE  PathInv'
<1>1. /\ Scanning /\ Pending(Top) # {}
      /\ fat' = FreeChain(fat, ScanEntry.first)
      /\ frames' = <<Cleared(Top)>> \o Tail(frames)
      /\ UNCHANGED <<super, diskFat, block, ready, cwd, cwdPath, pc, loc>>
  BY DEF ScanFile, disk
<1>2. \A c \in Clusters : fat'[c] \in Clusters => fat'[c] = fat[c]
  BY <1>1, ReleasedLinks
<1>3. ASSUME NEW S, NEW pt, Free(Strays)', Named(fat, block, S, pt), Nested(S, pt)
      PROVE  Nested(S, pt)'
  <2>1. /\ frames \in Seq(Frames) /\ frames # <<>>
        /\ Len(frames) \in Nat \ {0} /\ Top = frames[1] /\ Top \in Frames
    BY <1>1, <1>3, ScanNow DEF Known
  <2>2. PICK n, t, u : n = Len(frames) /\ t = frames[1] /\ u = Cleared(t)
    OBVIOUS
  <2>3. /\ Len(frames') = n /\ frames'[1] = u /\ \A k \in 2..n : frames'[k] = frames[k]
    <3>1. frames' = <<u>> \o Tail(frames)
      BY <1>1, <2>1, <2>2
    <3>2. QED
      BY <2>1, <2>2, <3>1, Replaced
  <2>4. u.dir = t.dir
    BY <2>1, <2>2, ClearedDir
  <2>5. \A k \in 1..n : frames'[k].dir = frames[k].dir
    <3>1. \A k \in 1..n : k = 1 \/ k \in 2..n
      BY <2>1, <2>2
    <3>2. QED
      BY <2>2, <2>3, <2>4, <3>1
  <2>6. QED
    BY <1>3, <2>2, <2>3, <2>5 DEF Nested
<1>4. pc = "scan" /\ pc' = "scan"
  BY <1>1 DEF Scanning
<1>5. QED
  BY <1>1, <1>2, <1>3, <1>4, ScanOn

LEMMA ScanDirPaths ==
  ASSUME Known, ScanDir
  PROVE  PathInv'
<1>1. /\ Scanning /\ Pending(Top) # {} /\ ScanEntry.type = "dir"
      /\ frames' = <<Frame(ScanEntry.first)>> \o frames
      /\ UNCHANGED <<super, diskFat, block, ready, fat, cwd, cwdPath, pc, loc>>
  BY DEF ScanDir, disk, memory
<1>2. ASSUME NEW S, NEW pt, Free(Strays)', Named(fat, block, S, pt), Nested(S, pt)
      PROVE  Nested(S, pt)'
  <2>1. frames \in Seq(Frames)
    BY <1>1, <1>2, ScanNow DEF Known
  <2>2. PICK n, x, u : n = Len(frames) /\ x = ScanEntry.first /\ u = Frame(x)
    OBVIOUS
  <2>3. x \in S /\ Len(pt[x]) \in Nat /\ Len(pt[x]) >= n
    BY <1>1, <1>2, <2>2, DueDir
  <2>4. Len(frames') = n + 1 /\ n \in Nat /\ frames'[1] = u /\ \A i \in 1..n : frames'[i + 1] = frames[i]
    <3>1. frames' = <<u>> \o frames
      BY <1>1, <2>2
    <3>2. QED
      BY <2>1, <2>2, <3>1, Pushed
  <2>5. u.dir = x
    BY <2>2 DEF Frame
  <2>6. ASSUME NEW i \in 1..(n + 1)
        PROVE  frames'[i].dir \in S /\ Len(pt[frames'[i].dir]) >= (n + 1) - i
    <3>1. CASE i = 1
      BY <2>3, <2>4, <2>5, <3>1
    <3>2. CASE i # 1
      <4>1. PICK j \in 1..n : i = j + 1
        <5>1. i - 1 \in 1..n /\ i = (i - 1) + 1
          BY <2>4, <2>6, <3>2
        <5>2. QED
          BY <5>1
      <4>2. frames'[i] = frames[j]
        BY <2>4, <4>1
      <4>3. frames[j].dir \in S /\ Len(pt[frames[j].dir]) >= n - j
        BY <1>2, <2>2 DEF Nested
      <4>4. (n + 1) - i = n - j
        BY <2>4, <4>1
      <4>5. QED
        BY <4>2, <4>3, <4>4
    <3>3. QED
      BY <3>1, <3>2
  <2>7. QED
    BY <2>4, <2>6 DEF Nested
<1>3. pc = "scan" /\ pc' = "scan"
  BY <1>1 DEF Scanning
<1>4. \A c \in Clusters : fat'[c] \in Clusters => fat'[c] = fat[c]
  BY <1>1
<1>5. QED
  BY <1>1, <1>2, <1>3, <1>4, ScanOn

LEMMA ScanNextPaths ==
  ASSUME Known, ScanNextCluster
  PROVE  PathInv'
<1>1. /\ Scanning /\ fat[Top.dir] \in Clusters
      /\ frames' = <<Frame(fat[Top.dir])>> \o Tail(frames)
      /\ UNCHANGED <<super, diskFat, block, ready, fat, cwd, cwdPath, pc, loc>>
  BY DEF ScanNextCluster, disk, memory
<1>2. ASSUME NEW S, NEW pt, Free(Strays)', Named(fat, block, S, pt), Nested(S, pt)
      PROVE  Nested(S, pt)'
  <2>1. /\ frames \in Seq(Frames) /\ frames # <<>>
        /\ Len(frames) \in Nat \ {0} /\ Top = frames[1] /\ Top \in Frames
    BY <1>1, <1>2, ScanNow DEF Known
  <2>2. PICK n, t, x, u : n = Len(frames) /\ t = frames[1] /\ x = fat[t.dir] /\ u = Frame(x)
    OBVIOUS
  <2>3. t.dir \in S /\ x \in Clusters
    BY <1>1, <1>2, <2>1, <2>2 DEF Nested
  <2>4. x \in S /\ pt[x] = pt[t.dir]
    BY <1>2, <2>2, <2>3 DEF Named, Closed, ClosedUnderLinks
  <2>5. /\ Len(frames') = n /\ frames'[1] = u /\ \A k \in 2..n : frames'[k] = frames[k]
    <3>1. frames' = <<u>> \o Tail(frames)
      BY <1>1, <2>1, <2>2
    <3>2. QED
      BY <2>1, <2>2, <3>1, Replaced
  <2>6. u.dir = x
    BY <2>2 DEF Frame
  <2>7. ASSUME NEW i \in 1..n
        PROVE  frames'[i].dir \in S /\ Len(pt[frames'[i].dir]) >= n - i
    <3>1. frames[i].dir \in S /\ Len(pt[frames[i].dir]) >= n - i
      BY <1>2, <2>2 DEF Nested
    <3>2. i = 1 \/ i \in 2..n
      BY <2>1, <2>2
    <3>3. QED
      BY <2>2, <2>4, <2>5, <2>6, <3>1, <3>2
  <2>8. QED
    BY <2>5, <2>7 DEF Nested
<1>3. pc = "scan" /\ pc' = "scan"
  BY <1>1 DEF Scanning
<1>4. \A c \in Clusters : fat'[c] \in Clusters => fat'[c] = fat[c]
  BY <1>1
<1>5. QED
  BY <1>1, <1>2, <1>3, <1>4, ScanOn

LEMMA ScanReturnPaths ==
  ASSUME Known, ScanReturn
  PROVE  PathInv'
<1>1. /\ Scanning /\ Len(frames) > 1
      /\ UNCHANGED <<super, diskFat, block, ready, cwd, cwdPath, pc, loc>>
  BY DEF ScanReturn, ScanDone, disk
<1>2. PICK y : fat' = FreeChain(fat, y)
  BY DEF ScanReturn
<1>3. \A c \in Clusters : fat'[c] \in Clusters => fat'[c] = fat[c]
  BY <1>2, ReleasedLinks
<1>4. ASSUME NEW S, NEW pt, Free(Strays)', Named(fat, block, S, pt), Nested(S, pt)
      PROVE  Nested(S, pt)'
  <2>1. frames \in Seq(Frames) /\ Len(frames) \in Nat \ {0}
    BY <1>1, <1>4, ScanNow DEF Known
  <2>2. PICK n, s, a, u : n = Len(frames) /\ s = Tail(frames) /\ a = frames[2] /\ u = Cleared(a)
    OBVIOUS
  <2>3. Head(s) = a
    BY <1>1, <2>1, <2>2, SecondOf
  <2>4. s \in Seq(Frames) /\ Len(s) = n - 1 /\ n \in Nat /\ n > 1 /\ s # <<>>
        /\ \A k \in 1..(n - 1) : s[k] = frames[k + 1]
    BY <1>1, <2>1, <2>2
  <2>5. a \in Frames /\ s[1] = a
    BY <2>2, <2>4
  <2>6. frames' = <<u>> \o Tail(s)
    BY <2>2, <2>3 DEF ScanReturn
  <2>7. Len(frames') = n - 1 /\ frames'[1] = u /\ \A k \in 2..(n - 1) : frames'[k] = s[k]
    BY <2>4, <2>6, Replaced
  <2>8. u.dir = a.dir
    BY <2>2, <2>5, ClearedDir
  <2>9. ASSUME NEW i \in 1..(n - 1)
        PROVE  frames'[i].dir \in S /\ Len(pt[frames'[i].dir]) >= (n - 1) - i
    <3>1. PICK j : j = i + 1
      OBVIOUS
    <3>2. j \in 1..n /\ n - j = (n - 1) - i
      BY <2>4, <3>1
    <3>3. frames[j].dir \in S /\ Len(pt[frames[j].dir]) >= n - j
      BY <1>4, <2>2, <3>2 DEF Nested
    <3>4. i = 1 \/ i \in 2..(n - 1)
      BY <2>4
    <3>5. frames'[i].dir = frames[j].dir
      <4>1. s[i] = frames[j]
        BY <2>4, <3>1
      <4>2. CASE i = 1
        BY <2>5, <2>7, <2>8, <4>1, <4>2
      <4>3. CASE i \in 2..(n - 1)
        BY <2>7, <4>1, <4>3
      <4>4. QED
        BY <3>4, <4>2, <4>3
    <3>6. QED
      BY <3>2, <3>3, <3>5
  <2>10. QED
    BY <2>7, <2>9 DEF Nested
<1>5. pc = "scan" /\ pc' = "scan"
  BY <1>1 DEF Scanning
<1>6. QED
  BY <1>1, <1>3, <1>4, <1>5, ScanOn

\* An operation that has ended keeps no path of its own.
LEMMA EndedLength ==
  ASSUME LengthInv, loc' = NoLocals, cwdPath' = cwdPath
  PROVE  LengthInv'
<1>1. NoLocals.path = <<>>
  BY DEF NoLocals
<1>2. Len(<<>>) <= MaxDepth
  BY FsAssumption
<1>3. QED
  BY <1>1, <1>2 DEF LengthInv

\* An operation that has spoilt the tree.
LEMMA SpoiltPaths ==
  ASSUME Known, loc' = NoLocals, cwdPath' = cwdPath, ~Free(Strays)'
  PROVE  PathInv'
BY EndedLength, PathsStrayed DEF Known, PathInv

LEMMA ScanFailsPaths ==
  ASSUME Known, ScanFails
  PROVE  PathInv'
<1>1. loc' = NoLocals /\ cwdPath' = cwdPath /\ "dangling" \in marks'
  BY DEF ScanFails, GiveUp, Return, memory
<1>2. ~Free(Strays)'
  BY <1>1 DEF Free, Strays, Breaks
<1>3. QED
  BY <1>1, <1>2, SpoiltPaths

LEMMA ScanOverrunPaths ==
  ASSUME Known, ScanOverrun
  PROVE  PathInv'
<1>1. /\ Scanning /\ Pending(Top) # {} /\ ScanEntry.type = "dir" /\ Len(frames) >= MaxNesting
      /\ pc = "scan" /\ pc' = "halted"
      /\ UNCHANGED <<super, diskFat, block, ready, fat, cwd, cwdPath, loc, frames>>
  BY DEF ScanOverrun, Scanning, disk, memory
<1>2. ASSUME NEW S, NEW pt, Free(Strays)', Named(fat, block, S, pt), Nested(S, pt)
      PROVE  Nested(S, pt)'
  BY <1>1, <1>2 DEF Nested
<1>3. ASSUME NestingFits, Free(Strays)' PROVE FALSE
  <2>1. PICK S, pt : Pathed(Clear, fat, Seen, S, pt) /\ Walked(S, pt)
    BY <1>1, <1>3, PathsNow
  <2>2. ~Growing /\ ~Storing
    BY <1>1 DEF Growing, Storing, Flushing
  <2>3. Named(fat, block, S, pt) /\ Nested(S, pt)
    BY <1>1, <2>1, <2>2 DEF Pathed, Seen, Walked
  <2>4. Len(frames) <= MaxDepth + 1
    BY <1>1, <1>3, <2>3, DueDir
  <2>5. Len(frames) \in Nat
    BY <1>1, <1>3, ScanNow DEF Known
  <2>6. QED
    BY <1>1, <1>3, <2>4, <2>5, FsAssumption DEF NestingFits
<1>4. NestingFits => RecursionFits'
  BY <1>3 DEF RecursionFits
<1>5. \A q \in Clusters \X Slots :
           /\ At(block', q).name \in {Empty, At(block, q).name}
           /\ IsProper(At(block', q)) /\ At(block', q).type = "dir" => At(block', q) = At(block, q)
  BY <1>1
<1>6. \A c \in Clusters : fat'[c] \in Clusters => fat'[c] = fat[c]
  BY <1>1
<1>7. QED
  BY <1>1, <1>2, <1>4, <1>5, <1>6, ScanPaths

LEMMA ScanWritePaths ==
  ASSUME Known, ScanWrite
  PROVE  PathInv'
<1>1. PICK w \in Writes :
        /\ WriteBlock(Top.dir, Top.buf, w)
        /\ IF w = "done"
           THEN /\ frames' = <<[Top EXCEPT !.dirty = FALSE]>> \o Tail(frames)
                /\ UNCHANGED <<pc, loc, ret, marks>>
           ELSE frames' = <<>> /\ GiveUp({"dangling"})
  BY DEF ScanWrite
<1>2. cwdPath' = cwdPath
  BY DEF ScanWrite, memory
<1>3. CASE w # "done"
  <2>1. loc' = NoLocals /\ "dangling" \in marks'
    BY <1>1, <1>3 DEF GiveUp, Return
  <2>2. ~Free(Strays)'
    BY <2>1 DEF Free, Strays, Breaks
  <2>3. QED
    BY <1>2, <2>1, <2>2, SpoiltPaths
<1>4. CASE w = "done"
  <2>1. /\ Scanning
        /\ frames' = <<[Top EXCEPT !.dirty = FALSE]>> \o Tail(frames)
        /\ block' = [block EXCEPT ![Top.dir] = Top.buf]
        /\ UNCHANGED <<super, diskFat, ready, fat, cwd, cwdPath, pc, loc>>
    BY <1>1, <1>4 DEF ScanWrite, memory, WriteBlock
  <2>2. CASE ~Free(Strays)'
    <3>1. LengthInv'
      BY <2>1 DEF Known, PathInv, LengthInv
    <3>2. QED
      BY <2>2, <3>1, PathsStrayed
  <2>3. CASE Free(Strays)'
    <3>1. /\ block \in [Clusters -> Blocks] /\ frames \in Seq(Frames) /\ frames # <<>> /\ TypeOK
          /\ Len(frames) \in Nat \ {0} /\ Top = frames[1] /\ Top \in Frames
      BY <2>1, <2>3, ScanNow DEF Known
    <3>2. PICK E, D, F, dp : ScanPhase(E, D, F, dp)
      BY <2>1, <2>3, ScanNow DEF Known
    <3>3. PICK n, t, u : n = Len(frames) /\ t = frames[1] /\ u = [t EXCEPT !.dirty = FALSE]
      OBVIOUS
    <3>4. Working(t, HeadOf(1), fat, block, E, D) /\ t.dir \in Clusters
      <4>1. 1 \in 1..Len(frames)
        BY <3>1
      <4>2. Working(frames[1], HeadOf(1), fat, block, E, D) /\ frames[1].dir \in D /\ D \subseteq Clusters
        BY <3>1, <3>2, <4>1, ScanFacts
      <4>3. QED
        BY <3>3, <4>2
    <3>5. u.dir = t.dir
      BY <3>1, <3>3 DEF Frames
    <3>6. Len(frames') = n /\ frames'[1] = u /\ \A k \in 2..n : frames'[k] = frames[k]
      <4>1. frames' = <<u>> \o Tail(frames)
        BY <2>1, <3>1, <3>3
      <4>2. QED
        BY <3>1, <3>3, <4>1, Replaced
    <3>7. \A k \in 1..n : frames'[k].dir = frames[k].dir
      <4>1. \A k \in 1..n : k = 1 \/ k \in 2..n
        BY <3>1, <3>3
      <4>2. QED
        BY <3>3, <3>5, <3>6, <4>1
    <3>8. ASSUME NEW S, NEW pt, Free(Strays)', Named(fat, block, S, pt), Nested(S, pt)
          PROVE  Nested(S, pt)'
      BY <3>3, <3>6, <3>7, <3>8 DEF Nested
    <3>9. block'[t.dir] = t.buf /\ \A c \in Clusters : c # t.dir => block'[c] = block[c]
      <4>1. block' = [block EXCEPT ![t.dir] = t.buf]
        BY <2>1, <3>1, <3>3
      <4>2. QED
        BY <3>1, <3>4, <4>1
    <3>10. ASSUME NEW q \in Clusters \X Slots
           PROVE  /\ At(block', q).name \in {Empty, At(block, q).name}
                  /\ IsProper(At(block', q)) /\ At(block', q).type = "dir" => At(block', q) = At(block, q)
      <4>1. PICK c \in Clusters, j \in Slots : q = <<c, j>>
        OBVIOUS
      <4>2. At(block', q) = block'[c][j] /\ At(block, q) = block[c][j]
        BY <4>1 DEF At
      <4>3. At(block', q) = At(block, q) \/ At(block', q) = Zeroed
        <5>1. CASE c = t.dir
          BY <3>4, <3>9, <4>1, <4>2, <5>1 DEF Working
        <5>2. CASE c # t.dir
          BY <3>9, <4>2, <5>2
        <5>3. QED
          BY <5>1, <5>2
      <4>4. Zeroed.name = Empty /\ ~IsProper(Zeroed)
        BY DEF IsProper, Zeroed
      <4>5. QED
        BY <4>3, <4>4
    <3>11. NestingFits => RecursionFits'
      BY <2>1 DEF RecursionFits, Scanning
    <3>12. pc = "scan" /\ pc' \in {"scan", "halted"} /\ UNCHANGED <<super, diskFat, ready, cwd, cwdPath, loc>>
      BY <2>1 DEF Scanning
    <3>13. \A c \in Clusters : fat'[c] \in Clusters => fat'[c] = fat[c]
      BY <2>1
    <3>14. QED
      BY <3>8, <3>10, <3>11, <3>12, <3>13, ScanPaths
  <2>4. QED
    BY <2>2, <2>3
<1>5. QED
  BY <1>3, <1>4

LEMMA ScanFinishPaths ==
  ASSUME Known, ScanFinish
  PROVE  PathInv'
<1>1. pc = "scan" /\ Unlink(loc, loc.entry.first) /\ UNCHANGED <<super, diskFat, block, ready, cwd, cwdPath>>
  BY DEF ScanFinish, ScanDone, Scanning, disk
<1>2. /\ loc \in Locals /\ fat \in Fats /\ fat' \in Fats /\ block \in [Clusters -> Blocks]
  BY DEF Known, Given, TypeInv, TypeOK
<1>3. fat' = FreeChain(fat, loc.entry.first) /\ pc' = "setEntry" /\ loc' = [loc EXCEPT !.entry = Zeroed]
  BY <1>1 DEF Unlink, Goto
<1>4. PICK p, e : p = loc.at /\ e = Zeroed
  OBVIOUS
<1>5. p \in Clusters \X Slots /\ e \in Entries /\ e.name = Empty /\ ~IsProper(e)
  <2>1. p \in Clusters \X Slots
    BY <1>2, <1>4 DEF Locals
  <2>2. QED
    BY <1>4, <2>1, FsAssumption DEF Zeroed, Entries, IsProper
<1>6. loc'.at = p /\ loc'.entry = e /\ loc'.path = loc.path
  BY <1>2, <1>3, <1>4 DEF Locals
<1>7. LengthInv' /\ RecursionFits'
  BY <1>1, <1>3, <1>6 DEF LengthInv, Known, PathInv, RecursionFits
<1>8. DiskPaths'
  BY <1>1, DiskSame DEF Exposed, Flushing, Running
<1>9. MemPaths'
  <2>1. SUFFICES ASSUME Free(Strays)' PROVE \E S, pt : (Pathed(Clear, fat, Seen, S, pt) /\ Walked(S, pt))'
    BY DEF MemPaths
  <2>2. PICK f, g, b, b2, u, v : f = fat /\ g = fat' /\ b = block /\ b2 = With(block, p, e) /\ u = Clear /\ v = Clear'
    OBVIOUS
  <2>3. ~Growing /\ ~Storing /\ Storing' /\ ~Growing' /\ ~Adding' /\ pc' # "walk" /\ pc' # "scan"
    BY <1>1, <1>3 DEF Growing, Storing, Adding, Flushing
  <2>4. PICK S, pt : Pathed(Clear, fat, Seen, S, pt) /\ Walked(S, pt)
    BY <1>1, <2>1, PathsNow
  <2>5. Pathed(u, f, b, S, pt) /\ S \subseteq Clusters /\ Closed(f, b, S)
    BY <2>2, <2>3, <2>4 DEF Seen, Pathed, Named, Closed
  <2>6. Thinner(f, b, g, b2, S)
    <3>1. At(b2, p) = e /\ \A q \in Clusters \X Slots : q # p => At(b2, q) = At(b, q)
      BY <1>2, <1>5, <2>2, WithAt
    <3>2. \A q \in S \X Slots : q \in Clusters \X Slots
      BY <2>5
    <3>3. ASSUME NEW q \in S \X Slots
          PROVE  /\ At(b2, q).name \in {Empty, At(b, q).name}
                 /\ IsProper(At(b2, q)) /\ At(b2, q).type = "dir" => At(b2, q) = At(b, q)
      BY <1>5, <3>1, <3>2
    <3>4. \A c \in S : g[c] \in Clusters => g[c] = f[c]
      BY <1>3, <2>2, <2>5, ReleasedLinks
    <3>5. QED
      BY <3>3, <3>4 DEF Thinner
  <2>7. v => u
    BY <2>2, ClearBefore DEF Known, Given
  <2>8. Pathed(v, g, b2, S, pt)
    <3>1. f \in Fats /\ g \in Fats /\ S \in SUBSET S
      BY <1>2, <2>2
    <3>2. QED
      BY <2>5, <2>6, <2>7, <3>1, FewerPaths
  <2>9. Pathed(Clear, fat, Seen, S, pt)'
    BY <1>1, <1>6, <2>2, <2>3, <2>8 DEF Seen
  <2>10. Walked(S, pt)'
    BY <1>1, <2>3, <2>4 DEF Walked
  <2>11. QED
    BY <2>9, <2>10
<1>10. QED
  BY <1>7, <1>8, <1>9 DEF PathInv

LEMMA ScanGroupPaths ==
  ASSUME Known, Scan
  PROVE  PathInv'
BY ScanFilePaths, ScanDirPaths, ScanOverrunPaths, ScanFailsPaths, ScanWritePaths, ScanNextPaths,
   ScanReturnPaths, ScanFinishPaths DEF Scan

-------------------------------------------------------------------------------
\* The writes.

\* What the writes do with the paths that the program keeps.
LEMMA StoreLength ==
  ASSUME Known, Store
  PROVE  LengthInv' /\ RecursionFits' /\ cwdPath' = cwdPath
<1>1. loc \in Locals /\ cwdPath' = cwdPath /\ LengthInv
  BY DEF Known, PathInv, Given, TypeInv, TypeOK, Store, WriteData, Flush, InitDir, AddEntry, AddEntryExtend,
         AddEntryFails, AddCluster, SetEntry, memory
<1>2. loc' = NoLocals \/ loc'.path = loc.path
  <2>1. CASE WriteData
    BY <1>1, <2>1 DEF WriteData, GiveUp, Return, Goto, StartFlush, Locals
  <2>2. CASE Flush
    <3>1. loc' = NoLocals \/ loc' = loc \/ loc' = [loc EXCEPT !.k = @ + 1]
      BY <2>2 DEF Flush, GiveUp, Return, Goto
    <3>2. QED
      BY <1>1, <3>1 DEF Locals
  <2>3. CASE InitDir \/ AddEntry \/ AddEntryFails \/ AddCluster
    BY <2>3 DEF InitDir, AddEntry, AddEntryFails, AddCluster, GiveUp, Return, Goto
  <2>4. CASE AddEntryExtend
    BY <1>1, <2>4 DEF AddEntryExtend, Goto, StartFlush, Locals
  <2>5. CASE SetEntry
    BY <1>1, <2>5 DEF SetEntry, GiveUp, Return, Goto, StartFlush, Locals
  <2>6. QED
    BY <2>1, <2>2, <2>3, <2>4, <2>5 DEF Store
<1>3. LengthInv'
  <2>1. CASE loc' = NoLocals
    BY <1>1, <2>1, EndedLength
  <2>2. CASE loc'.path = loc.path
    BY <1>1, <2>2 DEF LengthInv
  <2>3. QED
    BY <1>2, <2>1, <2>2
<1>4. pc' # "halted"
  <2>1. TypeOK' /\ loc.then # "halted"
    BY <1>1 DEF Known, Given, TypeInv, Locals
  <2>2. CASE WriteData \/ InitDir \/ AddEntry \/ AddEntryFails \/ AddCluster \/ AddEntryExtend \/ SetEntry
    BY <2>2 DEF WriteData, InitDir, AddEntry, AddEntryFails, AddCluster, AddEntryExtend, SetEntry,
                GiveUp, Return, Goto, StartFlush
  <2>3. CASE Flush
    BY <2>1, <2>3 DEF Flush, GiveUp, Return, Goto
  <2>4. QED
    BY <2>2, <2>3 DEF Store
<1>5. QED
  BY <1>1, <1>3, <1>4 DEF RecursionFits

\* What is left to show of a write.
LEMMA WriteEnds ==
  ASSUME Known, Store, Free(Strays)' => MemPaths' /\ DiskPaths'
  PROVE  PathInv'
<1>1. LengthInv' /\ RecursionFits'
  BY StoreLength
<1>2. ~Free(Strays)' => PathInv'
  BY <1>1, PathsStrayed
<1>3. QED
  BY <1>1, <1>2 DEF PathInv

\* A write outside the directories leaves the paths as they are.
LEMMA OutsidePaths ==
  ASSUME Known, Free(Strays)', UNCHANGED <<fat, cwd, cwdPath>>,
         \/ pc \in {"data", "initDir", "addEntry", "addCluster", "setEntry"}
         \/ pc = "flush" /\ loc.then # "formatRoot",
         NEW D, NEW F, NEW dp, Tree(fat, Seen, D, F, dp), Reached(fat, Seen, D, F), cwd \in Heads(fat, D),
         \A c \in D : Seen'[c] = Seen[c],
         pc' # "walk", pc' # "scan",
         Adding' => /\ Adding /\ loc'.cur = loc.cur /\ loc'.entry = loc.entry /\ loc.cur \in D
                    /\ \A c \in D : block'[c] = block[c]
  PROVE  MemPaths'
<1>1. SUFFICES \E S, pt : (Pathed(Clear, fat, Seen, S, pt) /\ Walked(S, pt))'
  BY DEF MemPaths
<1>2. PICK S, pt : Pathed(Clear, fat, Seen, S, pt) /\ Walked(S, pt)
  BY PathsNow
<1>3. PICK f, b, b2, u, v : f = fat /\ b = Seen /\ b2 = Seen' /\ u = Clear /\ v = Clear'
  OBVIOUS
<1>4. f \in Fats /\ (v => u) /\ D \subseteq Clusters /\ Ground(f, D, F)
  BY <1>3, ClearBefore DEF Known, Given, TypeInv, TypeOK, Tree, Ground
<1>5. D \subseteq S
  BY <1>2, <1>3, <1>4, TreeWithin DEF Pathed, Named
<1>6. Closed(f, b, D)
  <2>1. S \cap D = D
    BY <1>5
  <2>2. Closed(f, b, S) /\ Tree(f, b, D, F, dp)
    BY <1>2, <1>3 DEF Pathed, Named
  <2>3. QED
    BY <1>4, <2>1, <2>2, TreeClosed
<1>7. Thinner(f, b, f, b2, D)
  <2>1. \A q \in D \X Slots : At(b2, q) = At(b, q)
    BY <1>3 DEF At
  <2>2. QED
    BY <2>1 DEF Thinner
<1>8. Pathed(v, f, b2, D, pt)
  <2>1. Pathed(u, f, b, S, pt) /\ D \in SUBSET S
    BY <1>2, <1>3, <1>5
  <2>2. QED
    BY <1>4, <1>6, <1>7, <2>1, FewerPaths
<1>9. Pathed(Clear, fat, Seen, D, pt)'
  BY <1>3, <1>8
<1>10. Walked(D, pt)'
  <2>1. cwd' \in D /\ pt[cwd'] = cwdPath'
    BY <1>2 DEF Walked, Heads
  <2>2. ASSUME Adding' PROVE Fitting(D, pt)'
    <3>1. Fitting(S, pt)
      BY <1>2, <2>2 DEF Walked
    <3>2. Chain(fat, loc.cur) \subseteq D
      BY <1>3, <1>4, <2>2, ChainGround
    <3>3. PICK d, e, C : d = loc.cur /\ e = loc.entry /\ C = Chain(fat, d)
      OBVIOUS
    <3>4. v => \A q \in C \X Slots : At(block', q).name # e.name
      <4>1. \A q \in C \X Slots : At(block', q) = At(block, q)
        BY <2>2, <3>2, <3>3 DEF At
      <4>2. QED
        BY <1>3, <1>4, <3>1, <3>3, <4>1 DEF Fitting
    <3>5. e.type = "dir" => Len(pt[d]) <= MaxDepth
      BY <3>1, <3>3 DEF Fitting
    <3>6. loc'.cur = d /\ loc'.entry = e /\ Chain(fat', d) = C /\ d \in D
      BY <2>2, <3>3
    <3>7. QED
      BY <1>3, <3>4, <3>5, <3>6 DEF Fitting
  <2>3. QED
    BY <2>1, <2>2 DEF Walked
<1>11. QED
  BY <1>9, <1>10

LEMMA OutsideOnDisk ==
  ASSUME Known, Free(Strays)', UNCHANGED <<super, diskFat>>, ~Exposed,
         NEW D, NEW F, NEW dp, Tree(diskFat, block, D, F, dp), \A c \in D : block'[c] = block[c]
  PROVE  DiskPaths'
<1>1. SUFFICES ASSUME super' PROVE \E S, pt : Pathed(Clear, diskFat, block, S, pt)'
  BY DEF DiskPaths
<1>2. super /\ Free(Strays) /\ (Clear' => Clear)
  BY <1>1, FreeBefore, ClearBefore DEF Known, Given
<1>3. PICK S, pt : Pathed(Clear, diskFat, block, S, pt)
  BY <1>2 DEF Known, PathInv, DiskPaths
<1>4. PICK f, b, b2, u, v, T : f = diskFat /\ b = block /\ b2 = block' /\ u = Clear /\ v = Clear' /\ T = S \cap D
  OBVIOUS
<1>5. f \in Fats /\ (v => u) /\ T \in SUBSET S /\ Pathed(u, f, b, S, pt)
  BY <1>2, <1>3, <1>4 DEF Known, Given, TypeInv, TypeOK
<1>6. Closed(f, b, T)
  BY <1>4, <1>5, TreeClosed DEF Pathed, Named
<1>7. Thinner(f, b, f, b2, T)
  <2>1. \A q \in T \X Slots : At(b2, q) = At(b, q)
    BY <1>4 DEF At
  <2>2. QED
    BY <2>1 DEF Thinner
<1>8. Pathed(v, f, b2, T, pt)
  BY <1>5, <1>6, <1>7, FewerPaths
<1>9. QED
  BY <1>4, <1>8

\* What an operation that is about to write has in view is a tree with the cwd.
LEMMA SeenShape ==
  ASSUME TypeOK, NEW D, NEW F, NEW dp, Phase(D, F, dp),
         \/ pc \in {"data", "initDir", "addEntry", "addCluster", "setEntry"}
         \/ pc = "flush" /\ loc.then # "formatRoot"
  PROVE  Shape(Seen, D, F, dp) /\ D \subseteq Clusters
<1>1. \/ Flushing("return") /\ ~Storing /\ ~Growing
      \/ Adding /\ ~Storing /\ ~Growing
      \/ Storing /\ ~Growing
      \/ Growing
  BY DEF Flushing, Adding, Storing, Growing, TypeOK, Locals
<1>2. Shape(Seen, D, F, dp)
  BY <1>1 DEF Phase, Still, Resting, AddPhase, StorePhase, GrowPhase, Seen
<1>3. QED
  BY <1>2 DEF Shape, Tree, Ground

LEMMA WriteDataPaths ==
  ASSUME Known, WriteData
  PROVE  PathInv'
<1>1. /\ pc = "data" /\ TypeOK /\ fat \in Fats /\ loc \in Locals /\ loc.req.op = "write" /\ ready'
      /\ UNCHANGED <<super, diskFat, ready, fat, cwd>>
      /\ \A c \in Clusters : c # loc.data => block'[c] = block[c]
  BY WriteDataSteps DEF Known
<1>2. \/ pc' = "idle" /\ (IF loc.found THEN {"dangling", "torn"} ELSE {"leak"}) \subseteq marks'
      \/ /\ marks' = marks /\ loc'.cur = loc.cur /\ loc'.found = loc.found
         /\ loc'.at = loc.at /\ loc'.entry = loc.entry
         /\ \/ pc' = "data" /\ fat[loc.data] \in Clusters /\ loc'.data = fat[loc.data]
            \/ pc' = "flush" /\ loc'.then = StoreStep(loc)
  BY WriteDataSteps DEF Known
<1>3. Store /\ cwdPath' = cwdPath
  BY DEF Store, WriteData, memory
<1>4. SUFFICES ASSUME Free(Strays)' PROVE MemPaths' /\ DiskPaths'
  BY <1>3, WriteEnds
<1>5. PICK D, F, dp : Phase(D, F, dp)
  BY <1>1, <1>4, TreeNow DEF Known
<1>6. PICK F0, dp0 : OnDisk(D, F0, dp0)
  BY <1>1, <1>5 DEF Phase
<1>7. Shape(Seen, D, F, dp) /\ D \subseteq Clusters
  BY <1>1, <1>5, SeenShape
<1>8. loc.data \notin D
  <2>1. CASE loc.found
    <3>1. StorePhase(D, F, dp)
      BY <1>1, <1>5, <2>1 DEF Phase, Storing
    <3>2. QED
      BY <1>1, <3>1 DEF StorePhase, Shape, Tree, Ground
  <2>2. CASE ~loc.found
    <3>1. AddPhase(D, F, dp)
      BY <1>1, <1>5, <2>2 DEF Phase, Adding
    <3>2. loc.data \in Chain(fat, loc.entry.first)
      BY <1>1, <3>1 DEF AddPhase, Arriving
    <3>3. loc.entry.first \in Clusters
      BY <3>2, NoChain
    <3>4. Apart(fat, D, F, loc.entry.first)
      BY <3>1, <3>3, ClusterFacts DEF AddPhase, Incoming, NoCluster, FREE
    <3>5. QED
      BY <3>2, <3>4 DEF Apart
  <2>3. QED
    BY <2>1, <2>2
<1>9. \A c \in D : block'[c] = block[c]
  BY <1>1, <1>7, <1>8
<1>10. pc' = "idle" => ~loc.found
  BY <1>2, <1>4 DEF Free, Strays, Breaks
<1>11. \/ ~loc.found /\ (pc' # "idle" => ~loc'.found) /\ ~Storing /\ ~Storing' /\ ~Growing /\ ~Growing'
       \/ loc.found /\ loc'.found /\ loc'.at = loc.at /\ loc'.entry = loc.entry
          /\ Storing /\ Storing' /\ ~Growing /\ ~Growing' /\ ~Adding'
  BY <1>1, <1>2, <1>10 DEF Storing, Growing, Adding, Flushing, StoreStep
<1>12. \A c \in D : Seen'[c] = Seen[c]
  <2>1. CASE ~Storing
    BY <1>9, <1>11, <2>1 DEF Seen
  <2>2. CASE Storing
    <3>1. PICK p, e, b, b2 : p = loc.at /\ e = loc.entry /\ b = block /\ b2 = block'
      OBVIOUS
    <3>2. Seen = With(b, p, e) /\ Seen' = With(b2, p, e)
      BY <1>11, <2>2, <3>1 DEF Seen
    <3>3. b \in [Clusters -> Blocks] /\ b2 \in [Clusters -> Blocks]
      BY <3>1 DEF Known, Given, TypeInv, TypeOK
    <3>4. \A c \in D : b2[c] = b[c]
      BY <1>9, <3>1
    <3>5. \A c \in D : With(b2, p, e)[c] = With(b, p, e)[c]
      BY <1>7, <3>3, <3>4 DEF With
    <3>6. QED
      BY <3>2, <3>5
  <2>3. QED
    BY <2>1, <2>2
<1>13. Adding' => Adding /\ loc'.cur = loc.cur /\ loc'.entry = loc.entry /\ loc.cur \in D
  <2>1. SUFFICES ASSUME Adding'
                 PROVE  Adding /\ loc'.cur = loc.cur /\ loc'.entry = loc.entry /\ loc.cur \in D
    OBVIOUS
  <2>2. pc' # "idle" /\ ~loc.found
    BY <1>11, <2>1 DEF Adding, Flushing
  <2>3. Adding
    BY <1>1, <2>2 DEF Adding
  <2>4. loc.cur \in D
    BY <1>5, <2>3 DEF Phase, AddPhase, Incoming, Heads
  <2>5. QED
    BY <1>2, <2>2, <2>3, <2>4
<1>14. pc' # "walk" /\ pc' # "scan"
  BY <1>2
<1>15. MemPaths'
  <2>1. Tree(fat, Seen, D, F, dp) /\ Reached(fat, Seen, D, F) /\ cwd \in Heads(fat, D)
    BY <1>7 DEF Shape
  <2>2. UNCHANGED <<fat, cwd, cwdPath>>
    BY <1>1, <1>3
  <2>3. pc \in {"data", "initDir", "addEntry", "addCluster", "setEntry"}
    BY <1>1
  <2>4. QED
    BY <1>4, <1>9, <1>12, <1>13, <1>14, <2>1, <2>2, <2>3, OutsidePaths
<1>16. DiskPaths'
  <2>1. CASE pc' = "data"
    <3>1. Tree(diskFat, block, D, F0, dp0) /\ ~Exposed /\ UNCHANGED <<super, diskFat>>
      BY <1>1, <1>6 DEF OnDisk, Exposed, Flushing, Running
    <3>2. QED
      BY <1>4, <1>9, <3>1, OutsideOnDisk
  <2>2. CASE pc' = "flush" /\ loc.found
    <3>1. Exposed'
      BY <1>2, <2>2 DEF Exposed, Flushing, StoreStep
    <3>2. QED
      BY <3>1 DEF DiskPaths
  <2>3. CASE pc' = "idle" \/ (pc' = "flush" /\ ~loc.found)
    <3>1. Calm2'
      BY <1>2, <2>3 DEF Calm2, Adding, Flushing, StoreStep
    <3>2. QED
      BY <1>1, <1>15, <3>1, DiskFollows DEF Known, Given
  <2>4. QED
    BY <1>2, <2>1, <2>2, <2>3
<1>17. QED
  BY <1>15, <1>16

LEMMA InitDirPaths ==
  ASSUME Known, InitDir
  PROVE  PathInv'
<1>1. PICK w \in Writes :
        /\ WriteBlock(loc.entry.first, DirBlock(loc.entry.first, loc.cur), w)
        /\ IF w = "done" THEN Goto("addEntry", loc) /\ UNCHANGED <<ret, marks>>
                         ELSE GiveUp({"leak"})
  BY DEF InitDir
<1>2. /\ pc = "initDir" /\ TypeOK /\ fat \in Fats /\ ready' /\ block \in [Clusters -> Blocks]
      /\ UNCHANGED <<super, diskFat, ready, fat, cwd, cwdPath>>
  BY <1>1 DEF InitDir, WriteBlock, memory, Known, Given, TypeInv, TypeOK, SoundInv, OnlineInv
<1>3. SUFFICES ASSUME Free(Strays)' PROVE MemPaths' /\ DiskPaths'
  BY WriteEnds DEF Store
<1>4. PICK D, F, dp : Phase(D, F, dp)
  BY <1>2, <1>3, TreeNow DEF Known
<1>5. AddPhase(D, F, dp) /\ Adding /\ ~Storing /\ ~Growing
  BY <1>2, <1>4 DEF Phase, Adding, Storing, Growing, Flushing
<1>6. Shape(Seen, D, F, dp) /\ D \subseteq Clusters
  BY <1>2, <1>4, SeenShape
<1>7. PICK x : x = loc.entry.first
  OBVIOUS
<1>8. x \in Clusters /\ Apart(fat, D, F, x)
  <2>1. loc.entry.type = "dir"
    BY <1>2, <1>5 DEF AddPhase, Arriving
  <2>2. x \in Clusters
    BY <1>5, <1>7, <2>1 DEF AddPhase, Incoming
  <2>3. QED
    BY <1>5, <1>7, <2>1, <2>2, ClusterFacts DEF AddPhase, Incoming, NoCluster, FREE
<1>9. x \notin D
  BY <1>2, <1>8, ChainProperties DEF Apart
<1>10. \A c \in D : block'[c] = block[c]
  BY <1>1, <1>2, <1>6, <1>7, <1>8, <1>9 DEF WriteBlock
<1>11. pc' = "idle" \/ (pc' = "addEntry" /\ loc' = loc)
  BY <1>1 DEF GiveUp, Return, Goto
<1>12. ~Storing' /\ ~Growing' /\ pc' # "walk" /\ pc' # "scan" /\ Calm2'
  BY <1>11 DEF Storing, Growing, Adding, Flushing, Calm2
<1>13. \A c \in D : Seen'[c] = Seen[c]
  BY <1>5, <1>10, <1>12 DEF Seen
<1>14. Adding' => Adding /\ loc'.cur = loc.cur /\ loc'.entry = loc.entry /\ loc.cur \in D
  BY <1>5, <1>11 DEF Adding, Flushing, AddPhase, Incoming, Heads
<1>15. MemPaths'
  <2>1. Tree(fat, Seen, D, F, dp) /\ Reached(fat, Seen, D, F) /\ cwd \in Heads(fat, D)
    BY <1>6 DEF Shape
  <2>2. UNCHANGED <<fat, cwd, cwdPath>>
    BY <1>2
  <2>3. pc \in {"data", "initDir", "addEntry", "addCluster", "setEntry"}
    BY <1>2
  <2>4. QED
    BY <1>3, <1>10, <1>12, <1>13, <1>14, <2>1, <2>2, <2>3, OutsidePaths
<1>16. DiskPaths'
  BY <1>2, <1>12, <1>15, DiskFollows DEF Known, Given
<1>17. QED
  BY <1>15, <1>16

\* What was in view is what is there now.
LEMMA SeenKept ==
  ASSUME Known, Free(Strays)', UNCHANGED <<fat, cwd, cwdPath>>, Seen' = Seen,
         \/ pc \in {"data", "initDir", "addEntry", "addCluster", "setEntry"}
         \/ pc = "flush" /\ loc.then # "formatRoot",
         pc' # "walk", pc' # "scan",
         Adding' => Adding /\ loc'.cur = loc.cur /\ loc'.entry = loc.entry /\ block' = block
  PROVE  MemPaths'
<1>1. PICK D, F, dp : Phase(D, F, dp)
  BY TreeNow DEF Known
<1>2. TypeOK
  BY DEF Known, Given, TypeInv
<1>3. Tree(fat, Seen, D, F, dp) /\ Reached(fat, Seen, D, F) /\ cwd \in Heads(fat, D)
  BY <1>1, <1>2, SeenShape DEF Shape
<1>4. \A c \in D : Seen'[c] = Seen[c]
  OBVIOUS
<1>5. Adding' => /\ Adding /\ loc'.cur = loc.cur /\ loc'.entry = loc.entry /\ loc.cur \in D
                 /\ \A c \in D : block'[c] = block[c]
  BY <1>1 DEF Phase, AddPhase, Incoming, Heads
<1>6. QED
  BY <1>3, <1>4, <1>5, OutsidePaths

LEMMA AddEntryFailsPaths ==
  ASSUME Known, pc = "addEntry", pc' = "idle", UNCHANGED <<ready, fat, block, cwd, cwdPath>>, Free(Strays)'
  PROVE  MemPaths' /\ DiskPaths'
<1>1. Seen' = Seen /\ ~Adding' /\ Calm2'
  BY DEF Seen, Storing, Growing, Adding, Flushing, Calm2
<1>2. MemPaths'
  BY <1>1, SeenKept
<1>3. ready'
  BY DEF Known, Given, SoundInv, OnlineInv
<1>4. QED
  BY <1>1, <1>2, <1>3, DiskFollows DEF Known, Given

LEMMA AddClusterPaths ==
  ASSUME Known, AddCluster
  PROVE  PathInv'
<1>1. PICK w \in Writes :
        /\ WriteBlock(loc.data, [ZeroBlock EXCEPT ![1] = loc.entry], w)
        /\ IF w = "done" THEN Return("ok") /\ UNCHANGED marks
                         ELSE GiveUp(Unless(w, {"stale"} \cup Unowned))
  BY DEF AddCluster
<1>2. /\ pc = "addCluster" /\ pc' = "idle" /\ UNCHANGED <<ready, fat, diskFat, cwd, cwdPath>>
  BY <1>1 DEF AddCluster, WriteBlock, GiveUp, Return, memory
<1>3. SUFFICES ASSUME Free(Strays)' PROVE MemPaths' /\ DiskPaths'
  BY WriteEnds DEF Store
<1>4. w # "lost"
  <2>1. w = "lost" => "stale" \in marks'
    BY <1>1 DEF GiveUp, Unless
  <2>2. QED
    BY <1>3, <2>1 DEF Free, Strays, Breaks
<1>5. block' = Grown
  BY <1>1, <1>4 DEF WriteBlock, Grown
<1>6. Seen' = Seen /\ ~Adding' /\ Calm2'
  BY <1>2, <1>5 DEF Seen, Storing, Growing, Adding, Flushing, Calm2
<1>7. MemPaths'
  BY <1>2, <1>3, <1>6, SeenKept
<1>8. ready'
  BY <1>2 DEF Known, Given, SoundInv, OnlineInv
<1>9. QED
  BY <1>6, <1>7, <1>8, DiskFollows DEF Known, Given

LEMMA SetEntryPaths ==
  ASSUME Known, SetEntry
  PROVE  PathInv'
<1>1. PICK w \in Writes :
        /\ WriteBlock(loc.at[1], [block[loc.at[1]] EXCEPT ![loc.at[2]] = loc.entry], w)
        /\ IF w # "done" THEN GiveUp(Unless(w, {"dangling"}) \cup {"leak"})
           ELSE IF loc.req.op = "write" THEN Return("ok") /\ UNCHANGED marks
           ELSE StartFlush(loc, "return") /\ UNCHANGED <<ret, marks>>
  BY DEF SetEntry
<1>2. /\ pc = "setEntry" /\ loc \in Locals /\ UNCHANGED <<ready, fat, diskFat, cwd, cwdPath>>
  BY <1>1 DEF SetEntry, WriteBlock, memory, Known, Given, TypeInv, TypeOK
<1>3. SUFFICES ASSUME Free(Strays)' PROVE MemPaths' /\ DiskPaths'
  BY WriteEnds DEF Store
<1>4. w # "lost"
  <2>1. w = "lost" => "dangling" \in marks'
    BY <1>1 DEF GiveUp, Unless
  <2>2. QED
    BY <1>3, <2>1 DEF Free, Strays, Breaks
<1>5. block' = With(block, loc.at, loc.entry)
  BY <1>1, <1>4 DEF WriteBlock, With
<1>6. pc' = "idle" \/ Flushing("return")'
  <2>1. pc' = "idle" \/ StartFlush(loc, "return")
    BY <1>1 DEF GiveUp, Return
  <2>2. StartFlush(loc, "return") => pc' = "flush" /\ loc'.then = "return"
    BY <1>2, ToFlush
  <2>3. QED
    BY <2>1, <2>2 DEF Flushing
<1>7. Seen' = Seen /\ ~Adding' /\ Calm2' /\ pc' # "walk" /\ pc' # "scan"
  BY <1>2, <1>5, <1>6 DEF Seen, Storing, Growing, Adding, Flushing, Calm2
<1>8. MemPaths'
  BY <1>2, <1>3, <1>7, SeenKept
<1>9. ready'
  BY <1>2 DEF Known, Given, SoundInv, OnlineInv
<1>10. QED
  BY <1>7, <1>8, <1>9, DiskFollows DEF Known, Given

\* fs_flush_fat, sector by sector.
LEMMA FlushPaths ==
  ASSUME Known, Flush
  PROVE  PathInv'
<1>1. /\ pc = "flush" /\ TypeOK /\ UNCHANGED <<super, ready, fat, block, cwd>>
      /\ FlushFails \/ FlushGoesOn \/ FlushEnds
  BY FlushSteps DEF Known
<1>2. Store /\ cwdPath' = cwdPath
  BY DEF Store, Flush, memory
<1>3. SUFFICES ASSUME Free(Strays)' PROVE MemPaths' /\ DiskPaths'
  BY <1>2, WriteEnds
<1>4. CASE loc.then = "formatRoot"
  <2>1. ~ready'
    BY <1>1, <1>4 DEF Known, Given, SyncInv, OfflineInv, Flushing
  <2>2. ~FlushFails
    BY <1>3, <1>4 DEF FlushFails, FlushMarks, Free, Strays, Breaks
  <2>3. Exposed'
    BY <1>1, <1>4, <2>2 DEF FlushGoesOn, FlushEnds, Exposed, Flushing
  <2>4. QED
    BY <2>1, <2>3 DEF MemPaths, DiskPaths
<1>5. CASE loc.then # "formatRoot"
  <2>1. ready'
    BY <1>1, <1>5 DEF Known, Given, SoundInv, OnlineInv
  <2>2. \/ FlushFails /\ loc.then \in {"initDir", "addEntry", "return"} /\ pc' = "idle"
        \/ FlushGoesOn /\ pc' = "flush"
        \/ FlushEnds
    BY <1>1, <1>3, <1>5 DEF FlushFails, FlushMarks, Free, Strays, Breaks, FlushGoesOn, TypeOK, Locals
  <2>3. \/ pc' = "idle" /\ loc.then \in {"initDir", "addEntry", "return"}
        \/ /\ (pc' = "flush" /\ loc'.then = loc.then) \/ pc' = loc.then
           /\ loc'.req = loc.req /\ loc'.entry = loc.entry /\ loc'.cur = loc.cur
           /\ loc'.at = loc.at /\ loc'.data = loc.data
    BY <2>2 DEF FlushGoesOn, FlushEnds
  <2>4. loc.then \in {"initDir", "addEntry", "addCluster", "setEntry", "return"}
    BY <1>1, <1>5 DEF TypeOK, Locals
  <2>5. Seen' = Seen
    BY <1>1, <2>3, <2>4 DEF Seen, Storing, Growing, Flushing, Grown
  <2>6. Adding' => Adding /\ loc'.cur = loc.cur /\ loc'.entry = loc.entry /\ block' = block
    BY <1>1, <2>3, <2>4 DEF Adding, Flushing
  <2>7. pc' # "walk" /\ pc' # "scan"
    BY <2>3, <2>4
  <2>8. MemPaths'
    BY <1>1, <1>2, <1>3, <1>5, <2>5, <2>6, <2>7, SeenKept
  <2>9. CASE loc.then \in {"setEntry", "addCluster"}
    <3>1. loc.then = "setEntry" => loc.req.op = "write"
      BY <1>1 DEF Known, Given, SoundInv, CtlInv, Flushing
    <3>2. Exposed'
      BY <2>3, <2>9, <3>1 DEF Exposed, Flushing, Running
    <3>3. QED
      BY <2>8, <3>2 DEF DiskPaths
  <2>10. CASE loc.then \in {"initDir", "addEntry", "return"}
    <3>1. Calm2'
      <4>1. FlushEnds /\ loc.then = "return" => pc' = "idle"
        BY DEF FlushEnds
      <4>2. QED
        BY <2>2, <2>3, <2>10, <4>1 DEF Calm2, Adding, Flushing
    <3>2. QED
      BY <2>1, <2>8, <3>1, DiskFollows DEF Known, Given
  <2>11. QED
    BY <2>4, <2>9, <2>10
<1>6. QED
  BY <1>4, <1>5

\* The directories of D keep their paths pt among those of f and b.
MorePaths(u, f, b, D, pt) ==
  \E S, pt2 : Pathed(u, f, b, S, pt2) /\ D \subseteq S /\ \A c \in D : pt2[c] = pt[c]

\* An entry gives its directory's path one name more.
\* At p of directory d comes a new entry e, for a new directory if it is one.
Added(u, f, b, b2, D, pt, d, p, e) ==
  /\ p \in D \X Slots /\ p[1] \in Chain(f, d) /\ e \in Entries /\ At(b2, p) = e
  /\ e.type = "dir" => /\ e.first \in Clusters \ D /\ f[e.first] \notin Clusters
                       /\ b2[e.first] = DirBlock(e.first, d) /\ Len(pt[d]) <= MaxDepth
  /\ \A q \in D \X Slots : q # p => At(b2, q) = At(b, q)
  /\ u => \A q \in Chain(f, d) \X Slots : At(b, q).name # e.name

LEMMA EntryPaths ==
  ASSUME NEW f \in Fats, NEW b, NEW b2, NEW D, NEW F, NEW dp, Tree(f, b, D, F, dp),
         NEW u, NEW pt, Pathed(u, f, b, D, pt), NEW d \in Heads(f, D),
         NEW p, NEW e, Added(u, f, b, b2, D, pt, d, p, e)
  PROVE  MorePaths(u, f, b2, D, pt)
<1>0. /\ p \in D \X Slots /\ p[1] \in Chain(f, d) /\ e \in Entries /\ At(b2, p) = e
      /\ e.type = "dir" => /\ e.first \in Clusters \ D /\ f[e.first] \notin Clusters
                           /\ b2[e.first] = DirBlock(e.first, d) /\ Len(pt[d]) <= MaxDepth
      /\ \A q \in D \X Slots : q # p => At(b2, q) = At(b, q)
      /\ u => \A q \in Chain(f, d) \X Slots : At(b, q).name # e.name
  BY DEF Added
<1>1. d \in D /\ Named(f, b, D, pt) /\ (u => Single(f, b, D))
  BY DEF Heads, Pathed
<1>2. \A h \in D : p[1] \in Chain(f, h) => Chain(f, h) \subseteq Chain(f, d)
  BY <1>0, ChainsMeet
<1>3. CASE ~IsProper(e) \/ e.type # "dir"
  <2>1. /\ Named(f, b2, D, pt)
        /\ Single(f, b, D) /\ (\A q \in Chain(f, d) \X Slots : At(b, q).name # e.name) => Single(f, b2, D)
    BY <1>0, <1>1, <1>2, <1>3, FileEntered
  <2>2. Pathed(u, f, b2, D, pt)
    BY <1>0, <1>1, <2>1 DEF Pathed
  <2>3. QED
    BY <2>2 DEF MorePaths
<1>4. CASE IsProper(e) /\ e.type = "dir"
  <2>1. PICK y, T, pt2 : /\ y = e.first /\ T = D \cup {y}
                         /\ pt2 = [pt EXCEPT ![y] = Append(pt[d], e.name)]
    OBVIOUS
  <2>2. y \in Clusters \ D /\ f[y] \notin Clusters /\ b2[y] = DirBlock(y, d) /\ Len(pt[d]) <= MaxDepth
    BY <1>0, <1>4, <2>1
  <2>3. DirAdded(f, b, b2, D, pt, d, e, T, pt2)
    BY ONLY <1>0, <1>1, <1>2, <1>4, <2>1, <2>2, DirEntered, f \in Fats
  <2>4. /\ Named(f, b2, T, pt2) /\ D \subseteq T /\ \A c \in D : pt2[c] = pt[c]
        /\ Single(f, b, D) /\ (\A q \in Chain(f, d) \X Slots : At(b, q).name # e.name) => Single(f, b2, T)
    BY <2>3 DEF DirAdded
  <2>5. Pathed(u, f, b2, T, pt2)
    BY <1>0, <1>1, <2>4 DEF Pathed
  <2>6. QED
    BY ONLY <2>4, <2>5 DEF MorePaths
<1>5. QED
  BY <1>3, <1>4

\* What fs_add_entry starts from.
LEMMA AddingPaths ==
  ASSUME Known, pc = "addEntry", Free(Strays)'
  PROVE  \E D, F, dp, pt : /\ AddPhase(D, F, dp) /\ Pathed(Clear, fat, block, D, pt)
                           /\ cwd \in D /\ pt[cwd] = cwdPath /\ Fitting(D, pt)
<1>1. PICK D, F, dp : AddPhase(D, F, dp)
  BY TreeNow DEF Known, Phase, Adding
<1>2. PICK S, pt : Pathed(Clear, fat, Seen, S, pt) /\ Walked(S, pt)
  BY PathsNow
<1>3. Adding /\ Seen = block
  BY DEF Adding, Seen, Storing, Growing, Flushing
<1>4. PICK f, b, u : f = fat /\ b = block /\ u = Clear
  OBVIOUS
<1>5. /\ Tree(f, b, D, F, dp) /\ Reached(f, b, D, F) /\ cwd \in D /\ loc.cur \in D /\ f \in Fats
      /\ D \subseteq Clusters
  BY <1>1, <1>4 DEF AddPhase, Resting, Shape, Incoming, Heads, Known, Given, TypeInv, TypeOK, Tree, Ground
<1>6. Pathed(u, f, b, S, pt) /\ Closed(f, b, S) /\ D \subseteq S
  <2>1. Pathed(u, f, b, S, pt)
    BY <1>2, <1>3, <1>4
  <2>2. Closed(f, b, S)
    BY <2>1 DEF Pathed, Named
  <2>3. QED
    BY <1>5, <2>1, <2>2, TreeWithin
<1>7. Pathed(u, f, b, D, pt)
  <2>1. S \cap D = D
    BY <1>6
  <2>2. Closed(f, b, D)
    BY <1>5, <1>6, <2>1, TreeClosed
  <2>3. Thinner(f, b, f, b, D)
    BY DEF Thinner
  <2>4. D \in SUBSET S
    BY <1>6
  <2>5. QED
    BY <1>5, <1>6, <2>2, <2>3, <2>4, FewerPaths
<1>8. Fitting(D, pt)
  BY <1>2, <1>3, <1>5 DEF Walked, Fitting
<1>9. QED
  BY <1>1, <1>2, <1>4, <1>5, <1>7, <1>8 DEF Walked

\* fs_add_entry puts the entry into a free slot.
LEMMA AddEntryPaths ==
  ASSUME Known, AddEntry
  PROVE  PathInv'
<1>1. PICK p \in FreeSlot(loc.cur), w \in Writes :
        /\ WriteBlock(p[1], [block[p[1]] EXCEPT ![p[2]] = loc.entry], w)
        /\ IF w = "done" THEN Return("ok") /\ UNCHANGED marks
                         ELSE GiveUp(Unless(w, Unowned))
  BY DEF AddEntry
<1>2. /\ pc = "addEntry" /\ pc' = "idle" /\ fat \in Fats /\ loc \in Locals /\ block \in [Clusters -> Blocks]
      /\ UNCHANGED <<super, ready, diskFat, fat, cwd, cwdPath>>
  BY <1>1 DEF AddEntry, WriteBlock, GiveUp, Return, memory, Known, Given, TypeInv, TypeOK
<1>3. SUFFICES ASSUME Free(Strays)' PROVE MemPaths' /\ DiskPaths'
  BY WriteEnds DEF Store
<1>4. CASE w = "lost"
  <2>1. block' = block
    BY <1>1, <1>4 DEF WriteBlock
  <2>2. QED
    BY <1>2, <1>3, <2>1, AddEntryFailsPaths
<1>5. CASE w # "lost"
  <2>1. PICK D, F, dp, pt : /\ AddPhase(D, F, dp) /\ Pathed(Clear, fat, block, D, pt)
                            /\ cwd \in D /\ pt[cwd] = cwdPath /\ Fitting(D, pt)
    BY <1>2, <1>3, AddingPaths
  <2>2. PICK f, b, b2, d, e, C, u, v :
          /\ f = fat /\ b = block /\ b2 = With(block, p, e) /\ d = loc.cur /\ e = loc.entry
          /\ C = Chain(fat, d) /\ u = Clear /\ v = Clear'
    OBVIOUS
  <2>3. block' = b2
    BY <1>1, <1>5, <2>2 DEF WriteBlock, With
  <2>4. /\ Tree(f, b, D, F, dp) /\ d \in Heads(f, D) /\ d \in D /\ D \subseteq Clusters /\ Ground(f, D, F)
        /\ f \in Fats /\ b \in [Clusters -> Blocks]
    BY <1>2, <2>1, <2>2 DEF AddPhase, Resting, Shape, Incoming, Tree, Ground, Heads
  <2>5. p \in C \X Slots
    BY <2>2 DEF FreeSlot, FirstPlace
  <2>6. p \in D \X Slots /\ p \in Clusters \X Slots /\ p[1] \in C
    <3>1. C \subseteq D
      BY <2>2, <2>4, ChainGround
    <3>2. QED
      BY <2>4, <2>5, <3>1
  <2>7. e \in Entries
    BY <1>2, <2>2 DEF Locals
  <2>8. /\ At(b2, p) = e
        /\ \A q \in Clusters \X Slots : q # p => At(b2, q) = At(b, q)
        /\ \A c \in Clusters : c # p[1] => b2[c] = b[c]
    BY <2>2, <2>4, <2>6, <2>7, WithAt
  <2>9. \A q \in D \X Slots : q # p => At(b2, q) = At(b, q)
    BY <2>4, <2>8
  <2>10. e.type = "dir" => /\ e.first \in Clusters \ D /\ f[e.first] \notin Clusters
                           /\ b2[e.first] = DirBlock(e.first, d) /\ Len(pt[d]) <= MaxDepth
    <3>1. SUFFICES ASSUME e.type = "dir"
                   PROVE  /\ e.first \in Clusters \ D /\ f[e.first] \notin Clusters
                          /\ b2[e.first] = DirBlock(e.first, d) /\ Len(pt[d]) <= MaxDepth
      OBVIOUS
    <3>2. e.first \in Clusters /\ f[e.first] \notin Clusters /\ (e.first = NoCluster \/ Apart(f, D, F, e.first))
      BY <2>1, <2>2, <3>1 DEF AddPhase, Incoming
    <3>3. Apart(f, D, F, e.first)
      BY <3>2, ClusterAssumption DEF NoCluster, Clusters
    <3>4. e.first \notin D
      BY <2>4, <3>2, <3>3, ChainProperties DEF Apart
    <3>5. b[e.first] = DirBlock(e.first, d)
      BY <1>2, <2>1, <2>2, <3>1 DEF AddPhase, Arriving
    <3>6. b2[e.first] = DirBlock(e.first, d)
      BY <2>6, <2>8, <3>2, <3>4, <3>5
    <3>7. Len(pt[d]) <= MaxDepth
      BY <2>1, <2>2, <3>1 DEF Fitting
    <3>8. QED
      BY <3>2, <3>4, <3>6, <3>7
  <2>11. u => \A q \in Chain(f, d) \X Slots : At(b, q).name # e.name
    BY <2>1, <2>2 DEF Fitting
  <2>12. Pathed(u, f, b, D, pt) /\ p[1] \in Chain(f, d)
    BY <2>1, <2>2, <2>6
  <2>13. PICK S, pt2 : Pathed(u, f, b2, S, pt2) /\ D \subseteq S /\ \A c \in D : pt2[c] = pt[c]
    <3>1. MorePaths(u, f, b2, D, pt)
      <4>1. Added(u, f, b, b2, D, pt, d, p, e)
        BY <2>6, <2>7, <2>8, <2>9, <2>10, <2>11, <2>12 DEF Added
      <4>2. QED
        BY ONLY <2>4, <2>12, <4>1, EntryPaths
    <3>2. QED
      BY <3>1 DEF MorePaths
  <2>14. v => u
    BY <2>2, ClearBefore DEF Known, Given
  <2>15. Pathed(v, f, b2, S, pt2)
    BY <2>13, <2>14 DEF Pathed
  <2>16. ~Storing' /\ ~Growing' /\ ~Adding' /\ pc' # "walk" /\ pc' # "scan" /\ Calm2'
    BY <1>2 DEF Storing, Growing, Adding, Flushing, Calm2
  <2>17. Pathed(Clear, fat, Seen, S, pt2)'
    BY <1>2, <2>2, <2>3, <2>15, <2>16 DEF Seen
  <2>18. Walked(S, pt2)'
    BY <1>2, <2>1, <2>13, <2>16 DEF Walked
  <2>19. MemPaths'
    BY <2>17, <2>18 DEF MemPaths
  <2>20. ready'
    BY <1>2 DEF Known, Given, SoundInv, OnlineInv
  <2>21. QED
    BY <2>16, <2>19, <2>20, DiskFollows DEF Known, Given
<1>6. QED
  BY <1>4, <1>5

LEMMA AddEntryFailsEnds ==
  ASSUME Known, AddEntryFails
  PROVE  PathInv'
<1>1. /\ pc = "addEntry" /\ pc' = "idle" /\ UNCHANGED <<ready, fat, block, cwd, cwdPath>>
  BY DEF AddEntryFails, GiveUp, Return, disk, memory
<1>2. QED
  BY <1>1, AddEntryFailsPaths, WriteEnds DEF Store

\* Entry e comes into the new cluster of directory d.
AddedIn(u, f, g, b, b1, b2, D, pt, d, new, e) ==
  LET p == <<new, 1>>
  IN  /\ new \in Chain(g, d) /\ e \in Entries /\ e.name # Empty /\ At(b2, p) = e
      /\ \A q \in (D \cup {new}) \X Slots : q # p => At(b2, q) = At(b1, q)
      /\ e.type = "dir" => /\ e.first \in Clusters \ D /\ e.first # new /\ g[e.first] \notin Clusters
                           /\ b2[e.first] = DirBlock(e.first, d) /\ Len(pt[d]) <= MaxDepth
      /\ u => \A q \in Chain(f, d) \X Slots : At(b, q).name # e.name

LEMMA PathsInNew ==
  ASSUME NEW f \in Fats, NEW g, NEW b, NEW b1, NEW b2, NEW D, NEW F, NEW dp, Tree(f, b, D, F, dp),
         NEW u, NEW pt, Pathed(u, f, b, D, pt), NEW d \in Heads(f, D), NEW last, NEW new,
         Appended(f, g, b, b1, D, F, d, last, new), NEW e, AddedIn(u, f, g, b, b1, b2, D, pt, d, new, e)
  PROVE  MorePaths(u, g, b2, D, pt)
<1>0. PICK p :
         /\ p = <<new, 1>> /\ new \in Chain(g, d) /\ e \in Entries /\ e.name # Empty /\ At(b2, p) = e
         /\ \A q \in (D \cup {new}) \X Slots : q # p => At(b2, q) = At(b1, q)
         /\ e.type = "dir" => /\ e.first \in Clusters \ D /\ e.first # new /\ g[e.first] \notin Clusters
                              /\ b2[e.first] = DirBlock(e.first, d) /\ Len(pt[d]) <= MaxDepth
         /\ u => \A q \in Chain(f, d) \X Slots : At(b, q).name # e.name
  BY DEF AddedIn
<1>1. /\ new \in Clusters /\ f[new] = FREE /\ new \notin D \cup F
      /\ last \in Chain(f, d) /\ f[last] \notin Clusters /\ last \in D
      /\ g \in Fats /\ g[last] = new /\ g[new] \notin Clusters
      /\ \A c \in Indices : c # new /\ c # last => g[c] = f[c]
      /\ \A i \in Slots : At(b1, <<new, i>>) = Zeroed
      /\ \A q \in D \X Slots : At(b1, q) = At(b, q)
      /\ \E dp2 : Tree(g, b1, D \cup {new}, F, dp2)
      /\ Heads(g, D \cup {new}) = Heads(f, D)
  BY DEF Appended
<1>2. PICK T, q1 : T = D \cup {new} /\ q1 = [pt EXCEPT ![new] = pt[d]]
  OBVIOUS
<1>3. /\ d \in D /\ D \subseteq Clusters /\ D \subseteq Indices /\ Named(f, b, D, pt)
      /\ (u => Single(f, b, D))
  BY ClusterFacts DEF Tree, Ground, Heads, Pathed
<1>4. ClusterGiven(f, g, b, b1, D, pt, d, T, q1)
  <2>1. new \in Clusters \ D /\ \A c \in D : c # last => g[c] = f[c]
    BY <1>1, <1>3
  <2>2. /\ last \in Chain(f, d) /\ g \in Fats /\ g[last] = new /\ g[new] \notin Clusters /\ f[last] \notin Clusters
        /\ \A i \in Slots : At(b1, <<new, i>>) = Zeroed
        /\ \A q \in D \X Slots : At(b1, q) = At(b, q)
    BY <1>1
  <2>3. QED
    BY ONLY <1>2, <1>3, <2>1, <2>2, f \in Fats, ClusterEntered
<1>5. /\ Named(g, b1, T, q1) /\ \A c \in D : q1[c] = pt[c]
      /\ Single(f, b, D) => Single(g, b1, T)
      /\ \A q \in Chain(g, d) \X Slots : q \in Chain(f, d) \X Slots \/ At(b1, q).name = Empty
  BY <1>4 DEF ClusterGiven
<1>6. Pathed(u, g, b1, T, q1)
  BY <1>3, <1>5 DEF Pathed
<1>7. PICK dp2 : Tree(g, b1, T, F, dp2)
  BY <1>1, <1>2
<1>8. d \in Heads(g, T)
  BY <1>1, <1>2
<1>9. 1 \in Slots
  BY FsAssumption DEF Slots
<1>10. p \in T \X Slots /\ p[1] \in Chain(g, d) /\ e \in Entries /\ At(b2, p) = e
  BY <1>0, <1>2, <1>9
<1>11. \A q \in T \X Slots : q # p => At(b2, q) = At(b1, q)
  BY <1>0, <1>2
<1>12. e.type = "dir" => /\ e.first \in Clusters \ T /\ g[e.first] \notin Clusters
                         /\ b2[e.first] = DirBlock(e.first, d) /\ Len(q1[d]) <= MaxDepth
  BY <1>0, <1>2, <1>3, <1>5
<1>13. u => \A q \in Chain(g, d) \X Slots : At(b1, q).name # e.name
  <2>1. SUFFICES ASSUME u, NEW q \in Chain(g, d) \X Slots PROVE At(b1, q).name # e.name
    OBVIOUS
  <2>2. CASE q \in Chain(f, d) \X Slots
    <3>1. Chain(f, d) \subseteq D
      BY <1>3, OnePath
    <3>2. QED
      BY <1>0, <1>1, <2>1, <2>2, <3>1
  <2>3. CASE At(b1, q).name = Empty
    BY <1>0, <2>3
  <2>4. QED
    BY <1>5, <2>2, <2>3
<1>14. MorePaths(u, g, b2, T, q1)
  <2>1. g \in Fats
    BY <1>1
  <2>2. Added(u, g, b1, b2, T, q1, d, p, e)
    BY <1>10, <1>11, <1>12, <1>13 DEF Added
  <2>3. QED
    BY ONLY <1>6, <1>7, <1>8, <2>1, <2>2, EntryPaths
<1>15. QED
  BY <1>2, <1>5, <1>14 DEF MorePaths

\* fs_add_entry gives the directory another cluster.
LEMMA AddEntryExtendPaths ==
  ASSUME Known, AddEntryExtend
  PROVE  PathInv'
<1>1. PICK new, l : new = Least(FirstFit(fat, 1)) /\ l = [loc EXCEPT !.data = new]
  OBVIOUS
<1>2. /\ pc = "addEntry" /\ fat \in Fats /\ loc \in Locals /\ block \in [Clusters -> Blocks] /\ HasRoom(fat, 1)
      /\ fat' = Extend(AllocChain(fat, 1), Last(fat, loc.cur), new) /\ StartFlush(l, "addCluster")
      /\ UNCHANGED <<ready, super, diskFat, block, cwd, cwdPath, marks>>
  BY <1>1 DEF AddEntryExtend, disk, Known, Given, TypeInv, TypeOK
<1>3. new \in Clusters /\ fat[new] = FREE
  BY <1>1, <1>2, AllocOne
<1>4. l \in Locals /\ l.entry = loc.entry /\ l.data = new
  BY <1>1, <1>2, <1>3 DEF Locals
<1>5. pc' = "flush" /\ loc'.then = "addCluster" /\ loc'.entry = loc.entry /\ loc'.data = new
  <2>1. pc' = "flush" /\ loc' = [l EXCEPT !.k = 0, !.then = "addCluster"]
    BY <1>2 DEF StartFlush, Goto
  <2>2. loc'.then = "addCluster" /\ loc'.entry = l.entry /\ loc'.data = l.data
    BY <1>4, <2>1 DEF Locals
  <2>3. QED
    BY <1>4, <2>1, <2>2
<1>6. SUFFICES ASSUME Free(Strays)' PROVE MemPaths' /\ DiskPaths'
  BY WriteEnds DEF Store
<1>7. PICK D, F, dp, pt : /\ AddPhase(D, F, dp) /\ Pathed(Clear, fat, block, D, pt)
                          /\ cwd \in D /\ pt[cwd] = cwdPath /\ Fitting(D, pt)
  BY <1>2, <1>6, AddingPaths
<1>8. PICK f, g, b, b1, b2, d, e, last, p, u :
        /\ f = fat /\ g = fat' /\ b = block /\ d = loc.cur /\ e = loc.entry /\ u = Clear
        /\ b1 = [block EXCEPT ![new] = ZeroBlock] /\ last = Last(fat, loc.cur) /\ p = <<new, 1>>
        /\ b2 = [block EXCEPT ![new] = [ZeroBlock EXCEPT ![1] = loc.entry]]
  OBVIOUS
<1>9. /\ f \in Fats /\ Tree(f, b, D, F, dp) /\ Reached(f, b, D, F) /\ d \in Heads(f, D) /\ D \subseteq Clusters
      /\ e \in Entries /\ e.name # Empty
      /\ e.type = "dir" => /\ e.first \in Clusters /\ f[e.first] \notin Clusters /\ Apart(f, D, F, e.first)
                           /\ b[e.first] = DirBlock(e.first, d)
  <2>1. NoCluster \notin Clusters
    BY ClusterAssumption DEF NoCluster, Clusters
  <2>2. QED
    BY <1>2, <1>7, <1>8, <2>1 DEF AddPhase, Resting, Shape, Incoming, Arriving, Locals, Tree, Ground
<1>10. Appended(f, g, b, b1, D, F, d, last, new)
  <2>1. /\ f \in Fats /\ b \in [Clusters -> Blocks] /\ HasRoom(f, 1) /\ new = Least(FirstFit(f, 1))
        /\ last = Last(f, d) /\ g = Extend(AllocChain(f, 1), last, new) /\ b1 = [b EXCEPT ![new] = ZeroBlock]
    BY <1>1, <1>2, <1>8
  <2>2. QED
    BY ONLY <1>9, <2>1, ClusterAdded
<1>11. /\ last \in Chain(f, d) /\ f[last] \notin Clusters /\ new \notin D \cup F /\ g \in Fats
       /\ \A c \in Indices : c # new /\ c # last => g[c] = f[c]
       /\ new \in Chain(g, d)
  BY <1>10 DEF Appended
<1>12. 1 \in Slots
  BY FsAssumption DEF Slots
<1>13. At(b2, p) = e /\ \A c \in Clusters : c # new => b2[c] = b[c] /\ b1[c] = b[c]
  BY <1>2, <1>3, <1>8, <1>12 DEF At, ZeroBlock
<1>14. \A q \in (D \cup {new}) \X Slots : q # p => At(b2, q) = At(b1, q)
  <2>1. \A i \in Slots : i # 1 => At(b2, <<new, i>>) = At(b1, <<new, i>>)
    BY <1>2, <1>3, <1>8 DEF At, ZeroBlock
  <2>2. ASSUME NEW q \in (D \cup {new}) \X Slots, q # p PROVE At(b2, q) = At(b1, q)
    <3>1. PICK c \in D \cup {new}, i \in Slots : q = <<c, i>>
      OBVIOUS
    <3>2. QED
      BY <1>8, <1>9, <1>13, <2>1, <2>2, <3>1 DEF At
  <2>3. QED
    BY <2>2
<1>15. e.type = "dir" => /\ e.first \in Clusters \ D /\ e.first # new /\ g[e.first] \notin Clusters
                         /\ b2[e.first] = DirBlock(e.first, d) /\ Len(pt[d]) <= MaxDepth
  <2>1. SUFFICES ASSUME e.type = "dir"
                 PROVE  /\ e.first \in Clusters \ D /\ e.first # new /\ g[e.first] \notin Clusters
                        /\ b2[e.first] = DirBlock(e.first, d) /\ Len(pt[d]) <= MaxDepth
    OBVIOUS
  <2>2. e.first \in Chain(f, e.first) /\ Clusters \subseteq Indices
    BY <1>9, <2>1, ChainProperties, ClusterFacts
  <2>3. e.first \notin D /\ f[e.first] # FREE
    BY <1>9, <2>1, <2>2 DEF Apart
  <2>4. e.first # new
    BY <1>3, <1>8, <2>3
  <2>5. e.first # last
    BY <1>9, <1>10, <2>3 DEF Appended
  <2>6. g[e.first] \notin Clusters
    BY <1>9, <1>11, <2>1, <2>2, <2>4, <2>5
  <2>7. b2[e.first] = DirBlock(e.first, d)
    BY <1>9, <1>13, <2>1, <2>4
  <2>8. Len(pt[d]) <= MaxDepth
    BY <1>7, <1>8, <2>1 DEF Fitting
  <2>9. QED
    BY <1>9, <2>1, <2>3, <2>4, <2>6, <2>7, <2>8
<1>16. u => \A q \in Chain(f, d) \X Slots : At(b, q).name # e.name
  BY <1>7, <1>8 DEF Fitting
<1>17. MorePaths(u, g, b2, D, pt)
  <2>1. Pathed(u, f, b, D, pt) /\ f \in Fats
    BY <1>2, <1>7, <1>8
  <2>2. AddedIn(u, f, g, b, b1, b2, D, pt, d, new, e)
    BY <1>8, <1>9, <1>11, <1>13, <1>14, <1>15, <1>16 DEF AddedIn
  <2>3. QED
    BY ONLY <1>9, <1>10, <2>1, <2>2, PathsInNew
<1>18. PICK S, pt2 : Pathed(u, g, b2, S, pt2) /\ D \subseteq S /\ \A c \in D : pt2[c] = pt[c]
  BY <1>17 DEF MorePaths
<1>19. Growing' /\ ~Adding'
  BY <1>5 DEF Growing, Adding, Flushing
<1>20. Seen' = b2
  BY <1>2, <1>5, <1>8, <1>19 DEF Seen, Grown
<1>21. Clear' = u
  BY <1>2, <1>8 DEF Clear, Free
<1>22. Pathed(Clear, fat, Seen, S, pt2)'
  BY <1>8, <1>18, <1>20, <1>21
<1>23. Walked(S, pt2)'
  BY <1>2, <1>5, <1>7, <1>18, <1>19 DEF Walked
<1>24. MemPaths'
  BY <1>22, <1>23 DEF MemPaths
<1>25. Exposed'
  BY <1>5 DEF Exposed, Flushing
<1>26. QED
  BY <1>24, <1>25 DEF DiskPaths

\* fs_add_entry, fs_write_entry_at and the writes around them.
LEMMA StoreGroupPaths ==
  ASSUME Known, Store
  PROVE  PathInv'
BY WriteDataPaths, InitDirPaths, FlushPaths, AddEntryPaths, AddEntryExtendPaths, AddEntryFailsEnds,
   AddClusterPaths, SetEntryPaths DEF Store

-------------------------------------------------------------------------------
\* Every step keeps the paths.

LEMMA InitPaths == Init => PathInv
<1>1. Init => LengthInv /\ RecursionFits
  BY FsAssumption DEF Init, NoLocals, LengthInv, RecursionFits
<1>2. Init => MemPaths /\ DiskPaths
  BY DEF Init, MemPaths, DiskPaths
<1>3. QED
  BY <1>1, <1>2 DEF PathInv

LEMMA StutterPaths ==
  ASSUME PathInv, UNCHANGED vars
  PROVE  PathInv'
<1>1. UNCHANGED <<super, ready, diskFat, fat, block, cwd, cwdPath, pc, loc, frames, marks>>
  BY DEF vars, disk, memory
<1>2. (Free(Strays)' <=> Free(Strays)) /\ Clear' = Clear /\ Seen' = Seen /\ (Exposed' <=> Exposed)
      /\ (Adding' <=> Adding)
  BY <1>1 DEF Free, Clear, Seen, Growing, Grown, Storing, Flushing, Exposed, Running, Adding
<1>3. ASSUME NEW S, NEW pt, Walked(S, pt) PROVE Walked(S, pt)'
  BY <1>1, <1>2, <1>3 DEF Walked, Fitting, Nested
<1>4. MemPaths'
  BY <1>1, <1>2, <1>3 DEF PathInv, MemPaths
<1>5. DiskPaths'
  BY <1>1, <1>2 DEF PathInv, DiskPaths
<1>6. QED
  BY <1>1, <1>2, <1>4, <1>5 DEF PathInv, LengthInv, RecursionFits

LEMMA StepPaths ==
  ASSUME Inv, PathInv, [Next]_vars
  PROVE  PathInv'
<1>1. Inv' /\ TypeInv' /\ SyncInv' /\ SoundInv'
  BY StepSound DEF Inv
<1>2. CASE UNCHANGED vars
  BY <1>2, StutterPaths
<1>3. CASE Next
  <2>1. CASE Step
    <3>1. Known
      BY <1>1, <2>1, MarksStay DEF Known, Given, Inv
    <3>2. QED
      BY <2>1, <3>1, StartingPaths, WalkPaths, DecidePaths, ScanGroupPaths, StoreGroupPaths DEF Step
  <2>2. CASE Offline \/ \E r \in Requests : Call(r) \/ CallRoot(r)
    <3>1. Known
      BY <1>1, <2>2 DEF Known, Given, Inv, Offline, Call, CallRoot
    <3>2. QED
      BY <2>2, <3>1, CallPaths
  <2>3. CASE Crash
    <3>1. Known
      BY <1>1, <2>3 DEF Known, Given, Inv, Crash
    <3>2. QED
      BY <2>3, <3>1, CrashPaths
  <2>4. QED
    BY <1>3, <2>1, <2>2, <2>3 DEF Next
<1>4. QED
  BY <1>2, <1>3

LEMMA PathInvariant == Spec => []PathInv
<1>1. Inv /\ PathInv /\ [Next]_vars => PathInv'
  BY StepPaths
<1>2. QED
  BY <1>1, InitPaths, SoundInvariant, PTL DEF Spec

\* Between two commands.
LEMMA SettledPaths ==
  ASSUME Inv, PathInv, Settled, Free(Strays), Clear
  PROVE  \E S, pt : Pathed(TRUE, fat, block, S, pt) /\ cwd \in S /\ pt[cwd] = cwdPath
<1>1. Seen = block
  BY DEF Settled, Seen, Growing, Storing, Flushing
<1>2. PICK S, pt : Pathed(Clear, fat, Seen, S, pt) /\ Walked(S, pt)
  BY DEF PathInv, MemPaths, Settled
<1>3. QED
  BY <1>1, <1>2 DEF Walked, Pathed

-------------------------------------------------------------------------------
\* Walking along names.

\* The least number of a set.
LEMMA LeastNumber ==
  ASSUME NEW A \in SUBSET Nat, NEW a \in A
  PROVE  \E m \in A : \A k \in A : m <= k
<1>1. IsWellFoundedOn(OpToRel(<, Nat), Nat)
  BY NatLessThanWellFounded
<1>2. PICK m \in A : \A k \in A : ~(<<k, m>> \in OpToRel(<, Nat))
  BY <1>1, WFMin
<1>3. ASSUME NEW k \in A PROVE m <= k
  <2>1. k \in Nat /\ m \in Nat
    OBVIOUS
  <2>2. k < m => <<k, m>> \in OpToRel(<, Nat)
    BY <2>1 DEF OpToRel
  <2>3. ~(k < m)
    BY <1>2, <2>2
  <2>4. QED
    BY <2>1, <2>3
<1>4. QED
  BY <1>3

\* Where one name leads from directory d.
Hop(d, n) ==
  LET places == FindEntry(d, n)
  IN  IF places = {} THEN NoCluster ELSE EntryAt(CHOOSE p \in places : TRUE).first

\* One way along the names is the one that WalkTo takes.
LEMMA WalkOf ==
  ASSUME NEW start, NEW names, NEW len \in Nat, len = Len(names), NEW w,
         w = [i \in 0..len |-> IF i = 0 THEN start ELSE Hop(w[i - 1], names[i])]
  PROVE  WalkTo(start, names) = w[len]
<1> DEFINE Way(a) == [i \in 0..len |-> IF i = 0 THEN start ELSE Hop(a[i - 1], names[i])]
<1> DEFINE at == CHOOSE a : a = Way(a)
<1>1. WalkTo(start, names) = at[len]
  BY DEF WalkTo, Hop
<1>2. at = Way(at)
  <2>1. w = Way(w)
    OBVIOUS
  <2>2. QED
    BY <2>1
<1>3. PICK a : a = at
  OBVIOUS
<1>4. a = [i \in 0..len |-> IF i = 0 THEN start ELSE Hop(a[i - 1], names[i])]
  BY <1>2, <1>3
<1> HIDE DEF at
<1>5. PICK A : A = {i \in 0..len : a[i] # w[i]}
  OBVIOUS
<1>6. ASSUME NEW x \in A PROVE FALSE
  <2>1. A \in SUBSET Nat
    BY <1>5
  <2>2. PICK m \in A : \A k \in A : m <= k
    BY <2>1, LeastNumber
  <2>3. m \in 0..len /\ a[m] # w[m]
    BY <1>5
  <2>4. m # 0
    BY <1>4, <2>3
  <2>5. m - 1 \in 0..len /\ m - 1 \notin A
    BY <2>2, <2>3, <2>4
  <2>6. a[m - 1] = w[m - 1]
    BY <1>5, <2>5
  <2>7. a[m] = Hop(a[m - 1], names[m]) /\ w[m] = Hop(w[m - 1], names[m])
    BY <1>4, <2>3, <2>4
  <2>8. QED
    BY <2>3, <2>6, <2>7
<1>7. len \notin A
  BY <1>6
<1>8. QED
  BY <1>1, <1>3, <1>5, <1>7

\* Directories of the tree with one path are one directory.
LEMMA OneHead ==
  ASSUME NEW f \in Fats, NEW b, NEW D, NEW F, NEW dp, Tree(f, b, D, F, dp), Reached(f, b, D, F),
         NEW S, NEW pt, Pathed(TRUE, f, b, S, pt),
         NEW v \in Heads(f, D), NEW z \in Heads(f, D), pt[v] = pt[z]
  PROVE  v = z
<1>1. Named(f, b, S, pt) /\ Single(f, b, S) /\ Closed(f, b, S) /\ pt \in [Clusters -> Labels] /\ pt[RootCluster] = <<>>
  BY DEF Pathed, Named
<1>2. D \subseteq S /\ D \subseteq Clusters
  BY <1>1, TreeWithin DEF Tree, Ground
<1>3. PICK H : H = Heads(f, D)
  OBVIOUS
<1>4. H \subseteq D /\ H \subseteq Clusters /\ \A x \in H : pt[x] \in Labels /\ Len(pt[x]) \in Nat
  BY <1>1, <1>2, <1>3 DEF Heads, Labels
<1>5. PICK A : A = {k \in Nat : \E x, y \in H : x # y /\ pt[x] = pt[y] /\ k = Len(pt[x])}
  OBVIOUS
<1>6. ASSUME NEW a \in A PROVE FALSE
  <2>1. A \in SUBSET Nat
    BY <1>5
  <2>2. PICK m \in A : \A k \in A : m <= k
    BY <2>1, LeastNumber
  <2>3. PICK x \in H, y \in H : x # y /\ pt[x] = pt[y] /\ m = Len(pt[x])
    BY <1>5, <2>2
  <2>4. ASSUME NEW c \in H, c # RootCluster
        PROVE  \E h \in H, p \in Proper(b, D) :
                 /\ At(b, p).first = c /\ p[1] \in Chain(f, h) /\ pt[c] = Append(pt[h], At(b, p).name)
    <3>1. c \in Heads(f, D)
      BY <1>3
    <3>2. \E h \in Heads(f, D), p \in Proper(b, D) :
            /\ At(b, p).type = "dir" /\ At(b, p).first = c
            /\ At(b, <<c, 2>>) = DirEntry("..", h) /\ p[1] \in Chain(f, h)
            /\ pt[c] = Append(pt[h], At(b, p).name)
      BY <1>1, <2>4, <3>1, ParentOf
    <3>3. QED
      BY <1>3, <3>2
  <2>5. ASSUME NEW c \in H, c # RootCluster PROVE pt[c] # <<>>
    BY <1>4, <2>4, <2>5 DEF Labels
  <2>6. x # RootCluster /\ y # RootCluster
    BY <1>1, <2>3, <2>5
  <2>7. PICK h \in H, p \in Proper(b, D) :
          At(b, p).first = x /\ p[1] \in Chain(f, h) /\ pt[x] = Append(pt[h], At(b, p).name)
    BY <2>4, <2>6
  <2>8. PICK g \in H, q \in Proper(b, D) :
          At(b, q).first = y /\ q[1] \in Chain(f, g) /\ pt[y] = Append(pt[g], At(b, q).name)
    BY <2>4, <2>6
  <2>9. pt[h] = pt[g] /\ At(b, p).name = At(b, q).name /\ Len(pt[h]) < m
    <3>1. PICK s, t, i, j : s = pt[h] /\ t = pt[g] /\ i = At(b, p).name /\ j = At(b, q).name
      OBVIOUS
    <3>2. Append(s, i) = Append(t, j) /\ m = Len(Append(s, i))
      BY <2>3, <2>7, <2>8, <3>1
    <3>3. s \in Labels /\ t \in Labels
      BY <1>4, <3>1
    <3>4. s = t /\ i = j /\ Len(s) < m
      BY <3>2, <3>3 DEF Labels
    <3>5. QED
      BY <3>1, <3>4
  <2>10. h = g
    <3>1. h # g => Len(pt[h]) \in A
      BY <1>4, <1>5, <2>9
    <3>2. QED
      BY <1>4, <2>1, <2>2, <2>9, <3>1
  <2>11. At(b, p).name # Empty
    BY DEF Tree, Entered
  <2>12. h \in S /\ p \in Chain(f, h) \X Slots /\ q \in Chain(f, h) \X Slots
    BY <1>2, <1>4, <2>7, <2>8, <2>10 DEF Proper
  <2>13. p = q
    BY <1>1, <2>9, <2>11, <2>12 DEF Single
  <2>14. QED
    BY <2>3, <2>7, <2>8, <2>13
<1>7. QED
  <2>1. v # z => Len(pt[v]) \in A
    BY <1>3, <1>4, <1>5
  <2>2. QED
    BY <1>6, <2>1

LEMMA PieceOf ==
  ASSUME NEW T, NEW s \in Seq(T), NEW t \in Seq(T), NEW l, NEW i \in Nat, i + 1 <= Len(s),
         SubSeq(s, 1, i + 1) = Append(t, l)
  PROVE  t = SubSeq(s, 1, i) /\ l = s[i + 1]
<1>1. PICK v, r : v = SubSeq(s, 1, i) /\ r = SubSeq(s, 1, i + 1)
  OBVIOUS
<1>2. Len(s) \in Nat /\ Len(v) = i /\ Len(r) = i + 1 /\ \A j \in 1..i : v[j] = s[j] /\ r[j] = s[j]
  BY <1>1
<1>3. r[i + 1] = s[i + 1]
  BY <1>1, <1>2
<1>4. r = Append(t, l) /\ Len(t) \in Nat
  BY <1>1
<1>5. Len(t) = i /\ r[i + 1] = l /\ \A j \in 1..i : r[j] = t[j]
  BY <1>2, <1>4
<1>6. v \in Seq(T) /\ \A j \in 1..i : v[j] = t[j]
  BY <1>1, <1>2, <1>5
<1>7. v = t
  BY <1>2, <1>5, <1>6
<1>8. QED
  BY <1>1, <1>3, <1>5, <1>7

\* Every piece of a directory's path is the path of a directory.
LEMMA HeadOfPiece ==
  ASSUME NEW f \in Fats, NEW b, NEW D, NEW F, NEW dp, Tree(f, b, D, F, dp), Reached(f, b, D, F),
         NEW S, NEW pt, Named(f, b, S, pt), NEW x \in Heads(f, D), NEW n, n = Len(pt[x]), NEW k \in 0..n
  PROVE  \E h \in Heads(f, D) : pt[h] = SubSeq(pt[x], 1, k)
<1>1. /\ pt \in [Clusters -> Labels] /\ pt[RootCluster] = <<>> /\ Heads(f, D) \subseteq Clusters
  BY DEF Named, Tree, Ground, Heads
<1>2. PICK s, H : s = pt[x] /\ H = Heads(f, D)
  OBVIOUS
<1>3. s \in Labels /\ n \in Nat /\ n = Len(s) /\ x \in H /\ \A h \in H : pt[h] \in Labels
  BY <1>1, <1>2 DEF Labels
<1>4. PICK A : A = {j \in Nat : j <= n /\ \A h \in H : pt[h] # SubSeq(s, 1, n - j)}
  OBVIOUS
<1>5. ASSUME NEW a \in A PROVE FALSE
  <2>1. A \in SUBSET Nat
    BY <1>4
  <2>2. PICK m \in A : \A j \in A : m <= j
    BY <2>1, LeastNumber
  <2>3. m \in Nat /\ m <= n /\ \A h \in H : pt[h] # SubSeq(s, 1, n - m)
    BY <1>4, <2>2
  <2>4. m # 0
    <3>1. m = 0 => SubSeq(s, 1, n - m) = s
      BY <1>3 DEF Labels
    <3>2. QED
      BY <1>2, <1>3, <2>3, <3>1
  <2>5. m - 1 \in Nat /\ m - 1 <= n /\ m - 1 \notin A
    BY <1>3, <2>2, <2>3, <2>4
  <2>6. PICK i : i = n - m
    OBVIOUS
  <2>7. i \in Nat /\ i + 1 = n - (m - 1) /\ i + 1 <= n
    BY <1>3, <2>3, <2>4, <2>6
  <2>8. PICK c \in H : pt[c] = SubSeq(s, 1, i + 1)
    BY <1>4, <2>5, <2>7
  <2>9. Len(SubSeq(s, 1, i + 1)) = i + 1
    BY <1>3, <2>7 DEF Labels
  <2>10. c # RootCluster
    BY <1>1, <2>7, <2>8, <2>9
  <2>11. PICK h, l : h \in H /\ pt[c] = Append(pt[h], l)
    <3>1. c \in Heads(f, D)
      BY <1>2
    <3>2. \E h \in Heads(f, D), p \in Proper(b, D) :
            /\ At(b, p).type = "dir" /\ At(b, p).first = c
            /\ At(b, <<c, 2>>) = DirEntry("..", h) /\ p[1] \in Chain(f, h)
            /\ pt[c] = Append(pt[h], At(b, p).name)
      BY <2>10, <3>1, ParentOf
    <3>3. QED
      BY <1>2, <3>2
  <2>12. pt[h] = SubSeq(s, 1, i)
    <3>1. PICK t : t = pt[h]
      OBVIOUS
    <3>2. t \in Labels /\ SubSeq(s, 1, i + 1) = Append(t, l)
      BY <1>3, <2>8, <2>11, <3>1
    <3>3. t = SubSeq(s, 1, i)
      <4>1. PICK T : Labels = Seq(T)
        BY DEF Labels
      <4>2. s \in Seq(T) /\ t \in Seq(T) /\ i \in Nat /\ i + 1 <= Len(s) /\ SubSeq(s, 1, i + 1) = Append(t, l)
        BY <1>3, <2>7, <3>2, <4>1
      <4>3. QED
        BY ONLY <4>2, PieceOf
    <3>4. QED
      BY <3>1, <3>3
  <2>13. QED
    BY <2>3, <2>6, <2>11, <2>12
<1>6. PICK j : j = n - k
  OBVIOUS
<1>7. j \in Nat /\ j <= n /\ n - j = k
  BY <1>3, <1>6
<1>8. j \notin A
  BY <1>5
<1>9. QED
  BY <1>2, <1>4, <1>7, <1>8

\* A walk along the path of a directory leads to it.
LEMMA PathWalk ==
  ASSUME fat \in Fats, NEW D, NEW F, NEW dp, Tree(fat, block, D, F, dp), Reached(fat, block, D, F),
         NEW S, NEW pt, Pathed(TRUE, fat, block, S, pt), NEW x \in Heads(fat, D), NEW names, pt[x] = names
  PROVE  WalkTo(RootCluster, names) = x
<1>1. Named(fat, block, S, pt) /\ Single(fat, block, S) /\ Closed(fat, block, S)
      /\ pt \in [Clusters -> Labels] /\ pt[RootCluster] = <<>>
  BY DEF Pathed, Named
<1>2. D \subseteq S /\ D \subseteq Clusters
  BY <1>1, TreeWithin DEF Tree, Ground
<1>3. PICK H, n, f, b : H = Heads(fat, D) /\ n = Len(names) /\ f = fat /\ b = block
  OBVIOUS
<1>4. /\ H \subseteq D /\ H \subseteq Clusters /\ \A h \in H : pt[h] \in Labels
      /\ names \in Labels /\ n \in Nat /\ x \in H
  BY <1>1, <1>2, <1>3 DEF Heads, Labels
<1>5. RootCluster \in H
  BY <1>3 DEF Heads, Tree, Ground, Once
<1>6. \A h, g \in H : pt[h] = pt[g] => h = g
  <2>1. ASSUME NEW h \in Heads(fat, D), NEW g \in Heads(fat, D), pt[h] = pt[g]
        PROVE  h = g
    BY <2>1, OneHead
  <2>2. QED
    BY <1>3, <2>1
<1>7. ASSUME NEW k \in 0..n PROVE \E h \in H : pt[h] = SubSeq(names, 1, k)
  <2>1. n = Len(pt[x])
    BY <1>3
  <2>2. \E h \in Heads(fat, D) : pt[h] = SubSeq(pt[x], 1, k)
    BY ONLY <1>1, <2>1, HeadOfPiece, fat \in Fats, Tree(fat, block, D, F, dp), Reached(fat, block, D, F),
            x \in Heads(fat, D), k \in 0..n
  <2>3. QED
    BY <1>3, <2>2
<1>8. PICK w : w = [k \in 0..n |-> CHOOSE h \in H : pt[h] = SubSeq(names, 1, k)]
  OBVIOUS
<1>9. \A k \in 0..n : w[k] \in H /\ pt[w[k]] = SubSeq(names, 1, k)
  BY <1>7, <1>8
<1>10. w[0] = RootCluster
  <2>1. SubSeq(names, 1, 0) = <<>>
    BY <1>4 DEF Labels
  <2>2. QED
    BY <1>1, <1>4, <1>5, <1>6, <1>9, <2>1
<1>11. w[n] = x
  <2>1. SubSeq(names, 1, n) = names
    BY <1>3, <1>4 DEF Labels
  <2>2. QED
    BY <1>4, <1>6, <1>9, <2>1
<1>12. ASSUME NEW k \in 1..n PROVE w[k] = Hop(w[k - 1], names[k])
  <2>1. PICK c, d, l : c = w[k] /\ d = w[k - 1] /\ l = names[k]
    OBVIOUS
  <2>2. k \in 0..n /\ k - 1 \in 0..n /\ k - 1 \in Nat /\ (k - 1) + 1 = k /\ k <= n
    BY <1>4
  <2>3. /\ c \in H /\ pt[c] = SubSeq(names, 1, k) /\ d \in H /\ pt[d] = SubSeq(names, 1, k - 1)
    BY <1>9, <2>1, <2>2
  <2>4. c # RootCluster
    <3>1. Len(SubSeq(names, 1, k)) = k
      BY <1>3, <1>4, <2>2 DEF Labels
    <3>2. QED
      BY <1>1, <2>3, <3>1
  <2>5. PICK h \in H, p \in Proper(b, D) :
          At(b, p).first = c /\ p[1] \in Chain(f, h) /\ pt[c] = Append(pt[h], At(b, p).name)
    <3>1. c \in Heads(fat, D)
      BY <1>3, <2>3
    <3>2. \E h \in Heads(fat, D), p \in Proper(block, D) :
            /\ At(block, p).type = "dir" /\ At(block, p).first = c
            /\ At(block, <<c, 2>>) = DirEntry("..", h) /\ p[1] \in Chain(fat, h)
            /\ pt[c] = Append(pt[h], At(block, p).name)
      BY <1>1, <2>4, <3>1, ParentOf
    <3>3. QED
      BY <1>3, <3>2
  <2>6. pt[h] = SubSeq(names, 1, k - 1) /\ At(b, p).name = l
    <3>1. PICK T, t, i, m : Labels = Seq(T) /\ t = pt[h] /\ i = k - 1 /\ m = At(b, p).name
      BY DEF Labels
    <3>2. /\ names \in Seq(T) /\ t \in Seq(T) /\ i \in Nat /\ i + 1 <= Len(names)
          /\ SubSeq(names, 1, i + 1) = Append(t, m)
      BY <1>3, <1>4, <2>2, <2>3, <2>5, <3>1
    <3>3. t = SubSeq(names, 1, i) /\ m = names[i + 1]
      BY ONLY <3>2, PieceOf
    <3>4. QED
      BY <2>1, <2>2, <3>1, <3>3
  <2>7. h = d
    BY <1>6, <2>3, <2>6
  <2>8. At(b, p).name # Empty /\ p \in Chain(f, d) \X Slots /\ d \in S /\ d \in D
    BY <1>2, <1>3, <1>4, <2>3, <2>5, <2>7 DEF Tree, Entered, Proper
  <2>9. FindEntry(d, l) # {}
    BY <1>3, <2>6, <2>8, NotThere
  <2>10. ASSUME NEW q \in FindEntry(d, l) PROVE EntryAt(q).first = c
    <3>1. q \in Chain(f, d) \X Slots /\ At(b, q).name = l /\ EntryAt(q) = At(b, q)
      BY <1>3 DEF FindEntry, FirstPlace, EntryAt, At
    <3>2. q = p
      BY <1>1, <1>3, <2>6, <2>8, <3>1 DEF Single
    <3>3. QED
      BY <2>5, <3>1, <3>2
  <2>11. Hop(d, l) = c
    BY <2>9, <2>10 DEF Hop
  <2>12. QED
    BY <2>1, <2>11
<1>13. w = [k \in 0..n |-> IF k = 0 THEN RootCluster ELSE Hop(w[k - 1], names[k])]
  <2>1. \A k \in 0..n : k # 0 => k \in 1..n
    BY <1>4
  <2>2. \A k \in 0..n : w[k] = IF k = 0 THEN RootCluster ELSE Hop(w[k - 1], names[k])
    BY <1>10, <1>12, <2>1
  <2>3. QED
    BY <1>8, <2>2
<1>14. WalkTo(RootCluster, names) = w[n]
  <2>1. PICK r : r = RootCluster
    OBVIOUS
  <2>2. /\ n \in Nat /\ n = Len(names)
        /\ w = [k \in 0..n |-> IF k = 0 THEN r ELSE Hop(w[k - 1], names[k])]
    BY <1>3, <1>4, <1>13, <2>1
  <2>3. WalkTo(r, names) = w[n]
    BY ONLY <2>2, WalkOf
  <2>4. QED
    BY <2>1, <2>3
<1>15. QED
  BY <1>11, <1>14

-------------------------------------------------------------------------------
\* Names, and the path of the current directory.

\* A name stands for one entry of a directory, also across its clusters, unless a
\* failed read has hidden an entry from a command: touch, mkdir and write look the
\* name up in the directory before fs_add_entry stores it.
THEOREM NamesStayUnique == Spec => []UniqueNames
<1>1. Inv /\ PathInv => UniqueNames
  <2>1. SUFFICES ASSUME Inv, PathInv, Settled, Free(Strays \cup {"duplicate"})
                 PROVE  NamesUnique(fat, block)
    BY DEF UniqueNames
  <2>2. Free(Strays) /\ Clear
    BY <2>1 DEF Free, Clear
  <2>3. PICK S, pt : Pathed(TRUE, fat, block, S, pt)
    BY <2>1, <2>2, SettledPaths
  <2>4. Closed(fat, block, S) /\ Single(fat, block, S)
    BY <2>3 DEF Pathed, Named
  <2>5. Dirs(fat, block) \subseteq S
    BY <2>4, DirsWithin
  <2>6. ASSUME NEW p \in ProperPlaces(fat, block), block[p[1]][p[2]].type = "dir"
        PROVE  block[p[1]][p[2]].first \in S
    <3>1. p \in Proper(block, S) /\ At(block, p) = block[p[1]][p[2]]
      BY <2>5 DEF ProperPlaces, ProperAt, Proper, At
    <3>2. QED
      BY <2>4, <2>6, <3>1 DEF Closed
  <2>7. DirHeads(fat, block) \subseteq S
    BY <2>4, <2>6 DEF DirHeads, Closed
  <2>8. QED
    BY <2>4, <2>7 DEF NamesUnique, Single, At
<1>2. QED
  BY <1>1, SoundInvariant, PathInvariant, PTL

\* The path text that where and the prompt show leads from the root to the current
\* directory, after every cd, also one through "..", and after every removal and
\* power loss; after a name made twice, a look-up may follow the other one.
THEOREM CwdPathStaysTrue == Spec => []CwdPathLeads
<1>1. Inv /\ PathInv => CwdPathLeads
  <2>1. SUFFICES ASSUME Inv, PathInv, Settled, Free(Strays \cup {"duplicate"})
                 PROVE  WalkTo(RootCluster, cwdPath) = cwd
    BY DEF CwdPathLeads
  <2>2. Free(Strays) /\ Clear
    BY <2>1 DEF Free, Clear
  <2>3. PICK S, pt : Pathed(TRUE, fat, block, S, pt) /\ cwd \in S /\ pt[cwd] = cwdPath
    BY <2>1, <2>2, SettledPaths
  <2>4. fat \in Fats /\ ready /\ pc = "idle"
    BY <2>1 DEF Inv, TypeInv, TypeOK, Settled
  <2>5. PICK D, F, dp : Phase(D, F, dp)
    BY <2>1, <2>2, <2>4 DEF Inv, SoundInv, MemInv
  <2>6. Tree(fat, block, D, F, dp) /\ Reached(fat, block, D, F) /\ cwd \in Heads(fat, D)
    BY <2>4, <2>5 DEF Phase, Still, Resting, Shape
  <2>7. PICK x, names : x = cwd /\ names = cwdPath
    OBVIOUS
  <2>8. /\ fat \in Fats /\ Tree(fat, block, D, F, dp) /\ Reached(fat, block, D, F)
        /\ Pathed(TRUE, fat, block, S, pt) /\ x \in Heads(fat, D) /\ pt[x] = names
    BY <2>3, <2>4, <2>6, <2>7
  <2>9. WalkTo(RootCluster, names) = x
    BY ONLY <2>8, PathWalk
  <2>10. QED
    BY <2>7, <2>9
<1>2. QED
  BY <1>1, SoundInvariant, PathInvariant, PTL

\* fs_remove_dir_contents never runs out of stack in a tree that is sound: no
\* directory lies deeper than the 128 bytes of g_cwd_path allow it to be made.
THEOREM RecursionStaysShallow ==
  ASSUME NestingFits
  PROVE  Spec => []RecursionFits
<1>1. PathInv => RecursionFits
  BY DEF PathInv
<1>2. QED
  BY <1>1, PathInvariant, PTL

-------------------------------------------------------------------------------
\* What the files contain.

\* What leaves a file in pieces.
Tears == Strays \cup {"torn"}

\* Every file of the directories S is whole, but for the entries at X.
Texted(f, b, S, X) ==
  /\ Closed(f, b, S)
  /\ \A p \in Proper(b, S) \ X : At(b, p).type = "file" => Whole(f, b, At(b, p))

\* Cluster c has number ps[c] in the chain of entry e, and those before number k,
\* which is cluster y, hold their piece of the text.
Laid(f, b, e, text, ps, y, k) ==
  /\ e.first \in Clusters /\ text \in Texts
  /\ Cardinality(Chain(f, e.first)) = e.size
  /\ ps[e.first] = 1
  /\ \A c \in Chain(f, e.first) :
       /\ ps[c] \in 1..e.size
       /\ IF f[c] \in Clusters THEN ps[f[c]] = ps[c] + 1 ELSE f[c] = EOC /\ ps[c] = e.size
       /\ ps[c] < k => b[c] = TextBlock(text, ps[c])
  /\ \A c, d \in Chain(f, e.first) : ps[c] = ps[d] => c = d
  /\ y \in Chain(f, e.first) /\ ps[y] = k

\* A file of no clusters.
LEMMA WholeEmpty ==
  ASSUME NEW f, NEW b, NEW e, e.size = 0, e.first = NoCluster
  PROVE  Whole(f, b, e)
BY DEF Whole

\* A file depends on the links and the contents of its clusters only.
LEMMA WholeSame ==
  ASSUME NEW f \in Fats, NEW g \in Fats, NEW b, NEW b2, NEW e, Whole(f, b, e),
         \A c \in Chain(f, e.first) : g[c] = f[c] /\ b2[c] = b[c]
  PROVE  Whole(g, b2, e)
<1>1. CASE e.size = 0
  BY <1>1 DEF Whole
<1>2. CASE e.size # 0
  <2>1. PICK x, C : x = e.first /\ C = Chain(f, x)
    OBVIOUS
  <2>2. x \in Clusters /\ Cardinality(C) = e.size
    BY <1>2, <2>1 DEF Whole
  <2>3. Chain(g, x) = C
    BY <2>1, <2>2, ChainSame
  <2>4. x \in C /\ ClosedUnderLinks(f, C)
    BY <2>1, <2>2, ChainProperties
  <2>5. PICK text \in Texts :
          /\ b[x] = TextBlock(text, 1)
          /\ \A c \in C, k \in 1..MaxSize :
               b[c] = TextBlock(text, k) =>
                 IF k = e.size THEN f[c] = EOC
                 ELSE f[c] \in Clusters /\ b[f[c]] = TextBlock(text, k + 1)
    BY <1>2, <2>1 DEF Whole
  <2>6. b2[x] = TextBlock(text, 1)
    BY <2>1, <2>4, <2>5
  <2>7. ASSUME NEW c \in C, NEW k \in 1..MaxSize, b2[c] = TextBlock(text, k)
        PROVE  IF k = e.size THEN g[c] = EOC ELSE g[c] \in Clusters /\ b2[g[c]] = TextBlock(text, k + 1)
    <3>1. b[c] = TextBlock(text, k) /\ g[c] = f[c]
      BY <2>1, <2>7
    <3>2. f[c] \in Clusters => b2[f[c]] = b[f[c]]
      BY <2>1, <2>4 DEF ClosedUnderLinks
    <3>3. QED
      BY <2>5, <3>1, <3>2
  <2>8. QED
    BY <1>2, <2>1, <2>2, <2>3, <2>5, <2>6, <2>7 DEF Whole
<1>3. QED
  BY <1>1, <1>2

\* A piece of a text tells its number.
LEMMA PieceNumber ==
  ASSUME NEW text, NEW i, NEW j, TextBlock(text, i) = TextBlock(text, j)
  PROVE  i = j
<1>1. 1 \in Slots
  BY FsAssumption DEF Slots
<1>2. TextBlock(text, i)[1].size = i /\ TextBlock(text, j)[1].size = j
  BY <1>1 DEF TextBlock
<1>3. QED
  BY <1>2

\* A text whose last cluster has been written is whole.
LEMMA LaidWhole ==
  ASSUME NEW f \in Fats, NEW b, NEW e, e.size \in Nat, NEW text, NEW ps, NEW y, NEW k,
         Laid(f, b, e, text, ps, y, k), b[y] = TextBlock(text, k),
         k = e.size \/ f[y] \notin Clusters
  PROVE  Whole(f, b, e)
<1>1. PICK x, C, n : x = e.first /\ C = Chain(f, x) /\ n = e.size
  OBVIOUS
<1>2. /\ x \in Clusters /\ text \in Texts /\ Cardinality(C) = n /\ ps[x] = 1
      /\ \A c, d \in C : ps[c] = ps[d] => c = d
      /\ y \in C /\ ps[y] = k /\ n \in Nat
  BY <1>1 DEF Laid
<1>3. /\ \A c \in C : ps[c] \in 1..n
      /\ \A c \in C : IF f[c] \in Clusters THEN ps[f[c]] = ps[c] + 1 ELSE f[c] = EOC /\ ps[c] = n
      /\ \A c \in C : ps[c] < k => b[c] = TextBlock(text, ps[c])
  BY <1>1 DEF Laid
<1>4. x \in C /\ ClosedUnderLinks(f, C)
  BY <1>1, <1>2, ChainProperties
<1>5. k = n
  BY <1>1, <1>2, <1>3
<1>6. \A c \in C : b[c] = TextBlock(text, ps[c])
  <2>1. TAKE c \in C
  <2>2. CASE ps[c] = k
    BY <1>2, <2>2
  <2>3. CASE ps[c] # k
    BY <1>2, <1>3, <1>5, <2>3
  <2>4. QED
    BY <2>2, <2>3
<1>7. n # 0
  BY <1>2, <1>3, <1>4
<1>8. ASSUME NEW c \in C, NEW j \in 1..MaxSize, b[c] = TextBlock(text, j)
      PROVE  IF j = n THEN f[c] = EOC ELSE f[c] \in Clusters /\ b[f[c]] = TextBlock(text, j + 1)
  <2>1. ps[c] = j
    BY <1>6, <1>8, PieceNumber
  <2>2. CASE j = n
    <3>1. f[c] \notin Clusters
      <4>1. SUFFICES ASSUME f[c] \in Clusters PROVE FALSE
        OBVIOUS
      <4>2. f[c] \in C
        BY <1>4, <4>1 DEF ClosedUnderLinks
      <4>3. ps[f[c]] = n + 1 /\ ps[f[c]] \in 1..n
        BY <1>3, <2>1, <2>2, <4>1, <4>2
      <4>4. QED
        BY <1>2, <4>3
    <3>2. QED
      BY <1>3, <2>2, <3>1
  <2>3. CASE j # n
    <3>1. f[c] \in Clusters /\ ps[f[c]] = j + 1
      BY <1>3, <2>1, <2>3
    <3>2. f[c] \in C
      BY <1>4, <3>1 DEF ClosedUnderLinks
    <3>3. QED
      BY <1>6, <2>3, <3>1, <3>2
  <2>4. QED
    BY <2>2, <2>3
<1>9. b[x] = TextBlock(text, 1)
  BY <1>2, <1>4, <1>6
<1>10. QED
  BY <1>1, <1>2, <1>7, <1>8, <1>9 DEF Whole

\* The next cluster of a text is written.
LEMMA LaidOn ==
  ASSUME NEW f \in Fats, NEW b \in [Clusters -> Blocks], NEW e, e.size \in Nat, NEW text, NEW ps, NEW y, NEW k,
         Laid(f, b, e, text, ps, y, k), f[y] \in Clusters, NEW b2, b2 = [b EXCEPT ![y] = TextBlock(text, k)]
  PROVE  Laid(f, b2, e, text, ps, f[y], k + 1)
<1>1. PICK x, C, n : x = e.first /\ C = Chain(f, x) /\ n = e.size
  OBVIOUS
<1>2. /\ x \in Clusters /\ text \in Texts /\ Cardinality(C) = n /\ ps[x] = 1
      /\ \A c, d \in C : ps[c] = ps[d] => c = d
      /\ y \in C /\ ps[y] = k /\ n \in Nat
  BY <1>1 DEF Laid
<1>3. /\ \A c \in C : ps[c] \in 1..n
      /\ \A c \in C : IF f[c] \in Clusters THEN ps[f[c]] = ps[c] + 1 ELSE f[c] = EOC /\ ps[c] = n
      /\ \A c \in C : ps[c] < k => b[c] = TextBlock(text, ps[c])
  BY <1>1 DEF Laid
<1>4. C \subseteq Clusters /\ ClosedUnderLinks(f, C)
  BY <1>1, <1>2, ChainProperties
<1>5. b2[y] = TextBlock(text, k) /\ \A c \in Clusters : c # y => b2[c] = b[c]
  BY <1>1, <1>2, <1>4
<1>6. \A c \in C : ps[c] < k + 1 => b2[c] = TextBlock(text, ps[c])
  <2>1. SUFFICES ASSUME NEW c \in C, ps[c] < k + 1 PROVE b2[c] = TextBlock(text, ps[c])
    OBVIOUS
  <2>2. CASE c = y
    BY <1>2, <1>5, <2>2
  <2>3. CASE c # y
    <3>1. ps[c] # k
      BY <1>2, <2>3
    <3>2. ps[c] < k
      BY <1>2, <1>3, <2>1, <3>1
    <3>3. QED
      BY <1>3, <1>4, <1>5, <2>3, <3>2
  <2>4. QED
    BY <2>2, <2>3
<1>7. f[y] \in C /\ ps[f[y]] = k + 1
  BY <1>2, <1>3, <1>4 DEF ClosedUnderLinks
<1>8. QED
  BY <1>1, <1>2, <1>3, <1>6, <1>7 DEF Laid

-------------------------------------------------------------------------------
\* The number of a free cluster.
Number(f, c) == Cardinality({d \in FreeClusters(f) : d < c}) + 1

LEMMA Fewer ==
  ASSUME NEW f, NEW c \in Clusters
  PROVE  /\ IsFiniteSet({d \in FreeClusters(f) : d < c})
         /\ Cardinality({d \in FreeClusters(f) : d < c}) \in Nat
         /\ Number(f, c) \in Nat \ {0}
<1>1. {d \in FreeClusters(f) : d < c} \subseteq Clusters /\ IsFiniteSet(Clusters)
  BY ClusterFacts DEF FreeClusters
<1>2. IsFiniteSet({d \in FreeClusters(f) : d < c})
  BY <1>1, FS_Subset
<1>3. Cardinality({d \in FreeClusters(f) : d < c}) \in Nat
  BY <1>2, FS_CardinalityType
<1>4. QED
  BY <1>2, <1>3 DEF Number

\* A later cluster has a greater number.
LEMMA NumberGrows ==
  ASSUME NEW f, NEW c \in FreeClusters(f), NEW d \in Clusters, c < d
  PROVE  Number(f, c) < Number(f, d)
<1>1. PICK A, B : A = {e \in FreeClusters(f) : e < c} /\ B = {e \in FreeClusters(f) : e < d}
  OBVIOUS
<1>2. c \in Clusters /\ c \in Nat /\ d \in Nat /\ \A e \in FreeClusters(f) : e \in Nat
  BY ClusterFacts DEF FreeClusters
<1>3. A \subseteq B /\ c \in B /\ c \notin A
  <2>1. ASSUME NEW e \in A PROVE e \in B
    <3>1. e \in FreeClusters(f) /\ e \in Nat /\ e < c
      BY <1>1, <1>2, <2>1
    <3>2. e < d
      BY <1>2, <3>1
    <3>3. QED
      BY <1>1, <3>1, <3>2
  <2>2. c \in B /\ c \notin A
    BY <1>1, <1>2
  <2>3. QED
    BY <2>1, <2>2
<1>4. IsFiniteSet(B) /\ Cardinality(A) \in Nat /\ Cardinality(B) \in Nat
  BY <1>1, <1>2, Fewer
<1>5. Cardinality(A) <= Cardinality(B) /\ Cardinality(A) # Cardinality(B)
  BY <1>3, <1>4, FS_Subset
<1>6. QED
  BY <1>1, <1>4, <1>5 DEF Number

LEMMA NumberOnce ==
  ASSUME NEW f, NEW c \in FreeClusters(f), NEW d \in FreeClusters(f), Number(f, c) = Number(f, d)
  PROVE  c = d
<1>1. c \in Clusters /\ d \in Clusters /\ c \in Nat /\ d \in Nat
  BY ClusterFacts DEF FreeClusters
<1>2. Number(f, c) \in Nat /\ Number(f, d) \in Nat
  BY <1>1, Fewer
<1>3. ~(c < d) /\ ~(d < c)
  BY <1>1, <1>2, NumberGrows
<1>4. QED
  BY <1>1, <1>3

\* The first n free clusters have the numbers from 1 to n.
LEMMA FitNumbers ==
  ASSUME NEW f, NEW n \in Nat
  PROVE  FirstFit(f, n) = {c \in FreeClusters(f) : Number(f, c) <= n}
<1>1. ASSUME NEW c \in FreeClusters(f)
      PROVE  Cardinality({d \in FreeClusters(f) : d < c}) < n <=> Number(f, c) <= n
  <2>1. Cardinality({d \in FreeClusters(f) : d < c}) \in Nat
    BY Fewer DEF FreeClusters
  <2>2. QED
    BY <2>1 DEF Number
<1>2. QED
  BY <1>1 DEF FirstFit

\* The cluster with the next number is the next one.
LEMMA NumberNext ==
  ASSUME NEW f, NEW n \in Nat, NEW c \in FirstFit(f, n), NEW d \in FirstFit(f, n), c < d,
         \A e \in FirstFit(f, n) : c < e => d <= e
  PROVE  Number(f, d) = Number(f, c) + 1
<1>1. PICK A, B : A = {e \in FreeClusters(f) : e < c} /\ B = {e \in FreeClusters(f) : e < d}
  OBVIOUS
<1>2. c \in FreeClusters(f) /\ d \in FreeClusters(f) /\ Number(f, d) <= n
  BY FitNumbers
<1>3. /\ c \in Clusters /\ d \in Clusters /\ c \in Nat /\ d \in Nat
      /\ \A e \in FreeClusters(f) : e \in Nat /\ e \in Clusters
  BY <1>2, ClusterFacts DEF FreeClusters
<1>4. ASSUME NEW e \in B PROVE e \in A \cup {c}
  <2>1. e \in FreeClusters(f) /\ e < d /\ e \in Nat /\ e \in Clusters
    BY <1>1, <1>3, <1>4
  <2>2. Number(f, e) < Number(f, d) /\ Number(f, e) \in Nat /\ Number(f, d) \in Nat
    BY <1>3, <2>1, NumberGrows, Fewer
  <2>3. e \in FirstFit(f, n)
    BY <1>2, <2>1, <2>2, FitNumbers
  <2>4. ~(c < e)
    BY <1>3, <2>1, <2>3
  <2>5. QED
    BY <1>1, <1>3, <2>1, <2>4
<1>5. A \cup {c} \subseteq B /\ c \notin A
  <2>1. ASSUME NEW e \in A PROVE e \in B
    <3>1. e \in FreeClusters(f) /\ e \in Nat /\ e < c
      BY <1>1, <1>3, <2>1
    <3>2. e < d
      BY <1>3, <3>1
    <3>3. QED
      BY <1>1, <3>1, <3>2
  <2>2. c \in B /\ c \notin A
    BY <1>1, <1>2, <1>3
  <2>3. QED
    BY <2>1, <2>2
<1>6. B = A \cup {c}
  BY <1>4, <1>5
<1>7. IsFiniteSet(A) /\ Cardinality(A) \in Nat
  BY <1>1, <1>3, Fewer
<1>8. Cardinality(B) = Cardinality(A) + 1
  BY <1>5, <1>6, <1>7, FS_AddElement
<1>9. QED
  BY <1>1, <1>7, <1>8 DEF Number

\* If there is room for them there are n, and the last has number n.
LEMMA NumberLast ==
  ASSUME NEW f, NEW n \in Nat \ {0}, HasRoom(f, n), NEW m \in FirstFit(f, n),
         \A e \in FirstFit(f, n) : e <= m
  PROVE  Number(f, m) = n /\ Cardinality(FirstFit(f, n)) = n
<1>1. PICK G, A, L : G = FreeClusters(f) /\ A = FirstFit(f, n) /\ L = {e \in G : e < m}
  OBVIOUS
<1>2. A = {c \in G : Number(f, c) <= n}
  BY <1>1, FitNumbers
<1>3. G \subseteq Clusters /\ IsFiniteSet(G) /\ G \subseteq Nat
  <2>1. G \subseteq Clusters
    BY <1>1 DEF FreeClusters
  <2>2. QED
    BY <2>1, ClusterFacts, FS_Subset
<1>4. IsFiniteSet(A) /\ Cardinality(A) \in Nat /\ Cardinality(G) \in Nat
  <2>1. A \subseteq G
    BY <1>2
  <2>2. QED
    BY <1>3, <2>1, FS_Subset, FS_CardinalityType
<1>5. m \in G /\ m \in Clusters /\ m \in Nat /\ Number(f, m) <= n /\ Number(f, m) \in Nat \ {0}
  BY <1>1, <1>2, <1>3, Fewer
<1>6. A = L \cup {m}
  <2>1. ASSUME NEW e \in L PROVE e \in A
    <3>1. e \in G /\ e \in Clusters /\ e < m
      BY <1>1, <1>3, <2>1
    <3>2. Number(f, e) < Number(f, m) /\ Number(f, e) \in Nat
      BY <1>1, <1>5, <3>1, NumberGrows, Fewer
    <3>3. QED
      BY <1>2, <1>5, <3>1, <3>2
  <2>2. ASSUME NEW e \in A, e # m PROVE e \in L
    <3>1. e \in G /\ e \in Nat /\ e <= m
      BY <1>1, <1>2, <1>3, <2>2
    <3>2. QED
      BY <1>1, <1>5, <2>2, <3>1
  <2>3. QED
    BY <1>1, <2>1, <2>2
<1>7. IsFiniteSet(L) /\ Cardinality(L) \in Nat /\ m \notin L
  BY <1>1, <1>5, Fewer
<1>8. Cardinality(A) = Number(f, m)
  <2>1. Cardinality(A) = Cardinality(L) + 1
    BY <1>6, <1>7, FS_AddElement
  <2>2. QED
    BY <1>1, <2>1 DEF Number
<1>9. n <= Cardinality(A)
  <2>1. CASE G = A
    BY <1>1, <2>1 DEF HasRoom
  <2>2. CASE G # A
    <3>1. G \ A \in SUBSET Clusters /\ G \ A # {}
      BY <1>2, <1>3, <2>2
    <3>2. PICK z \in G \ A : \A e \in G \ A : z <= e
      BY <3>1, LeastExists
    <3>3. PICK Z : Z = {e \in G : e < z}
      OBVIOUS
    <3>4. z \in Clusters /\ z \in Nat /\ Number(f, z) \in Nat /\ ~(Number(f, z) <= n)
      BY <1>2, <1>3, <3>2, Fewer
    <3>5. Z \subseteq A
      <4>1. SUFFICES ASSUME NEW e \in Z, e \notin A PROVE FALSE
        OBVIOUS
      <4>2. e \in G /\ e \in Nat /\ e < z /\ z <= e
        BY <1>3, <3>2, <3>3, <4>1
      <4>3. QED
        BY <3>4, <4>2
    <3>6. Cardinality(Z) <= Cardinality(A) /\ Cardinality(Z) \in Nat
      <4>1. IsFiniteSet(Z)
        BY <1>4, <3>5, FS_Subset
      <4>2. QED
        BY <1>4, <3>5, <4>1, FS_Subset, FS_CardinalityType
    <3>7. Number(f, z) = Cardinality(Z) + 1
      BY <1>1, <3>3 DEF Number
    <3>8. QED
      BY <1>4, <3>4, <3>6, <3>7
  <2>3. QED
    BY <2>1, <2>2
<1>10. QED
  BY <1>1, <1>4, <1>5, <1>8, <1>9

\* The clusters that have been allocated for a text, before the first is written.
LEMMA AllocLaid ==
  ASSUME NEW f \in Fats, NEW n \in Nat \ {0}, HasRoom(f, n), NEW g, g = AllocChain(f, n),
         NEW y, y = Least(FirstFit(f, n)), NEW e, e.first = y, e.size = n, NEW b, NEW text \in Texts
  PROVE  \E ps : Laid(g, b, e, text, ps, y, 1)
<1>1. PICK A, ps : A = FirstFit(f, n) /\ ps = [c \in Clusters |-> Number(f, c)]
  OBVIOUS
<1>2. A \in SUBSET Clusters /\ A # {} /\ A \subseteq FreeClusters(f) /\ A \subseteq Indices /\ \A c \in A : c \notin {EOC} /\ c \in Nat
  BY <1>1, FirstFitFree, FirstFitNonempty, ClusterFacts DEF FirstFit
<1>3. y \in A /\ y \in Clusters /\ \A d \in A : y <= d
  BY <1>1, <1>2, LeastExists
<1>4. Chain(g, y) = A
  <2>1. ClosedUnderLinks(g, A)
    BY <1>1, <1>2, AllocChainLinks, ClusterFacts DEF ClosedUnderLinks
  <2>2. Chain(g, y) \subseteq A
    BY <1>2, <1>3, <2>1, ChainWithin
  <2>3. QED
    BY <1>1, <2>2, AllocCovers
<1>5. A = {c \in FreeClusters(f) : Number(f, c) <= n} /\ \A c \in A : Number(f, c) \in Nat \ {0}
  BY <1>1, <1>2, FitNumbers, Fewer
<1>6. \A c \in A : ps[c] = Number(f, c) /\ ps[c] \in 1..n
  BY <1>1, <1>2, <1>5
<1>7. \A c, d \in A : ps[c] = ps[d] => c = d
  BY <1>2, <1>6, NumberOnce
<1>8. PICK m \in A : \A d \in A : d <= m
  BY <1>2, GreatestExists
<1>9. Number(f, m) = n /\ Cardinality(A) = n
  BY <1>1, <1>8, NumberLast
<1>10. ASSUME NEW c \in A
       PROVE  IF g[c] \in Clusters THEN ps[g[c]] = ps[c] + 1 ELSE g[c] = EOC /\ ps[c] = n
  <2>1. \/ g[c] = EOC
        \/ g[c] \in A /\ c < g[c] /\ \A d \in A : c < d => g[c] <= d
    BY <1>1, <1>2, AllocChainLinks
  <2>2. CASE g[c] \in A /\ c < g[c] /\ \A d \in A : c < d => g[c] <= d
    <3>1. PICK d \in A : d = g[c]
      BY <2>2
    <3>2. c < d /\ \A e1 \in A : c < e1 => d <= e1
      BY <2>2, <3>1
    <3>3. Number(f, d) = Number(f, c) + 1
      BY <1>1, <3>2, NumberNext
    <3>4. QED
      BY <1>2, <1>6, <3>1, <3>3
  <2>3. CASE g[c] = EOC
    <3>1. {d \in A : d > c} = {}
      <4>1. SUFFICES ASSUME {d \in A : d > c} # {} PROVE FALSE
        OBVIOUS
      <4>2. g[c] = Least({d \in A : d > c})
        BY <1>1, <1>2, <4>1 DEF AllocChain
      <4>3. {d \in A : d > c} \in SUBSET Clusters
        BY <1>2
      <4>4. g[c] \in Clusters
        BY <4>1, <4>2, <4>3, LeastExists
      <4>5. QED
        BY <2>3, <4>4, ClusterFacts
    <3>2. m \in Nat /\ c \in Nat /\ c <= m /\ ~(m > c)
      BY <1>2, <1>8, <3>1
    <3>3. c = m
      BY <3>2
    <3>4. g[c] \notin Clusters
      BY <2>3, ClusterFacts
    <3>5. QED
      BY <1>6, <1>9, <2>3, <3>3, <3>4
  <2>4. QED
    BY <2>1, <2>2, <2>3
<1>11. ps[y] = 1
  <2>1. {d \in FreeClusters(f) : d < y} = {}
    <3>1. SUFFICES ASSUME NEW d \in FreeClusters(f), d < y PROVE FALSE
      OBVIOUS
    <3>2. d \in Clusters /\ d \in Nat /\ y \in Nat
      BY <1>2, <1>3, ClusterFacts DEF FreeClusters
    <3>3. Number(f, d) < Number(f, y) /\ Number(f, d) \in Nat /\ Number(f, y) \in Nat /\ Number(f, y) <= n
      BY <1>3, <1>5, <3>1, <3>2, NumberGrows, Fewer
    <3>4. d \in A
      BY <1>5, <3>3
    <3>5. QED
      BY <1>3, <3>1, <3>2, <3>4
  <2>2. Number(f, y) = 1
    BY <2>1, FS_EmptySet DEF Number
  <2>3. QED
    BY <1>3, <1>6, <2>2
<1>12. \A c \in A : ~(ps[c] < 1)
  BY <1>6
<1>13. Laid(g, b, e, text, ps, y, 1)
  BY <1>3, <1>4, <1>6, <1>7, <1>9, <1>10, <1>11, <1>12 DEF Laid
<1>14. QED
  BY <1>13

-------------------------------------------------------------------------------
\* The files of a tree.

\* The clusters of a file are none of a directory.
LEMMA FileWithin ==
  ASSUME NEW f \in Fats, NEW b, NEW D, NEW F, NEW dp, Tree(f, b, D, F, dp),
         NEW p \in Proper(b, D), At(b, p).type = "file"
  PROVE  Chain(f, At(b, p).first) \subseteq F /\ D \cap F = {}
<1>1. PICK x : x = At(b, p).first
  OBVIOUS
<1>2. Ground(f, D, F) /\ (x \in F \/ x = NoCluster) /\ D \cap F = {}
  BY <1>1 DEF Tree, Entered, Ground
<1>3. CASE x \in F
  BY <1>1, <1>2, <1>3, ChainGround
<1>4. CASE x = NoCluster
  <2>1. NoCluster \notin Clusters
    BY ClusterAssumption DEF NoCluster, Clusters
  <2>2. QED
    BY <1>1, <1>2, <1>4, <2>1, NoChain
<1>5. QED
  BY <1>2, <1>3, <1>4

\* Two chains to which no link leads do not meet.
LEMMA ChainsDiffer ==
  ASSUME NEW f \in Fats, NEW F \in SUBSET Clusters, ClosedUnderLinks(f, F),
         \A c, d \in F : f[c] \in Clusters /\ f[c] = f[d] => c = d,
         NEW x \in F, NEW y \in F, x # y, \A c \in F : f[c] # x /\ f[c] # y
  PROVE  Chain(f, x) \cap Chain(f, y) = {}
<1>1. PICK A, B : A = Chain(f, x) /\ B = Chain(f, y)
  OBVIOUS
<1>2. /\ A \subseteq F /\ B \subseteq F /\ A \subseteq Clusters /\ x \in A /\ y \in B
      /\ ClosedUnderLinks(f, A) /\ \A d \in B : d # y => \E e \in B : f[e] = d
  BY <1>1, ChainWithin, ChainProperties
<1>3. x \notin B
  BY <1>2
<1>4. ClosedUnderLinks(f, A \ B)
  <2>1. SUFFICES ASSUME NEW d \in A \ B, f[d] \in Clusters, f[d] \in B PROVE FALSE
    BY <1>2 DEF ClosedUnderLinks
  <2>2. f[d] # y
    BY <1>2, <2>1
  <2>3. PICK e \in B : f[e] = f[d]
    BY <1>2, <2>1, <2>2
  <2>4. e = d
    BY <1>2, <2>1, <2>3
  <2>5. QED
    BY <2>1, <2>4
<1>5. x \in A \ B /\ A \ B \in SUBSET Clusters
  BY <1>2, <1>3
<1>6. A \subseteq A \ B
  BY <1>1, <1>4, <1>5, ChainWithin
<1>7. QED
  BY <1>1, <1>6

\* Two files have no cluster in common.
LEMMA FilesDiffer ==
  ASSUME NEW f \in Fats, NEW b, NEW D, NEW F, NEW dp, Tree(f, b, D, F, dp),
         NEW p \in Proper(b, D), At(b, p).type = "file",
         NEW q \in Proper(b, D), At(b, q).type = "file", p # q
  PROVE  Chain(f, At(b, p).first) \cap Chain(f, At(b, q).first) = {}
<1>1. PICK x, y : x = At(b, p).first /\ y = At(b, q).first
  OBVIOUS
<1>2. /\ F \subseteq Clusters /\ ClosedUnderLinks(f, F)
      /\ x \in F \/ x = NoCluster
      /\ y \in F \/ y = NoCluster
  BY <1>1 DEF Tree, Ground, Entered, ClosedUnderLinks
<1>3. CASE x \in F /\ y \in F
  <2>1. x \in Clusters /\ y \in Clusters
    BY <1>2, <1>3
  <2>2. x # y
    BY <1>1, <2>1 DEF Tree, Once
  <2>3. \A c \in F : f[c] # x /\ f[c] # y
    BY <1>1, <2>1 DEF Tree, Once
  <2>4. \A c, d \in F : f[c] \in Clusters /\ f[c] = f[d] => c = d
    BY DEF Tree, Once
  <2>5. QED
    BY <1>1, <1>2, <1>3, <2>2, <2>3, <2>4, ChainsDiffer
<1>4. CASE x = NoCluster \/ y = NoCluster
  <2>1. NoCluster \notin Clusters
    BY ClusterAssumption DEF NoCluster, Clusters
  <2>2. Chain(f, x) = {} \/ Chain(f, y) = {}
    BY <1>4, <2>1, NoChain
  <2>3. QED
    BY <1>1, <2>2
<1>5. QED
  BY <1>2, <1>3, <1>4

\* A tree whose files are whole, but for the entries at X.
Filed(f, b, D, F, dp, X) == Tree(f, b, D, F, dp) /\ Reached(f, b, D, F) /\ Texted(f, b, D, X)

\* Whole files are whole in the part of the clusters that is a tree.
LEMMA TreeFiled ==
  ASSUME NEW f \in Fats, NEW b, NEW D, NEW F, NEW dp, Tree(f, b, D, F, dp), Reached(f, b, D, F),
         NEW S, NEW X, Texted(f, b, S, X)
  PROVE  Filed(f, b, D, F, dp, X)
<1>1. Closed(f, b, S)
  BY DEF Texted
<1>2. D \subseteq S
  BY <1>1, TreeWithin
<1>3. Closed(f, b, D)
  <2>1. S \cap D = D
    BY <1>2
  <2>2. QED
    BY <1>1, <2>1, TreeClosed
<1>4. \A p \in Proper(b, D) \ X : p \in Proper(b, S) \ X
  BY <1>2 DEF Proper
<1>5. QED
  BY <1>3, <1>4 DEF Filed, Texted

\* Neither the links nor the contents of the clusters C have changed.
Untouched(f, b, g, b2, C) == \A c \in C : g[c] = f[c] /\ b2[c] = b[c]

\* The file at p is what it was.
Remains(f, b, g, b2, D, X, p) ==
  /\ p \in Proper(b, D) \ X /\ At(b2, p) = At(b, p)
  /\ Untouched(f, b, g, b2, Chain(f, At(b, p).first))

\* With no new directory the files are whole if each one remains or is whole itself.
LEMMA FewerTexts ==
  ASSUME NEW f \in Fats, NEW g \in Fats, NEW b, NEW b2, NEW D, NEW X, Texted(f, b, D, X),
         Thinner(f, b, g, b2, D), NEW X2,
         \A p \in Proper(b2, D) \ X2 :
           At(b2, p).type = "file" => Remains(f, b, g, b2, D, X, p) \/ Whole(g, b2, At(b2, p))
  PROVE  Texted(g, b2, D, X2)
<1>1. Texted(f, b, D, X)
  OBVIOUS
<1>2. \A p \in Proper(b2, D) : At(b2, p).type = "dir" => p \in Proper(b, D) /\ At(b2, p) = At(b, p)
  BY DEF Proper, Thinner
<1>3. Closed(g, b2, D)
  BY <1>1, <1>2 DEF Texted, Closed, ClosedUnderLinks, Thinner
<1>4. ASSUME NEW p \in Proper(b2, D) \ X2, At(b2, p).type = "file"
      PROVE  Whole(g, b2, At(b2, p))
  <2>1. SUFFICES ASSUME Remains(f, b, g, b2, D, X, p) PROVE Whole(g, b2, At(b2, p))
    BY <1>4
  <2>2. PICK e : e = At(b, p) /\ At(b2, p) = e
    BY <2>1 DEF Remains
  <2>3. Whole(f, b, e) /\ \A c \in Chain(f, e.first) : g[c] = f[c] /\ b2[c] = b[c]
    BY <1>1, <1>4, <2>1, <2>2 DEF Remains, Texted, Untouched
  <2>4. QED
    BY <2>2, <2>3, WholeSame
<1>5. QED
  BY <1>3, <1>4 DEF Texted

\* The same of a tree.
LEMMA FewerFiles ==
  ASSUME NEW f \in Fats, NEW g \in Fats, NEW b, NEW b2, NEW D, NEW F, NEW dp, NEW X, Filed(f, b, D, F, dp, X),
         Thinner(f, b, g, b2, D), NEW X2,
         \A p \in Proper(b2, D) \ X2 :
           At(b2, p).type = "file" => Remains(f, b, g, b2, D, X, p) \/ Whole(g, b2, At(b2, p))
  PROVE  Texted(g, b2, D, X2)
<1>1. Texted(f, b, D, X)
  BY DEF Filed
<1>2. QED
  BY <1>1, FewerTexts

-------------------------------------------------------------------------------
\* The invariant.

\* The clusters as the operation will have left them with its next entry, or as
\* the copies have them.
Copied(E) ==
  /\ E \in [Clusters -> Blocks]
  /\ \A i \in 1..Len(frames) : E[frames[i].dir] = frames[i].buf
  /\ \A c \in Clusters : (\A i \in 1..Len(frames) : frames[i].dir # c) => E[c] = block[c]

View(E) == IF pc = "scan" THEN Copied(E) ELSE E = Seen

\* The place of the file that is being overwritten.
Unfinished == IF pc = "data" /\ loc.found THEN {loc.at} ELSE {}

\* The clusters of the text that is being written hold what they should so far, and
\* a file that is about to get its entry is whole.
Coming ==
  /\ pc = "data" =>
       /\ loc.entry.size = loc.req.size
       /\ \E ps : Laid(fat, block, loc.entry, loc.req.text, ps, loc.data, loc.k)
       /\ loc.found => IsProper(loc.entry)
  /\ Adding /\ pc # "data" /\ loc.entry.type = "file" => Whole(fat, block, loc.entry)

MemFiles ==
  ready /\ pc # "halted" /\ Free(Tears) =>
    (\E E, S : View(E) /\ Texted(fat, E, S, Unfinished)) /\ Coming

DiskFiles ==
  super /\ ~Exposed /\ ~(pc = "data" /\ loc.found) /\ Free(Tears) =>
    \E S : Texted(diskFat, block, S, {})

FileInv == MemFiles /\ DiskFiles

\* What a step may rely on.
Held == Given /\ SoundInv' /\ FileInv

LEMMA FilesTorn ==
  ASSUME ~Free(Tears)'
  PROVE  FileInv'
BY DEF FileInv, MemFiles, DiskFiles

LEMMA TearsBefore ==
  ASSUME marks \subseteq marks', Free(Tears)'
  PROVE  Free(Tears) /\ Free(Strays) /\ Free(Strays)'
BY DEF Free, Tears

\* The view of a running operation is a tree.
LEMMA ViewTree ==
  ASSUME NEW D, NEW F, NEW dp, Phase(D, F, dp), NEW E, View(E),
         \/ pc \in {"idle", "walk", "data", "initDir", "addEntry", "addCluster", "setEntry", "scan"}
         \/ pc = "flush" /\ loc.then \in {"initDir", "addEntry", "addCluster", "setEntry", "return"}
  PROVE  Shape(E, D, F, dp)
<1>1. CASE pc \in {"idle", "walk"} \/ Flushing("return")
  <2>1. Resting(D, F, dp)
    BY <1>1 DEF Phase, Still
  <2>2. ~Growing /\ ~Storing /\ pc # "scan"
    BY <1>1 DEF Growing, Storing, Flushing
  <2>3. QED
    BY <2>1, <2>2 DEF View, Seen, Resting
<1>2. CASE Adding
  <2>1. Resting(D, F, dp)
    BY <1>2 DEF Phase, AddPhase
  <2>2. ~Growing /\ ~Storing /\ pc # "scan"
    BY <1>2 DEF Adding, Growing, Storing, Flushing
  <2>3. QED
    BY <2>1, <2>2 DEF View, Seen, Resting
<1>3. CASE Storing
  <2>1. Shape(With(block, loc.at, loc.entry), D, F, dp)
    BY <1>3 DEF Phase, StorePhase
  <2>2. ~Growing /\ pc # "scan"
    BY <1>3 DEF Growing, Storing, Flushing
  <2>3. QED
    BY <1>3, <2>1, <2>2 DEF View, Seen
<1>4. CASE Growing
  <2>1. Shape(Grown, D, F, dp)
    BY <1>4 DEF Phase, GrowPhase
  <2>2. pc # "scan"
    BY <1>4 DEF Growing, Flushing
  <2>3. QED
    BY <1>4, <2>1, <2>2 DEF View, Seen
<1>5. CASE pc = "scan"
  <2>1. PICK E2 : ScanPhase(E2, D, F, dp)
    BY <1>5 DEF Phase
  <2>2. Activations(E2, D, dp) /\ Shape(E2, D, F, dp) /\ E2 \in [Clusters -> Blocks]
    BY <2>1 DEF ScanPhase, Activations
  <2>3. \A i \in 1..Len(frames) : E2[frames[i].dir] = frames[i].buf
    BY <2>2 DEF Activations, Activation, Working
  <2>4. Copied(E)
    BY <1>5 DEF View
  <2>5. ASSUME NEW c \in Clusters PROVE E[c] = E2[c]
    <3>1. CASE \A i \in 1..Len(frames) : frames[i].dir # c
      BY <2>2, <2>4, <3>1 DEF Activations, Copied
    <3>2. CASE \E i \in 1..Len(frames) : frames[i].dir = c
      BY <2>3, <2>4, <3>2 DEF Copied
    <3>3. QED
      BY <3>1, <3>2
  <2>6. E = E2
    BY <2>2, <2>4, <2>5 DEF Copied
  <2>7. QED
    BY <2>2, <2>6
<1>6. QED
  BY <1>1, <1>2, <1>3, <1>4, <1>5 DEF Adding, Storing, Growing, Flushing

\* The files of the step before.
LEMMA FilesNow ==
  ASSUME Held, Free(Tears)',
         \/ pc = "idle" /\ ready
         \/ pc \in {"walk", "data", "initDir", "addEntry", "addCluster", "setEntry", "scan"}
         \/ pc = "flush" /\ loc.then # "formatRoot"
  PROVE  /\ ready /\ Free(Tears) /\ Free(Strays) /\ Free(Strays)' /\ Coming
         /\ \E E, D, F, dp : /\ Phase(D, F, dp) /\ View(E) /\ Shape(E, D, F, dp)
                             /\ Filed(fat, E, D, F, dp, Unfinished)
<1>1. Free(Tears) /\ Free(Strays) /\ Free(Strays)'
  BY TearsBefore DEF Held, Given
<1>2. ready /\ fat \in Fats /\ loc \in Locals
  BY <1>1, TreeNow DEF Held, Given, TypeInv, TypeOK
<1>3. PICK D, F, dp : Phase(D, F, dp)
  BY <1>1, <1>2 DEF Held, Given, SoundInv, MemInv
<1>4. Coming /\ \E E, S : View(E) /\ Texted(fat, E, S, Unfinished)
  BY <1>1, <1>2 DEF Held, FileInv, MemFiles
<1>5. PICK E, S : View(E) /\ Texted(fat, E, S, Unfinished)
  BY <1>4
<1>6. Shape(E, D, F, dp)
  <2>1. pc = "flush" => loc.then \in {"initDir", "addEntry", "addCluster", "setEntry", "return"}
    BY <1>2 DEF Locals
  <2>2. QED
    BY <1>3, <1>5, <2>1, ViewTree
<1>7. Filed(fat, E, D, F, dp, Unfinished)
  <2>1. Tree(fat, E, D, F, dp) /\ Reached(fat, E, D, F)
    BY <1>6 DEF Shape
  <2>2. QED
    BY <1>2, <1>5, <2>1, TreeFiled
<1>8. QED
  BY <1>1, <1>2, <1>3, <1>4, <1>5, <1>6, <1>7

-------------------------------------------------------------------------------
\* The ways in which a step keeps the files.

\* A power loss after this step finds what was there before it.
LEMMA FilesOnDiskSame ==
  ASSUME Held, UNCHANGED <<super, diskFat, block>>, ~Exposed, ~(pc = "data" /\ loc.found)
  PROVE  DiskFiles'
<1>1. SUFFICES ASSUME super', Free(Tears)'
               PROVE  \E S : Texted(diskFat, block, S, {})'
  BY DEF DiskFiles
<1>2. super /\ Free(Tears)
  BY <1>1, TearsBefore DEF Held, Given
<1>3. PICK S : Texted(diskFat, block, S, {})
  BY <1>2 DEF Held, FileInv, DiskFiles
<1>4. QED
  BY <1>3

\* The files in memory are on disk, too.
LEMMA FilesFollow ==
  ASSUME TypeInv', SoundInv', ready', MemFiles', Calm2'
  PROVE  DiskFiles'
<1>1. SUFFICES ASSUME Free(Tears)' PROVE \E S : Texted(diskFat, block, S, {})'
  BY DEF DiskFiles
<1>2. ~Growing' /\ ~Storing' /\ pc' # "scan" /\ pc' # "halted" /\ Free(Strays)'
  BY <1>1 DEF Calm2, Growing, Storing, Adding, Flushing, Free, Tears
<1>3. PICK f, g, b : f = fat' /\ g = diskFat' /\ b = block'
  OBVIOUS
<1>4. f \in Fats /\ g \in Fats
  BY <1>3 DEF TypeInv, TypeOK
<1>5. PICK S : Texted(f, b, S, {})
  <2>1. PICK E, S : View(E)' /\ Texted(fat', E, S, Unfinished')
    BY <1>1, <1>2 DEF MemFiles
  <2>2. E = block'
    BY <1>2, <2>1 DEF View, Seen
  <2>3. Unfinished' = {}
    BY <1>2 DEF Unfinished, Storing
  <2>4. QED
    BY <1>3, <2>1, <2>2, <2>3
<1>6. PICK D, F, dp : Phase(D, F, dp)'
  BY <1>2 DEF SoundInv, MemInv
<1>7. Resting(D, F, dp)'
  BY <1>6 DEF Calm2, Phase, Still, AddPhase
<1>8. Tree(f, b, D, F, dp) /\ Reached(f, b, D, F) /\ \A c \in D \cup F : g[c] = f[c]
  BY <1>3, <1>7 DEF Resting, Shape, Agree
<1>9. Filed(f, b, D, F, dp, {})
  BY <1>4, <1>5, <1>8, TreeFiled
<1>10. Thinner(f, b, g, b, D)
  BY <1>8 DEF Thinner
<1>11. ASSUME NEW p \in Proper(b, D) \ {}, At(b, p).type = "file"
       PROVE  Remains(f, b, g, b, D, {}, p)
  <2>1. Chain(f, At(b, p).first) \subseteq F
    BY <1>4, <1>8, <1>11, FileWithin
  <2>2. QED
    BY <1>8, <1>11, <2>1 DEF Remains, Untouched
<1>12. Texted(g, b, D, {})
  BY <1>4, <1>9, <1>10, <1>11, FewerFiles
<1>13. QED
  BY <1>3, <1>12

\* A step that changes neither the table nor the clusters, outside overwrites and
\* removals.
LEMMA FilesKept ==
  ASSUME Held, UNCHANGED <<fat, block, super, diskFat>>, Calm2, Calm2', ready' => ready,
         Adding' => Adding /\ UNCHANGED <<loc>> /\ pc # "data" /\ pc' # "data"
  PROVE  FileInv'
<1>1. /\ ~Growing /\ ~Growing' /\ ~Storing /\ ~Storing' /\ pc # "scan" /\ pc' # "scan" /\ pc # "halted"
      /\ ~Exposed
  BY DEF Calm2, Adding, Growing, Storing, Flushing, Exposed, Running
<1>2. Unfinished = {} /\ Unfinished' = {}
  BY <1>1 DEF Unfinished, Storing
<1>3. MemFiles'
  <2>1. SUFFICES ASSUME ready', Free(Tears)' PROVE (\E E, S : View(E)' /\ Texted(fat', E, S, Unfinished')) /\ Coming'
    BY DEF MemFiles
  <2>2. ready /\ Free(Tears)
    BY <2>1, TearsBefore DEF Held, Given
  <2>3. Coming /\ \E E, S : View(E) /\ Texted(fat, E, S, Unfinished)
    BY <1>1, <2>2 DEF Held, FileInv, MemFiles
  <2>4. PICK E, S : View(E) /\ Texted(fat, E, S, Unfinished)
    BY <2>3
  <2>5. View(E)'
    BY <1>1, <2>4 DEF View, Seen
  <2>6. Coming'
    <3>1. CASE Adding'
      BY <2>3, <3>1 DEF Coming
    <3>2. CASE ~Adding'
      BY <1>1, <3>2 DEF Coming, Adding, Storing
    <3>3. QED
      BY <3>1, <3>2
  <2>7. QED
    BY <1>2, <2>4, <2>5, <2>6
<1>4. DiskFiles'
  BY <1>1, FilesOnDiskSame DEF Storing
<1>5. QED
  BY <1>3, <1>4 DEF FileInv

LEMMA CallFiles ==
  ASSUME Held, Offline \/ \E r \in Requests : Call(r) \/ CallRoot(r)
  PROVE  FileInv'
<1>1. pc = "idle" /\ pc' \in {"idle", "walk"} /\ UNCHANGED <<fat, diskFat, block, super, ready>>
  BY DEF Offline, Call, CallRoot, Goto, memory, disk
<1>2. Calm2 /\ Calm2' /\ ~Adding'
  BY <1>1 DEF Calm2, Adding, Flushing
<1>3. QED
  BY <1>1, <1>2, FilesKept

LEMMA WalkFiles ==
  ASSUME Held, Walk
  PROVE  FileInv'
<1>1. pc = "walk" /\ pc' \in {"walk", "idle"} /\ UNCHANGED <<ready, fat, diskFat, block, super>>
  BY DEF Walk, WalkDot, WalkDown, WalkFails, MissedByWrite, WalkTooLong, Cd, Walking, Running,
         Goto, GiveUp, Return, memory, disk
<1>2. Calm2 /\ Calm2' /\ ~Adding'
  BY <1>1 DEF Calm2, Adding, Flushing
<1>3. QED
  BY <1>1, <1>2, FilesKept

LEMMA CrashFiles ==
  ASSUME Held, Crash
  PROVE  FileInv'
<1>1. /\ pc' = "off" /\ ready' = FALSE /\ UNCHANGED <<super, diskFat, block>> /\ marks' = marks \cup CrashMarks
  BY DEF Crash, disk
<1>2. CASE Exposed \/ (pc = "data" /\ loc.found)
  <2>1. CrashMarks \cap Tears # {}
    BY <1>2 DEF Exposed, CrashMarks, Flushing, Running, Tears, Strays, Breaks
  <2>2. ~Free(Tears)'
    BY <1>1, <2>1 DEF Free
  <2>3. QED
    BY <2>2, FilesTorn
<1>3. CASE ~Exposed /\ ~(pc = "data" /\ loc.found)
  BY <1>1, <1>3, FilesOnDiskSame DEF FileInv, MemFiles
<1>4. QED
  BY <1>2, <1>3

\* Starting up.
LEMMA StartingFiles ==
  ASSUME Held, Starting
  PROVE  FileInv'
<1>1. TypeOK /\ loc \in Locals
  BY DEF Held, Given, TypeInv, TypeOK
<1>2. CASE Boot
  <2>1. pc = "off" /\ UNCHANGED <<super, diskFat, block, ready>>
    BY <1>2 DEF Boot, disk
  <2>2. ~ready'
    BY <2>1 DEF Held, Given, SyncInv, OfflineInv
  <2>3. DiskFiles'
    BY <2>1, FilesOnDiskSame DEF Exposed, Flushing, Running
  <2>4. QED
    BY <2>2, <2>3 DEF FileInv, MemFiles
<1>3. CASE FormatSuper
  <2>1. pc = "formatSuper" /\ UNCHANGED <<ready>> /\ ~ready
    BY <1>3 DEF FormatSuper, memory, Held, Given, SyncInv, OfflineInv
  <2>2. PICK w \in Writes :
          /\ super' = (w # "lost")
          /\ IF w = "done" THEN StartFlush(loc, "formatRoot") ELSE Goto("idle", loc)
          /\ marks' = IF w = "landed" THEN marks \cup {"halfFormat"} ELSE marks
    BY <1>3 DEF FormatSuper
  <2>3. w = "done" => pc' = "flush" /\ loc'.then = "formatRoot"
    BY <1>1, <2>2 DEF StartFlush, Goto, Locals
  <2>4. DiskFiles'
    <3>1. w = "done" \/ w = "lost" \/ w = "landed"
      BY DEF Writes
    <3>2. CASE w = "done"
      BY <2>3, <3>2 DEF DiskFiles, Exposed, Flushing
    <3>3. CASE w = "lost"
      BY <2>2, <3>3 DEF DiskFiles
    <3>4. CASE w = "landed"
      BY <2>2, <3>4 DEF DiskFiles, Free, Tears, Strays, Breaks
    <3>5. QED
      BY <3>1, <3>2, <3>3, <3>4
  <2>5. QED
    BY <2>1, <2>4 DEF FileInv, MemFiles
<1>4. CASE FormatRoot
  <2>1. /\ pc = "formatRoot" /\ UNCHANGED <<ready, fat>> /\ ~ready /\ diskFat = FormattedFat
    BY <1>4 DEF FormatRoot, memory, Held, Given, SyncInv, OfflineInv, SoundInv, CtlInv
  <2>2. PICK w \in Writes :
          /\ WriteBlock(RootCluster, DirBlock(RootCluster, RootCluster), w)
          /\ IF w = "done" THEN Goto("load", NoLocals) /\ marks' = marks
                           ELSE Goto("idle", NoLocals) /\ marks' = marks \cup {"halfFormat"}
    BY <1>4 DEF FormatRoot
  <2>3. UNCHANGED diskFat
    BY <2>2 DEF WriteBlock
  <2>4. DiskFiles'
    <3>1. CASE w = "done"
      <4>1. block' = [block EXCEPT ![RootCluster] = DirBlock(RootCluster, RootCluster)]
        BY <2>2, <3>1 DEF WriteBlock
      <4>2. block'[RootCluster] = DirBlock(RootCluster, RootCluster)
        BY <1>1, <4>1, FsAssumption DEF TypeOK
      <4>3. PICK b, S : b = block' /\ S = {RootCluster}
        OBVIOUS
      <4>4. RootCluster \in Clusters /\ FormattedFat[RootCluster] = EOC /\ EOC \notin Clusters
        <5>1. RootCluster \in Clusters /\ Clusters \subseteq Indices /\ RootCluster \notin {0, 1}
          BY FsAssumption, ClusterFacts DEF RootCluster
        <5>2. QED
          BY <5>1, ClusterFacts DEF FormattedFat
      <4>5. Proper(b, S) = {}
        <5>1. SUFFICES ASSUME NEW p \in Proper(b, S) PROVE FALSE
          OBVIOUS
        <5>2. PICK i \in Slots : p = <<RootCluster, i>> /\ IsProper(b[RootCluster][i])
          BY <4>3, <5>1 DEF Proper, At
        <5>3. QED
          BY <4>2, <4>3, <5>2 DEF DirBlock, DirEntry, Zeroed, IsProper, Dots
      <4>6. Texted(FormattedFat, b, S, {})
        BY <4>3, <4>4, <4>5 DEF Texted, Closed, ClosedUnderLinks
      <4>7. QED
        BY <2>1, <2>3, <4>3, <4>6 DEF DiskFiles
    <3>2. CASE w # "done"
      BY <2>2, <3>2 DEF DiskFiles, Free, Tears, Strays, Breaks
    <3>3. QED
      BY <3>1, <3>2
  <2>5. QED
    BY <2>1, <2>4 DEF FileInv, MemFiles
<1>5. CASE Load
  <2>1. PICK ok \in Reads : ready' = ok /\ fat' = IF ok THEN diskFat ELSE fat
    BY <1>5 DEF Load
  <2>2. /\ pc = "load" /\ pc' = "idle" /\ super
        /\ UNCHANGED <<super, diskFat, block, loc, marks>>
    BY <1>5 DEF Load, disk, Held, Given, SoundInv, CtlInv
  <2>3. ~Exposed
    BY <2>2 DEF Exposed, Flushing, Running
  <2>4. DiskFiles'
    BY <2>2, <2>3, FilesOnDiskSame
  <2>5. MemFiles'
    <3>1. SUFFICES ASSUME ready', Free(Tears)'
                   PROVE  (\E E, S : View(E)' /\ Texted(fat', E, S, Unfinished')) /\ Coming'
      BY DEF MemFiles
    <3>2. fat' = diskFat /\ Free(Tears)
      BY <1>1, <2>1, <2>2, <3>1 DEF Free, Reads
    <3>3. PICK S : Texted(diskFat, block, S, {})
      BY <2>2, <2>3, <3>2 DEF Held, FileInv, DiskFiles
    <3>4. ~Growing' /\ ~Storing' /\ ~Adding' /\ pc' # "scan" /\ pc' # "data"
      BY <2>2 DEF Growing, Storing, Adding, Flushing
    <3>5. Unfinished' = {} /\ Coming'
      BY <3>4 DEF Unfinished, Coming
    <3>6. PICK E : E = block'
      OBVIOUS
    <3>7. View(E)'
      BY <3>4, <3>6 DEF View, Seen
    <3>8. Texted(fat', E, S, Unfinished')
      BY <2>2, <3>2, <3>3, <3>5, <3>6
    <3>9. QED
      BY <3>5, <3>7, <3>8
  <2>6. QED
    BY <2>4, <2>5 DEF FileInv
<1>6. QED
  BY <1>2, <1>3, <1>4, <1>5 DEF Starting

-------------------------------------------------------------------------------
\* What each operation does to the files before its first write.

\* The text of a call is to be written.
LEMMA TextStarts ==
  ASSUME TypeOK, NEW f \in Fats, NEW l \in Locals, NEW e \in Entries,
         l.req.op = "write", e.size = l.req.size, e.first = NoCluster, StartData(f, l, e),
         l.found => IsProper(e)
  PROVE  Coming' /\ (pc' = "flush" => loc'.entry.size = 0 /\ loc'.entry.first = NoCluster)
<1>1. l.req \in Requests \cup {NoRequest} /\ l.req.size \in 0..MaxSize /\ l.req.size \in Nat
  BY RequestFields DEF Locals
<1>2. CASE l.req.size = 0 /\ StartFlush([l EXCEPT !.entry = e], StoreStep(l))
  <2>1. pc' = "flush" /\ loc'.entry = e
    BY <1>2 DEF StartFlush, Goto, Locals
  <2>2. Whole(fat', block', loc'.entry)
    BY <1>2, <2>1, WholeEmpty
  <2>3. QED
    BY <1>2, <2>1, <2>2 DEF Coming
<1>3. CASE l.req.size > 0 /\ Goto("data", AtData(l, e, Least(FirstFit(f, l.req.size))))
  <2>1. PICK n, y, g, x : n = l.req.size /\ y = Least(FirstFit(f, n)) /\ g = fat' /\ x = [e EXCEPT !.first = y]
    OBVIOUS
  <2>2. n \in Nat \ {0} /\ HasRoom(f, n) /\ g = AllocChain(f, n) /\ pc' = "data"
    BY <1>1, <1>3, <2>1 DEF StartData, Goto
  <2>3. loc' = [l EXCEPT !.entry = x, !.data = y, !.k = 1]
    BY <1>3, <2>1 DEF Goto, AtData
  <2>4. loc'.entry = x /\ loc'.data = y /\ loc'.k = 1 /\ loc'.req = l.req /\ loc'.found = l.found
    BY <2>3 DEF Locals
  <2>5. x.first = y /\ x.size = n /\ x.name = e.name /\ x.type = e.type
    BY <2>1 DEF Entries
  <2>6. PICK text : text = l.req.text
    OBVIOUS
  <2>7. text \in Texts
    BY <1>1, <1>3, <2>6, TextAssumption DEF NoRequest
  <2>8. PICK b : b = block'
    OBVIOUS
  <2>9. \E ps : Laid(g, b, x, text, ps, y, 1)
    BY <2>1, <2>2, <2>5, <2>7, AllocLaid
  <2>10. \E ps : Laid(fat', block', loc'.entry, loc'.req.text, ps, loc'.data, loc'.k)
    BY <2>1, <2>4, <2>6, <2>8, <2>9
  <2>11. loc'.entry.size = loc'.req.size /\ (loc'.found => IsProper(loc'.entry))
    BY <2>1, <2>4, <2>5 DEF IsProper
  <2>12. QED
    BY <2>2, <2>10, <2>11 DEF Coming
<1>4. QED
  BY <1>2, <1>3 DEF StartData

\* The files at the last component of the path of a call.
LEMMA ArrivesFiles ==
  ASSUME Held, Free(Tears)', NEW op, Arrived(op)
  PROVE  \E D, F, dp : Filed(fat, block, D, F, dp, {}) /\ loc.cur \in Heads(fat, D)
<1>1. pc = "walk"
  BY DEF Arrived, Running
<1>2. PICK E, D, F, dp : Phase(D, F, dp) /\ View(E) /\ Filed(fat, E, D, F, dp, Unfinished)
  BY <1>1, FilesNow
<1>3. E = block /\ Unfinished = {}
  BY <1>1, <1>2 DEF View, Seen, Growing, Storing, Flushing, Unfinished
<1>4. loc.cur \in Heads(fat, D)
  BY <1>1, <1>2 DEF Phase
<1>5. QED
  BY <1>2, <1>3, <1>4

\* An entry is to be added, and its clusters are allocated.
LEMMA NewEntryFiles ==
  ASSUME Held, NEW op, Arrived(op), UNCHANGED <<super, ready, diskFat, block>>,
         Adding', Coming',
         fat' = fat \/ \E n \in Nat \ {0} : HasRoom(fat, n) /\ fat' = AllocChain(fat, n)
  PROVE  FileInv'
<1>1. pc = "walk" /\ fat \in Fats /\ fat' \in Fats
  BY DEF Arrived, Running, Held, Given, TypeInv, TypeOK
<1>2. DiskFiles'
  BY <1>1, FilesOnDiskSame DEF Exposed, Flushing, Running
<1>3. ~Growing' /\ ~Storing' /\ pc' # "scan"
  BY DEF Adding, Growing, Storing, Flushing
<1>4. Unfinished' = {}
  BY <1>3 DEF Unfinished, Storing
<1>5. MemFiles'
  <2>1. SUFFICES ASSUME Free(Tears)' PROVE \E E, S : View(E)' /\ Texted(fat', E, S, Unfinished')
    BY DEF MemFiles
  <2>2. PICK D, F, dp : Filed(fat, block, D, F, dp, {})
    BY <2>1, ArrivesFiles
  <2>3. PICK f, g, b : f = fat /\ g = fat' /\ b = block
    OBVIOUS
  <2>4. f \in Fats /\ g \in Fats /\ Filed(f, b, D, F, dp, {}) /\ Tree(f, b, D, F, dp)
    BY <1>1, <2>2, <2>3 DEF Filed
  <2>5. \A c \in D \cup F : g[c] = f[c]
    <3>1. CASE g = f
      BY <3>1
    <3>2. CASE \E n \in Nat \ {0} : g = AllocChain(f, n)
      <4>1. PICK n \in Nat \ {0} : g = AllocChain(f, n)
        BY <3>2
      <4>2. \A c \in D \cup F : c \in Indices /\ c \notin FirstFit(f, n)
        BY <2>4, FirstFitFree, ClusterFacts DEF Tree, Ground
      <4>3. QED
        BY <2>4, <4>1, <4>2, AllocChainLinks
    <3>3. QED
      BY <2>3, <3>1, <3>2
  <2>6. Thinner(f, b, g, b, D)
    BY <2>5 DEF Thinner
  <2>7. ASSUME NEW p \in Proper(b, D) \ {}, At(b, p).type = "file"
        PROVE  Remains(f, b, g, b, D, {}, p)
    <3>1. Chain(f, At(b, p).first) \subseteq F
      BY <2>4, <2>7, FileWithin
    <3>2. QED
      BY <2>5, <2>7, <3>1 DEF Remains, Untouched
  <2>8. Texted(g, b, D, {})
    BY <2>4, <2>6, <2>7, FewerFiles
  <2>9. View(b)'
    BY <1>3, <2>3 DEF View, Seen
  <2>10. QED
    BY <1>4, <2>3, <2>8, <2>9
<1>6. QED
  BY <1>2, <1>5 DEF FileInv

LEMMA MkdirFiles ==
  ASSUME Held, Mkdir
  PROVE  FileInv'
<1>1. PICK y, e, l : /\ y = Least(FirstFit(fat, 1)) /\ e = DirEntry(Name, y)
                     /\ l = [loc EXCEPT !.entry = e]
  OBVIOUS
<1>2. /\ Arrived("mkdir") /\ UNCHANGED <<super, ready, diskFat, block>> /\ loc \in Locals
      /\ HasRoom(fat, 1) /\ fat' = AllocChain(fat, 1) /\ StartFlush(l, "initDir")
  BY <1>1 DEF Mkdir, disk, Held, Given, TypeInv, TypeOK
<1>3. pc' = "flush" /\ loc'.then = "initDir" /\ loc'.entry = e /\ e.type = "dir"
  BY <1>1, <1>2 DEF StartFlush, Goto, Locals, DirEntry
<1>4. Adding' /\ Coming'
  BY <1>3 DEF Adding, Flushing, Coming
<1>5. PICK n \in Nat \ {0} : n = 1
  OBVIOUS
<1>6. HasRoom(fat, n) /\ fat' = AllocChain(fat, n)
  BY <1>2, <1>5
<1>7. QED
  BY <1>2, <1>4, <1>6, NewEntryFiles

LEMMA TouchFiles ==
  ASSUME Held, Touch
  PROVE  FileInv'
<1>1. PICK e : e = FileEntry(Name, 0, NoCluster)
  OBVIOUS
<1>2. /\ Arrived("touch") /\ UNCHANGED <<super, ready, fat, diskFat, block>> /\ loc \in Locals
      /\ pc' = "addEntry" /\ loc' = [loc EXCEPT !.entry = e]
  BY <1>1 DEF Touch, Goto, memory, disk, Held, Given, TypeInv, TypeOK
<1>3. loc'.entry = e
  BY <1>2 DEF Locals
<1>4. e.size = 0 /\ e.first = NoCluster
  BY <1>1 DEF FileEntry
<1>5. Whole(fat', block', loc'.entry)
  BY <1>3, <1>4, WholeEmpty
<1>6. Adding' /\ Coming'
  BY <1>2, <1>5 DEF Adding, Coming
<1>7. QED
  BY <1>2, <1>6, NewEntryFiles

LEMMA WriteNewFiles ==
  ASSUME Held, WriteNew
  PROVE  FileInv'
<1>1. PICK e, y : e = FileEntry(Name, loc.req.size, NoCluster) /\ y = Least(FirstFit(fat, loc.req.size))
  OBVIOUS
<1>2. /\ Arrived("write") /\ UNCHANGED <<super, ready, diskFat, block>> /\ TypeOK
      /\ StartData(fat, loc, e) /\ loc.req.op = "write" /\ ~loc.found
  BY <1>1 DEF WriteNew, disk, Held, Given, TypeInv, Arrived, Running, SoundInv, CtlInv
<1>3. fat \in Fats /\ loc \in Locals
  BY <1>2 DEF TypeOK
<1>4. loc.req.size \in 0..MaxSize
  BY <1>3, RequestFields DEF Locals
<1>5. Name \in Names \cup Dots
  BY <1>2, LastName
<1>6. e \in Entries /\ e.size = loc.req.size /\ e.first = NoCluster
  BY <1>1, <1>4, <1>5 DEF FileEntry, Entries
<1>7. DataStarted(fat, loc, e, y)
  BY <1>1, <1>2, <1>3, <1>4, <1>6, StartDataSteps
<1>8. Coming'
  BY <1>2, <1>3, <1>6, TextStarts
<1>9. Adding'
  BY <1>2, <1>7 DEF DataStarted, StoreStep, Adding, Flushing
<1>10. fat' = fat \/ \E n \in Nat \ {0} : HasRoom(fat, n) /\ fat' = AllocChain(fat, n)
  BY <1>7 DEF DataStarted
<1>11. QED
  BY <1>2, <1>8, <1>9, <1>10, NewEntryFiles

\* An entry is to be replaced, and its chain C is no longer what it was.
LEMMA StoreFiles ==
  ASSUME Held, NEW D, NEW F, NEW dp, Filed(fat, block, D, F, dp, {}), UNCHANGED block,
         Storing', Coming', NEW p \in Proper(block, D), loc'.at = p, NEW e \in Entries, loc'.entry = e,
         e.name \in {Empty, At(block, p).name}, ~(IsProper(e) /\ e.type = "dir"),
         IsProper(e) /\ Unfinished' = {} => Whole(fat', With(block, p, e), e),
         NEW C, C = Chain(fat, At(block, p).first),
         \A c \in (D \cup F) \ C : fat'[c] = fat[c],
         \A c \in D : fat'[c] \in Clusters => fat'[c] = fat[c]
  PROVE  MemFiles'
<1>1. fat \in Fats /\ fat' \in Fats /\ block \in [Clusters -> Blocks] /\ D \subseteq Clusters /\ F \subseteq Clusters
      /\ p \in D \X Slots
  BY DEF Held, Given, TypeInv, TypeOK, Filed, Tree, Ground, Proper
<1>2. ~Growing' /\ pc' # "scan"
  BY DEF Growing, Storing, Flushing
<1>3. PICK f, g, b, b2, X : f = fat /\ g = fat' /\ b = block /\ b2 = With(block, p, e) /\ X = Unfinished'
  OBVIOUS
<1>4. f \in Fats /\ g \in Fats /\ Filed(f, b, D, F, dp, {}) /\ Tree(f, b, D, F, dp) /\ p \in Proper(b, D)
  BY <1>1, <1>3 DEF Filed
<1>5. /\ At(b2, p) = e /\ \A q \in D \X Slots : q # p => At(b2, q) = At(b, q)
      /\ \A c \in Clusters : c # p[1] => b2[c] = b[c]
  <2>1. p \in Clusters \X Slots
    BY <1>1
  <2>2. /\ At(b2, p) = e /\ \A q \in Clusters \X Slots : q # p => At(b2, q) = At(b, q)
        /\ \A c \in Clusters : c # p[1] => b2[c] = b[c]
    BY <1>1, <1>3, <2>1, WithAt
  <2>3. \A q \in D \X Slots : q \in Clusters \X Slots
    BY <1>1
  <2>4. QED
    BY <2>2, <2>3
<1>6. Thinner(f, b, g, b2, D)
  <2>1. ASSUME NEW q \in D \X Slots
        PROVE  /\ At(b2, q).name \in {Empty, At(b, q).name}
               /\ IsProper(At(b2, q)) /\ At(b2, q).type = "dir" => At(b2, q) = At(b, q)
    BY <1>3, <1>5
  <2>2. QED
    BY <1>3, <2>1 DEF Thinner
<1>7. X = {} \/ X = {p}
  BY <1>3 DEF Unfinished
<1>8. ASSUME NEW q \in Proper(b2, D) \ X, At(b2, q).type = "file"
      PROVE  Remains(f, b, g, b2, D, {}, q) \/ Whole(g, b2, At(b2, q))
  <2>1. CASE q = p
    BY <1>3, <1>5, <1>7, <1>8, <2>1 DEF Proper
  <2>2. CASE q # p
    <3>1. At(b2, q) = At(b, q) /\ q \in Proper(b, D)
      BY <1>5, <1>8, <2>2 DEF Proper
    <3>2. PICK Q : Q = Chain(f, At(b, q).first)
      OBVIOUS
    <3>3. Q \subseteq F /\ D \cap F = {}
      BY <1>4, <1>8, <3>1, <3>2, FileWithin
    <3>4. Q \cap C = {}
      <4>1. CASE At(b, p).type = "file"
        BY <1>3, <1>4, <1>8, <2>2, <3>1, <3>2, <4>1, FilesDiffer
      <4>2. CASE At(b, p).type = "dir"
        <5>1. At(b, p).first \in D /\ Ground(f, D, F)
          BY <1>4, <4>2 DEF Tree, Entered
        <5>2. C \subseteq D
          BY <1>3, <1>4, <5>1, ChainGround
        <5>3. QED
          BY <3>3, <5>2
      <4>3. QED
        BY <1>4, <4>1, <4>2 DEF Proper, IsProper
    <3>5. p[1] \in D
      BY <1>1
    <3>6. Untouched(f, b, g, b2, Q)
      BY <1>1, <1>3, <1>5, <3>3, <3>4, <3>5 DEF Untouched
    <3>7. QED
      BY <3>1, <3>2, <3>6 DEF Remains
  <2>3. QED
    BY <2>1, <2>2
<1>9. Texted(g, b2, D, X)
  BY <1>4, <1>6, <1>8, FewerFiles
<1>10. View(b2)'
  BY <1>2, <1>3 DEF View, Seen
<1>11. QED
  BY <1>3, <1>9, <1>10 DEF MemFiles

LEMMA WriteOverFiles ==
  ASSUME Held, WriteOver
  PROVE  FileInv'
<1>1. PICK p \in Overwritable :
        StartData(Released(EntryAt(p)), [loc EXCEPT !.found = TRUE, !.at = p],
                  [EntryAt(p) EXCEPT !.size = loc.req.size, !.first = NoCluster])
  BY DEF WriteOver
<1>2. PICK l, e, x, f, y : /\ l = [loc EXCEPT !.found = TRUE, !.at = p]
                           /\ x = EntryAt(p).first /\ f = FreeChain(fat, x)
                           /\ e = [EntryAt(p) EXCEPT !.size = loc.req.size, !.first = NoCluster]
                           /\ y = Least(FirstFit(f, loc.req.size))
  OBVIOUS
<1>3. /\ Arrived("write") /\ UNCHANGED <<super, ready, diskFat, block, marks>> /\ TypeOK
      /\ StartData(f, l, e) /\ loc.req.op = "write" /\ pc = "walk"
  BY <1>1, <1>2 DEF WriteOver, disk, Held, Given, TypeInv, Arrived, Running, Released
<1>4. fat \in Fats /\ loc \in Locals
  BY <1>3 DEF TypeOK
<1>5. loc.req.size \in 0..MaxSize
  BY <1>4, RequestFields DEF Locals
<1>6. p \in Places /\ EntryAt(p).type = "file"
  BY DEF Overwritable
<1>7. p \in Clusters \X Slots /\ EntryAt(p) \in Entries
  BY <1>3, <1>6, PlaceType
<1>8. e \in Entries /\ e.name = EntryAt(p).name /\ e.type = "file" /\ e.first = NoCluster /\ e.size = loc.req.size
  BY <1>2, <1>5, <1>6, <1>7 DEF Entries
<1>9. l \in Locals /\ l.req = loc.req /\ l.found /\ l.at = p
  BY <1>2, <1>4, <1>7 DEF Locals
<1>10. f \in Fats
  BY <1>2, <1>4, FreeChainType
<1>11. DataStarted(f, l, e, y)
  <2>1. l.req.op = "write" /\ l.req.size \in 0..MaxSize /\ y = Least(FirstFit(f, l.req.size))
    BY <1>2, <1>3, <1>5, <1>9
  <2>2. QED
    BY <1>3, <1>8, <1>9, <1>10, <2>1, StartDataSteps
<1>12. /\ Storing' /\ loc'.at = p /\ loc'.found
       /\ pc' = "data" \/ (pc' = "flush" /\ loc'.then = "setEntry")
  BY <1>9, <1>11 DEF DataStarted, StoreStep, Storing, Flushing
<1>13. loc'.entry \in Entries
  BY DEF Held, Given, TypeInv, TypeOK, Locals
<1>14. loc'.entry.name = EntryAt(p).name /\ loc'.entry.type = "file"
  BY <1>8, <1>11 DEF DataStarted, Entries
<1>15. DiskFiles'
  BY <1>12 DEF DiskFiles, Exposed, Flushing
<1>16. MemFiles'
  <2>1. SUFFICES ASSUME Free(Tears)' PROVE MemFiles'
    BY DEF MemFiles
  <2>2. PICK D, F, dp : Filed(fat, block, D, F, dp, {}) /\ loc.cur \in Heads(fat, D)
    BY <1>3, <2>1, ArrivesFiles
  <2>3. Tree(fat, block, D, F, dp) /\ Reached(fat, block, D, F)
    BY <2>2 DEF Filed
  <2>4. Name \in Names \cup Dots
    BY <1>3, LastName
  <2>5. p \in D \X Slots /\ At(block, p) = EntryAt(p) /\ p \in Proper(block, D)
    BY <1>3, <1>6, <2>2, <2>3, <2>4, PlaceFound
  <2>6. IsProper(e)
    BY <1>8, <2>5 DEF Proper, IsProper
  <2>7. Coming' /\ (pc' = "flush" => loc'.entry.size = 0 /\ loc'.entry.first = NoCluster)
    BY <1>3, <1>8, <1>9, <1>10, <2>6, TextStarts
  <2>8. PICK C : C = Chain(fat, At(block, p).first)
    OBVIOUS
  <2>9. C \cap D = {} /\ C = Chain(fat, x)
    BY <1>2, <1>4, <1>6, <2>3, <2>5, <2>8, FileApart
  <2>10. D \subseteq Clusters /\ F \subseteq Clusters /\ \A c \in D \cup F : fat[c] # FREE
    BY <2>3 DEF Tree, Ground
  <2>11. \A c \in (D \cup F) \ C : f[c] = fat[c] /\ c \in Indices
    BY <1>2, <2>9, <2>10, ClusterFacts DEF FreeChain
  <2>12. \A c \in (D \cup F) \ C : fat'[c] = fat[c]
    <3>1. CASE fat' = f
      BY <2>11, <3>1
    <3>2. CASE fat' = AllocChain(f, l.req.size)
      <4>1. PICK n : n = l.req.size
        OBVIOUS
      <4>2. \A c \in (D \cup F) \ C : c \notin FirstFit(f, n)
        BY <1>10, <2>10, <2>11, FirstFitFree
      <4>3. QED
        BY <1>10, <2>11, <3>2, <4>1, <4>2, AllocChainLinks
    <3>3. QED
      BY <1>11, <3>1, <3>2 DEF DataStarted
  <2>13. \A c \in D : fat'[c] \in Clusters => fat'[c] = fat[c]
    BY <2>9, <2>12
  <2>14. PICK e2 \in Entries : e2 = loc'.entry
    BY <1>13
  <2>15. e2.name \in {Empty, At(block, p).name} /\ ~(IsProper(e2) /\ e2.type = "dir")
    BY <1>14, <2>5, <2>14
  <2>16. IsProper(e2) /\ Unfinished' = {} => Whole(fat', With(block, p, e2), e2)
    <3>1. SUFFICES ASSUME Unfinished' = {} PROVE Whole(fat', With(block, p, e2), e2)
      OBVIOUS
    <3>2. pc' = "flush"
      BY <1>12, <3>1 DEF Unfinished
    <3>3. e2.size = 0 /\ e2.first = NoCluster
      BY <2>14, <2>7, <3>2
    <3>4. QED
      BY <3>3, WholeEmpty
  <2>17. block' = block /\ loc'.at = p /\ loc'.entry = e2
    BY <1>3, <1>12, <2>14
  <2>18. QED
    BY <1>12, <2>2, <2>5, <2>8, <2>12, <2>13, <2>15, <2>16, <2>17, <2>7, StoreFiles
<1>17. QED
  BY <1>15, <1>16 DEF FileInv

\* A call that is turned down.
LEMMA RefusedFiles ==
  ASSUME Held, pc = "walk", pc' = "idle", UNCHANGED <<fat, block, super, diskFat, ready>>
  PROVE  FileInv'
<1>1. Calm2 /\ Calm2' /\ ~Adding'
  BY DEF Calm2, Adding, Flushing
<1>2. QED
  BY <1>1, FilesKept

\* A mishap leaves a mark.
LEMMA MarkedFiles ==
  ASSUME NEW m \in Tears, m \in marks'
  PROVE  FileInv'
<1>1. ~Free(Tears)'
  BY DEF Free
<1>2. QED
  BY <1>1, FilesTorn

LEMMA WriteOverNoRoomFiles ==
  ASSUME Held, WriteOverNoRoom
  PROVE  FileInv'
<1>1. PICK p \in Overwritable :
        /\ fat' = Released(EntryAt(p))
        /\ GiveUp(IF EntryAt(p).first = NoCluster THEN {} ELSE {"dangling"})
  BY DEF WriteOverNoRoom
<1>2. /\ pc = "walk" /\ UNCHANGED <<super, ready, diskFat, block>> /\ TypeOK /\ pc' = "idle"
  BY <1>1 DEF WriteOverNoRoom, disk, GiveUp, Return, Held, Given, TypeInv, Arrived, Running
<1>3. CASE EntryAt(p).first = NoCluster
  <2>1. fat' = fat
    BY <1>1, <1>2, <1>3, ReleaseNothing DEF Released
  <2>2. QED
    BY <1>2, <2>1, RefusedFiles
<1>4. CASE EntryAt(p).first # NoCluster
  <2>1. "dangling" \in marks'
    BY <1>1, <1>4 DEF GiveUp
  <2>2. "dangling" \in Tears
    BY DEF Tears, Strays, Breaks
  <2>3. QED
    BY <2>1, <2>2, MarkedFiles
<1>5. QED
  BY <1>3, <1>4

\* The entry that has been looked up is to be cleared, and its chain is free.
LEMMA ClearFiles ==
  ASSUME Held, NEW op \in {"rm", "rmdir"}, Arrived(op), UNCHANGED <<super, ready, diskFat, block>>,
         NEW p \in Places, EntryAt(p).type = "file" \/ (EntryAt(p).type = "dir" /\ Name \notin Dots),
         fat' = FreeChain(fat, EntryAt(p).first),
         pc' = "setEntry", loc'.at = p, loc'.entry = Zeroed, loc'.req = loc.req
  PROVE  FileInv'
<1>1. pc = "walk" /\ loc.req.op = op /\ fat \in Fats /\ TypeOK
  BY DEF Arrived, Running, Held, Given, TypeInv, TypeOK
<1>2. DiskFiles'
  BY <1>1, FilesOnDiskSame DEF Exposed, Flushing, Running
<1>3. Storing' /\ Coming'
  BY DEF Storing, Coming, Adding, Flushing
<1>4. MemFiles'
  <2>1. SUFFICES ASSUME Free(Tears)' PROVE MemFiles'
    BY DEF MemFiles
  <2>2. PICK D, F, dp : Filed(fat, block, D, F, dp, {}) /\ loc.cur \in Heads(fat, D)
    BY <2>1, ArrivesFiles
  <2>3. Tree(fat, block, D, F, dp) /\ Reached(fat, block, D, F)
    BY <2>2 DEF Filed
  <2>4. Name \in Names \cup Dots
    BY <1>1, LastName
  <2>5. p \in D \X Slots /\ At(block, p) = EntryAt(p) /\ p \in Proper(block, D)
    BY <1>1, <2>2, <2>3, <2>4, PlaceFound
  <2>6. PICK C, x : x = At(block, p).first /\ C = Chain(fat, x)
    OBVIOUS
  <2>7. D \subseteq Clusters /\ F \subseteq Clusters
    BY <2>3 DEF Tree, Ground
  <2>8. \A c \in (D \cup F) \ C : fat'[c] = fat[c]
    BY <2>5, <2>6, <2>7, ClusterFacts DEF FreeChain
  <2>9. \A c \in D : fat'[c] \in Clusters => fat'[c] = fat[c]
    BY <2>7, ReleasedLinks
  <2>10. PICK e : e = Zeroed
    OBVIOUS
  <2>11. e \in Entries /\ e.name \in {Empty, At(block, p).name} /\ ~IsProper(e)
    BY <2>10, FsAssumption DEF Zeroed, Entries, IsProper
  <2>12. loc'.entry = e /\ C = Chain(fat, At(block, p).first)
    BY <2>6, <2>10
  <2>13. QED
    BY <1>3, <2>2, <2>5, <2>8, <2>9, <2>11, <2>12, StoreFiles
<1>5. QED
  BY <1>2, <1>4 DEF FileInv

LEMMA RmFiles ==
  ASSUME Held, Rm
  PROVE  FileInv'
<1>1. PICK p \in LookedUp("file") :
        /\ fat' = FreeChain(fat, EntryAt(p).first)
        /\ Goto("setEntry", [loc EXCEPT !.at = p, !.entry = Zeroed])
  BY DEF Rm
<1>2. /\ Arrived("rm") /\ UNCHANGED <<super, ready, diskFat, block>> /\ loc \in Locals
      /\ p \in Places /\ EntryAt(p).type = "file"
  BY DEF Rm, disk, Held, Given, TypeInv, TypeOK, LookedUp
<1>3. pc' = "setEntry" /\ loc'.at = p /\ loc'.entry = Zeroed /\ loc'.req = loc.req
  BY <1>1, <1>2 DEF Goto, Locals
<1>4. QED
  BY <1>1, <1>2, <1>3, ClearFiles

LEMMA RmdirEmptyFiles ==
  ASSUME Held, RmdirEmpty
  PROVE  FileInv'
<1>1. PICK p \in LookedUp("dir") : Unlink([loc EXCEPT !.at = p], EntryAt(p).first)
  BY DEF RmdirEmpty
<1>2. /\ Arrived("rmdir") /\ UNCHANGED <<super, ready, diskFat, block>> /\ TypeOK
      /\ p \in Places /\ EntryAt(p).type = "dir"
  BY DEF RmdirEmpty, disk, Held, Given, TypeInv, LookedUp
<1>3. loc \in Locals /\ p \in Clusters \X Slots
  BY <1>2, PlaceType DEF TypeOK
<1>4. PICK l : l = [loc EXCEPT !.at = p]
  OBVIOUS
<1>5. l \in Locals /\ l.at = p /\ l.req = loc.req /\ l.rest = loc.rest
  BY <1>3, <1>4 DEF Locals
<1>6. /\ fat' = FreeChain(fat, EntryAt(p).first) /\ pc' = "setEntry" /\ loc' = [l EXCEPT !.entry = Zeroed]
      /\ l.rest[1] \in Dots => "dotCut" \in marks'
  BY <1>1, <1>4 DEF Unlink, Goto
<1>7. loc'.at = p /\ loc'.entry = Zeroed /\ loc'.req = loc.req
  BY <1>5, <1>6 DEF Locals
<1>8. CASE Name \in Dots
  <2>1. "dotCut" \in marks'
    BY <1>5, <1>6, <1>8 DEF Name
  <2>2. "dotCut" \in Tears
    BY DEF Tears, Strays, Breaks
  <2>3. QED
    BY <2>1, <2>2, MarkedFiles
<1>9. CASE Name \notin Dots
  BY <1>2, <1>6, <1>7, <1>9, ClearFiles
<1>10. QED
  BY <1>8, <1>9

LEMMA RmdirAllFiles ==
  ASSUME Held, RmdirAll
  PROVE  FileInv'
<1>1. PICK p \in LookedUp("dir") :
        /\ EntryAt(p).first \in Clusters
        /\ frames' = <<Frame(EntryAt(p).first)>>
        /\ Goto("scan", [loc EXCEPT !.at = p, !.entry = EntryAt(p)])
  BY DEF RmdirAll
<1>2. /\ Arrived("rmdir") /\ UNCHANGED <<super, ready, fat, diskFat, block, marks>> /\ TypeOK
      /\ pc = "walk" /\ pc' = "scan"
  BY <1>1 DEF RmdirAll, disk, memory, Held, Given, TypeInv, Arrived, Running, Goto
<1>3. PICK x, E : x = EntryAt(p).first /\ E = block
  OBVIOUS
<1>4. Len(frames') = 1 /\ frames'[1].dir = x /\ frames'[1].buf = E[x]
  BY <1>1, <1>3 DEF Frame
<1>5. DiskFiles'
  BY <1>2, FilesOnDiskSame DEF Exposed, Flushing, Running
<1>6. MemFiles'
  <2>1. SUFFICES ASSUME Free(Tears)'
                 PROVE  (\E B, S : View(B)' /\ Texted(fat', B, S, Unfinished')) /\ Coming'
    BY DEF MemFiles
  <2>2. PICK D, F, dp : Filed(fat, block, D, F, dp, {})
    BY <1>2, <2>1, ArrivesFiles
  <2>3. Coming' /\ Unfinished' = {}
    BY <1>2 DEF Coming, Adding, Flushing, Unfinished
  <2>4. Texted(fat', E, D, Unfinished')
    BY <1>2, <1>3, <2>2, <2>3 DEF Filed
  <2>5. E \in [Clusters -> Blocks] /\ block' = E
    BY <1>2, <1>3 DEF TypeOK
  <2>6. \A i \in 1..Len(frames') : i = 1
    BY <1>4
  <2>7. Copied(E)'
    BY <1>4, <2>5, <2>6 DEF Copied
  <2>8. View(E)'
    BY <1>2, <2>7 DEF View
  <2>9. QED
    BY <2>3, <2>4, <2>8
<1>7. QED
  BY <1>5, <1>6 DEF FileInv

LEMMA DecideFiles ==
  ASSUME Held, Decide
  PROVE  FileInv'
<1>1. CASE MkdirRefused \/ TouchRefused \/ WriteRefused \/ WriteNewNoRoom \/ RemoveRefused
  <2>1. pc = "walk" /\ pc' = "idle" /\ UNCHANGED <<ready, fat, super, diskFat, block>>
    BY <1>1 DEF MkdirRefused, TouchRefused, WriteRefused, WriteNewNoRoom, RemoveRefused, Arrived, Running,
                GiveUp, Return, disk, memory
  <2>2. QED
    BY <2>1, RefusedFiles
<1>2. QED
  BY <1>1, MkdirFiles, TouchFiles, WriteOverFiles, WriteOverNoRoomFiles, WriteNewFiles,
     RmFiles, RmdirEmptyFiles, RmdirAllFiles DEF Decide

-------------------------------------------------------------------------------
\* What fs_remove_dir_contents does to the files.

\* The files as the copies have them.
LEMMA ScanTexts ==
  ASSUME Held, Free(Tears)', Scanning
  PROVE  /\ ready /\ pc = "scan" /\ TypeOK /\ fat \in Fats /\ fat' \in Fats
         /\ loc \in Locals /\ block \in [Clusters -> Blocks] /\ frames \in Seq(Frames) /\ frames # <<>>
         /\ Len(frames) \in Nat \ {0} /\ Top = frames[1] /\ Top \in Frames
         /\ \E E, D, F, dp : ScanPhase(E, D, F, dp) /\ Filed(fat, E, D, F, dp, {})
<1>1. Given /\ Free(Strays)'
  BY TearsBefore DEF Held, Given
<1>2. /\ ready /\ Free(Strays) /\ pc = "scan" /\ TypeOK /\ fat \in Fats
      /\ loc \in Locals /\ block \in [Clusters -> Blocks] /\ frames \in Seq(Frames) /\ frames # <<>>
      /\ Len(frames) \in Nat \ {0} /\ Top = frames[1] /\ Top \in Frames
      /\ \E E, D, F, dp : ScanPhase(E, D, F, dp)
  BY <1>1, ScanNow
<1>3. PICK E, D, F, dp : ScanPhase(E, D, F, dp)
  BY <1>2
<1>4. PICK E2, D2, F2, dp2 : View(E2) /\ Filed(fat, E2, D2, F2, dp2, Unfinished)
  BY <1>2, FilesNow
<1>5. Unfinished = {} /\ Copied(E2)
  BY <1>2, <1>4 DEF Unfinished, View
<1>6. E = E2
  <2>1. /\ E \in [Clusters -> Blocks]
        /\ \A i \in 1..Len(frames) : E[frames[i].dir] = frames[i].buf
        /\ \A c \in Clusters : (\A i \in 1..Len(frames) : frames[i].dir # c) => E[c] = block[c]
    BY <1>3 DEF ScanPhase, Activations, Activation, Working
  <2>2. ASSUME NEW c \in Clusters PROVE E[c] = E2[c]
    BY <1>5, <2>1 DEF Copied
  <2>3. QED
    BY <1>5, <2>1, <2>2 DEF Copied
<1>7. Filed(fat, E, D, F, dp, {})
  <2>1. Tree(fat, E, D, F, dp) /\ Reached(fat, E, D, F)
    BY <1>3 DEF ScanPhase, Shape
  <2>2. Texted(fat, E, D2, {})
    BY <1>4, <1>5, <1>6 DEF Filed
  <2>3. QED
    BY <1>2, <2>1, <2>2, TreeFiled
<1>8. fat' \in Fats
  BY <1>1 DEF Given, TypeInv, TypeOK
<1>9. QED
  BY <1>2, <1>3, <1>7, <1>8

\* The activations r have copies of the clusters E with less in them; the other
\* clusters are those on disk.
Sparser(r, b, E, D) ==
  /\ \A k \in 1..Len(r) : r[k].dir \in D /\ \A j \in Slots : r[k].buf[j] \in {E[r[k].dir][j], Zeroed}
  /\ \A c \in Clusters : (\A k \in 1..Len(r) : r[k].dir # c) => E[c] = b[c]

\* The clusters C are released, and with them no file that is still in the copies.
Releases(r, f, g, E, D, C) ==
  /\ \A c \in Clusters : g[c] = IF c \in C THEN FREE ELSE f[c]
  /\ \A p \in Proper(E, D) : At(E, p).type = "file" =>
       \/ Chain(f, At(E, p).first) \cap C = {}
       \/ \E k \in 1..Len(r) : p[1] = r[k].dir /\ r[k].buf[p[2]] = Zeroed

\* A step that clears entries of the copies and releases the chain C.
LEMMA ScanFewer ==
  ASSUME Held, Free(Tears)', pc = "scan", pc' = "scan", UNCHANGED <<super, diskFat, block>>,
         NEW E, NEW D, NEW F, NEW dp, Filed(fat, E, D, F, dp, {}),
         Sparser(frames', block, E, D), NEW C, Releases(frames', fat, fat', E, D, C)
  PROVE  FileInv'
<1>0. /\ \A k \in 1..Len(frames') :
           /\ frames'[k].dir \in D
           /\ \A j \in Slots : frames'[k].buf[j] \in {E[frames'[k].dir][j], Zeroed}
      /\ \A c \in Clusters : (\A k \in 1..Len(frames') : frames'[k].dir # c) => E[c] = block[c]
      /\ \A c \in Clusters : fat'[c] = IF c \in C THEN FREE ELSE fat[c]
      /\ \A p \in Proper(E, D) : At(E, p).type = "file" =>
           \/ Chain(fat, At(E, p).first) \cap C = {}
           \/ \E k \in 1..Len(frames') : p[1] = frames'[k].dir /\ frames'[k].buf[p[2]] = Zeroed
  BY DEF Sparser, Releases
<1>1. Free(Strays)' /\ ready' /\ fat \in Fats /\ fat' \in Fats
  <2>1. ready'
    BY DEF Held, SoundInv, OnlineInv
  <2>2. QED
    BY <2>1, TearsBefore DEF Held, Given, TypeInv, TypeOK
<1>2. PICK E2 : Copied(E2)'
  <2>1. PICK D2, F2, dp2 : Phase(D2, F2, dp2)'
    BY <1>1 DEF Held, SoundInv, MemInv
  <2>2. PICK E2 : ScanPhase(E2, D2, F2, dp2)'
    BY <2>1 DEF Phase
  <2>3. Copied(E2)'
    BY <2>2 DEF ScanPhase, Activations, Activation, Working, Copied
  <2>4. QED
    BY <2>3
<1>3. /\ E2 \in [Clusters -> Blocks]
      /\ \A k \in 1..Len(frames') : E2[frames'[k].dir] = frames'[k].buf
      /\ \A c \in Clusters : (\A k \in 1..Len(frames') : frames'[k].dir # c) => E2[c] = block[c]
  BY <1>2 DEF Copied
<1>4. PICK f, g : f = fat /\ g = fat'
  OBVIOUS
<1>5. f \in Fats /\ g \in Fats /\ Filed(f, E, D, F, dp, {}) /\ Tree(f, E, D, F, dp) /\ D \subseteq Clusters
      /\ F \subseteq Clusters /\ D \cap F = {}
  BY <1>1, <1>4 DEF Filed, Tree, Ground
<1>6. \A q \in D \X Slots : At(E2, q) \in {At(E, q), Zeroed}
  <2>1. SUFFICES ASSUME NEW c \in D, NEW j \in Slots PROVE E2[c][j] \in {E[c][j], Zeroed}
    BY DEF At
  <2>2. CASE \A k \in 1..Len(frames') : frames'[k].dir # c
    BY <1>0, <1>3, <1>5, <2>2
  <2>3. CASE \E k \in 1..Len(frames') : frames'[k].dir = c
    BY <1>0, <1>3, <2>3
  <2>4. QED
    BY <2>2, <2>3
<1>7. ~IsProper(Zeroed) /\ Zeroed.name = Empty
  BY DEF IsProper, Zeroed
<1>8. Thinner(f, E, g, E2, D)
  <2>1. \A c \in D : g[c] \in Clusters => g[c] = f[c]
    BY <1>0, <1>4, <1>5, ClusterFacts
  <2>2. QED
    BY <1>6, <1>7, <2>1 DEF Thinner
<1>9. ASSUME NEW p \in Proper(E2, D) \ {}, At(E2, p).type = "file"
      PROVE  Remains(f, E, g, E2, D, {}, p)
  <2>1. At(E2, p) = At(E, p) /\ p \in Proper(E, D)
    BY <1>6, <1>7, <1>9 DEF Proper
  <2>2. PICK Q : Q = Chain(f, At(E, p).first)
    OBVIOUS
  <2>3. Q \subseteq F
    BY <1>5, <1>9, <2>1, <2>2, FileWithin
  <2>4. Q \cap C = {}
    <3>1. SUFFICES ASSUME NEW k \in 1..Len(frames'), p[1] = frames'[k].dir, frames'[k].buf[p[2]] = Zeroed
                   PROVE  FALSE
      BY <1>0, <1>4, <1>9, <2>1, <2>2
    <3>2. At(E2, p) = Zeroed
      BY <1>3, <3>1 DEF At
    <3>3. QED
      BY <1>7, <1>9, <3>2 DEF Proper
  <2>5. Untouched(f, E, g, E2, Q)
    <3>1. SUFFICES ASSUME NEW c \in Q PROVE g[c] = f[c] /\ E2[c] = E[c]
      BY DEF Untouched
    <3>2. c \in Clusters /\ c \notin D /\ c \notin C
      BY <1>5, <2>3, <2>4
    <3>3. \A k \in 1..Len(frames') : frames'[k].dir # c
      BY <1>0, <3>2
    <3>4. QED
      BY <1>0, <1>3, <1>4, <3>2, <3>3
  <2>6. QED
    BY <2>1, <2>2, <2>5 DEF Remains
<1>10. Texted(g, E2, D, {})
  BY <1>5, <1>8, <1>9, FewerFiles
<1>11. MemFiles'
  <2>1. Unfinished' = {} /\ Coming' /\ View(E2)'
    BY <1>2 DEF Unfinished, Coming, Adding, Flushing, View
  <2>2. QED
    BY <1>4, <1>10, <2>1 DEF MemFiles
<1>12. DiskFiles'
  BY FilesOnDiskSame DEF Exposed, Flushing, Running
<1>13. QED
  BY <1>11, <1>12 DEF FileInv

\* A step that releases nothing.
LEMMA ScanSame ==
  ASSUME Held, Free(Tears)', pc = "scan", pc' = "scan", UNCHANGED <<super, diskFat, block, fat>>,
         NEW E, NEW D, NEW F, NEW dp, Filed(fat, E, D, F, dp, {}), Sparser(frames', block, E, D)
  PROVE  FileInv'
<1>1. PICK C : C = {}
  OBVIOUS
<1>2. Releases(frames', fat, fat', E, D, C)
  BY <1>1 DEF Releases
<1>3. QED
  BY <1>2, ScanFewer

LEMMA ScanFileFiles ==
  ASSUME Held, ScanFile
  PROVE  FileInv'
<1>1. /\ Scanning /\ Pending(Top) # {} /\ ScanEntry.type = "file"
      /\ fat' = FreeChain(fat, ScanEntry.first)
      /\ frames' = <<Cleared(Top)>> \o Tail(frames)
      /\ UNCHANGED <<super, diskFat, block, ready, cwd, pc, loc>>
  BY DEF ScanFile, disk
<1>2. SUFFICES ASSUME Free(Tears)' PROVE FileInv'
  BY FilesTorn
<1>3. /\ ready /\ pc = "scan" /\ TypeOK /\ fat \in Fats /\ fat' \in Fats
      /\ loc \in Locals /\ block \in [Clusters -> Blocks] /\ frames \in Seq(Frames) /\ frames # <<>>
      /\ Len(frames) \in Nat \ {0} /\ Top = frames[1] /\ Top \in Frames
  BY <1>1, <1>2, ScanTexts
<1>4. PICK E, D, F, dp : ScanPhase(E, D, F, dp) /\ Filed(fat, E, D, F, dp, {})
  BY <1>1, <1>2, ScanTexts
<1>5. PICK n, t, i, e, x, C :
        /\ n = Len(frames) /\ t = frames[1] /\ i = Least(Pending(t)) /\ e = t.buf[i] /\ x = e.first
        /\ C = Chain(fat, x)
  OBVIOUS
<1>6. /\ Tree(fat, E, D, F, dp) /\ D \subseteq Clusters /\ E \in [Clusters -> Blocks]
      /\ \A k \in 1..n : frames[k].dir \in D /\ E[frames[k].dir] = frames[k].buf
  BY <1>3, <1>4, <1>5, ScanFacts
<1>7. n \in Nat \ {0} /\ t \in Frames /\ Pending(t) # {} /\ e.type = "file" /\ fat' = FreeChain(fat, x)
      /\ t.dir \in D /\ E[t.dir] = t.buf
  BY <1>1, <1>3, <1>5, <1>6 DEF ScanEntry
<1>8. i \in Slots /\ <<t.dir, i>> \in Proper(E, D) /\ At(E, <<t.dir, i>>) = e
  BY <1>5, <1>6, <1>7, PendingPlace
<1>9. /\ Cleared(t).dir = t.dir /\ Cleared(t).buf[i] = Zeroed
      /\ \A j \in Slots : j # i => Cleared(t).buf[j] = t.buf[j]
  BY <1>5, <1>7, <1>8, ClearedFields
<1>10. Len(frames') = n /\ frames'[1] = Cleared(t) /\ \A k \in 2..n : frames'[k] = frames[k]
  <2>1. frames' = <<Cleared(t)>> \o Tail(frames)
    BY <1>1, <1>3, <1>5
  <2>2. QED
    BY <1>3, <1>5, <2>1, Replaced
<1>11. ASSUME NEW k \in 1..n
       PROVE  /\ frames'[k].dir \in D /\ frames'[k].dir = frames[k].dir
              /\ \A j \in Slots : frames'[k].buf[j] \in {E[frames'[k].dir][j], Zeroed}
  <2>1. CASE k = 1
    <3>1. frames'[k] = Cleared(t)
      BY <1>10, <2>1
    <3>2. \A j \in Slots : Cleared(t).buf[j] \in {E[t.dir][j], Zeroed}
      BY <1>7, <1>9
    <3>3. QED
      BY <1>5, <1>7, <1>9, <2>1, <3>1, <3>2
  <2>2. CASE k # 1
    <3>1. frames'[k] = frames[k]
      BY <1>7, <1>10, <2>2
    <3>2. QED
      BY <1>6, <3>1
  <2>3. QED
    BY <2>1, <2>2
<1>12. ASSUME NEW c \in Clusters, \A k \in 1..n : frames'[k].dir # c
       PROVE  E[c] = block[c]
  <2>1. \A k \in 1..Len(frames) : frames[k].dir # c
    BY <1>5, <1>11, <1>12
  <2>2. QED
    BY <1>4, <2>1 DEF ScanPhase, Activations
<1>13. ASSUME NEW p \in Proper(E, D), At(E, p).type = "file"
       PROVE  \/ Chain(fat, At(E, p).first) \cap C = {}
              \/ \E k \in 1..n : p[1] = frames'[k].dir /\ frames'[k].buf[p[2]] = Zeroed
  <2>1. PICK q : q = <<t.dir, i>>
    OBVIOUS
  <2>2. CASE p = q
    <3>1. p[1] = t.dir /\ p[2] = i
      BY <2>1, <2>2
    <3>2. 1 \in 1..n /\ frames'[1].dir = t.dir /\ frames'[1].buf[i] = Zeroed
      BY <1>7, <1>9, <1>10
    <3>3. QED
      BY <3>1, <3>2
  <2>3. CASE p # q
    <3>1. q \in Proper(E, D) /\ At(E, q).type = "file" /\ C = Chain(fat, At(E, q).first)
      BY <1>5, <1>7, <1>8, <2>1
    <3>2. PICK f : f = fat
      OBVIOUS
    <3>3. f \in Fats /\ Tree(f, E, D, F, dp)
      BY <1>3, <1>6, <3>2
    <3>4. Chain(f, At(E, p).first) \cap Chain(f, At(E, q).first) = {}
      BY <1>13, <2>3, <3>1, <3>3, FilesDiffer
    <3>5. QED
      BY <3>1, <3>2, <3>4
  <2>4. QED
    BY <2>2, <2>3
<1>14. \A c \in Clusters : fat'[c] = IF c \in C THEN FREE ELSE fat[c]
  BY <1>5, <1>7, ClusterFacts DEF FreeChain
<1>15. Sparser(frames', block, E, D)
  BY <1>10, <1>11, <1>12 DEF Sparser
<1>16. Releases(frames', fat, fat', E, D, C)
  BY <1>10, <1>13, <1>14 DEF Releases
<1>17. QED
  BY <1>1, <1>2, <1>3, <1>4, <1>15, <1>16, ScanFewer

LEMMA ScanDirFiles ==
  ASSUME Held, ScanDir
  PROVE  FileInv'
<1>1. /\ Scanning /\ Pending(Top) # {} /\ ScanEntry.type = "dir" /\ ScanEntry.first \in Clusters
      /\ frames' = <<Frame(ScanEntry.first)>> \o frames
      /\ UNCHANGED <<super, diskFat, block, ready, fat, cwd, pc, loc>>
  BY DEF ScanDir, disk, memory
<1>2. SUFFICES ASSUME Free(Tears)' PROVE FileInv'
  BY FilesTorn
<1>3. /\ pc = "scan" /\ TypeOK /\ frames \in Seq(Frames) /\ frames # <<>>
      /\ Len(frames) \in Nat \ {0} /\ Top = frames[1] /\ Top \in Frames
  BY <1>1, <1>2, ScanTexts
<1>4. PICK E, D, F, dp : ScanPhase(E, D, F, dp) /\ Filed(fat, E, D, F, dp, {})
  BY <1>1, <1>2, ScanTexts
<1>5. PICK n, t, i, e, x, u :
        /\ n = Len(frames) /\ t = frames[1] /\ i = Least(Pending(t)) /\ e = t.buf[i] /\ x = e.first
        /\ u = [dir |-> x, buf |-> block[x], dirty |-> FALSE]
  OBVIOUS
<1>6. /\ Tree(fat, E, D, F, dp) /\ D \subseteq Clusters /\ E \in [Clusters -> Blocks] /\ dp \in [Clusters -> Nat]
      /\ \A k \in 1..n : frames[k].dir \in D /\ E[frames[k].dir] = frames[k].buf
      /\ \A k \in 2..n : dp[frames[k].dir] < dp[t.dir]
  BY <1>3, <1>4, <1>5, ScanFacts
<1>7. n \in Nat \ {0} /\ t \in Frames /\ Pending(t) # {} /\ e.type = "dir" /\ x \in Clusters
      /\ t.dir \in D /\ E[t.dir] = t.buf
  BY <1>1, <1>3, <1>5, <1>6 DEF ScanEntry
<1>8. <<t.dir, i>> \in Proper(E, D) /\ At(E, <<t.dir, i>>) = e
  BY <1>5, <1>6, <1>7, PendingPlace
<1>9. x \in D /\ dp[t.dir] < dp[x]
  <2>1. PICK p : p = <<t.dir, i>>
    OBVIOUS
  <2>2. p \in Proper(E, D) /\ At(E, p).first = x /\ p[1] = t.dir /\ At(E, p).type = "dir"
    BY <1>5, <1>7, <1>8, <2>1
  <2>3. QED
    BY <1>6, <1>7, <2>2 DEF Tree, Deeper, Entered
<1>10. \A k \in 1..n : frames[k].dir # x
  <2>1. SUFFICES ASSUME NEW k \in 1..n, frames[k].dir = x PROVE FALSE
    OBVIOUS
  <2>2. dp[x] \in Nat /\ dp[t.dir] \in Nat
    BY <1>6, <1>7
  <2>3. CASE k = 1
    BY <1>5, <1>9, <2>1, <2>2, <2>3
  <2>4. CASE k \in 2..n
    BY <1>6, <1>9, <2>1, <2>2, <2>4
  <2>5. QED
    BY <1>7, <2>3, <2>4
<1>11. \A c \in Clusters : (\A k \in 1..n : frames[k].dir # c) => E[c] = block[c]
  BY <1>4, <1>5 DEF ScanPhase, Activations
<1>12. /\ Len(frames') = n + 1 /\ frames'[1] = u /\ \A k \in 1..n : frames'[k + 1] = frames[k]
  <2>1. frames' = <<u>> \o frames
    BY <1>1, <1>3, <1>5 DEF ScanEntry, Frame
  <2>2. QED
    BY <1>3, <1>5, <2>1, Pushed
<1>13. \A m \in 1..(n + 1) : m = 1 \/ \E k \in 1..n : m = k + 1
  <2>1. SUFFICES ASSUME NEW m \in 1..(n + 1), m # 1 PROVE \E k \in 1..n : m = k + 1
    OBVIOUS
  <2>2. m - 1 \in 1..n /\ m = (m - 1) + 1
    BY <1>7, <2>1
  <2>3. QED
    BY <2>2
<1>14. u.dir = x /\ u.buf = E[x]
  BY <1>5, <1>7, <1>10, <1>11
<1>15. \A m \in 1..(n + 1) : frames'[m].dir \in D /\ frames'[m].buf = E[frames'[m].dir]
  BY <1>6, <1>9, <1>12, <1>13, <1>14
<1>16. \A k \in 1..n : k + 1 \in 1..(n + 1)
  BY <1>7
<1>17. \A c \in Clusters : (\A m \in 1..(n + 1) : frames'[m].dir # c) => E[c] = block[c]
  BY <1>11, <1>12, <1>16
<1>18. Sparser(frames', block, E, D)
  BY <1>12, <1>15, <1>17 DEF Sparser
<1>19. QED
  BY <1>1, <1>2, <1>3, <1>4, <1>18, ScanSame

LEMMA ScanNextFiles ==
  ASSUME Held, ScanNextCluster
  PROVE  FileInv'
<1>1. /\ Scanning /\ Pending(Top) = {} /\ ~Top.dirty /\ fat[Top.dir] \in Clusters
      /\ frames' = <<Frame(fat[Top.dir])>> \o Tail(frames)
      /\ UNCHANGED <<super, diskFat, block, ready, fat, cwd, pc, loc>>
  BY DEF ScanNextCluster, disk, memory
<1>2. SUFFICES ASSUME Free(Tears)' PROVE FileInv'
  BY FilesTorn
<1>3. /\ pc = "scan" /\ TypeOK /\ frames \in Seq(Frames) /\ frames # <<>>
      /\ Len(frames) \in Nat \ {0} /\ Top = frames[1] /\ Top \in Frames
  BY <1>1, <1>2, ScanTexts
<1>4. PICK E, D, F, dp : ScanPhase(E, D, F, dp) /\ Filed(fat, E, D, F, dp, {})
  BY <1>1, <1>2, ScanTexts
<1>5. PICK n, t, x, u :
        /\ n = Len(frames) /\ t = frames[1] /\ x = fat[t.dir]
        /\ u = [dir |-> x, buf |-> block[x], dirty |-> FALSE]
  OBVIOUS
<1>6. /\ Tree(fat, E, D, F, dp) /\ D \subseteq Clusters /\ E \in [Clusters -> Blocks] /\ dp \in [Clusters -> Nat]
      /\ \A k \in 1..n : frames[k].dir \in D /\ E[frames[k].dir] = frames[k].buf
      /\ \A k \in 2..n : dp[frames[k].dir] < dp[t.dir]
      /\ \A k \in 1..n : Working(frames[k], HeadOf(k), fat, block, E, D)
  BY <1>3, <1>4, <1>5, ScanFacts
<1>7. n \in Nat \ {0} /\ t \in Frames /\ ~t.dirty /\ x \in Clusters /\ t.dir \in D /\ E[t.dir] = t.buf
  BY <1>1, <1>3, <1>5, <1>6
<1>8. E[t.dir] = block[t.dir]
  <2>1. Working(t, HeadOf(1), fat, block, E, D)
    BY <1>5, <1>6, <1>7
  <2>2. QED
    BY <1>7, <2>1 DEF Working
<1>9. x \in D /\ dp[t.dir] < dp[x]
  BY <1>5, <1>6, <1>7 DEF Tree, Ground, Deeper
<1>10. \A k \in 1..n : frames[k].dir # x
  <2>1. SUFFICES ASSUME NEW k \in 1..n, frames[k].dir = x PROVE FALSE
    OBVIOUS
  <2>2. dp[x] \in Nat /\ dp[t.dir] \in Nat
    BY <1>6, <1>7
  <2>3. CASE k = 1
    BY <1>5, <1>9, <2>1, <2>2, <2>3
  <2>4. CASE k \in 2..n
    BY <1>6, <1>9, <2>1, <2>2, <2>4
  <2>5. QED
    BY <1>7, <2>3, <2>4
<1>11. \A c \in Clusters : (\A k \in 1..n : frames[k].dir # c) => E[c] = block[c]
  BY <1>4, <1>5 DEF ScanPhase, Activations
<1>12. /\ Len(frames') = n /\ frames'[1] = u /\ \A k \in 2..n : frames'[k] = frames[k]
  <2>1. frames' = <<u>> \o Tail(frames)
    BY <1>1, <1>3, <1>5 DEF Frame
  <2>2. QED
    BY <1>3, <1>5, <2>1, Replaced
<1>13. \A k \in 1..n : k = 1 \/ k \in 2..n
  BY <1>7
<1>14. u.dir = x /\ u.buf = E[x]
  BY <1>5, <1>7, <1>10, <1>11
<1>15. \A k \in 1..n : frames'[k].dir \in D /\ frames'[k].buf = E[frames'[k].dir]
  BY <1>6, <1>9, <1>12, <1>13, <1>14
<1>16. ASSUME NEW c \in Clusters, \A k \in 1..n : frames'[k].dir # c
       PROVE  E[c] = block[c]
  <2>1. CASE c = t.dir
    BY <1>8, <2>1
  <2>2. CASE c # t.dir
    <3>1. \A k \in 1..n : frames[k].dir # c
      BY <1>5, <1>12, <1>13, <1>16, <2>2
    <3>2. QED
      BY <1>11, <3>1
  <2>3. QED
    BY <2>1, <2>2
<1>17. Sparser(frames', block, E, D)
  BY <1>12, <1>15, <1>16 DEF Sparser
<1>18. QED
  BY <1>1, <1>2, <1>3, <1>4, <1>17, ScanSame

LEMMA ScanReturnFiles ==
  ASSUME Held, ScanReturn
  PROVE  FileInv'
<1>1. /\ Scanning /\ Pending(Top) = {} /\ ~Top.dirty /\ fat[Top.dir] \notin Clusters /\ Len(frames) > 1
      /\ UNCHANGED <<super, diskFat, block, ready, cwd, pc, loc>>
  BY DEF ScanReturn, ScanDone, disk
<1>2. SUFFICES ASSUME Free(Tears)' PROVE FileInv'
  BY FilesTorn
<1>3. /\ pc = "scan" /\ TypeOK /\ fat \in Fats /\ frames \in Seq(Frames) /\ frames # <<>>
      /\ Len(frames) \in Nat \ {0} /\ Top = frames[1] /\ Top \in Frames
  BY <1>1, <1>2, ScanTexts
<1>4. PICK E, D, F, dp : ScanPhase(E, D, F, dp) /\ Filed(fat, E, D, F, dp, {})
  BY <1>1, <1>2, ScanTexts
<1>5. PICK n, t, a, i, e, x, C :
        /\ n = Len(frames) /\ t = frames[1] /\ a = frames[2] /\ i = Least(Pending(a))
        /\ e = a.buf[i] /\ x = e.first /\ C = Chain(fat, x)
  OBVIOUS
<1>6. Head(Tail(frames)) = a
  BY <1>1, <1>3, <1>5, SecondOf
<1>7. fat' = FreeChain(fat, x) /\ frames' = <<Cleared(a)>> \o Tail(Tail(frames))
  BY <1>5, <1>6 DEF ScanReturn
<1>8. /\ Tree(fat, E, D, F, dp) /\ D \subseteq Clusters /\ F \subseteq Clusters /\ D \cap F = {}
      /\ E \in [Clusters -> Blocks]
      /\ \A k \in 1..n : frames[k].dir \in D /\ E[frames[k].dir] = frames[k].buf
      /\ \A k \in 1..n : Working(frames[k], HeadOf(k), fat, block, E, D)
  BY <1>3, <1>4, <1>5, ScanFacts
<1>9. n \in Nat /\ n > 1 /\ t \in Frames /\ a \in Frames /\ ~t.dirty
  BY <1>1, <1>3, <1>5
<1>10. a.dir \in D /\ E[a.dir] = a.buf /\ Pending(a) # {} /\ e.type = "dir"
  <2>1. 2 \in 1..n /\ 2 \in 2..n
    BY <1>9
  <2>2. QED
    BY <1>4, <1>5, <1>8, <2>1 DEF ScanPhase, Activations, Due
<1>11. i \in Slots /\ <<a.dir, i>> \in Proper(E, D) /\ At(E, <<a.dir, i>>) = e
  BY <1>5, <1>8, <1>9, <1>10, PendingPlace
<1>12. C \subseteq D
  <2>1. PICK p : p = <<a.dir, i>>
    OBVIOUS
  <2>2. p \in Proper(E, D) /\ At(E, p).first = x /\ At(E, p).type = "dir"
    BY <1>5, <1>10, <1>11, <2>1
  <2>3. x \in D /\ Ground(fat, D, F)
    BY <1>8, <2>2 DEF Tree, Entered
  <2>4. QED
    BY <1>3, <1>5, <2>3, ChainGround
<1>13. E[t.dir] = block[t.dir]
  <2>1. Working(t, HeadOf(1), fat, block, E, D)
    BY <1>5, <1>8, <1>9
  <2>2. QED
    BY <1>9, <2>1 DEF Working
<1>14. /\ Len(frames') = n - 1 /\ frames'[1] = Cleared(a)
       /\ \A k \in 2..(n - 1) : frames'[k] = frames[k + 1]
  <2>1. PICK u, v, r : u = Tail(frames) /\ v = Cleared(a) /\ r = frames'
    OBVIOUS
  <2>2. u \in Seq(Frames) /\ Len(u) = n - 1 /\ \A k \in 1..(n - 1) : u[k] = frames[k + 1]
    BY <1>3, <1>5, <1>9, <2>1
  <2>3. u # <<>>
    BY <1>9, <2>2
  <2>4. r = <<v>> \o Tail(u)
    BY <1>7, <2>1
  <2>5. Len(r) = Len(u) /\ r # <<>> /\ r[1] = v /\ \A k \in 2..Len(u) : r[k] = u[k]
    BY ONLY <2>2, <2>3, <2>4, Replaced
  <2>6. \A k \in 2..(n - 1) : r[k] = frames[k + 1]
    BY <1>9, <2>2, <2>5
  <2>7. QED
    BY <2>1, <2>2, <2>5, <2>6
<1>15. /\ Cleared(a).dir = a.dir /\ Cleared(a).buf[i] = Zeroed
       /\ \A j \in Slots : j # i => Cleared(a).buf[j] = a.buf[j]
  BY <1>5, <1>9, <1>11, ClearedFields
<1>16. \A k \in 1..(n - 1) : k + 1 \in 2..n /\ k + 1 \in 1..n /\ (k = 1 \/ k \in 2..(n - 1))
  BY <1>9
<1>17. ASSUME NEW k \in 1..(n - 1)
       PROVE  /\ frames'[k].dir \in D /\ frames'[k].dir = frames[k + 1].dir
              /\ \A j \in Slots : frames'[k].buf[j] \in {E[frames'[k].dir][j], Zeroed}
  <2>1. CASE k = 1
    <3>1. frames'[k] = Cleared(a) /\ frames[k + 1] = a
      BY <1>5, <1>14, <2>1
    <3>2. \A j \in Slots : Cleared(a).buf[j] \in {E[a.dir][j], Zeroed}
      BY <1>10, <1>15
    <3>3. QED
      BY <1>10, <1>15, <3>1, <3>2
  <2>2. CASE k # 1
    <3>1. frames'[k] = frames[k + 1]
      BY <1>14, <1>16, <2>2
    <3>2. QED
      BY <1>8, <1>16, <3>1
  <2>3. QED
    BY <2>1, <2>2
<1>18. ASSUME NEW c \in Clusters, \A k \in 1..(n - 1) : frames'[k].dir # c
       PROVE  E[c] = block[c]
  <2>1. \A k \in 2..n : frames[k].dir # c
    <3>1. SUFFICES ASSUME NEW k \in 2..n PROVE frames[k].dir # c
      OBVIOUS
    <3>2. k - 1 \in 1..(n - 1) /\ (k - 1) + 1 = k
      BY <1>9
    <3>3. frames'[k - 1].dir = frames[(k - 1) + 1].dir
      BY <1>17, <3>2
    <3>4. QED
      BY <1>18, <3>2, <3>3
  <2>2. CASE c = t.dir
    BY <1>13, <2>2
  <2>3. CASE c # t.dir
    <3>1. \A k \in 1..Len(frames) : k = 1 \/ k \in 2..n
      BY <1>5, <1>9
    <3>2. \A k \in 1..Len(frames) : frames[k].dir # c
      BY <1>5, <2>1, <2>3, <3>1
    <3>3. QED
      BY <1>4, <3>2 DEF ScanPhase, Activations
  <2>4. QED
    BY <2>2, <2>3
<1>19. Sparser(frames', block, E, D)
  BY <1>14, <1>17, <1>18 DEF Sparser
<1>20. Releases(frames', fat, fat', E, D, C)
  <2>1. \A c \in Clusters : fat'[c] = IF c \in C THEN FREE ELSE fat[c]
    BY <1>5, <1>7, ClusterFacts DEF FreeChain
  <2>2. ASSUME NEW p \in Proper(E, D), At(E, p).type = "file"
        PROVE  Chain(fat, At(E, p).first) \cap C = {}
    <3>1. PICK f : f = fat
      OBVIOUS
    <3>2. f \in Fats /\ Tree(f, E, D, F, dp)
      BY <1>3, <1>8, <3>1
    <3>3. Chain(f, At(E, p).first) \subseteq F
      BY <2>2, <3>2, FileWithin
    <3>4. QED
      BY <1>8, <1>12, <3>1, <3>3
  <2>3. QED
    BY <2>1, <2>2 DEF Releases
<1>21. QED
  BY <1>1, <1>2, <1>3, <1>4, <1>19, <1>20, ScanFewer

LEMMA ScanOverrunFiles ==
  ASSUME Held, ScanOverrun
  PROVE  FileInv'
<1>1. pc = "scan" /\ pc' = "halted" /\ UNCHANGED <<super, diskFat, block>>
  BY DEF ScanOverrun, Scanning, disk
<1>2. DiskFiles'
  BY <1>1, FilesOnDiskSame DEF Exposed, Flushing, Running
<1>3. QED
  BY <1>1, <1>2 DEF FileInv, MemFiles

LEMMA ScanFailsFiles ==
  ASSUME ScanFails
  PROVE  FileInv'
<1>1. "dangling" \in marks'
  BY DEF ScanFails, GiveUp
<1>2. "dangling" \in Tears
  BY DEF Tears, Strays, Breaks
<1>3. QED
  BY <1>1, <1>2, MarkedFiles

LEMMA ScanWriteFiles ==
  ASSUME Held, ScanWrite
  PROVE  FileInv'
<1>1. PICK w \in Writes :
        /\ WriteBlock(Top.dir, Top.buf, w)
        /\ IF w = "done"
           THEN /\ frames' = <<[Top EXCEPT !.dirty = FALSE]>> \o Tail(frames)
                /\ UNCHANGED <<pc, loc, ret, marks>>
           ELSE frames' = <<>> /\ GiveUp({"dangling"})
  BY DEF ScanWrite
<1>2. CASE w # "done"
  <2>1. "dangling" \in marks'
    BY <1>1, <1>2 DEF GiveUp
  <2>2. "dangling" \in Tears
    BY DEF Tears, Strays, Breaks
  <2>3. QED
    BY <2>1, <2>2, MarkedFiles
<1>3. CASE w = "done"
  <2>1. /\ Scanning
        /\ frames' = <<[Top EXCEPT !.dirty = FALSE]>> \o Tail(frames)
        /\ block' = [block EXCEPT ![Top.dir] = Top.buf]
        /\ UNCHANGED <<super, diskFat, ready, fat, cwd, pc, loc, marks>>
    BY <1>1, <1>3 DEF ScanWrite, memory, WriteBlock
  <2>2. SUFFICES ASSUME Free(Tears)' PROVE FileInv'
    BY FilesTorn
  <2>3. /\ pc = "scan" /\ TypeOK /\ fat \in Fats /\ block \in [Clusters -> Blocks]
        /\ frames \in Seq(Frames) /\ frames # <<>>
        /\ Len(frames) \in Nat \ {0} /\ Top = frames[1] /\ Top \in Frames
    BY <2>1, <2>2, ScanTexts
  <2>4. PICK E, D, F, dp : ScanPhase(E, D, F, dp) /\ Filed(fat, E, D, F, dp, {})
    BY <2>1, <2>2, ScanTexts
  <2>5. PICK n, t, u : n = Len(frames) /\ t = frames[1] /\ u = [t EXCEPT !.dirty = FALSE]
    OBVIOUS
  <2>6. /\ Tree(fat, E, D, F, dp) /\ Reached(fat, E, D, F) /\ D \subseteq Clusters /\ F \subseteq Clusters
        /\ E \in [Clusters -> Blocks]
        /\ \A k \in 1..n : frames[k].dir \in D /\ E[frames[k].dir] = frames[k].buf
        /\ \A k \in 1..n : Working(frames[k], HeadOf(k), fat, block, E, D)
        /\ \A k \in 2..n : frames[k].dir # t.dir
    BY <2>3, <2>4, <2>5, ScanFacts
  <2>7. n \in Nat \ {0} /\ t \in Frames /\ t.dir \in D /\ t.dir \in Clusters /\ E[t.dir] = t.buf
    BY <2>3, <2>5, <2>6
  <2>8. u.dir = t.dir /\ u.buf = t.buf
    BY <2>5, <2>7 DEF Frames
  <2>9. block'[t.dir] = t.buf /\ \A c \in Clusters : c # t.dir => block'[c] = block[c]
    <3>1. block' = [block EXCEPT ![t.dir] = t.buf]
      BY <2>1, <2>3, <2>5
    <3>2. QED
      BY <2>3, <2>7, <3>1
  <2>10. /\ Len(frames') = n /\ frames'[1] = u /\ \A k \in 2..n : frames'[k] = frames[k]
    <3>1. frames' = <<u>> \o Tail(frames)
      BY <2>1, <2>3, <2>5
    <3>2. QED
      BY <2>3, <2>5, <3>1, Replaced
  <2>11. \A k \in 1..n : k = 1 \/ k \in 2..n
    BY <2>7
  <2>12. \A k \in 1..n : frames'[k].dir = frames[k].dir /\ frames'[k].buf = frames[k].buf
    BY <2>5, <2>8, <2>10, <2>11
  <2>13. \A c \in Clusters : (\A k \in 1..n : frames[k].dir # c) => E[c] = block[c]
    BY <2>4, <2>5 DEF ScanPhase, Activations
  <2>14. Copied(E)'
    <3>1. ASSUME NEW c \in Clusters, \A k \in 1..n : frames'[k].dir # c
          PROVE  E[c] = block'[c]
      <4>1. \A k \in 1..n : frames[k].dir # c
        BY <2>12, <3>1
      <4>2. c # t.dir
        BY <2>5, <2>7, <4>1
      <4>3. QED
        BY <2>9, <2>13, <4>1, <4>2
    <3>2. \A k \in 1..n : E[frames'[k].dir] = frames'[k].buf
      BY <2>6, <2>12
    <3>3. QED
      BY <2>6, <2>10, <3>1, <3>2 DEF Copied
  <2>15. MemFiles'
    <3>1. Unfinished' = {} /\ Coming' /\ View(E)'
      BY <2>1, <2>3, <2>14 DEF Unfinished, Coming, Adding, Flushing, View
    <3>2. Texted(fat', E, D, Unfinished')
      BY <2>1, <2>4, <3>1 DEF Filed
    <3>3. QED
      BY <3>1, <3>2 DEF MemFiles
  <2>16. DiskFiles'
    <3>1. SUFFICES ASSUME super' PROVE \E S : Texted(diskFat, block, S, {})'
      BY DEF DiskFiles
    <3>2. super /\ ~Exposed /\ Free(Tears) /\ Free(Strays)
      BY <2>1, <2>2, <2>3, <3>1, TearsBefore DEF Exposed, Flushing, Running, Held, Given
    <3>3. PICK D0, F0, dp0 : OnDisk(D0, F0, dp0)
      BY <3>2 DEF Held, Given, SoundInv, DiskInv
    <3>4. PICK S : Texted(diskFat, block, S, {})
      BY <2>3, <3>2 DEF Held, FileInv, DiskFiles
    <3>5. PICK f, g, b, b2, S2 : f = fat /\ g = diskFat /\ b = block /\ b2 = block' /\ S2 = S \cap D0
      OBVIOUS
    <3>6. /\ f \in Fats /\ g \in Fats /\ Tree(g, b, D0, F0, dp0) /\ Texted(g, b, S, {}) /\ Closed(g, b, S)
          /\ D0 \subseteq Clusters /\ F0 \subseteq Clusters /\ D0 \cap F0 = {}
      BY <2>3, <3>3, <3>4, <3>5 DEF OnDisk, Tree, Ground, TypeOK, Texted
    <3>7. \A q \in Clusters \X Slots : At(E, q) \in {At(b, q), Zeroed}
      <4>1. SUFFICES ASSUME NEW c \in Clusters, NEW j \in Slots PROVE E[c][j] \in {b[c][j], Zeroed}
        BY DEF At
      <4>2. CASE \A k \in 1..n : frames[k].dir # c
        BY <2>13, <3>5, <4>2
      <4>3. CASE \E k \in 1..n : frames[k].dir = c
        BY <2>6, <3>5, <4>3 DEF Working
      <4>4. QED
        BY <4>2, <4>3
    <3>8. ~IsProper(Zeroed) /\ Zeroed.name = Empty
      BY DEF IsProper, Zeroed
    <3>9. Closed(g, E, D0)
      <4>1. \A p \in Proper(E, D0) : p \in Proper(b, D0) /\ At(E, p) = At(b, p)
        <5>1. SUFFICES ASSUME NEW p \in Proper(E, D0) PROVE p \in Proper(b, D0) /\ At(E, p) = At(b, p)
          OBVIOUS
        <5>2. p \in D0 \X Slots /\ p \in Clusters \X Slots /\ IsProper(At(E, p))
          BY <3>6 DEF Proper
        <5>3. QED
          BY <3>7, <3>8, <5>2 DEF Proper
      <4>2. /\ RootCluster \in D0 /\ ClosedUnderLinks(g, D0)
            /\ \A p \in Proper(b, D0) : At(b, p).type = "dir" => At(b, p).first \in D0
        BY <3>6 DEF Tree, Ground, Entered, ClosedUnderLinks
      <4>3. QED
        BY <3>6, <4>1, <4>2 DEF Closed
    <3>10. D \subseteq D0
      <4>1. \A c \in D \cup F : g[c] = f[c]
        BY <2>4, <3>5 DEF ScanPhase, Agree
      <4>2. Tree(f, E, D, F, dp) /\ Reached(f, E, D, F)
        BY <2>6, <3>5
      <4>3. Tree(g, E, D, F, dp) /\ Reached(g, E, D, F)
        BY <3>6, <4>1, <4>2, TreeSame
      <4>4. QED
        BY <3>6, <3>9, <4>3, TreeWithin
    <3>11. t.dir \in D0
      BY <2>7, <3>10
    <3>12. Texted(g, b, S2, {})
      <4>1. Closed(g, b, S2)
        BY <3>5, <3>6, TreeClosed
      <4>2. \A p \in Proper(b, S2) : p \in Proper(b, S)
        BY <3>5 DEF Proper
      <4>3. QED
        BY <3>6, <4>1, <4>2 DEF Texted
    <3>13. \A q \in Clusters \X Slots : At(b2, q) \in {At(b, q), Zeroed}
      <4>1. SUFFICES ASSUME NEW c \in Clusters, NEW j \in Slots PROVE b2[c][j] \in {b[c][j], Zeroed}
        BY DEF At
      <4>2. CASE c = t.dir
        <5>1. PICK q : q = <<c, j>>
          OBVIOUS
        <5>2. At(E, q) \in {At(b, q), Zeroed} /\ At(E, q) = E[c][j] /\ At(b, q) = b[c][j]
          BY <3>7, <5>1 DEF At
        <5>3. QED
          BY <2>7, <2>9, <3>5, <4>2, <5>2
      <4>3. CASE c # t.dir
        BY <2>9, <3>5, <4>3
      <4>4. QED
        BY <4>2, <4>3
    <3>14. Thinner(g, b, g, b2, S2)
      <4>1. \A q \in S2 \X Slots : q \in Clusters \X Slots
        BY <3>5, <3>6
      <4>2. QED
        BY <3>8, <3>13, <4>1 DEF Thinner
    <3>15. ASSUME NEW p \in Proper(b2, S2) \ {}, At(b2, p).type = "file"
           PROVE  Remains(g, b, g, b2, S2, {}, p)
      <4>1. p \in S2 \X Slots /\ p \in D0 \X Slots /\ p \in Clusters \X Slots /\ IsProper(At(b2, p))
        BY <3>5, <3>6, <3>15 DEF Proper
      <4>2. At(b2, p) = At(b, p) /\ p \in Proper(b, S2) /\ p \in Proper(b, D0)
        BY <3>8, <3>13, <4>1 DEF Proper
      <4>3. PICK Q : Q = Chain(g, At(b, p).first)
        OBVIOUS
      <4>4. Q \subseteq F0
        BY <3>6, <3>15, <4>2, <4>3, FileWithin
      <4>5. Untouched(g, b, g, b2, Q)
        BY <2>9, <3>5, <3>6, <3>11, <4>4 DEF Untouched
      <4>6. QED
        BY <4>2, <4>3, <4>5 DEF Remains
    <3>16. Texted(g, b2, S2, {})
      BY <3>6, <3>12, <3>14, <3>15, FewerTexts
    <3>17. QED
      BY <2>1, <3>5, <3>16
  <2>17. QED
    BY <2>15, <2>16 DEF FileInv
<1>4. QED
  BY <1>2, <1>3

LEMMA ScanFinishFiles ==
  ASSUME Held, ScanFinish
  PROVE  FileInv'
<1>1. /\ Scanning /\ Pending(Top) = {} /\ ~Top.dirty /\ fat[Top.dir] \notin Clusters /\ Len(frames) = 1
      /\ Unlink(loc, loc.entry.first) /\ UNCHANGED <<super, diskFat, block, ready, cwd>>
  BY DEF ScanFinish, ScanDone, disk
<1>2. pc = "scan" /\ loc.req.op = "rmdir" /\ loc \in Locals
  BY <1>1 DEF Scanning, Held, Given, SyncInv, ScanInv, TypeInv, TypeOK
<1>3. /\ pc' = "setEntry" /\ loc' = [loc EXCEPT !.entry = Zeroed] /\ fat' = FreeChain(fat, loc.entry.first)
      /\ marks' = marks \cup Forget(loc.entry.first) \cup (IF loc.rest[1] \in Dots THEN {"dotCut"} ELSE {})
  BY <1>1 DEF Unlink, Goto
<1>4. SUFFICES ASSUME Free(Tears)' PROVE FileInv'
  BY FilesTorn
<1>5. /\ TypeOK /\ fat \in Fats /\ block \in [Clusters -> Blocks]
      /\ Len(frames) \in Nat \ {0} /\ Top = frames[1] /\ Top \in Frames
  BY <1>1, <1>4, ScanTexts
<1>6. PICK E, D, F, dp : ScanPhase(E, D, F, dp) /\ Filed(fat, E, D, F, dp, {})
  BY <1>1, <1>4, ScanTexts
<1>7. PICK t, x, p : t = frames[1] /\ x = loc.entry.first /\ p = loc.at
  OBVIOUS
<1>8. E[t.dir] = block[t.dir]
  <2>1. HeadOf(1) = x
    BY <1>1, <1>7 DEF HeadOf
  <2>2. QED
    BY <1>1, <1>5, <1>6, <1>7, <2>1, ScanEmptied
<1>9. E = block
  <2>1. E \in [Clusters -> Blocks]
    BY <1>5, <1>6, ScanFacts
  <2>2. ASSUME NEW c \in Clusters PROVE E[c] = block[c]
    <3>1. CASE c = t.dir
      BY <1>8, <3>1
    <3>2. CASE c # t.dir
      <4>1. \A k \in 1..Len(frames) : frames[k].dir # c
        BY <1>1, <1>7, <3>2
      <4>2. QED
        BY <1>6, <4>1 DEF ScanPhase, Activations
    <3>3. QED
      BY <3>1, <3>2
  <2>3. QED
    BY <1>5, <2>1, <2>2
<1>10. loc.rest[1] \notin Dots
  <2>1. "dotCut" \notin marks'
    BY <1>4 DEF Free, Tears, Strays, Breaks
  <2>2. QED
    BY <1>3, <2>1
<1>11. p \in Proper(block, D) /\ x = At(block, p).first /\ Filed(fat, block, D, F, dp, {})
  BY <1>6, <1>7, <1>9, <1>10 DEF ScanPhase
<1>12. DiskFiles'
  BY <1>1, <1>2, FilesOnDiskSame DEF Exposed, Flushing, Running
<1>13. Storing' /\ Coming' /\ loc'.at = p
  <2>1. loc'.at = p
    BY <1>2, <1>3, <1>7 DEF Locals
  <2>2. QED
    BY <1>3, <2>1 DEF Storing, Coming, Adding, Flushing
<1>14. PICK C, e : C = Chain(fat, At(block, p).first) /\ e = Zeroed
  OBVIOUS
<1>15. loc'.entry = e
  BY <1>2, <1>3, <1>14 DEF Locals
<1>16. D \subseteq Clusters /\ F \subseteq Clusters
  BY <1>11 DEF Filed, Tree, Ground
<1>17. \A c \in (D \cup F) \ C : fat'[c] = fat[c]
  BY <1>3, <1>7, <1>11, <1>14, <1>16, ClusterFacts DEF FreeChain
<1>18. \A c \in D : fat'[c] \in Clusters => fat'[c] = fat[c]
  BY <1>3, <1>16, ReleasedLinks
<1>19. e \in Entries /\ e.name \in {Empty, At(block, p).name} /\ ~IsProper(e)
  BY <1>14, FsAssumption DEF Zeroed, Entries, IsProper
<1>20. MemFiles'
  BY <1>1, <1>11, <1>13, <1>14, <1>15, <1>17, <1>18, <1>19, StoreFiles
<1>21. QED
  BY <1>12, <1>20 DEF FileInv

LEMMA ScanGroupFiles ==
  ASSUME Held, Scan
  PROVE  FileInv'
BY ScanFileFiles, ScanDirFiles, ScanOverrunFiles, ScanFailsFiles, ScanWriteFiles, ScanNextFiles,
   ScanReturnFiles, ScanFinishFiles DEF Scan

-------------------------------------------------------------------------------
\* The writes of an operation.

\* What was in view is what is there now.
LEMMA FilesSeen ==
  ASSUME Held, UNCHANGED fat, Seen' = Seen,
         \/ pc \in {"initDir", "addEntry", "addCluster", "setEntry"}
         \/ pc = "flush" /\ loc.then # "formatRoot",
         pc' # "scan", pc' # "data",
         Adding' => Adding /\ loc'.entry = loc.entry /\ block' = block
  PROVE  MemFiles'
<1>1. SUFFICES ASSUME Free(Tears)'
               PROVE  (\E E, S : View(E)' /\ Texted(fat', E, S, Unfinished')) /\ Coming'
  BY DEF MemFiles
<1>2. pc # "scan" /\ pc # "data"
  OBVIOUS
<1>3. PICK E, D, F, dp : View(E) /\ Filed(fat, E, D, F, dp, Unfinished) /\ Coming
  BY <1>1, FilesNow
<1>4. E = Seen /\ Unfinished = {} /\ Unfinished' = {}
  BY <1>2, <1>3 DEF View, Unfinished
<1>5. View(E)' /\ Texted(fat', E, D, Unfinished')
  BY <1>3, <1>4 DEF View, Filed
<1>6. Coming'
  BY <1>2, <1>3 DEF Coming
<1>7. QED
  BY <1>5, <1>6

LEMMA AddEntryNot ==
  ASSUME Held, pc = "addEntry", pc' = "idle", UNCHANGED <<fat, block, ready>>
  PROVE  FileInv'
<1>1. Seen' = Seen /\ ~Adding' /\ Calm2'
  BY DEF Seen, Storing, Growing, Adding, Flushing, Calm2
<1>2. MemFiles'
  BY <1>1, FilesSeen
<1>3. ready'
  BY DEF Held, Given, SoundInv, OnlineInv
<1>4. DiskFiles'
  BY <1>1, <1>2, <1>3, FilesFollow DEF Held, Given
<1>5. QED
  BY <1>2, <1>4 DEF FileInv

LEMMA AddEntryFailsFiles ==
  ASSUME Held, AddEntryFails
  PROVE  FileInv'
<1>1. pc = "addEntry" /\ pc' = "idle" /\ UNCHANGED <<ready, fat, block>>
  BY DEF AddEntryFails, GiveUp, Return, disk, memory
<1>2. QED
  BY <1>1, AddEntryNot

LEMMA AddClusterFiles ==
  ASSUME Held, AddCluster
  PROVE  FileInv'
<1>1. PICK w \in Writes :
        /\ WriteBlock(loc.data, [ZeroBlock EXCEPT ![1] = loc.entry], w)
        /\ IF w = "done" THEN Return("ok") /\ UNCHANGED marks
                         ELSE GiveUp(Unless(w, {"stale"} \cup Unowned))
  BY DEF AddCluster
<1>2. /\ pc = "addCluster" /\ pc' = "idle" /\ UNCHANGED <<ready, fat>>
  BY <1>1 DEF AddCluster, GiveUp, Return, memory
<1>3. CASE w = "lost"
  <2>1. "stale" \in marks'
    BY <1>1, <1>3 DEF GiveUp, Unless
  <2>2. "stale" \in Tears
    BY DEF Tears, Strays, Breaks
  <2>3. QED
    BY <2>1, <2>2, MarkedFiles
<1>4. CASE w # "lost"
  <2>1. block' = Grown
    BY <1>1, <1>4 DEF WriteBlock, Grown
  <2>2. Seen' = Seen /\ ~Adding' /\ Calm2'
    BY <1>2, <2>1 DEF Seen, Storing, Growing, Adding, Flushing, Calm2
  <2>3. MemFiles'
    BY <1>2, <2>2, FilesSeen
  <2>4. ready'
    BY <1>2 DEF Held, Given, SoundInv, OnlineInv
  <2>5. DiskFiles'
    BY <2>2, <2>3, <2>4, FilesFollow DEF Held, Given
  <2>6. QED
    BY <2>3, <2>5 DEF FileInv
<1>5. QED
  BY <1>3, <1>4

LEMMA SetEntryFiles ==
  ASSUME Held, SetEntry
  PROVE  FileInv'
<1>1. PICK w \in Writes :
        /\ WriteBlock(loc.at[1], [block[loc.at[1]] EXCEPT ![loc.at[2]] = loc.entry], w)
        /\ IF w # "done" THEN GiveUp(Unless(w, {"dangling"}) \cup {"leak"})
           ELSE IF loc.req.op = "write" THEN Return("ok") /\ UNCHANGED marks
           ELSE StartFlush(loc, "return") /\ UNCHANGED <<ret, marks>>
  BY DEF SetEntry
<1>2. /\ pc = "setEntry" /\ loc \in Locals /\ UNCHANGED <<ready, fat>>
  BY <1>1 DEF SetEntry, memory, Held, Given, TypeInv, TypeOK
<1>3. CASE w = "lost"
  <2>1. "dangling" \in marks'
    BY <1>1, <1>3 DEF GiveUp, Unless
  <2>2. "dangling" \in Tears
    BY DEF Tears, Strays, Breaks
  <2>3. QED
    BY <2>1, <2>2, MarkedFiles
<1>4. CASE w # "lost"
  <2>1. block' = With(block, loc.at, loc.entry)
    BY <1>1, <1>4 DEF WriteBlock, With
  <2>2. pc' = "idle" \/ Flushing("return")'
    <3>1. pc' = "idle" \/ StartFlush(loc, "return")
      BY <1>1 DEF GiveUp, Return
    <3>2. StartFlush(loc, "return") => pc' = "flush" /\ loc'.then = "return"
      BY <1>2, ToFlush
    <3>3. QED
      BY <3>1, <3>2 DEF Flushing
  <2>3. Seen' = Seen /\ ~Adding' /\ Calm2' /\ pc' # "scan" /\ pc' # "data"
    BY <1>2, <2>1, <2>2 DEF Seen, Storing, Growing, Adding, Flushing, Calm2
  <2>4. MemFiles'
    BY <1>2, <2>3, FilesSeen
  <2>5. ready'
    BY <1>2 DEF Held, Given, SoundInv, OnlineInv
  <2>6. DiskFiles'
    BY <2>3, <2>4, <2>5, FilesFollow DEF Held, Given
  <2>7. QED
    BY <2>4, <2>6 DEF FileInv
<1>5. QED
  BY <1>3, <1>4

LEMMA FlushFiles ==
  ASSUME Held, Flush
  PROVE  FileInv'
<1>1. /\ pc = "flush" /\ TypeOK /\ UNCHANGED <<super, ready, fat, block, cwd>>
      /\ FlushFails \/ FlushGoesOn \/ FlushEnds
  BY FlushSteps DEF Held
<1>2. SUFFICES ASSUME Free(Tears)' PROVE FileInv'
  BY FilesTorn
<1>3. Free(Strays)'
  BY <1>2 DEF Free, Tears
<1>4. CASE loc.then = "formatRoot"
  <2>1. ~ready'
    BY <1>1, <1>4 DEF Held, Given, SyncInv, OfflineInv, Flushing
  <2>2. ~FlushFails
    BY <1>3, <1>4 DEF FlushFails, FlushMarks, Free, Strays, Breaks
  <2>3. Exposed'
    BY <1>1, <1>4, <2>2 DEF FlushGoesOn, FlushEnds, Exposed, Flushing
  <2>4. QED
    BY <2>1, <2>3 DEF FileInv, MemFiles, DiskFiles
<1>5. CASE loc.then # "formatRoot"
  <2>1. ready'
    BY <1>1, <1>5 DEF Held, Given, SoundInv, OnlineInv
  <2>2. \/ FlushFails /\ loc.then \in {"initDir", "addEntry", "return"} /\ pc' = "idle"
        \/ FlushGoesOn /\ pc' = "flush"
        \/ FlushEnds
    BY <1>1, <1>3, <1>5 DEF FlushFails, FlushMarks, Free, Strays, Breaks, FlushGoesOn, TypeOK, Locals
  <2>3. \/ pc' = "idle" /\ loc.then \in {"initDir", "addEntry", "return"}
        \/ /\ (pc' = "flush" /\ loc'.then = loc.then) \/ pc' = loc.then
           /\ loc'.req = loc.req /\ loc'.entry = loc.entry /\ loc'.cur = loc.cur
           /\ loc'.at = loc.at /\ loc'.data = loc.data
    BY <2>2 DEF FlushGoesOn, FlushEnds
  <2>4. loc.then \in {"initDir", "addEntry", "addCluster", "setEntry", "return"}
    BY <1>1, <1>5 DEF TypeOK, Locals
  <2>5. Seen' = Seen
    BY <1>1, <2>3, <2>4 DEF Seen, Storing, Growing, Flushing, Grown
  <2>6. Adding' => Adding /\ loc'.entry = loc.entry /\ block' = block
    BY <1>1, <2>3, <2>4 DEF Adding, Flushing
  <2>7. pc' # "data" /\ pc' # "scan"
    BY <2>3, <2>4
  <2>8. MemFiles'
    BY <1>1, <1>5, <2>5, <2>6, <2>7, FilesSeen
  <2>9. DiskFiles'
    <3>1. CASE loc.then \in {"setEntry", "addCluster"}
      <4>1. loc.then = "setEntry" => loc.req.op = "write"
        BY <1>1 DEF Held, Given, SoundInv, CtlInv, Flushing
      <4>2. Exposed'
        BY <2>3, <3>1, <4>1 DEF Exposed, Flushing, Running
      <4>3. QED
        BY <4>2 DEF DiskFiles
    <3>2. CASE loc.then \in {"initDir", "addEntry", "return"}
      <4>1. FlushEnds /\ loc.then = "return" => pc' = "idle"
        BY DEF FlushEnds
      <4>2. Calm2'
        BY <2>2, <2>3, <3>2, <4>1 DEF Calm2, Adding, Flushing
      <4>3. QED
        BY <2>1, <2>8, <4>2, FilesFollow DEF Held, Given
    <3>3. QED
      BY <2>4, <3>1, <3>2
  <2>10. QED
    BY <2>8, <2>9 DEF FileInv
<1>6. QED
  BY <1>4, <1>5

-------------------------------------------------------------------------------
\* Nothing that is allocated outside the tree has changed.
Beside(f, b, g, b2, D, F) ==
  \A c \in Clusters \ (D \cup F) : f[c] # FREE => g[c] = f[c] /\ b2[c] = b[c]

\* What a chain holds that is no part of the tree does not change with the tree.
LEMMA WholeApart ==
  ASSUME NEW f \in Fats, NEW g \in Fats, NEW b, NEW b2, NEW D, NEW F, NEW e,
         e.first = NoCluster \/ Apart(f, D, F, e.first), Whole(f, b, e),
         Beside(f, b, g, b2, D, F)
  PROVE  Whole(g, b2, e)
<1>1. PICK x, C : x = e.first /\ C = Chain(f, x)
  OBVIOUS
<1>2. CASE x = NoCluster
  <2>1. NoCluster \notin Clusters
    BY ClusterAssumption DEF NoCluster, Clusters
  <2>2. C = {}
    BY <1>1, <1>2, <2>1, NoChain
  <2>3. QED
    BY <1>1, <2>2, WholeSame
<1>3. CASE Apart(f, D, F, x)
  <2>1. C \subseteq Clusters
    BY <1>1, <1>3, ChainProperties DEF Apart
  <2>2. \A c \in C : c \in Clusters \ (D \cup F) /\ f[c] # FREE
    BY <1>1, <1>3, <2>1 DEF Apart
  <2>3. \A c \in C : g[c] = f[c] /\ b2[c] = b[c]
    BY <2>2 DEF Beside
  <2>4. QED
    BY <1>1, <2>3, WholeSame
<1>4. QED
  BY <1>1, <1>2, <1>3

\* The directories N come to the tree, with entry e at p and no other one.
Joined(f, b, g, b2, D, F, N, p, e) ==
  /\ N \subseteq Clusters /\ p \in (D \cup N) \X Slots /\ At(b2, p) = e
  /\ ClosedUnderLinks(g, D \cup N)
  /\ \A q \in (D \cup N) \X Slots :
       q # p => (q \in D \X Slots /\ At(b2, q) = At(b, q)) \/ ~IsProper(At(b2, q))
  /\ IsProper(e) /\ e.type = "dir" => e.first \in D \cup N
  /\ IsProper(e) /\ e.type = "file" => Whole(g, b2, e)
  /\ Untouched(f, b, g, b2, F)

LEMMA MoreFiles ==
  ASSUME NEW f \in Fats, NEW g \in Fats, NEW b, NEW b2, NEW D, NEW F, NEW dp, Filed(f, b, D, F, dp, {}),
         NEW N, NEW p, NEW e, Joined(f, b, g, b2, D, F, N, p, e)
  PROVE  Texted(g, b2, D \cup N, {})
<1>1. PICK T : T = D \cup N
  OBVIOUS
<1>2. /\ Tree(f, b, D, F, dp) /\ Closed(f, b, D)
      /\ \A q \in Proper(b, D) : At(b, q).type = "file" => Whole(f, b, At(b, q))
  BY DEF Filed, Texted
<1>3. /\ T \subseteq Clusters /\ RootCluster \in T /\ ClosedUnderLinks(g, T) /\ At(b2, p) = e
      /\ \A q \in T \X Slots :
           q # p => (q \in D \X Slots /\ At(b2, q) = At(b, q)) \/ ~IsProper(At(b2, q))
      /\ IsProper(e) /\ e.type = "dir" => e.first \in T
      /\ IsProper(e) /\ e.type = "file" => Whole(g, b2, e)
      /\ \A c \in F : g[c] = f[c] /\ b2[c] = b[c]
  BY <1>1, <1>2 DEF Joined, Closed, Untouched
<1>4. \A q \in Proper(b2, T) : q # p => q \in Proper(b, D) /\ At(b2, q) = At(b, q)
  BY <1>3 DEF Proper
<1>5. \A q \in Proper(b2, T) : At(b2, q).type = "dir" => At(b2, q).first \in T
  <2>1. SUFFICES ASSUME NEW q \in Proper(b2, T), At(b2, q).type = "dir" PROVE At(b2, q).first \in T
    OBVIOUS
  <2>2. CASE q = p
    BY <1>3, <2>1, <2>2 DEF Proper
  <2>3. CASE q # p
    BY <1>1, <1>2, <1>4, <2>1, <2>3 DEF Closed
  <2>4. QED
    BY <2>2, <2>3
<1>6. \A q \in Proper(b2, T) : At(b2, q).type = "file" => Whole(g, b2, At(b2, q))
  <2>1. SUFFICES ASSUME NEW q \in Proper(b2, T), At(b2, q).type = "file" PROVE Whole(g, b2, At(b2, q))
    OBVIOUS
  <2>2. CASE q = p
    BY <1>3, <2>1, <2>2 DEF Proper
  <2>3. CASE q # p
    <3>1. PICK x : x = At(b, q) /\ At(b2, q) = x
      BY <1>4, <2>1, <2>3
    <3>2. q \in Proper(b, D) /\ x.type = "file"
      BY <1>4, <2>1, <2>3, <3>1
    <3>3. Chain(f, x.first) \subseteq F /\ Whole(f, b, x)
      BY <1>2, <3>1, <3>2, FileWithin
    <3>4. \A c \in Chain(f, x.first) : g[c] = f[c] /\ b2[c] = b[c]
      BY <1>3, <3>3
    <3>5. Whole(g, b2, x)
      BY <3>3, <3>4, WholeSame
    <3>6. QED
      BY <3>1, <3>5
  <2>4. QED
    BY <2>2, <2>3
<1>7. QED
  BY <1>1, <1>3, <1>5, <1>6 DEF Texted, Closed

\* What fs_add_entry and the steps before it start from.
LEMMA ComingFiles ==
  ASSUME Held, Free(Tears)', Adding
  PROVE  \E D, F, dp : /\ AddPhase(D, F, dp) /\ Filed(fat, block, D, F, dp, {}) /\ Coming
                       /\ D \subseteq Clusters /\ F \subseteq Clusters /\ D \cap F = {}
<1>1. pc \in {"data", "initDir", "addEntry"} \/ (pc = "flush" /\ loc.then # "formatRoot")
  BY DEF Adding, Flushing
<1>2. PICK E, D, F, dp : Phase(D, F, dp) /\ View(E) /\ Filed(fat, E, D, F, dp, Unfinished) /\ Coming
  BY <1>1, FilesNow
<1>3. E = block /\ Unfinished = {} /\ AddPhase(D, F, dp)
  BY <1>1, <1>2 DEF View, Seen, Growing, Storing, Adding, Flushing, Unfinished, Phase
<1>4. D \subseteq Clusters /\ F \subseteq Clusters /\ D \cap F = {}
  BY <1>2 DEF Filed, Tree, Ground
<1>5. QED
  BY <1>2, <1>3, <1>4

\* The new directory y, if entry e is for one: it is one cluster and empty.
Newborn(f, b, D, d, e, y) ==
  e.type = "dir" =>
    y = e.first /\ y \in Clusters \ D /\ f[y] # FREE /\ f[y] \notin Clusters /\ b[y] = DirBlock(y, d)

LEMMA NothingInNew ==
  ASSUME NEW b, NEW y, NEW d, b[y] = DirBlock(y, d), NEW i \in Slots
  PROVE  ~IsProper(At(b, <<y, i>>))
<1>1. {1, 2} \subseteq Slots
  BY FsAssumption DEF Slots
<1>2. /\ b[y][1] = DirEntry(".", y) /\ b[y][2] = DirEntry("..", d)
      /\ \A j \in Slots : j # 1 /\ j # 2 => b[y][j] = Zeroed
  BY <1>1 DEF DirBlock
<1>3. ~IsProper(Zeroed) /\ ~IsProper(DirEntry(".", y)) /\ ~IsProper(DirEntry("..", d))
  BY DEF IsProper, Zeroed, DirEntry, Dots
<1>4. ~IsProper(b[y][i])
  BY <1>2, <1>3
<1>5. QED
  BY <1>4 DEF At

LEMMA NewbornNow ==
  ASSUME NEW D, NEW F, NEW dp, AddPhase(D, F, dp), pc = "addEntry", fat \in Fats
  PROVE  /\ loc.entry.first = NoCluster \/ Apart(fat, D, F, loc.entry.first)
         /\ Newborn(fat, block, D, loc.cur, loc.entry, loc.entry.first)
<1>1. loc.entry.first = NoCluster \/ Apart(fat, D, F, loc.entry.first)
  BY DEF AddPhase, Incoming
<1>2. SUFFICES ASSUME loc.entry.type = "dir" PROVE Newborn(fat, block, D, loc.cur, loc.entry, loc.entry.first)
  BY <1>1 DEF Newborn
<1>3. PICK y : y = loc.entry.first
  OBVIOUS
<1>4. y \in Clusters /\ fat[y] \notin Clusters /\ block[y] = DirBlock(y, loc.cur)
  BY <1>2, <1>3 DEF AddPhase, Incoming, Arriving
<1>5. Apart(fat, D, F, y)
  BY <1>1, <1>3, <1>4, ClusterAssumption DEF NoCluster, Clusters
<1>6. y \notin D /\ fat[y] # FREE
  BY <1>4, <1>5, ChainProperties DEF Apart
<1>7. QED
  BY <1>3, <1>4, <1>6 DEF Newborn

\* fs_add_entry puts the entry into a free slot.
LEMMA AddEntryFiles ==
  ASSUME Held, AddEntry
  PROVE  FileInv'
<1>1. PICK p \in FreeSlot(loc.cur), w \in Writes :
        /\ WriteBlock(p[1], [block[p[1]] EXCEPT ![p[2]] = loc.entry], w)
        /\ IF w = "done" THEN Return("ok") /\ UNCHANGED marks
                         ELSE GiveUp(Unless(w, Unowned))
  BY DEF AddEntry
<1>2. /\ pc = "addEntry" /\ pc' = "idle" /\ fat \in Fats /\ loc \in Locals /\ block \in [Clusters -> Blocks]
      /\ UNCHANGED <<ready, fat>>
  BY <1>1 DEF AddEntry, GiveUp, Return, memory, Held, Given, TypeInv, TypeOK
<1>3. SUFFICES ASSUME Free(Tears)' PROVE FileInv'
  BY FilesTorn
<1>4. CASE w = "lost"
  <2>1. block' = block
    BY <1>1, <1>4 DEF WriteBlock
  <2>2. QED
    BY <1>2, <2>1, AddEntryNot
<1>5. CASE w # "lost"
  <2>1. Adding
    BY <1>2 DEF Adding
  <2>2. PICK D, F, dp : /\ AddPhase(D, F, dp) /\ Filed(fat, block, D, F, dp, {}) /\ Coming
                        /\ D \subseteq Clusters /\ F \subseteq Clusters /\ D \cap F = {}
    BY <1>3, <2>1, ComingFiles
  <2>3. PICK f, b, b2, d, e, C, y, N :
          /\ f = fat /\ b = block /\ b2 = With(block, p, e) /\ d = loc.cur /\ e = loc.entry
          /\ C = Chain(fat, d) /\ y = loc.entry.first /\ N = IF e.type = "dir" THEN {y} ELSE {}
    OBVIOUS
  <2>4. block' = b2
    BY <1>1, <1>5, <2>3 DEF WriteBlock, With
  <2>5. /\ f \in Fats /\ b \in [Clusters -> Blocks] /\ Filed(f, b, D, F, dp, {}) /\ Ground(f, D, F) /\ d \in D
        /\ e \in Entries
    BY <1>2, <2>2, <2>3 DEF AddPhase, Incoming, Heads, Locals, Filed, Tree
  <2>6. p \in D \X Slots /\ p \in Clusters \X Slots
    <3>1. p \in C \X Slots
      BY <2>3 DEF FreeSlot, FirstPlace
    <3>2. C \subseteq D
      BY <2>3, <2>5, ChainGround
    <3>3. QED
      BY <2>2, <3>1, <3>2
  <2>7. /\ At(b2, p) = e
        /\ \A q \in Clusters \X Slots : q # p => At(b2, q) = At(b, q)
        /\ \A c \in Clusters : c # p[1] => b2[c] = b[c]
    BY <2>3, <2>5, <2>6, WithAt
  <2>8. (e.first = NoCluster \/ Apart(f, D, F, e.first)) /\ Newborn(f, b, D, d, e, y) /\ e.first = y
    BY <1>2, <2>2, <2>3, NewbornNow
  <2>9. Joined(f, b, f, b2, D, F, N, p, e)
    <3>1. N \subseteq Clusters /\ p \in (D \cup N) \X Slots
      BY <2>3, <2>6, <2>8 DEF Newborn
    <3>2. ClosedUnderLinks(f, D \cup N)
      BY <2>3, <2>5, <2>8 DEF Newborn, ClosedUnderLinks, Ground
    <3>3. ASSUME NEW q \in (D \cup N) \X Slots, q # p
          PROVE  (q \in D \X Slots /\ At(b2, q) = At(b, q)) \/ ~IsProper(At(b2, q))
      <4>1. q \in Clusters \X Slots /\ At(b2, q) = At(b, q)
        BY <2>2, <2>7, <3>1, <3>3
      <4>2. CASE q \in D \X Slots
        BY <4>1, <4>2
      <4>3. CASE q \notin D \X Slots
        <5>1. PICK c \in D \cup N, i \in Slots : q = <<c, i>>
          BY <3>3
        <5>2. c = y /\ e.type = "dir"
          BY <2>3, <4>3, <5>1
        <5>3. ~IsProper(At(b, <<y, i>>))
          BY <2>8, <5>1, <5>2, NothingInNew DEF Newborn
        <5>4. QED
          BY <4>1, <5>1, <5>2, <5>3
      <4>4. QED
        BY <4>2, <4>3
    <3>4. e.type = "dir" => e.first \in D \cup N
      BY <2>3, <2>8
    <3>5. e.type = "file" => Whole(f, b2, e)
      <4>1. SUFFICES ASSUME e.type = "file" PROVE Whole(f, b2, e)
        OBVIOUS
      <4>2. Whole(f, b, e)
        BY <1>2, <2>1, <2>2, <2>3, <4>1 DEF Coming
      <4>3. \A c \in Clusters \ (D \cup F) : b2[c] = b[c]
        BY <2>6, <2>7
      <4>4. Beside(f, b, f, b2, D, F)
        BY <4>3 DEF Beside
      <4>5. QED
        BY <2>5, <2>8, <4>2, <4>4, WholeApart
    <3>6. Untouched(f, b, f, b2, F)
      BY <2>2, <2>6, <2>7 DEF Untouched
    <3>7. QED
      BY <2>7, <3>1, <3>2, <3>3, <3>4, <3>5, <3>6 DEF Joined
  <2>10. Texted(f, b2, D \cup N, {})
    BY <2>5, <2>9, MoreFiles
  <2>11. ~Storing' /\ ~Growing' /\ ~Adding' /\ Calm2'
    BY <1>2 DEF Storing, Growing, Adding, Flushing, Calm2
  <2>12. View(b2)' /\ Unfinished' = {} /\ Coming'
    BY <1>2, <2>4, <2>11 DEF View, Seen, Unfinished, Coming
  <2>13. Texted(fat', b2, D \cup N, Unfinished')
    BY <1>2, <2>3, <2>10, <2>12
  <2>14. MemFiles'
    BY <2>12, <2>13 DEF MemFiles
  <2>15. ready'
    BY <1>2 DEF Held, Given, SoundInv, OnlineInv
  <2>16. DiskFiles'
    BY <2>11, <2>14, <2>15, FilesFollow DEF Held, Given
  <2>17. QED
    BY <2>14, <2>16 DEF FileInv
<1>6. QED
  BY <1>4, <1>5

\* fs_add_entry gives the directory another cluster.
LEMMA AddEntryExtendFiles ==
  ASSUME Held, AddEntryExtend
  PROVE  FileInv'
<1>1. PICK new, l : new = Least(FirstFit(fat, 1)) /\ l = [loc EXCEPT !.data = new]
  OBVIOUS
<1>2. /\ pc = "addEntry" /\ fat \in Fats /\ loc \in Locals /\ block \in [Clusters -> Blocks] /\ HasRoom(fat, 1)
      /\ fat' = Extend(AllocChain(fat, 1), Last(fat, loc.cur), new) /\ StartFlush(l, "addCluster")
      /\ UNCHANGED block
  BY <1>1 DEF AddEntryExtend, disk, Held, Given, TypeInv, TypeOK
<1>3. new \in Clusters /\ fat[new] = FREE
  BY <1>1, <1>2, AllocOne
<1>4. l \in Locals /\ l.entry = loc.entry /\ l.data = new
  BY <1>1, <1>2, <1>3 DEF Locals
<1>5. pc' = "flush" /\ loc'.then = "addCluster" /\ loc'.entry = loc.entry /\ loc'.data = new
  <2>1. pc' = "flush" /\ loc' = [l EXCEPT !.k = 0, !.then = "addCluster"]
    BY <1>2 DEF StartFlush, Goto
  <2>2. loc'.then = "addCluster" /\ loc'.entry = l.entry /\ loc'.data = l.data
    BY <1>4, <2>1 DEF Locals
  <2>3. QED
    BY <1>4, <2>1, <2>2
<1>6. Growing' /\ ~Adding' /\ Exposed'
  BY <1>5 DEF Growing, Adding, Flushing, Exposed
<1>7. SUFFICES ASSUME Free(Tears)' PROVE MemFiles'
  BY <1>6 DEF FileInv, MemFiles, DiskFiles
<1>8. Adding
  BY <1>2 DEF Adding
<1>9. PICK D, F, dp : /\ AddPhase(D, F, dp) /\ Filed(fat, block, D, F, dp, {}) /\ Coming
                      /\ D \subseteq Clusters /\ F \subseteq Clusters /\ D \cap F = {}
  BY <1>7, <1>8, ComingFiles
<1>10. PICK f, g, b, b1, b2, d, e, last, p, y, N :
        /\ f = fat /\ g = fat' /\ b = block /\ d = loc.cur /\ e = loc.entry /\ y = loc.entry.first
        /\ b1 = [block EXCEPT ![new] = ZeroBlock] /\ last = Last(fat, loc.cur) /\ p = <<new, 1>>
        /\ b2 = [block EXCEPT ![new] = [ZeroBlock EXCEPT ![1] = loc.entry]]
        /\ N = {new} \cup (IF e.type = "dir" THEN {y} ELSE {})
  OBVIOUS
<1>11. /\ f \in Fats /\ Tree(f, b, D, F, dp) /\ Reached(f, b, D, F) /\ d \in Heads(f, D)
       /\ Ground(f, D, F) /\ Filed(f, b, D, F, dp, {})
  BY <1>2, <1>9, <1>10 DEF AddPhase, Incoming, Filed, Tree
<1>12. Appended(f, g, b, b1, D, F, d, last, new)
  <2>1. /\ f \in Fats /\ b \in [Clusters -> Blocks] /\ HasRoom(f, 1) /\ new = Least(FirstFit(f, 1))
        /\ last = Last(f, d) /\ g = Extend(AllocChain(f, 1), last, new) /\ b1 = [b EXCEPT ![new] = ZeroBlock]
    BY <1>1, <1>2, <1>10
  <2>2. QED
    BY ONLY <1>11, <2>1, ClusterAdded
<1>13. /\ new \notin D \cup F /\ g \in Fats /\ last \in D /\ g[last] = new /\ g[new] \notin Clusters
       /\ \A c \in Clusters : c # new /\ c # last => g[c] = f[c]
  BY <1>12, ClusterFacts DEF Appended
<1>14. 1 \in Slots
  BY FsAssumption DEF Slots
<1>15. /\ At(b2, p) = e /\ \A c \in Clusters : c # new => b2[c] = b[c]
       /\ \A i \in Slots : i # 1 => At(b2, <<new, i>>) = Zeroed
  BY <1>2, <1>3, <1>10, <1>14 DEF At, ZeroBlock
<1>16. (e.first = NoCluster \/ Apart(f, D, F, e.first)) /\ Newborn(f, b, D, d, e, y) /\ e.first = y
  BY <1>2, <1>9, <1>10, NewbornNow
<1>17. e.type = "dir" => y \in Clusters /\ y # new /\ y # last /\ g[y] \notin Clusters
  BY <1>3, <1>10, <1>13, <1>16 DEF Newborn
<1>18. Joined(f, b, g, b2, D, F, N, p, e)
  <2>1. N \subseteq Clusters /\ p \in (D \cup N) \X Slots
    BY <1>3, <1>10, <1>14, <1>17
  <2>2. ClosedUnderLinks(g, D \cup N)
    <3>1. SUFFICES ASSUME NEW c \in D \cup N, g[c] \in Clusters PROVE g[c] \in D \cup N
      BY DEF ClosedUnderLinks
    <3>2. CASE c = last
      BY <1>10, <1>13, <3>2
    <3>3. CASE c = new \/ (e.type = "dir" /\ c = y)
      BY <1>13, <1>17, <3>1, <3>3
    <3>4. CASE c \in D /\ c # last /\ c # new
      BY <1>9, <1>11, <1>13, <3>1, <3>4 DEF Ground
    <3>5. QED
      BY <1>10, <1>13, <3>1, <3>2, <3>3, <3>4
  <2>3. ASSUME NEW q \in (D \cup N) \X Slots, q # p
        PROVE  (q \in D \X Slots /\ At(b2, q) = At(b, q)) \/ ~IsProper(At(b2, q))
    <3>1. PICK c \in D \cup N, i \in Slots : q = <<c, i>>
      BY <2>3
    <3>2. CASE c \in D
      <4>1. b2[c] = b[c]
        BY <1>9, <1>13, <1>15, <3>2
      <4>2. QED
        BY <3>1, <3>2, <4>1 DEF At
    <3>3. CASE c = new
      <4>1. At(b2, q) = Zeroed
        BY <1>10, <1>15, <2>3, <3>1, <3>3
      <4>2. QED
        BY <4>1 DEF IsProper, Zeroed
    <3>4. CASE e.type = "dir" /\ c = y
      <4>1. b2[y] = DirBlock(y, d)
        BY <1>15, <1>16, <1>17, <3>4 DEF Newborn
      <4>2. QED
        BY <3>1, <3>4, <4>1, NothingInNew
    <3>5. QED
      BY <1>10, <3>1, <3>2, <3>3, <3>4
  <2>4. e.type = "dir" => e.first \in D \cup N
    BY <1>10, <1>16
  <2>5. e.type = "file" => Whole(g, b2, e)
    <3>1. SUFFICES ASSUME e.type = "file" PROVE Whole(g, b2, e)
      OBVIOUS
    <3>2. Whole(f, b, e)
      BY <1>2, <1>8, <1>9, <1>10, <3>1 DEF Coming
    <3>3. ASSUME NEW c \in Clusters \ (D \cup F), f[c] # FREE PROVE g[c] = f[c] /\ b2[c] = b[c]
      BY <1>3, <1>10, <1>13, <1>15, <3>3
    <3>4. Beside(f, b, g, b2, D, F)
      BY <3>3 DEF Beside
    <3>5. QED
      BY <1>11, <1>13, <1>16, <3>2, <3>4, WholeApart
  <2>6. Untouched(f, b, g, b2, F)
    BY <1>9, <1>13, <1>15 DEF Untouched
  <2>7. QED
    BY <1>15, <2>1, <2>2, <2>3, <2>4, <2>5, <2>6 DEF Joined
<1>19. Texted(g, b2, D \cup N, {})
  BY <1>11, <1>13, <1>18, MoreFiles
<1>20. Seen' = b2
  BY <1>2, <1>5, <1>6, <1>10 DEF Seen, Grown
<1>21. View(b2)' /\ Unfinished' = {} /\ Coming'
  BY <1>5, <1>6, <1>20 DEF View, Unfinished, Coming
<1>22. Texted(fat', b2, D \cup N, Unfinished')
  BY <1>10, <1>19, <1>21
<1>23. QED
  BY <1>21, <1>22 DEF MemFiles

\* A write outside the tree leaves its files as they are.
LEMMA OutsideTexts ==
  ASSUME NEW f \in Fats, NEW b, NEW b2, NEW D, NEW F, NEW dp, Filed(f, b, D, F, dp, {}),
         \A c \in D \cup F : b2[c] = b[c]
  PROVE  Texted(f, b2, D, {})
<1>1. \A q \in D \X Slots : At(b2, q) = At(b, q)
  BY DEF At
<1>2. Thinner(f, b, f, b2, D)
  BY <1>1 DEF Thinner
<1>3. ASSUME NEW q \in Proper(b2, D) \ {}, At(b2, q).type = "file"
      PROVE  Remains(f, b, f, b2, D, {}, q)
  <2>1. q \in Proper(b, D) /\ At(b2, q) = At(b, q)
    BY <1>1, <1>3 DEF Proper
  <2>2. Chain(f, At(b, q).first) \subseteq F
    <3>1. Tree(f, b, D, F, dp)
      BY DEF Filed
    <3>2. QED
      BY <1>3, <2>1, <3>1, FileWithin
  <2>3. QED
    BY <2>1, <2>2 DEF Remains, Untouched
<1>4. QED
  BY <1>2, <1>3, FewerFiles

\* The dot entries of a new directory are written.
LEMMA InitDirFiles ==
  ASSUME Held, InitDir
  PROVE  FileInv'
<1>1. PICK w \in Writes :
        /\ WriteBlock(loc.entry.first, DirBlock(loc.entry.first, loc.cur), w)
        /\ IF w = "done" THEN Goto("addEntry", loc) /\ UNCHANGED <<ret, marks>>
                         ELSE GiveUp({"leak"})
  BY DEF InitDir
<1>2. /\ pc = "initDir" /\ fat \in Fats /\ ready' /\ block \in [Clusters -> Blocks] /\ UNCHANGED fat
  BY <1>1 DEF InitDir, memory, Held, Given, TypeInv, TypeOK, SoundInv, OnlineInv
<1>3. pc' = "idle" \/ (pc' = "addEntry" /\ loc' = loc)
  BY <1>1 DEF GiveUp, Return, Goto
<1>4. ~Storing' /\ ~Growing' /\ Calm2'
  BY <1>3 DEF Storing, Growing, Adding, Flushing, Calm2
<1>5. SUFFICES ASSUME Free(Tears)' PROVE FileInv'
  BY FilesTorn
<1>6. Adding
  BY <1>2 DEF Adding
<1>7. PICK D, F, dp : /\ AddPhase(D, F, dp) /\ Filed(fat, block, D, F, dp, {}) /\ Coming
                      /\ D \subseteq Clusters /\ F \subseteq Clusters /\ D \cap F = {}
  BY <1>5, <1>6, ComingFiles
<1>8. PICK x : x = loc.entry.first
  OBVIOUS
<1>9. loc.entry.type = "dir" /\ x \in Clusters /\ Apart(fat, D, F, x)
  <2>1. loc.entry.type = "dir"
    BY <1>2, <1>7 DEF AddPhase, Arriving
  <2>2. x \in Clusters
    BY <1>7, <1>8, <2>1 DEF AddPhase, Incoming
  <2>3. QED
    BY <1>7, <1>8, <2>1, <2>2, ClusterFacts DEF AddPhase, Incoming, NoCluster, FREE
<1>10. x \notin D \cup F
  BY <1>2, <1>9, ChainProperties DEF Apart
<1>11. \A c \in D \cup F : block'[c] = block[c]
  BY <1>1, <1>2, <1>7, <1>8, <1>9, <1>10 DEF WriteBlock
<1>12. PICK f, b, b2 : f = fat /\ b = block /\ b2 = block'
  OBVIOUS
<1>13. Texted(f, b2, D, {})
  BY <1>2, <1>7, <1>11, <1>12, OutsideTexts
<1>14. View(b2)' /\ Unfinished' = {} /\ Coming'
  BY <1>3, <1>4, <1>9, <1>12 DEF View, Seen, Unfinished, Coming, Adding, Flushing
<1>15. Texted(fat', b2, D, Unfinished')
  BY <1>2, <1>12, <1>13, <1>14
<1>16. MemFiles'
  BY <1>14, <1>15 DEF MemFiles
<1>17. DiskFiles'
  BY <1>2, <1>4, <1>16, FilesFollow DEF Held, Given
<1>18. QED
  BY <1>16, <1>17 DEF FileInv

\* The cluster of a text that is being written is not looked at before.
LEMMA LaidSame ==
  ASSUME NEW f \in Fats, NEW b \in [Clusters -> Blocks], NEW e, NEW text, NEW ps, NEW y, NEW k,
         Laid(f, b, e, text, ps, y, k), NEW t, NEW b2, b2 = [b EXCEPT ![y] = t]
  PROVE  Laid(f, b2, e, text, ps, y, k)
<1>1. PICK C : C = Chain(f, e.first)
  OBVIOUS
<1>2. /\ e.first \in Clusters /\ text \in Texts /\ Cardinality(C) = e.size /\ ps[e.first] = 1
      /\ \A c, d \in C : ps[c] = ps[d] => c = d
      /\ y \in C /\ ps[y] = k
  BY <1>1 DEF Laid
<1>3. /\ \A c \in C : ps[c] \in 1..e.size
      /\ \A c \in C : IF f[c] \in Clusters THEN ps[f[c]] = ps[c] + 1 ELSE f[c] = EOC /\ ps[c] = e.size
      /\ \A c \in C : ps[c] < k => b[c] = TextBlock(text, ps[c])
  BY <1>1 DEF Laid
<1>4. C \subseteq Clusters
  BY <1>1, <1>2, ChainProperties
<1>5. ASSUME NEW c \in C, ps[c] < k PROVE b2[c] = TextBlock(text, ps[c])
  <2>1. k \in Int
    BY <1>2, <1>3
  <2>2. c # y
    BY <1>2, <1>5, <2>1
  <2>3. QED
    BY <1>1, <1>3, <1>4, <1>5, <2>2
<1>6. QED
  BY <1>1, <1>2, <1>3, <1>5 DEF Laid

\* A cluster of data is written: the text goes on, or it is whole.
LEMMA WriteDataTexts ==
  ASSUME Given, WriteData, Coming
  PROVE  \/ pc' = "idle"
         \/ /\ pc' = "data" /\ loc'.entry.size = loc'.req.size
            /\ \E ps : Laid(fat', block', loc'.entry, loc'.req.text, ps, loc'.data, loc'.k)
         \/ pc' = "flush" /\ Whole(fat', block', loc'.entry)
<1>1. PICK w \in Writes :
        /\ WriteBlock(loc.data, TextBlock(loc.req.text, loc.k), w)
        /\ IF w # "done"
           THEN GiveUp(IF loc.found THEN {"dangling", "torn"} ELSE {"leak"})
           ELSE /\ IF loc.k < loc.req.size /\ fat[loc.data] \in Clusters
                   THEN Goto("data", [loc EXCEPT !.data = fat[@], !.k = @ + 1])
                   ELSE StartFlush(loc, StoreStep(loc))
                /\ UNCHANGED <<ret, marks>>
  BY DEF WriteData
<1>2. pc = "data" /\ fat \in Fats /\ loc \in Locals /\ block \in [Clusters -> Blocks] /\ UNCHANGED fat
  BY DEF WriteData, memory, Given, TypeInv, TypeOK
<1>3. CASE w # "done"
  BY <1>1, <1>3 DEF GiveUp, Return
<1>4. CASE w = "done"
  <2>1. PICK e, text, y, k, f, b, b2 :
          /\ e = loc.entry /\ text = loc.req.text /\ y = loc.data /\ k = loc.k /\ f = fat /\ b = block
          /\ b2 = [block EXCEPT ![y] = TextBlock(text, k)]
    OBVIOUS
  <2>2. PICK ps : Laid(f, b, e, text, ps, y, k)
    BY <1>2, <2>1 DEF Coming
  <2>3. /\ e.size = loc.req.size /\ loc.req.size \in Nat /\ b2 = block' /\ f \in Fats /\ b \in [Clusters -> Blocks]
    <3>1. loc.req.size \in Nat
      BY <1>2, RequestFields DEF Locals
    <3>2. QED
      BY <1>1, <1>2, <1>4, <2>1, <3>1 DEF Coming, WriteBlock
  <2>4. CASE loc.k < loc.req.size /\ fat[loc.data] \in Clusters
    <3>1. pc' = "data" /\ loc' = [loc EXCEPT !.data = fat[@], !.k = @ + 1]
      BY <1>1, <1>4, <2>4 DEF Goto
    <3>2. loc'.entry = e /\ loc'.req = loc.req /\ loc'.data = f[y] /\ loc'.k = k + 1
      BY <1>2, <2>1, <3>1 DEF Locals
    <3>3. Laid(f, b2, e, text, ps, f[y], k + 1)
      <4>1. f[y] \in Clusters /\ e.size \in Nat /\ b2 = [b EXCEPT ![y] = TextBlock(text, k)]
        BY <2>1, <2>3, <2>4
      <4>2. QED
        BY ONLY <2>2, <2>3, <4>1, LaidOn
    <3>4. Laid(fat', block', loc'.entry, loc'.req.text, ps, loc'.data, loc'.k)
      BY <1>2, <2>1, <2>3, <3>2, <3>3
    <3>5. QED
      BY <2>1, <2>3, <3>1, <3>2, <3>4
  <2>5. CASE ~(loc.k < loc.req.size /\ fat[loc.data] \in Clusters)
    <3>1. StartFlush(loc, StoreStep(loc))
      BY <1>1, <1>4, <2>5
    <3>2. pc' = "flush" /\ loc'.entry = e
      BY <1>2, <2>1, <3>1 DEF StartFlush, Goto, Locals
    <3>3. Laid(f, b2, e, text, ps, y, k)
      <4>1. b2 = [b EXCEPT ![y] = TextBlock(text, k)]
        BY <2>1
      <4>2. QED
        BY ONLY <2>2, <2>3, <4>1, LaidSame
    <3>4. y \in Clusters /\ k \in 1..e.size
      BY <2>2, <2>3, ChainProperties DEF Laid
    <3>5. b2[y] = TextBlock(text, k)
      BY <2>1, <2>3, <3>4
    <3>6. k = e.size \/ f[y] \notin Clusters
      BY <2>1, <2>3, <2>5, <3>4
    <3>7. Whole(f, b2, e)
      BY <2>3, <3>3, <3>5, <3>6, LaidWhole
    <3>8. QED
      BY <1>2, <2>1, <2>3, <3>2, <3>7
  <2>6. QED
    BY <2>4, <2>5
<1>5. QED
  BY <1>3, <1>4

\* A cluster of a new file is written: it is no part of the tree yet.
LEMMA WriteNewData ==
  ASSUME Held, WriteData, ~loc.found, Free(Tears)'
  PROVE  FileInv'
<1>1. /\ pc = "data" /\ fat \in Fats /\ loc \in Locals /\ ready' /\ UNCHANGED fat
      /\ \A c \in Clusters : c # loc.data => block'[c] = block[c]
  BY WriteDataSteps DEF Held
<1>2. \/ pc' = "idle"
      \/ /\ loc'.found = loc.found /\ loc'.entry = loc.entry
         /\ pc' = "data" \/ (pc' = "flush" /\ loc'.then = "addEntry")
  BY WriteDataSteps DEF Held, StoreStep
<1>3. Adding
  BY <1>1 DEF Adding
<1>4. PICK D, F, dp : /\ AddPhase(D, F, dp) /\ Filed(fat, block, D, F, dp, {}) /\ Coming
                      /\ D \subseteq Clusters /\ F \subseteq Clusters /\ D \cap F = {}
  BY <1>3, ComingFiles
<1>5. loc.data \notin D \cup F
  <2>1. loc.data \in Chain(fat, loc.entry.first)
    BY <1>1, <1>4 DEF AddPhase, Arriving
  <2>2. loc.entry.first \in Clusters
    BY <2>1, NoChain
  <2>3. Apart(fat, D, F, loc.entry.first)
    BY <1>4, <2>2, ClusterFacts DEF AddPhase, Incoming, NoCluster, FREE
  <2>4. QED
    BY <2>1, <2>3 DEF Apart
<1>6. \A c \in D \cup F : block'[c] = block[c]
  BY <1>1, <1>4, <1>5
<1>7. PICK f, b, b2 : f = fat /\ b = block /\ b2 = block'
  OBVIOUS
<1>8. Texted(f, b2, D, {})
  BY <1>1, <1>4, <1>6, <1>7, OutsideTexts
<1>9. ~Storing' /\ ~Growing' /\ pc' # "scan" /\ Calm2'
  BY <1>2 DEF Storing, Growing, Adding, Flushing, Calm2
<1>10. View(b2)' /\ Unfinished' = {}
  BY <1>2, <1>7, <1>9 DEF View, Seen, Unfinished
<1>11. Coming'
  <2>1. \/ pc' = "idle"
        \/ /\ pc' = "data" /\ loc'.entry.size = loc'.req.size
           /\ \E ps : Laid(fat', block', loc'.entry, loc'.req.text, ps, loc'.data, loc'.k)
        \/ pc' = "flush" /\ Whole(fat', block', loc'.entry)
    BY <1>4, WriteDataTexts DEF Held
  <2>2. pc' = "data" => ~loc'.found
    BY <1>2
  <2>3. QED
    BY <2>1, <2>2 DEF Coming, Adding, Flushing
<1>12. Texted(fat', b2, D, Unfinished')
  BY <1>1, <1>7, <1>8, <1>10
<1>13. MemFiles'
  BY <1>10, <1>11, <1>12 DEF MemFiles
<1>14. DiskFiles'
  BY <1>1, <1>9, <1>13, FilesFollow DEF Held, Given
<1>15. QED
  BY <1>13, <1>14 DEF FileInv

\* A cluster of the file at p is written.
LEMMA OverTexts ==
  ASSUME NEW f \in Fats, NEW b \in [Clusters -> Blocks], NEW b1 \in [Clusters -> Blocks],
         NEW D, NEW F, NEW dp, NEW p \in D \X Slots, NEW e \in Entries, IsProper(e),
         NEW v, v = With(b, p, e), NEW w, w = With(b1, p, e), Filed(f, v, D, F, dp, {p}),
         NEW y \in F, y \in Chain(f, e.first), \A c \in Clusters : c # y => b1[c] = b[c],
         NEW X, X = {p} \/ (X = {} /\ Whole(f, b1, e))
  PROVE  Texted(f, w, D, X)
<1>1. Tree(f, v, D, F, dp) /\ D \subseteq Clusters /\ F \subseteq Clusters /\ D \cap F = {} /\ Ground(f, D, F)
  BY DEF Filed, Tree, Ground
<1>2. p \in Clusters \X Slots /\ p[1] \in D
  BY <1>1
<1>3. /\ At(v, p) = e /\ \A q \in Clusters \X Slots : q # p => At(v, q) = At(b, q)
      /\ \A c \in Clusters : c # p[1] => v[c] = b[c]
  BY <1>2, WithAt
<1>4. /\ At(w, p) = e /\ \A q \in Clusters \X Slots : q # p => At(w, q) = At(b1, q)
      /\ \A c \in Clusters : c # p[1] => w[c] = b1[c]
  BY <1>2, WithAt
<1>5. \A q \in D \X Slots : At(w, q) = At(v, q)
  <2>1. SUFFICES ASSUME NEW q \in D \X Slots, q # p PROVE At(w, q) = At(v, q)
    BY <1>3, <1>4
  <2>2. q \in Clusters \X Slots /\ q[1] \in D
    BY <1>1, <2>1
  <2>3. b1[q[1]] = b[q[1]]
    BY <1>1, <2>2
  <2>4. QED
    BY <1>3, <1>4, <2>1, <2>2, <2>3 DEF At
<1>6. Thinner(f, v, f, w, D)
  BY <1>5 DEF Thinner
<1>7. p \in Proper(v, D) /\ e.type = "file"
  <2>1. p \in Proper(v, D) /\ e.type \in {"file", "dir"}
    BY <1>3 DEF Proper, IsProper
  <2>2. CASE e.type = "dir"
    <3>1. e.first \in D
      BY <1>1, <1>3, <2>1, <2>2 DEF Tree, Entered
    <3>2. Chain(f, e.first) \subseteq D
      BY <1>1, <3>1, ChainGround
    <3>3. QED
      BY <1>1, <3>2
  <2>3. QED
    BY <2>1, <2>2
<1>8. ASSUME NEW q \in Proper(w, D) \ X, At(w, q).type = "file"
      PROVE  Remains(f, v, f, w, D, {p}, q) \/ Whole(f, w, At(w, q))
  <2>1. q \in Proper(v, D) /\ At(w, q) = At(v, q)
    BY <1>5, <1>8 DEF Proper
  <2>2. PICK C : C = Chain(f, At(v, q).first)
    OBVIOUS
  <2>3. C \subseteq F
    BY <1>1, <1>8, <2>1, <2>2, FileWithin
  <2>4. CASE q = p
    <3>1. Whole(f, b1, e) /\ At(w, q) = e /\ C = Chain(f, e.first)
      BY <1>3, <1>4, <1>8, <2>2, <2>4
    <3>2. \A c \in C : f[c] = f[c] /\ w[c] = b1[c]
      BY <1>1, <1>2, <1>4, <2>3
    <3>3. QED
      BY <3>1, <3>2, WholeSame
  <2>5. CASE q # p
    <3>1. C \cap Chain(f, At(v, p).first) = {}
      BY <1>1, <1>3, <1>7, <1>8, <2>1, <2>2, <2>5, FilesDiffer
    <3>2. y \notin C
      BY <1>3, <3>1
    <3>3. \A c \in C : w[c] = v[c]
      BY <1>1, <1>2, <1>3, <1>4, <2>3, <3>2
    <3>4. QED
      BY <2>1, <2>2, <2>5, <3>3 DEF Remains, Untouched
  <2>6. QED
    BY <2>4, <2>5
<1>9. QED
  BY <1>6, <1>8, FewerFiles

\* A cluster of a file that is overwritten is written.
LEMMA WriteOverData ==
  ASSUME Held, WriteData, loc.found, Free(Tears)'
  PROVE  FileInv'
<1>1. /\ pc = "data" /\ fat \in Fats /\ loc \in Locals /\ UNCHANGED fat
      /\ \A c \in Clusters : c # loc.data => block'[c] = block[c]
  BY WriteDataSteps DEF Held
<1>2. /\ loc'.found /\ loc'.at = loc.at /\ loc'.entry = loc.entry
      /\ pc' = "data" \/ (pc' = "flush" /\ loc'.then = "setEntry")
  <2>1. ~(pc' = "idle" /\ {"dangling", "torn"} \subseteq marks')
    BY DEF Free, Tears
  <2>2. QED
    BY <2>1, WriteDataSteps DEF Held, StoreStep
<1>3. Storing /\ Storing' /\ ~Growing /\ ~Growing' /\ ~Adding' /\ pc' # "scan"
  BY <1>1, <1>2 DEF Storing, Growing, Adding, Flushing
<1>4. DiskFiles'
  BY <1>2 DEF DiskFiles, Exposed, Flushing
<1>5. PICK E, D, F, dp : Phase(D, F, dp) /\ View(E) /\ Filed(fat, E, D, F, dp, Unfinished) /\ Coming
  BY <1>1, FilesNow
<1>6. StorePhase(D, F, dp) /\ loc.at \in D \X Slots /\ loc.data \in F
  BY <1>1, <1>3, <1>5 DEF Phase, StorePhase
<1>7. loc.entry \in Entries /\ IsProper(loc.entry) /\ loc.data \in Chain(fat, loc.entry.first)
  BY <1>1, <1>5 DEF Coming, Laid, Locals
<1>8. PICK f, b, b1, p, e, y, v, w, X :
        /\ f = fat /\ b = block /\ b1 = block' /\ p = loc.at /\ e = loc.entry /\ y = loc.data
        /\ v = With(block, loc.at, loc.entry) /\ w = With(block', loc.at, loc.entry) /\ X = Unfinished'
  OBVIOUS
<1>9. /\ f \in Fats /\ b \in [Clusters -> Blocks] /\ b1 \in [Clusters -> Blocks]
      /\ p \in D \X Slots /\ e \in Entries /\ IsProper(e) /\ y \in F /\ y \in Chain(f, e.first)
      /\ \A c \in Clusters : c # y => b1[c] = b[c]
      /\ v = With(b, p, e) /\ w = With(b1, p, e)
  BY <1>1, <1>6, <1>7, <1>8 DEF Held, Given, TypeInv, TypeOK
<1>10. Filed(f, v, D, F, dp, {p})
  <2>1. E = v /\ Unfinished = {p}
    BY <1>1, <1>3, <1>5, <1>8 DEF View, Seen, Unfinished
  <2>2. QED
    BY <1>5, <1>8, <2>1
<1>11. \/ pc' = "idle"
       \/ /\ pc' = "data" /\ loc'.entry.size = loc'.req.size
          /\ \E ps : Laid(fat', block', loc'.entry, loc'.req.text, ps, loc'.data, loc'.k)
       \/ pc' = "flush" /\ Whole(fat', block', loc'.entry)
  BY <1>5, WriteDataTexts DEF Held
<1>12. X = {p} \/ (X = {} /\ Whole(f, b1, e))
  BY <1>1, <1>2, <1>8, <1>11 DEF Unfinished
<1>13. Texted(f, w, D, X)
  BY ONLY <1>9, <1>10, <1>12, OverTexts
<1>14. Coming'
  BY <1>2, <1>3, <1>7, <1>11 DEF Coming
<1>15. View(w)'
  BY <1>2, <1>3, <1>8 DEF View, Seen
<1>16. Texted(fat', w, D, Unfinished')
  BY <1>1, <1>8, <1>13
<1>17. MemFiles'
  BY <1>14, <1>15, <1>16 DEF MemFiles
<1>18. QED
  BY <1>4, <1>17 DEF FileInv

LEMMA WriteDataFiles ==
  ASSUME Held, WriteData
  PROVE  FileInv'
BY FilesTorn, WriteNewData, WriteOverData

\* fs_add_entry, fs_write_entry_at and the writes around them.
LEMMA StoreGroupFiles ==
  ASSUME Held, Store
  PROVE  FileInv'
BY WriteDataFiles, InitDirFiles, FlushFiles, AddEntryFiles, AddEntryExtendFiles, AddEntryFailsFiles,
   AddClusterFiles, SetEntryFiles DEF Store

-------------------------------------------------------------------------------
\* Every step keeps the files.

LEMMA InitFiles == Init => FileInv
BY DEF Init, FileInv, MemFiles, DiskFiles

LEMMA StutterFiles ==
  ASSUME FileInv, UNCHANGED vars
  PROVE  FileInv'
<1>1. UNCHANGED <<super, ready, diskFat, fat, block, pc, loc, frames, marks>>
  BY DEF vars, disk, memory
<1>2. /\ (Free(Tears)' <=> Free(Tears)) /\ (Exposed' <=> Exposed) /\ (Adding' <=> Adding)
      /\ Seen' = Seen /\ Unfinished' = Unfinished
  BY <1>1 DEF Free, Seen, Growing, Grown, Storing, Flushing, Exposed, Running, Adding, Unfinished
<1>3. \A E : View(E) => View(E)'
  BY <1>1, <1>2 DEF View, Copied
<1>4. Coming => Coming'
  BY <1>1, <1>2 DEF Coming
<1>5. MemFiles'
  BY <1>1, <1>2, <1>3, <1>4 DEF FileInv, MemFiles
<1>6. DiskFiles'
  BY <1>1, <1>2 DEF FileInv, DiskFiles
<1>7. QED
  BY <1>5, <1>6 DEF FileInv

LEMMA StepFiles ==
  ASSUME Inv, FileInv, [Next]_vars
  PROVE  FileInv'
<1>1. Inv' /\ TypeInv' /\ SyncInv' /\ SoundInv'
  BY StepSound DEF Inv
<1>2. CASE UNCHANGED vars
  BY <1>2, StutterFiles
<1>3. CASE Next
  <2>1. CASE Step
    <3>1. Held
      BY <1>1, <2>1, MarksStay DEF Held, Given, Inv
    <3>2. QED
      BY <2>1, <3>1, StartingFiles, WalkFiles, DecideFiles, ScanGroupFiles, StoreGroupFiles DEF Step
  <2>2. CASE Offline \/ \E r \in Requests : Call(r) \/ CallRoot(r)
    <3>1. Held
      BY <1>1, <2>2 DEF Held, Given, Inv, Offline, Call, CallRoot
    <3>2. QED
      BY <2>2, <3>1, CallFiles
  <2>3. CASE Crash
    <3>1. Held
      BY <1>1, <2>3 DEF Held, Given, Inv, Crash
    <3>2. QED
      BY <2>3, <3>1, CrashFiles
  <2>4. QED
    BY <1>3, <2>1, <2>2, <2>3 DEF Next
<1>4. QED
  BY <1>2, <1>3

LEMMA FilesInvariant == Spec => []FileInv
<1>1. Inv /\ FileInv /\ [Next]_vars => FileInv'
  BY StepFiles
<1>2. QED
  BY <1>1, InitFiles, SoundInvariant, PTL DEF Spec

\* A file that was written is read back whole: between two commands the entry of
\* every file that can be reached has a chain of as many clusters as its size says,
\* with the pieces of one text on it in their order and no other, whatever commands,
\* failed requests and power losses came before, unless an overwrite was cut short.
\* This is what fs_write_file promises and fs_read_file relies on.
THEOREM FilesStayWhole == Spec => []FilesWhole
<1>1. Inv /\ FileInv => FilesWhole
  <2>1. SUFFICES ASSUME FileInv, Settled, Free(Tears), NEW e \in FilesIn(fat, block)
                 PROVE  Whole(fat, block, e)
    BY DEF FilesWhole, Tears
  <2>2. ready /\ pc = "idle" /\ Seen = block /\ Unfinished = {}
    BY <2>1 DEF Settled, Seen, Growing, Storing, Flushing, Unfinished
  <2>3. PICK S : Texted(fat, block, S, {})
    BY <2>1, <2>2 DEF FileInv, MemFiles, View
  <2>4. Dirs(fat, block) \subseteq S
    BY <2>3, DirsWithin DEF Texted
  <2>5. PICK p \in ProperPlaces(fat, block) : e = block[p[1]][p[2]] /\ e.type = "file"
    BY DEF FilesIn
  <2>6. p \in Proper(block, S) \ {} /\ At(block, p) = e
    BY <2>4, <2>5 DEF ProperPlaces, ProperAt, Proper, At
  <2>7. QED
    BY <2>3, <2>5, <2>6 DEF Texted
<1>2. QED
  BY <1>1, FilesInvariant, SoundInvariant, PTL

-------------------------------------------------------------------------------
\* What an operation that returns success has done.

\* Entry type, size and name are those that the call asks for.
Asked(r, e) ==
  \/ r.op = "mkdir" /\ e.type = "dir" /\ e.size = 0
  \/ r.op = "touch" /\ e.type = "file" /\ e.size = 0
  \/ r.op = "write" /\ e.type = "file" /\ e.size = r.size

\* Directory x has the name n for directory y.
Leads(f, b, x, n, y) ==
  \E p \in Chain(f, x) \X Slots :
    At(b, p).name = n /\ At(b, p).type = "dir" /\ At(b, p).first = y

Routes(names) == [0..Len(names) -> Clusters \cup {NoCluster}]

\* The first m names lead from x along the clusters w.
Route(f, b, x, names, m, w) ==
  /\ w \in Routes(names) /\ w[0] = x
  /\ \A i \in 1..m : names[i] \in Names \cup Dots /\ Leads(f, b, w[i - 1], names[i], w[i])

\* They lead nowhere else, if anywhere.
NoOther(f, b, x, names, m, w) ==
  /\ w \in Routes(names) /\ w[0] = x
  /\ \A i \in 1..m :
       /\ names[i] \in Names \cup Dots
       /\ \A p \in Chain(f, w[i - 1]) \X Slots : At(b, p).name = names[i] => At(b, p).first = w[i]

\* Where the path of call r starts.
Origin(r) == IF r.path.abs THEN RootCluster ELSE cwd

\* How many names of its path the running call has followed.
Gone == Len(loc.req.path.comps) - Len(loc.rest)

\* The steps that are about to store the entry that was asked for, or to remove one.
Putting == Adding \/ Growing \/ (Storing /\ loc.req.op = "write")
Taking  == pc = "scan" \/ Flushing("return") \/ (pc = "setEntry" /\ loc.req.op # "write")

\* What is still to be walked is the end of the path.
CallInv ==
  /\ pc = "walk" \/ Putting \/ Taking =>
       /\ loc.req \in Requests /\ Len(loc.rest) <= Len(loc.req.path.comps)
       /\ \A j \in 1..Len(loc.rest) : loc.rest[j] = loc.req.path.comps[Gone + j]
  /\ Putting \/ Taking => Len(loc.rest) = 1 /\ loc.rest[1] \in Names \cup Dots
  /\ Putting => Asked(loc.req, loc.entry) /\ loc.entry.name = loc.rest[1]
  /\ Taking => loc.req.op \in {"rm", "rmdir"}
  /\ pc = "setEntry" /\ loc.req.op # "write" => loc.entry = Zeroed

\* The names before it lead to loc.cur.
PutInv ==
  /\ pc = "walk" \/ Putting =>
       \E w : Route(fat, Seen, Origin(loc.req), loc.req.path.comps, Gone, w) /\ w[Gone] = loc.cur
  /\ Growing => loc.data \in Chain(fat, loc.cur)
  /\ Putting /\ Storing => loc.at \in Chain(fat, loc.cur) \X Slots

\* They have led there, and loc.at is the place of what is removed.
TakeInv ==
  Taking =>
    /\ \E w : NoOther(fat, block, Origin(loc.req), loc.req.path.comps, Gone, w) /\ w[Gone] = loc.cur
    /\ \A q \in Chain(fat, loc.cur) \X Slots :
         At(block, q).name = loc.rest[1] => q = loc.at /\ pc # "flush"

WayInv == Free(Strays) /\ Clear => CallInv /\ PutInv /\ TakeInv

\* No operation has a result before it returns.
RetInv == pc # "idle" => ret = "none"

SuccInv == RetInv /\ WayInv

\* Call r has done what it promises.
Finished(r) ==
  LET names == r.path.comps
      m     == Len(names) - 1
  IN  \/ r.op = "cd"
      \/ /\ r.op \in {"mkdir", "touch", "write"} /\ m \in Nat
         /\ \E w : /\ Route(fat, block, Origin(r), names, m, w)
                   /\ \E q \in Chain(fat, w[m]) \X Slots :
                        At(block, q).name = names[m + 1] /\ Asked(r, At(block, q))
      \/ /\ r.op \in {"rm", "rmdir"} /\ m \in Nat
         /\ \E w : /\ NoOther(fat, block, Origin(r), names, m, w)
                   /\ \A q \in Chain(fat, w[m]) \X Slots : At(block, q).name # names[m + 1]

-------------------------------------------------------------------------------
\* Where names lead.

\* From a directory of the tree, to directories of the tree.
LEMMA LeadsToHead ==
  ASSUME NEW f \in Fats, NEW b, NEW D, NEW F, NEW dp, Tree(f, b, D, F, dp), Reached(f, b, D, F),
         NEW S, Single(f, b, S), D \subseteq S,
         NEW x \in Heads(f, D), NEW n \in Names \cup Dots, NEW y, Leads(f, b, x, n, y)
  PROVE  y \in Heads(f, D)
<1>1. PICK p \in Chain(f, x) \X Slots : At(b, p).name = n /\ At(b, p).type = "dir" /\ At(b, p).first = y
  BY DEF Leads
<1>2. x \in D /\ Chain(f, x) \subseteq D /\ x \in Chain(f, x)
  BY ChainGround DEF Tree, Heads
<1>3. CASE n \in Dots
  <2>1. PICK h \in Heads(f, D) : At(b, <<x, 1>>) = DirEntry(".", x) /\ At(b, <<x, 2>>) = DirEntry("..", h)
    BY DotsOf
  <2>2. PICK i \in {1, 2} : n = IF i = 1 THEN "." ELSE ".."
    BY <1>3 DEF Dots
  <2>3. PICK q : q = <<x, i>>
    OBVIOUS
  <2>4. q \in Chain(f, x) \X Slots
    BY <1>2, <2>3, FsAssumption DEF Slots
  <2>5. At(b, q).name = n /\ At(b, q).first \in Heads(f, D)
    BY <2>1, <2>2, <2>3 DEF DirEntry
  <2>6. n # Empty
    BY <1>3 DEF Dots, Empty
  <2>7. p = q
    BY <1>1, <1>2, <2>4, <2>5, <2>6 DEF Single
  <2>8. QED
    BY <1>1, <2>5, <2>7
<1>4. CASE n \notin Dots
  <2>1. p \in Proper(b, D)
    BY <1>1, <1>2, <1>4 DEF Proper, IsProper
  <2>2. QED
    BY <1>1, <2>1, EntryIsHead
<1>5. QED
  BY <1>3, <1>4

LEMMA RouteHeads ==
  ASSUME NEW f \in Fats, NEW b, NEW D, NEW F, NEW dp, Tree(f, b, D, F, dp), Reached(f, b, D, F),
         NEW S, Single(f, b, S), D \subseteq S, NEW x \in Heads(f, D),
         NEW names, NEW m \in Nat, NEW w, Route(f, b, x, names, m, w)
  PROVE  \A i \in 0..m : w[i] \in Heads(f, D)
<1>1. PICK A : A = {i \in 0..m : w[i] \notin Heads(f, D)}
  OBVIOUS
<1>2. ASSUME NEW a \in A PROVE FALSE
  <2>1. A \in SUBSET Nat
    BY <1>1
  <2>2. PICK k \in A : \A j \in A : k <= j
    BY <2>1, LeastNumber
  <2>3. k \in 0..m /\ w[k] \notin Heads(f, D) /\ w[0] = x
    BY <1>1 DEF Route
  <2>4. k # 0
    BY <2>3
  <2>5. k - 1 \in 0..m /\ k - 1 \notin A /\ k \in 1..m
    BY <2>2, <2>3, <2>4
  <2>6. w[k - 1] \in Heads(f, D)
    BY <1>1, <2>5
  <2>7. names[k] \in Names \cup Dots /\ Leads(f, b, w[k - 1], names[k], w[k])
    BY <2>5 DEF Route
  <2>8. w[k] \in Heads(f, D)
    BY <2>6, <2>7, LeadsToHead
  <2>9. QED
    BY <2>3, <2>8
<1>3. QED
  BY <1>1, <1>2

\* Table g and clusters b2 have every link and every directory that f and b have.
Richer(f, b, g, b2, D) ==
  /\ \A c \in D : f[c] \in Clusters => g[c] = f[c]
  /\ \A p \in D \X Slots : At(b, p).type = "dir" /\ At(b, p).name # Empty => At(b2, p) = At(b, p)

LEMMA ChainRicher ==
  ASSUME NEW f \in Fats, NEW g \in Fats, NEW D \in SUBSET Clusters, ClosedUnderLinks(f, D),
         \A c \in D : f[c] \in Clusters => g[c] = f[c], NEW x \in D
  PROVE  Chain(f, x) \subseteq Chain(g, x) \cap D
<1>1. PICK A : A = Chain(g, x) \cap D
  OBVIOUS
<1>2. x \in Clusters /\ x \in Chain(g, x) /\ Chain(g, x) \subseteq Clusters /\ ClosedUnderLinks(g, Chain(g, x))
  BY ChainProperties
<1>3. A \in SUBSET Clusters /\ x \in A
  BY <1>1, <1>2
<1>4. ClosedUnderLinks(f, A)
  BY <1>1, <1>2 DEF ClosedUnderLinks
<1>5. QED
  BY <1>1, <1>3, <1>4, ChainWithin

\* A path leads where it led when there is more on the disk.
LEMMA RouteRicher ==
  ASSUME NEW f \in Fats, NEW g \in Fats, NEW b, NEW b2, NEW D, NEW F, NEW dp, Tree(f, b, D, F, dp),
         NEW x, NEW names, NEW m \in Nat, NEW w, Route(f, b, x, names, m, w),
         \A i \in 0..m : w[i] \in Heads(f, D), Richer(f, b, g, b2, D)
  PROVE  Route(g, b2, x, names, m, w)
<1>1. D \in SUBSET Clusters /\ ClosedUnderLinks(f, D)
  BY DEF Tree, Ground, ClosedUnderLinks
<1>2. \A c \in D : f[c] \in Clusters => g[c] = f[c]
  BY DEF Richer
<1>3. ASSUME NEW i \in 1..m PROVE Leads(g, b2, w[i - 1], names[i], w[i])
  <2>1. i - 1 \in 0..m
    OBVIOUS
  <2>2. PICK y : y = w[i - 1] /\ y \in D
    BY <2>1 DEF Heads
  <2>3. PICK p \in Chain(f, y) \X Slots : At(b, p).name = names[i] /\ At(b, p).type = "dir" /\ At(b, p).first = w[i]
    BY <2>2 DEF Route, Leads
  <2>4. Chain(f, y) \subseteq Chain(g, y) \cap D
    BY <1>1, <1>2, <2>2, ChainRicher
  <2>5. p \in Chain(g, y) \X Slots /\ p \in D \X Slots
    BY <2>4
  <2>6. names[i] # Empty /\ names[i] \in Names \cup Dots
    BY FsAssumption DEF Route, Dots, Empty
  <2>7. At(b2, p) = At(b, p)
    BY <2>3, <2>5, <2>6 DEF Richer
  <2>8. QED
    BY <2>2, <2>3, <2>5, <2>6, <2>7 DEF Leads
<1>4. QED
  BY <1>3 DEF Route

\* Table g has no links that f does not have, and clusters b2 no names.
Poorer(f, b, g, b2) ==
  /\ \A c \in Clusters : g[c] \in Clusters => g[c] = f[c]
  /\ \A p \in Clusters \X Slots : At(b2, p) = At(b, p) \/ At(b2, p).name = Empty

LEMMA ChainPoorer ==
  ASSUME NEW f \in Fats, NEW g \in Fats, NEW x,
         \A c \in Clusters : g[c] \in Clusters => g[c] = f[c]
  PROVE  Chain(g, x) \subseteq Chain(f, x) /\ Chain(f, x) \subseteq Clusters
<1>1. CASE x \notin Clusters
  BY <1>1, NoChain
<1>2. CASE x \in Clusters
  <2>1. PICK A : A = Chain(f, x)
    OBVIOUS
  <2>2. A \in SUBSET Clusters /\ x \in A /\ ClosedUnderLinks(f, A)
    BY <1>2, <2>1, ChainProperties
  <2>3. ClosedUnderLinks(g, A)
    BY <2>2 DEF ClosedUnderLinks
  <2>4. QED
    BY <2>1, <2>2, <2>3, ChainWithin
<1>3. QED
  BY <1>1, <1>2

\* A path leads nowhere else when there is less on the disk.
LEMMA NoOtherPoorer ==
  ASSUME NEW f \in Fats, NEW g \in Fats, NEW b, NEW b2, Poorer(f, b, g, b2),
         NEW x, NEW names, NEW m \in Nat, NEW w, NoOther(f, b, x, names, m, w)
  PROVE  NoOther(g, b2, x, names, m, w)
<1>1. ASSUME NEW i \in 1..m, NEW p \in Chain(g, w[i - 1]) \X Slots, At(b2, p).name = names[i]
      PROVE  At(b2, p).first = w[i]
  <2>1. p \in Chain(f, w[i - 1]) \X Slots /\ p \in Clusters \X Slots
    BY ChainPoorer DEF Poorer
  <2>2. names[i] # Empty
    BY FsAssumption DEF NoOther, Dots, Empty
  <2>3. At(b2, p) = At(b, p)
    BY <1>1, <2>1, <2>2 DEF Poorer
  <2>4. QED
    BY <1>1, <2>1, <2>3 DEF NoOther
<1>2. QED
  BY <1>1 DEF NoOther

\* In a tree where names are unique they lead where they lead and nowhere else.
LEMMA RouteOnly ==
  ASSUME NEW f \in Fats, NEW b, NEW D, NEW F, NEW dp, Tree(f, b, D, F, dp), Reached(f, b, D, F),
         NEW S, Single(f, b, S), D \subseteq S, NEW x \in Heads(f, D),
         NEW names, NEW m \in Nat, NEW w, Route(f, b, x, names, m, w)
  PROVE  NoOther(f, b, x, names, m, w)
<1>1. ASSUME NEW i \in 1..m, NEW p \in Chain(f, w[i - 1]) \X Slots, At(b, p).name = names[i]
      PROVE  At(b, p).first = w[i]
  <2>1. i - 1 \in 0..m
    OBVIOUS
  <2>2. w[i - 1] \in S
    BY <2>1, RouteHeads DEF Heads
  <2>3. PICK q \in Chain(f, w[i - 1]) \X Slots : At(b, q).name = names[i] /\ At(b, q).first = w[i]
    BY DEF Route, Leads
  <2>4. names[i] # Empty
    BY FsAssumption DEF Route, Dots, Empty
  <2>5. p = q
    BY <1>1, <2>2, <2>3, <2>4 DEF Single
  <2>6. QED
    BY <2>3, <2>5
<1>2. QED
  BY <1>1 DEF Route, NoOther

LEMMA FoundPlace ==
  ASSUME NEW d, NEW n, NEW p \in FindEntry(d, n)
  PROVE  p \in Chain(fat, d) \X Slots /\ At(block, p).name = n /\ EntryAt(p) = At(block, p)
BY DEF FindEntry, FirstPlace, At, EntryAt

\* Where there is one place of a name the look-up finds it.
LEMMA OnlyPlace ==
  ASSUME fat \in Fats, NEW D, NEW F, NEW dp, Tree(fat, block, D, F, dp), NEW S, Single(fat, block, S),
         D \subseteq S, NEW d \in D, NEW n, n # Empty,
         NEW q \in Chain(fat, d) \X Slots, At(block, q).name = n
  PROVE  FindEntry(d, n) = {q} /\ Hop(d, n) = At(block, q).first
<1>1. FindEntry(d, n) # {}
  BY NotThere
<1>2. ASSUME NEW p \in FindEntry(d, n) PROVE p = q
  <2>1. p \in Chain(fat, d) \X Slots /\ At(block, p).name = n
    BY FoundPlace
  <2>2. d \in S
    OBVIOUS
  <2>3. QED
    BY <2>1, <2>2 DEF Single
<1>3. FindEntry(d, n) = {q}
  BY <1>1, <1>2
<1>4. QED
  BY <1>3 DEF Hop, EntryAt, At

LEMMA RouteWalks ==
  ASSUME fat \in Fats, NEW D, NEW F, NEW dp, Tree(fat, block, D, F, dp), Reached(fat, block, D, F),
         NEW S, Single(fat, block, S), D \subseteq S, NEW x \in Heads(fat, D),
         NEW names \in Seq(Components), NEW m \in 0..Len(names), NEW w, Route(fat, block, x, names, m, w)
  PROVE  WalkTo(x, SubSeq(names, 1, m)) = w[m]
<1>1. PICK short : short = SubSeq(names, 1, m)
  OBVIOUS
<1>2. m \in Nat /\ Len(short) = m /\ \A i \in 1..m : short[i] = names[i]
  BY <1>1
<1>3. PICK v : v = [i \in 0..m |-> w[i]]
  OBVIOUS
<1>4. ASSUME NEW i \in 1..m PROVE w[i] = Hop(w[i - 1], names[i])
  <2>1. i - 1 \in 0..m
    BY <1>2
  <2>2. PICK f, b, y : f = fat /\ b = block /\ y = w[i - 1]
    OBVIOUS
  <2>3. y \in D
    BY <1>2, <2>1, <2>2, RouteHeads DEF Heads
  <2>4. PICK p \in Chain(f, y) \X Slots : At(b, p).name = names[i] /\ At(b, p).first = w[i]
    BY <2>2 DEF Route, Leads
  <2>5. names[i] # Empty
    BY FsAssumption DEF Route, Dots, Empty
  <2>6. QED
    BY <2>2, <2>3, <2>4, <2>5, OnlyPlace
<1>5. v = [i \in 0..m |-> IF i = 0 THEN x ELSE Hop(v[i - 1], short[i])]
  <2>1. ASSUME NEW i \in 0..m PROVE v[i] = IF i = 0 THEN x ELSE Hop(v[i - 1], short[i])
    <3>1. CASE i = 0
      BY <1>3, <3>1 DEF Route
    <3>2. CASE i # 0
      <4>1. i \in 1..m /\ i - 1 \in 0..m
        BY <1>2, <3>2
      <4>2. v[i] = w[i] /\ v[i - 1] = w[i - 1] /\ short[i] = names[i]
        BY <1>2, <1>3, <4>1
      <4>3. QED
        BY <1>4, <3>2, <4>1, <4>2
    <3>3. QED
      BY <3>1, <3>2
  <2>2. QED
    BY <1>3, <2>1
<1>6. WalkTo(x, short) = v[m]
  BY <1>2, <1>5, WalkOf
<1>7. QED
  BY <1>1, <1>2, <1>3, <1>6

LEMMA NoOtherWalks ==
  ASSUME NEW x, NEW names \in Seq(Components), NEW m \in 0..Len(names), NEW w,
         NoOther(fat, block, x, names, m, w)
  PROVE  WalkTo(x, SubSeq(names, 1, m)) \in {w[m], NoCluster}
<1>1. PICK short : short = SubSeq(names, 1, m)
  OBVIOUS
<1>2. m \in Nat /\ Len(short) = m /\ \A i \in 1..m : short[i] = names[i]
  BY <1>1
<1>3. PICK G : G = {i \in 0..m : \A j \in 1..i : Hop(w[j - 1], names[j]) = w[j]}
  OBVIOUS
<1>4. PICK v : v = [i \in 0..m |-> IF i \in G THEN w[i] ELSE NoCluster]
  OBVIOUS
<1>5. ASSUME NEW n PROVE Hop(NoCluster, n) = NoCluster
  <2>1. NoCluster \notin Clusters
    BY ClusterAssumption DEF NoCluster, Clusters
  <2>2. FindEntry(NoCluster, n) = {}
    BY <2>1, NoChain DEF FindEntry, FirstPlace
  <2>3. QED
    BY <2>2 DEF Hop
<1>6. ASSUME NEW i \in 1..m PROVE Hop(w[i - 1], names[i]) \in {w[i], NoCluster}
  <2>1. PICK y, n, P : y = w[i - 1] /\ n = names[i] /\ P = FindEntry(y, n)
    OBVIOUS
  <2>2. ASSUME NEW p \in P PROVE EntryAt(p).first = w[i]
    <3>1. p \in Chain(fat, y) \X Slots /\ At(block, p).name = n /\ EntryAt(p) = At(block, p)
      BY <2>1, <2>2, FoundPlace
    <3>2. QED
      BY <2>1, <3>1 DEF NoOther
  <2>3. QED
    BY <2>1, <2>2 DEF Hop
<1>7. ASSUME NEW i \in 1..m
      PROVE  i - 1 \in 0..m /\ (i \in G <=> i - 1 \in G /\ Hop(w[i - 1], names[i]) = w[i])
  <2>1. i - 1 \in 0..m /\ i \in 0..m
    BY <1>2
  <2>2. \A j : j \in 1..i <=> j \in 1..(i - 1) \/ j = i
    BY <2>1
  <2>3. QED
    BY <1>3, <2>1, <2>2
<1>8. ASSUME NEW i \in 1..m PROVE v[i] = Hop(v[i - 1], names[i])
  <2>1. i - 1 \in 0..m /\ i \in 0..m
    BY <1>2
  <2>2. CASE i - 1 \in G
    <3>1. v[i - 1] = w[i - 1] /\ v[i] = IF Hop(w[i - 1], names[i]) = w[i] THEN w[i] ELSE NoCluster
      BY <1>4, <1>7, <2>1, <2>2
    <3>2. QED
      BY <1>6, <3>1
  <2>3. CASE i - 1 \notin G
    <3>1. v[i - 1] = NoCluster /\ v[i] = NoCluster
      BY <1>4, <1>7, <2>1, <2>3
    <3>2. QED
      BY <1>5, <3>1
  <2>4. QED
    BY <2>2, <2>3
<1>9. 0 \in G /\ 0 \in 0..m
  BY <1>2, <1>3
<1>10. v = [i \in 0..m |-> IF i = 0 THEN x ELSE Hop(v[i - 1], short[i])]
  <2>1. ASSUME NEW i \in 0..m PROVE v[i] = IF i = 0 THEN x ELSE Hop(v[i - 1], short[i])
    <3>1. CASE i = 0
      BY <1>4, <1>9, <3>1 DEF NoOther
    <3>2. CASE i # 0
      <4>1. i \in 1..m
        BY <1>2, <3>2
      <4>2. QED
        BY <1>2, <1>8, <3>2, <4>1
    <3>3. QED
      BY <3>1, <3>2
  <2>2. QED
    BY <1>4, <2>1
<1>11. WalkTo(x, short) = v[m]
  BY <1>2, <1>10, WalkOf
<1>12. QED
  BY <1>1, <1>2, <1>4, <1>11

\* What an operation has done is what it has promised.
Doings == Settled /\ Free(Strays) /\ Clear => \A r \in Requests : Finished(r) => Done(r)

LEMMA RequestPath ==
  ASSUME NEW r \in Requests
  PROVE  r \in Request /\ r.path.comps \in Seq(Components) /\ r.size \in 0..MaxSize
BY FsAssumption DEF Request, Paths

\* The tree and its names between two calls.
LEMMA TreeAndNames ==
  ASSUME Inv, PathInv, Settled, Free(Strays), Clear
  PROVE  /\ fat \in Fats
         /\ \E D, F, dp, S : /\ Tree(fat, block, D, F, dp) /\ Reached(fat, block, D, F)
                             /\ cwd \in Heads(fat, D) /\ RootCluster \in Heads(fat, D)
                             /\ Single(fat, block, S) /\ D \subseteq S
<1>1. PICK S, pt : Pathed(TRUE, fat, block, S, pt)
  BY SettledPaths
<1>2. fat \in Fats /\ ready /\ pc = "idle"
  BY DEF Inv, TypeInv, TypeOK, Settled
<1>3. PICK D, F, dp : Phase(D, F, dp)
  BY <1>2 DEF Inv, SoundInv, MemInv
<1>4. Tree(fat, block, D, F, dp) /\ Reached(fat, block, D, F) /\ cwd \in Heads(fat, D)
  BY <1>2, <1>3 DEF Phase, Still, Resting, Shape
<1>5. Closed(fat, block, S) /\ Single(fat, block, S)
  BY <1>1 DEF Pathed, Named
<1>6. D \subseteq S
  BY <1>2, <1>4, <1>5, TreeWithin
<1>7. RootCluster \in Heads(fat, D)
  BY <1>4, RootIsHead
<1>8. QED
  BY <1>2, <1>4, <1>5, <1>6, <1>7

LEMMA FinishedDone ==
  ASSUME Inv, PathInv
  PROVE  Doings
<1>1. SUFFICES ASSUME Settled, Free(Strays), Clear, NEW r \in Requests, Finished(r)
               PROVE  Done(r)
  BY DEF Doings
<1>2. PICK D, F, dp, S :
        /\ Tree(fat, block, D, F, dp) /\ Reached(fat, block, D, F)
        /\ cwd \in Heads(fat, D) /\ RootCluster \in Heads(fat, D)
        /\ Single(fat, block, S) /\ D \subseteq S /\ fat \in Fats
  BY <1>1, TreeAndNames
<1>3. PICK x : x = Origin(r) /\ x \in Heads(fat, D)
  BY <1>2 DEF Origin
<1>4. PICK names, m : names = r.path.comps /\ m = Len(names) - 1
  OBVIOUS
<1>5. names \in Seq(Components) /\ Len(names) \in Nat
  BY <1>4, RequestPath
<1>6. PICK parent, places : /\ parent = WalkTo(x, SubSeq(names, 1, m))
                            /\ places = FindEntry(parent, names[m + 1])
  OBVIOUS
<1>7. Done(r) = CASE r.op = "mkdir" -> \E p \in places : EntryAt(p).type = "dir" /\ EntryAt(p).size = 0
                  [] r.op = "touch" -> \E p \in places : EntryAt(p).type = "file" /\ EntryAt(p).size = 0
                  [] r.op = "write" -> \E p \in places : EntryAt(p).type = "file" /\ EntryAt(p).size = r.size
                  [] r.op \in {"rm", "rmdir"} -> places = {}
                  [] OTHER -> TRUE
  <2>1. m + 1 = Len(names)
    BY <1>4, <1>5
  <2>2. QED
    BY <1>3, <1>4, <1>6, <2>1 DEF Done, Origin
<1>8. CASE r.op = "cd"
  BY <1>7, <1>8
<1>9. CASE r.op \in {"mkdir", "touch", "write"}
  <2>1. m \in 0..Len(names) /\ m \in Nat
    BY <1>1, <1>4, <1>5, <1>9 DEF Finished
  <2>2. PICK w : /\ Route(fat, block, x, names, m, w)
                 /\ \E q \in Chain(fat, w[m]) \X Slots :
                      At(block, q).name = names[m + 1] /\ Asked(r, At(block, q))
    BY <1>1, <1>3, <1>4, <1>9 DEF Finished
  <2>3. PICK q \in Chain(fat, w[m]) \X Slots : At(block, q).name = names[m + 1] /\ Asked(r, At(block, q))
    BY <2>2
  <2>4. parent = w[m]
    BY <1>2, <1>3, <1>5, <1>6, <2>1, <2>2, RouteWalks
  <2>5. w[m] \in D
    <3>1. m \in 0..m
      BY <2>1
    <3>2. w[m] \in Heads(fat, D)
      BY <1>2, <1>3, <2>1, <2>2, <3>1, RouteHeads
    <3>3. QED
      BY <3>2 DEF Heads
  <2>6. q \in places
    <3>1. PICK d, n : d = w[m] /\ n = names[m + 1]
      OBVIOUS
    <3>2. q \in Chain(fat, d) \X Slots /\ At(block, q).name = n /\ d \in D
      BY <2>3, <2>5, <3>1
    <3>3. n # Empty
      <4>1. n \in Components
        BY <1>5, <2>1, <1>4, <3>1
      <4>2. QED
        BY <4>1, FsAssumption DEF Components, Dots, TooLong, Empty
    <3>4. FindEntry(d, n) = {q}
      BY <1>2, <3>2, <3>3, OnlyPlace
    <3>5. QED
      BY <1>6, <2>4, <3>1, <3>4
  <2>7. Asked(r, EntryAt(q))
    BY <2>3 DEF EntryAt, At
  <2>8. QED
    BY <1>7, <1>9, <2>6, <2>7 DEF Asked
<1>10. CASE r.op \in {"rm", "rmdir"}
  <2>1. m \in 0..Len(names) /\ m \in Nat
    BY <1>1, <1>4, <1>5, <1>10 DEF Finished
  <2>2. PICK w : /\ NoOther(fat, block, x, names, m, w)
                 /\ \A q \in Chain(fat, w[m]) \X Slots : At(block, q).name # names[m + 1]
    BY <1>1, <1>3, <1>4, <1>10 DEF Finished
  <2>3. parent \in {w[m], NoCluster}
    BY <1>5, <1>6, <2>1, <2>2, NoOtherWalks
  <2>4. places = {}
    <3>1. ASSUME NEW p \in places PROVE FALSE
      <4>1. p \in Chain(fat, parent) \X Slots /\ At(block, p).name = names[m + 1]
        BY <1>6, <3>1, FoundPlace
      <4>2. Chain(fat, NoCluster) = {}
        BY NoChain, ClusterAssumption DEF NoCluster, Clusters
      <4>3. QED
        BY <2>2, <2>3, <4>1, <4>2
    <3>2. QED
      BY <3>1
  <2>5. QED
    BY <1>7, <1>10, <2>4
<1>11. r.op \in {"cd", "mkdir", "touch", "write", "rm", "rmdir"}
  BY RequestPath DEF Request
<1>12. QED
  BY <1>8, <1>9, <1>10, <1>11

-------------------------------------------------------------------------------
\* The ways in which a step keeps the way that a call has gone.

\* What a step may rely on.
Sure == Given /\ SoundInv' /\ PathInv /\ WayInv

LEMMA SureBefore ==
  ASSUME Sure, Free(Strays)', Clear'
  PROVE  Free(Strays) /\ Clear /\ CallInv /\ PutInv /\ TakeInv /\ TypeOK /\ loc \in Locals
         /\ fat \in Fats /\ fat' \in Fats /\ block \in [Clusters -> Blocks]
<1>1. Free(Strays) /\ Clear
  BY FreeBefore, ClearBefore DEF Sure, Given
<1>2. QED
  BY <1>1 DEF Sure, Given, TypeInv, TypeOK, WayInv

\* Steps at which no call has a way to go.
LEMMA NoWay ==
  ASSUME pc' \in {"off", "idle", "formatSuper", "formatRoot", "load", "halted"} \/ Flushing("formatRoot")'
  PROVE  WayInv'
<1>1. /\ ~(pc' = "walk") /\ ~Putting' /\ ~Taking' /\ ~Growing' /\ pc' # "setEntry"
  BY DEF Putting, Taking, Adding, Growing, Storing, Flushing
<1>2. QED
  BY <1>1 DEF WayInv, CallInv, PutInv, TakeInv

\* A walk begins.
LEMMA WayBegins ==
  ASSUME NEW r \in Requests, NEW l, pc' = "walk", loc' = l,
         l.req = r, l.rest = r.path.comps, l.cur = Origin(r), l.cur \in Clusters \cup {NoCluster},
         cwd' = cwd
  PROVE  WayInv'
<1>1. ~Putting' /\ ~Taking' /\ ~Growing' /\ ~Storing' /\ Seen' = block'
  BY DEF Putting, Taking, Adding, Growing, Storing, Flushing, Seen
<1>2. r.path.comps \in Seq(Components)
  BY RequestPath
<1>3. PICK n, g, b2, y : n = r.path.comps /\ g = fat' /\ b2 = block' /\ y = l.cur
  OBVIOUS
<1>4. Len(n) \in Nat /\ Gone' = 0
  BY <1>2, <1>3 DEF Gone
<1>5. CallInv'
  BY <1>1, <1>3, <1>4 DEF CallInv
<1>6. PICK w : w = [i \in 0..Len(n) |-> y]
  OBVIOUS
<1>7. Route(g, b2, y, n, 0, w) /\ w[0] = y
  BY <1>3, <1>4, <1>6 DEF Route, Routes
<1>8. Origin(loc.req)' = y
  BY <1>3 DEF Origin
<1>9. PutInv'
  BY <1>1, <1>3, <1>4, <1>7, <1>8 DEF PutInv
<1>10. QED
  BY <1>1, <1>5, <1>9 DEF WayInv, TakeInv

\* The step only adds to what the path leads through.
Grows(g, b2) == \A D, F, dp : Phase(D, F, dp) => Richer(fat, Seen, g, b2, D)

\* The tree at a step of a call, and the way that the call has gone.
OnWay(D, F, dp, S, w) ==
  /\ Phase(D, F, dp) /\ Tree(fat, Seen, D, F, dp) /\ Reached(fat, Seen, D, F)
  /\ Single(fat, Seen, S) /\ D \subseteq S
  /\ Origin(loc.req) \in Heads(fat, D)
  /\ Route(fat, Seen, Origin(loc.req), loc.req.path.comps, Gone, w) /\ w[Gone] = loc.cur
  /\ Gone \in Nat /\ \A i \in 0..Gone : w[i] \in Heads(fat, D)

LEMMA WayNow ==
  ASSUME Sure, Free(Strays)', Clear', pc = "walk" \/ Putting
  PROVE  \E D, F, dp, S, w : OnWay(D, F, dp, S, w)
<1>1. Free(Strays) /\ Clear /\ CallInv /\ PutInv /\ TypeOK /\ loc \in Locals /\ fat \in Fats
  BY SureBefore
<1>2. /\ pc \in {"walk", "data", "initDir", "addEntry", "addCluster", "setEntry"}
         \/ (pc = "flush" /\ loc.then \in {"initDir", "addEntry", "addCluster", "setEntry"})
  BY DEF Putting, Adding, Storing, Growing, Flushing
<1>3. PICK D, F, dp : Phase(D, F, dp)
  BY <1>2, TreeNow DEF Sure
<1>4. View(Seen)
  BY <1>2 DEF View
<1>5. Shape(Seen, D, F, dp)
  BY <1>2, <1>3, <1>4, ViewTree
<1>6. Known
  BY DEF Known, Sure
<1>7. PICK S, pt : Pathed(Clear, fat, Seen, S, pt)
  BY <1>2, <1>6, PathsNow
<1>8. PICK f, b : f = fat /\ b = Seen
  OBVIOUS
<1>9. /\ f \in Fats /\ Tree(f, b, D, F, dp) /\ Reached(f, b, D, F) /\ cwd \in Heads(f, D)
      /\ Closed(f, b, S) /\ Single(f, b, S)
  BY <1>1, <1>5, <1>7, <1>8 DEF Shape, Pathed, Named
<1>10. D \subseteq S
  BY <1>9, TreeWithin
<1>11. PICK x : x = Origin(loc.req) /\ x \in Heads(f, D)
  BY <1>9, RootIsHead DEF Origin
<1>12. PICK names, m, w : /\ names = loc.req.path.comps /\ m = Gone
                          /\ Route(f, b, x, names, m, w) /\ w[m] = loc.cur
  BY <1>1, <1>8, <1>11 DEF PutInv
<1>13. m \in Nat
  <2>1. names \in Seq(Components)
    BY <1>1, <1>12, RequestPath DEF CallInv
  <2>2. Len(loc.rest) \in Nat /\ Len(names) \in Nat
    BY <1>1, <2>1 DEF Locals
  <2>3. Len(loc.rest) <= Len(loc.req.path.comps)
    BY <1>1 DEF CallInv
  <2>4. QED
    BY <1>12, <2>2, <2>3 DEF Gone
<1>14. \A i \in 0..m : w[i] \in Heads(f, D)
  BY <1>9, <1>10, <1>11, <1>12, <1>13, RouteHeads
<1>15. OnWay(D, F, dp, S, w)
  BY <1>3, <1>8, <1>9, <1>10, <1>11, <1>12, <1>13, <1>14 DEF OnWay
<1>16. QED
  BY <1>15

LEMMA WayGoesOn ==
  ASSUME Sure, Free(Strays)', Clear', pc = "walk" \/ Putting,
         NEW g \in Fats, NEW b2, Grows(g, b2)
  PROVE  \E w : Route(g, b2, Origin(loc.req), loc.req.path.comps, Gone, w) /\ w[Gone] = loc.cur
<1>1. PICK D, F, dp, S, w : OnWay(D, F, dp, S, w)
  BY WayNow
<1>2. PICK f, b, x, names, m : f = fat /\ b = Seen /\ x = Origin(loc.req) /\ names = loc.req.path.comps /\ m = Gone
  OBVIOUS
<1>3. /\ f \in Fats /\ Tree(f, b, D, F, dp) /\ m \in Nat /\ Route(f, b, x, names, m, w) /\ w[m] = loc.cur
      /\ \A i \in 0..m : w[i] \in Heads(f, D)
      /\ Phase(D, F, dp)
  BY <1>1, <1>2, SureBefore DEF OnWay
<1>4. Richer(f, b, g, b2, D)
  BY <1>2, <1>3 DEF Grows
<1>5. Route(g, b2, x, names, m, w)
  BY <1>3, <1>4, RouteRicher
<1>6. QED
  BY <1>2, <1>3, <1>5

\* The call that runs is still the same one.
SameCall == loc'.req = loc.req /\ loc'.rest = loc.rest /\ loc'.cur = loc.cur /\ cwd' = cwd

\* The operation goes on to store its entry.
LEMMA PutGoesOn ==
  ASSUME Sure, Free(Strays)', Clear', pc = "walk" \/ Putting, Putting', SameCall,
         Len(loc.rest) = 1, loc.rest[1] \in Names \cup Dots,
         Asked(loc.req, loc'.entry), loc'.entry.name = loc.rest[1],
         Grows(fat', Seen'),
         Growing' => loc'.data \in Chain(fat', loc.cur),
         Storing' => loc'.at \in Chain(fat', loc.cur) \X Slots
  PROVE  WayInv'
<1>1. CallInv /\ fat' \in Fats
  BY SureBefore
<1>2. Gone' = Gone /\ Origin(loc.req)' = Origin(loc.req)
  BY DEF Gone, Origin, SameCall
<1>3. ~Taking' /\ pc' # "walk" /\ ~(pc' = "setEntry" /\ loc'.req.op # "write")
  BY DEF Putting, Taking, Adding, Growing, Storing, Flushing
<1>4. CallInv'
  <2>1. /\ loc.req \in Requests /\ Len(loc.rest) <= Len(loc.req.path.comps)
        /\ \A j \in 1..Len(loc.rest) : loc.rest[j] = loc.req.path.comps[Gone + j]
    BY <1>1 DEF CallInv
  <2>2. QED
    BY <1>2, <1>3, <2>1 DEF CallInv, SameCall
<1>5. PICK g, b2 : g = fat' /\ b2 = Seen'
  OBVIOUS
<1>6. \E w : Route(g, b2, Origin(loc.req), loc.req.path.comps, Gone, w) /\ w[Gone] = loc.cur
  BY <1>1, <1>5, WayGoesOn
<1>7. PutInv'
  BY <1>2, <1>5, <1>6 DEF PutInv, SameCall
<1>8. QED
  BY <1>3, <1>4, <1>7 DEF WayInv, TakeInv

\* The entry has been stored.
LEMMA PutEnds ==
  ASSUME Sure, Free(Strays)', Clear', Putting, cwd' = cwd, Grows(fat', block'),
         NEW q \in Chain(fat', loc.cur) \X Slots, At(block', q) = loc.entry, NEW r, r = loc.req
  PROVE  Finished(r)'
<1>1. CallInv /\ loc \in Locals /\ fat' \in Fats
  BY SureBefore
<1>2. PICK g, b2, names : g = fat' /\ b2 = block' /\ names = r.path.comps
  OBVIOUS
<1>3. /\ r \in Requests /\ Len(loc.rest) = 1 /\ Len(loc.rest) <= Len(names)
      /\ loc.rest[1] = names[Gone + 1] /\ Asked(r, loc.entry) /\ loc.entry.name = loc.rest[1]
  BY <1>1, <1>2 DEF CallInv
<1>4. Len(names) \in Nat
  BY <1>2, <1>3, RequestPath
<1>5. PICK m : m = Len(names) - 1 /\ m = Gone /\ m \in Nat
  BY <1>2, <1>3, <1>4 DEF Gone
<1>6. PICK w : Route(g, b2, Origin(r), names, m, w) /\ w[m] = loc.cur
  BY <1>1, <1>2, <1>5, WayGoesOn
<1>7. Origin(r)' = Origin(r)
  BY DEF Origin
<1>8. /\ q \in Chain(g, w[m]) \X Slots /\ At(b2, q).name = names[m + 1] /\ Asked(r, At(b2, q))
  BY <1>2, <1>3, <1>5, <1>6
<1>9. r.op \in {"mkdir", "touch", "write"}
  BY <1>3 DEF Asked
<1>10. QED
  BY <1>2, <1>5, <1>6, <1>7, <1>8, <1>9 DEF Finished

LEMMA ArrivedAt ==
  ASSUME TypeOK, NEW op, Arrived(op)
  PROVE  /\ pc = "walk" /\ loc.req.op = op /\ Len(loc.rest) = 1
         /\ Name = loc.rest[1] /\ Name \in Names \cup Dots
<1>1. pc = "walk" /\ loc.req.op = op /\ Len(loc.rest) = 1
  BY DEF Arrived, Running, AtLast
<1>2. loc.rest \in Seq(Components)
  BY DEF TypeOK, Locals
<1>3. Name = loc.rest[1]
  BY <1>1, <1>2 DEF Name
<1>4. QED
  BY <1>1, <1>3, LastName

\* Where a removal finds its entry names are unique.
LEMMA TakeBegins ==
  ASSUME Sure, Free(Strays)', Clear', NEW op \in {"rm", "rmdir"}, Arrived(op), NEW p \in Places,
         SameCall, loc'.at = p, block' = block,
         \A c \in Clusters : fat'[c] \in Clusters => fat'[c] = fat[c],
         pc' = "scan" \/ (pc' = "setEntry" /\ loc'.entry = Zeroed)
  PROVE  WayInv'
<1>1. /\ CallInv /\ PutInv /\ TypeOK /\ loc \in Locals /\ fat \in Fats /\ fat' \in Fats
      /\ block \in [Clusters -> Blocks]
  BY SureBefore
<1>2. pc = "walk" /\ loc.req.op = op /\ Len(loc.rest) = 1
  BY <1>1, ArrivedAt
<1>3. Name = loc.rest[1] /\ Name \in Names \cup Dots
  BY <1>1, ArrivedAt
<1>4. Gone' = Gone /\ Origin(loc.req)' = Origin(loc.req)
  BY DEF Gone, Origin, SameCall
<1>5. /\ ~Putting' /\ Taking' /\ ~Growing' /\ pc' # "walk" /\ pc' # "flush"
  BY <1>2 DEF Putting, Taking, Adding, Growing, Storing, Flushing, SameCall
<1>6. CallInv'
  <2>1. /\ loc.req \in Requests /\ Len(loc.rest) <= Len(loc.req.path.comps)
        /\ \A j \in 1..Len(loc.rest) : loc.rest[j] = loc.req.path.comps[Gone + j]
    BY <1>1, <1>2 DEF CallInv
  <2>2. loc'.entry = Zeroed \/ pc' # "setEntry"
    OBVIOUS
  <2>3. QED
    BY <1>2, <1>3, <1>4, <1>5, <2>1, <2>2 DEF CallInv, SameCall
<1>7. PICK D, F, dp, S, w : OnWay(D, F, dp, S, w)
  BY <1>2, WayNow
<1>8. Seen = block
  BY <1>2 DEF Seen, Growing, Storing, Flushing
<1>9. PICK f, b, x, names, m, n, d, g :
        /\ f = fat /\ b = block /\ x = Origin(loc.req) /\ names = loc.req.path.comps
        /\ m = Gone /\ n = loc.rest[1] /\ d = loc.cur /\ g = fat'
  OBVIOUS
<1>10. /\ f \in Fats /\ g \in Fats /\ Tree(f, b, D, F, dp) /\ Reached(f, b, D, F) /\ Single(f, b, S) /\ D \subseteq S
       /\ m \in Nat /\ x \in Heads(f, D) /\ Route(f, b, x, names, m, w) /\ w[m] = d
       /\ \A i \in 0..m : w[i] \in Heads(f, D)
  BY <1>1, <1>7, <1>8, <1>9 DEF OnWay
<1>11. Poorer(f, b, g, b)
  BY <1>9 DEF Poorer
<1>12. NoOther(g, b, x, names, m, w)
  <2>1. NoOther(f, b, x, names, m, w)
    BY <1>10, RouteOnly
  <2>2. QED
    BY <1>10, <1>11, <2>1, NoOtherPoorer
<1>13. ASSUME NEW q \in Chain(g, d) \X Slots, At(b, q).name = n PROVE q = p
  <2>1. q \in Chain(f, d) \X Slots
    BY <1>10, <1>11, ChainPoorer DEF Poorer
  <2>2. p \in FindEntry(loc.cur, n)
    BY <1>3, <1>9 DEF Places
  <2>3. p \in Chain(f, d) \X Slots /\ At(b, p).name = n
    BY <1>9, <2>2, FoundPlace
  <2>4. d \in S
    <3>1. m \in 0..m
      BY <1>10
    <3>2. QED
      BY <1>10, <3>1 DEF Heads
  <2>5. n # Empty
    BY <1>3, <1>9, FsAssumption DEF Dots, Empty
  <2>6. QED
    BY <1>10, <1>13, <2>1, <2>3, <2>4, <2>5 DEF Single
<1>14. TakeInv'
  <2>1. loc'.req = loc.req /\ loc'.rest = loc.rest /\ loc'.cur = d
    BY <1>9 DEF SameCall
  <2>2. (\E u : NoOther(fat, block, Origin(loc.req), loc.req.path.comps, Gone, u) /\ u[Gone] = loc.cur)'
    BY <1>4, <1>9, <1>10, <1>12, <2>1
  <2>3. (\A q \in Chain(fat, loc.cur) \X Slots :
           At(block, q).name = loc.rest[1] => q = loc.at /\ pc # "flush")'
    BY <1>5, <1>9, <1>13, <2>1
  <2>4. QED
    BY <2>2, <2>3 DEF TakeInv
<1>15. QED
  BY <1>5, <1>6, <1>14 DEF WayInv, PutInv

\* The removal goes on.
LEMMA TakeGoesOn ==
  ASSUME Sure, Free(Strays)', Clear', Taking, Taking', SameCall, loc'.at = loc.at,
         Poorer(fat, block, fat', block'),
         pc' = "setEntry" => loc'.entry = Zeroed,
         pc' = "flush" /\ pc # "flush" => At(block', loc.at).name = Empty
  PROVE  WayInv'
<1>1. CallInv /\ TakeInv /\ TypeOK /\ loc \in Locals /\ fat \in Fats /\ fat' \in Fats
  BY SureBefore
<1>2. Gone' = Gone /\ Origin(loc.req)' = Origin(loc.req)
  BY DEF Gone, Origin, SameCall
<1>3. /\ loc.req \in Requests /\ Len(loc.rest) <= Len(loc.req.path.comps)
      /\ \A j \in 1..Len(loc.rest) : loc.rest[j] = loc.req.path.comps[Gone + j]
      /\ Len(loc.rest) = 1 /\ loc.rest[1] \in Names \cup Dots /\ loc.req.op \in {"rm", "rmdir"}
  BY <1>1 DEF CallInv
<1>4. ~Putting' /\ ~Growing' /\ pc' # "walk"
  BY <1>3 DEF Putting, Taking, Adding, Growing, Storing, Flushing, SameCall
<1>5. CallInv'
  BY <1>2, <1>3, <1>4 DEF CallInv, SameCall
<1>6. PICK f, b, x, names, m, n, d, g, b2 :
        /\ f = fat /\ b = block /\ x = Origin(loc.req) /\ names = loc.req.path.comps
        /\ m = Gone /\ n = loc.rest[1] /\ d = loc.cur /\ g = fat' /\ b2 = block'
  OBVIOUS
<1>7. f \in Fats /\ g \in Fats /\ Poorer(f, b, g, b2) /\ n # Empty
  BY <1>1, <1>3, <1>6, FsAssumption DEF Dots, Empty
<1>8. m \in Nat
  <2>1. Len(names) \in Nat
    BY <1>3, <1>6, RequestPath
  <2>2. QED
    BY <1>3, <1>6, <2>1 DEF Gone
<1>9. PICK w : NoOther(f, b, x, names, m, w) /\ w[m] = d
  BY <1>1, <1>6 DEF TakeInv
<1>10. NoOther(g, b2, x, names, m, w)
  BY <1>7, <1>8, <1>9, NoOtherPoorer
<1>11. ASSUME NEW q \in Chain(g, d) \X Slots, At(b2, q).name = n PROVE q = loc.at /\ pc' # "flush"
  <2>1. Chain(g, d) \subseteq Chain(f, d) /\ Chain(f, d) \subseteq Clusters
    BY <1>7, ChainPoorer DEF Poorer
  <2>2. q \in Chain(f, d) \X Slots /\ q \in Clusters \X Slots
    BY <2>1
  <2>3. At(b, q).name = n
    BY <1>7, <1>11, <2>2 DEF Poorer
  <2>4. q = loc.at /\ pc # "flush"
    BY <1>1, <1>6, <2>2, <2>3 DEF TakeInv
  <2>5. QED
    BY <1>6, <1>7, <1>11, <2>4
<1>12. TakeInv'
  <2>1. loc'.req = loc.req /\ loc'.rest = loc.rest /\ loc'.cur = d
    BY <1>6 DEF SameCall
  <2>2. (\E u : NoOther(fat, block, Origin(loc.req), loc.req.path.comps, Gone, u) /\ u[Gone] = loc.cur)'
    BY <1>2, <1>6, <1>9, <1>10, <2>1
  <2>3. (\A q \in Chain(fat, loc.cur) \X Slots :
           At(block, q).name = loc.rest[1] => q = loc.at /\ pc # "flush")'
    BY <1>6, <1>11, <2>1
  <2>4. QED
    BY <2>2, <2>3 DEF TakeInv
<1>13. QED
  BY <1>4, <1>5, <1>12 DEF WayInv, PutInv

\* The entry has been removed.
LEMMA TakeEnds ==
  ASSUME Sure, Free(Strays)', Clear', Flushing("return"), UNCHANGED <<fat, block, cwd>>,
         NEW r, r = loc.req
  PROVE  Finished(r)'
<1>1. CallInv /\ TakeInv /\ loc \in Locals /\ Taking /\ pc = "flush"
  BY SureBefore DEF Taking, Flushing
<1>2. PICK f, b, names, n, d : f = fat /\ b = block /\ names = r.path.comps /\ n = loc.rest[1] /\ d = loc.cur
  OBVIOUS
<1>3. /\ r \in Requests /\ Len(loc.rest) = 1 /\ Len(loc.rest) <= Len(names) /\ n = names[Gone + 1]
      /\ r.op \in {"rm", "rmdir"}
  BY <1>1, <1>2 DEF CallInv
<1>4. Len(names) \in Nat
  BY <1>2, <1>3, RequestPath
<1>5. PICK m : m = Len(names) - 1 /\ m = Gone /\ m \in Nat
  BY <1>2, <1>3, <1>4 DEF Gone
<1>6. PICK w : NoOther(f, b, Origin(r), names, m, w) /\ w[m] = d
  BY <1>1, <1>2, <1>5 DEF TakeInv
<1>7. \A q \in Chain(f, d) \X Slots : At(b, q).name # n
  BY <1>1, <1>2 DEF TakeInv
<1>8. Origin(r)' = Origin(r) /\ fat' = f /\ block' = b
  BY <1>2 DEF Origin
<1>9. QED
  BY <1>2, <1>3, <1>5, <1>6, <1>7, <1>8 DEF Finished

-------------------------------------------------------------------------------
\* The walk.

\* The walk follows one name more.
LEMMA WayExtends ==
  ASSUME Sure, Free(Strays)', Clear', pc = "walk", pc' = "walk", loc.rest # <<>>, Name \in Names \cup Dots,
         loc'.req = loc.req, loc'.rest = Tail(loc.rest), UNCHANGED <<fat, block, cwd>>,
         NEW y \in Clusters \cup {NoCluster}, loc'.cur = y, Leads(fat, block, loc.cur, Name, y)
  PROVE  WayInv'
<1>1. CallInv /\ PutInv /\ TypeOK /\ loc \in Locals
  BY SureBefore
<1>2. Seen = block /\ Seen' = block' /\ ~Putting' /\ ~Taking' /\ ~Growing'
  BY DEF Seen, Growing, Storing, Flushing, Putting, Taking, Adding
<1>3. PICK f, b, x, names, m, d, n, rest :
        /\ f = fat /\ b = block /\ x = Origin(loc.req) /\ names = loc.req.path.comps
        /\ m = Gone /\ d = loc.cur /\ n = Name /\ rest = loc.rest
  OBVIOUS
<1>4. /\ loc.req \in Requests /\ Len(rest) <= Len(names)
      /\ \A j \in 1..Len(rest) : rest[j] = names[m + j]
  BY <1>1, <1>3 DEF CallInv
<1>5. /\ rest \in Seq(Components) /\ Len(rest) \in Nat \ {0} /\ n = rest[1]
      /\ Len(Tail(rest)) = Len(rest) - 1 /\ \A j \in 1..(Len(rest) - 1) : Tail(rest)[j] = rest[j + 1]
  <2>1. rest \in Seq(Components) /\ rest # <<>>
    BY <1>1, <1>3 DEF Locals
  <2>2. QED
    BY <1>3, <2>1 DEF Name
<1>6. Len(names) \in Nat
  BY <1>3, <1>4, RequestPath
<1>7. m \in Nat /\ m = Len(names) - Len(rest)
  BY <1>3, <1>4, <1>5, <1>6 DEF Gone
<1>8. Gone' = m + 1 /\ m + 1 <= Len(names) /\ n = names[m + 1]
  <2>1. Gone' = Len(names) - Len(Tail(rest))
    BY <1>3 DEF Gone
  <2>2. Gone' = m + 1 /\ m + 1 <= Len(names)
    BY <1>4, <1>5, <1>6, <1>7, <2>1
  <2>3. 1 \in 1..Len(rest)
    BY <1>5
  <2>4. QED
    BY <1>4, <1>5, <2>2, <2>3
<1>9. PICK w : Route(f, b, x, names, m, w) /\ w[m] = d
  BY <1>1, <1>2, <1>3 DEF PutInv
<1>10. PICK v : v = [w EXCEPT ![m + 1] = y]
  OBVIOUS
<1>11. /\ v \in Routes(names) /\ v[m + 1] = y /\ \A i \in 0..m : v[i] = w[i]
  BY <1>6, <1>7, <1>8, <1>9, <1>10 DEF Route, Routes
<1>12. Route(f, b, x, names, m + 1, v)
  <2>1. ASSUME NEW i \in 1..(m + 1)
        PROVE  names[i] \in Names \cup Dots /\ Leads(f, b, v[i - 1], names[i], v[i])
    <3>1. CASE i = m + 1
      <4>1. i - 1 = m /\ m \in 0..m
        BY <1>7, <3>1
      <4>2. v[i - 1] = d /\ v[i] = y /\ names[i] = n
        BY <1>8, <1>9, <1>11, <3>1, <4>1
      <4>3. n \in Names \cup Dots /\ Leads(f, b, d, n, y)
        BY <1>3
      <4>4. QED
        BY <4>2, <4>3
    <3>2. CASE i # m + 1
      <4>1. i \in 1..m /\ i \in 0..m /\ i - 1 \in 0..m
        BY <1>7, <3>2
      <4>2. QED
        BY <1>9, <1>11, <4>1 DEF Route
    <3>3. QED
      BY <3>1, <3>2
  <2>2. v[0] = x
    BY <1>7, <1>9, <1>11 DEF Route
  <2>3. QED
    BY <1>11, <2>1, <2>2 DEF Route
<1>13. CallInv'
  <2>1. Len(loc'.rest) <= Len(names) /\ \A j \in 1..Len(loc'.rest) : loc'.rest[j] = names[m + 1 + j]
    <3>1. Len(Tail(rest)) <= Len(names)
      BY <1>4, <1>5, <1>6
    <3>2. ASSUME NEW j \in 1..Len(Tail(rest)) PROVE Tail(rest)[j] = names[m + 1 + j]
      <4>1. j \in 1..(Len(rest) - 1) /\ j + 1 \in 1..Len(rest)
        BY <1>5
      <4>2. Tail(rest)[j] = names[m + (j + 1)]
        BY <1>4, <1>5, <4>1
      <4>3. m + (j + 1) = m + 1 + j
        BY <1>7, <4>1
      <4>4. QED
        BY <4>2, <4>3
    <3>3. QED
      BY <1>3, <3>1, <3>2
  <2>2. QED
    BY <1>2, <1>3, <1>4, <1>8, <2>1 DEF CallInv
<1>14. PutInv'
  <2>1. Origin(loc.req)' = x
    BY <1>3 DEF Origin
  <2>2. QED
    BY <1>2, <1>3, <1>8, <1>11, <1>12, <2>1 DEF PutInv
<1>15. QED
  BY <1>2, <1>13, <1>14 DEF WayInv, TakeInv

LEMMA CallWay ==
  ASSUME Sure, NEW r \in Requests, Call(r)
  PROVE  WayInv'
<1>1. PICK l : l = StartWalk(r)
  OBVIOUS
<1>2. pc' = "walk" /\ loc' = l /\ cwd' = cwd
  BY <1>1 DEF Call, Goto, memory
<1>3. l.req = r /\ l.rest = r.path.comps /\ l.cur = Origin(r)
  BY <1>1 DEF StartWalk, NoLocals, Origin
<1>4. l.cur \in Clusters \cup {NoCluster}
  BY <1>3, FsAssumption DEF Origin, Sure, Given, TypeInv, TypeOK
<1>5. QED
  BY <1>2, <1>3, <1>4, WayBegins

LEMMA WalkWay ==
  ASSUME Sure, Walk
  PROVE  WayInv'
<1>1. SUFFICES ASSUME Free(Strays)', Clear' PROVE WayInv'
  BY DEF WayInv
<1>2. CallInv /\ TypeOK /\ loc \in Locals /\ fat \in Fats
  BY <1>1, SureBefore
<1>3. CASE WalkFails \/ WalkTooLong \/ Cd
  <2>1. pc' = "idle"
    BY <1>3 DEF WalkFails, WalkTooLong, Cd, GiveUp, Return
  <2>2. QED
    BY <2>1, NoWay
<1>4. CASE MissedByWrite
  <2>1. PICK r : r = loc.req
    OBVIOUS
  <2>2. r \in Requests
    BY <1>2, <1>4, <2>1 DEF MissedByWrite, Running, CallInv
  <2>3. PICK l : l = [StartWalk(r) EXCEPT !.missed = TRUE]
    OBVIOUS
  <2>4. pc' = "walk" /\ loc' = l /\ cwd' = cwd
    BY <1>4, <2>1, <2>3 DEF MissedByWrite, Goto, memory
  <2>5. l.req = r /\ l.rest = r.path.comps /\ l.cur = Origin(r)
    BY <2>3 DEF StartWalk, NoLocals, Origin
  <2>6. l.cur \in Clusters \cup {NoCluster}
    BY <1>2, <2>5, FsAssumption DEF Origin, TypeOK
  <2>7. QED
    BY <2>2, <2>4, <2>5, <2>6, WayBegins
<1>5. ASSUME WalkDot \/ WalkDown
      PROVE  /\ pc = "walk" /\ pc' = "walk" /\ loc.rest # <<>> /\ Name \in Names \cup Dots
             /\ UNCHANGED <<fat, block, cwd>>
             /\ \E D, F, dp, S, w : OnWay(D, F, dp, S, w) /\ Seen = block /\ loc.cur \in Heads(fat, D)
  <2>1. pc = "walk" /\ pc' = "walk" /\ loc.rest # <<>> /\ Name # TooLong /\ UNCHANGED <<fat, block, cwd>>
    BY <1>5 DEF WalkDot, WalkDown, Walking, Goto, disk, memory
  <2>2. Name \in Names \cup Dots
    BY <1>2, <2>1, NameType DEF Components
  <2>3. PICK D, F, dp, S, w : OnWay(D, F, dp, S, w)
    BY <1>1, <2>1, WayNow
  <2>4. Seen = block
    BY <2>1 DEF Seen, Growing, Storing, Flushing
  <2>5. loc.cur \in Heads(fat, D)
    <3>1. PICK m : m = Gone /\ m \in Nat
      BY <2>3 DEF OnWay
    <3>2. m \in 0..m
      BY <3>1
    <3>3. QED
      BY <2>3, <3>1, <3>2 DEF OnWay
  <2>6. QED
    BY <2>1, <2>2, <2>3, <2>4, <2>5
<1>6. CASE WalkDot
  <2>1. loc' = [loc EXCEPT !.rest = Tail(@)] /\ Name = "."
    BY <1>6 DEF WalkDot, Goto
  <2>2. PICK d : d = loc.cur
    OBVIOUS
  <2>3. loc'.req = loc.req /\ loc'.rest = Tail(loc.rest) /\ loc'.cur = d
    BY <1>2, <2>1, <2>2 DEF Locals
  <2>4. PICK f, b : f = fat /\ b = block
    OBVIOUS
  <2>5. PICK D, F, dp : Tree(f, b, D, F, dp) /\ Reached(f, b, D, F) /\ d \in Heads(f, D)
    BY <1>5, <1>6, <2>2, <2>4 DEF OnWay
  <2>6. d \in Clusters /\ 1 \in Slots /\ d \in Chain(f, d)
    <3>1. Ground(f, D, F) /\ d \in D /\ f \in Fats
      BY <1>2, <2>4, <2>5 DEF Tree, Heads
    <3>2. d \in Chain(f, d)
      BY <3>1, ChainGround
    <3>3. d \in Clusters
      BY <3>1 DEF Ground
    <3>4. QED
      BY <3>2, <3>3, FsAssumption DEF Slots
  <2>7. Leads(fat, block, loc.cur, Name, d)
    <3>1. PICK h \in Heads(f, D) : At(b, <<d, 1>>) = DirEntry(".", d) /\ At(b, <<d, 2>>) = DirEntry("..", h)
      BY <2>5, DotsOf
    <3>2. <<d, 1>> \in Chain(f, d) \X Slots
      BY <2>6
    <3>3. QED
      BY <2>1, <2>2, <2>4, <3>1, <3>2 DEF Leads, DirEntry
  <2>8. QED
    BY <1>1, <1>5, <1>6, <2>3, <2>6, <2>7, WayExtends
<1>7. CASE WalkDown
  <2>1. PICK p \in NextHop : Goto("walk", [loc EXCEPT !.rest = Tail(@), !.cur  = EntryAt(p).first,
                                                      !.path = PathAfter(@, Name)])
    BY <1>7 DEF WalkDown
  <2>2. PICK d, n, y : d = loc.cur /\ n = Name /\ y = EntryAt(p).first
    OBVIOUS
  <2>3. loc'.req = loc.req /\ loc'.rest = Tail(loc.rest) /\ loc'.cur = y
    BY <1>2, <2>1, <2>2 DEF Goto, Locals
  <2>4. p \in FindEntry(d, n) /\ (n = ".." \/ EntryAt(p).type = "dir")
    BY <2>1, <2>2 DEF NextHop
  <2>5. PICK D, F, dp : Tree(fat, block, D, F, dp) /\ Reached(fat, block, D, F) /\ d \in Heads(fat, D)
    BY <1>5, <1>7, <2>2 DEF OnWay
  <2>6. n \in Names \cup Dots
    BY <1>5, <1>7, <2>2
  <2>7. EntryAt(p).type = "dir" /\ EntryAt(p).first \in Heads(fat, D)
    BY <1>2, <2>4, <2>5, <2>6, FoundAt DEF Dots
  <2>8. y \in Clusters
    BY <2>2, <2>5, <2>7 DEF Heads, Tree, Ground
  <2>9. p \in Chain(fat, d) \X Slots /\ At(block, p).name = n /\ EntryAt(p) = At(block, p)
    BY <2>4, FoundPlace
  <2>10. Leads(fat, block, loc.cur, Name, y)
    BY <2>2, <2>7, <2>9 DEF Leads
  <2>11. QED
    BY <1>1, <1>5, <1>7, <2>3, <2>8, <2>10, WayExtends
<1>8. QED
  BY <1>3, <1>4, <1>6, <1>7 DEF Walk

LEMMA StartingWay ==
  ASSUME Sure, Starting \/ Crash
  PROVE  WayInv'
<1>1. /\ pc' \in {"off", "idle", "formatSuper", "formatRoot", "load"} \/ Flushing("formatRoot")'
  <2>1. ASSUME FormatSuper PROVE pc' = "idle" \/ (pc' = "flush" /\ loc'.then = "formatRoot")
    <3>1. pc' = "idle" \/ StartFlush(loc, "formatRoot")
      BY <2>1 DEF FormatSuper, Goto
    <3>2. loc \in Locals
      BY DEF Sure, Given, TypeInv, TypeOK
    <3>3. StartFlush(loc, "formatRoot") => pc' = "flush" /\ loc'.then = "formatRoot"
      BY <3>2 DEF StartFlush, Goto, Locals
    <3>4. QED
      BY <3>1, <3>3
  <2>2. QED
    BY <2>1 DEF Starting, Boot, FormatRoot, Load, Crash, Goto, Flushing
<1>2. QED
  BY <1>1, NoWay

-------------------------------------------------------------------------------
\* The decisions.

\* A step that allocates adds to what the path leads through.
LEMMA AllocGrows ==
  ASSUME fat \in Fats, pc = "walk", NEW n
  PROVE  Grows(AllocChain(fat, n), block)
<1>1. SUFFICES ASSUME NEW D, NEW F, NEW dp, Phase(D, F, dp)
               PROVE  Richer(fat, Seen, AllocChain(fat, n), block, D)
  BY DEF Grows
<1>2. Tree(fat, block, D, F, dp)
  BY <1>1 DEF Phase, Still, Resting, Shape
<1>3. \A c \in D \cup F : AllocChain(fat, n)[c] = fat[c]
  <2>1. \A c \in D \cup F : c \in Indices /\ fat[c] # FREE
    BY <1>2, ClusterFacts DEF Tree, Ground
  <2>2. \A c \in D \cup F : c \notin FirstFit(fat, n)
    BY <2>1, FirstFitFree
  <2>3. QED
    BY <2>1, <2>2, AllocChainLinks
<1>4. Seen = block
  BY DEF Seen, Growing, Storing, Flushing
<1>5. QED
  BY <1>3, <1>4 DEF Richer

\* What the start of the data leaves in the locals.
LEMMA DataCall ==
  ASSUME NEW f, NEW l \in Locals, NEW e \in Entries, e.first = NoCluster, l.req.size \in Nat, StartData(f, l, e)
  PROVE  /\ loc'.req = l.req /\ loc'.rest = l.rest /\ loc'.cur = l.cur /\ loc'.at = l.at
         /\ loc'.found = l.found
         /\ loc'.entry.name = e.name /\ loc'.entry.type = e.type /\ loc'.entry.size = e.size
         /\ fat' = AllocChain(f, l.req.size)
         /\ pc' = "data" \/ (pc' = "flush" /\ loc'.then = StoreStep(l))
<1>1. CASE StartFlush([l EXCEPT !.entry = e], StoreStep(l)) /\ fat' = AllocChain(f, l.req.size)
  <2>1. PICK l2 \in Locals : l2 = [l EXCEPT !.entry = e]
    BY DEF Locals
  <2>2. l2.entry = e /\ l2.req = l.req /\ l2.rest = l.rest /\ l2.cur = l.cur /\ l2.at = l.at /\ l2.found = l.found
    BY <2>1 DEF Locals
  <2>3. pc' = "flush" /\ loc' = [l2 EXCEPT !.k = 0, !.then = StoreStep(l)]
    BY <1>1, <2>1 DEF StartFlush, Goto
  <2>4. /\ loc'.entry = l2.entry /\ loc'.req = l2.req /\ loc'.rest = l2.rest /\ loc'.cur = l2.cur
        /\ loc'.at = l2.at /\ loc'.found = l2.found /\ loc'.then = StoreStep(l)
    BY <2>1, <2>3 DEF Locals
  <2>5. QED
    BY <1>1, <2>2, <2>3, <2>4
<1>2. ASSUME NEW y, Goto("data", AtData(l, e, y)) /\ fat' = AllocChain(f, l.req.size)
      PROVE  /\ loc'.req = l.req /\ loc'.rest = l.rest /\ loc'.cur = l.cur /\ loc'.at = l.at
             /\ loc'.found = l.found
             /\ loc'.entry.name = e.name /\ loc'.entry.type = e.type /\ loc'.entry.size = e.size
             /\ fat' = AllocChain(f, l.req.size) /\ pc' = "data"
  <2>1. PICK e2 : e2 = [e EXCEPT !.first = y]
    OBVIOUS
  <2>2. e2.name = e.name /\ e2.type = e.type /\ e2.size = e.size
    BY <2>1 DEF Entries
  <2>3. pc' = "data" /\ loc' = [l EXCEPT !.entry = e2, !.data = y, !.k = 1]
    BY <1>2, <2>1 DEF Goto, AtData
  <2>4. QED
    BY <1>2, <2>2, <2>3 DEF Locals
<1>3. QED
  BY <1>1, <1>2 DEF StartData

\* A new entry is on its way.
LEMMA NewEntryWay ==
  ASSUME Sure, Free(Strays)', Clear', NEW op, Arrived(op), SameCall, block' = block,
         fat' = fat \/ \E n : fat' = AllocChain(fat, n),
         Adding', Asked(loc.req, loc'.entry), loc'.entry.name = Name
  PROVE  WayInv'
<1>1. TypeOK /\ fat \in Fats
  BY SureBefore
<1>2. pc = "walk" /\ Len(loc.rest) = 1
  BY <1>1, ArrivedAt
<1>3. Name = loc.rest[1] /\ Name \in Names \cup Dots
  BY <1>1, ArrivedAt
<1>4. Putting' /\ ~Growing' /\ ~Storing'
  BY DEF Putting, Adding, Growing, Storing, Flushing
<1>5. Seen' = block
  BY <1>4 DEF Seen
<1>6. Seen = block
  BY <1>2 DEF Seen, Growing, Storing, Flushing
<1>7. Grows(fat, block)
  BY <1>6 DEF Grows, Richer
<1>8. Grows(fat', Seen')
  <2>1. CASE fat' = fat
    BY <1>5, <1>7, <2>1
  <2>2. ASSUME NEW n, fat' = AllocChain(fat, n) PROVE Grows(fat', Seen')
    BY <1>1, <1>2, <1>5, <2>2, AllocGrows
  <2>3. QED
    BY <2>1, <2>2
<1>9. QED
  BY <1>2, <1>3, <1>4, <1>8, PutGoesOn

LEMMA MkdirWay ==
  ASSUME Sure, Free(Strays)', Clear', Mkdir
  PROVE  WayInv'
<1>1. PICK l, e : l = [loc EXCEPT !.entry = e] /\ e = DirEntry(Name, Least(FirstFit(fat, 1)))
  OBVIOUS
<1>2. /\ Arrived("mkdir") /\ fat' = AllocChain(fat, 1) /\ block' = block /\ cwd' = cwd
      /\ StartFlush(l, "initDir") /\ loc \in Locals /\ loc.req.op = "mkdir"
  BY <1>1, SureBefore DEF Mkdir, disk, Arrived, Running
<1>3. pc' = "flush" /\ loc' = [l EXCEPT !.k = 0, !.then = "initDir"]
  BY <1>2 DEF StartFlush, Goto
<1>4. SameCall /\ loc'.entry = e /\ loc'.then = "initDir"
  BY <1>1, <1>2, <1>3 DEF Locals, SameCall
<1>5. e.name = Name /\ e.type = "dir" /\ e.size = 0
  BY <1>1 DEF DirEntry
<1>6. Adding'
  BY <1>3, <1>4 DEF Adding, Flushing
<1>7. QED
  BY <1>2, <1>4, <1>5, <1>6, NewEntryWay DEF Asked

LEMMA TouchWay ==
  ASSUME Sure, Free(Strays)', Clear', Touch
  PROVE  WayInv'
<1>1. PICK e : e = FileEntry(Name, 0, NoCluster)
  OBVIOUS
<1>2. /\ Arrived("touch") /\ fat' = fat /\ block' = block /\ cwd' = cwd
      /\ pc' = "addEntry" /\ loc' = [loc EXCEPT !.entry = e] /\ loc \in Locals /\ loc.req.op = "touch"
  BY <1>1, SureBefore DEF Touch, disk, memory, Arrived, Running, Goto
<1>3. SameCall /\ loc'.entry = e
  BY <1>2 DEF Locals, SameCall
<1>4. e.name = Name /\ e.type = "file" /\ e.size = 0
  BY <1>1 DEF FileEntry
<1>5. Adding'
  BY <1>2 DEF Adding
<1>6. QED
  BY <1>2, <1>3, <1>4, <1>5, NewEntryWay DEF Asked

LEMMA WriteNewWay ==
  ASSUME Sure, Free(Strays)', Clear', WriteNew
  PROVE  WayInv'
<1>1. PICK e : e = FileEntry(Name, loc.req.size, NoCluster)
  OBVIOUS
<1>2. /\ Arrived("write") /\ block' = block /\ cwd' = cwd /\ StartData(fat, loc, e)
      /\ loc \in Locals /\ TypeOK /\ loc.req.op = "write" /\ CtlInv /\ pc = "walk"
  BY <1>1, SureBefore DEF WriteNew, disk, Arrived, Running, Sure, Given, SoundInv
<1>3. loc.req.size \in 0..MaxSize
  BY <1>2, RequestFields DEF Locals
<1>4. e.name = Name /\ e.type = "file" /\ e.size = loc.req.size /\ e.first = NoCluster
  BY <1>1 DEF FileEntry
<1>5. e \in Entries
  <2>1. Name \in Names \cup Dots
    BY <1>2, LastName
  <2>2. QED
    BY <1>1, <1>3, <2>1 DEF Entries, FileEntry
<1>6. /\ SameCall /\ loc'.entry.name = e.name /\ loc'.entry.type = e.type /\ loc'.entry.size = e.size
      /\ loc'.found = loc.found
      /\ pc' = "data" \/ (pc' = "flush" /\ loc'.then = StoreStep(loc))
      /\ fat' = AllocChain(fat, loc.req.size)
  <2>1. loc.req.size \in Nat
    BY <1>3, FsAssumption
  <2>2. QED
    BY <1>2, <1>4, <1>5, <2>1, DataCall DEF SameCall
<1>7. ~loc.found
  BY <1>2 DEF CtlInv
<1>8. Adding'
  BY <1>6, <1>7 DEF Adding, Flushing, StoreStep
<1>9. QED
  BY <1>2, <1>4, <1>6, <1>8, NewEntryWay DEF Asked

LEMMA WriteOverWay ==
  ASSUME Sure, Free(Strays)', Clear', WriteOver
  PROVE  WayInv'
<1>1. PICK p \in Overwritable :
        StartData(Released(EntryAt(p)), [loc EXCEPT !.found = TRUE, !.at = p],
                  [EntryAt(p) EXCEPT !.size = loc.req.size, !.first = NoCluster])
  BY DEF WriteOver
<1>2. PICK l, e, x, g, n : /\ l = [loc EXCEPT !.found = TRUE, !.at = p]
                           /\ x = EntryAt(p).first /\ g = FreeChain(fat, x) /\ n = loc.req.size
                           /\ e = [EntryAt(p) EXCEPT !.size = n, !.first = NoCluster]
  OBVIOUS
<1>3. /\ Arrived("write") /\ block' = block /\ cwd' = cwd /\ TypeOK /\ StartData(g, l, e)
      /\ loc.req.op = "write" /\ pc = "walk" /\ fat \in Fats /\ fat' \in Fats /\ loc \in Locals
      /\ block \in [Clusters -> Blocks]
  BY <1>1, <1>2, SureBefore DEF WriteOver, disk, Arrived, Running, Released
<1>4. n \in 0..MaxSize /\ n \in Nat
  <2>1. n \in 0..MaxSize
    BY <1>2, <1>3, RequestFields DEF Locals
  <2>2. QED
    BY <2>1, FsAssumption
<1>5. p \in Places /\ EntryAt(p).type = "file"
  BY DEF Overwritable
<1>6. p \in Clusters \X Slots /\ EntryAt(p) \in Entries
  BY <1>3, <1>5, PlaceType
<1>7. e \in Entries /\ e.name = EntryAt(p).name /\ e.type = "file" /\ e.size = n /\ e.first = NoCluster
  BY <1>2, <1>4, <1>5, <1>6 DEF Entries
<1>8. l \in Locals /\ l.req = loc.req /\ l.rest = loc.rest /\ l.cur = loc.cur /\ l.found /\ l.at = p
  BY <1>2, <1>3, <1>6 DEF Locals
<1>9. /\ SameCall /\ loc'.at = p /\ loc'.found
      /\ loc'.entry.name = e.name /\ loc'.entry.type = e.type /\ loc'.entry.size = e.size
      /\ fat' = AllocChain(g, n)
      /\ pc' = "data" \/ (pc' = "flush" /\ loc'.then = "setEntry")
  <2>1. /\ loc'.req = l.req /\ loc'.rest = l.rest /\ loc'.cur = l.cur /\ loc'.at = l.at
        /\ loc'.found = l.found
        /\ loc'.entry.name = e.name /\ loc'.entry.type = e.type /\ loc'.entry.size = e.size
        /\ fat' = AllocChain(g, l.req.size)
        /\ pc' = "data" \/ (pc' = "flush" /\ loc'.then = StoreStep(l))
    <3>1. l.req.size \in Nat /\ StartData(g, l, e)
      BY <1>2, <1>3, <1>4, <1>8
    <3>2. QED
      BY <1>7, <1>8, <3>1, DataCall
  <2>2. QED
    BY <1>2, <1>3, <1>8, <2>1 DEF SameCall, StoreStep
<1>10. Putting' /\ Storing' /\ ~Growing'
  BY <1>3, <1>9 DEF Putting, Storing, Growing, Flushing, SameCall
<1>11. PICK e2 \in Entries : e2 = loc'.entry
  BY DEF Sure, Given, TypeInv, TypeOK, Locals
<1>12. Seen' = With(block, p, e2)
  BY <1>3, <1>9, <1>10, <1>11 DEF Seen
<1>13. Seen = block
  BY <1>3 DEF Seen, Growing, Storing, Flushing
<1>14. Name \in Names \cup Dots /\ Name = loc.rest[1] /\ Len(loc.rest) = 1
  BY <1>3, ArrivedAt
<1>15. ASSUME NEW D, NEW F, NEW dp, Phase(D, F, dp)
       PROVE  /\ D \in SUBSET Clusters /\ ClosedUnderLinks(fat, D) /\ loc.cur \in D
              /\ \A c \in D : fat[c] \in Clusters => fat'[c] = fat[c]
              /\ Richer(fat, block, fat', With(block, p, e2), D)
  <2>1. Tree(fat, block, D, F, dp) /\ Reached(fat, block, D, F) /\ loc.cur \in Heads(fat, D)
    BY <1>3, <1>15 DEF Phase, Still, Resting, Shape
  <2>2. p \in D \X Slots /\ At(block, p) = EntryAt(p) /\ p \in Proper(block, D)
    BY <1>3, <1>5, <1>14, <2>1, PlaceFound
  <2>3. D \in SUBSET Clusters /\ ClosedUnderLinks(fat, D)
    BY <2>1 DEF Tree, Ground, ClosedUnderLinks
  <2>4. Chain(fat, x) \cap D = {}
    BY <1>2, <1>3, <1>5, <2>1, <2>2, FileApart
  <2>5. \A c \in D : g[c] = fat[c] /\ c \in Indices
    BY <1>2, <2>3, <2>4, ClusterFacts DEF FreeChain
  <2>6. g \in Fats
    BY <1>2, <1>3, FreeChainType
  <2>7. ASSUME NEW c \in D, fat[c] \in Clusters PROVE fat'[c] = fat[c]
    <3>1. g[c] # FREE
      BY <2>5, <2>7, ClusterFacts
    <3>2. c \notin FirstFit(g, n)
      BY <2>6, <3>1, FirstFitFree
    <3>3. AllocChain(g, n)[c] = g[c]
      BY <2>5, <2>6, <3>2, AllocChainLinks
    <3>4. QED
      BY <1>9, <2>5, <3>3
  <2>8. ASSUME NEW q \in D \X Slots, At(block, q).type = "dir" PROVE At(With(block, p, e2), q) = At(block, q)
    <3>1. q # p /\ q \in Clusters \X Slots
      BY <1>5, <2>2, <2>3, <2>8
    <3>2. QED
      BY <1>3, <1>6, <3>1, WithAt
  <2>9. loc.cur \in D
    BY <2>1 DEF Heads
  <2>10. QED
    BY <2>3, <2>7, <2>8, <2>9 DEF Richer
<1>16. Grows(fat', Seen')
  BY <1>12, <1>13, <1>15 DEF Grows
<1>17. p \in Chain(fat', loc.cur) \X Slots /\ At(block, p).name = Name
  <2>1. PICK D, F, dp, S, w : OnWay(D, F, dp, S, w)
    BY <1>3, WayNow
  <2>2. Phase(D, F, dp)
    BY <2>1 DEF OnWay
  <2>3. PICK f, h, d : f = fat /\ h = fat' /\ d = loc.cur
    OBVIOUS
  <2>4. Chain(f, d) \subseteq Chain(h, d)
    BY <1>3, <1>15, <2>2, <2>3, ChainRicher
  <2>5. p \in Chain(f, d) \X Slots /\ At(block, p).name = Name
    BY <1>5, <2>3, FoundPlace DEF Places
  <2>6. QED
    BY <2>3, <2>4, <2>5
<1>18. EntryAt(p) = At(block, p)
  BY <1>5, FoundPlace DEF Places
<1>19. Asked(loc.req, loc'.entry) /\ loc'.entry.name = loc.rest[1]
  BY <1>2, <1>3, <1>7, <1>9, <1>14, <1>17, <1>18 DEF Asked
<1>20. loc'.at \in Chain(fat', loc.cur) \X Slots
  BY <1>9, <1>17
<1>21. QED
  BY <1>3, <1>9, <1>10, <1>14, <1>16, <1>19, <1>20, PutGoesOn

\* A removal of what is found at p.
LEMMA UnlinkWay ==
  ASSUME Sure, Free(Strays)', Clear', NEW op \in {"rm", "rmdir"}, Arrived(op), NEW p \in Places,
         NEW l, l = [loc EXCEPT !.at = p], NEW s, fat' = FreeChain(fat, s),
         Goto("setEntry", [l EXCEPT !.entry = Zeroed]), cwd' = cwd, block' = block
  PROVE  WayInv'
<1>1. loc \in Locals
  BY SureBefore
<1>2. loc'.at = p /\ loc'.entry = Zeroed /\ SameCall
  BY <1>1 DEF Goto, Locals, SameCall
<1>3. \A c \in Clusters : fat'[c] \in Clusters => fat'[c] = fat[c]
  BY ReleasedLinks
<1>4. pc' = "setEntry"
  BY DEF Goto
<1>5. QED
  BY <1>2, <1>3, <1>4, TakeBegins

LEMMA RmWay ==
  ASSUME Sure, Free(Strays)', Clear', Rm
  PROVE  WayInv'
<1>1. PICK p \in LookedUp("file") :
        /\ fat' = FreeChain(fat, EntryAt(p).first)
        /\ Goto("setEntry", [loc EXCEPT !.at = p, !.entry = Zeroed])
  BY DEF Rm
<1>2. PICK l : l = [loc EXCEPT !.at = p]
  OBVIOUS
<1>3. loc \in Locals
  BY SureBefore
<1>4. [loc EXCEPT !.at = p, !.entry = Zeroed] = [l EXCEPT !.entry = Zeroed]
  BY <1>2, <1>3 DEF Locals
<1>5. Arrived("rm") /\ p \in Places /\ cwd' = cwd /\ block' = block
  BY DEF Rm, LookedUp, disk
<1>6. QED
  BY <1>1, <1>2, <1>4, <1>5, UnlinkWay

LEMMA RmdirWay ==
  ASSUME Sure, Free(Strays)', Clear', RmdirEmpty \/ RmdirAll
  PROVE  WayInv'
<1>1. Arrived("rmdir") /\ cwd' = cwd /\ block' = block /\ loc \in Locals
  BY SureBefore DEF RmdirEmpty, RmdirAll, disk, memory
<1>2. CASE RmdirEmpty
  <2>1. PICK p \in LookedUp("dir") : Unlink([loc EXCEPT !.at = p], EntryAt(p).first)
    BY <1>2 DEF RmdirEmpty
  <2>2. PICK l, s : l = [loc EXCEPT !.at = p] /\ s = EntryAt(p).first
    OBVIOUS
  <2>3. fat' = FreeChain(fat, s) /\ Goto("setEntry", [l EXCEPT !.entry = Zeroed])
    BY <2>1, <2>2 DEF Unlink
  <2>4. p \in Places
    BY DEF LookedUp
  <2>5. QED
    BY <1>1, <2>2, <2>3, <2>4, UnlinkWay
<1>3. CASE RmdirAll
  <2>1. PICK p \in LookedUp("dir") : Goto("scan", [loc EXCEPT !.at = p, !.entry = EntryAt(p)])
    BY <1>3 DEF RmdirAll
  <2>2. p \in Places
    BY DEF LookedUp
  <2>3. pc' = "scan" /\ loc'.at = p /\ SameCall
    BY <1>1, <2>1 DEF Goto, Locals, SameCall
  <2>4. \A c \in Clusters : fat'[c] \in Clusters => fat'[c] = fat[c]
    BY <1>3 DEF RmdirAll, memory
  <2>5. QED
    BY <1>1, <2>2, <2>3, <2>4, TakeBegins
<1>4. QED
  BY <1>2, <1>3

LEMMA DecideWay ==
  ASSUME Sure, Decide
  PROVE  WayInv'
<1>1. SUFFICES ASSUME Free(Strays)', Clear' PROVE WayInv'
  BY DEF WayInv
<1>2. CASE MkdirRefused \/ TouchRefused \/ WriteRefused \/ WriteOverNoRoom \/ WriteNewNoRoom \/ RemoveRefused
  <2>1. pc' = "idle"
    BY <1>2 DEF MkdirRefused, TouchRefused, WriteRefused, WriteOverNoRoom, WriteNewNoRoom, RemoveRefused, GiveUp, Return
  <2>2. QED
    BY <2>1, NoWay
<1>3. QED
  BY <1>1, <1>2, MkdirWay, TouchWay, WriteNewWay, WriteOverWay, RmWay, RmdirWay DEF Decide

-------------------------------------------------------------------------------
\* The removal of a directory with its contents.

LEMMA ScanOnWay ==
  ASSUME Sure, Free(Strays)', Clear', pc = "scan", pc' = "scan", UNCHANGED <<loc, cwd>>,
         \A c \in Clusters : fat'[c] \in Clusters => fat'[c] = fat[c],
         \A q \in Clusters \X Slots : At(block', q) = At(block, q) \/ At(block', q).name = Empty
  PROVE  WayInv'
<1>1. Taking /\ Taking'
  BY DEF Taking
<1>2. SameCall
  BY DEF SameCall
<1>3. Poorer(fat, block, fat', block')
  BY DEF Poorer
<1>4. QED
  BY <1>1, <1>2, <1>3, TakeGoesOn

LEMMA ScanWriteWay ==
  ASSUME Sure, Free(Strays)', Clear', ScanWrite
  PROVE  WayInv'
<1>1. PICK w \in Writes :
        /\ WriteBlock(Top.dir, Top.buf, w)
        /\ IF w = "done" THEN UNCHANGED <<pc, loc, ret, marks>> ELSE GiveUp({"dangling"})
  BY DEF ScanWrite
<1>2. CASE w # "done"
  <2>1. pc' = "idle"
    BY <1>1, <1>2 DEF GiveUp, Return
  <2>2. QED
    BY <2>1, NoWay
<1>3. CASE w = "done"
  <2>1. /\ Scanning /\ block' = [block EXCEPT ![Top.dir] = Top.buf]
        /\ UNCHANGED <<fat, cwd, pc, loc>>
    BY <1>1, <1>3 DEF ScanWrite, memory, WriteBlock
  <2>2. /\ block \in [Clusters -> Blocks] /\ TypeOK
        /\ Len(frames) \in Nat \ {0} /\ Top = frames[1]
    BY <2>1, ScanNow DEF Sure
  <2>3. PICK E, D, F, dp : ScanPhase(E, D, F, dp)
    BY <2>1, ScanNow DEF Sure
  <2>4. PICK t : t = frames[1]
    OBVIOUS
  <2>5. Working(t, HeadOf(1), fat, block, E, D) /\ t.dir \in Clusters
    <3>1. 1 \in 1..Len(frames)
      BY <2>2
    <3>2. Working(frames[1], HeadOf(1), fat, block, E, D) /\ frames[1].dir \in D /\ D \subseteq Clusters
      BY <2>2, <2>3, <3>1, ScanFacts
    <3>3. QED
      BY <2>4, <3>2
  <2>6. block'[t.dir] = t.buf /\ \A c \in Clusters : c # t.dir => block'[c] = block[c]
    <3>1. block' = [block EXCEPT ![t.dir] = t.buf]
      BY <2>1, <2>2, <2>4
    <3>2. QED
      BY <2>2, <2>5, <3>1
  <2>7. ASSUME NEW q \in Clusters \X Slots
        PROVE  At(block', q) = At(block, q) \/ At(block', q).name = Empty
    <3>1. PICK c \in Clusters, j \in Slots : q = <<c, j>>
      OBVIOUS
    <3>2. At(block', q) = block'[c][j] /\ At(block, q) = block[c][j]
      BY <3>1 DEF At
    <3>3. Zeroed.name = Empty
      BY DEF Zeroed
    <3>4. CASE c = t.dir
      BY <2>5, <2>6, <3>1, <3>2, <3>3, <3>4 DEF Working
    <3>5. CASE c # t.dir
      BY <2>6, <3>2, <3>5
    <3>6. QED
      BY <3>4, <3>5
  <2>8. \A c \in Clusters : fat'[c] \in Clusters => fat'[c] = fat[c]
    BY <2>1
  <2>9. pc = "scan" /\ pc' = "scan"
    BY <2>1 DEF Scanning
  <2>10. QED
    BY <2>1, <2>7, <2>8, <2>9, ScanOnWay
<1>4. QED
  BY <1>2, <1>3

LEMMA ScanFinishWay ==
  ASSUME Sure, Free(Strays)', Clear', ScanFinish
  PROVE  WayInv'
<1>1. pc = "scan" /\ Unlink(loc, loc.entry.first) /\ block' = block /\ cwd' = cwd
  BY DEF ScanFinish, ScanDone, Scanning, disk
<1>2. fat' = FreeChain(fat, loc.entry.first) /\ pc' = "setEntry" /\ loc' = [loc EXCEPT !.entry = Zeroed]
  BY <1>1 DEF Unlink, Goto
<1>3. CallInv /\ loc \in Locals
  BY SureBefore
<1>4. loc'.at = loc.at /\ loc'.entry = Zeroed /\ SameCall
  BY <1>1, <1>2, <1>3 DEF Locals, SameCall
<1>5. loc.req.op # "write"
  BY <1>1, <1>3 DEF CallInv, Taking
<1>6. Taking /\ Taking'
  BY <1>1, <1>2, <1>4, <1>5 DEF Taking, SameCall
<1>7. Poorer(fat, block, fat', block')
  BY <1>1, <1>2, ReleasedLinks DEF Poorer
<1>8. QED
  BY <1>2, <1>4, <1>6, <1>7, TakeGoesOn

LEMMA ScanGroupWay ==
  ASSUME Sure, Scan
  PROVE  WayInv'
<1>1. SUFFICES ASSUME Free(Strays)', Clear' PROVE WayInv'
  BY DEF WayInv
<1>2. CASE ScanOverrun \/ ScanFails
  <2>1. pc' \in {"halted", "idle"}
    BY <1>2 DEF ScanOverrun, ScanFails, GiveUp, Return
  <2>2. QED
    BY <2>1, NoWay
<1>3. CASE ScanFile \/ ScanReturn
  <2>1. PICK s : fat' = FreeChain(fat, s)
    BY <1>3 DEF ScanFile, ScanReturn
  <2>2. pc = "scan" /\ pc' = "scan" /\ block' = block /\ UNCHANGED <<loc, cwd>>
    BY <1>3 DEF ScanFile, ScanReturn, ScanDone, Scanning, disk
  <2>3. \A c \in Clusters : fat'[c] \in Clusters => fat'[c] = fat[c]
    BY <2>1, ReleasedLinks
  <2>4. QED
    BY <1>1, <2>2, <2>3, ScanOnWay
<1>4. CASE ScanDir \/ ScanNextCluster
  <2>1. pc = "scan" /\ pc' = "scan" /\ block' = block /\ fat' = fat /\ UNCHANGED <<loc, cwd>>
    BY <1>4 DEF ScanDir, ScanNextCluster, Scanning, disk, memory
  <2>2. QED
    BY <1>1, <2>1, ScanOnWay
<1>5. QED
  BY <1>1, <1>2, <1>3, <1>4, ScanWriteWay, ScanFinishWay DEF Scan

-------------------------------------------------------------------------------
\* The writes.

\* Nothing but the control has moved on.
LEMMA PutStays ==
  ASSUME Sure, Free(Strays)', Clear', Putting, Putting', SameCall, Grows(fat', Seen'),
         fat' = fat, loc'.entry = loc.entry, loc'.at = loc.at, loc'.data = loc.data \/ ~Growing',
         Growing' => Growing, Storing' => Storing
  PROVE  WayInv'
<1>1. CallInv /\ PutInv
  BY SureBefore
<1>2. /\ Len(loc.rest) = 1 /\ loc.rest[1] \in Names \cup Dots
      /\ Asked(loc.req, loc.entry) /\ loc.entry.name = loc.rest[1]
  BY <1>1 DEF CallInv
<1>3. Growing' => loc'.data \in Chain(fat', loc.cur)
  BY <1>1 DEF PutInv
<1>4. Storing' => loc'.at \in Chain(fat', loc.cur) \X Slots
  BY <1>1 DEF PutInv
<1>5. QED
  BY <1>2, <1>3, <1>4, PutGoesOn

\* A write to a cluster that is not in the directories.
LEMMA OutsideGrows ==
  ASSUME TypeOK, NEW b2, b2 \in [Clusters -> Blocks], NEW y, ~Growing,
         \A c \in Clusters : c # y => b2[c] = block[c],
         \A D, F, dp : Phase(D, F, dp) => D \subseteq Clusters /\ y \notin D
  PROVE  Grows(fat, IF Storing THEN With(b2, loc.at, loc.entry) ELSE b2)
<1>1. PICK s : s = IF Storing THEN With(b2, loc.at, loc.entry) ELSE b2
  OBVIOUS
<1>2. SUFFICES ASSUME NEW D, NEW F, NEW dp, Phase(D, F, dp), NEW q \in D \X Slots
               PROVE  At(s, q) = At(Seen, q)
  BY <1>1 DEF Grows, Richer
<1>3. PICK c \in D, i \in Slots : q = <<c, i>>
  OBVIOUS
<1>4. c \in Clusters /\ b2[c] = block[c]
  BY <1>2
<1>5. s[c] = Seen[c]
  <2>1. CASE ~Storing
    BY <1>1, <1>4, <2>1 DEF Seen
  <2>2. CASE Storing
    <3>1. PICK p \in Clusters \X Slots, e \in Entries : p = loc.at /\ e = loc.entry
      BY DEF TypeOK, Locals
    <3>2. s = With(b2, p, e) /\ Seen = With(block, p, e) /\ block \in [Clusters -> Blocks]
      BY <1>1, <2>2, <3>1 DEF Seen, TypeOK
    <3>3. QED
      BY <1>4, <3>2 DEF With
  <2>3. QED
    BY <2>1, <2>2
<1>6. QED
  BY <1>3, <1>5 DEF At

\* The call stays the same while a file is being written.
LEMMA WriteDataCall ==
  ASSUME loc \in Locals, WriteData
  PROVE  \/ pc' = "idle"
         \/ /\ loc'.req = loc.req /\ loc'.rest = loc.rest /\ loc'.cur = loc.cur /\ loc'.found = loc.found
            /\ loc'.at = loc.at /\ loc'.entry = loc.entry
            /\ pc' = "data" \/ (pc' = "flush" /\ loc'.then = StoreStep(loc))
<1>1. CASE \E w \in Writes : GiveUp(IF loc.found THEN {"dangling", "torn"} ELSE {"leak"})
  BY <1>1 DEF GiveUp, Return
<1>2. CASE Goto("data", [loc EXCEPT !.data = fat[@], !.k = @ + 1])
  BY <1>2 DEF Goto, Locals
<1>3. CASE StartFlush(loc, StoreStep(loc))
  BY <1>3 DEF StartFlush, Goto, Locals
<1>4. QED
  BY <1>1, <1>2, <1>3 DEF WriteData

LEMMA WriteDataWay ==
  ASSUME Sure, Free(Strays)', Clear', WriteData
  PROVE  WayInv'
<1>1. /\ pc = "data" /\ TypeOK /\ fat \in Fats /\ loc \in Locals /\ loc.req.op = "write"
      /\ fat' = fat /\ cwd' = cwd
      /\ \A c \in Clusters : c # loc.data => block'[c] = block[c]
  BY WriteDataSteps DEF Sure
<1>2. CASE pc' = "idle"
  BY <1>2, NoWay
<1>3. CASE pc' # "idle"
  <2>1. /\ SameCall /\ loc'.found = loc.found /\ loc'.at = loc.at /\ loc'.entry = loc.entry
        /\ pc' = "data" \/ (pc' = "flush" /\ loc'.then = StoreStep(loc))
    BY <1>1, <1>3, WriteDataCall DEF SameCall
  <2>2. ~Growing /\ ~Growing' /\ Putting /\ Putting' /\ Storing' = Storing
    BY <1>1, <2>1 DEF Growing, Storing, Adding, Putting, Flushing, StoreStep, SameCall
  <2>3. block' \in [Clusters -> Blocks]
    BY DEF Sure, Given, TypeInv, TypeOK
  <2>4. ASSUME NEW D, NEW F, NEW dp, Phase(D, F, dp) PROVE D \subseteq Clusters /\ loc.data \notin D
    <3>1. CASE loc.found
      <4>1. StorePhase(D, F, dp)
        BY <1>1, <2>4, <3>1 DEF Phase, Storing
      <4>2. QED
        BY <1>1, <4>1 DEF StorePhase, Shape, Tree, Ground
    <3>2. CASE ~loc.found
      <4>1. AddPhase(D, F, dp)
        BY <1>1, <2>4, <3>2 DEF Phase, Adding
      <4>2. Incoming(D, F) /\ loc.data \in Chain(fat, loc.entry.first) /\ D \subseteq Clusters
        BY <1>1, <4>1 DEF AddPhase, Arriving, Resting, Shape, Tree, Ground
      <4>3. Chain(fat, NoCluster) = {}
        BY NoChain, ClusterAssumption DEF NoCluster, Clusters
      <4>4. QED
        BY <4>2, <4>3 DEF Incoming, Apart
    <3>3. QED
      BY <3>1, <3>2
  <2>5. Seen' = IF Storing THEN With(block', loc.at, loc.entry) ELSE block'
    BY <2>1, <2>2 DEF Seen
  <2>6. Grows(fat', Seen')
    <3>1. PICK b2 : b2 = block'
      OBVIOUS
    <3>2. Grows(fat, IF Storing THEN With(b2, loc.at, loc.entry) ELSE b2)
      BY <1>1, <2>2, <2>3, <2>4, <3>1, OutsideGrows
    <3>3. QED
      BY <1>1, <2>5, <3>1, <3>2
  <2>7. QED
    BY <1>1, <2>1, <2>2, <2>6, PutStays
<1>4. QED
  BY <1>2, <1>3

LEMMA InitDirWay ==
  ASSUME Sure, Free(Strays)', Clear', InitDir
  PROVE  WayInv'
<1>1. PICK w \in Writes :
        /\ WriteBlock(loc.entry.first, DirBlock(loc.entry.first, loc.cur), w)
        /\ (pc' = "addEntry" /\ loc' = loc) \/ pc' = "idle"
  BY DEF InitDir, Goto, GiveUp, Return
<1>2. pc = "initDir" /\ fat' = fat /\ cwd' = cwd /\ TypeOK /\ block \in [Clusters -> Blocks]
  BY SureBefore DEF InitDir, memory
<1>3. CASE pc' = "idle"
  BY <1>3, NoWay
<1>4. CASE pc' = "addEntry" /\ loc' = loc
  <2>1. ~Growing /\ ~Growing' /\ Putting /\ Putting' /\ ~Storing /\ ~Storing' /\ SameCall
    BY <1>2, <1>4 DEF Growing, Storing, Adding, Putting, Flushing, SameCall
  <2>2. PICK b2, y : b2 = block' /\ y = loc.entry.first
    OBVIOUS
  <2>3. b2 \in [Clusters -> Blocks]
    BY <2>2 DEF Sure, Given, TypeInv, TypeOK
  <2>4. \A c \in Clusters : c # y => b2[c] = block[c]
    BY <1>1, <1>2, <2>2 DEF WriteBlock
  <2>5. ASSUME NEW D, NEW F, NEW dp, Phase(D, F, dp) PROVE D \subseteq Clusters /\ y \notin D
    <3>1. AddPhase(D, F, dp)
      BY <1>2, <2>5 DEF Phase, Adding
    <3>2. /\ Incoming(D, F) /\ loc.entry.type = "dir" /\ D \subseteq Clusters
      BY <1>2, <3>1 DEF AddPhase, Arriving, Resting, Shape, Tree, Ground
    <3>3. y \in Clusters
      BY <2>2, <3>2 DEF Incoming
    <3>4. Apart(fat, D, F, y)
      <4>1. NoCluster \notin Clusters
        BY ClusterAssumption DEF NoCluster, Clusters
      <4>2. QED
        BY <2>2, <3>2, <3>3, <4>1 DEF Incoming
    <3>5. y \in Chain(fat, y)
      BY <1>2, <3>3, ChainProperties DEF TypeOK
    <3>6. QED
      BY <3>2, <3>4, <3>5 DEF Apart
  <2>6. Grows(fat, IF Storing THEN With(b2, loc.at, loc.entry) ELSE b2)
    BY <1>2, <2>1, <2>3, <2>4, <2>5, OutsideGrows
  <2>7. Seen' = b2
    BY <2>1, <2>2 DEF Seen
  <2>8. Grows(fat', Seen')
    BY <1>2, <2>1, <2>6, <2>7
  <2>9. QED
    BY <1>2, <1>4, <2>1, <2>8, PutStays
<1>5. QED
  BY <1>1, <1>3, <1>4

LEMMA FlushWay ==
  ASSUME Sure, Free(Strays)', Clear', Flush
  PROVE  WayInv'
<1>1. pc = "flush" /\ CtlInv /\ TypeOK /\ loc \in Locals /\ UNCHANGED <<fat, block, cwd>>
  BY SureBefore DEF Flush, memory, Sure, Given, SoundInv
<1>2. \/ pc' = "idle"
      \/ pc' = "flush" /\ loc' = [loc EXCEPT !.k = @ + 1]
      \/ pc' = loc.then /\ loc' = loc /\ loc.then # "return"
  BY <1>1, FlushCases DEF GiveUp, Return, Goto
<1>3. CASE pc' = "idle"
  BY <1>3, NoWay
<1>4. ASSUME pc' # "idle"
      PROVE  /\ (pc' = "flush" /\ loc'.then = loc.then) \/ (pc' = loc.then /\ loc.then # "return")
             /\ SameCall /\ loc'.at = loc.at /\ loc'.entry = loc.entry /\ loc'.data = loc.data
  BY <1>1, <1>2, <1>4 DEF Locals, SameCall
<1>5. CASE pc' # "idle" /\ loc.then = "formatRoot"
  <2>1. pc' = "formatRoot" \/ Flushing("formatRoot")'
    BY <1>4, <1>5 DEF Flushing
  <2>2. QED
    BY <2>1, NoWay
<1>6. CASE pc' # "idle" /\ loc.then = "return"
  <2>1. Taking /\ Taking' /\ pc' = "flush"
    BY <1>1, <1>4, <1>6 DEF Taking, Flushing
  <2>2. Poorer(fat, block, fat', block')
    BY <1>1 DEF Poorer
  <2>3. QED
    BY <1>1, <1>4, <1>6, <2>1, <2>2, TakeGoesOn
<1>7. CASE pc' # "idle" /\ loc.then \in {"initDir", "addEntry", "addCluster", "setEntry"}
  <2>1. loc.then = "setEntry" => loc.req.op = "write"
    BY <1>1 DEF CtlInv, Flushing
  <2>2. /\ Putting /\ Putting' /\ (Growing' <=> Growing) /\ (Storing' <=> Storing)
    BY <1>1, <1>4, <1>7, <2>1 DEF Putting, Adding, Growing, Storing, Flushing, SameCall
  <2>3. Seen' = Seen
    BY <1>1, <1>4, <1>7, <2>2 DEF Seen, Grown
  <2>4. Grows(fat', Seen')
    BY <1>1, <2>3 DEF Grows, Richer
  <2>5. QED
    BY <1>1, <1>4, <1>7, <2>2, <2>4, PutStays
<1>8. loc.then \in {"formatRoot", "initDir", "addEntry", "addCluster", "setEntry", "return"}
  BY <1>1 DEF Locals
<1>9. QED
  BY <1>3, <1>5, <1>6, <1>7, <1>8

\* The directory grows outside of the tree.
LEMMA AddEntryExtendWay ==
  ASSUME Sure, Free(Strays)', Clear', AddEntryExtend
  PROVE  WayInv'
<1>1. PICK new, l : new = Least(FirstFit(fat, 1)) /\ l = [loc EXCEPT !.data = new]
  OBVIOUS
<1>2. /\ pc = "addEntry" /\ fat \in Fats /\ loc \in Locals /\ block \in [Clusters -> Blocks] /\ HasRoom(fat, 1)
      /\ fat' = Extend(AllocChain(fat, 1), Last(fat, loc.cur), new) /\ StartFlush(l, "addCluster")
      /\ block' = block /\ cwd' = cwd
  BY <1>1, SureBefore DEF AddEntryExtend, disk
<1>3. new \in Clusters /\ fat[new] = FREE
  BY <1>1, <1>2, AllocOne
<1>4. /\ pc' = "flush" /\ loc'.then = "addCluster" /\ loc'.entry = loc.entry /\ loc'.data = new
      /\ SameCall
  <2>1. pc' = "flush" /\ loc' = [l EXCEPT !.k = 0, !.then = "addCluster"]
    BY <1>2 DEF StartFlush, Goto
  <2>2. l \in Locals /\ l.entry = loc.entry /\ l.data = new /\ l.req = loc.req /\ l.rest = loc.rest /\ l.cur = loc.cur
    BY <1>1, <1>2, <1>3 DEF Locals
  <2>3. /\ loc'.then = "addCluster" /\ loc'.entry = l.entry /\ loc'.data = l.data
        /\ loc'.req = l.req /\ loc'.rest = l.rest /\ loc'.cur = l.cur
    BY <2>1, <2>2 DEF Locals
  <2>4. QED
    BY <1>2, <2>1, <2>2, <2>3 DEF SameCall
<1>5. CallInv /\ Putting /\ Putting' /\ Growing' /\ ~Storing' /\ Seen = block
  BY <1>2, <1>4, SureBefore DEF Putting, Adding, Growing, Storing, Flushing, Seen
<1>6. PICK f, g, b, b1, b2, d, e, last :
        /\ f = fat /\ g = fat' /\ b = block /\ d = loc.cur /\ e = loc.entry
        /\ b1 = [block EXCEPT ![new] = ZeroBlock] /\ last = Last(fat, loc.cur)
        /\ b2 = [block EXCEPT ![new] = [ZeroBlock EXCEPT ![1] = loc.entry]]
  OBVIOUS
<1>7. Seen' = b2
  BY <1>2, <1>4, <1>5, <1>6 DEF Seen, Grown
<1>8. ASSUME NEW D, NEW F, NEW dp, Phase(D, F, dp)
      PROVE  /\ D \subseteq Clusters /\ new \notin D /\ new \in Chain(g, d)
             /\ \A c \in D : f[c] \in Clusters => g[c] = f[c]
  <2>1. AddPhase(D, F, dp)
    BY <1>2, <1>8 DEF Phase, Adding
  <2>2. Tree(f, b, D, F, dp) /\ Reached(f, b, D, F) /\ d \in Heads(f, D)
    BY <1>6, <2>1 DEF AddPhase, Resting, Shape, Incoming
  <2>3. /\ f \in Fats /\ b \in [Clusters -> Blocks] /\ HasRoom(f, 1) /\ new = Least(FirstFit(f, 1))
        /\ last = Last(f, d) /\ g = Extend(AllocChain(f, 1), last, new) /\ b1 = [b EXCEPT ![new] = ZeroBlock]
    BY <1>1, <1>2, <1>6
  <2>4. Appended(f, g, b, b1, D, F, d, last, new)
    BY ONLY <2>2, <2>3, ClusterAdded
  <2>5. D \subseteq Clusters /\ Clusters \subseteq Indices
    BY <2>2, ClusterFacts DEF Tree, Ground
  <2>6. QED
    BY <2>4, <2>5 DEF Appended
<1>9. Grows(fat', Seen')
  <2>1. ASSUME NEW D, NEW F, NEW dp, Phase(D, F, dp) PROVE Richer(f, b, g, b2, D)
    <3>1. \A c \in D : b2[c] = b[c]
      BY <1>2, <1>6, <1>8, <2>1
    <3>2. \A q \in D \X Slots : At(b2, q) = At(b, q)
      BY <3>1 DEF At
    <3>3. QED
      BY <1>8, <2>1, <3>2 DEF Richer
  <2>2. QED
    BY <1>5, <1>6, <1>7, <2>1 DEF Grows
<1>10. loc'.data \in Chain(fat', loc.cur)
  <2>1. PICK D, F, dp, S, w : OnWay(D, F, dp, S, w)
    BY <1>5, WayNow
  <2>2. Phase(D, F, dp)
    BY <2>1 DEF OnWay
  <2>3. QED
    BY <1>4, <1>6, <1>8, <2>2
<1>11. /\ Len(loc.rest) = 1 /\ loc.rest[1] \in Names \cup Dots
       /\ Asked(loc.req, loc'.entry) /\ loc'.entry.name = loc.rest[1]
  BY <1>4, <1>5 DEF CallInv
<1>12. QED
  BY <1>4, <1>5, <1>9, <1>10, <1>11, PutGoesOn

LEMMA SetEntryWay ==
  ASSUME Sure, Free(Strays)', Clear', SetEntry
  PROVE  WayInv'
<1>1. PICK w \in Writes :
        /\ WriteBlock(loc.at[1], [block[loc.at[1]] EXCEPT ![loc.at[2]] = loc.entry], w)
        /\ pc' = "idle" \/ (w = "done" /\ loc.req.op # "write" /\ StartFlush(loc, "return"))
  BY DEF SetEntry, GiveUp, Return
<1>2. /\ pc = "setEntry" /\ fat' = fat /\ cwd' = cwd /\ block \in [Clusters -> Blocks]
      /\ loc \in Locals /\ CallInv
  BY SureBefore DEF SetEntry, memory
<1>3. CASE pc' = "idle"
  BY <1>3, NoWay
<1>4. CASE w = "done" /\ loc.req.op # "write" /\ StartFlush(loc, "return")
  <2>1. pc' = "flush" /\ SameCall /\ loc'.at = loc.at /\ loc'.then = "return"
    BY <1>2, <1>4 DEF StartFlush, Goto, Locals, SameCall
  <2>2. PICK p, e : p = loc.at /\ e = loc.entry
    OBVIOUS
  <2>3. block' = With(block, p, e) /\ p \in Clusters \X Slots /\ e \in Entries
    BY <1>1, <1>2, <1>4, <2>2 DEF WriteBlock, With, Locals
  <2>4. e.name = Empty
    BY <1>2, <1>4, <2>2 DEF CallInv, Zeroed
  <2>5. At(block', p) = e /\ \A q \in Clusters \X Slots : q # p => At(block', q) = At(block, q)
    BY <1>2, <2>3, WithAt
  <2>6. Poorer(fat, block, fat', block')
    BY <1>2, <2>4, <2>5 DEF Poorer
  <2>7. Taking /\ Taking' /\ At(block', loc.at).name = Empty
    BY <1>2, <1>4, <2>1, <2>2, <2>4, <2>5 DEF Taking, Flushing
  <2>8. QED
    BY <1>2, <2>1, <2>6, <2>7, TakeGoesOn
<1>5. QED
  BY <1>1, <1>3, <1>4

LEMMA StoreWay ==
  ASSUME Sure, Store
  PROVE  WayInv'
<1>1. SUFFICES ASSUME Free(Strays)', Clear' PROVE WayInv'
  BY DEF WayInv
<1>2. CASE AddEntry \/ AddEntryFails \/ AddCluster
  <2>1. pc' = "idle"
    BY <1>2 DEF AddEntry, AddEntryFails, AddCluster, GiveUp, Return
  <2>2. QED
    BY <2>1, NoWay
<1>3. QED
  BY <1>1, <1>2, WriteDataWay, FlushWay, InitDirWay, AddEntryExtendWay, SetEntryWay DEF Store

-------------------------------------------------------------------------------
\* The return.

\* Which steps return success.
LEMMA Returns ==
  ASSUME TypeOK, Step
  PROVE  /\ pc # "idle" /\ (pc' = "idle" \/ ret' = ret)
         /\ ret' = "ok" => ret = "ok" \/ Cd \/ AddEntry \/ AddCluster \/ SetEntry \/ (Flush /\ Flushing("return"))
<1>1. CASE Starting
  BY <1>1 DEF Starting, Boot, FormatSuper, FormatRoot, Load
<1>2. CASE Walk
  BY <1>2 DEF Walk, WalkDot, WalkDown, WalkFails, MissedByWrite, WalkTooLong, Cd, GiveUp, Return, Walking, Running
<1>3. CASE Decide
  <2>1. ASSUME NEW op, Arrived(op) PROVE pc # "idle"
    BY <2>1 DEF Arrived, Running
  <2>2. CASE MkdirRefused \/ TouchRefused \/ WriteRefused \/ WriteOverNoRoom \/ WriteNewNoRoom \/ RemoveRefused
    <3>1. pc # "idle"
      BY <2>1, <2>2 DEF MkdirRefused, TouchRefused, WriteRefused, WriteOverNoRoom, WriteNewNoRoom, RemoveRefused
    <3>2. pc' = "idle" /\ ret' = "failed"
      BY <2>2 DEF MkdirRefused, TouchRefused, WriteRefused, WriteOverNoRoom, WriteNewNoRoom, RemoveRefused, GiveUp, Return
    <3>3. QED
      BY <3>1, <3>2
  <2>3. CASE Mkdir \/ Touch \/ WriteOver \/ WriteNew \/ Rm \/ RmdirEmpty \/ RmdirAll
    BY <2>1, <2>3 DEF Mkdir, Touch, WriteOver, WriteNew, Rm, RmdirEmpty, RmdirAll
  <2>4. QED
    BY <1>3, <2>2, <2>3 DEF Decide
<1>4. CASE Scan
  BY <1>4 DEF Scan, ScanFile, ScanDir, ScanOverrun, ScanFails, ScanWrite, ScanNextCluster, ScanReturn,
              ScanFinish, ScanDone, Scanning, GiveUp, Return
<1>5. CASE Flush
  BY <1>5, FlushCases DEF Flush, Flushing, GiveUp, Return
<1>6. CASE WriteData \/ InitDir \/ AddEntryExtend \/ AddEntryFails
  BY <1>6 DEF WriteData, InitDir, AddEntryExtend, AddEntryFails, GiveUp, Return
<1>7. CASE AddEntry \/ AddCluster \/ SetEntry
  BY <1>7 DEF AddEntry, AddCluster, SetEntry, GiveUp, Return
<1>8. QED
  BY <1>1, <1>2, <1>3, <1>4, <1>5, <1>6, <1>7 DEF Step, Store

LEMMA StepWay ==
  ASSUME Inv, PathInv, SuccInv, [Next]_vars
  PROVE  SuccInv'
<1>1. Inv' /\ TypeInv' /\ SyncInv' /\ SoundInv'
  BY StepSound DEF Inv
<1>2. TypeOK /\ RetInv /\ WayInv
  BY DEF SuccInv, Inv, TypeInv
<1>3. CASE UNCHANGED vars
  <2>1. UNCHANGED <<fat, block, cwd, pc, loc, ret, marks>>
    BY <1>3 DEF vars, disk, memory
  <2>2. /\ (Free(Strays)' <=> Free(Strays)) /\ (Clear' <=> Clear) /\ Seen' = Seen /\ Gone' = Gone
        /\ (Putting' <=> Putting) /\ (Taking' <=> Taking) /\ (Growing' <=> Growing) /\ (Storing' <=> Storing)
        /\ Origin(loc.req)' = Origin(loc.req)
    BY <2>1 DEF Free, Clear, Seen, Grown, Gone, Putting, Taking, Adding, Growing, Storing, Flushing, Origin
  <2>3. (CallInv => CallInv') /\ (PutInv => PutInv') /\ (TakeInv => TakeInv')
    BY <2>1, <2>2 DEF CallInv, PutInv, TakeInv
  <2>4. QED
    BY <1>2, <2>1, <2>2, <2>3 DEF SuccInv, RetInv, WayInv
<1>4. CASE Step
  <2>1. Sure
    BY <1>1, <1>2, <1>4, MarksStay DEF Sure, Given, Inv
  <2>2. WayInv'
    BY <1>4, <2>1, StartingWay, WalkWay, DecideWay, ScanGroupWay, StoreWay DEF Step
  <2>3. RetInv'
    BY <1>2, <1>4, Returns DEF RetInv
  <2>4. QED
    BY <2>2, <2>3 DEF SuccInv
<1>5. CASE Offline \/ \E r \in Requests : CallRoot(r)
  <2>1. pc' = "idle"
    BY <1>5 DEF Offline, CallRoot
  <2>2. QED
    BY <2>1, NoWay DEF SuccInv, RetInv
<1>6. ASSUME NEW r \in Requests, Call(r) PROVE SuccInv'
  <2>1. Sure /\ ret' = "none"
    BY <1>1, <1>2, <1>6 DEF Sure, Given, Inv, Call
  <2>2. QED
    BY <1>6, <2>1, CallWay DEF SuccInv, RetInv
<1>7. CASE Crash
  <2>1. Sure /\ ret' = "none"
    BY <1>1, <1>2, <1>7 DEF Sure, Given, Inv, Crash
  <2>2. QED
    BY <1>7, <2>1, StartingWay DEF SuccInv, RetInv
<1>8. QED
  BY <1>3, <1>4, <1>5, <1>6, <1>7 DEF Next

LEMMA InitWay == Init => SuccInv
<1>1. Init => pc = "off" /\ ret = "none"
  BY DEF Init
<1>2. pc = "off" => ~Putting /\ ~Taking /\ ~Growing
  BY DEF Putting, Taking, Adding, Storing, Growing, Flushing
<1>3. QED
  BY <1>1, <1>2 DEF SuccInv, RetInv, WayInv, CallInv, PutInv, TakeInv

LEMMA WayInvariant == Spec => []SuccInv
<1>1. Inv /\ PathInv /\ SuccInv /\ [Next]_vars => SuccInv'
  BY StepWay
<1>2. QED
  BY <1>1, InitWay, SoundInvariant, PathInvariant, PTL DEF Spec

\* The entry is written to a free slot.
LEMMA AddEntryFinishes ==
  ASSUME Sure, Free(Strays)', Clear', AddEntry, ret' = "ok", NEW r, r = loc.req
  PROVE  Finished(r)'
<1>1. PICK p \in FreeSlot(loc.cur) : block' = [block EXCEPT ![p[1]] = [block[p[1]] EXCEPT ![p[2]] = loc.entry]]
  BY DEF AddEntry, WriteBlock, GiveUp, Return
<1>2. /\ pc = "addEntry" /\ fat' = fat /\ cwd' = cwd /\ block \in [Clusters -> Blocks] /\ fat \in Fats
      /\ loc \in Locals /\ TypeOK
  BY SureBefore DEF AddEntry, memory
<1>3. PICK d : d = loc.cur
  OBVIOUS
<1>4. p \in Chain(fat, d) \X Slots /\ At(block, p).name = Empty
  BY <1>3, FoundPlace DEF FreeSlot, FindEntry
<1>5. p \in Clusters \X Slots
  BY <1>3, FindType DEF FreeSlot
<1>6. PICK e \in Entries : e = loc.entry
  BY <1>2 DEF Locals
<1>7. /\ At(block', p) = loc.entry
      /\ \A q \in Clusters \X Slots : q # p => At(block', q) = At(block, q)
  <2>1. block' = With(block, p, e)
    BY <1>1, <1>6 DEF With
  <2>2. QED
    BY <1>2, <1>5, <1>6, <2>1, WithAt
<1>8. Putting /\ Seen = block
  BY <1>2 DEF Putting, Adding, Seen, Growing, Storing, Flushing
<1>9. ASSUME NEW D, NEW F, NEW dp, Phase(D, F, dp) PROVE D \subseteq Clusters
  BY <1>2, <1>9 DEF Phase, Adding, AddPhase, Resting, Shape, Tree, Ground
<1>10. Grows(fat', block')
  <2>1. ASSUME NEW D, NEW F, NEW dp, Phase(D, F, dp), NEW q \in D \X Slots, At(block, q).name # Empty
        PROVE  At(block', q) = At(block, q)
    BY <1>4, <1>7, <1>9, <2>1
  <2>2. QED
    BY <1>2, <1>8, <2>1 DEF Grows, Richer
<1>11. p \in Chain(fat', loc.cur) \X Slots /\ At(block', p) = loc.entry
  BY <1>2, <1>3, <1>4, <1>7
<1>12. QED
  BY <1>2, <1>8, <1>10, <1>11, PutEnds

\* The entry is written to the new cluster of the directory.
LEMMA AddClusterFinishes ==
  ASSUME Sure, Free(Strays)', Clear', AddCluster, ret' = "ok", NEW r, r = loc.req
  PROVE  Finished(r)'
<1>1. block' = [block EXCEPT ![loc.data] = [ZeroBlock EXCEPT ![1] = loc.entry]]
  BY DEF AddCluster, WriteBlock, GiveUp, Return
<1>2. /\ pc = "addCluster" /\ fat' = fat /\ cwd' = cwd /\ block \in [Clusters -> Blocks]
      /\ fat \in Fats /\ PutInv
  BY SureBefore DEF AddCluster, memory
<1>3. Putting /\ Growing /\ Seen = block'
  BY <1>1, <1>2 DEF Putting, Growing, Seen, Grown
<1>4. PICK c : c = loc.data /\ c \in Chain(fat, loc.cur)
  BY <1>2, <1>3 DEF PutInv
<1>5. c \in Clusters
  <2>1. PICK f, d : f = fat /\ d = loc.cur
    OBVIOUS
  <2>2. f \in Fats /\ c \in Chain(f, d)
    BY <1>2, <1>4, <2>1
  <2>3. CASE d \in Clusters
    BY <2>2, <2>3, ChainProperties
  <2>4. CASE d \notin Clusters
    BY <2>2, <2>4, NoChain
  <2>5. QED
    BY <2>3, <2>4
<1>6. PICK q : q = <<c, 1>>
  OBVIOUS
<1>7. 1 \in Slots
  BY FsAssumption DEF Slots
<1>8. q \in Chain(fat', loc.cur) \X Slots
  BY <1>2, <1>4, <1>6, <1>7
<1>9. At(block', q) = loc.entry
  BY <1>1, <1>2, <1>4, <1>5, <1>6, <1>7 DEF At, ZeroBlock
<1>10. Grows(fat', block')
  BY <1>2, <1>3 DEF Grows, Richer
<1>11. QED
  BY <1>2, <1>3, <1>8, <1>9, <1>10, PutEnds

\* The entry of an overwritten file is written back.
LEMMA SetEntryFinishes ==
  ASSUME Sure, Free(Strays)', Clear', SetEntry, ret = "none", ret' = "ok", NEW r, r = loc.req
  PROVE  Finished(r)'
<1>1. /\ block' = [block EXCEPT ![loc.at[1]] = [block[loc.at[1]] EXCEPT ![loc.at[2]] = loc.entry]]
      /\ loc.req.op = "write"
  BY DEF SetEntry, WriteBlock, GiveUp, Return
<1>2. /\ pc = "setEntry" /\ fat' = fat /\ cwd' = cwd /\ block \in [Clusters -> Blocks]
      /\ loc \in Locals /\ PutInv
  BY SureBefore DEF SetEntry, memory
<1>3. Putting /\ Storing /\ ~Growing
  BY <1>1, <1>2 DEF Putting, Storing, Growing, Flushing
<1>4. PICK p \in Clusters \X Slots, e \in Entries : p = loc.at /\ e = loc.entry
  BY <1>2 DEF Locals
<1>5. block' = With(block, p, e)
  BY <1>1, <1>4 DEF With
<1>6. Seen = block'
  BY <1>3, <1>4, <1>5 DEF Seen
<1>7. At(block', p) = loc.entry
  BY <1>2, <1>4, <1>5, WithAt
<1>8. p \in Chain(fat', loc.cur) \X Slots
  BY <1>2, <1>3, <1>4 DEF PutInv
<1>9. Grows(fat', block')
  BY <1>2, <1>6 DEF Grows, Richer
<1>10. QED
  BY <1>2, <1>3, <1>7, <1>8, <1>9, PutEnds

LEMMA Succeeds ==
  ASSUME Inv, PathInv, SuccInv, [Next]_vars, NEW r \in Requests,
         pc # "idle", loc.req = r, ret' = "ok", Free(Strays \cup {"duplicate"})'
  PROVE  Finished(r)' /\ Settled' /\ Free(Strays)' /\ Clear'
<1>1. Free(Strays)' /\ Clear'
  BY DEF Free, Clear
<1>2. TypeOK /\ RetInv /\ WayInv /\ ret = "none"
  BY DEF SuccInv, Inv, TypeInv, RetInv
<1>3. Step
  <2>1. ~(UNCHANGED vars)
    BY <1>2 DEF vars
  <2>2. ~Offline /\ ~Crash /\ \A q \in Requests : ~Call(q) /\ ~CallRoot(q)
    BY <1>2 DEF Offline, Crash, Call, CallRoot
  <2>3. QED
    BY <2>1, <2>2 DEF Next
<1>4. Sure
  <2>1. Inv'
    BY StepSound
  <2>2. QED
    BY <1>2, <1>3, <2>1, MarksStay DEF Sure, Given, Inv
<1>5. Cd \/ AddEntry \/ AddCluster \/ SetEntry \/ (Flush /\ Flushing("return"))
  BY <1>2, <1>3, Returns
<1>6. Finished(r)'
  <2>1. CASE Cd
    BY <2>1 DEF Cd, Running, Finished
  <2>2. CASE Flush /\ Flushing("return")
    <3>1. UNCHANGED <<fat, block, cwd>>
      BY <2>2 DEF Flush, memory
    <3>2. QED
      BY <1>1, <1>4, <2>2, <3>1, TakeEnds
  <2>3. QED
    BY <1>1, <1>2, <1>4, <1>5, <2>1, <2>2, AddEntryFinishes, AddClusterFinishes, SetEntryFinishes
<1>7. ready' = ready
  BY <1>5 DEF Cd, AddEntry, AddCluster, SetEntry, Flush, memory
<1>8. ready
  <2>1. \/ pc \in {"walk", "data", "initDir", "addEntry", "addCluster", "setEntry", "scan"}
        \/ pc = "flush" /\ loc.then # "formatRoot"
    BY <1>5 DEF Cd, Running, AddEntry, AddCluster, SetEntry, Flushing
  <2>2. QED
    BY <1>1, <1>4, <2>1, TreeNow DEF Sure
<1>9. pc' = "idle"
  BY <1>2, <1>3, Returns
<1>10. QED
  BY <1>1, <1>6, <1>7, <1>8, <1>9 DEF Settled

\* What a call reports is true: when a step returns success for the call r, the entry
\* that fs_mkdir, fs_touch or fs_write_file was asked for is what a walk along its
\* path now finds, with its type and size, and after fs_remove_file or fs_remove_dir
\* the walk finds nothing, whatever was allocated, extended, overwritten or released
\* on the way, unless a mishap or a check that failed to read has been marked.
THEOREM SuccessIsKept == Spec => SuccessKept
<1>1. Inv /\ PathInv => Doings
  BY FinishedDone
<1>2. ASSUME Inv, PathInv, SuccInv, [Next]_vars, Doings', NEW r \in Requests,
             pc # "idle" /\ loc.req = r /\ ret' = "ok" /\ (Free(Strays \cup {"duplicate"}))'
      PROVE  Done(r)'
  BY <1>2, Succeeds DEF Doings
<1>3. Inv /\ PathInv /\ SuccInv /\ [Next]_vars /\ Doings' =>
        [\A r \in Requests :
           pc # "idle" /\ loc.req = r /\ ret' = "ok" /\ (Free(Strays \cup {"duplicate"}))' => Done(r)']_vars
  BY <1>2
<1>4. QED
  BY <1>1, <1>3, SoundInvariant, PathInvariant, WayInvariant, PTL DEF Spec, SuccessKept
===============================================================================
