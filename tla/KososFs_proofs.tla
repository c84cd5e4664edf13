---------------------------- MODULE KososFs_proofs ----------------------------
(***************************************************************************)
(* Proofs about KososFs for every disk size, every set of names, texts and *)
(* calls, and any number of disk faults and power losses.                  *)
(*                                                                         *)
(* First about FatTable: the operations on the table keep it well linked,  *)
(* and free of circles: allocation, extension of a chain, and release of a *)
(* chain from its head.  A release that does not start at a head would     *)
(* leave a link to a free cluster, which is why the file system must never *)
(* hold two entries for one chain.                                         *)
(*                                                                         *)
(* Then about the file system: type correctness (TypeOK), that between     *)
(* commands the FAT on disk is the FAT in memory (FatOnDisk), that every   *)
(* walk along a chain ends (ChainsEnd), and that files and directories are *)
(* a tree: nothing dangles and nothing is cross-linked, in memory between  *)
(* commands (TreeSound) and on disk at every step but the exposed ones     *)
(* (DiskSound), the dot entries agree (DotsAgree) and no cluster is lost   *)
(* (NothingLost), unless one of the mishaps has happened that the          *)
(* properties name.                                                        *)
(*                                                                         *)
(* The argument for the last.  A tree (Tree) is stated without             *)
(* "reachable": there are clusters D of directories and F of files,        *)
(* disjoint and closed under links and entries, at most one link or entry  *)
(* leads to each, and a depth grows along all of them.  What can be        *)
(* reached is a part of D and F, and all of them if something leads to     *)
(* each (Reached).  The inductive invariant (SoundInv) says where the tree *)
(* is: in the middle of an operation it is not the table and the clusters  *)
(* on disk that have it but, for instance, these with the entry that is    *)
(* about to be stored, or with the clusters of which                       *)
(* fs_remove_dir_contents has copies (Phase).                              *)
(***************************************************************************)
EXTENDS KososFs, TLAPS, FiniteSetTheorems, WellFoundedInduction

LEMMA ClusterFacts ==
  /\ Clusters \subseteq Nat /\ Clusters \subseteq Indices
  /\ FREE \notin Clusters /\ EOC \notin Clusters /\ RSVD \notin Clusters
  /\ FREE # EOC
  /\ IsFiniteSet(Clusters)
<1>1. NClusters + 1 \in Nat
  BY ClusterAssumption
<1>2. IsFiniteSet(2..(NClusters + 1))
  BY <1>1, FS_Interval
<1>3. QED
  BY <1>1, <1>2 DEF Clusters, Indices, FREE, EOC, RSVD

\* A set of clusters that is not empty has a least element.
LEMMA LeastExists ==
  ASSUME NEW S \in SUBSET Clusters, S # {}
  PROVE  Least(S) \in S /\ \A d \in S : Least(S) <= d
<1>1. PICK x \in S : \A y \in S : ~(<<y, x>> \in OpToRel(<, Nat))
  <2>1. S \subseteq Nat
    BY ClusterFacts
  <2>2. IsWellFoundedOn(OpToRel(<, Nat), Nat)
    BY NatLessThanWellFounded
  <2>3. QED
    BY <2>1, <2>2, WFMin
<1>2. \A y \in S : x <= y
  <2>1. TAKE y \in S
  <2>2. x \in Nat /\ y \in Nat
    BY ClusterFacts
  <2>3. ~(y < x)
    BY <1>1, <2>2 DEF OpToRel
  <2>4. QED
    BY <2>2, <2>3
<1>3. QED
  BY <1>2 DEF Least

-------------------------------------------------------------------------------
\* The chain of a cluster contains it and is closed under links; a cluster of
\* the chain other than the first is linked from another one.
LEMMA ChainProperties ==
  ASSUME NEW f \in Fats, NEW s \in Clusters
  PROVE  /\ Chain(f, s) \subseteq Clusters
         /\ s \in Chain(f, s)
         /\ ClosedUnderLinks(f, Chain(f, s))
         /\ \A c \in Chain(f, s) : c # s => \E d \in Chain(f, s) : f[d] = c
<1> DEFINE closed == {S \in SUBSET Clusters : s \in S /\ ClosedUnderLinks(f, S)}
<1>1. Chain(f, s) = {c \in Clusters : \A S \in closed : c \in S}
  BY DEF Chain
<1>2. s \in Chain(f, s)
  BY <1>1
<1>3. ClosedUnderLinks(f, Chain(f, s))
  BY <1>1 DEF ClosedUnderLinks
<1>4. ASSUME NEW c \in Chain(f, s), c # s,
             \A d \in Chain(f, s) : f[d] # c
      PROVE  FALSE
  <2> DEFINE T == Chain(f, s) \ {c}
  <2>1. T \in closed
    BY <1>1, <1>2, <1>3, <1>4 DEF ClosedUnderLinks
  <2>2. QED
    BY <1>1, <2>1
<1>5. QED
  BY <1>1, <1>2, <1>3, <1>4

LEMMA FreeChainType ==
  ASSUME NEW f \in Fats, NEW s
  PROVE  FreeChain(f, s) \in Fats
BY DEF FreeChain, Fats

\* fs_free_chain from the head of a chain leaves no link to a free cluster.
THEOREM FreeChainKeepsLinks ==
  ASSUME NEW f \in Fats, WellLinked(f), NEW s \in Clusters, IsHead(f, s)
  PROVE  WellLinked(FreeChain(f, s))
<1> DEFINE g == FreeChain(f, s)
           C == Chain(f, s)
<1>1. \A c \in Clusters : g[c] = IF c \in C THEN FREE ELSE f[c]
  BY ClusterFacts DEF FreeChain
<1>2. LinkedOnce(g)
  BY <1>1, ClusterFacts DEF WellLinked, LinkedOnce
<1>3. LinksInUse(g)
  <2>1. SUFFICES ASSUME NEW c \in Clusters, g[c] \in Clusters
                 PROVE  g[g[c]] # FREE
    BY DEF LinksInUse
  <2>2. c \notin C /\ g[c] = f[c]
    BY <1>1, <2>1, ClusterFacts
  <2>3. f[c] \notin C
    <3>1. SUFFICES ASSUME f[c] \in C PROVE FALSE
      OBVIOUS
    <3>2. f[c] # s
      BY DEF IsHead
    <3>3. PICK d \in C : f[d] = f[c]
      BY <3>1, <3>2, ChainProperties
    <3>4. d = c
      BY <2>1, <2>2, <3>3, ChainProperties DEF WellLinked, LinkedOnce
    <3>5. QED
      BY <2>2, <3>3, <3>4
  <2>4. QED
    BY <1>1, <2>1, <2>2, <2>3 DEF WellLinked, LinksInUse
<1>4. QED
  BY <1>2, <1>3 DEF WellLinked

-------------------------------------------------------------------------------
LEMMA FirstFitFree ==
  ASSUME NEW f \in Fats, NEW n
  PROVE  /\ FirstFit(f, n) \subseteq Clusters
         /\ \A c \in FirstFit(f, n) : f[c] = FREE
BY DEF FirstFit, FreeClusters

\* If there is a free cluster, the first fit finds one.
LEMMA FirstFitNonempty ==
  ASSUME NEW f \in Fats, NEW n \in Nat \ {0}, HasRoom(f, n)
  PROVE  /\ FirstFit(f, n) # {}
         /\ Least(FirstFit(f, n)) \in Clusters
         /\ f[Least(FirstFit(f, n))] = FREE
<1> DEFINE F == FreeClusters(f)
<1>1. F \in SUBSET Clusters
  BY DEF FreeClusters
<1>2. F # {}
  BY FS_EmptySet DEF HasRoom
<1>3. Least(F) \in F /\ \A d \in F : Least(F) <= d
  BY <1>1, <1>2, LeastExists
<1>4. {d \in F : d < Least(F)} = {}
  <2>1. ASSUME NEW d \in F
        PROVE  ~(d < Least(F))
    <3>1. d \in Nat /\ Least(F) \in Nat /\ Least(F) <= d
      BY <1>1, <1>3, ClusterFacts
    <3>2. QED
      BY <3>1
  <2>2. QED
    BY <2>1
<1>5. Cardinality({d \in F : d < Least(F)}) = 0
  BY <1>4, FS_EmptySet
<1>6. Least(F) \in FirstFit(f, n)
  BY <1>3, <1>5 DEF FirstFit
<1>7. QED
  BY <1>6, FirstFitFree, LeastExists

\* What an allocated cluster is linked to: nothing, or the next allocated one.
LEMMA AllocChainLinks ==
  ASSUME NEW f \in Fats, NEW n, NEW c \in Indices
  PROVE  LET S == FirstFit(f, n)
             g == AllocChain(f, n)
         IN  /\ c \notin S => g[c] = f[c]
             /\ c \in S => \/ g[c] = EOC
                           \/ /\ g[c] \in S /\ c < g[c]
                              /\ \A d \in S : c < d => g[c] <= d
<1> DEFINE S == FirstFit(f, n)
           g == AllocChain(f, n)
           later == {d \in S : d > c}
<1>1. g[c] = IF c \notin S THEN f[c] ELSE IF later = {} THEN EOC ELSE Least(later)
  BY DEF AllocChain
<1>2. S \subseteq Clusters
  BY FirstFitFree
<1>3. ASSUME c \in S, later # {}
      PROVE  /\ Least(later) \in S /\ c < Least(later)
             /\ \A d \in S : c < d => Least(later) <= d
  <2>1. later \in SUBSET Clusters
    BY <1>2
  <2>2. Least(later) \in later /\ \A d \in later : Least(later) <= d
    BY <1>3, <2>1, LeastExists
  <2>3. QED
    BY <1>2, <1>3, <2>2, ClusterFacts
<1>4. QED
  BY <1>1, <1>3

LEMMA AllocChainType ==
  ASSUME NEW f \in Fats, NEW n
  PROVE  AllocChain(f, n) \in Fats
<1>1. \A c \in Indices : AllocChain(f, n)[c] \in Clusters \cup {FREE, EOC, RSVD}
  BY AllocChainLinks, FirstFitFree DEF Fats
<1>2. QED
  BY <1>1 DEF AllocChain, Fats

\* Allocation links fresh clusters only, one after the other.
THEOREM AllocChainKeepsLinks ==
  ASSUME NEW f \in Fats, NEW n, WellLinked(f)
  PROVE  WellLinked(AllocChain(f, n))
<1> DEFINE S == FirstFit(f, n)
           g == AllocChain(f, n)
<1>1. \A c \in Clusters :
        /\ c \notin S => g[c] = f[c]
        /\ c \in S => \/ g[c] = EOC
                      \/ /\ g[c] \in S /\ c < g[c]
                         /\ \A d \in S : c < d => g[c] <= d
  BY AllocChainLinks, ClusterFacts
<1>2. /\ S \subseteq Clusters
      /\ \A c \in S : f[c] = FREE
  BY FirstFitFree
<1> HIDE DEF S, g
<1>3. ASSUME NEW c \in Clusters, c \notin S, g[c] \in Clusters
      PROVE  g[c] = f[c] /\ f[c] \in Clusters /\ f[c] \notin S /\ f[f[c]] # FREE
  BY <1>1, <1>2, <1>3 DEF WellLinked, LinksInUse
<1>4. ASSUME NEW c \in Clusters, NEW d \in Clusters, g[c] \in Clusters, g[c] = g[d]
      PROVE  c = d
  <2>1. CASE c \notin S /\ d \notin S
    BY <1>3, <1>4, <2>1 DEF WellLinked, LinkedOnce
  <2>2. CASE c \in S /\ d \in S
    <3>1. /\ g[c] \in S /\ c < g[c] /\ (c < d => g[c] <= d)
          /\ d < g[c] /\ (d < c => g[c] <= c)
      BY <1>1, <1>4, <2>2, ClusterFacts
    <3>2. c \in Nat /\ d \in Nat /\ g[c] \in Nat
      BY <1>4, ClusterFacts
    <3>3. QED
      BY <3>1, <3>2
  <2>3. CASE c \in S /\ d \notin S
    BY <1>1, <1>3, <1>4, <2>3, ClusterFacts
  <2>4. CASE c \notin S /\ d \in S
    BY <1>1, <1>3, <1>4, <2>4, ClusterFacts
  <2>5. QED
    BY <2>1, <2>2, <2>3, <2>4
<1>5. ASSUME NEW c \in Clusters, g[c] \in Clusters
      PROVE  g[g[c]] # FREE
  <2>1. CASE c \in S
    <3>1. g[c] \in S
      BY <1>1, <1>5, <2>1, ClusterFacts
    <3>2. QED
      BY <1>1, <1>2, <3>1, ClusterFacts
  <2>2. CASE c \notin S
    BY <1>1, <1>3, <1>5, <2>2
  <2>3. QED
    BY <2>1, <2>2
<1>6. QED
  BY <1>4, <1>5 DEF WellLinked, LinkedOnce, LinksInUse, g

LEMMA ExtendType ==
  ASSUME NEW f \in Fats, NEW last \in Clusters, NEW c \in Clusters
  PROVE  Extend(f, last, c) \in Fats
BY ClusterFacts DEF Extend, Fats

\* fs_add_entry appends a cluster that nothing links to yet.
THEOREM ExtendKeepsLinks ==
  ASSUME NEW f \in Fats, WellLinked(f),
         NEW last \in Clusters, f[last] = EOC,
         NEW c \in Clusters, c # last, IsHead(f, c)
  PROVE  WellLinked(Extend(f, last, c))
<1> DEFINE g == Extend(f, last, c)
<1>1. \A d \in Clusters : g[d] = IF d = c THEN EOC ELSE IF d = last THEN c ELSE f[d]
  BY ClusterFacts DEF Extend, Fats
<1>2. LinkedOnce(g)
  BY <1>1, ClusterFacts DEF WellLinked, LinkedOnce, IsHead
<1>3. LinksInUse(g)
  BY <1>1, ClusterFacts DEF WellLinked, LinksInUse, IsHead
<1>4. QED
  BY <1>2, <1>3 DEF WellLinked

-------------------------------------------------------------------------------
\* A set of clusters that is not empty has a greatest element.
LEMMA GreatestExists ==
  ASSUME NEW S \in SUBSET Clusters, S # {}
  PROVE  \E m \in S : \A d \in S : d <= m
<1> DEFINE N == NClusters + 1
           T == {n \in Nat : \E c \in S : n = N - c}
<1>1. N \in Nat /\ \A c \in S : c \in Nat /\ N - c \in Nat
  BY ClusterAssumption DEF Clusters
<1> HIDE DEF N
<1>2. T # {} /\ T \subseteq Nat
  BY <1>1
<1>3. IsWellFoundedOn(OpToRel(<, Nat), Nat)
  BY NatLessThanWellFounded
<1>4. PICK x \in T : \A y \in T : ~(<<y, x>> \in OpToRel(<, Nat))
  BY <1>2, <1>3, WFMin
<1>5. PICK m \in S : x = N - m
  BY <1>4
<1>6. ASSUME NEW d \in S PROVE d <= m
  <2>1. PICK y : y = N - d
    OBVIOUS
  <2>2. y \in T /\ y \in Nat /\ x \in Nat
    BY <1>1, <1>2, <2>1
  <2>3. ~(y < x)
    BY <1>4, <2>2 DEF OpToRel
  <2>4. QED
    BY <1>1, <1>5, <2>1, <2>2, <2>3
<1>7. QED
  BY <1>5, <1>6

\* A chain of the new table either leaves the clusters, or has not changed.
LEMMA EndsKept ==
  ASSUME NEW f \in Fats, NEW g \in Fats, Ends(f),
         \A S \in SUBSET Clusters :
           ClosedUnderLinks(g, S) => \/ \E d \in S : g[d] \notin Clusters
                                     \/ \A d \in S : g[d] = f[d]
  PROVE  Ends(g)
<1>1. SUFFICES ASSUME NEW c \in Clusters
               PROVE  \E d \in Chain(g, c) : g[d] \notin Clusters
  BY DEF Ends
<1>2. PICK S : S = Chain(g, c)
  OBVIOUS
<1>3. S \in SUBSET Clusters /\ c \in S /\ ClosedUnderLinks(g, S)
  BY <1>2, ChainProperties
<1>4. CASE \A d \in S : g[d] = f[d]
  <2>1. ClosedUnderLinks(f, S)
    BY <1>3, <1>4 DEF ClosedUnderLinks
  <2>2. Chain(f, c) \subseteq S
    BY <1>3, <2>1 DEF Chain
  <2>3. PICK d \in Chain(f, c) : f[d] \notin Clusters
    BY DEF Ends
  <2>4. QED
    BY <1>2, <1>4, <2>2, <2>3
<1>5. QED
  BY <1>2, <1>3, <1>4

\* fs_free_chain, from wherever it starts, closes no circle.
THEOREM FreeChainKeepsEnds ==
  ASSUME NEW f \in Fats, NEW s, Ends(f)
  PROVE  Ends(FreeChain(f, s))
<1>1. PICK g : g = FreeChain(f, s)
  OBVIOUS
<1>2. g \in Fats
  BY <1>1, FreeChainType
<1>3. \A c \in Clusters : g[c] = IF c \in Chain(f, s) THEN FREE ELSE f[c]
  BY <1>1, ClusterFacts DEF FreeChain
<1>4. ASSUME NEW S \in SUBSET Clusters
      PROVE  (\E d \in S : g[d] \notin Clusters) \/ (\A d \in S : g[d] = f[d])
  BY <1>3, ClusterFacts
<1>5. QED
  BY <1>1, <1>2, <1>4, EndsKept

\* fs_alloc_cluster takes free clusters, in ascending order.  Others may still
\* link to them: no circle can come of it.
THEOREM AllocChainKeepsEnds ==
  ASSUME NEW f \in Fats, NEW n, Ends(f)
  PROVE  Ends(AllocChain(f, n))
<1>1. PICK g, F : g = AllocChain(f, n) /\ F = FirstFit(f, n)
  OBVIOUS
<1>2. g \in Fats /\ F \subseteq Clusters
  BY <1>1, AllocChainType, FirstFitFree
<1>3. \A c \in Clusters : /\ c \notin F => g[c] = f[c]
                          /\ c \in F => g[c] = EOC \/ (g[c] \in F /\ c < g[c])
  BY <1>1, AllocChainLinks, ClusterFacts
<1>4. ASSUME NEW S \in SUBSET Clusters, ClosedUnderLinks(g, S)
      PROVE  (\E d \in S : g[d] \notin Clusters) \/ (\A d \in S : g[d] = f[d])
  <2>1. CASE S \cap F = {}
    BY <1>3, <2>1
  <2>2. CASE S \cap F # {}
    <3>1. PICK m \in S \cap F : \A d \in S \cap F : d <= m
      BY <2>2, GreatestExists
    <3>2. ASSUME g[m] \in Clusters PROVE FALSE
      <4>1. g[m] \in F /\ m < g[m]
        BY <1>3, <3>2, ClusterFacts
      <4>2. g[m] \in S
        BY <1>4, <3>1, <3>2 DEF ClosedUnderLinks
      <4>3. g[m] <= m /\ m \in Nat /\ g[m] \in Nat
        BY <3>1, <3>2, <4>1, <4>2, ClusterFacts
      <4>4. QED
        BY <4>1, <4>3
    <3>3. QED
      BY <3>1, <3>2
  <2>3. QED
    BY <2>1, <2>2
<1>5. QED
  BY <1>1, <1>2, <1>4, EndsKept

\* A directory grows at its end, also where its end is free and is itself the
\* cluster that the allocation has found.
THEOREM ExtendKeepsEnds ==
  ASSUME NEW f \in Fats, NEW last \in Clusters, NEW c \in Clusters, Ends(f)
  PROVE  Ends(Extend(f, last, c))
<1>1. PICK g : g = Extend(f, last, c)
  OBVIOUS
<1>2. g \in Fats
  BY <1>1, ExtendType
<1>3. \A d \in Clusters : g[d] = IF d = c THEN EOC ELSE IF d = last THEN c ELSE f[d]
  BY <1>1, ClusterFacts DEF Extend, Fats
<1>4. ASSUME NEW S \in SUBSET Clusters, ClosedUnderLinks(g, S)
      PROVE  (\E d \in S : g[d] \notin Clusters) \/ (\A d \in S : g[d] = f[d])
  <2>1. CASE c \in S
    BY <1>3, <2>1, ClusterFacts
  <2>2. CASE c \notin S
    <3>1. last \notin S
      BY <1>3, <1>4, <2>2 DEF ClosedUnderLinks
    <3>2. QED
      BY <1>3, <2>2, <3>1
  <2>3. QED
    BY <2>1, <2>2
<1>5. QED
  BY <1>1, <1>2, <1>4, EndsKept

\* The table of fs_format, and the blank one.
LEMMA FormattedEnds == FormattedFat \in Fats /\ ZeroFat \in Fats /\ Ends(FormattedFat) /\ Ends(ZeroFat)
<1>1. ZeroFat \in Fats /\ \A c \in Clusters : ZeroFat[c] \notin Clusters
  BY ClusterFacts DEF ZeroFat, Fats
<1>2. FormattedFat \in Fats /\ \A c \in Clusters : FormattedFat[c] \notin Clusters
  BY ClusterFacts DEF FormattedFat, Fats
<1>3. ASSUME NEW f \in Fats, \A c \in Clusters : f[c] \notin Clusters PROVE Ends(f)
  BY <1>3, ChainProperties DEF Ends
<1>4. QED
  BY <1>1, <1>2, <1>3

-------------------------------------------------------------------------------
\* The clusters of a file's data are counted up to its size.
CountInv == pc = "data" => loc.k \in 0..MaxSize

TypeInv == TypeOK /\ CountInv

-------------------------------------------------------------------------------
\* What the helpers return.

LEMMA NoLocalsType == NoLocals \in Locals
<1>1. NoRequest \in Requests \cup {NoRequest} /\ <<RootCluster, 1>> \in Clusters \X Slots
  BY FsAssumption DEF Slots
<1>2. Zeroed \in Entries
  BY FsAssumption DEF Zeroed, Entries
<1>3. QED
  BY <1>1, <1>2 DEF NoLocals, Locals

\* The fields of a call.
LEMMA RequestFields ==
  ASSUME NEW r \in Requests \cup {NoRequest}
  PROVE  /\ r.path.comps \in Seq(Components)
         /\ r.text \in Texts \cup {Empty}
         /\ r.size \in 0..MaxSize
<1>1. CASE r = NoRequest
  <2>1. r.path.comps = <<>> /\ r.text = Empty /\ r.size = 0
    BY <1>1 DEF NoRequest
  <2>2. <<>> \in Seq(Components) /\ 0 \in 0..MaxSize
    BY FsAssumption
  <2>3. QED
    BY <2>1, <2>2
<1>2. CASE r \in Requests
  BY <1>2, FsAssumption DEF Request, Paths
<1>3. QED
  BY <1>1, <1>2

LEMMA FindType ==
  ASSUME NEW d, NEW names, NEW p \in FirstPlace(d, names)
  PROVE  p \in Clusters \X Slots
BY DEF FirstPlace, Chain

LEMMA EntryType ==
  ASSUME TypeOK, NEW p \in Clusters \X Slots
  PROVE  EntryAt(p) \in Entries
BY DEF TypeOK, Blocks, EntryAt

LEMMA TextBlockType ==
  ASSUME NEW text \in Texts \cup {Empty}, NEW k \in 0..MaxSize
  PROVE  TextBlock(text, k) \in Blocks
BY DEF TextBlock, Blocks, Entries

LEMMA DirBlockType ==
  ASSUME NEW c \in Clusters \cup {NoCluster}, NEW d \in Clusters \cup {NoCluster}
  PROVE  DirBlock(c, d) \in Blocks
<1>1. DirEntry(".", c) \in Entries /\ DirEntry("..", d) \in Entries /\ Zeroed \in Entries
  BY FsAssumption DEF DirEntry, Entries, Dots, Zeroed
<1>2. QED
  BY <1>1 DEF DirBlock, Blocks

\* A fault is spent only while there is one left.
LEMMA SpendType ==
  ASSUME TypeOK
  PROVE  /\ \A ok \in Reads : Spend(ok) => faults' \in 0..MaxFaults
         /\ \A w \in Writes : Spend(w = "done") => faults' \in 0..MaxFaults
<1>1. faults \in 0..MaxFaults /\ (faults > 0 => faults - 1 \in 0..MaxFaults)
  BY FsAssumption DEF TypeOK
<1>2. \A ok \in Reads : ok \/ faults > 0
  <2>1. CASE faults > 0
    BY <2>1
  <2>2. CASE ~(faults > 0)
    BY <2>2, Zenon DEF Reads
  <2>3. QED
    BY <2>1, <2>2
<1>3. \A w \in Writes : w = "done" \/ faults > 0
  BY DEF Writes
<1>4. QED
  BY <1>1, <1>2, <1>3 DEF Spend

LEMMA WriteBlockType ==
  ASSUME TypeOK, NEW c, NEW b \in Blocks, NEW w \in Writes, WriteBlock(c, b, w)
  PROVE  /\ block' \in [Clusters -> Blocks]
         /\ faults' \in 0..MaxFaults
         /\ super' \in BOOLEAN /\ diskFat' \in Fats
<1>1. faults' \in 0..MaxFaults
  BY SpendType DEF WriteBlock
<1>2. QED
  BY <1>1 DEF TypeOK, WriteBlock

LEMMA EntryWritten ==
  ASSUME TypeOK, NEW p \in Clusters \X Slots
  PROVE  [block[p[1]] EXCEPT ![p[2]] = loc.entry] \in Blocks
BY DEF TypeOK, Blocks, Locals

-------------------------------------------------------------------------------
\* Type correctness, one lemma per group of actions.

LEMMA InitType == Init => TypeInv
<1>1. ZeroFat \in Fats /\ ZeroBlock \in Blocks
  BY FsAssumption DEF ZeroFat, Fats, ZeroBlock, Blocks, Zeroed, Entries
<1>2. RootCluster \in Clusters /\ <<>> \in Seq(Names) /\ <<>> \in Seq(Frames)
      /\ MaxFaults \in 0..MaxFaults /\ MaxCrashes \in 0..MaxCrashes
  BY FsAssumption
<1>3. QED
  BY <1>1, <1>2, NoLocalsType DEF Init, TypeInv, TypeOK, CountInv

LEMMA StartingType ==
  ASSUME TypeInv, Starting
  PROVE  TypeInv'
<1> USE DEF TypeInv, TypeOK, CountInv, disk, memory, Goto
<1>1. CASE Boot
  <2>1. FormattedFat \in Fats
    BY DEF FormattedFat, Fats
  <2>2. QED
    BY <1>1, <2>1, SpendType DEF Boot
<1>2. CASE FormatSuper
  <2>1. [loc EXCEPT !.k = 0, !.then = "formatRoot"] \in Locals
    BY DEF Locals
  <2>2. QED
    BY <1>2, <2>1, SpendType DEF FormatSuper, StartFlush, Marks
<1>3. CASE FormatRoot
  <2>1. DirBlock(RootCluster, RootCluster) \in Blocks
    BY DirBlockType, FsAssumption
  <2>2. QED
    BY <1>3, <2>1, WriteBlockType, NoLocalsType DEF FormatRoot, Marks
<1>4. CASE Load
  <2>1. PICK ok \in Reads : Spend(ok) /\ ready' = ok /\ fat' = IF ok THEN diskFat ELSE fat
    BY <1>4 DEF Load
  <2>2. faults' \in 0..MaxFaults
    BY <2>1, SpendType
  <2>3. ready' \in BOOLEAN
    BY <2>1, Zenon DEF Reads
  <2>4. fat' \in Fats
    BY <2>1
  <2>5. QED
    BY <1>4, <2>2, <2>3, <2>4, FsAssumption DEF Load
<1>5. QED
  BY <1>1, <1>2, <1>3, <1>4 DEF Starting

LEMMA StartWalkType ==
  ASSUME TypeOK, NEW r \in Requests \cup {NoRequest}
  PROVE  StartWalk(r) \in Locals
<1> DEFINE cur  == IF r.path.abs THEN RootCluster ELSE cwd
           path == IF r.op \in {"cd", "mkdir"} /\ ~r.path.abs THEN cwdPath ELSE <<>>
<1>1. cur \in Clusters \cup {NoCluster} /\ path \in Seq(Names)
  BY FsAssumption DEF TypeOK
<1>2. r.path.comps \in Seq(Components)
  BY RequestFields
<1> HIDE DEF cur, path
<1>3. [NoLocals EXCEPT !.req = r, !.rest = r.path.comps, !.cur = cur, !.path = path] \in Locals
  BY <1>1, <1>2, NoLocalsType DEF Locals
<1>4. QED
  BY <1>3 DEF StartWalk, cur, path

LEMMA CallType ==
  ASSUME TypeInv, NEW r \in Requests, Call(r) \/ CallRoot(r)
  PROVE  TypeInv'
<1>1. CASE Call(r)
  <2>1. StartWalk(r) \in Locals
    BY StartWalkType DEF TypeInv
  <2>2. QED
    BY <1>1, <2>1 DEF Call, TypeInv, TypeOK, CountInv, disk, memory, Goto
<1>2. CASE CallRoot(r)
  BY <1>2 DEF CallRoot, TypeInv, TypeOK, CountInv, disk, memory
<1>3. QED
  BY <1>1, <1>2

LEMMA CrashType ==
  ASSUME TypeInv, Crash
  PROVE  TypeInv'
<1>1. CrashMarks \subseteq Marks
  BY DEF CrashMarks, Marks
<1>2. ZeroFat \in Fats /\ <<>> \in Seq(Names) /\ <<>> \in Seq(Frames)
  BY DEF ZeroFat, Fats
<1>3. crashes' \in 0..MaxCrashes
  BY FsAssumption DEF Crash, TypeInv, TypeOK
<1>4. QED
  BY <1>1, <1>2, <1>3, NoLocalsType, FsAssumption DEF Crash, TypeInv, TypeOK, CountInv, disk

\* The component at which a walk is.
LEMMA NameType ==
  ASSUME TypeOK, loc.rest # <<>>
  PROVE  Name \in Components /\ Tail(loc.rest) \in Seq(Components)
<1>1. loc.rest \in Seq(Components)
  BY DEF TypeOK, Locals
<1>2. QED
  BY <1>1 DEF Name

LEMMA PathAfterType ==
  ASSUME NEW path \in Seq(Names), NEW n \in Components \ {".", TooLong}
  PROVE  PathAfter(path, n) \in Seq(Names)
<1>1. n # ".." => n \in Names
  BY DEF Components, Dots
<1>2. path # <<>> => SubSeq(path, 1, Len(path) - 1) \in Seq(Names)
  OBVIOUS
<1>3. QED
  BY <1>1, <1>2 DEF PathAfter

LEMMA GiveUpType ==
  ASSUME TypeOK, NEW m \in SUBSET Marks, GiveUp(m)
  PROVE  /\ pc' = "idle" /\ loc' \in Locals
         /\ ret' \in {"none", "ok", "failed"} /\ marks' \subseteq Marks
BY NoLocalsType DEF TypeOK, GiveUp, Return

LEMMA WalkType ==
  ASSUME TypeInv, Walk
  PROVE  TypeInv'
<1> USE DEF TypeInv, TypeOK, CountInv, disk, memory, Goto
<1>1. CASE WalkDot
  <2>1. [loc EXCEPT !.rest = Tail(@)] \in Locals
    BY <1>1, NameType DEF WalkDot, Walking, Locals
  <2>2. QED
    BY <1>1, <2>1 DEF WalkDot, Walking
<1>2. CASE WalkDown
  <2>1. PICK p \in NextHop :
          loc' = [loc EXCEPT !.rest = Tail(@),
                             !.cur  = EntryAt(p).first,
                             !.path = PathAfter(@, Name)]
    BY <1>2 DEF WalkDown
  <2>2. EntryAt(p) \in Entries
    BY FindType, EntryType DEF NextHop, FindEntry
  <2>3. Name \in Components \ {".", TooLong} /\ Tail(loc.rest) \in Seq(Components)
    BY <1>2, NameType DEF WalkDown, Walking
  <2>4. loc.path \in Seq(Names)
    BY DEF Locals
  <2>5. PathAfter(loc.path, Name) \in Seq(Names)
    BY <2>3, <2>4, PathAfterType
  <2>6. EntryAt(p).first \in Clusters \cup {NoCluster}
    BY <2>2 DEF Entries
  <2>7. loc' \in Locals
    BY <2>1, <2>3, <2>5, <2>6 DEF Locals
  <2>8. QED
    BY <1>2, <2>7 DEF WalkDown, Walking
<1>3. CASE WalkFails
  BY <1>3, SpendType, GiveUpType DEF WalkFails
<1>4. CASE MissedByWrite
  <2>1. StartWalk(loc.req) \in Locals
    BY StartWalkType DEF Locals
  <2>2. [StartWalk(loc.req) EXCEPT !.missed = TRUE] \in Locals
    BY <2>1 DEF Locals
  <2>3. faults' \in 0..MaxFaults
    BY <1>4, SpendType DEF MissedByWrite
  <2>4. QED
    BY <1>4, <2>2, <2>3 DEF MissedByWrite, Running
<1>5. CASE WalkTooLong
  BY <1>5, GiveUpType DEF WalkTooLong
<1>6. CASE Cd
  <2>1. cwd' \in Clusters \cup {NoCluster} /\ cwdPath' \in Seq(Names)
    BY <1>6 DEF Cd, Locals
  <2>2. QED
    BY <1>6, <2>1, NoLocalsType DEF Cd, Return
<1>7. QED
  BY <1>1, <1>2, <1>3, <1>4, <1>5, <1>6 DEF Walk

LEMMA StartFlushType ==
  ASSUME NEW l \in Locals,
         NEW label \in {"formatRoot", "initDir", "addEntry", "addCluster", "setEntry", "return"},
         StartFlush(l, label)
  PROVE  pc' = "flush" /\ loc' \in Locals
BY DEF StartFlush, Goto, Locals

\* Storing the entry e is put off until the clusters of the file are written.
LEMMA StartDataType ==
  ASSUME TypeOK, NEW f \in Fats, NEW l \in Locals, NEW e \in Entries,
         l.req.size \in 0..MaxSize, StartData(f, l, e)
  PROVE  /\ fat' \in Fats /\ loc' \in Locals /\ CountInv'
         /\ pc' \in {"data", "flush"}
<1>1. fat' \in Fats
  BY AllocChainType DEF StartData
<1>2. CASE l.req.size = 0
  <2>1. [l EXCEPT !.entry = e] \in Locals /\ StoreStep(l) \in {"setEntry", "addEntry"}
    BY DEF Locals, StoreStep
  <2>2. StartFlush([l EXCEPT !.entry = e], StoreStep(l))
    BY <1>2 DEF StartData
  <2>3. loc' \in Locals /\ pc' = "flush"
    BY <2>1, <2>2, StartFlushType
  <2>4. QED
    BY <1>1, <2>3 DEF CountInv
<1>3. CASE l.req.size # 0
  <2> DEFINE first == Least(FirstFit(f, l.req.size))
  <2>1. l.req.size \in Nat \ {0} /\ 1 \in 0..MaxSize
    BY <1>3, FsAssumption
  <2>2. first \in Clusters
    BY <2>1, FirstFitNonempty DEF StartData
  <2>3. pc' = "data" /\ loc' = AtData(l, e, first)
    BY <1>3 DEF StartData, Goto
  <2> HIDE DEF first
  <2>4. [e EXCEPT !.first = first] \in Entries
    BY <2>2 DEF Entries
  <2>5. AtData(l, e, first) \in Locals /\ AtData(l, e, first).k = 1
    BY <2>2, <2>4 DEF Locals, AtData
  <2>6. QED
    BY <1>1, <2>1, <2>3, <2>5 DEF CountInv
<1>4. QED
  BY <1>2, <1>3

LEMMA PlaceType ==
  ASSUME TypeOK, NEW p \in Places
  PROVE  /\ p \in Clusters \X Slots /\ EntryAt(p) \in Entries
         /\ EntryAt(p).first \in Clusters \cup {NoCluster}
<1>1. p \in Clusters \X Slots
  BY FindType DEF Places, FindEntry
<1>2. QED
  BY <1>1, EntryType DEF Entries

LEMMA UnlinkType ==
  ASSUME TypeOK, NEW l \in Locals, NEW c, Unlink(l, c)
  PROVE  /\ fat' \in Fats /\ loc' \in Locals
         /\ pc' = "setEntry" /\ marks' \subseteq Marks
<1>1. Zeroed \in Entries
  BY FsAssumption DEF Zeroed, Entries
<1>2. [l EXCEPT !.entry = Zeroed] \in Locals
  BY <1>1 DEF Locals
<1>3. QED
  BY <1>2, FreeChainType DEF TypeOK, Unlink, Goto, Forget, Marks

\* The component at which an operation does its work.
LEMMA LastName ==
  ASSUME TypeOK, NEW op, Arrived(op)
  PROVE  Name \in Names \cup Dots
<1>1. loc.rest # <<>>
  <2>1. Len(loc.rest) = 1
    BY DEF Arrived, AtLast
  <2>2. Len(<<>>) = 0
    OBVIOUS
  <2>3. QED
    BY <2>1, <2>2
<1>2. QED
  BY <1>1, NameType DEF Arrived, Components

LEMMA HiddenType ==
  ASSUME TypeOK, NEW ok
  PROVE  Hidden(ok) \subseteq Marks
BY DEF TypeOK, Hidden, Marks

LEMMA FrameType ==
  ASSUME TypeOK, NEW c \in Clusters
  PROVE  Frame(c) \in Frames
BY DEF TypeOK, Frame, Frames

LEMMA DecideType ==
  ASSUME TypeInv, Decide
  PROVE  TypeInv'
<1> USE DEF TypeInv, CountInv, disk, memory
<1>1. CASE MkdirRefused \/ TouchRefused \/ WriteRefused \/ WriteNewNoRoom
  BY <1>1, GiveUpType
  DEF MkdirRefused, TouchRefused, WriteRefused, WriteNewNoRoom, TypeOK
<1>2. CASE Mkdir
  <2> DEFINE new == Least(FirstFit(fat, 1))
  <2>1. new \in Clusters
    BY <1>2, FirstFitNonempty DEF Mkdir, TypeOK
  <2>2. StartFlush([loc EXCEPT !.entry = DirEntry(Name, new)], "initDir")
    BY <1>2 DEF Mkdir
  <2> HIDE DEF new
  <2>3. DirEntry(Name, new) \in Entries
    BY <1>2, <2>1, LastName, FsAssumption DEF Mkdir, DirEntry, Entries
  <2>4. [loc EXCEPT !.entry = DirEntry(Name, new)] \in Locals
    BY <2>3 DEF TypeOK, Locals
  <2>5. pc' = "flush" /\ loc' \in Locals
    BY <2>2, <2>4, StartFlushType
  <2>6. fat' \in Fats
    BY <1>2, AllocChainType DEF Mkdir, TypeOK
  <2>7. faults' \in 0..MaxFaults /\ marks' \subseteq Marks
    BY <1>2, SpendType, HiddenType DEF Mkdir
  <2>8. QED
    BY <1>2, <2>5, <2>6, <2>7 DEF Mkdir, TypeOK
<1>3. CASE Touch
  <2>1. FileEntry(Name, 0, NoCluster) \in Entries
    BY <1>3, LastName, FsAssumption DEF Touch, FileEntry, Entries
  <2>2. [loc EXCEPT !.entry = FileEntry(Name, 0, NoCluster)] \in Locals
    BY <2>1 DEF TypeOK, Locals
  <2>3. faults' \in 0..MaxFaults /\ marks' \subseteq Marks
    BY <1>3, SpendType, HiddenType DEF Touch
  <2>4. QED
    BY <1>3, <2>2, <2>3 DEF Touch, Goto, TypeOK
<1>4. CASE WriteOver
  <2>1. PICK p \in Overwritable :
          StartData(Released(EntryAt(p)), [loc EXCEPT !.found = TRUE, !.at = p],
                    [EntryAt(p) EXCEPT !.size = loc.req.size, !.first = NoCluster])
    BY <1>4 DEF WriteOver
  <2> DEFINE l == [loc EXCEPT !.found = TRUE, !.at = p]
             e == [EntryAt(p) EXCEPT !.size = loc.req.size, !.first = NoCluster]
  <2>2. p \in Clusters \X Slots /\ EntryAt(p) \in Entries
    BY PlaceType DEF Overwritable
  <2>3. loc.req.size \in 0..MaxSize /\ loc \in Locals
    BY RequestFields DEF TypeOK, Locals
  <2>4. l \in Locals /\ l.req.size \in 0..MaxSize
    BY <2>2, <2>3 DEF Locals
  <2>5. e \in Entries
    BY <2>2, <2>3 DEF Entries
  <2>6. Released(EntryAt(p)) \in Fats
    BY FreeChainType DEF Released, TypeOK
  <2> HIDE DEF l, e
  <2>7. fat' \in Fats /\ loc' \in Locals /\ CountInv' /\ pc' \in {"data", "flush"}
    BY <2>1, <2>4, <2>5, <2>6, StartDataType DEF l, e
  <2>8. QED
    BY <1>4, <2>7 DEF WriteOver, TypeOK
<1>5. CASE WriteOverNoRoom
  <2>1. PICK p \in Overwritable :
          /\ fat' = Released(EntryAt(p))
          /\ GiveUp(IF EntryAt(p).first = NoCluster THEN {} ELSE {"dangling"})
    BY <1>5 DEF WriteOverNoRoom
  <2>2. fat' \in Fats
    BY <2>1, FreeChainType DEF Released, TypeOK
  <2>3. QED
    BY <1>5, <2>1, <2>2, GiveUpType DEF WriteOverNoRoom, TypeOK, Marks
<1>6. CASE WriteNew
  <2> DEFINE e == FileEntry(Name, loc.req.size, NoCluster)
  <2>1. loc.req.size \in 0..MaxSize /\ loc \in Locals
    BY RequestFields DEF TypeOK, Locals
  <2>2. e \in Entries
    BY <1>6, <2>1, LastName DEF WriteNew, FileEntry, Entries
  <2>3. fat' \in Fats /\ loc' \in Locals /\ CountInv' /\ pc' \in {"data", "flush"}
    BY <1>6, <2>1, <2>2, StartDataType DEF WriteNew, TypeOK
  <2>4. QED
    BY <1>6, <2>3, HiddenType DEF WriteNew, TypeOK
<1>7. CASE Rm
  <2>1. PICK p \in LookedUp("file") :
          /\ fat' = FreeChain(fat, EntryAt(p).first)
          /\ Goto("setEntry", [loc EXCEPT !.at = p, !.entry = Zeroed])
          /\ marks' = marks \cup Forget(EntryAt(p).first)
    BY <1>7 DEF Rm
  <2>2. p \in Clusters \X Slots
    BY PlaceType DEF LookedUp
  <2>3. Zeroed \in Entries
    BY FsAssumption DEF Zeroed, Entries
  <2>4. [loc EXCEPT !.at = p, !.entry = Zeroed] \in Locals
    BY <2>2, <2>3 DEF TypeOK, Locals
  <2>5. fat' \in Fats /\ marks' \subseteq Marks
    BY <2>1, FreeChainType DEF TypeOK, Forget, Marks
  <2>6. QED
    BY <1>7, <2>1, <2>4, <2>5 DEF Rm, Goto, TypeOK
<1>8. CASE RemoveRefused
  <2>1. faults' \in 0..MaxFaults
    BY <1>8, SpendType DEF RemoveRefused
  <2>2. QED
    BY <1>8, <2>1, GiveUpType DEF RemoveRefused, TypeOK
<1>9. CASE RmdirEmpty
  <2>1. PICK p \in LookedUp("dir") : Unlink([loc EXCEPT !.at = p], EntryAt(p).first)
    BY <1>9 DEF RmdirEmpty
  <2>2. p \in Clusters \X Slots
    BY PlaceType DEF LookedUp
  <2>3. [loc EXCEPT !.at = p] \in Locals
    BY <2>2 DEF TypeOK, Locals
  <2>4. fat' \in Fats /\ loc' \in Locals /\ pc' = "setEntry" /\ marks' \subseteq Marks
    BY <2>1, <2>3, UnlinkType
  <2>5. QED
    BY <1>9, <2>4 DEF RmdirEmpty, TypeOK
<1>10. CASE RmdirAll
  <2>1. PICK p \in LookedUp("dir") :
          /\ EntryAt(p).first \in Clusters
          /\ frames' = <<Frame(EntryAt(p).first)>>
          /\ Goto("scan", [loc EXCEPT !.at = p, !.entry = EntryAt(p)])
    BY <1>10 DEF RmdirAll
  <2>2. p \in Clusters \X Slots /\ EntryAt(p) \in Entries
    BY PlaceType DEF LookedUp
  <2>3. [loc EXCEPT !.at = p, !.entry = EntryAt(p)] \in Locals
    BY <2>2 DEF TypeOK, Locals
  <2>4. Frame(EntryAt(p).first) \in Frames
    BY <2>1, FrameType
  <2>5. frames' \in Seq(Frames)
    BY <2>1, <2>4
  <2>6. QED
    BY <1>10, <2>1, <2>3, <2>5 DEF RmdirAll, Goto, TypeOK
<1>11. QED
  BY <1>1, <1>2, <1>3, <1>4, <1>5, <1>6, <1>7, <1>8, <1>9, <1>10 DEF Decide

LEMMA LongerThanNone ==
  ASSUME NEW S, NEW s \in Seq(S), Len(s) > 0
  PROVE  s # <<>>
OBVIOUS

\* The activations of fs_remove_dir_contents.
LEMMA FramesType ==
  ASSUME TypeOK, frames # <<>>
  PROVE  /\ Top \in Frames /\ Tail(frames) \in Seq(Frames)
         /\ \A t \in Frames : Cleared(t) \in Frames
         /\ \A t \in Frames, s \in Seq(Frames) : <<t>> \o s \in Seq(Frames)
<1>1. frames \in Seq(Frames)
  BY DEF TypeOK
<1>2. Top \in Frames /\ Tail(frames) \in Seq(Frames)
  BY <1>1 DEF Top
<1>3. ASSUME NEW t \in Frames
      PROVE  Cleared(t) \in Frames
  <2> DEFINE i == Least(Pending(t))
  <2>1. Zeroed \in Entries
    BY FsAssumption DEF Zeroed, Entries
  <2> HIDE DEF i
  <2>2. [t EXCEPT !.buf[i] = Zeroed, !.dirty = TRUE] \in Frames
    BY <2>1 DEF Frames, Blocks
  <2>3. QED
    BY <2>2 DEF Cleared, i
<1>4. \A t \in Frames, s \in Seq(Frames) : <<t>> \o s \in Seq(Frames)
  OBVIOUS
<1>5. QED
  BY <1>2, <1>3, <1>4

LEMMA ScanType ==
  ASSUME TypeInv, Scan
  PROVE  TypeInv'
<1> USE DEF TypeInv, CountInv, disk, memory
<1>1. frames # <<>>
  BY DEF Scan, ScanFile, ScanDir, ScanOverrun, ScanFails, ScanWrite, ScanNextCluster,
         ScanReturn, ScanFinish, ScanDone, Scanning
<1>2. /\ Top \in Frames /\ Tail(frames) \in Seq(Frames)
      /\ Top.dir \in Clusters /\ Top.buf \in Blocks
  BY <1>1, FramesType DEF Frames
<1>3. pc = "scan"
  BY DEF Scan, ScanFile, ScanDir, ScanOverrun, ScanFails, ScanWrite, ScanNextCluster,
         ScanReturn, ScanFinish, ScanDone, Scanning
<1>4. \A c : marks \cup Forget(c) \subseteq Marks
  BY DEF TypeOK, Forget, Marks
<1>5. CASE ScanFile
  <2>1. fat' \in Fats /\ marks' \subseteq Marks
    BY <1>4, <1>5, FreeChainType DEF ScanFile, TypeOK
  <2>2. frames' \in Seq(Frames)
    BY <1>1, <1>2, <1>5, FramesType DEF ScanFile
  <2>3. QED
    BY <1>3, <1>5, <2>1, <2>2 DEF ScanFile, TypeOK
<1>6. CASE ScanDir
  <2>1. frames' = <<Frame(ScanEntry.first)>> \o frames /\ ScanEntry.first \in Clusters
    BY <1>6 DEF ScanDir
  <2>2. frames' \in Seq(Frames)
    BY <1>1, <2>1, FrameType, FramesType DEF TypeOK
  <2>3. QED
    BY <1>3, <1>6, <2>2 DEF ScanDir, TypeOK
<1>7. CASE ScanOverrun
  BY <1>7 DEF ScanOverrun, TypeOK
<1>8. CASE ScanFails
  <2>1. faults' \in 0..MaxFaults
    BY <1>8, SpendType DEF ScanFails
  <2>2. <<>> \in Seq(Frames) /\ {"dangling"} \subseteq Marks
    BY DEF Marks
  <2>3. QED
    BY <1>8, <2>1, <2>2, GiveUpType DEF ScanFails, TypeOK
<1>9. CASE ScanWrite
  <2>1. PICK w \in Writes :
          /\ WriteBlock(Top.dir, Top.buf, w)
          /\ IF w = "done"
             THEN /\ frames' = <<[Top EXCEPT !.dirty = FALSE]>> \o Tail(frames)
                  /\ UNCHANGED <<pc, loc, ret, marks>>
             ELSE frames' = <<>> /\ GiveUp({"dangling"})
    BY <1>9 DEF ScanWrite
  <2>2. /\ block' \in [Clusters -> Blocks] /\ faults' \in 0..MaxFaults
        /\ super' \in BOOLEAN /\ diskFat' \in Fats
    BY <1>2, <2>1, WriteBlockType
  <2>3. [Top EXCEPT !.dirty = FALSE] \in Frames
    BY <1>2 DEF Frames
  <2>4. CASE w = "done"
    <3>1. frames' \in Seq(Frames)
      BY <1>1, <1>2, <2>1, <2>3, <2>4, FramesType
    <3>2. QED
      BY <1>3, <1>9, <2>1, <2>2, <2>4, <3>1 DEF ScanWrite, TypeOK
  <2>5. CASE w # "done"
    <3>1. <<>> \in Seq(Frames) /\ {"dangling"} \subseteq Marks
      BY DEF Marks
    <3>2. QED
      BY <1>9, <2>1, <2>2, <2>5, <3>1, GiveUpType DEF ScanWrite, TypeOK
  <2>6. QED
    BY <2>4, <2>5
<1>10. CASE ScanNextCluster
  <2>1. frames' = <<Frame(fat[Top.dir])>> \o Tail(frames) /\ fat[Top.dir] \in Clusters
    BY <1>10 DEF ScanNextCluster
  <2>2. frames' \in Seq(Frames)
    BY <1>1, <1>2, <2>1, FrameType, FramesType
  <2>3. QED
    BY <1>3, <1>10, <2>2 DEF ScanNextCluster, TypeOK
<1>11. CASE ScanReturn
  <2> DEFINE above == Head(Tail(frames))
             sub   == above.buf[Least(Pending(above))]
  <2>1. /\ Len(frames) > 1
        /\ fat' = FreeChain(fat, sub.first)
        /\ marks' = marks \cup Forget(sub.first)
        /\ frames' = <<Cleared(above)>> \o Tail(Tail(frames))
    BY <1>11 DEF ScanReturn
  <2>2. above \in Frames /\ Tail(Tail(frames)) \in Seq(Frames)
    <3>1. frames \in Seq(Frames)
      BY DEF TypeOK
    <3>2. Len(Tail(frames)) > 0
      BY <2>1, <3>1
    <3>3. Tail(frames) # <<>>
      BY <1>2, <3>2, LongerThanNone
    <3>4. QED
      BY <1>2, <3>3
  <2> HIDE DEF above, sub
  <2>3. frames' \in Seq(Frames)
    BY <1>1, <2>1, <2>2, FramesType
  <2>4. fat' \in Fats /\ marks' \subseteq Marks
    BY <1>4, <2>1, FreeChainType DEF TypeOK
  <2>5. QED
    BY <1>3, <1>11, <2>3, <2>4 DEF ScanReturn, TypeOK
<1>12. CASE ScanFinish
  <2>1. fat' \in Fats /\ loc' \in Locals /\ pc' = "setEntry" /\ marks' \subseteq Marks
    BY <1>12, UnlinkType DEF ScanFinish, TypeOK
  <2>2. <<>> \in Seq(Frames)
    OBVIOUS
  <2>3. QED
    BY <1>12, <2>1, <2>2 DEF ScanFinish, TypeOK
<1>13. QED
  BY <1>5, <1>6, <1>7, <1>8, <1>9, <1>10, <1>11, <1>12 DEF Scan

\* The ways in which the write of a FAT sector goes on.
LEMMA FlushCases ==
  ASSUME TypeOK, Flush
  PROVE  \E w \in Writes :
           /\ diskFat' = IF w = "lost" THEN diskFat ELSE FlushSector(loc.k)
           /\ Spend(w = "done")
           /\ \/ w # "done" /\ GiveUp(FlushMarks)
              \/ /\ w = "done" /\ loc.k < LastFatSector
                 /\ Goto("flush", [loc EXCEPT !.k = @ + 1]) /\ UNCHANGED <<ret, marks>>
              \/ /\ w = "done" /\ loc.k >= LastFatSector /\ loc.then = "return"
                 /\ Return("ok") /\ UNCHANGED marks
              \/ /\ w = "done" /\ loc.k >= LastFatSector /\ loc.then # "return"
                 /\ Goto(loc.then, loc) /\ UNCHANGED <<ret, marks>>
<1>1. loc.k \in Nat /\ LastFatSector \in Int
  BY ClusterAssumption, FsAssumption DEF TypeOK, Locals, LastFatSector
<1>2. QED
  BY <1>1 DEF Flush

LEMMA StoreType ==
  ASSUME TypeInv, Store
  PROVE  TypeInv'
<1> USE DEF TypeInv, CountInv, disk, memory
<1>1. loc \in Locals /\ loc.entry \in Entries /\ loc.k \in Nat
      /\ loc.cur \in Clusters \cup {NoCluster} /\ loc.at \in Clusters \X Slots
      /\ loc.then \in {"formatRoot", "initDir", "addEntry", "addCluster", "setEntry", "return"}
  BY DEF TypeOK, Locals
<1>2. /\ {"dangling", "torn"} \subseteq Marks /\ {"leak"} \subseteq Marks
      /\ FlushMarks \subseteq Marks /\ Unowned \subseteq Marks
      /\ \A w : /\ Unless(w, Unowned) \subseteq Marks
               /\ Unless(w, {"stale"} \cup Unowned) \subseteq Marks
               /\ Unless(w, {"dangling"}) \cup {"leak"} \subseteq Marks
  BY DEF Marks, FlushMarks, Unowned, Unless
<1>3. CASE WriteData
  <2>1. PICK w \in Writes :
          /\ WriteBlock(loc.data, TextBlock(loc.req.text, loc.k), w)
          /\ IF w # "done"
             THEN GiveUp(IF loc.found THEN {"dangling", "torn"} ELSE {"leak"})
             ELSE /\ IF loc.k < loc.req.size /\ fat[loc.data] \in Clusters
                     THEN Goto("data", [loc EXCEPT !.data = fat[@], !.k = @ + 1])
                     ELSE StartFlush(loc, StoreStep(loc))
                  /\ UNCHANGED <<ret, marks>>
    BY <1>3 DEF WriteData
  <2>2. /\ loc.k \in 0..MaxSize /\ loc.req.text \in Texts \cup {Empty}
        /\ loc.req.size \in 0..MaxSize
    BY <1>1, <1>3, RequestFields DEF WriteData, Locals
  <2>3. /\ block' \in [Clusters -> Blocks] /\ faults' \in 0..MaxFaults
        /\ super' \in BOOLEAN /\ diskFat' \in Fats
    BY <2>1, <2>2, TextBlockType, WriteBlockType
  <2>4. CASE w # "done"
    BY <1>2, <1>3, <2>1, <2>3, <2>4, GiveUpType DEF WriteData, TypeOK
  <2>5. CASE w = "done" /\ loc.k < loc.req.size /\ fat[loc.data] \in Clusters
    <3>1. pc' = "data" /\ loc' = [loc EXCEPT !.data = fat[loc.data], !.k = loc.k + 1]
      BY <2>1, <2>5 DEF Goto
    <3>2. loc.k + 1 \in 0..MaxSize /\ loc.k + 1 \in Nat
      BY <2>2, <2>5, FsAssumption
    <3>3. loc' \in Locals /\ loc'.k \in 0..MaxSize
      BY <1>1, <2>5, <3>1, <3>2 DEF Locals
    <3>4. QED
      BY <1>3, <2>1, <2>3, <2>5, <3>1, <3>3 DEF WriteData, TypeOK
  <2>6. CASE w = "done" /\ ~(loc.k < loc.req.size /\ fat[loc.data] \in Clusters)
    <3>1. StoreStep(loc) \in {"setEntry", "addEntry"}
      BY DEF StoreStep
    <3>2. pc' = "flush" /\ loc' \in Locals
      BY <1>1, <2>1, <2>6, <3>1, StartFlushType
    <3>3. QED
      BY <1>3, <2>1, <2>3, <2>6, <3>2 DEF WriteData, TypeOK
  <2>7. QED
    BY <2>4, <2>5, <2>6
<1>4. CASE Flush
  <2>1. PICK w \in Writes :
          /\ diskFat' = IF w = "lost" THEN diskFat ELSE FlushSector(loc.k)
          /\ Spend(w = "done")
          /\ \/ w # "done" /\ GiveUp(FlushMarks)
             \/ /\ w = "done" /\ loc.k < LastFatSector
                /\ Goto("flush", [loc EXCEPT !.k = @ + 1]) /\ UNCHANGED <<ret, marks>>
             \/ w = "done" /\ loc.then = "return" /\ Return("ok") /\ UNCHANGED marks
             \/ /\ w = "done" /\ loc.then # "return"
                /\ Goto(loc.then, loc) /\ UNCHANGED <<ret, marks>>
    BY <1>4, FlushCases
  <2>2. diskFat' \in Fats /\ faults' \in 0..MaxFaults
    BY <2>1, SpendType DEF FlushSector, TypeOK, Fats
  <2>3. CASE w # "done" /\ GiveUp(FlushMarks)
    BY <1>2, <1>4, <2>2, <2>3, GiveUpType DEF Flush, TypeOK
  <2>4. CASE Goto("flush", [loc EXCEPT !.k = @ + 1]) /\ UNCHANGED <<ret, marks>>
    <3>1. loc' = [loc EXCEPT !.k = loc.k + 1] /\ pc' = "flush"
      BY <2>4 DEF Goto
    <3>2. loc.k + 1 \in Nat
      BY <1>1
    <3>3. loc' \in Locals
      BY <1>1, <3>1, <3>2 DEF Locals
    <3>4. QED
      BY <1>4, <2>2, <2>4, <3>1, <3>3 DEF Flush, TypeOK
  <2>5. CASE Return("ok") /\ UNCHANGED marks
    BY <1>4, <2>2, <2>5, NoLocalsType DEF Return, Flush, TypeOK
  <2>6. CASE loc.then # "return" /\ Goto(loc.then, loc) /\ UNCHANGED <<ret, marks>>
    BY <1>1, <1>4, <2>2, <2>6 DEF Goto, Flush, TypeOK
  <2>7. QED
    BY <2>1, <2>3, <2>4, <2>5, <2>6
<1>5. CASE InitDir
  <2>1. PICK w \in Writes :
          /\ WriteBlock(loc.entry.first, DirBlock(loc.entry.first, loc.cur), w)
          /\ IF w = "done" THEN Goto("addEntry", loc) /\ UNCHANGED <<ret, marks>>
                           ELSE GiveUp({"leak"})
    BY <1>5 DEF InitDir
  <2>2. DirBlock(loc.entry.first, loc.cur) \in Blocks
    BY <1>1, DirBlockType DEF Entries
  <2>3. /\ block' \in [Clusters -> Blocks] /\ faults' \in 0..MaxFaults
        /\ super' \in BOOLEAN /\ diskFat' \in Fats
    BY <2>1, <2>2, WriteBlockType
  <2>4. QED
    BY <1>2, <1>5, <2>1, <2>3, GiveUpType DEF InitDir, Goto, TypeOK
<1>6. CASE AddEntry
  <2>1. PICK p \in FreeSlot(loc.cur), w \in Writes :
          /\ WriteBlock(p[1], [block[p[1]] EXCEPT ![p[2]] = loc.entry], w)
          /\ IF w = "done" THEN Return("ok") /\ UNCHANGED marks
                           ELSE GiveUp(Unless(w, Unowned))
    BY <1>6 DEF AddEntry
  <2>2. p \in Clusters \X Slots
    BY FindType DEF FreeSlot
  <2>3. /\ block' \in [Clusters -> Blocks] /\ faults' \in 0..MaxFaults
        /\ super' \in BOOLEAN /\ diskFat' \in Fats
    BY <2>1, <2>2, EntryWritten, WriteBlockType
  <2>4. QED
    BY <1>2, <1>6, <2>1, <2>3, GiveUpType, NoLocalsType DEF AddEntry, Return, TypeOK
<1>7. CASE AddEntryExtend
  <2> DEFINE new == Least(FirstFit(fat, 1))
  <2>1. /\ HasRoom(fat, 1) /\ StartFlush([loc EXCEPT !.data = new], "addCluster")
        /\ fat' = Extend(AllocChain(fat, 1), Last(fat, loc.cur), new)
    BY <1>7 DEF AddEntryExtend
  <2>2. new \in Clusters
    BY <2>1, FirstFitNonempty DEF TypeOK
  <2> HIDE DEF new
  <2>3. AllocChain(fat, 1) \in Fats
    BY AllocChainType DEF TypeOK
  <2>4. fat' \in Fats
    BY <2>1, <2>2, <2>3, FsAssumption DEF Extend, Fats
  <2>5. [loc EXCEPT !.data = new] \in Locals
    BY <1>1, <2>2 DEF Locals
  <2>6. pc' = "flush" /\ loc' \in Locals
    BY <2>1, <2>5, StartFlushType
  <2>7. QED
    BY <1>7, <2>4, <2>6 DEF AddEntryExtend, TypeOK
<1>8. CASE AddEntryFails
  <2>1. faults' \in 0..MaxFaults
    BY <1>8, SpendType DEF AddEntryFails
  <2>2. QED
    BY <1>2, <1>8, <2>1, GiveUpType DEF AddEntryFails, TypeOK
<1>9. CASE AddCluster
  <2>1. PICK w \in Writes :
          /\ WriteBlock(loc.data, [ZeroBlock EXCEPT ![1] = loc.entry], w)
          /\ IF w = "done" THEN Return("ok") /\ UNCHANGED marks
                           ELSE GiveUp(Unless(w, {"stale"} \cup Unowned))
    BY <1>9 DEF AddCluster
  <2>2. [ZeroBlock EXCEPT ![1] = loc.entry] \in Blocks
    <3>1. ZeroBlock \in Blocks
      BY FsAssumption DEF ZeroBlock, Blocks, Zeroed, Entries
    <3>2. QED
      BY <1>1, <3>1 DEF Blocks
  <2>3. /\ block' \in [Clusters -> Blocks] /\ faults' \in 0..MaxFaults
        /\ super' \in BOOLEAN /\ diskFat' \in Fats
    BY <2>1, <2>2, WriteBlockType
  <2>4. QED
    BY <1>2, <1>9, <2>1, <2>3, GiveUpType, NoLocalsType DEF AddCluster, Return, TypeOK
<1>10. CASE SetEntry
  <2>1. PICK w \in Writes :
          /\ WriteBlock(loc.at[1], [block[loc.at[1]] EXCEPT ![loc.at[2]] = loc.entry], w)
          /\ IF w # "done" THEN GiveUp(Unless(w, {"dangling"}) \cup {"leak"})
             ELSE IF loc.req.op = "write" THEN Return("ok") /\ UNCHANGED marks
             ELSE StartFlush(loc, "return") /\ UNCHANGED <<ret, marks>>
    BY <1>10 DEF SetEntry
  <2>2. /\ block' \in [Clusters -> Blocks] /\ faults' \in 0..MaxFaults
        /\ super' \in BOOLEAN /\ diskFat' \in Fats
    BY <1>1, <2>1, EntryWritten, WriteBlockType
  <2>3. CASE w # "done"
    BY <1>2, <1>10, <2>1, <2>2, <2>3, GiveUpType DEF SetEntry, TypeOK
  <2>4. CASE w = "done" /\ loc.req.op = "write"
    BY <1>10, <2>1, <2>2, <2>4, NoLocalsType DEF SetEntry, Return, TypeOK
  <2>5. CASE w = "done" /\ loc.req.op # "write"
    BY <1>1, <1>10, <2>1, <2>2, <2>5, StartFlushType DEF SetEntry, TypeOK
  <2>6. QED
    BY <2>3, <2>4, <2>5
<1>11. QED
  BY <1>3, <1>4, <1>5, <1>6, <1>7, <1>8, <1>9, <1>10 DEF Store

\* Every step keeps every variable in its range.
LEMMA StepType ==
  ASSUME TypeInv, [Next]_vars
  PROVE  TypeInv'
<1>1. CASE Step
  BY <1>1, StartingType, WalkType, DecideType, ScanType, StoreType DEF Step
<1>2. CASE (\E r \in Requests : Call(r) \/ CallRoot(r))
  BY <1>2, CallType
<1>3. CASE Offline
  BY <1>3 DEF Offline, TypeInv, TypeOK, CountInv, disk, memory
<1>4. CASE Crash
  BY <1>4, CrashType
<1>5. CASE UNCHANGED vars
  BY <1>5 DEF vars, disk, memory, TypeInv, TypeOK, CountInv
<1>6. QED
  BY <1>1, <1>2, <1>3, <1>4, <1>5 DEF Next

\* Every variable keeps its range in every behaviour: the operations of fs.c
\* never store a link, an entry or a cluster number outside the tables.
THEOREM TypeCorrect == Spec => []TypeOK
<1>1. TypeInv /\ [Next]_vars => TypeInv'
  BY StepType
<1>2. TypeInv => TypeOK
  BY DEF TypeInv
<1>3. QED
  BY InitType, <1>1, <1>2, PTL DEF Spec

-------------------------------------------------------------------------------
\* The FAT on disk follows the FAT in memory.

Lost == {"leak", "dangling", "stale"}

\* At these steps the whole table has been written, or has not changed yet.
Synced ==
  \/ pc \in {"idle", "walk", "initDir", "addEntry", "addCluster"}
  \/ pc = "setEntry" /\ loc.req.op = "write"

\* In a flush the two tables agree in the sectors that are behind it.
FlushedSoFar == \A c \in Indices : c \div FatPerSector < loc.k => diskFat[c] = fat[c]

FollowInv == ready /\ Free(Lost) =>
  /\ Synced => diskFat = fat
  /\ pc = "flush" => FlushedSoFar

\* The file system is offline until fs_init is through.
OfflineInv ==
  pc \in {"off", "formatSuper", "formatRoot"} \/ Flushing("formatRoot") => ~ready

\* Only fs_remove_dir gets to fs_remove_dir_contents.
ScanInv == pc = "scan" => loc.req.op = "rmdir"

SyncInv == FollowInv /\ OfflineInv /\ ScanInv

\* The last sector of the FAT is the one with the last link.
LEMMA SectorBound ==
  ASSUME NEW c \in Indices
  PROVE  c \div FatPerSector \in Nat /\ c \div FatPerSector <= LastFatSector
<1> DEFINE F == FatPerSector
           N == NClusters + 1
<1>1. F \in Nat /\ F > 0 /\ N \in Nat /\ c \in Nat /\ c <= N
  BY FsAssumption, ClusterAssumption DEF Indices
<1> HIDE DEF F, N
<1>2. /\ c \div F \in Nat /\ N \div F \in Int
      /\ F * (c \div F) <= c /\ N < F * (N \div F) + F
  BY <1>1
<1>3. ASSUME c \div F > N \div F
      PROVE  FALSE
  <2>1. c \div F >= (N \div F) + 1
    BY <1>2, <1>3
  <2>2. F * (c \div F) >= F * ((N \div F) + 1)
    BY <1>1, <1>2, <2>1
  <2>3. F * ((N \div F) + 1) = F * (N \div F) + F
    BY <1>1, <1>2
  <2>4. QED
    BY <1>1, <1>2, <2>2, <2>3
<1>4. QED
  BY <1>2, <1>3 DEF LastFatSector, F, N

\* The steps of an operation that do not touch either table.
LEMMA SyncedKept ==
  ASSUME SyncInv, Synced, Synced', UNCHANGED <<ready, fat, diskFat>>, marks \subseteq marks'
  PROVE  SyncInv'
BY DEF SyncInv, FollowInv, OfflineInv, ScanInv, Synced, Flushing, Free

\* The steps after which the tables may differ.
LEMMA NotSynced ==
  ASSUME \/ pc' \in {"data", "halted"}
         \/ pc' = "setEntry" /\ loc'.req.op # "write"
         \/ pc' = "scan" /\ loc'.req.op = "rmdir"
  PROVE  SyncInv'
BY DEF SyncInv, FollowInv, OfflineInv, ScanInv, Synced, Flushing

\* A flush begins with no sector behind it.
LEMMA FlushStarts ==
  ASSUME NEW l \in Locals, NEW label \in {"initDir", "addEntry", "addCluster", "setEntry", "return"},
         StartFlush(l, label)
  PROVE  SyncInv'
<1>1. pc' = "flush" /\ loc'.k = 0 /\ loc'.then = label
  BY DEF StartFlush, Goto, Locals
<1>2. FlushedSoFar'
  BY <1>1, SectorBound DEF FlushedSoFar
<1>3. QED
  BY <1>1, <1>2 DEF SyncInv, FollowInv, OfflineInv, ScanInv, Synced, Flushing

\* An operation that gives up with the tables apart says so.
LEMMA Abandoned ==
  ASSUME NEW m \in SUBSET Marks, GiveUp(m), m \cap Lost # {}
  PROVE  SyncInv'
BY DEF GiveUp, Return, SyncInv, FollowInv, OfflineInv, ScanInv, Flushing, Free

\* Nothing is promised of a file system that is offline.
LEMMA NotReady ==
  ASSUME ~ready', pc' # "scan"
  PROVE  SyncInv'
BY DEF SyncInv, FollowInv, OfflineInv, ScanInv

LEMMA StartingSync ==
  ASSUME TypeInv, SyncInv, Starting
  PROVE  SyncInv'
<1>1. CASE Boot
  <2>1. ~ready /\ ready' = ready /\ pc' # "scan"
    BY <1>1 DEF Boot, SyncInv, OfflineInv
  <2>2. QED
    BY <2>1, NotReady
<1>2. CASE FormatSuper
  <2>1. ~ready /\ ready' = ready /\ pc' # "scan"
    BY <1>2 DEF FormatSuper, SyncInv, OfflineInv, memory, StartFlush, Goto
  <2>2. QED
    BY <2>1, NotReady
<1>3. CASE FormatRoot
  <2>1. ~ready /\ ready' = ready /\ pc' # "scan"
    BY <1>3 DEF FormatRoot, SyncInv, OfflineInv, memory, Goto
  <2>2. QED
    BY <2>1, NotReady
<1>4. CASE Load
  <2>1. pc' = "idle" /\ (ready' => fat' = diskFat) /\ diskFat' = diskFat
    BY <1>4 DEF Load, disk
  <2>2. QED
    BY <2>1 DEF SyncInv, FollowInv, OfflineInv, ScanInv, Flushing
<1>5. QED
  BY <1>1, <1>2, <1>3, <1>4 DEF Starting

LEMMA CallSync ==
  ASSUME SyncInv, Offline \/ \E r \in Requests : Call(r) \/ CallRoot(r)
  PROVE  SyncInv'
BY SyncedKept DEF Call, CallRoot, Offline, Synced, Goto, memory, disk

LEMMA WalkSync ==
  ASSUME SyncInv, Walk
  PROVE  SyncInv'
<1>1. pc = "walk" /\ pc' \in {"walk", "idle"} /\ UNCHANGED <<ready, fat, diskFat>>
      /\ marks \subseteq marks'
  BY DEF Walk, WalkDot, WalkDown, WalkFails, MissedByWrite, WalkTooLong, Cd, Walking, Running,
         Goto, GiveUp, Return, memory, disk
<1>2. QED
  BY <1>1, SyncedKept DEF Synced

LEMMA StartDataSync ==
  ASSUME TypeOK, NEW f, NEW l \in Locals, NEW e \in Entries, StartData(f, l, e)
  PROVE  SyncInv'
<1>1. CASE StartFlush([l EXCEPT !.entry = e], StoreStep(l))
  <2>1. [l EXCEPT !.entry = e] \in Locals /\ StoreStep(l) \in {"setEntry", "addEntry"}
    BY DEF Locals, StoreStep
  <2>2. QED
    BY <1>1, <2>1, FlushStarts
<1>2. CASE Goto("data", AtData(l, e, Least(FirstFit(f, l.req.size))))
  BY <1>2, NotSynced DEF Goto
<1>3. QED
  BY <1>1, <1>2 DEF StartData

\* Releasing no chain leaves the table as it is.
LEMMA ReleaseNothing == TypeOK => FreeChain(fat, NoCluster) = fat
<1>1. NoCluster \notin Clusters
  BY DEF NoCluster, Clusters
<1>2. \A c : c \notin Chain(fat, NoCluster)
  BY <1>1 DEF Chain
<1>3. QED
  BY <1>2 DEF TypeOK, Fats, FreeChain

LEMMA DecideSync ==
  ASSUME TypeInv, SyncInv, Decide
  PROVE  SyncInv'
<1> USE DEF TypeInv
<1>1. pc = "walk" /\ loc \in Locals /\ Synced
  BY DEF Decide, MkdirRefused, Mkdir, TouchRefused, Touch, WriteRefused, WriteOver,
         WriteOverNoRoom, WriteNew, WriteNewNoRoom, Rm, RemoveRefused, RmdirEmpty, RmdirAll,
         Arrived, Running, Synced, TypeOK
<1>2. CASE MkdirRefused \/ TouchRefused \/ WriteRefused \/ WriteNewNoRoom \/ RemoveRefused
  BY <1>1, <1>2, SyncedKept
  DEF MkdirRefused, TouchRefused, WriteRefused, WriteNewNoRoom, RemoveRefused,
      GiveUp, Return, Synced, memory, disk
<1>3. CASE Touch
  BY <1>1, <1>3, SyncedKept DEF Touch, Goto, Hidden, Synced, memory, disk
<1>4. CASE Mkdir
  <2> DEFINE new == Least(FirstFit(fat, 1))
  <2>1. new \in Clusters
    BY <1>4, FirstFitNonempty DEF Mkdir, TypeOK
  <2>2. StartFlush([loc EXCEPT !.entry = DirEntry(Name, new)], "initDir")
    BY <1>4 DEF Mkdir
  <2> HIDE DEF new
  <2>3. DirEntry(Name, new) \in Entries
    BY <1>4, <2>1, LastName, FsAssumption DEF Mkdir, DirEntry, Entries
  <2>4. [loc EXCEPT !.entry = DirEntry(Name, new)] \in Locals
    BY <1>1, <2>3 DEF Locals
  <2>5. QED
    BY <2>2, <2>4, FlushStarts
<1>5. CASE WriteOver
  <2>1. PICK p \in Overwritable :
          StartData(Released(EntryAt(p)), [loc EXCEPT !.found = TRUE, !.at = p],
                    [EntryAt(p) EXCEPT !.size = loc.req.size, !.first = NoCluster])
    BY <1>5 DEF WriteOver
  <2>2. p \in Clusters \X Slots /\ EntryAt(p) \in Entries
    BY PlaceType DEF Overwritable
  <2>3. loc.req.size \in 0..MaxSize
    BY <1>1, RequestFields DEF Locals
  <2>4. [loc EXCEPT !.found = TRUE, !.at = p] \in Locals
    BY <1>1, <2>2 DEF Locals
  <2>5. [EntryAt(p) EXCEPT !.size = loc.req.size, !.first = NoCluster] \in Entries
    BY <2>2, <2>3 DEF Entries
  <2>6. QED
    BY <2>1, <2>4, <2>5, StartDataSync
<1>6. CASE WriteOverNoRoom
  <2>1. PICK p \in Overwritable :
          /\ fat' = Released(EntryAt(p))
          /\ GiveUp(IF EntryAt(p).first = NoCluster THEN {} ELSE {"dangling"})
    BY <1>6 DEF WriteOverNoRoom
  <2>2. CASE EntryAt(p).first = NoCluster
    <3>1. fat' = fat
      BY <2>1, <2>2, ReleaseNothing DEF Released
    <3>2. QED
      BY <1>1, <1>6, <2>1, <3>1, SyncedKept
      DEF WriteOverNoRoom, GiveUp, Return, Synced, disk
  <2>3. CASE EntryAt(p).first # NoCluster
    BY <2>1, <2>3, Abandoned DEF Marks, Lost
  <2>4. QED
    BY <2>2, <2>3
<1>7. CASE WriteNew
  <2>1. loc.req.size \in 0..MaxSize
    BY <1>1, RequestFields DEF Locals
  <2>2. FileEntry(Name, loc.req.size, NoCluster) \in Entries
    BY <1>7, <2>1, LastName DEF WriteNew, FileEntry, Entries
  <2>3. QED
    BY <1>1, <1>7, <2>2, StartDataSync DEF WriteNew
<1>8. CASE Rm
  BY <1>8, NotSynced, <1>1 DEF Rm, Goto, Arrived, Running, Locals
<1>9. CASE RmdirEmpty
  <2>1. PICK p : Unlink([loc EXCEPT !.at = p], EntryAt(p).first)
    BY <1>9 DEF RmdirEmpty
  <2>2. pc' = "setEntry" /\ loc'.req = loc.req
    BY <1>1, <2>1 DEF Unlink, Goto, Locals
  <2>3. QED
    BY <1>9, <2>2, NotSynced DEF RmdirEmpty, Arrived, Running
<1>10. CASE RmdirAll
  <2>1. pc' = "scan" /\ loc'.req = loc.req
    BY <1>1, <1>10 DEF RmdirAll, Goto, Locals
  <2>2. QED
    BY <1>10, <2>1, NotSynced DEF RmdirAll, Arrived, Running
<1>11. QED
  BY <1>2, <1>3, <1>4, <1>5, <1>6, <1>7, <1>8, <1>9, <1>10 DEF Decide

LEMMA ScanSync ==
  ASSUME TypeInv, SyncInv, Scan
  PROVE  SyncInv'
<1>1. pc = "scan" /\ loc \in Locals /\ loc.req.op = "rmdir"
  BY DEF Scan, ScanFile, ScanDir, ScanOverrun, ScanFails, ScanWrite, ScanNextCluster,
         ScanReturn, ScanFinish, ScanDone, Scanning, SyncInv, ScanInv, TypeInv, TypeOK
<1>2. CASE ScanFile \/ ScanDir \/ ScanNextCluster \/ ScanReturn
  <2>1. pc' = "scan" /\ loc' = loc
    BY <1>1, <1>2 DEF ScanFile, ScanDir, ScanNextCluster, ScanReturn
  <2>2. QED
    BY <1>1, <2>1, NotSynced
<1>3. CASE ScanOverrun
  BY <1>3, NotSynced DEF ScanOverrun
<1>4. CASE ScanFails
  BY <1>4, Abandoned DEF ScanFails, Marks, Lost
<1>5. CASE ScanWrite
  <2>1. \/ pc' = "scan" /\ loc' = loc
        \/ GiveUp({"dangling"})
    BY <1>1, <1>5, Zenon DEF ScanWrite
  <2>2. QED
    BY <1>1, <2>1, NotSynced, Abandoned DEF Marks, Lost
<1>6. CASE ScanFinish
  <2>1. pc' = "setEntry" /\ loc'.req = loc.req
    BY <1>1, <1>6 DEF ScanFinish, Unlink, Goto, Locals
  <2>2. QED
    BY <1>1, <2>1, NotSynced
<1>7. QED
  BY <1>2, <1>3, <1>4, <1>5, <1>6 DEF Scan

\* Once the last sector is written, or the flush has failed, nothing is open.
LEMMA FlushSync ==
  ASSUME TypeOK, SyncInv, Flush
  PROVE  SyncInv'
<1>1. /\ pc = "flush" /\ loc \in Locals /\ loc.k \in Nat
      /\ loc.then \in {"formatRoot", "initDir", "addEntry", "addCluster", "setEntry", "return"}
      /\ ready' = ready /\ fat' = fat
  BY DEF TypeOK, Locals, Flush, memory
<1>2. PICK w \in Writes :
        /\ diskFat' = IF w = "lost" THEN diskFat ELSE FlushSector(loc.k)
        /\ Spend(w = "done")
        /\ \/ w # "done" /\ GiveUp(FlushMarks)
           \/ /\ w = "done" /\ loc.k < LastFatSector
              /\ Goto("flush", [loc EXCEPT !.k = @ + 1]) /\ UNCHANGED <<ret, marks>>
           \/ /\ w = "done" /\ loc.k >= LastFatSector /\ loc.then = "return"
              /\ Return("ok") /\ UNCHANGED marks
           \/ /\ w = "done" /\ loc.k >= LastFatSector /\ loc.then # "return"
              /\ Goto(loc.then, loc) /\ UNCHANGED <<ret, marks>>
  BY FlushCases
<1>3. CASE loc.then = "formatRoot"
  <2>1. ~ready
    BY <1>1, <1>3 DEF SyncInv, OfflineInv, Flushing
  <2>2. pc' # "scan"
    BY <1>2, <1>3 DEF GiveUp, Return, Goto
  <2>3. QED
    BY <1>1, <2>1, <2>2, NotReady
<1>4. CASE loc.then # "formatRoot" /\ w # "done" /\ GiveUp(FlushMarks)
  <2>1. FlushMarks \subseteq Marks /\ FlushMarks \cap Lost # {}
    BY <1>4 DEF FlushMarks, Marks, Lost
  <2>2. QED
    BY <1>4, <2>1, Abandoned
<1>5. ASSUME w = "done", ready, Free(Lost), NEW c \in Indices, c \div FatPerSector <= loc.k
      PROVE  diskFat'[c] = fat'[c]
  <2>1. diskFat'[c] = IF c \div FatPerSector = loc.k THEN fat[c] ELSE diskFat[c]
    BY <1>2, <1>5 DEF FlushSector
  <2>2. c \div FatPerSector < loc.k => diskFat[c] = fat[c]
    BY <1>1, <1>5 DEF SyncInv, FollowInv, FlushedSoFar
  <2>3. c \div FatPerSector \in Nat
    BY SectorBound
  <2>4. QED
    BY <1>1, <1>5, <2>1, <2>2, <2>3
<1>6. CASE /\ loc.then # "formatRoot" /\ w = "done" /\ UNCHANGED marks
           /\ Goto("flush", [loc EXCEPT !.k = @ + 1])
  <2>1. pc' = "flush" /\ loc'.k = loc.k + 1 /\ loc'.then = loc.then
    BY <1>1, <1>6 DEF Goto, Locals
  <2>2. ready /\ Free(Lost) => FlushedSoFar'
    <3>1. \A c \in Indices : c \div FatPerSector < loc.k + 1 => c \div FatPerSector <= loc.k
      BY <1>1, SectorBound
    <3>2. QED
      BY <1>5, <1>6, <2>1, <3>1 DEF FlushedSoFar
  <2>3. QED
    BY <1>1, <1>6, <2>1, <2>2 DEF SyncInv, FollowInv, OfflineInv, ScanInv, Synced, Flushing, Free
<1>7. CASE /\ loc.then # "formatRoot" /\ w = "done" /\ UNCHANGED marks
           /\ loc.k >= LastFatSector /\ pc' = IF loc.then = "return" THEN "idle" ELSE loc.then
  <2>1. \A c \in Indices : c \div FatPerSector <= loc.k
    <3>1. LastFatSector \in Int
      BY ClusterAssumption, FsAssumption DEF LastFatSector
    <3>2. QED
      BY <1>1, <1>7, <3>1, SectorBound
  <2>2. ready /\ Free(Lost) => diskFat' = fat'
    <3>1. diskFat' = [c \in Indices |-> diskFat'[c]]
      BY <1>2, <1>7 DEF FlushSector
    <3>2. fat' = [c \in Indices |-> fat'[c]]
      BY <1>1 DEF TypeOK, Fats
    <3>3. ASSUME ready, Free(Lost)
          PROVE  \A c \in Indices : diskFat'[c] = fat'[c]
      BY <1>5, <1>7, <2>1, <3>3
    <3> HIDE DEF Indices
    <3>4. QED
      BY <3>1, <3>2, <3>3
  <2>3. pc' \in {"idle", "initDir", "addEntry", "addCluster", "setEntry"}
    BY <1>1, <1>7
  <2>4. QED
    BY <1>1, <1>7, <2>2, <2>3 DEF SyncInv, FollowInv, OfflineInv, ScanInv, Flushing, Free
<1>8. QED
  BY <1>2, <1>3, <1>4, <1>6, <1>7 DEF Return, Goto

LEMMA StoreSync ==
  ASSUME TypeInv, SyncInv, Store
  PROVE  SyncInv'
<1>1. loc \in Locals /\ TypeOK
  BY DEF TypeInv, TypeOK
<1>2. CASE WriteData
  <2>1. \/ GiveUp(IF loc.found THEN {"dangling", "torn"} ELSE {"leak"})
        \/ Goto("data", [loc EXCEPT !.data = fat[@], !.k = @ + 1])
        \/ StartFlush(loc, StoreStep(loc))
    BY <1>2 DEF WriteData
  <2>2. StoreStep(loc) \in {"setEntry", "addEntry"}
    BY DEF StoreStep
  <2>3. CASE GiveUp(IF loc.found THEN {"dangling", "torn"} ELSE {"leak"})
    BY <2>3, Abandoned DEF Marks, Lost
  <2>4. CASE Goto("data", [loc EXCEPT !.data = fat[@], !.k = @ + 1])
    BY <2>4, NotSynced DEF Goto
  <2>5. CASE StartFlush(loc, StoreStep(loc))
    BY <1>1, <2>2, <2>5, FlushStarts
  <2>6. QED
    BY <2>1, <2>3, <2>4, <2>5
<1>3. CASE Flush
  BY <1>1, <1>3, FlushSync
<1>4. CASE InitDir \/ AddEntry \/ AddEntryFails \/ AddCluster
  <2>1. /\ pc \in {"initDir", "addEntry", "addCluster"} /\ pc' \in {"addEntry", "idle"}
        /\ UNCHANGED <<ready, fat, diskFat>> /\ marks \subseteq marks'
    BY <1>4 DEF InitDir, AddEntry, AddEntryFails, AddCluster, WriteBlock,
                Goto, GiveUp, Return, memory, disk
  <2>2. QED
    BY <2>1, SyncedKept DEF Synced
<1>5. CASE AddEntryExtend
  <2> DEFINE new == Least(FirstFit(fat, 1))
  <2>1. HasRoom(fat, 1) /\ StartFlush([loc EXCEPT !.data = new], "addCluster")
    BY <1>5 DEF AddEntryExtend
  <2>2. new \in Clusters
    BY <1>1, <2>1, FirstFitNonempty DEF TypeOK
  <2> HIDE DEF new
  <2>3. [loc EXCEPT !.data = new] \in Locals
    BY <1>1, <2>2 DEF Locals
  <2>4. QED
    BY <2>1, <2>3, FlushStarts
<1>6. CASE SetEntry
  <2>1. PICK w \in Writes :
          /\ WriteBlock(loc.at[1], [block[loc.at[1]] EXCEPT ![loc.at[2]] = loc.entry], w)
          /\ IF w # "done" THEN GiveUp(Unless(w, {"dangling"}) \cup {"leak"})
             ELSE IF loc.req.op = "write" THEN Return("ok") /\ UNCHANGED marks
             ELSE StartFlush(loc, "return") /\ UNCHANGED <<ret, marks>>
    BY <1>6 DEF SetEntry
  <2>2. CASE w # "done"
    <3> DEFINE m == Unless(w, {"dangling"}) \cup {"leak"}
    <3>1. m \subseteq Marks /\ m \cap Lost # {}
      BY DEF Unless, Marks, Lost
    <3>2. QED
      BY <2>1, <2>2, <3>1, Abandoned
  <2>3. CASE w = "done" /\ loc.req.op = "write"
    <3>1. /\ pc = "setEntry" /\ pc' = "idle"
          /\ UNCHANGED <<ready, fat, diskFat>> /\ marks \subseteq marks'
      BY <1>6, <2>1, <2>3 DEF SetEntry, WriteBlock, Return, memory
    <3>2. QED
      BY <2>3, <3>1, SyncedKept DEF Synced
  <2>4. CASE w = "done" /\ loc.req.op # "write"
    BY <1>1, <2>1, <2>4, FlushStarts
  <2>5. QED
    BY <2>2, <2>3, <2>4
<1>7. QED
  BY <1>2, <1>3, <1>4, <1>5, <1>6 DEF Store

LEMMA StepSync ==
  ASSUME TypeInv, SyncInv, [Next]_vars
  PROVE  SyncInv'
<1>1. CASE Step
  BY <1>1, StartingSync, WalkSync, DecideSync, ScanSync, StoreSync DEF Step
<1>2. CASE Offline \/ \E r \in Requests : Call(r) \/ CallRoot(r)
  BY <1>2, CallSync
<1>3. CASE Crash
  BY <1>3, NotReady DEF Crash
<1>4. CASE UNCHANGED vars
  BY <1>4 DEF vars, disk, memory, SyncInv, FollowInv, OfflineInv, ScanInv, Synced,
              FlushedSoFar, Flushing, Free
<1>5. QED
  BY <1>1, <1>2, <1>3, <1>4 DEF Next

\* Between commands the FAT on disk is the FAT in memory, on every disk and
\* with any number of faults and power losses, unless an operation that had
\* changed the table gave up before fs_flush_fat was through.
THEOREM DiskFollowsMemory == Spec => []FatOnDisk
<1>1. Init => TypeInv /\ SyncInv
  <2>1. Init => SyncInv
    BY DEF Init, SyncInv, FollowInv, OfflineInv, ScanInv
  <2>2. QED
    BY <2>1, InitType
<1>2. TypeInv /\ SyncInv /\ [Next]_vars => (TypeInv /\ SyncInv)'
  BY StepType, StepSync
<1>3. SyncInv => FatOnDisk
  BY DEF SyncInv, FollowInv, FatOnDisk, Settled, Synced, Lost
<1>4. QED
  BY <1>1, <1>2, <1>3, PTL DEF Spec

-------------------------------------------------------------------------------
\* The walks along a chain end.

\* No disk access has failed and no power was lost.
Quiet == faults = MaxFaults /\ crashes = MaxCrashes

\* What an operation leaves behind that gives up before its flush is through.
CutShort == {"leak", "dangling", "stale", "halfFormat"}

\* No flush of the FAT has been cut short.
Calm == Quiet \/ Free(CutShort)

EndsInv == Calm => /\ Ends(fat)
                   /\ pc # "flush" => Ends(diskFat)
                   /\ pc = "flush" => FlushedSoFar

\* The count of faults only goes down.
LEMMA FaultsSpent ==
  ASSUME TypeOK, Step
  PROVE  faults' = faults \/ faults' = faults - 1
<1>1. \A ok : Spend(ok) => faults' = faults \/ faults' = faults - 1
  BY DEF Spend
<1>2. CASE Starting
  BY <1>1, <1>2 DEF Starting, Boot, FormatSuper, FormatRoot, Load, WriteBlock
<1>3. CASE Walk
  BY <1>1, <1>3 DEF Walk, WalkDot, WalkDown, WalkFails, MissedByWrite, WalkTooLong, Cd
<1>4. CASE Decide
  BY <1>1, <1>4 DEF Decide, MkdirRefused, Mkdir, TouchRefused, Touch, WriteRefused, WriteOver,
                    WriteOverNoRoom, WriteNew, WriteNewNoRoom, Rm, RemoveRefused, RmdirEmpty,
                    RmdirAll
<1>5. CASE Scan
  BY <1>1, <1>5 DEF Scan, ScanFile, ScanDir, ScanOverrun, ScanFails, ScanWrite,
                    ScanNextCluster, ScanReturn, ScanFinish, WriteBlock
<1>6. CASE Store
  BY <1>1, <1>6 DEF Store, WriteData, Flush, InitDir, AddEntry, AddEntryExtend, AddEntryFails,
                    AddCluster, SetEntry, WriteBlock
<1>7. QED
  BY <1>2, <1>3, <1>4, <1>5, <1>6 DEF Step

LEMMA QuietBefore ==
  ASSUME TypeOK, Step, Quiet'
  PROVE  Quiet
<1>1. faults' = MaxFaults /\ crashes' = MaxCrashes /\ faults \in 0..MaxFaults /\ MaxFaults \in Nat
  BY FsAssumption DEF Quiet, TypeOK
<1>2. faults = MaxFaults
  BY <1>1, FaultsSpent
<1>3. crashes' = crashes
  BY DEF Step, Starting, Boot, FormatSuper, FormatRoot, Load,
         Walk, WalkDot, WalkDown, WalkFails, MissedByWrite, WalkTooLong, Cd,
         Decide, MkdirRefused, Mkdir, TouchRefused, Touch, WriteRefused, WriteOver,
         WriteOverNoRoom, WriteNew, WriteNewNoRoom, Rm, RemoveRefused, RmdirEmpty, RmdirAll,
         Scan, ScanFile, ScanDir, ScanOverrun, ScanFails, ScanWrite, ScanNextCluster,
         ScanReturn, ScanFinish,
         Store, WriteData, Flush, InitDir, AddEntry, AddEntryExtend, AddEntryFails,
         AddCluster, SetEntry
<1>4. QED
  BY <1>1, <1>2, <1>3 DEF Quiet

\* Marks are history.
LEMMA MarksStay ==
  ASSUME Step
  PROVE  marks \subseteq marks'
<1>1. CASE Starting
  BY <1>1 DEF Starting, Boot, FormatSuper, FormatRoot, Load
<1>2. CASE Walk
  BY <1>2 DEF Walk, WalkDot, WalkDown, WalkFails, MissedByWrite, WalkTooLong, Cd, GiveUp
<1>3. CASE Decide
  BY <1>3 DEF Decide, MkdirRefused, Mkdir, TouchRefused, Touch, WriteRefused, WriteOver,
              WriteOverNoRoom, WriteNew, WriteNewNoRoom, Rm, RemoveRefused, RmdirEmpty,
              RmdirAll, GiveUp, Hidden, Unlink
<1>4. CASE Scan
  BY <1>4 DEF Scan, ScanFile, ScanDir, ScanOverrun, ScanFails, ScanWrite, ScanNextCluster,
              ScanReturn, ScanFinish, GiveUp, Unlink
<1>5. CASE Store
  <2>1. CASE Flush
    BY <2>1 DEF Flush, GiveUp
  <2>2. CASE WriteData \/ InitDir \/ AddEntry \/ AddEntryExtend \/ AddEntryFails \/ AddCluster
             \/ SetEntry
    BY <2>2 DEF WriteData, InitDir, AddEntry, AddEntryExtend, AddEntryFails, AddCluster,
                SetEntry, GiveUp
  <2>3. QED
    BY <1>5, <2>1, <2>2 DEF Store
<1>6. QED
  BY <1>1, <1>2, <1>3, <1>4, <1>5 DEF Step

LEMMA CalmBefore ==
  ASSUME TypeOK, Step, Calm'
  PROVE  Calm
BY QuietBefore, MarksStay DEF Calm, Free

\* A step outside the flush.
LEMMA EndsStep ==
  ASSUME EndsInv, Calm' => Calm, pc # "flush", diskFat' = diskFat,
         Calm /\ Ends(fat) => Ends(fat'),
         pc' = "flush" => loc'.k = 0
  PROVE  EndsInv'
<1>1. pc' = "flush" => FlushedSoFar'
  BY SectorBound DEF FlushedSoFar
<1>2. QED
  BY <1>1 DEF EndsInv, Ends, Chain, ClosedUnderLinks

LEMMA StartingEnds ==
  ASSUME TypeOK, EndsInv, Starting
  PROVE  EndsInv'
<1>1. Calm' => Calm
  BY CalmBefore DEF Step
<1>2. CASE Boot
  <2>1. Ends(fat) => Ends(fat')
    BY <1>2, FormattedEnds DEF Boot
  <2>2. QED
    BY <1>1, <1>2, <2>1, EndsStep DEF Boot, disk
<1>3. CASE FormatSuper
  <2>1. pc' = "flush" => loc'.k = 0
    BY <1>3 DEF FormatSuper, StartFlush, Goto, TypeOK, Locals
  <2>2. QED
    BY <1>1, <1>3, <2>1, EndsStep DEF FormatSuper, memory
<1>4. CASE FormatRoot
  <2>1. pc' # "flush"
    BY <1>4 DEF FormatRoot, Goto
  <2>2. QED
    BY <1>1, <1>4, <2>1, EndsStep DEF FormatRoot, WriteBlock, memory
<1>5. CASE Load
  <2>1. Calm /\ Ends(fat) => Ends(fat')
    BY <1>5 DEF Load, EndsInv
  <2>2. QED
    BY <1>1, <1>5, <2>1, EndsStep DEF Load, disk
<1>6. QED
  BY <1>2, <1>3, <1>4, <1>5 DEF Starting

LEMMA WalkEnds ==
  ASSUME TypeOK, EndsInv, Walk
  PROVE  EndsInv'
<1>1. Calm' => Calm
  BY CalmBefore DEF Step
<1>2. pc = "walk" /\ pc' \in {"walk", "idle"} /\ UNCHANGED <<fat, diskFat>>
  BY DEF Walk, WalkDot, WalkDown, WalkFails, MissedByWrite, WalkTooLong, Cd, Walking, Running,
         Goto, GiveUp, Return, memory, disk
<1>3. QED
  BY <1>1, <1>2, EndsStep

LEMMA StartDataEnds ==
  ASSUME NEW f \in Fats, NEW l \in Locals, NEW e, StartData(f, l, e)
  PROVE  /\ Ends(f) => Ends(fat')
         /\ pc' = "flush" => loc'.k = 0
<1>1. fat' = AllocChain(f, l.req.size)
  BY DEF StartData
<1>2. pc' = "flush" => loc'.k = 0
  BY DEF StartData, StartFlush, Goto, Locals
<1>3. QED
  BY <1>1, <1>2, AllocChainKeepsEnds

LEMMA DecideEnds ==
  ASSUME TypeOK, EndsInv, Decide
  PROVE  EndsInv'
<1>1. Calm' => Calm
  BY CalmBefore DEF Step
<1>2. pc = "walk" /\ diskFat' = diskFat /\ loc \in Locals /\ fat \in Fats
  BY DEF Decide, MkdirRefused, Mkdir, TouchRefused, Touch, WriteRefused, WriteOver,
         WriteOverNoRoom, WriteNew, WriteNewNoRoom, Rm, RemoveRefused, RmdirEmpty, RmdirAll,
         Arrived, Running, TypeOK, disk
<1>3. CASE MkdirRefused \/ TouchRefused \/ WriteRefused \/ WriteNewNoRoom \/ RemoveRefused
           \/ Touch \/ RmdirAll
  <2>1. fat' = fat /\ pc' # "flush"
    BY <1>3 DEF MkdirRefused, TouchRefused, WriteRefused, WriteNewNoRoom, RemoveRefused,
                Touch, RmdirAll, GiveUp, Return, Goto, memory
  <2>2. QED
    BY <1>1, <1>2, <2>1, EndsStep
<1>4. CASE Mkdir
  <2>1. fat' = AllocChain(fat, 1)
    BY <1>4 DEF Mkdir
  <2>2. Ends(fat) => Ends(fat')
    BY <1>2, <2>1, AllocChainKeepsEnds
  <2>3. loc'.k = 0
    BY <1>2, <1>4 DEF Mkdir, StartFlush, Goto, Locals
  <2>4. QED
    BY <1>1, <1>2, <2>2, <2>3, EndsStep
<1>5. CASE WriteOver
  <2>1. PICK p \in Overwritable :
          StartData(Released(EntryAt(p)), [loc EXCEPT !.found = TRUE, !.at = p],
                    [EntryAt(p) EXCEPT !.size = loc.req.size, !.first = NoCluster])
    BY <1>5 DEF WriteOver
  <2>2. p \in Clusters \X Slots
    BY PlaceType DEF Overwritable
  <2>3. [loc EXCEPT !.found = TRUE, !.at = p] \in Locals
    BY <1>2, <2>2 DEF Locals
  <2>4. Released(EntryAt(p)) \in Fats /\ (Ends(fat) => Ends(Released(EntryAt(p))))
    BY <1>2, FreeChainType, FreeChainKeepsEnds DEF Released
  <2>5. (Ends(fat) => Ends(fat')) /\ (pc' = "flush" => loc'.k = 0)
    BY <2>1, <2>3, <2>4, StartDataEnds
  <2>6. QED
    BY <1>1, <1>2, <2>5, EndsStep
<1>6. CASE WriteNew
  <2>1. (Ends(fat) => Ends(fat')) /\ (pc' = "flush" => loc'.k = 0)
    BY <1>2, <1>6, StartDataEnds DEF WriteNew
  <2>2. QED
    BY <1>1, <1>2, <2>1, EndsStep
<1>7. CASE WriteOverNoRoom \/ Rm \/ RmdirEmpty
  <2>1. PICK s : fat' = FreeChain(fat, s)
    BY <1>7 DEF WriteOverNoRoom, Rm, RmdirEmpty, Unlink, Released
  <2>2. pc' # "flush"
    BY <1>7 DEF WriteOverNoRoom, Rm, RmdirEmpty, Unlink, Goto, GiveUp, Return
  <2>3. Ends(fat) => Ends(fat')
    BY <1>2, <2>1, FreeChainKeepsEnds
  <2>4. QED
    BY <1>1, <1>2, <2>2, <2>3, EndsStep
<1>8. QED
  BY <1>3, <1>4, <1>5, <1>6, <1>7 DEF Decide

LEMMA ScanEnds ==
  ASSUME TypeOK, EndsInv, Scan
  PROVE  EndsInv'
<1>1. Calm' => Calm
  BY CalmBefore DEF Step
<1>2. pc = "scan" /\ diskFat' = diskFat /\ fat \in Fats /\ pc' # "flush"
  BY DEF Scan, ScanFile, ScanDir, ScanOverrun, ScanFails, ScanWrite, ScanNextCluster,
         ScanReturn, ScanFinish, ScanDone, Scanning, GiveUp, Return, Unlink, Goto,
         WriteBlock, TypeOK, disk
<1>3. fat' = fat \/ \E s : fat' = FreeChain(fat, s)
  BY DEF Scan, ScanFile, ScanDir, ScanOverrun, ScanFails, ScanWrite, ScanNextCluster,
         ScanReturn, ScanFinish, Unlink, memory
<1>4. Ends(fat) => Ends(fat')
  BY <1>2, <1>3, FreeChainKeepsEnds
<1>5. QED
  BY <1>1, <1>2, <1>4, EndsStep

LEMMA StoreEnds ==
  ASSUME TypeOK, EndsInv, Store
  PROVE  EndsInv'
<1>1. Calm' => Calm
  BY CalmBefore DEF Step
<1>2. loc \in Locals /\ fat \in Fats
  BY DEF TypeOK
<1>3. CASE WriteData \/ SetEntry
  <2>1. /\ pc # "flush" /\ UNCHANGED <<fat, diskFat>>
        /\ pc' = "flush" => loc'.k = 0
    BY <1>2, <1>3 DEF WriteData, SetEntry, WriteBlock, Goto, GiveUp, Return, StartFlush, memory,
                      Locals
  <2>2. QED
    BY <1>1, <2>1, EndsStep
<1>4. CASE InitDir \/ AddEntry \/ AddEntryFails \/ AddCluster
  <2>1. /\ pc # "flush" /\ UNCHANGED <<fat, diskFat>> /\ pc' # "flush"
    BY <1>4 DEF InitDir, AddEntry, AddEntryFails, AddCluster, WriteBlock,
                Goto, GiveUp, Return, memory, disk
  <2>2. QED
    BY <1>1, <2>1, EndsStep
<1>5. CASE AddEntryExtend
  <2>1. PICK new : new = Least(FirstFit(fat, 1))
    OBVIOUS
  <2>2. /\ HasRoom(fat, 1) /\ loc.cur \in Clusters
        /\ fat' = Extend(AllocChain(fat, 1), Last(fat, loc.cur), new)
        /\ pc = "addEntry" /\ diskFat' = diskFat /\ loc'.k = 0
    BY <1>2, <1>5, <2>1 DEF AddEntryExtend, StartFlush, Goto, disk, Locals
  <2>3. new \in Clusters
    BY <1>2, <2>1, <2>2, FirstFitNonempty
  <2>4. ASSUME Ends(fat) PROVE Ends(fat')
    <3>1. PICK d \in Chain(fat, loc.cur) : fat[d] \notin Clusters
      BY <2>2, <2>4 DEF Ends
    <3>2. Last(fat, loc.cur) \in Chain(fat, loc.cur)
      BY <3>1 DEF Last
    <3>3. Last(fat, loc.cur) \in Clusters
      BY <3>2 DEF Chain
    <3>4. AllocChain(fat, 1) \in Fats /\ Ends(AllocChain(fat, 1))
      BY <1>2, <2>4, AllocChainType, AllocChainKeepsEnds
    <3>5. QED
      BY <2>2, <2>3, <3>3, <3>4, ExtendKeepsEnds
  <2>5. QED
    BY <1>1, <2>2, <2>4, EndsStep
<1>6. CASE Flush
  <2>1. PICK w \in Writes :
        /\ diskFat' = IF w = "lost" THEN diskFat ELSE FlushSector(loc.k)
        /\ Spend(w = "done")
        /\ \/ w # "done" /\ GiveUp(FlushMarks)
           \/ /\ w = "done" /\ loc.k < LastFatSector
              /\ Goto("flush", [loc EXCEPT !.k = @ + 1]) /\ UNCHANGED <<ret, marks>>
           \/ /\ w = "done" /\ loc.k >= LastFatSector /\ loc.then = "return"
              /\ Return("ok") /\ UNCHANGED marks
           \/ /\ w = "done" /\ loc.k >= LastFatSector /\ loc.then # "return"
              /\ Goto(loc.then, loc) /\ UNCHANGED <<ret, marks>>
    BY <1>6, FlushCases
  <2>2. pc = "flush" /\ fat' = fat /\ loc.k \in Nat
    BY <1>2, <1>6 DEF Flush, memory, Locals
  <2>3. SUFFICES ASSUME Calm' PROVE EndsInv'
    BY DEF EndsInv
  <2>4. Calm /\ Ends(fat) /\ FlushedSoFar
    BY <1>1, <2>2, <2>3 DEF EndsInv
  <2>5. w = "done"
    <3>1. SUFFICES ASSUME w # "done" PROVE FALSE
      OBVIOUS
    <3>2. GiveUp(FlushMarks) /\ FlushMarks \cap CutShort # {}
      BY <2>1, <3>1 DEF FlushMarks, CutShort
    <3>3. ~Free(CutShort)'
      BY <3>2 DEF GiveUp, Free, CutShort
    <3>4. faults' = faults - 1 /\ faults \in 0..MaxFaults /\ MaxFaults \in Nat
      BY <2>1, <3>1, FsAssumption DEF Spend, TypeOK
    <3>5. ~Quiet'
      BY <3>4 DEF Quiet
    <3>6. QED
      BY <2>3, <3>3, <3>5 DEF Calm
  <2>6. ASSUME NEW c \in Indices, c \div FatPerSector <= loc.k
        PROVE  diskFat'[c] = fat[c]
    <3>1. diskFat'[c] = IF c \div FatPerSector = loc.k THEN fat[c] ELSE diskFat[c]
      BY <2>1, <2>5 DEF FlushSector
    <3>2. c \div FatPerSector \in Nat
      BY SectorBound
    <3>3. QED
      BY <2>2, <2>4, <2>6, <3>1, <3>2 DEF FlushedSoFar
  <2>7. CASE Goto("flush", [loc EXCEPT !.k = @ + 1])
    <3>1. pc' = "flush" /\ loc'.k = loc.k + 1
      BY <1>2, <2>7 DEF Goto, Locals
    <3>2. \A c \in Indices : c \div FatPerSector < loc.k + 1 => c \div FatPerSector <= loc.k
      BY <2>2, SectorBound
    <3>3. FlushedSoFar'
      BY <2>2, <2>6, <3>1, <3>2 DEF FlushedSoFar
    <3>4. Ends(fat')
      BY <2>2, <2>4
    <3>5. QED
      BY <3>1, <3>3, <3>4 DEF EndsInv, Ends, Chain, ClosedUnderLinks
  <2>8. CASE loc.k >= LastFatSector /\ pc' # "flush"
    <3>1. \A c \in Indices : c \div FatPerSector <= loc.k
      <4>1. LastFatSector \in Int
        BY ClusterAssumption, FsAssumption DEF LastFatSector
      <4>2. QED
        BY <2>2, <2>8, <4>1, SectorBound
    <3>2. diskFat' = fat
      <4>1. diskFat' = [c \in Indices |-> diskFat'[c]]
        BY <2>1, <2>5 DEF FlushSector
      <4>2. fat = [c \in Indices |-> fat[c]]
        BY <1>2 DEF Fats
      <4>3. \A c \in Indices : diskFat'[c] = fat[c]
        BY <2>6, <3>1
      <4> HIDE DEF Indices
      <4>4. QED
        BY <4>1, <4>2, <4>3
    <3>3. Ends(fat') /\ Ends(diskFat')
      BY <2>2, <2>4, <3>2
    <3>4. QED
      BY <2>8, <3>3 DEF EndsInv, Ends, Chain, ClosedUnderLinks
  <2>9. loc.then # "flush"
    BY <1>2 DEF Locals
  <2>10. QED
    BY <2>1, <2>5, <2>7, <2>8, <2>9 DEF Return, Goto
<1>7. QED
  BY <1>3, <1>4, <1>5, <1>6 DEF Store

\* The stack overflow of fs_remove_dir_contents, and a power loss.
LEMMA CrashEnds ==
  ASSUME TypeOK, EndsInv, Crash
  PROVE  EndsInv'
<1>1. SUFFICES ASSUME Calm' PROVE EndsInv'
  BY DEF EndsInv
<1>2. fat' = ZeroFat /\ diskFat' = diskFat /\ pc' = "off" /\ faults' = faults
      /\ marks' = marks \cup CrashMarks
  BY DEF Crash, disk
<1>3. Calm /\ pc # "flush"
  <2>1. CASE Quiet'
    <3>1. crashes' = MaxCrashes /\ crashes \in 0..MaxCrashes /\ MaxCrashes \in Nat
      BY <2>1, FsAssumption DEF Quiet, TypeOK
    <3>2. pc = "halted" /\ Quiet
      BY <1>2, <2>1, <3>1 DEF Crash, Quiet
    <3>3. QED
      BY <3>2 DEF Calm
  <2>2. CASE Free(CutShort)'
    <3>1. Free(CutShort) /\ CrashMarks \cap CutShort = {}
      BY <1>2, <2>2 DEF Free
    <3>2. pc # "flush"
      BY <3>1 DEF CrashMarks, CutShort, Flushing
    <3>3. QED
      BY <3>1, <3>2 DEF Calm
  <2>3. QED
    BY <1>1, <2>1, <2>2 DEF Calm
<1>5. Ends(fat') /\ Ends(diskFat')
  BY <1>2, <1>3, FormattedEnds DEF EndsInv
<1>6. QED
  BY <1>2, <1>5 DEF EndsInv, Ends, Chain, ClosedUnderLinks

LEMMA EndsInvariant == Spec => []EndsInv
<1>1. Init => EndsInv
  <2>1. ASSUME Init PROVE Ends(fat) /\ Ends(diskFat) /\ pc # "flush"
    BY <2>1, FormattedEnds DEF Init
  <2>2. QED
    BY <2>1 DEF EndsInv
<1>2. TypeOK /\ EndsInv /\ [Next]_vars => EndsInv'
  <2> SUFFICES ASSUME TypeOK, EndsInv, [Next]_vars PROVE EndsInv'
    OBVIOUS
  <2>1. CASE Step
    BY <2>1, StartingEnds, WalkEnds, DecideEnds, ScanEnds, StoreEnds DEF Step
  <2>2. CASE (\E r \in Requests : Call(r) \/ CallRoot(r)) \/ Offline
    <3>1. pc' # "flush" /\ pc # "flush" /\ UNCHANGED <<fat, diskFat, faults, crashes, marks>>
      BY <2>2 DEF Call, CallRoot, Offline, Goto, memory, disk
    <3>2. QED
      BY <3>1, EndsStep DEF Quiet, Calm, Free
  <2>3. CASE Crash
    BY <2>3, CrashEnds
  <2>4. CASE UNCHANGED vars
    BY <2>4 DEF vars, disk, memory, EndsInv, Calm, Quiet, Free, Ends, Chain, ClosedUnderLinks,
              FlushedSoFar
  <2>5. QED
    BY <2>1, <2>2, <2>3, <2>4 DEF Next
<1>3. QED
  BY <1>1, <1>2, TypeCorrect, PTL DEF Spec

\* On every disk and for every series of calls, also in a removed current directory,
\* no chain of the FAT is ever a circle, as long as no disk access fails and
\* the power does not go.
THEOREM ChainsAlwaysEnd ==
  ASSUME MaxFaults = 0, MaxCrashes = 0
  PROVE  Spec => []ChainsEnd
<1>1. TypeOK /\ EndsInv => ChainsEnd
  BY DEF TypeOK, EndsInv, Calm, Quiet, ChainsEnd
<1>2. QED
  BY <1>1, TypeCorrect, EndsInvariant, PTL

\* With any number of disk faults and power losses the walks along the chains end
\* unless an operation gave up, or the power went, before fs_flush_fat was
\* through: then the disk holds half of an old table and half of a new one.
THEOREM ChainsEndAfterMishaps == Spec => [](Free(CutShort) => ChainsEnd)
<1>1. TypeOK /\ EndsInv => (Free(CutShort) => ChainsEnd)
  BY DEF EndsInv, Calm, ChainsEnd
<1>2. QED
  BY <1>1, TypeCorrect, EndsInvariant, PTL

-------------------------------------------------------------------------------
\* The tree.  D are the clusters of directories, F those of files, dp is a depth
\* that grows along every link and from every entry to what it leads to.

At(b, p) == b[p[1]][p[2]]

\* The clusters b with entry e at place p.
With(b, p, e) == [b EXCEPT ![p[1]] = [b[p[1]] EXCEPT ![p[2]] = e]]

\* The places of the entries of files and directories.
Proper(b, D) == {p \in D \X Slots : IsProper(At(b, p))}

\* The first clusters of directories.
Heads(f, D) == {x \in D : \A c \in D : f[c] # x}

\* Nothing of the tree is free, and links do not lead out of it.
Ground(f, D, F) ==
  /\ D \subseteq Clusters /\ F \subseteq Clusters /\ D \cap F = {} /\ RootCluster \in D
  /\ \A c \in D \cup F : f[c] # FREE
  /\ \A c \in D : f[c] \in Clusters => f[c] \in D
  /\ \A c \in F : f[c] \in Clusters => f[c] \in F

\* Entries have names and do not lead out of it.
Entered(b, D, F) ==
  \A p \in Proper(b, D) :
    /\ At(b, p).name # Empty
    /\ At(b, p).type = "dir"  => At(b, p).first \in D
    /\ At(b, p).type = "file" => At(b, p).first \in F \cup {NoCluster}

\* One entry or one link at most leads to a cluster, none to the root.
Once(f, b, D, F) ==
  /\ \A c, d \in D \cup F : f[c] \in Clusters /\ f[c] = f[d] => c = d
  /\ \A p, q \in Proper(b, D) :
       At(b, p).first \in Clusters /\ At(b, p).first = At(b, q).first => p = q
  /\ \A c \in D \cup F, p \in Proper(b, D) : f[c] \in Clusters => f[c] # At(b, p).first
  /\ \A c \in D \cup F : f[c] # RootCluster
  /\ \A p \in Proper(b, D) : At(b, p).first # RootCluster

\* The entries "." and ".."; the latter leads to the directory that has the entry
\* of this one.
Dotted(f, b, D) ==
  /\ At(b, <<RootCluster, 1>>) = DirEntry(".", RootCluster)
  /\ At(b, <<RootCluster, 2>>) = DirEntry("..", RootCluster)
  /\ \A p \in Proper(b, D) : At(b, p).type = "dir" =>
       /\ At(b, <<At(b, p).first, 1>>) = DirEntry(".", At(b, p).first)
       /\ \E h \in Heads(f, D) : /\ At(b, <<At(b, p).first, 2>>) = DirEntry("..", h)
                                 /\ p[1] \in Chain(f, h)

Deeper(f, b, D, F, dp) ==
  /\ dp \in [Clusters -> Nat]
  /\ \A c \in D \cup F : f[c] \in Clusters => dp[c] < dp[f[c]]
  /\ \A p \in Proper(b, D) : At(b, p).first \in Clusters => dp[p[1]] < dp[At(b, p).first]

Tree(f, b, D, F, dp) ==
  /\ Ground(f, D, F) /\ Entered(b, D, F) /\ Once(f, b, D, F) /\ Dotted(f, b, D)
  /\ Deeper(f, b, D, F, dp)

\* Something leads to every cluster but the root.
Reached(f, b, D, F) ==
  \A x \in (D \cup F) \ {RootCluster} :
    (\E c \in D \cup F : f[c] = x) \/ (\E p \in Proper(b, D) : At(b, p).first = x)

-------------------------------------------------------------------------------
LEMMA ChainWithin ==
  ASSUME NEW f, NEW S \in SUBSET Clusters, NEW s \in S, ClosedUnderLinks(f, S)
  PROVE  Chain(f, s) \subseteq S
BY DEF Chain

\* No chain starts outside the clusters.
LEMMA NoChain ==
  ASSUME NEW f, NEW s, s \notin Clusters
  PROVE  Chain(f, s) = {}
BY DEF Chain

\* A chain depends on the links of its clusters only.
LEMMA ChainSame ==
  ASSUME NEW f \in Fats, NEW g \in Fats, NEW s \in Clusters,
         \A c \in Chain(f, s) : g[c] = f[c]
  PROVE  Chain(g, s) = Chain(f, s)
<1>1. PICK A, B : A = Chain(f, s) /\ B = Chain(g, s)
  OBVIOUS
<1>2. /\ A \subseteq Clusters /\ s \in A /\ ClosedUnderLinks(f, A)
      /\ B \subseteq Clusters /\ s \in B /\ ClosedUnderLinks(g, B)
  BY <1>1, ChainProperties
<1>3. ClosedUnderLinks(g, A)
  BY <1>1, <1>2 DEF ClosedUnderLinks
<1>4. B \subseteq A
  BY <1>1, <1>2, <1>3, ChainWithin
<1>5. ClosedUnderLinks(f, B)
  BY <1>1, <1>2, <1>4 DEF ClosedUnderLinks
<1>6. A \subseteq B
  BY <1>1, <1>2, <1>5, ChainWithin
<1>7. QED
  BY <1>1, <1>4, <1>6

\* The chain of a cluster of the tree stays among directories, or among files.
LEMMA ChainGround ==
  ASSUME NEW f \in Fats, NEW D, NEW F, Ground(f, D, F)
  PROVE  /\ \A x \in D : Chain(f, x) \subseteq D /\ x \in Chain(f, x)
         /\ \A x \in F : Chain(f, x) \subseteq F /\ x \in Chain(f, x)
<1>1. /\ D \in SUBSET Clusters /\ ClosedUnderLinks(f, D)
      /\ F \in SUBSET Clusters /\ ClosedUnderLinks(f, F)
  BY DEF Ground, ClosedUnderLinks
<1>2. \A x \in D : Chain(f, x) \subseteq D /\ x \in Chain(f, x)
  BY <1>1, ChainWithin, ChainProperties
<1>3. \A x \in F : Chain(f, x) \subseteq F /\ x \in Chain(f, x)
  BY <1>1, ChainWithin, ChainProperties
<1>4. QED
  BY <1>2, <1>3

\* Two chains of directories that meet are one.
LEMMA ChainsApart ==
  ASSUME NEW f \in Fats, NEW b, NEW D, NEW F, Ground(f, D, F), Once(f, b, D, F),
         NEW x \in Heads(f, D), NEW y \in Heads(f, D),
         NEW c \in Chain(f, x), c \in Chain(f, y)
  PROVE  x = y
<1>1. PICK A, B : A = Chain(f, x) /\ B = Chain(f, y)
  OBVIOUS
<1>2. x \in D /\ y \in D /\ D \subseteq Clusters
  BY DEF Heads, Ground
<1>3. A \subseteq D /\ B \subseteq D /\ ClosedUnderLinks(f, A)
      /\ \A d \in B : d # y => \E e \in B : f[e] = d
  BY <1>1, <1>2, ChainGround, ChainProperties
<1>4. SUFFICES ASSUME x \notin B PROVE FALSE
  BY <1>3 DEF Heads
<1>5. ClosedUnderLinks(f, A \ B)
  <2>1. SUFFICES ASSUME NEW d \in A \ B, f[d] \in Clusters, f[d] \in B PROVE FALSE
    BY <1>3 DEF ClosedUnderLinks
  <2>2. f[d] # y
    BY <1>3, <2>1 DEF Heads
  <2>3. PICK e \in B : f[e] = f[d]
    BY <1>3, <2>1, <2>2
  <2>4. e = d
    BY <1>3, <2>1, <2>3 DEF Once
  <2>5. QED
    BY <2>1, <2>4
<1>6. x \in A \ B /\ A \ B \in SUBSET Clusters
  BY <1>1, <1>2, <1>3, <1>4, ChainGround
<1>7. A \subseteq A \ B
  BY <1>1, <1>5, <1>6, ChainWithin
<1>8. QED
  BY <1>1, <1>7

\* The tree depends on the links of its clusters only.
LEMMA TreeSame ==
  ASSUME NEW f \in Fats, NEW g \in Fats, NEW b, NEW D, NEW F, NEW dp,
         Tree(f, b, D, F, dp), \A c \in D \cup F : g[c] = f[c]
  PROVE  /\ Tree(g, b, D, F, dp)
         /\ Heads(g, D) = Heads(f, D)
         /\ Reached(f, b, D, F) => Reached(g, b, D, F)
<1>1. Ground(g, D, F) /\ Once(g, b, D, F) /\ Deeper(g, b, D, F, dp) /\ Entered(b, D, F)
  BY DEF Tree, Ground, Once, Deeper
<1>2. \A h \in D : Chain(g, h) = Chain(f, h)
  <2>1. TAKE h \in D
  <2>2. h \in Clusters /\ Chain(f, h) \subseteq D
    BY ChainGround DEF Tree, Ground
  <2>3. \A c \in Chain(f, h) : g[c] = f[c]
    BY <2>2
  <2>4. QED
    BY <2>2, <2>3, ChainSame
<1>3. Heads(g, D) = Heads(f, D)
  BY DEF Heads
<1>4. Dotted(g, b, D)
  <2>1. \A h \in Heads(f, D) : h \in D
    BY DEF Heads
  <2>2. QED
    BY <1>2, <1>3, <2>1 DEF Tree, Dotted
<1>5. Reached(f, b, D, F) => Reached(g, b, D, F)
  BY DEF Reached
<1>6. QED
  BY <1>1, <1>3, <1>4, <1>5 DEF Tree

\* Where the dot entries of a tree are there is nothing else.
LEMMA DotPlaces ==
  ASSUME NEW b, NEW D, NEW p \in Proper(b, D), NEW x, NEW i \in {1, 2}, NEW n \in Dots, NEW y,
         At(b, <<x, i>>) = DirEntry(n, y)
  PROVE  p # <<x, i>>
BY DEF Proper, IsProper, DirEntry

\* It depends on the entries in its directories only, and keeps its form when some
\* of them are cleared.
LEMMA TreeThinner ==
  ASSUME NEW f \in Fats, NEW b, NEW b2, NEW D, NEW F, NEW dp, Tree(f, b, D, F, dp),
         \A p \in D \X Slots : At(b2, p) = At(b, p) \/ (IsProper(At(b, p)) /\ At(b2, p) = Zeroed)
  PROVE  Tree(f, b2, D, F, dp)
<1>1. \A p \in Proper(b2, D) : p \in Proper(b, D) /\ At(b2, p) = At(b, p)
  BY DEF Proper, IsProper, Zeroed
<1>2. Entered(b2, D, F) /\ Once(f, b2, D, F) /\ Deeper(f, b2, D, F, dp)
  <2>1. Entered(b2, D, F)
    BY <1>1 DEF Tree, Entered
  <2>2. Once(f, b2, D, F)
    BY <1>1 DEF Tree, Once
  <2>3. Deeper(f, b2, D, F, dp)
    BY <1>1 DEF Tree, Deeper
  <2>4. QED
    BY <2>1, <2>2, <2>3
<1>3. ASSUME NEW x \in D, NEW n \in {".", ".."}, NEW i \in {1, 2}, NEW y,
             At(b, <<x, i>>) = DirEntry(n, y)
      PROVE  At(b2, <<x, i>>) = DirEntry(n, y)
  <2>1. <<x, i>> \in D \X Slots
    BY FsAssumption DEF Slots
  <2>2. ~IsProper(At(b, <<x, i>>))
    BY <1>3 DEF IsProper, DirEntry, Dots
  <2>3. QED
    BY <1>3, <2>1, <2>2
<1>4. Dotted(f, b2, D)
  <2>1. RootCluster \in D
    BY DEF Tree, Ground
  <2>2. /\ At(b2, <<RootCluster, 1>>) = DirEntry(".", RootCluster)
        /\ At(b2, <<RootCluster, 2>>) = DirEntry("..", RootCluster)
    BY <1>3, <2>1 DEF Tree, Dotted
  <2>3. ASSUME NEW p \in Proper(b2, D), At(b2, p).type = "dir"
        PROVE  /\ At(b2, <<At(b2, p).first, 1>>) = DirEntry(".", At(b2, p).first)
               /\ \E h \in Heads(f, D) : /\ At(b2, <<At(b2, p).first, 2>>) = DirEntry("..", h)
                                         /\ p[1] \in Chain(f, h)
    <3>1. PICK x : x = At(b2, p).first
      OBVIOUS
    <3>2. p \in Proper(b, D) /\ x = At(b, p).first /\ At(b, p).type = "dir"
      BY <1>1, <2>3, <3>1
    <3>3. x \in D
      BY <3>2 DEF Tree, Entered
    <3>4. /\ At(b, <<x, 1>>) = DirEntry(".", x)
          /\ \E h \in Heads(f, D) : At(b, <<x, 2>>) = DirEntry("..", h) /\ p[1] \in Chain(f, h)
      BY <3>2 DEF Tree, Dotted
    <3>5. QED
      BY <1>3, <3>1, <3>3, <3>4
  <2>4. QED
    BY <2>2, <2>3 DEF Dotted
<1>5. QED
  BY <1>2, <1>4 DEF Tree

\* Clusters outside the directories do not matter.
LEMMA TreeOfBlocks ==
  ASSUME NEW f \in Fats, NEW b, NEW b2, NEW D, NEW F, NEW dp, Tree(f, b, D, F, dp),
         \A c \in D : b2[c] = b[c]
  PROVE  /\ Tree(f, b2, D, F, dp)
         /\ Reached(f, b, D, F) => Reached(f, b2, D, F)
<1>1. \A p \in D \X Slots : At(b2, p) = At(b, p)
  BY DEF At
<1>2. Tree(f, b2, D, F, dp)
  BY <1>1, TreeThinner
<1>3. Reached(f, b, D, F) => Reached(f, b2, D, F)
  BY <1>1 DEF Reached, Proper
<1>4. QED
  BY <1>2, <1>3

-------------------------------------------------------------------------------
\* The entry of every directory leads to a head.
LEMMA EntryIsHead ==
  ASSUME NEW f, NEW b, NEW D, NEW F, NEW dp, Tree(f, b, D, F, dp),
         NEW p \in Proper(b, D), At(b, p).type = "dir"
  PROVE  At(b, p).first \in Heads(f, D) /\ At(b, p).first \in Clusters
<1>1. At(b, p).first \in D /\ D \subseteq Clusters
  BY DEF Tree, Entered, Ground
<1>2. \A c \in D : f[c] # At(b, p).first
  BY <1>1 DEF Tree, Once
<1>3. QED
  BY <1>1, <1>2 DEF Heads

\* The root is the first cluster of its directory.
LEMMA RootIsHead ==
  ASSUME NEW f, NEW b, NEW D, NEW F, NEW dp, Tree(f, b, D, F, dp)
  PROVE  RootCluster \in Heads(f, D)
BY DEF Tree, Ground, Once, Heads

\* Every directory has its dots.
LEMMA DotsOf ==
  ASSUME NEW f, NEW b, NEW D, NEW F, NEW dp, Tree(f, b, D, F, dp), Reached(f, b, D, F),
         NEW x \in Heads(f, D)
  PROVE  /\ At(b, <<x, 1>>) = DirEntry(".", x)
         /\ \E h \in Heads(f, D) : At(b, <<x, 2>>) = DirEntry("..", h)
<1>1. CASE x = RootCluster
  BY <1>1, RootIsHead DEF Tree, Dotted
<1>2. CASE x # RootCluster
  <2>1. x \in D /\ x \in Clusters /\ x \notin F /\ \A c \in D : f[c] # x
    BY DEF Heads, Tree, Ground
  <2>2. \A c \in F : f[c] # x
    BY <2>1 DEF Tree, Ground
  <2>3. PICK p \in Proper(b, D) : At(b, p).first = x
    BY <1>2, <2>1, <2>2 DEF Reached
  <2>4. x # NoCluster
    BY <2>1, ClusterFacts DEF NoCluster, FREE
  <2>5. At(b, p).type = "dir"
    BY <2>1, <2>3, <2>4 DEF Tree, Entered, Proper, IsProper
  <2>6. QED
    BY <2>3, <2>5 DEF Tree, Dotted
<1>3. QED
  BY <1>1, <1>2

\* Releasing what the entry at place p leads to and clearing it: for a file, and for
\* a directory that has no entries left.
LEMMA TreeWithout ==
  ASSUME NEW f \in Fats, NEW b, NEW b2, NEW D, NEW F, NEW dp, Tree(f, b, D, F, dp),
         NEW p \in Proper(b, D), NEW C, C = Chain(f, At(b, p).first),
         \A q \in Proper(b, D) : q[1] \notin C,
         At(b2, p) = Zeroed,
         \A q \in (D \ C) \X Slots : q # p => At(b2, q) = At(b, q)
  PROVE  /\ Tree(FreeChain(f, At(b, p).first), b2, D \ C, F \ C, dp)
         /\ Heads(FreeChain(f, At(b, p).first), D \ C) = Heads(f, D) \ C
         /\ Reached(f, b, D, F) => Reached(FreeChain(f, At(b, p).first), b2, D \ C, F \ C)
<1>1. PICK x, g, D2, F2 : /\ x = At(b, p).first /\ g = FreeChain(f, x)
                          /\ D2 = D \ C /\ F2 = F \ C
  OBVIOUS
<1>2. /\ D \subseteq Clusters /\ F \subseteq Clusters /\ D \cap F = {} /\ Clusters \subseteq Indices
      /\ x \in Clusters => x \in D \cup F
  <2>1. D \subseteq Clusters /\ F \subseteq Clusters /\ D \cap F = {}
    BY DEF Tree, Ground
  <2>2. NoCluster \notin Clusters
    BY ClusterFacts DEF NoCluster, FREE
  <2>3. x \in Clusters => x \in D \cup F
    BY <1>1, <2>2 DEF Tree, Entered, Proper, IsProper
  <2>4. QED
    BY <2>1, <2>3, ClusterFacts
<1>3. C \subseteq D \cup F /\ \A c \in C : c # x => \E d \in C : f[d] = c
  <2>1. CASE x \in Clusters
    <3>1. C \subseteq D \cup F
      BY <1>1, <1>2, <2>1, ChainGround DEF Tree
    <3>2. \A c \in C : c # x => \E d \in C : f[d] = c
      BY <1>1, <2>1, ChainProperties
    <3>3. QED
      BY <3>1, <3>2
  <2>2. CASE x \notin Clusters
    BY <1>1, <2>2, NoChain
  <2>3. QED
    BY <2>1, <2>2
<1>4. \A c \in C : f[c] \in Clusters => f[c] \in C
  <2>1. CASE x \in Clusters
    BY <1>1, <2>1, ChainProperties DEF ClosedUnderLinks
  <2>2. CASE x \notin Clusters
    BY <1>1, <2>2, NoChain
  <2>3. QED
    BY <2>1, <2>2
\* No link and no entry leads into the chain from outside.
<1>5. ASSUME NEW c \in D2 \cup F2, f[c] \in Clusters
      PROVE  f[c] \notin C
  <2>1. c \in D \cup F /\ c \notin C
    BY <1>1
  <2>2. f[c] # x
    BY <1>1, <1>5, <2>1 DEF Tree, Once
  <2>3. SUFFICES ASSUME f[c] \in C PROVE FALSE
    OBVIOUS
  <2>4. PICK d \in C : f[d] = f[c]
    BY <1>3, <2>2, <2>3
  <2>5. d \in D \cup F
    BY <1>3
  <2>6. d = c
    BY <1>5, <2>1, <2>4, <2>5 DEF Tree, Once
  <2>7. QED
    BY <2>1, <2>4, <2>6
<1>6. ASSUME NEW q \in Proper(b, D), q # p
      PROVE  At(b, q).first \notin C
  <2>1. SUFFICES ASSUME At(b, q).first \in C PROVE FALSE
    OBVIOUS
  <2>2. At(b, q).first \in Clusters
    BY <1>2, <1>3, <2>1
  <2>3. At(b, q).first # x
    BY <1>1, <1>6, <2>2 DEF Tree, Once
  <2>4. PICK d \in C : f[d] = At(b, q).first
    BY <1>3, <2>1, <2>3
  <2>5. d \in D \cup F
    BY <1>3
  <2>6. QED
    BY <2>2, <2>4, <2>5 DEF Tree, Once
<1>7. \A c \in D2 \cup F2 : g[c] = f[c]
  BY <1>1, <1>2 DEF FreeChain
<1>8. RootCluster \in D2
  <2>1. RootCluster \in D /\ RootCluster # x
    BY <1>1 DEF Tree, Ground, Once
  <2>2. \A c \in C : f[c] # RootCluster
    BY <1>3 DEF Tree, Once
  <2>3. QED
    BY <1>1, <1>3, <2>1, <2>2
<1>9. Ground(g, D2, F2)
  <2>1. \A c \in D2 \cup F2 : g[c] # FREE
    BY <1>1, <1>7 DEF Tree, Ground
  <2>2. \A c \in D2 : g[c] \in Clusters => g[c] \in D2
    BY <1>1, <1>5, <1>7 DEF Tree, Ground
  <2>3. \A c \in F2 : g[c] \in Clusters => g[c] \in F2
    BY <1>1, <1>5, <1>7 DEF Tree, Ground
  <2>4. QED
    BY <1>1, <1>2, <1>8, <2>1, <2>2, <2>3 DEF Ground
<1>10. \A q \in Proper(b2, D2) : q \in Proper(b, D) /\ q # p /\ At(b2, q) = At(b, q)
  <2>1. TAKE q \in Proper(b2, D2)
  <2>2. q \in D2 \X Slots /\ IsProper(At(b2, q))
    BY DEF Proper
  <2>3. q # p
    BY <2>2 DEF IsProper, Zeroed
  <2>4. At(b2, q) = At(b, q) /\ q \in D \X Slots
    BY <1>1, <2>2, <2>3
  <2>5. QED
    BY <2>2, <2>3, <2>4 DEF Proper
<1>11. Entered(b2, D2, F2)
  <2>1. ASSUME NEW q \in Proper(b2, D2)
        PROVE  /\ At(b2, q).name # Empty
               /\ At(b2, q).type = "dir"  => At(b2, q).first \in D2
               /\ At(b2, q).type = "file" => At(b2, q).first \in F2 \cup {NoCluster}
    <3>1. q \in Proper(b, D) /\ At(b2, q) = At(b, q) /\ At(b, q).first \notin C
      BY <1>6, <1>10
    <3>2. QED
      BY <1>1, <3>1 DEF Tree, Entered
  <2>2. QED
    BY <2>1 DEF Entered
<1>12. Once(g, b2, D2, F2)
  <2>1. \A c \in D2 \cup F2 : c \in D \cup F
    BY <1>1
  <2>2. /\ \A c, d \in D2 \cup F2 : g[c] \in Clusters /\ g[c] = g[d] => c = d
        /\ \A c \in D2 \cup F2 : g[c] # RootCluster
    BY <1>7, <2>1 DEF Tree, Once
  <2>3. /\ \A q, r \in Proper(b2, D2) :
             At(b2, q).first \in Clusters /\ At(b2, q).first = At(b2, r).first => q = r
        /\ \A q \in Proper(b2, D2) : At(b2, q).first # RootCluster
    BY <1>10 DEF Tree, Once
  <2>4. \A c \in D2 \cup F2, q \in Proper(b2, D2) : g[c] \in Clusters => g[c] # At(b2, q).first
    BY <1>7, <1>10, <2>1 DEF Tree, Once
  <2>5. QED
    BY <2>2, <2>3, <2>4 DEF Once
<1>13. Deeper(g, b2, D2, F2, dp)
  <2>1. \A c \in D2 \cup F2 : c \in D \cup F
    BY <1>1
  <2>2. QED
    BY <1>7, <1>10, <2>1 DEF Tree, Deeper
<1>14. Heads(g, D2) = Heads(f, D) \ C
  <2>1. ASSUME NEW h \in Heads(g, D2) PROVE h \in Heads(f, D) \ C
    <3>1. h \in D /\ h \notin C /\ h \in Clusters
      BY <1>1, <1>2 DEF Heads
    <3>2. ASSUME NEW c \in D, f[c] = h PROVE FALSE
      <4>1. c \notin C
        BY <1>4, <3>1, <3>2
      <4>2. g[c] = h
        BY <1>1, <1>7, <3>2, <4>1
      <4>3. QED
        BY <1>1, <4>1, <4>2 DEF Heads
    <3>3. QED
      BY <3>1, <3>2 DEF Heads
  <2>2. ASSUME NEW h \in Heads(f, D) \ C PROVE h \in Heads(g, D2)
    BY <1>1, <1>7 DEF Heads
  <2>3. QED
    BY <2>1, <2>2
<1>15. \A h \in D2 : Chain(g, h) = Chain(f, h)
  <2>1. TAKE h \in D2
  <2>2. h \in Clusters /\ g \in Fats
    BY <1>1, <1>2, FreeChainType
  <2>3. Chain(g, h) \subseteq D2
    BY <1>9, <2>2, ChainGround
  <2>4. \A c \in Chain(g, h) : f[c] = g[c]
    BY <1>7, <2>3
  <2>5. QED
    BY <2>2, <2>4, ChainSame
<1>16. ASSUME NEW y \in D2, NEW n \in Dots, NEW i \in {1, 2}, NEW z,
              At(b, <<y, i>>) = DirEntry(n, z)
       PROVE  At(b2, <<y, i>>) = DirEntry(n, z)
  <2>1. <<y, i>> \in D2 \X Slots
    BY FsAssumption DEF Slots
  <2>2. p # <<y, i>>
    BY <1>16, DotPlaces
  <2>3. QED
    BY <1>1, <1>16, <2>1, <2>2
<1>17. Dotted(g, b2, D2)
  <2>1. /\ At(b2, <<RootCluster, 1>>) = DirEntry(".", RootCluster)
        /\ At(b2, <<RootCluster, 2>>) = DirEntry("..", RootCluster)
    BY <1>8, <1>16 DEF Tree, Dotted, Dots
  <2>2. ASSUME NEW q \in Proper(b2, D2), At(b2, q).type = "dir"
        PROVE  /\ At(b2, <<At(b2, q).first, 1>>) = DirEntry(".", At(b2, q).first)
               /\ \E h \in Heads(g, D2) : /\ At(b2, <<At(b2, q).first, 2>>) = DirEntry("..", h)
                                          /\ q[1] \in Chain(g, h)
    <3>1. PICK y : y = At(b2, q).first
      OBVIOUS
    <3>2. q \in Proper(b, D) /\ y = At(b, q).first /\ At(b, q).type = "dir"
      BY <1>10, <2>2, <3>1
    <3>3. y \in D2
      BY <1>11, <2>2, <3>1 DEF Entered
    <3>4. At(b, <<y, 1>>) = DirEntry(".", y)
      BY <3>2 DEF Tree, Dotted
    <3>5. PICK h \in Heads(f, D) : At(b, <<y, 2>>) = DirEntry("..", h) /\ q[1] \in Chain(f, h)
      BY <3>2 DEF Tree, Dotted
    <3>6. h \notin C
      <4>1. SUFFICES ASSUME h \in C PROVE FALSE
        OBVIOUS
      <4>2. h \in D /\ h \in Clusters /\ \A d \in D : f[d] # h
        BY <1>2 DEF Heads
      <4>3. x \in Clusters
        BY <1>1, <4>1, NoChain
      <4>4. h = x
        <5>1. SUFFICES ASSUME h # x PROVE FALSE
          OBVIOUS
        <5>2. PICK d \in C : f[d] = h
          BY <1>3, <4>1, <5>1
        <5>3. d \in F
          BY <1>3, <4>2, <5>2
        <5>4. h \in F
          BY <4>2, <5>2, <5>3 DEF Tree, Ground
        <5>5. QED
          BY <1>2, <4>2, <5>4
      <4>5. q[1] \in C
        BY <1>1, <3>5, <4>4
      <4>6. QED
        BY <3>2, <4>5
    <3>7. h \in Heads(g, D2) /\ h \in D2
      BY <1>14, <3>6 DEF Heads
    <3>8. At(b2, <<y, 1>>) = DirEntry(".", y) /\ At(b2, <<y, 2>>) = DirEntry("..", h)
      BY <1>16, <3>3, <3>4, <3>5 DEF Dots
    <3>9. QED
      BY <1>15, <3>1, <3>5, <3>7, <3>8
  <2>3. QED
    BY <2>1, <2>2 DEF Dotted
<1>18. Reached(f, b, D, F) => Reached(g, b2, D2, F2)
  <2>1. SUFFICES ASSUME Reached(f, b, D, F), NEW y \in (D2 \cup F2) \ {RootCluster}
                 PROVE  \/ \E c \in D2 \cup F2 : g[c] = y
                        \/ \E q \in Proper(b2, D2) : At(b2, q).first = y
    BY DEF Reached
  <2>2. y \in (D \cup F) \ {RootCluster} /\ y \notin C /\ y \in Clusters
    BY <1>1, <1>2
  <2>3. CASE \E c \in D \cup F : f[c] = y
    <3>1. PICK c \in D \cup F : f[c] = y
      BY <2>3
    <3>2. c \notin C
      BY <1>4, <2>2, <3>1
    <3>3. QED
      BY <1>1, <1>7, <3>1, <3>2
  <2>4. CASE \E q \in Proper(b, D) : At(b, q).first = y
    <3>1. PICK q \in Proper(b, D) : At(b, q).first = y
      BY <2>4
    <3>2. q # p
      <4>1. x \in Clusters => x \in C
        BY <1>1, ChainProperties
      <4>2. QED
        BY <1>1, <2>2, <3>1, <4>1
    <3>3. q[1] \notin C /\ q \in D \X Slots
      BY DEF Proper
    <3>4. q \in (D \ C) \X Slots
      BY <3>3
    <3>5. At(b2, q) = At(b, q) /\ q \in D2 \X Slots
      BY <1>1, <3>2, <3>4
    <3>6. q \in Proper(b2, D2)
      BY <3>5 DEF Proper
    <3>7. QED
      BY <3>1, <3>5, <3>6
  <2>5. QED
    BY <2>1, <2>2, <2>3, <2>4 DEF Reached
<1>19. QED
  BY <1>1, <1>9, <1>11, <1>12, <1>13, <1>14, <1>17, <1>18 DEF Tree

-------------------------------------------------------------------------------
\* A chain that is in use, but no part of the tree yet.
Apart(f, D, F, y) ==
  /\ y \in Clusters
  /\ Chain(f, y) \cap (D \cup F) = {}
  /\ \A c \in Chain(f, y) :
       /\ f[c] # FREE /\ f[c] # y
       /\ f[c] \in Clusters => c < f[c]
       /\ \A d \in Chain(f, y) : f[c] \in Clusters /\ f[c] = f[d] => c = d

\* It depends on the links of its clusters only.
LEMMA ApartSame ==
  ASSUME NEW f \in Fats, NEW g \in Fats, NEW D, NEW F, NEW y, Apart(f, D, F, y),
         \A c \in Chain(f, y) : g[c] = f[c]
  PROVE  Apart(g, D, F, y) /\ Chain(g, y) = Chain(f, y)
<1>1. Chain(g, y) = Chain(f, y)
  BY ChainSame DEF Apart
<1>2. QED
  BY <1>1 DEF Apart

\* fs_alloc_cluster keeps off the tree.
LEMMA AllocKeepsTree ==
  ASSUME NEW f \in Fats, NEW b, NEW D, NEW F, NEW dp, NEW n, Tree(f, b, D, F, dp)
  PROVE  /\ \A c \in D \cup F : AllocChain(f, n)[c] = f[c]
         /\ Tree(AllocChain(f, n), b, D, F, dp)
         /\ Heads(AllocChain(f, n), D) = Heads(f, D)
         /\ Reached(f, b, D, F) => Reached(AllocChain(f, n), b, D, F)
<1>1. PICK g : g = AllocChain(f, n)
  OBVIOUS
<1>2. g \in Fats
  BY <1>1, AllocChainType
<1>3. \A c \in D \cup F : c \in Indices /\ c \notin FirstFit(f, n)
  BY FirstFitFree, ClusterFacts DEF Tree, Ground
<1>4. \A c \in D \cup F : g[c] = f[c]
  BY <1>1, <1>3, AllocChainLinks
<1>5. QED
  BY <1>1, <1>2, <1>4, TreeSame

\* The clusters that it takes are a chain of their own.
LEMMA AllocIsApart ==
  ASSUME NEW f \in Fats, NEW b, NEW D, NEW F, NEW dp, Tree(f, b, D, F, dp),
         NEW n \in Nat \ {0}, HasRoom(f, n)
  PROVE  /\ Apart(AllocChain(f, n), D, F, Least(FirstFit(f, n)))
         /\ Chain(AllocChain(f, n), Least(FirstFit(f, n))) \subseteq FirstFit(f, n)
<1>1. PICK g, S, y : g = AllocChain(f, n) /\ S = FirstFit(f, n) /\ y = Least(S)
  OBVIOUS
<1>2. S \in SUBSET Clusters /\ S # {} /\ \A c \in S : f[c] = FREE
  BY <1>1, FirstFitFree, FirstFitNonempty
<1>3. y \in S /\ \A d \in S : y <= d
  BY <1>1, <1>2, LeastExists
<1>4. S \subseteq Nat /\ S \subseteq Indices /\ EOC \notin Clusters /\ EOC # FREE /\ FREE \notin Clusters
  BY <1>2, ClusterFacts
<1>5. ASSUME NEW c \in S
      PROVE  g[c] = EOC \/ (g[c] \in S /\ c < g[c] /\ \A d \in S : d > c => g[c] <= d)
  <2>1. QED
    BY <1>1, <1>4, AllocChainLinks
<1>6. ClosedUnderLinks(g, S)
  BY <1>4, <1>5 DEF ClosedUnderLinks
<1>7. Chain(g, y) \subseteq S
  BY <1>2, <1>3, <1>6, ChainWithin
<1>8. S \cap (D \cup F) = {}
  BY <1>2 DEF Tree, Ground
<1>9. ASSUME NEW c \in S
      PROVE  g[c] # FREE /\ g[c] # y /\ (g[c] \in Clusters => c < g[c])
  <2>1. c \in Nat /\ y \in Nat /\ y <= c /\ y \in Clusters
    BY <1>2, <1>3, <1>4
  <2>2. CASE g[c] = EOC
    BY <1>4, <2>1, <2>2
  <2>3. CASE g[c] \in S /\ c < g[c]
    <3>1. g[c] \in Nat
      BY <1>4, <2>3
    <3>2. g[c] # y
      BY <2>1, <2>3, <3>1
    <3>3. g[c] # FREE
      BY <1>2, <1>4, <2>3
    <3>4. QED
      BY <2>3, <3>2, <3>3
  <2>4. QED
    BY <1>5, <2>2, <2>3
<1>10. ASSUME NEW c \in S, NEW d \in S, g[c] \in Clusters, g[c] = g[d]
       PROVE  c = d
  <2>1. /\ g[c] \in S /\ c < g[c] /\ \A e \in S : e > c => g[c] <= e
        /\ g[d] \in S /\ d < g[d] /\ \A e \in S : e > d => g[d] <= e
    BY <1>4, <1>5, <1>10
  <2>2. PICK m : m = g[c] /\ m = g[d]
    BY <1>10
  <2>3. c \in Nat /\ d \in Nat /\ m \in Nat /\ c < m /\ d < m
        /\ (d > c => m <= d) /\ (c > d => m <= c)
    BY <1>4, <2>1, <2>2
  <2>4. QED
    BY <2>3
<1>11. Apart(g, D, F, y)
  BY <1>2, <1>3, <1>7, <1>8, <1>9, <1>10 DEF Apart
<1>12. QED
  BY <1>1, <1>7, <1>11

\* An entry without a chain in a slot that was free.
LEMMA TreeWithNothing ==
  ASSUME NEW f \in Fats, NEW b, NEW b2, NEW D, NEW F, NEW dp, Tree(f, b, D, F, dp),
         NEW p \in D \X Slots, At(b, p).name = Empty,
         At(b2, p).name # Empty,
         ~IsProper(At(b2, p)) \/ (At(b2, p).type = "file" /\ At(b2, p).first = NoCluster),
         \A q \in D \X Slots : q # p => At(b2, q) = At(b, q)
  PROVE  /\ Tree(f, b2, D, F, dp)
         /\ Reached(f, b, D, F) => Reached(f, b2, D, F)
<1>1. NoCluster \notin Clusters /\ RootCluster \in Clusters
  BY ClusterFacts, FsAssumption DEF NoCluster, FREE
<1>2. ASSUME NEW q \in Proper(b2, D)
      PROVE  \/ q \in Proper(b, D) /\ q # p /\ At(b2, q) = At(b, q)
             \/ q = p /\ At(b2, q).type = "file" /\ At(b2, q).first = NoCluster
  BY DEF Proper
<1>3. Entered(b2, D, F)
  <2>1. ASSUME NEW q \in Proper(b2, D)
        PROVE  /\ At(b2, q).name # Empty
               /\ At(b2, q).type = "dir"  => At(b2, q).first \in D
               /\ At(b2, q).type = "file" => At(b2, q).first \in F \cup {NoCluster}
    BY <1>2 DEF Tree, Entered
  <2>2. QED
    BY <2>1 DEF Entered
<1>4. Once(f, b2, D, F)
  <2>1. ASSUME NEW q \in Proper(b2, D), NEW r \in Proper(b2, D),
               At(b2, q).first \in Clusters, At(b2, q).first = At(b2, r).first
        PROVE  q = r
    <3>1. q \in Proper(b, D) /\ At(b2, q) = At(b, q) /\ r \in Proper(b, D) /\ At(b2, r) = At(b, r)
      BY <1>1, <1>2, <2>1
    <3>2. QED
      BY <2>1, <3>1 DEF Tree, Once
  <2>2. ASSUME NEW c \in D \cup F, NEW q \in Proper(b2, D), f[c] \in Clusters
        PROVE  f[c] # At(b2, q).first
    BY <1>1, <1>2, <2>2 DEF Tree, Once
  <2>3. ASSUME NEW q \in Proper(b2, D)
        PROVE  At(b2, q).first # RootCluster
    BY <1>1, <1>2 DEF Tree, Once
  <2>4. QED
    BY <2>1, <2>2, <2>3 DEF Tree, Once
<1>5. Deeper(f, b2, D, F, dp)
  <2>1. ASSUME NEW q \in Proper(b2, D), At(b2, q).first \in Clusters
        PROVE  dp[q[1]] < dp[At(b2, q).first]
    BY <1>1, <1>2, <2>1 DEF Tree, Deeper
  <2>2. QED
    BY <2>1 DEF Tree, Deeper
<1>6. ASSUME NEW x \in D, NEW n \in Dots, NEW i \in {1, 2}, NEW y,
             At(b, <<x, i>>) = DirEntry(n, y)
      PROVE  At(b2, <<x, i>>) = DirEntry(n, y)
  <2>1. <<x, i>> \in D \X Slots
    BY FsAssumption DEF Slots
  <2>2. p # <<x, i>>
    BY <1>6 DEF DirEntry, Dots, Empty
  <2>3. QED
    BY <1>6, <2>1, <2>2
<1>7. Dotted(f, b2, D)
  <2>1. RootCluster \in D
    BY DEF Tree, Ground
  <2>2. /\ At(b2, <<RootCluster, 1>>) = DirEntry(".", RootCluster)
        /\ At(b2, <<RootCluster, 2>>) = DirEntry("..", RootCluster)
    BY <1>6, <2>1 DEF Tree, Dotted, Dots
  <2>3. ASSUME NEW q \in Proper(b2, D), At(b2, q).type = "dir"
        PROVE  /\ At(b2, <<At(b2, q).first, 1>>) = DirEntry(".", At(b2, q).first)
               /\ \E h \in Heads(f, D) : /\ At(b2, <<At(b2, q).first, 2>>) = DirEntry("..", h)
                                         /\ q[1] \in Chain(f, h)
    <3>1. PICK x : x = At(b2, q).first
      OBVIOUS
    <3>2. q \in Proper(b, D) /\ x = At(b, q).first /\ At(b, q).type = "dir"
      BY <1>2, <2>3, <3>1
    <3>3. x \in D
      BY <3>2 DEF Tree, Entered
    <3>4. /\ At(b, <<x, 1>>) = DirEntry(".", x)
          /\ \E h \in Heads(f, D) : At(b, <<x, 2>>) = DirEntry("..", h) /\ q[1] \in Chain(f, h)
      BY <3>2 DEF Tree, Dotted
    <3>5. QED
      BY <1>6, <3>1, <3>3, <3>4 DEF Dots
  <2>4. QED
    BY <2>2, <2>3 DEF Dotted
<1>8. Tree(f, b2, D, F, dp)
  BY <1>3, <1>4, <1>5, <1>7 DEF Tree
<1>9. \A q \in Proper(b, D) : q \in Proper(b2, D) /\ At(b2, q) = At(b, q)
  <2>1. TAKE q \in Proper(b, D)
  <2>2. q # p
    BY DEF Tree, Entered
  <2>3. QED
    BY <2>2 DEF Proper
<1>10. Reached(f, b, D, F) => Reached(f, b2, D, F)
  BY <1>9 DEF Reached
<1>11. QED
  BY <1>8, <1>10

\* The chain C from y on becomes that of a file, or that of an empty directory,
\* whose entry is at p.
Brings(f, b2, D, F, p, y, C, D2, F2) ==
  \/ At(b2, p).type = "file" /\ D2 = D /\ F2 = F \cup C
  \/ /\ At(b2, p).type = "dir" /\ D2 = D \cup C /\ F2 = F
     /\ \A q \in C \X Slots : ~IsProper(At(b2, q))
     /\ At(b2, <<y, 1>>) = DirEntry(".", y)
     /\ \E h \in Heads(f, D) : At(b2, <<y, 2>>) = DirEntry("..", h) /\ p[1] \in Chain(f, h)

\* The table f and the clusters b2 have a tree in which the directories of D remain.
Holds(f, b2, D, D2, F2) ==
  /\ \E dp2 : Tree(f, b2, D2, F2, dp2)
  /\ \A x \in Heads(f, D) : x \in Heads(f, D2)
  /\ Reached(f, b2, D2, F2)

\* An entry in a free slot that takes the chain of a new file or of a new directory
\* into the tree.
LEMMA TreeWithChain ==
  ASSUME NEW f \in Fats, NEW b, NEW b2, NEW D, NEW F, NEW dp, Tree(f, b, D, F, dp), Reached(f, b, D, F),
         NEW p \in D \X Slots, At(b, p).name = Empty,
         IsProper(At(b2, p)), At(b2, p).name # Empty,
         NEW y, y = At(b2, p).first, Apart(f, D, F, y), NEW C, C = Chain(f, y),
         NEW D2, NEW F2, Brings(f, b2, D, F, p, y, C, D2, F2),
         \A q \in D \X Slots : q # p => At(b2, q) = At(b, q)
  PROVE  Holds(f, b2, D, D2, F2)
<1> SUFFICES
      ASSUME \/ At(b2, p).type = "file" /\ D2 = D /\ F2 = F \cup C
             \/ /\ At(b2, p).type = "dir" /\ D2 = D \cup C /\ F2 = F
                /\ \A q \in C \X Slots : ~IsProper(At(b2, q))
                /\ At(b2, <<y, 1>>) = DirEntry(".", y)
                /\ \E h \in Heads(f, D) : At(b2, <<y, 2>>) = DirEntry("..", h) /\ p[1] \in Chain(f, h)
      PROVE  /\ \E dp2 : Tree(f, b2, D2, F2, dp2)
             /\ \A x \in Heads(f, D) : x \in Heads(f, D2)
             /\ Reached(f, b2, D2, F2)
  BY DEF Brings, Holds
<1>1. /\ NoCluster \notin Clusters /\ RootCluster \in D /\ Clusters \subseteq Nat
      /\ D \subseteq Clusters /\ F \subseteq Clusters /\ D \cap F = {} /\ y \in Clusters
  BY ClusterFacts DEF NoCluster, FREE, Tree, Ground, Apart
<1>2. /\ C \subseteq Clusters /\ y \in C /\ ClosedUnderLinks(f, C)
      /\ \A c \in C : c # y => \E d \in C : f[d] = c
      /\ C \cap (D \cup F) = {}
  BY <1>1, ChainProperties DEF Apart
<1>3. D2 \cup F2 = D \cup F \cup C /\ D2 \cap F2 = {} /\ D \subseteq D2
      /\ D2 \subseteq Clusters /\ F2 \subseteq Clusters
  BY <1>1, <1>2
<1>4. \A c \in D \cup F : f[c] \in Clusters => f[c] \in D \cup F /\ f[c] \notin C
  BY <1>2 DEF Tree, Ground
<1>5. ASSUME NEW q \in Proper(b2, D2)
      PROVE  \/ q \in Proper(b, D) /\ q # p /\ At(b2, q) = At(b, q)
             \/ q = p
  <2>1. q \in D2 \X Slots /\ IsProper(At(b2, q))
    BY DEF Proper
  <2>2. q \in D \X Slots
    <3>1. q[1] \in D2 /\ q[2] \in Slots /\ q = <<q[1], q[2]>>
      BY <2>1
    <3>2. q[1] \notin C
      <4>1. SUFFICES ASSUME q[1] \in C PROVE FALSE
        OBVIOUS
      <4>2. D2 = D \cup C
        BY <1>2, <3>1, <4>1
      <4>3. q \in C \X Slots
        BY <3>1, <4>1
      <4>4. y \notin D /\ y \in D2
        BY <1>2, <4>2
      <4>5. \A r \in C \X Slots : ~IsProper(At(b2, r))
        BY <4>4
      <4>6. QED
        BY <2>1, <4>3, <4>5
    <3>3. q[1] \in D
      BY <3>1, <3>2
    <3>4. QED
      BY <3>1, <3>3
  <2>3. QED
    BY <2>1, <2>2 DEF Proper
<1>6. p \notin Proper(b, D)
  BY DEF Tree, Entered
<1>7. \A q \in Proper(b, D) : q \in Proper(b2, D2) /\ At(b2, q) = At(b, q) /\ q # p
  <2>1. TAKE q \in Proper(b, D)
  <2>2. q \in D \X Slots /\ q # p /\ IsProper(At(b, q))
    BY <1>6 DEF Proper
  <2>3. At(b2, q) = At(b, q) /\ q \in D2 \X Slots
    BY <1>3, <2>2
  <2>4. QED
    BY <2>2, <2>3 DEF Proper
<1>8. \A q \in Proper(b, D) : At(b, q).first \notin C
  BY <1>1, <1>2 DEF Tree, Entered, Proper, IsProper
<1>9. Ground(f, D2, F2)
  <2>1. \A c \in C : f[c] # FREE /\ (f[c] \in Clusters => f[c] \in C)
    BY <1>2 DEF Apart, ClosedUnderLinks
  <2>2. \A c \in D2 \cup F2 : f[c] # FREE
    BY <1>3, <2>1 DEF Tree, Ground
  <2>3. \A c \in D2 : f[c] \in Clusters => f[c] \in D2
    BY <2>1 DEF Tree, Ground
  <2>4. \A c \in F2 : f[c] \in Clusters => f[c] \in F2
    BY <2>1 DEF Tree, Ground
  <2>5. QED
    BY <1>1, <1>3, <2>2, <2>3, <2>4 DEF Ground
<1>10. Entered(b2, D2, F2)
  <2>1. ASSUME NEW q \in Proper(b2, D2)
        PROVE  /\ At(b2, q).name # Empty
               /\ At(b2, q).type = "dir"  => At(b2, q).first \in D2
               /\ At(b2, q).type = "file" => At(b2, q).first \in F2 \cup {NoCluster}
    <3>1. CASE q \in Proper(b, D) /\ At(b2, q) = At(b, q)
      <4>1. F \subseteq F2 /\ D \subseteq D2
        BY <1>3
      <4>2. QED
        BY <3>1, <4>1 DEF Tree, Entered
    <3>2. CASE q = p
      BY <1>2, <3>2
    <3>3. QED
      BY <1>5, <3>1, <3>2
  <2>2. QED
    BY <2>1 DEF Entered
<1>11. Once(f, b2, D2, F2)
  <2>1. ASSUME NEW c \in D2 \cup F2, NEW d \in D2 \cup F2, f[c] \in Clusters, f[c] = f[d]
        PROVE  c = d
    <3>1. CASE c \in C /\ d \in C
      BY <2>1, <3>1 DEF Apart
    <3>2. CASE c \in D \cup F /\ d \in D \cup F
      BY <2>1, <3>2 DEF Tree, Once
    <3>3. CASE c \in C /\ d \in D \cup F
      BY <1>2, <1>4, <2>1, <3>3 DEF ClosedUnderLinks
    <3>4. CASE d \in C /\ c \in D \cup F
      BY <1>2, <1>4, <2>1, <3>4 DEF ClosedUnderLinks
    <3>5. QED
      BY <1>3, <3>1, <3>2, <3>3, <3>4
  <2>2. ASSUME NEW q \in Proper(b2, D2), NEW r \in Proper(b2, D2),
               At(b2, q).first \in Clusters, At(b2, q).first = At(b2, r).first
        PROVE  q = r
    <3>1. CASE q = p \/ r = p
      <4>1. SUFFICES ASSUME q # r PROVE FALSE
        OBVIOUS
      <4>2. PICK s \in Proper(b, D) : At(b, s).first = y
        BY <1>5, <2>2, <3>1, <4>1
      <4>3. QED
        BY <1>2, <1>8, <4>2
    <3>2. CASE q # p /\ r # p
      <4>1. q \in Proper(b, D) /\ At(b2, q) = At(b, q) /\ r \in Proper(b, D) /\ At(b2, r) = At(b, r)
        BY <1>5, <3>2
      <4>2. QED
        BY <2>2, <4>1 DEF Tree, Once
    <3>3. QED
      BY <3>1, <3>2
  <2>3. ASSUME NEW c \in D2 \cup F2, NEW q \in Proper(b2, D2), f[c] \in Clusters
        PROVE  f[c] # At(b2, q).first
    <3>1. CASE c \in C
      <4>1. f[c] \in C /\ f[c] # y
        BY <1>2, <2>3, <3>1 DEF ClosedUnderLinks, Apart
      <4>2. QED
        BY <1>5, <1>8, <4>1
    <3>2. CASE c \in D \cup F
      <4>1. f[c] # y
        BY <1>2, <1>4, <2>3, <3>2
      <4>2. QED
        BY <1>5, <2>3, <3>2, <4>1 DEF Tree, Once
    <3>3. QED
      BY <1>3, <3>1, <3>2
  <2>4. ASSUME NEW c \in D2 \cup F2
        PROVE  f[c] # RootCluster
    <3>1. CASE c \in C
      BY <1>1, <1>2, <3>1 DEF ClosedUnderLinks
    <3>2. CASE c \in D \cup F
      BY <3>2 DEF Tree, Once
    <3>3. QED
      BY <1>3, <3>1, <3>2
  <2>5. ASSUME NEW q \in Proper(b2, D2)
        PROVE  At(b2, q).first # RootCluster
    BY <1>1, <1>2, <1>5 DEF Tree, Once
  <2>6. QED
    BY <2>1, <2>2, <2>3, <2>4, <2>5 DEF Once
<1>12. PICK dp2 : dp2 = [c \in Clusters |-> IF c \in C THEN dp[p[1]] + c ELSE dp[c]]
  OBVIOUS
<1>13. Deeper(f, b2, D2, F2, dp2)
  <2>1. dp \in [Clusters -> Nat] /\ p[1] \in Clusters /\ p[1] \notin C
    BY <1>1, <1>2 DEF Tree, Deeper
  <2>2. PICK n \in Nat : n = dp[p[1]]
    BY <2>1
  <2>3. \A c \in C : c \in Nat /\ n + c \in Nat
    BY <1>1, <1>2, <2>2
  <2>4. /\ \A c \in C : dp2[c] = n + c
        /\ \A c \in Clusters : c \notin C => dp2[c] = dp[c]
    BY <1>2, <1>12, <2>2
  <2>5. dp2 \in [Clusters -> Nat]
    BY <1>12, <2>1, <2>2, <2>3
  <2>6. ASSUME NEW c \in D2 \cup F2, f[c] \in Clusters
        PROVE  dp2[c] < dp2[f[c]]
    <3>1. CASE c \in C
      <4>1. f[c] \in C /\ c < f[c]
        BY <1>2, <2>6, <3>1 DEF ClosedUnderLinks, Apart
      <4>2. n + c < n + f[c]
        BY <2>3, <3>1, <4>1
      <4>3. QED
        BY <2>4, <3>1, <4>1, <4>2
    <3>2. CASE c \in D \cup F
      <4>1. c \in Clusters /\ c \notin C /\ f[c] \notin C
        BY <1>1, <1>2, <1>4, <2>6, <3>2
      <4>2. dp[c] < dp[f[c]]
        BY <2>6, <3>2 DEF Tree, Deeper
      <4>3. QED
        BY <2>4, <2>6, <4>1, <4>2
    <3>3. QED
      BY <1>3, <3>1, <3>2
  <2>7. ASSUME NEW q \in Proper(b2, D2), At(b2, q).first \in Clusters
        PROVE  dp2[q[1]] < dp2[At(b2, q).first]
    <3>1. CASE q = p
      <4>1. y \in Nat /\ y > 0
        BY <1>1 DEF Clusters
      <4>2. n < n + y
        BY <2>2, <4>1
      <4>3. QED
        BY <1>2, <2>1, <2>2, <2>4, <3>1, <4>2
    <3>2. CASE q # p
      <4>1. q \in Proper(b, D) /\ At(b2, q) = At(b, q) /\ At(b, q).first \notin C
        BY <1>5, <1>8, <3>2
      <4>2. q[1] \in D
        BY <4>1 DEF Proper
      <4>3. q[1] \in Clusters /\ q[1] \notin C
        BY <1>1, <1>2, <4>2
      <4>4. dp[q[1]] < dp[At(b, q).first]
        BY <2>7, <4>1 DEF Tree, Deeper
      <4>5. QED
        BY <2>4, <2>7, <4>1, <4>3, <4>4
    <3>3. QED
      BY <3>1, <3>2
  <2>8. QED
    BY <2>5, <2>6, <2>7 DEF Deeper
<1>14. \A x \in Heads(f, D) : x \in Heads(f, D2)
  <2>1. SUFFICES ASSUME NEW x \in Heads(f, D), NEW c \in C, f[c] = x PROVE FALSE
    BY <1>3 DEF Heads
  <2>2. x \in D /\ x \in Clusters
    BY <1>1 DEF Heads
  <2>3. QED
    BY <1>2, <2>1, <2>2 DEF ClosedUnderLinks
<1>15. ASSUME NEW x \in D, NEW n \in Dots, NEW i \in {1, 2}, NEW z,
              At(b, <<x, i>>) = DirEntry(n, z)
       PROVE  At(b2, <<x, i>>) = DirEntry(n, z)
  <2>1. <<x, i>> \in D \X Slots
    BY FsAssumption DEF Slots
  <2>2. p # <<x, i>>
    BY <1>15 DEF DirEntry, Dots, Empty
  <2>3. QED
    BY <1>15, <2>1, <2>2
<1>16. Dotted(f, b2, D2)
  <2>1. /\ At(b2, <<RootCluster, 1>>) = DirEntry(".", RootCluster)
        /\ At(b2, <<RootCluster, 2>>) = DirEntry("..", RootCluster)
    BY <1>1, <1>15 DEF Tree, Dotted, Dots
  <2>2. ASSUME NEW q \in Proper(b2, D2), At(b2, q).type = "dir"
        PROVE  /\ At(b2, <<At(b2, q).first, 1>>) = DirEntry(".", At(b2, q).first)
               /\ \E h \in Heads(f, D2) : /\ At(b2, <<At(b2, q).first, 2>>) = DirEntry("..", h)
                                          /\ q[1] \in Chain(f, h)
    <3>1. CASE q = p
      BY <1>14, <2>2, <3>1
    <3>2. CASE q # p
      <4>1. PICK x : x = At(b2, q).first
        OBVIOUS
      <4>2. q \in Proper(b, D) /\ x = At(b, q).first /\ At(b, q).type = "dir"
        BY <1>5, <2>2, <3>2, <4>1
      <4>3. x \in D
        BY <4>2 DEF Tree, Entered
      <4>4. /\ At(b, <<x, 1>>) = DirEntry(".", x)
            /\ \E h \in Heads(f, D) : At(b, <<x, 2>>) = DirEntry("..", h) /\ q[1] \in Chain(f, h)
        BY <4>2 DEF Tree, Dotted
      <4>5. QED
        BY <1>14, <1>15, <4>1, <4>3, <4>4 DEF Dots
    <3>3. QED
      BY <3>1, <3>2
  <2>3. QED
    BY <2>1, <2>2 DEF Dotted
<1>17. Reached(f, b2, D2, F2)
  <2>1. SUFFICES ASSUME NEW x \in (D2 \cup F2) \ {RootCluster}
                 PROVE  \/ \E c \in D2 \cup F2 : f[c] = x
                        \/ \E q \in Proper(b2, D2) : At(b2, q).first = x
    BY DEF Reached
  <2>2. CASE x \in C
    <3>1. CASE x = y
      <4>1. p \in Proper(b2, D2)
        BY <1>3 DEF Proper
      <4>2. QED
        BY <3>1, <4>1
    <3>2. CASE x # y
      BY <1>2, <1>3, <2>2, <3>2
    <3>3. QED
      BY <3>1, <3>2
  <2>3. CASE x \in (D \cup F) \ {RootCluster}
    BY <1>3, <1>7, <2>1, <2>3 DEF Reached
  <2>4. QED
    BY <1>3, <2>2, <2>3
<1>18. Tree(f, b2, D2, F2, dp2)
  BY <1>9, <1>10, <1>11, <1>13, <1>16 DEF Tree
<1>19. QED
  BY <1>14, <1>17, <1>18

-------------------------------------------------------------------------------
\* A walk along the chain of a directory ends.
LEMMA LastOfChain ==
  ASSUME NEW f \in Fats, NEW b, NEW D, NEW F, NEW dp, Tree(f, b, D, F, dp), NEW x \in D
  PROVE  Last(f, x) \in Chain(f, x) /\ f[Last(f, x)] \notin Clusters
<1>1. PICK C : C = Chain(f, x)
  OBVIOUS
<1>2. C \in SUBSET Clusters /\ C \subseteq D /\ x \in C /\ IsFiniteSet(Clusters)
  BY <1>1, ChainGround, ClusterFacts DEF Tree, Ground
<1>3. \A c \in C : Chain(f, c) \subseteq C /\ c \in Chain(f, c)
  BY <1>1, <1>2, ChainWithin, ChainProperties
\* The cluster with the least rest of the chain behind it is the last one.
<1> DEFINE size(c) == Cardinality(Chain(f, c))
           sizes == {n \in Nat : \E c \in C : n = size(c)}
<1>4. \A c \in C : IsFiniteSet(Chain(f, c)) /\ size(c) \in Nat
  BY <1>2, <1>3, FS_Subset, FS_CardinalityType
<1>5. PICK n \in sizes : \A m \in sizes : ~(<<m, n>> \in OpToRel(<, Nat))
  <2>1. sizes \subseteq Nat
    OBVIOUS
  <2>2. IsWellFoundedOn(OpToRel(<, Nat), Nat)
    BY NatLessThanWellFounded
  <2>3. sizes # {}
    BY <1>2, <1>4
  <2>4. QED
    BY <2>1, <2>2, <2>3, WFMin
<1>6. PICK c \in C : n = size(c)
  OBVIOUS
<1>7. f[c] \notin Clusters
  <2>1. SUFFICES ASSUME f[c] \in Clusters PROVE FALSE
    OBVIOUS
  <2>2. PICK d : d = f[c]
    OBVIOUS
  <2>3. d \in Clusters /\ d \in C
    BY <1>1, <1>2, <2>1, <2>2, ChainProperties DEF ClosedUnderLinks
  <2>4. dp \in [Clusters -> Nat] /\ \A e \in D : f[e] \in Clusters => dp[e] < dp[f[e]]
    BY DEF Tree, Deeper
\* Everything behind d lies deeper than c.
  <2> DEFINE S == {e \in C : dp[c] < dp[e]}
  <2>5. S \in SUBSET Clusters /\ d \in S
    BY <1>2, <1>6, <2>1, <2>2, <2>3, <2>4
  <2>6. ASSUME NEW e \in S, f[e] \in Clusters PROVE f[e] \in S
    <3>1. f[e] \in C
      BY <1>1, <1>2, <2>6, ChainProperties DEF ClosedUnderLinks
    <3>2. dp[c] < dp[e] /\ dp[e] < dp[f[e]]
      BY <1>2, <2>4, <2>6
    <3>3. dp[c] \in Nat /\ dp[e] \in Nat /\ dp[f[e]] \in Nat
      BY <1>2, <2>4, <2>6, <3>1
    <3>4. dp[c] < dp[f[e]]
      BY <3>2, <3>3
    <3>5. QED
      BY <3>1, <3>4
  <2>7. ClosedUnderLinks(f, S)
    BY <2>6 DEF ClosedUnderLinks
  <2>8. Chain(f, d) \subseteq S
    BY <2>5, <2>7, ChainWithin
  <2>9. c \notin S
    BY <1>2, <1>6, <2>4
  <2>10. c \notin Chain(f, d)
    BY <2>8, <2>9
  <2>11. Chain(f, d) \subseteq Chain(f, c)
    <3>1. Chain(f, c) \in SUBSET Clusters /\ ClosedUnderLinks(f, Chain(f, c)) /\ c \in Chain(f, c)
      BY <1>2, <1>6, ChainProperties
    <3>2. d \in Chain(f, c)
      BY <2>1, <2>2, <3>1 DEF ClosedUnderLinks
    <3>3. QED
      BY <3>1, <3>2, ChainWithin
  <2>12. size(d) < size(c)
    <3>1. IsFiniteSet(Chain(f, c)) /\ c \in Chain(f, c)
      BY <1>3, <1>4, <1>6
    <3>2. Chain(f, d) # Chain(f, c)
      BY <2>10, <3>1
    <3>3. /\ Cardinality(Chain(f, d)) <= Cardinality(Chain(f, c))
          /\ Cardinality(Chain(f, d)) # Cardinality(Chain(f, c))
      BY <2>11, <3>1, <3>2, FS_Subset
    <3>4. size(d) \in Nat /\ size(c) \in Nat
      BY <1>4, <1>6, <2>3
    <3>5. QED
      BY <3>3, <3>4
  <2>13. size(d) \in sizes /\ size(d) \in Nat
    BY <1>4, <2>3
  <2>14. <<size(d), n>> \in OpToRel(<, Nat)
    BY <1>5, <1>6, <2>12, <2>13 DEF OpToRel
  <2>15. QED
    BY <1>5, <2>13, <2>14
<1>8. \E e \in Chain(f, x) : f[e] \notin Clusters
  BY <1>1, <1>7
<1>9. QED
  BY <1>8 DEF Last

\* The directories have the cluster new behind last.
Longer(f, g, b, b2, D, F, last, new) ==
  /\ \E dp2 : Tree(g, b2, D \cup {new}, F, dp2)
  /\ Heads(g, D \cup {new}) = Heads(f, D)
  /\ Reached(f, b, D, F) => Reached(g, b2, D \cup {new}, F)
  /\ \A x \in D : last \in Chain(f, x) => new \in Chain(g, x)

\* fs_add_entry appends an empty cluster to a directory.
LEMMA TreeExtended ==
  ASSUME NEW f \in Fats, NEW b, NEW b2, NEW D, NEW F, NEW dp, Tree(f, b, D, F, dp),
         NEW last \in D, f[last] \notin Clusters,
         NEW new \in Clusters, new \notin D \cup F,
         NEW g, g = Extend(f, last, new),
         \A i \in Slots : At(b2, <<new, i>>) = Zeroed,
         \A q \in D \X Slots : At(b2, q) = At(b, q)
  PROVE  Longer(f, g, b, b2, D, F, last, new)
<1>1. /\ D \subseteq Clusters /\ F \subseteq Clusters /\ D \cap F = {} /\ RootCluster \in D
      /\ Clusters \subseteq Indices /\ Clusters \subseteq Nat
      /\ EOC \notin Clusters /\ EOC # FREE /\ NoCluster \notin Clusters
  BY ClusterFacts DEF Tree, Ground, NoCluster, FREE
<1>2. PICK D2 : D2 = D \cup {new}
  OBVIOUS
<1>3. /\ g[last] = new /\ g[new] = EOC
      /\ \A c \in D2 \cup F : c # last /\ c # new => g[c] = f[c]
      /\ last # new /\ g \in Fats
  BY <1>1, <1>2, ExtendType DEF Extend, Fats
<1>4. \A c \in D2 \cup F : g[c] \in Clusters =>
        \/ c = last /\ g[c] = new
        \/ c \in D \cup F /\ c # last /\ g[c] = f[c] /\ f[c] \in D \cup F
  <2>1. TAKE c \in D2 \cup F
  <2>2. HAVE g[c] \in Clusters
  <2>3. c # new
    BY <1>1, <1>3, <2>2
  <2>4. CASE c # last
    BY <1>2, <1>3, <2>2, <2>3, <2>4 DEF Tree, Ground
  <2>5. QED
    BY <1>3, <2>4
<1>5. Proper(b2, D2) = Proper(b, D) /\ \A q \in Proper(b, D) : At(b2, q) = At(b, q)
  <2>1. \A q \in Proper(b, D) : q \in Proper(b2, D2) /\ At(b2, q) = At(b, q)
    BY <1>2 DEF Proper
  <2>2. ASSUME NEW q \in Proper(b2, D2) PROVE q \in Proper(b, D)
    <3>1. q \in D2 \X Slots /\ IsProper(At(b2, q)) /\ q = <<q[1], q[2]>> /\ q[2] \in Slots
      BY DEF Proper
    <3>2. q[1] # new
      <4>1. SUFFICES ASSUME q[1] = new PROVE FALSE
        OBVIOUS
      <4>2. At(b2, q) = Zeroed
        BY <3>1, <4>1
      <4>3. QED
        BY <3>1, <4>2 DEF IsProper, Zeroed
    <3>3. q \in D \X Slots
      BY <1>2, <3>1, <3>2
    <3>4. QED
      BY <3>1, <3>3 DEF Proper
  <2>3. QED
    BY <2>1, <2>2
<1>6. Ground(g, D2, F)
  <2>1. \A c \in D2 \cup F : g[c] # FREE
    BY <1>1, <1>2, <1>3, ClusterFacts DEF Tree, Ground
  <2>2. \A c \in D2 : g[c] \in Clusters => g[c] \in D2
    BY <1>2, <1>4 DEF Tree, Ground
  <2>3. \A c \in F : g[c] \in Clusters => g[c] \in F
    BY <1>1, <1>4 DEF Tree, Ground
  <2>4. QED
    BY <1>1, <1>2, <2>1, <2>2, <2>3 DEF Ground
<1>7. Entered(b2, D2, F)
  BY <1>2, <1>5 DEF Tree, Entered
<1>8. Once(g, b2, D2, F)
  <2>1. ASSUME NEW c \in D2 \cup F, NEW d \in D2 \cup F, g[c] \in Clusters, g[c] = g[d]
        PROVE  c = d
    <3>1. CASE c = last \/ d = last
      BY <1>3, <1>4, <2>1, <3>1
    <3>2. CASE c # last /\ d # last
      BY <1>4, <2>1, <3>2 DEF Tree, Once
    <3>3. QED
      BY <3>1, <3>2
  <2>2. ASSUME NEW c \in D2 \cup F, NEW q \in Proper(b2, D2), g[c] \in Clusters
        PROVE  g[c] # At(b2, q).first
    <3>1. At(b, q).first # new
      BY <1>1, <1>5 DEF Tree, Entered, Proper, IsProper
    <3>2. QED
      BY <1>4, <1>5, <2>2, <3>1 DEF Tree, Once
  <2>3. ASSUME NEW c \in D2 \cup F
        PROVE  g[c] # RootCluster
    <3>1. RootCluster \in Clusters /\ new # RootCluster
      BY <1>1
    <3>2. QED
      BY <1>4, <3>1 DEF Tree, Once
  <2>4. QED
    BY <1>5, <2>1, <2>2, <2>3 DEF Tree, Once
<1>9. PICK dp2 : dp2 = [c \in Clusters |-> IF c = new THEN dp[last] + 1 ELSE dp[c]]
  OBVIOUS
<1>10. Deeper(g, b2, D2, F, dp2)
  <2>1. dp \in [Clusters -> Nat] /\ last \in Clusters
    BY <1>1 DEF Tree, Deeper
  <2>2. PICK n \in Nat : n = dp[last]
    BY <2>1
  <2>3. dp2[new] = n + 1 /\ dp2[last] = n /\ n < n + 1 /\ n + 1 \in Nat
        /\ \A c \in Clusters : c # new => dp2[c] = dp[c]
    BY <1>3, <1>9, <2>1, <2>2
  <2>4. dp2 \in [Clusters -> Nat]
    BY <1>9, <2>1, <2>2, <2>3
  <2>5. ASSUME NEW c \in D2 \cup F, g[c] \in Clusters
        PROVE  dp2[c] < dp2[g[c]]
    <3>1. CASE c = last
      BY <1>3, <2>3, <3>1
    <3>2. CASE c # last
      <4>1. c \in D \cup F /\ g[c] = f[c] /\ f[c] \in D \cup F /\ c # new /\ f[c] # new
        BY <1>4, <2>5, <3>2
      <4>2. dp[c] < dp[f[c]]
        BY <1>1, <4>1 DEF Tree, Deeper
      <4>3. QED
        BY <1>1, <2>3, <4>1, <4>2
    <3>3. QED
      BY <3>1, <3>2
  <2>6. ASSUME NEW q \in Proper(b2, D2), At(b2, q).first \in Clusters
        PROVE  dp2[q[1]] < dp2[At(b2, q).first]
    <3>1. q \in Proper(b, D) /\ At(b2, q) = At(b, q)
      BY <1>5
    <3>2. q[1] \in D
      BY <3>1 DEF Proper
    <3>3. q[1] \in Clusters /\ q[1] # new
      BY <1>1, <3>2
    <3>4. At(b, q).first # new
      BY <1>1, <3>1 DEF Tree, Entered, Proper, IsProper
    <3>5. dp[q[1]] < dp[At(b, q).first]
      BY <2>6, <3>1 DEF Tree, Deeper
    <3>6. QED
      BY <2>3, <2>6, <3>1, <3>3, <3>4, <3>5
  <2>7. QED
    BY <2>4, <2>5, <2>6 DEF Deeper
<1>11. Heads(g, D2) = Heads(f, D)
  <2>1. ASSUME NEW x \in Heads(g, D2) PROVE x \in Heads(f, D)
    <3>1. x \in D2 /\ x # new /\ \A c \in D2 : g[c] # x
      BY <1>2, <1>3 DEF Heads
    <3>2. x \in D /\ x \in Clusters
      BY <1>1, <1>2, <3>1
    <3>3. f[last] # x
      BY <3>2
    <3>4. \A c \in D : f[c] # x
      BY <1>2, <1>3, <3>1, <3>3
    <3>5. QED
      BY <3>2, <3>4 DEF Heads
  <2>2. ASSUME NEW x \in Heads(f, D) PROVE x \in Heads(g, D2)
    <3>1. x \in D /\ x # new /\ x \in Clusters /\ \A c \in D : f[c] # x
      BY <1>1 DEF Heads
    <3>2. \A c \in D2 : g[c] # x
      BY <1>1, <1>2, <1>3, <3>1
    <3>3. QED
      BY <1>2, <3>1, <3>2 DEF Heads
  <2>3. QED
    BY <2>1, <2>2
<1>12. \A x \in D : Chain(f, x) \subseteq Chain(g, x)
  <2>1. TAKE x \in D
  <2>2. PICK S : S = Chain(g, x)
    OBVIOUS
  <2>3. S \subseteq Clusters /\ x \in S /\ ClosedUnderLinks(g, S)
    BY <1>1, <1>3, <2>2, ChainProperties
  <2>4. PICK T : T = S \cap D
    OBVIOUS
  <2>5. ClosedUnderLinks(f, T)
    <3>1. SUFFICES ASSUME NEW c \in T, f[c] \in Clusters PROVE f[c] \in T
      BY DEF ClosedUnderLinks
    <3>2. c \in D /\ c # last /\ c # new /\ f[c] \in D
      BY <2>4, <3>1 DEF Tree, Ground
    <3>3. g[c] = f[c]
      BY <1>2, <1>3, <3>2
    <3>4. QED
      BY <2>3, <2>4, <3>1, <3>2, <3>3 DEF ClosedUnderLinks
  <2>6. x \in T /\ T \in SUBSET Clusters
    BY <2>3, <2>4
  <2>7. QED
    BY <2>2, <2>4, <2>5, <2>6, ChainWithin
<1>13. Dotted(g, b2, D2)
  <2>1. ASSUME NEW x \in D PROVE At(b2, <<x, 1>>) = At(b, <<x, 1>>) /\ At(b2, <<x, 2>>) = At(b, <<x, 2>>)
    <3>1. <<x, 1>> \in D \X Slots /\ <<x, 2>> \in D \X Slots
      BY FsAssumption DEF Slots
    <3>2. QED
      BY <3>1
  <2>2. ASSUME NEW q \in Proper(b2, D2), At(b2, q).type = "dir"
        PROVE  /\ At(b2, <<At(b2, q).first, 1>>) = DirEntry(".", At(b2, q).first)
               /\ \E h \in Heads(g, D2) : /\ At(b2, <<At(b2, q).first, 2>>) = DirEntry("..", h)
                                          /\ q[1] \in Chain(g, h)
    <3>1. PICK x : x = At(b2, q).first
      OBVIOUS
    <3>2. q \in Proper(b, D) /\ x = At(b, q).first /\ At(b, q).type = "dir"
      BY <1>5, <2>2, <3>1
    <3>3. x \in D
      BY <3>2 DEF Tree, Entered
    <3>4. At(b, <<x, 1>>) = DirEntry(".", x)
      BY <3>2 DEF Tree, Dotted
    <3>5. PICK h \in Heads(f, D) : At(b, <<x, 2>>) = DirEntry("..", h) /\ q[1] \in Chain(f, h)
      BY <3>2 DEF Tree, Dotted
    <3>6. h \in Heads(g, D2) /\ q[1] \in Chain(g, h)
      BY <1>11, <1>12, <3>5 DEF Heads
    <3>7. QED
      BY <2>1, <3>1, <3>3, <3>4, <3>5, <3>6
  <2>3. QED
    BY <1>1, <2>1, <2>2 DEF Tree, Dotted
<1>14. Reached(f, b, D, F) => Reached(g, b2, D2, F)
  <2>1. SUFFICES ASSUME Reached(f, b, D, F), NEW x \in (D2 \cup F) \ {RootCluster}
                 PROVE  \/ \E c \in D2 \cup F : g[c] = x
                        \/ \E q \in Proper(b2, D2) : At(b2, q).first = x
    BY DEF Reached
  <2>2. CASE x = new
    BY <1>2, <1>3, <2>2
  <2>3. CASE x \in (D \cup F) \ {RootCluster}
    <3>1. x \in Clusters
      BY <1>1, <2>3
    <3>2. CASE \E c \in D \cup F : f[c] = x
      <4>1. PICK c \in D \cup F : f[c] = x
        BY <3>2
      <4>2. g[c] = x /\ c \in D2 \cup F
        BY <1>2, <1>3, <3>1, <4>1
      <4>3. QED
        BY <4>2
    <3>3. CASE \E q \in Proper(b, D) : At(b, q).first = x
      BY <1>5, <3>3
    <3>4. QED
      BY <2>1, <2>3, <3>2, <3>3 DEF Reached
  <2>4. QED
    BY <1>2, <2>1, <2>2, <2>3
<1>15. \A x \in D : last \in Chain(f, x) => new \in Chain(g, x)
  <2>1. TAKE x \in D
  <2>2. HAVE last \in Chain(f, x)
  <2>3. last \in Chain(g, x) /\ ClosedUnderLinks(g, Chain(g, x))
    BY <1>1, <1>3, <1>12, <2>2, ChainProperties
  <2>4. QED
    BY <1>3, <2>3 DEF ClosedUnderLinks
<1>16. Tree(g, b2, D2, F, dp2)
  BY <1>6, <1>7, <1>8, <1>10, <1>13 DEF Tree
<1>17. QED
  BY <1>2, <1>11, <1>14, <1>15, <1>16 DEF Longer

-------------------------------------------------------------------------------
\* What the properties of KososFs say about a tree.

LEMMA CountOne ==
  ASSUME NEW S, NEW x, S = {x}
  PROVE  Cardinality(S) = 1
BY FS_Singleton

LEMMA CountNone ==
  ASSUME NEW S, S = {}
  PROVE  Cardinality(S) = 0
BY FS_EmptySet

\* The directories that can be reached from the root.
LEMMA DirsOf ==
  ASSUME NEW f \in Fats, NEW b, NEW D, NEW F, NEW dp, Tree(f, b, D, F, dp)
  PROVE  /\ Dirs(f, b) \subseteq D /\ RootCluster \in Dirs(f, b)
         /\ ClosedUnderLinks(f, Dirs(f, b))
         /\ \A p \in Proper(b, Dirs(f, b)) :
              At(b, p).type = "dir" => At(b, p).first \in Dirs(f, b)
         /\ \A S \in SUBSET Dirs(f, b) :
              /\ RootCluster \in S
              /\ ClosedUnderLinks(f, S)
              /\ \A p \in Proper(b, S) : At(b, p).type = "dir" => At(b, p).first \in S
              => S = Dirs(f, b)
<1> DEFINE Closed(S) ==
             /\ RootCluster \in S
             /\ ClosedUnderLinks(f, S)
             /\ \A p \in Proper(b, S) : At(b, p).type = "dir" => At(b, p).first \in S
           all == {S \in SUBSET Clusters : Closed(S)}
<1>1. Dirs(f, b) = {c \in Clusters : \A S \in all : c \in S}
  <2>1. ASSUME NEW S \in SUBSET Clusters
        PROVE  Closed(S) <=>
                 /\ RootCluster \in S
                 /\ ClosedUnderLinks(f, S)
                 /\ \A c \in S, i \in Slots :
                      ProperAt(b, c, i) /\ b[c][i].type = "dir" => b[c][i].first \in S
    <3>1. (\A p \in Proper(b, S) : At(b, p).type = "dir" => At(b, p).first \in S)
          <=> (\A c \in S, i \in Slots :
                 ProperAt(b, c, i) /\ b[c][i].type = "dir" => b[c][i].first \in S)
      <4>1. ASSUME \A p \in Proper(b, S) : At(b, p).type = "dir" => At(b, p).first \in S,
                   NEW c \in S, NEW i \in Slots, ProperAt(b, c, i), b[c][i].type = "dir"
            PROVE  b[c][i].first \in S
        <5>1. <<c, i>> \in Proper(b, S) /\ At(b, <<c, i>>) = b[c][i]
          BY <4>1 DEF Proper, At, ProperAt
        <5>2. QED
          BY <4>1, <5>1
      <4>2. ASSUME \A c \in S, i \in Slots :
                     ProperAt(b, c, i) /\ b[c][i].type = "dir" => b[c][i].first \in S,
                   NEW p \in Proper(b, S), At(b, p).type = "dir"
            PROVE  At(b, p).first \in S
        <5>1. p[1] \in S /\ p[2] \in Slots /\ ProperAt(b, p[1], p[2])
          BY DEF Proper, At, ProperAt
        <5>2. QED
          BY <4>2, <5>1 DEF At
      <4>3. QED
        BY <4>1, <4>2
    <3>2. QED
      BY <3>1
  <2>2. QED
    BY <2>1 DEF Dirs
<1>2. Closed(D) /\ D \in SUBSET Clusters
  BY DEF Tree, Ground, Entered, ClosedUnderLinks
<1>3. D \in all
  BY <1>2
<1>4. Dirs(f, b) \subseteq D /\ Dirs(f, b) \subseteq Clusters
  BY <1>1, <1>3
<1>5. RootCluster \in Dirs(f, b)
  BY <1>1, FsAssumption
<1>6. ClosedUnderLinks(f, Dirs(f, b))
  <2>1. SUFFICES ASSUME NEW c \in Dirs(f, b), f[c] \in Clusters, NEW S \in all PROVE f[c] \in S
    BY <1>1 DEF ClosedUnderLinks
  <2>2. c \in S
    BY <1>1, <2>1
  <2>3. QED
    BY <2>1, <2>2 DEF ClosedUnderLinks
<1>7. ASSUME NEW p \in Proper(b, Dirs(f, b)), At(b, p).type = "dir"
      PROVE  At(b, p).first \in Dirs(f, b)
  <2>1. p \in Proper(b, D)
    BY <1>4 DEF Proper
  <2>2. At(b, p).first \in Clusters
    BY <1>7, <2>1, EntryIsHead
  <2>3. ASSUME NEW S \in all PROVE At(b, p).first \in S
    <3>1. p[1] \in S
      BY <1>1 DEF Proper
    <3>2. p \in Proper(b, S)
      BY <3>1 DEF Proper
    <3>3. QED
      BY <1>7, <3>2
  <2>4. QED
    BY <1>1, <2>2, <2>3
<1>8. ASSUME NEW S \in SUBSET Dirs(f, b), Closed(S)
      PROVE  S = Dirs(f, b)
  <2>1. S \in all
    BY <1>4, <1>8
  <2>2. QED
    BY <1>1, <2>1
<1>9. QED
  BY <1>4, <1>5, <1>6, <1>7, <1>8

\* Every directory that can be reached has a link or an entry that leads to it.
LEMMA DirsReached ==
  ASSUME NEW f \in Fats, NEW b, NEW D, NEW F, NEW dp, Tree(f, b, D, F, dp),
         NEW x \in Dirs(f, b), x # RootCluster
  PROVE  (\E c \in Dirs(f, b) : f[c] = x) \/ (\E p \in Proper(b, Dirs(f, b)) : At(b, p).first = x)
<1>1. SUFFICES ASSUME \A c \in Dirs(f, b) : f[c] # x,
                      \A p \in Proper(b, Dirs(f, b)) : At(b, p).first # x
               PROVE  FALSE
  OBVIOUS
<1>2. PICK S : S = Dirs(f, b) \ {x}
  OBVIOUS
<1>3. RootCluster \in S
  BY <1>2, DirsOf
<1>4. ClosedUnderLinks(f, S)
  BY <1>1, <1>2, DirsOf DEF ClosedUnderLinks
<1>5. ASSUME NEW p \in Proper(b, S), At(b, p).type = "dir" PROVE At(b, p).first \in S
  <2>1. p \in Proper(b, Dirs(f, b))
    BY <1>2 DEF Proper
  <2>2. At(b, p).first \in Dirs(f, b)
    BY <1>5, <2>1, DirsOf
  <2>3. QED
    BY <1>1, <1>2, <2>1, <2>2
<1>6. S \in SUBSET Dirs(f, b)
  BY <1>2
<1>7. S = Dirs(f, b)
  BY <1>3, <1>4, <1>5, <1>6, DirsOf
<1>8. QED
  BY <1>2, <1>7

\* The clusters of the files that can be reached.
FileClusters(f, b) ==
  {c \in Clusters : \E p \in Proper(b, Dirs(f, b)) :
                      At(b, p).type = "file" /\ c \in Chain(f, At(b, p).first)}

\* They are in the tree, closed under links, and something leads to each of them.
LEMMA FileClustersOf ==
  ASSUME NEW f \in Fats, NEW b, NEW D, NEW F, NEW dp, Tree(f, b, D, F, dp)
  PROVE  /\ FileClusters(f, b) \subseteq F
         /\ ClosedUnderLinks(f, FileClusters(f, b))
         /\ \A p \in Proper(b, Dirs(f, b)) :
              At(b, p).type = "file" => At(b, p).first \in FileClusters(f, b) \cup {NoCluster}
         /\ \A x \in FileClusters(f, b) :
              \/ \E c \in FileClusters(f, b) : f[c] = x
              \/ \E p \in Proper(b, Dirs(f, b)) : At(b, p).first = x
         /\ Used(f, b) = Dirs(f, b) \cup FileClusters(f, b)
<1>1. \A p \in Proper(b, Dirs(f, b)) : p \in Proper(b, D)
  BY DirsOf DEF Proper
<1>2. ASSUME NEW p \in Proper(b, Dirs(f, b)), At(b, p).type = "file"
      PROVE  /\ At(b, p).first \in F \cup {NoCluster}
             /\ Chain(f, At(b, p).first) \subseteq F /\ F \subseteq Clusters
             /\ ClosedUnderLinks(f, Chain(f, At(b, p).first))
             /\ \A c \in Chain(f, At(b, p).first) : c # At(b, p).first =>
                  \E d \in Chain(f, At(b, p).first) : f[d] = c
             /\ At(b, p).first \in F => At(b, p).first \in Chain(f, At(b, p).first)
  <2>1. PICK x : x = At(b, p).first
    OBVIOUS
  <2>2. x \in F \cup {NoCluster} /\ F \subseteq Clusters
    BY <1>1, <1>2, <2>1 DEF Tree, Entered, Ground
  <2>3. CASE x \in F
    <3>1. /\ Chain(f, x) \subseteq F /\ ClosedUnderLinks(f, Chain(f, x)) /\ x \in Chain(f, x)
          /\ \A c \in Chain(f, x) : c # x => \E d \in Chain(f, x) : f[d] = c
      BY <2>2, <2>3, ChainGround, ChainProperties DEF Tree
    <3>2. QED
      BY <2>1, <2>2, <3>1
  <2>4. CASE x \notin F
    <3>1. x \notin Clusters
      BY <2>2, <2>4, ClusterFacts DEF NoCluster, FREE
    <3>2. Chain(f, x) = {}
      BY <3>1, NoChain
    <3>3. QED
      BY <2>1, <2>2, <2>4, <3>2 DEF ClosedUnderLinks
  <2>5. QED
    BY <2>3, <2>4
<1>3. FileClusters(f, b) \subseteq F
  BY <1>2 DEF FileClusters
<1>4. ClosedUnderLinks(f, FileClusters(f, b))
  BY <1>2 DEF FileClusters, ClosedUnderLinks
<1>5. \A p \in Proper(b, Dirs(f, b)) :
        At(b, p).type = "file" => At(b, p).first \in FileClusters(f, b) \cup {NoCluster}
  BY <1>2 DEF FileClusters
<1>6. ASSUME NEW x \in FileClusters(f, b)
      PROVE  \/ \E c \in FileClusters(f, b) : f[c] = x
             \/ \E p \in Proper(b, Dirs(f, b)) : At(b, p).first = x
  <2>1. PICK p \in Proper(b, Dirs(f, b)) : At(b, p).type = "file" /\ x \in Chain(f, At(b, p).first)
    BY DEF FileClusters
  <2>2. SUFFICES ASSUME x # At(b, p).first PROVE \E c \in FileClusters(f, b) : f[c] = x
    OBVIOUS
  <2>3. PICK d \in Chain(f, At(b, p).first) : f[d] = x
    BY <1>2, <2>1, <2>2
  <2>4. d \in FileClusters(f, b)
    BY <1>2, <2>1, <2>3 DEF FileClusters
  <2>5. QED
    BY <2>3, <2>4
<1>7. Used(f, b) = Dirs(f, b) \cup FileClusters(f, b)
  <2>1. ASSUME NEW e \in FilesIn(f, b), NEW c \in Chain(f, e.first)
        PROVE  c \in FileClusters(f, b)
    <3>1. PICK p \in ProperPlaces(f, b) : e = b[p[1]][p[2]] /\ e.type = "file"
      BY DEF FilesIn
    <3>2. p \in Proper(b, Dirs(f, b)) /\ At(b, p) = e
      BY <3>1 DEF ProperPlaces, ProperAt, Proper, At
    <3>3. c \in Clusters
      BY DEF Chain
    <3>4. QED
      BY <3>1, <3>2, <3>3 DEF FileClusters
  <2>2. ASSUME NEW c \in FileClusters(f, b)
        PROVE  \E e \in FilesIn(f, b) : c \in Chain(f, e.first)
    <3>1. PICK p \in Proper(b, Dirs(f, b)) : At(b, p).type = "file" /\ c \in Chain(f, At(b, p).first)
      BY DEF FileClusters
    <3>2. p \in ProperPlaces(f, b) /\ At(b, p) = b[p[1]][p[2]]
      BY DEF ProperPlaces, ProperAt, Proper, At
    <3>3. At(b, p) \in FilesIn(f, b)
      BY <3>1, <3>2 DEF FilesIn
    <3>4. QED
      BY <3>1, <3>3
  <2>3. QED
    BY <2>1, <2>2 DEF Used
<1>8. QED
  BY <1>3, <1>4, <1>5, <1>6, <1>7

\* What can be reached in a tree is a tree.
LEMMA TreeReached ==
  ASSUME NEW f \in Fats, NEW b, NEW D, NEW F, NEW dp, Tree(f, b, D, F, dp)
  PROVE  /\ Tree(f, b, Dirs(f, b), FileClusters(f, b), dp)
         /\ Reached(f, b, Dirs(f, b), FileClusters(f, b))
<1>1. PICK D2, F2 : D2 = Dirs(f, b) /\ F2 = FileClusters(f, b)
  OBVIOUS
<1>2. D2 \subseteq D /\ F2 \subseteq F /\ RootCluster \in D2 /\ D \subseteq Clusters
      /\ F \subseteq Clusters /\ D \cap F = {}
  BY <1>1, DirsOf, FileClustersOf DEF Tree, Ground
<1>3. \A p \in Proper(b, D2) : p \in Proper(b, D)
  BY <1>2 DEF Proper
<1>4. Ground(f, D2, F2)
  <2>1. \A c \in D2 \cup F2 : f[c] # FREE
    BY <1>2 DEF Tree, Ground
  <2>2. \A c \in D2 : f[c] \in Clusters => f[c] \in D2
    BY <1>1, DirsOf DEF ClosedUnderLinks
  <2>3. \A c \in F2 : f[c] \in Clusters => f[c] \in F2
    BY <1>1, FileClustersOf DEF ClosedUnderLinks
  <2>4. QED
    BY <1>2, <2>1, <2>2, <2>3 DEF Ground
<1>5. Entered(b, D2, F2)
  BY <1>1, <1>3, DirsOf, FileClustersOf DEF Tree, Entered
<1>6. Once(f, b, D2, F2)
  BY <1>2, <1>3 DEF Tree, Once
<1>7. Deeper(f, b, D2, F2, dp)
  BY <1>2, <1>3 DEF Tree, Deeper
<1>8. ASSUME NEW h \in Heads(f, D), NEW c \in D2, c \in Chain(f, h)
      PROVE  h \in Heads(f, D2)
  <2>1. SUFFICES ASSUME h \notin D2 PROVE FALSE
    BY <1>2 DEF Heads
  <2>2. h \in D /\ h \in Clusters /\ \A d \in D : f[d] # h
    BY <1>2 DEF Heads
  <2>3. PICK C, S : C = Chain(f, h) /\ S = D2 \ C
    OBVIOUS
  <2>4. C \subseteq D /\ ClosedUnderLinks(f, C) /\ \A d \in C : d # h => \E e \in C : f[e] = d
    BY <2>2, <2>3, ChainGround, ChainProperties DEF Tree
  <2>5. RootCluster \in S
    <3>1. RootCluster # h /\ \A d \in D : f[d] # RootCluster
      BY <1>2, <2>1 DEF Tree, Once
    <3>2. QED
      BY <1>2, <2>3, <2>4, <3>1
  <2>6. ClosedUnderLinks(f, S)
    <3>1. SUFFICES ASSUME NEW d \in S, f[d] \in Clusters, f[d] \in C PROVE FALSE
      BY <1>4, <2>3 DEF ClosedUnderLinks, Ground
    <3>2. d \in D /\ d \notin C
      BY <1>2, <2>3
    <3>3. PICK e \in C : f[e] = f[d]
      BY <2>2, <2>4, <3>1, <3>2
    <3>4. e = d
      BY <2>4, <3>1, <3>2, <3>3 DEF Tree, Once
    <3>5. QED
      BY <3>2, <3>4
  <2>7. ASSUME NEW p \in Proper(b, S), At(b, p).type = "dir" PROVE At(b, p).first \in S
    <3>1. p \in Proper(b, D2) /\ p \in Proper(b, D)
      BY <1>2, <2>3 DEF Proper
    <3>2. At(b, p).first \in D2 /\ At(b, p).first \in Clusters
      BY <1>2, <2>7, <3>1, <1>5 DEF Entered
    <3>3. SUFFICES ASSUME At(b, p).first \in C PROVE FALSE
      BY <2>3, <3>2
    <3>4. At(b, p).first # h
      BY <2>1, <3>2
    <3>5. PICK e \in C : f[e] = At(b, p).first
      BY <2>4, <3>3, <3>4
    <3>6. QED
      BY <2>4, <3>1, <3>2, <3>5 DEF Tree, Once
  <2>8. S \in SUBSET Dirs(f, b)
    BY <1>1, <2>3
  <2>9. S = D2
    BY <1>1, <2>5, <2>6, <2>7, <2>8, DirsOf
  <2>10. QED
    BY <1>8, <2>3, <2>9
<1>9. Dotted(f, b, D2)
  <2>1. ASSUME NEW p \in Proper(b, D2), At(b, p).type = "dir"
        PROVE  /\ At(b, <<At(b, p).first, 1>>) = DirEntry(".", At(b, p).first)
               /\ \E h \in Heads(f, D2) : /\ At(b, <<At(b, p).first, 2>>) = DirEntry("..", h)
                                          /\ p[1] \in Chain(f, h)
    <3>1. p[1] \in D2 /\ p \in Proper(b, D)
      BY <1>3 DEF Proper
    <3>2. QED
      BY <1>8, <2>1, <3>1 DEF Tree, Dotted
  <2>2. QED
    BY <2>1 DEF Tree, Dotted
<1>10. Tree(f, b, D2, F2, dp)
  BY <1>4, <1>5, <1>6, <1>7, <1>9 DEF Tree
<1>11. Reached(f, b, D2, F2)
  <2>1. SUFFICES ASSUME NEW x \in (D2 \cup F2) \ {RootCluster}
                 PROVE  \/ \E c \in D2 \cup F2 : f[c] = x
                        \/ \E p \in Proper(b, D2) : At(b, p).first = x
    BY DEF Reached
  <2>2. CASE x \in D2
    BY <1>1, <2>1, <2>2, DirsReached
  <2>3. CASE x \in F2
    BY <1>1, <2>3, FileClustersOf
  <2>4. QED
    BY <2>1, <2>2, <2>3
<1>12. QED
  BY <1>1, <1>10, <1>11

\* Nothing dangles and no cluster belongs to two: the first two properties.
LEMMA TreeIsSound ==
  ASSUME NEW f \in Fats, NEW b, NEW D, NEW F, NEW dp, Tree(f, b, D, F, dp)
  PROVE  NoDangling(f, b) /\ NoCrossLink(f, b)
<1>1. PICK D2, F2 : D2 = Dirs(f, b) /\ F2 = FileClusters(f, b)
  OBVIOUS
<1>2. Tree(f, b, D2, F2, dp) /\ Reached(f, b, D2, F2) /\ Used(f, b) = D2 \cup F2
  BY <1>1, TreeReached, FileClustersOf
<1>3. NoDangling(f, b)
  BY <1>2 DEF NoDangling, Tree, Ground
<1>4. ProperPlaces(f, b) = Proper(b, D2)
  BY <1>1 DEF ProperPlaces, ProperAt, Proper, At
<1>5. ASSUME NEW c \in D2 \cup F2
      PROVE  Cardinality({p \in Proper(b, D2) : At(b, p).first = c})
               + Cardinality({d \in D2 \cup F2 : f[d] = c}) = IF c = RootCluster THEN 0 ELSE 1
  <2> DEFINE E == {p \in Proper(b, D2) : At(b, p).first = c}
             L == {d \in D2 \cup F2 : f[d] = c}
  <2>1. CASE c = RootCluster
    <3>1. E = {} /\ L = {}
      BY <1>2, <2>1 DEF Tree, Once
    <3>2. Cardinality(E) = 0 /\ Cardinality(L) = 0
      BY <3>1, CountNone
    <3>3. QED
      BY <2>1, <3>2
  <2>2. CASE c # RootCluster
    <3>0. c \in Clusters
      BY <1>2 DEF Tree, Ground
    <3>1. CASE \E d \in D2 \cup F2 : f[d] = c
      <4>1. PICK d \in D2 \cup F2 : f[d] = c
        BY <3>1
      <4>2. L = {d}
        BY <1>2, <3>0, <4>1 DEF Tree, Once
      <4>3. E = {}
        BY <1>2, <3>0, <4>1 DEF Tree, Once
      <4>4. Cardinality(E) = 0 /\ Cardinality(L) = 1
        BY <4>2, <4>3, CountNone, CountOne
      <4>5. QED
        BY <2>2, <4>4
    <3>2. CASE \E p \in Proper(b, D2) : At(b, p).first = c
      <4>1. PICK p \in Proper(b, D2) : At(b, p).first = c
        BY <3>2
      <4>2. E = {p}
        BY <1>2, <3>0, <4>1 DEF Tree, Once
      <4>3. L = {}
        BY <1>2, <3>0, <4>1 DEF Tree, Once
      <4>4. Cardinality(E) = 1 /\ Cardinality(L) = 0
        BY <4>2, <4>3, CountNone, CountOne
      <4>5. QED
        BY <2>2, <4>4
    <3>3. QED
      BY <1>2, <2>2, <3>1, <3>2 DEF Reached
  <2>3. QED
    BY <2>1, <2>2
<1>6. NoCrossLink(f, b)
  <2>1. ASSUME NEW c \in Used(f, b)
        PROVE  Cardinality({p \in ProperPlaces(f, b) : b[p[1]][p[2]].first = c})
                 + Cardinality({d \in Used(f, b) : f[d] = c}) = IF c = RootCluster THEN 0 ELSE 1
    BY <1>2, <1>4, <1>5 DEF At
  <2>2. QED
    BY <2>1 DEF NoCrossLink
<1>7. QED
  BY <1>3, <1>6

\* The parent links agree: the third.
LEMMA TreeHasDots ==
  ASSUME NEW f \in Fats, NEW b, NEW D, NEW F, NEW dp, Tree(f, b, D, F, dp)
  PROVE  DotsLead(f, b)
<1>1. PICK D2, F2 : D2 = Dirs(f, b) /\ F2 = FileClusters(f, b)
  OBVIOUS
<1>2. Tree(f, b, D2, F2, dp) /\ Reached(f, b, D2, F2)
  BY <1>1, TreeReached
<1>3. ProperPlaces(f, b) = Proper(b, D2)
  BY <1>1 DEF ProperPlaces, ProperAt, Proper, At
<1>4. ASSUME NEW d \in DirHeads(f, b)
      PROVE  d \in Heads(f, D2)
  <2>1. CASE d = RootCluster
    BY <1>2, <2>1, RootIsHead
  <2>2. CASE d # RootCluster
    <3>1. PICK p \in Proper(b, D2) : At(b, p).type = "dir" /\ d = At(b, p).first
      BY <1>3, <1>4, <2>2 DEF DirHeads, At
    <3>2. QED
      BY <1>2, <3>1, EntryIsHead
  <2>3. QED
    BY <2>1, <2>2
<1>5. SUFFICES ASSUME NEW d \in DirHeads(f, b)
               PROVE  /\ b[d][1] = DirEntry(".", d)
                      /\ d = RootCluster => b[d][2] = DirEntry("..", d)
                      /\ \A c \in Chain(f, d), i \in Slots :
                           ProperAt(b, c, i) /\ b[c][i].type = "dir" =>
                             b[b[c][i].first][2] = DirEntry("..", d)
  BY DEF DotsLead
<1>6. d \in Heads(f, D2)
  BY <1>4
<1>7. b[d][1] = DirEntry(".", d)
  BY <1>2, <1>6, DotsOf DEF At
<1>8. d = RootCluster => b[d][2] = DirEntry("..", d)
  BY <1>2 DEF Tree, Dotted, At
<1>9. ASSUME NEW c \in Chain(f, d), NEW i \in Slots, ProperAt(b, c, i), b[c][i].type = "dir"
      PROVE  b[b[c][i].first][2] = DirEntry("..", d)
  <2>1. PICK p : p = <<c, i>>
    OBVIOUS
  <2>2. c \in D2
    BY <1>2, <1>6, ChainGround DEF Tree, Heads
  <2>3. p \in Proper(b, D2) /\ At(b, p) = b[c][i] /\ p[1] = c
    BY <1>9, <2>1, <2>2 DEF Proper, ProperAt, At
  <2>4. PICK h \in Heads(f, D2) : At(b, <<At(b, p).first, 2>>) = DirEntry("..", h) /\ c \in Chain(f, h)
    BY <1>2, <1>9, <2>3 DEF Tree, Dotted
  <2>5. h = d
    BY <1>2, <1>6, <2>4, ChainsApart DEF Tree
  <2>6. QED
    BY <2>3, <2>4, <2>5 DEF At
<1>10. QED
  BY <1>7, <1>8, <1>9

-------------------------------------------------------------------------------
\* Along a chain the depth grows.
LEMMA ChainDeeper ==
  ASSUME NEW f \in Fats, NEW b, NEW D, NEW F, NEW dp, Tree(f, b, D, F, dp),
         NEW x \in D \cup F, NEW c \in Chain(f, x)
  PROVE  c = x \/ dp[x] < dp[c]
<1>1. PICK C : C = Chain(f, x)
  OBVIOUS
<1>2. x \in Clusters /\ x \in C /\ C \subseteq D \cup F /\ C \in SUBSET Clusters /\ ClosedUnderLinks(f, C)
  BY <1>1, ChainGround, ChainProperties DEF Tree, Ground
<1>3. /\ \A e \in Clusters : dp[e] \in Nat
      /\ \A e \in C : f[e] \in Clusters => dp[e] < dp[f[e]]
  BY <1>2 DEF Tree, Deeper
<1> DEFINE S == {e \in C : e = x \/ dp[x] < dp[e]}
<1>4. ASSUME NEW e \in S, f[e] \in Clusters PROVE f[e] \in S
  <2>1. f[e] \in C /\ e \in Clusters
    BY <1>2, <1>4 DEF ClosedUnderLinks
  <2>2. dp[x] \in Nat /\ dp[e] \in Nat /\ dp[f[e]] \in Nat /\ dp[e] < dp[f[e]] /\ (e = x \/ dp[x] < dp[e])
    BY <1>2, <1>3, <1>4, <2>1
  <2>3. dp[x] < dp[f[e]]
    BY <2>2
  <2>4. QED
    BY <2>1, <2>3
<1>5. ClosedUnderLinks(f, S)
  BY <1>4 DEF ClosedUnderLinks
<1>6. Chain(f, x) \subseteq S
  BY <1>2, <1>5, ChainWithin
<1>7. QED
  BY <1>6

\* If something leads to every cluster, every cluster is in use.
LEMMA ReachedAll ==
  ASSUME NEW f \in Fats, NEW b, NEW D, NEW F, NEW dp, Tree(f, b, D, F, dp), Reached(f, b, D, F)
  PROVE  Used(f, b) = D \cup F
<1>1. PICK D2, F2 : D2 = Dirs(f, b) /\ F2 = FileClusters(f, b)
  OBVIOUS
<1>2. /\ D2 \subseteq D /\ F2 \subseteq F /\ D \cap F = {} /\ RootCluster \in D2
      /\ D \subseteq Clusters /\ F \subseteq Clusters /\ Used(f, b) = D2 \cup F2
  BY <1>1, DirsOf, FileClustersOf DEF Tree, Ground
<1>3. dp \in [Clusters -> Nat]
  BY DEF Tree, Deeper
<1> DEFINE S == (D \cup F) \ (D2 \cup F2)
           sizes == {n \in Nat : \E c \in S : n = dp[c]}
<1>4. SUFFICES ASSUME S # {} PROVE FALSE
  BY <1>2
<1>5. PICK n \in sizes : \A m \in sizes : ~(<<m, n>> \in OpToRel(<, Nat))
  <2>1. sizes \subseteq Nat
    OBVIOUS
  <2>2. IsWellFoundedOn(OpToRel(<, Nat), Nat)
    BY NatLessThanWellFounded
  <2>3. sizes # {}
    BY <1>2, <1>3, <1>4
  <2>4. QED
    BY <2>1, <2>2, <2>3, WFMin
<1>6. PICK x \in S : n = dp[x]
  OBVIOUS
<1>7. x \in Clusters /\ x # RootCluster /\ x \in D \cup F
  BY <1>2, <1>6
<1>8. ASSUME NEW c \in D \cup F, dp[c] < dp[x] PROVE c \in D2 \cup F2
  <2>1. SUFFICES ASSUME c \in S PROVE FALSE
    OBVIOUS
  <2>2. dp[c] \in sizes /\ dp[c] \in Nat
    BY <1>2, <1>3, <2>1
  <2>3. <<dp[c], n>> \in OpToRel(<, Nat)
    BY <1>5, <1>6, <1>8, <2>2 DEF OpToRel
  <2>4. QED
    BY <1>5, <2>2, <2>3
<1>9. CASE \E c \in D \cup F : f[c] = x
  <2>1. PICK c \in D \cup F : f[c] = x
    BY <1>9
  <2>2. c \in D2 \cup F2
    BY <1>7, <1>8, <2>1 DEF Tree, Deeper
  <2>3. ClosedUnderLinks(f, D2) /\ ClosedUnderLinks(f, F2)
    BY <1>1, DirsOf, FileClustersOf
  <2>4. QED
    BY <1>6, <1>7, <2>1, <2>2, <2>3 DEF ClosedUnderLinks
<1>10. CASE \E p \in Proper(b, D) : At(b, p).first = x
  <2>1. PICK p \in Proper(b, D) : At(b, p).first = x
    BY <1>10
  <2>2. p \in D \X Slots /\ p[1] \in D /\ dp[p[1]] < dp[x] /\ At(b, p).type \in {"file", "dir"}
    BY <1>7, <2>1 DEF Tree, Deeper, Proper, IsProper
  <2>3. p[1] \in D2
    BY <1>2, <1>8, <2>2
  <2>4. p \in Proper(b, D2)
    BY <2>1, <2>2, <2>3 DEF Proper
  <2>5. x \in D2 \cup F2
    BY <1>1, <1>7, <2>1, <2>2, <2>4, DirsOf, FileClustersOf, ClusterFacts DEF NoCluster, FREE
  <2>6. QED
    BY <1>6, <2>5
<1>11. QED
  BY <1>7, <1>9, <1>10 DEF Reached

-------------------------------------------------------------------------------
\* The chain that fs_alloc_cluster makes has all the clusters it has taken.
LEMMA AllocCovers ==
  ASSUME NEW f \in Fats, NEW n \in Nat \ {0}, HasRoom(f, n)
  PROVE  FirstFit(f, n) \subseteq Chain(AllocChain(f, n), Least(FirstFit(f, n)))
<1>1. PICK A, g, y : A = FirstFit(f, n) /\ g = AllocChain(f, n) /\ y = Least(A)
  OBVIOUS
<1>2. A \in SUBSET Clusters /\ A # {} /\ y \in A /\ g \in Fats /\ \A d \in A : y <= d
  BY <1>1, FirstFitFree, FirstFitNonempty, AllocChainType, LeastExists
<1>3. Chain(g, y) \in SUBSET Clusters /\ y \in Chain(g, y) /\ ClosedUnderLinks(g, Chain(g, y))
  BY <1>2, ChainProperties
<1> DEFINE S == A \ Chain(g, y)
<1>4. SUFFICES ASSUME S # {} PROVE FALSE
  BY <1>1
<1>5. PICK m \in S : \A d \in S : m <= d
  <2>1. S \in SUBSET Clusters
    BY <1>2
  <2>2. QED
    BY <1>4, <2>1, LeastExists
<1>6. PICK k \in {d \in A : d < m} : \A d \in {d \in A : d < m} : d <= k
  <2>1. {d \in A : d < m} \in SUBSET Clusters
    BY <1>2
  <2>2. y \in Nat /\ m \in Nat /\ y <= m /\ y # m
    BY <1>2, <1>3, <1>5, ClusterFacts
  <2>3. y < m
    BY <2>2
  <2>4. QED
    BY <1>2, <2>1, <2>3, GreatestExists
<1>7. k \in A /\ k < m /\ m \in A /\ k \in Nat /\ m \in Nat /\ k \in Clusters /\ m \in Clusters
  BY <1>2, <1>5, <1>6, ClusterFacts
<1>8. k \in Chain(g, y)
  <2>1. SUFFICES ASSUME k \in S PROVE FALSE
    BY <1>7
  <2>2. m <= k
    BY <1>5, <2>1
  <2>3. QED
    BY <1>7, <2>2
<1>9. g[k] # EOC
  <2>1. k \in Indices /\ {d \in A : d > k} # {} /\ {d \in A : d > k} \in SUBSET Clusters
    BY <1>2, <1>7, ClusterFacts
  <2>2. g[k] = Least({d \in A : d > k})
    BY <1>1, <1>7, <2>1 DEF AllocChain
  <2>3. g[k] \in Clusters
    BY <2>1, <2>2, LeastExists
  <2>4. QED
    BY <2>3, ClusterFacts
<1>10. g[k] \in A /\ k < g[k] /\ g[k] <= m
  <2>1. k \in Indices
    BY <1>7, ClusterFacts
  <2>2. QED
    BY <1>1, <1>7, <1>9, <2>1, AllocChainLinks
<1>11. g[k] = m
  <2>1. SUFFICES ASSUME g[k] # m PROVE FALSE
    OBVIOUS
  <2>2. PICK z : z = g[k]
    OBVIOUS
  <2>3. z \in A /\ z \in Nat /\ k < z /\ z <= m /\ z # m
    BY <1>2, <1>10, <2>1, <2>2, ClusterFacts
  <2>4. z < m
    BY <1>7, <2>3
  <2>5. z <= k
    BY <1>6, <2>3, <2>4
  <2>6. QED
    BY <1>7, <2>3, <2>5
<1>12. QED
  BY <1>3, <1>5, <1>7, <1>8, <1>11 DEF ClosedUnderLinks

\* A single cluster is linked to nothing.
LEMMA AllocOne ==
  ASSUME NEW f \in Fats, HasRoom(f, 1)
  PROVE  LET y == Least(FirstFit(f, 1)) IN /\ y \in Clusters /\ f[y] = FREE
                                            /\ AllocChain(f, 1)[y] \notin Clusters
                                            /\ FirstFit(f, 1) = {y}
<1>1. PICK A, g, y : A = FirstFit(f, 1) /\ g = AllocChain(f, 1) /\ y = Least(A)
  OBVIOUS
<1>2. 1 \in Nat \ {0}
  OBVIOUS
<1>3. A \in SUBSET Clusters /\ A # {} /\ y \in A /\ y \in Clusters /\ f[y] = FREE /\ \A d \in A : y <= d
  BY <1>1, <1>2, FirstFitFree, FirstFitNonempty, LeastExists
<1>4. ASSUME NEW z \in A PROVE z = y
  <2>1. SUFFICES ASSUME z # y PROVE FALSE
    OBVIOUS
  <2>2. y \in Nat /\ z \in Nat /\ y <= z
    BY <1>3, <1>4, ClusterFacts
  <2>3. y < z
    BY <2>1, <2>2
  <2> DEFINE less == {d \in FreeClusters(f) : d < z}
  <2>4. y \in less
    BY <1>3, <2>3 DEF FreeClusters
  <2>5. IsFiniteSet(less)
    <3>1. less \subseteq Clusters /\ IsFiniteSet(Clusters)
      BY ClusterFacts DEF FreeClusters
    <3>2. QED
      BY <3>1, FS_Subset
  <2>6. Cardinality(less) \in Nat /\ Cardinality(less) # 0
    BY <2>4, <2>5, FS_EmptySet, FS_CardinalityType
  <2>7. Cardinality(less) < 1
    BY <1>1, <1>4 DEF FirstFit
  <2>8. QED
    BY <2>6, <2>7
<1>5. g[y] \notin Clusters
  <2>1. y \in Indices
    BY <1>3, ClusterFacts
  <2>2. SUFFICES ASSUME g[y] \in Clusters PROVE FALSE
    OBVIOUS
  <2>3. g[y] \in A /\ y < g[y]
    BY <1>1, <1>3, <2>1, <2>2, AllocChainLinks, ClusterFacts
  <2>4. g[y] = y
    BY <1>4, <2>3
  <2>5. y \in Nat
    BY <1>3, ClusterFacts
  <2>6. QED
    BY <2>3, <2>4, <2>5
<1>6. A = {y}
  BY <1>3, <1>4
<1>7. QED
  BY <1>1, <1>3, <1>5, <1>6

-------------------------------------------------------------------------------
\* Entries in the clusters on disk, and what a look-up finds.

\* What has changed in a cluster in which one entry has been replaced.
LEMMA WithAt ==
  ASSUME NEW b \in [Clusters -> Blocks], NEW p \in Clusters \X Slots, NEW e \in Entries
  PROVE  /\ With(b, p, e) \in [Clusters -> Blocks]
         /\ At(With(b, p, e), p) = e
         /\ \A q \in Clusters \X Slots : q # p => At(With(b, p, e), q) = At(b, q)
         /\ \A c \in Clusters : c # p[1] => With(b, p, e)[c] = b[c]
<1>1. PICK c, i : c \in Clusters /\ i \in Slots /\ p = <<c, i>>
  OBVIOUS
<1>2. PICK s : s = [b[c] EXCEPT ![i] = e]
  OBVIOUS
<1>3. s \in Blocks /\ s[i] = e /\ \A j \in Slots : j # i => s[j] = b[c][j]
  BY <1>1, <1>2 DEF Blocks
<1>4. With(b, p, e) = [b EXCEPT ![c] = s]
  BY <1>1, <1>2 DEF With
<1>5. PICK w : w = With(b, p, e)
  OBVIOUS
<1>6. w \in [Clusters -> Blocks] /\ w[c] = s /\ \A d \in Clusters : d # c => w[d] = b[d]
  BY <1>1, <1>3, <1>4, <1>5
<1>7. ASSUME NEW q \in Clusters \X Slots, q # p PROVE At(w, q) = At(b, q)
  <2>1. PICK d, j : d \in Clusters /\ j \in Slots /\ q = <<d, j>>
    OBVIOUS
  <2>2. CASE d = c
    <3>1. j # i
      BY <1>1, <1>7, <2>1, <2>2
    <3>2. QED
      BY <1>3, <1>6, <2>1, <2>2, <3>1 DEF At
  <2>3. CASE d # c
    BY <1>6, <2>1, <2>3 DEF At
  <2>4. QED
    BY <2>2, <2>3
<1>8. QED
  BY <1>1, <1>3, <1>5, <1>6, <1>7 DEF At

\* A dot is found in the first cluster of the directory.
LEMMA DotFound ==
  ASSUME NEW i \in {1, 2}, NEW d \in Clusters, NEW n \in Dots, NEW x, NEW y,
         At(block, <<d, 1>>) = DirEntry(".", x), At(block, <<d, 2>>) = DirEntry("..", y),
         n = IF i = 1 THEN "." ELSE "..", fat \in Fats,
         NEW p \in FindEntry(d, n)
  PROVE  p = <<d, i>>
<1>1. PICK C : C = Chain(fat, d)
  OBVIOUS
<1>2. d \in C
  BY <1>1, ChainProperties
<1>3. p \in C \X Slots /\ At(block, p).name = n
      /\ \A q \in C \X Slots : At(block, q).name = n => ~Earlier(fat, q, p)
  BY <1>1 DEF FindEntry, FirstPlace, At
<1>4. {1, 2} \subseteq Slots
  BY FsAssumption DEF Slots
<1>5. PICK q : q = <<d, i>>
  OBVIOUS
<1>6. q \in C \X Slots /\ At(block, q).name = n
  BY <1>2, <1>4, <1>5 DEF DirEntry
<1>7. ~Earlier(fat, q, p)
  BY <1>3, <1>6
<1>8. p[1] = d
  <2>1. p[1] # d => After(fat, d, p[1])
    BY <1>1, <1>3 DEF After
  <2>2. QED
    BY <1>5, <1>7, <2>1 DEF Earlier
<1>9. PICK j : j \in Slots /\ p = <<d, j>>
  BY <1>3, <1>8
<1>10. ~(i < j)
  BY <1>5, <1>7, <1>9 DEF Earlier
<1>11. j \in {1, 2}
  BY <1>9, <1>10, FsAssumption DEF Slots
<1>12. j = i
  <2>1. At(block, <<d, j>>).name = n
    BY <1>3, <1>9
  <2>2. At(block, <<d, 1>>).name = "." /\ At(block, <<d, 2>>).name = ".."
    BY DEF DirEntry
  <2>3. QED
    BY <1>11, <2>1, <2>2
<1>13. QED
  BY <1>9, <1>12

\* What a look-up finds in a directory of the tree.
LEMMA FoundAt ==
  ASSUME fat \in Fats, NEW D, NEW F, NEW dp, Tree(fat, block, D, F, dp), Reached(fat, block, D, F),
         NEW d \in Heads(fat, D), NEW n \in Names \cup Dots, NEW p \in FindEntry(d, n)
  PROVE  /\ p \in D \X Slots /\ p[1] \in Chain(fat, d)
         /\ At(block, p) = EntryAt(p) /\ EntryAt(p).name = n
         /\ n \in Dots => EntryAt(p).type = "dir" /\ EntryAt(p).first \in Heads(fat, D)
         /\ n \notin Dots /\ EntryAt(p).type \in {"file", "dir"} => p \in Proper(block, D)
         /\ EntryAt(p).type = "dir" => EntryAt(p).first \in Heads(fat, D)
<1>1. /\ p \in Chain(fat, d) \X Slots /\ EntryAt(p).name = n /\ At(block, p) = EntryAt(p)
  BY DEF FindEntry, FirstPlace, EntryAt, At
<1>2. d \in D /\ d \in Clusters /\ Chain(fat, d) \subseteq D
  BY ChainGround DEF Tree, Heads, Ground
<1>3. p \in D \X Slots /\ p[1] \in Chain(fat, d)
  BY <1>1, <1>2
<1>4. n \notin Dots /\ EntryAt(p).type \in {"file", "dir"} => p \in Proper(block, D)
  BY <1>1, <1>3 DEF Proper, IsProper
<1>5. ASSUME n \in Dots
      PROVE  EntryAt(p).type = "dir" /\ EntryAt(p).first \in Heads(fat, D)
  <2>1. PICK h \in Heads(fat, D) : At(block, <<d, 1>>) = DirEntry(".", d) /\ At(block, <<d, 2>>) = DirEntry("..", h)
    BY DotsOf
  <2>2. PICK i \in {1, 2} : n = IF i = 1 THEN "." ELSE ".."
    BY <1>5 DEF Dots
  <2>3. p = <<d, i>>
    BY <1>2, <1>5, <2>1, <2>2, DotFound
  <2>4. At(block, p) = DirEntry(n, IF i = 1 THEN d ELSE h)
    BY <2>1, <2>2, <2>3
  <2>5. QED
    BY <1>1, <2>1, <2>4 DEF DirEntry
<1>6. EntryAt(p).type = "dir" => EntryAt(p).first \in Heads(fat, D)
  BY <1>1, <1>4, <1>5, EntryIsHead
<1>7. QED
  BY <1>1, <1>3, <1>4, <1>5, <1>6

\* The tree of a disk that has just been formatted.
LEMMA FormattedTree ==
  ASSUME NEW b, b[RootCluster] = DirBlock(RootCluster, RootCluster)
  PROVE  /\ \E dp : Tree(FormattedFat, b, {RootCluster}, {}, dp)
         /\ Reached(FormattedFat, b, {RootCluster}, {})
         /\ \A c \in Clusters : FormattedFat[c] # FREE => c \in {RootCluster} \cup {}
<1>1. PICK f, D, F : f = FormattedFat /\ D = {RootCluster} /\ F = {}
  OBVIOUS
<1>2. RootCluster \in Clusters /\ f[RootCluster] = EOC /\ \A c \in Clusters : c # RootCluster => f[c] = FREE
  <2>1. RootCluster \in Clusters /\ Clusters \subseteq Indices /\ \A c \in Clusters : c \notin {0, 1}
    BY FsAssumption, ClusterFacts, ClusterAssumption DEF Clusters
  <2>2. QED
    BY <1>1, <2>1 DEF FormattedFat
<1>3. \A i \in Slots : i = 1 \/ i = 2 \/ b[RootCluster][i] = Zeroed
  BY DEF DirBlock
<1>4. {1, 2} \subseteq Slots
  BY FsAssumption DEF Slots
<1>5. At(b, <<RootCluster, 1>>) = DirEntry(".", RootCluster) /\ At(b, <<RootCluster, 2>>) = DirEntry("..", RootCluster)
  BY <1>4 DEF DirBlock, At
<1>6. Proper(b, D) = {}
  <2>1. SUFFICES ASSUME NEW p \in Proper(b, D) PROVE FALSE
    OBVIOUS
  <2>2. PICK i \in Slots : p = <<RootCluster, i>> /\ IsProper(b[RootCluster][i])
    BY <1>1, <2>1 DEF Proper, At
  <2>3. QED
    BY <1>3, <1>5, <2>2 DEF IsProper, DirEntry, Zeroed, Dots, At
<1>7. PICK dp : dp = [c \in Clusters |-> 0]
  OBVIOUS
<1>8. Ground(f, D, F)
  BY <1>1, <1>2, ClusterFacts DEF Ground
<1>9. Entered(b, D, F) /\ Once(f, b, D, F) /\ Dotted(f, b, D)
  <2>1. f[RootCluster] \notin Clusters /\ f[RootCluster] # RootCluster
    BY <1>2, ClusterFacts
  <2>2. QED
    BY <1>1, <1>5, <1>6, <2>1 DEF Entered, Once, Dotted
<1>10. Deeper(f, b, D, F, dp)
  <2>1. f[RootCluster] \notin Clusters
    BY <1>2, ClusterFacts
  <2>2. QED
    BY <1>1, <1>6, <1>7, <2>1 DEF Deeper
<1>11. Tree(f, b, D, F, dp)
  BY <1>8, <1>9, <1>10 DEF Tree
<1>12. Reached(f, b, D, F)
  BY <1>1 DEF Reached
<1>13. QED
  BY <1>1, <1>2, <1>11, <1>12

-------------------------------------------------------------------------------
\* The invariant, step by step of an operation.

\* What leaves allocated clusters without an owner, or two entries with one name.
Omit == {"leak", "duplicate"}

\* The table on disk has the tree.
Agree(D, F) == \A c \in D \cup F : diskFat[c] = fat[c]

\* Nothing is allocated but the tree and the clusters X.
Kept(D, F, X) ==
  Free(Omit) => \A c \in Clusters : fat[c] # FREE => c \in D \cup F \cup X

\* The clusters E, read with the table in memory, are a tree that has the cwd.
Shape(E, D, F, dp) ==
  Tree(fat, E, D, F, dp) /\ Reached(fat, E, D, F) /\ cwd \in Heads(fat, D)

Resting(D, F, dp) == Shape(block, D, F, dp) /\ Agree(D, F)

Still(D, F, dp) == Resting(D, F, dp) /\ Kept(D, F, {})

\* The steps at which a power loss costs nothing.
Firm == pc \in {"off", "idle", "walk", "data", "load"}

\* The disk alone describes a tree.
OnDisk(D, F, dp) ==
  /\ Tree(diskFat, block, D, F, dp)
  /\ Free(Omit) /\ Firm =>
       /\ Reached(diskFat, block, D, F)
       /\ \A c \in Clusters : diskFat[c] # FREE => c \in D \cup F

\* An entry is about to be stored in a free slot of directory loc.cur.
Adding ==
  \/ pc = "data" /\ ~loc.found
  \/ Flushing("initDir") \/ pc = "initDir"
  \/ Flushing("addEntry") \/ pc = "addEntry"

\* The entry at loc.at is about to be replaced.
Storing ==
  \/ pc = "data" /\ loc.found
  \/ Flushing("setEntry") \/ pc = "setEntry"

\* An entry is about to be stored in a new cluster of a directory.
Growing == Flushing("addCluster") \/ pc = "addCluster"

\* The entry and the chain that it brings.  A second dot entry is made only if the
\* first one could not be read.
Incoming(D, F) ==
  /\ loc.cur \in Heads(fat, D)
  /\ loc.entry.name \in Dots => ~Free(Omit)
  /\ loc.entry.name # Empty /\ loc.entry.type \in {"file", "dir"}
  /\ loc.entry.first = NoCluster \/ Apart(fat, D, F, loc.entry.first)
  /\ loc.entry.type = "dir" =>
       loc.entry.first \in Clusters /\ fat[loc.entry.first] \notin Clusters

\* What the step adds to that.
Arriving ==
  /\ Flushing("initDir") \/ pc = "initDir" => loc.entry.type = "dir"
  /\ pc = "data" \/ Flushing("addEntry") => loc.entry.type = "file"
  /\ pc = "addEntry" /\ loc.entry.type = "dir" =>
       block[loc.entry.first] = DirBlock(loc.entry.first, loc.cur)
  /\ pc = "data" => loc.data \in Chain(fat, loc.entry.first)

AddPhase(D, F, dp) ==
  Resting(D, F, dp) /\ Incoming(D, F) /\ Arriving /\ Kept(D, F, Chain(fat, loc.entry.first))

StorePhase(D, F, dp) ==
  /\ Shape(With(block, loc.at, loc.entry), D, F, dp) /\ Kept(D, F, {})
  /\ loc.at \in D \X Slots
  /\ pc = "data" => loc.data \in F
  /\ pc = "setEntry" /\ loc.req.op # "write" => Agree(D, F)

Grown == [block EXCEPT ![loc.data] = [ZeroBlock EXCEPT ![1] = loc.entry]]

GrowPhase(D, F, dp) == Shape(Grown, D, F, dp) /\ Kept(D, F, {}) /\ loc.data \in D

\* The first cluster of the directory that activation i works on.
Due(t) == t.buf[Least(Pending(t))]
HeadOf(i) == IF i = Len(frames) THEN loc.entry.first ELSE Due(frames[i + 1]).first

\* An activation t of fs_remove_dir_contents for the directory h: it has a cluster
\* of the directory in its copy, with less in it than on disk (b), and has emptied
\* the clusters before it.
Working(t, h, f, b, E, D) ==
  /\ t.dir \in D /\ E[t.dir] = t.buf
  /\ \A j \in Slots :
       t.buf[j] = b[t.dir][j] \/ (IsProper(b[t.dir][j]) /\ t.buf[j] = Zeroed)
  /\ ~t.dirty => t.buf = b[t.dir]
  /\ h \in Heads(f, D) /\ t.dir \in Chain(f, h)
  /\ \A c \in Chain(f, h), j \in Slots : c \in Chain(f, t.dir) \/ ~IsProper(E[c][j])

Activation(E, D, i) == Working(frames[i], HeadOf(i), fat, block, E, D)

\* E are the clusters as the copies have them.
Activations(E, D, dp) ==
  /\ frames # <<>> /\ E \in [Clusters -> Blocks]
  /\ \A i \in 1..Len(frames) : Activation(E, D, i)
  /\ \A i \in 2..Len(frames) : Pending(frames[i]) # {} /\ Due(frames[i]).type = "dir"
  /\ \A c \in Clusters : (\A i \in 1..Len(frames) : frames[i].dir # c) => E[c] = block[c]
  /\ \A i, j \in 1..Len(frames) : i < j => dp[frames[j].dir] < dp[frames[i].dir]

ScanPhase(E, D, F, dp) ==
  /\ Shape(E, D, F, dp) /\ Agree(D, F) /\ Kept(D, F, {})
  /\ Activations(E, D, dp)
  /\ loc.rest[1] \notin Dots =>
       loc.at \in Proper(E, D) /\ At(E, loc.at).type = "dir" /\ At(E, loc.at).first = loc.entry.first

Phase(D, F, dp) ==
  /\ pc = "idle" \/ Flushing("return") => Still(D, F, dp)
  /\ pc = "walk" => Still(D, F, dp) /\ loc.cur \in Heads(fat, D)
  /\ Adding => AddPhase(D, F, dp)
  /\ Storing => StorePhase(D, F, dp)
  /\ Growing => GrowPhase(D, F, dp)
  /\ pc = "data" => \E F0, dp0 : OnDisk(D, F0, dp0)
  /\ pc = "scan" => \E E : ScanPhase(E, D, F, dp)

MemInv == ready /\ Free(Strays) => \E D, F, dp : Phase(D, F, dp)

DiskInv == super /\ ~Exposed /\ Free(Strays) => \E D, F, dp : OnDisk(D, F, dp)

\* The steps between the writes of an operation, with any number of mishaps.
CtlInv ==
  /\ pc = "walk" => ~loc.found
  /\ pc = "data" \/ Flushing("setEntry") => loc.req.op = "write"
  /\ pc = "load" => super
  /\ Flushing("formatRoot") \/ pc = "formatRoot" => super /\ fat = FormattedFat
  /\ pc = "formatSuper" => ~super /\ fat = FormattedFat
  /\ pc = "flush" => FlushedSoFar
  /\ pc \in {"initDir", "addCluster", "formatRoot"} => diskFat = fat
  /\ pc = "setEntry" /\ loc.req.op = "write" => diskFat = fat
  /\ pc = "addEntry" /\ loc.entry.first # NoCluster => diskFat = fat

OnlineInv ==
  \/ pc \in {"walk", "data", "initDir", "addEntry", "addCluster", "setEntry", "scan", "halted"}
  \/ pc = "flush" /\ loc.then # "formatRoot"
  => ready

SoundInv == CtlInv /\ OnlineInv /\ MemInv /\ DiskInv

\* What an action may rely on.
Given == TypeInv /\ TypeInv' /\ SyncInv /\ SyncInv' /\ SoundInv /\ marks \subseteq marks'

-------------------------------------------------------------------------------
\* The ways in which a step keeps the invariant.

\* Marks are never taken back.
LEMMA FreeBefore ==
  ASSUME NEW m, marks \subseteq marks', Free(m)'
  PROVE  Free(m)
BY DEF Free

\* Nothing is promised after a mishap.
LEMMA Strayed ==
  ASSUME ~Free(Strays)'
  PROVE  MemInv' /\ DiskInv'
BY DEF MemInv, DiskInv

\* Between the operations there is nothing to say of their steps.
LEMMA CtlQuiet ==
  ASSUME pc' \in {"off", "idle", "walk", "scan", "halted"}, pc' = "walk" => ~loc'.found
  PROVE  CtlInv'
BY DEF CtlInv, Flushing

\* The file system stays online.
LEMMA OnlineKept ==
  ASSUME ready'
  PROVE  OnlineInv'
BY DEF OnlineInv

\* The start of a flush.
LEMMA ToFlush ==
  ASSUME NEW l \in Locals, NEW label \in {"initDir", "addEntry", "addCluster", "setEntry", "return"},
         StartFlush(l, label), label = "setEntry" => l.req.op = "write"
  PROVE  /\ pc' = "flush" /\ loc' = [l EXCEPT !.k = 0, !.then = label]
         /\ loc'.then = label /\ loc'.req = l.req /\ loc'.rest = l.rest /\ loc'.cur = l.cur
         /\ loc'.found = l.found /\ loc'.at = l.at /\ loc'.entry = l.entry /\ loc'.data = l.data
         /\ CtlInv'
<1>1. pc' = "flush" /\ loc' = [l EXCEPT !.k = 0, !.then = label]
  BY DEF StartFlush, Goto
<1>2. /\ loc'.then = label /\ loc'.req = l.req /\ loc'.rest = l.rest /\ loc'.cur = l.cur
      /\ loc'.found = l.found /\ loc'.at = l.at /\ loc'.entry = l.entry /\ loc'.data = l.data
      /\ loc'.k = 0
  BY <1>1 DEF Locals
<1>3. FlushedSoFar'
  BY <1>2, SectorBound DEF FlushedSoFar
<1>4. CtlInv'
  BY <1>1, <1>2, <1>3 DEF CtlInv, Flushing
<1>5. QED
  BY <1>1, <1>2, <1>4

\* A power loss after this step finds what was there before it.
LEMMA DiskKept ==
  ASSUME DiskInv, marks \subseteq marks', UNCHANGED <<super, diskFat, block>>,
         ~Exposed, Firm' /\ Free(Omit)' => Firm
  PROVE  DiskInv'
<1>1. SUFFICES ASSUME super', Free(Strays)'
               PROVE  \E D, F, dp : OnDisk(D, F, dp)'
  BY DEF DiskInv
<1>2. super /\ Free(Strays)
  BY <1>1, FreeBefore
<1>3. PICK D, F, dp : OnDisk(D, F, dp)
  BY <1>2 DEF DiskInv
<1>4. Free(Omit)' => Free(Omit)
  BY FreeBefore
<1>5. OnDisk(D, F, dp)'
  <2>1. Tree(diskFat', block', D, F, dp)
    BY <1>3 DEF OnDisk
  <2>2. ASSUME Free(Omit)', Firm'
        PROVE  /\ Reached(diskFat', block', D, F)
               /\ \A c \in Clusters : diskFat'[c] # FREE => c \in D \cup F
    BY <1>3, <1>4, <2>2 DEF OnDisk
  <2>3. QED
    BY <2>1, <2>2 DEF OnDisk
<1>6. QED
  BY <1>5

\* The tree in memory is on disk, too.
LEMMA DiskRests ==
  ASSUME TypeInv', NEW D, NEW F, NEW dp, Resting(D, F, dp)',
         Firm' /\ Free(Omit)' => Kept(D, F, {})' /\ (Free(Strays)' => diskFat' = fat')
  PROVE  DiskInv' /\ (Free(Strays)' => OnDisk(D, F, dp)')
<1>1. SUFFICES ASSUME Free(Strays)'
               PROVE  OnDisk(D, F, dp)'
  BY DEF DiskInv
<1>2. fat' \in Fats /\ diskFat' \in Fats
  BY DEF TypeInv, TypeOK
<1>3. /\ Tree(fat', block', D, F, dp) /\ Reached(fat', block', D, F)
      /\ \A c \in D \cup F : diskFat'[c] = fat'[c]
  BY DEF Resting, Shape, Agree
<1>4. Tree(diskFat', block', D, F, dp) /\ Reached(diskFat', block', D, F)
  BY <1>2, <1>3, TreeSame
<1>5. ASSUME Free(Omit)', Firm' PROVE \A c \in Clusters : diskFat'[c] # FREE => c \in D \cup F
  BY <1>1, <1>5 DEF Kept
<1>6. QED
  BY <1>4, <1>5 DEF OnDisk

\* The operation ends.
LEMMA ToIdle ==
  ASSUME TypeInv', SyncInv', ready', pc' = "idle", NEW D, NEW F, NEW dp, Still(D, F, dp)'
  PROVE  SoundInv'
<1>1. CtlInv' /\ OnlineInv'
  BY CtlQuiet, OnlineKept
<1>2. MemInv'
  <2>1. Phase(D, F, dp)'
    BY DEF Phase, Adding, Storing, Growing, Flushing
  <2>2. QED
    BY <2>1 DEF MemInv
<1>3. Free(Omit)' /\ Free(Strays)' => diskFat' = fat'
  <2>1. Free(Omit)' /\ Free(Strays)' => Free(Lost)'
    BY DEF Free, Omit, Strays, Breaks, Lost
  <2>2. QED
    BY <2>1 DEF SyncInv, FollowInv, Synced
<1>4. Resting(D, F, dp)' /\ Kept(D, F, {})'
  BY DEF Still
<1>5. DiskInv'
  BY <1>3, <1>4, DiskRests
<1>6. QED
  BY <1>1, <1>2, <1>5 DEF SoundInv

\* The walk goes on.
LEMMA ToWalk ==
  ASSUME TypeInv', SyncInv', ready', pc' = "walk", NEW D, NEW F, NEW dp, Still(D, F, dp)',
         loc'.cur \in Heads(fat', D), ~loc'.found
  PROVE  SoundInv'
<1>1. CtlInv' /\ OnlineInv'
  BY CtlQuiet, OnlineKept
<1>2. MemInv'
  <2>1. Phase(D, F, dp)'
    BY DEF Phase, Adding, Storing, Growing, Flushing
  <2>2. QED
    BY <2>1 DEF MemInv
<1>3. Free(Omit)' /\ Free(Strays)' => diskFat' = fat'
  <2>1. Free(Omit)' /\ Free(Strays)' => Free(Lost)'
    BY DEF Free, Omit, Strays, Breaks, Lost
  <2>2. QED
    BY <2>1 DEF SyncInv, FollowInv, Synced
<1>4. Resting(D, F, dp)' /\ Kept(D, F, {})'
  BY DEF Still
<1>5. DiskInv'
  BY <1>3, <1>4, DiskRests
<1>6. QED
  BY <1>1, <1>2, <1>5 DEF SoundInv

\* A step that touches neither the tables nor the clusters.
LEMMA StillKept ==
  ASSUME NEW D, NEW F, NEW dp, Still(D, F, dp), UNCHANGED <<diskFat, block, fat, cwd>>,
         marks \subseteq marks'
  PROVE  Still(D, F, dp)'
<1>1. Free(Omit)' => Free(Omit)
  BY FreeBefore
<1>2. QED
  BY <1>1 DEF Still, Resting, Shape, Agree, Kept

-------------------------------------------------------------------------------
\* Starting up, the calls, the walk along a path, and a power loss.

\* The tree that a step of a running operation starts from.
LEMMA TreeNow ==
  ASSUME Given, Free(Strays)',
         \/ pc \in {"walk", "data", "initDir", "addEntry", "addCluster", "setEntry", "scan"}
         \/ pc = "flush" /\ loc.then # "formatRoot"
  PROVE  ready /\ Free(Strays) /\ \E D, F, dp : Phase(D, F, dp)
<1>1. ready
  BY DEF Given, SoundInv, OnlineInv
<1>2. Free(Strays)
  BY FreeBefore DEF Given
<1>3. QED
  BY <1>1, <1>2 DEF Given, SoundInv, MemInv

\* A mishap that spoils the tree.
LEMMA Spoilt ==
  ASSUME ~Free(Strays)', CtlInv', OnlineInv'
  PROVE  SoundInv'
BY Strayed DEF SoundInv

\* Where the walk of a call starts.
LEMMA WalkStarts ==
  ASSUME NEW D, NEW F, NEW dp, Still(D, F, dp), NEW r
  PROVE  StartWalk(r).cur \in Heads(fat, D)
<1>1. RootCluster \in Heads(fat, D) /\ cwd \in Heads(fat, D)
  BY RootIsHead DEF Still, Resting, Shape
<1>2. StartWalk(r).cur = IF r.path.abs THEN RootCluster ELSE cwd
  BY DEF StartWalk, NoLocals
<1>3. QED
  BY <1>1, <1>2

\* Looking a name up, and the change of directory.
LEMMA WalkSound ==
  ASSUME Given, Walk
  PROVE  SoundInv'
<1>1. /\ pc = "walk" /\ pc' \in {"walk", "idle"} /\ UNCHANGED <<ready, fat, diskFat, block, super>>
      /\ loc \in Locals /\ fat \in Fats /\ TypeOK
  BY DEF Walk, WalkDot, WalkDown, WalkFails, MissedByWrite, WalkTooLong, Cd, Walking, Running,
         Goto, GiveUp, Return, memory, disk, Given, TypeInv, TypeOK
<1>2. ready /\ ready'
  BY <1>1 DEF Given, SoundInv, OnlineInv
<1>3. CtlInv' /\ OnlineInv'
  <2>1. pc' = "walk" => ~loc'.found
    <3>1. ~loc.found
      BY <1>1 DEF Given, SoundInv, CtlInv
    <3>2. CASE WalkDot \/ WalkDown
      BY <1>1, <3>1, <3>2 DEF WalkDot, WalkDown, Goto, Locals
    <3>3. CASE MissedByWrite
      <4>1. StartWalk(loc.req) \in Locals /\ ~StartWalk(loc.req).found
        <5>1. loc.req \in Requests \cup {NoRequest}
          BY <1>1 DEF Locals
        <5>2. StartWalk(loc.req) \in Locals
          BY <1>1, <5>1, StartWalkType
        <5>3. ~StartWalk(loc.req).found
          BY DEF StartWalk, NoLocals
        <5>4. QED
          BY <5>2, <5>3
      <4>2. QED
        BY <3>3, <4>1 DEF MissedByWrite, Goto, Locals
    <3>4. CASE WalkFails \/ WalkTooLong \/ Cd
      BY <3>4 DEF WalkFails, WalkTooLong, Cd, GiveUp, Return
    <3>5. QED
      BY <3>2, <3>3, <3>4 DEF Walk
  <2>2. QED
    BY <1>1, <1>2, <2>1, CtlQuiet, OnlineKept
<1>4. SUFFICES ASSUME Free(Strays)' PROVE SoundInv'
  BY <1>3, Spoilt
<1>5. PICK D, F, dp : Phase(D, F, dp)
  BY <1>1, <1>4, TreeNow
<1>6. Still(D, F, dp) /\ loc.cur \in Heads(fat, D) /\ marks \subseteq marks'
  BY <1>1, <1>5 DEF Phase, Given
<1>7. CASE cwd' = cwd /\ pc' = "idle"
  <2>1. Still(D, F, dp)'
    BY <1>1, <1>6, <1>7, StillKept
  <2>2. QED
    BY <1>2, <1>7, <2>1, ToIdle DEF Given
<1>8. CASE cwd' = cwd /\ pc' = "walk" /\ loc'.cur \in Heads(fat, D)
  <2>0. ~loc'.found
    BY <1>3, <1>8 DEF CtlInv
  <2>1. Still(D, F, dp)'
    BY <1>1, <1>6, <1>8, StillKept
  <2>2. QED
    BY <1>1, <1>2, <1>8, <2>0, <2>1, ToWalk DEF Given
<1>9. CASE WalkDot
  <2>1. pc' = "walk" /\ cwd' = cwd /\ loc'.cur = loc.cur
    BY <1>1, <1>9 DEF WalkDot, Goto, memory, Locals
  <2>2. QED
    BY <1>6, <1>8, <2>1
<1>10. CASE WalkDown
  <2>1. PICK p \in NextHop : Goto("walk", [loc EXCEPT !.rest = Tail(@), !.cur  = EntryAt(p).first,
                                                      !.path = PathAfter(@, Name)])
    BY <1>10 DEF WalkDown
  <2>2. pc' = "walk" /\ cwd' = cwd /\ loc'.cur = EntryAt(p).first
    BY <1>1, <1>10, <2>1 DEF WalkDown, Goto, memory, Locals
  <2>3. PICK n : n = Name
    OBVIOUS
  <2>4. n \in Names \cup Dots
    BY <1>1, <1>10, <2>3, NameType DEF WalkDown, Walking, Components
  <2>5. p \in FindEntry(loc.cur, n) /\ (n = ".." \/ EntryAt(p).type = "dir")
    BY <2>1, <2>3 DEF NextHop
  <2>6. Tree(fat, block, D, F, dp) /\ Reached(fat, block, D, F)
    BY <1>6 DEF Still, Resting, Shape
  <2>7. EntryAt(p).first \in Heads(fat, D)
    <3>1. n = ".." => n \in Dots
      BY DEF Dots
    <3>2. QED
      BY <1>1, <1>6, <2>4, <2>5, <2>6, <3>1, FoundAt
  <2>8. QED
    BY <1>8, <2>2, <2>7
<1>11. CASE WalkFails \/ WalkTooLong
  BY <1>7, <1>11 DEF WalkFails, WalkTooLong, GiveUp, Return, memory
<1>12. CASE MissedByWrite
  <2>1. pc' = "walk" /\ cwd' = cwd /\ loc' = [StartWalk(loc.req) EXCEPT !.missed = TRUE]
    BY <1>12 DEF MissedByWrite, Goto, memory
  <2>2. StartWalk(loc.req) \in Locals
    BY <1>1, StartWalkType DEF Locals
  <2>3. loc'.cur = StartWalk(loc.req).cur
    BY <2>1, <2>2 DEF Locals
  <2>4. QED
    BY <1>6, <1>8, <2>1, <2>3, WalkStarts
<1>13. CASE Cd
  <2>1. cwd' = loc.cur /\ pc' = "idle" /\ marks' = marks
    BY <1>13 DEF Cd, Return
  <2>2. Still(D, F, dp)'
    BY <1>1, <1>6, <2>1 DEF Still, Resting, Shape, Agree, Kept, Free
  <2>3. QED
    BY <1>2, <2>1, <2>2, ToIdle DEF Given
<1>14. QED
  BY <1>9, <1>10, <1>11, <1>12, <1>13 DEF Walk

\* A new call.
LEMMA CallSound ==
  ASSUME Given, Offline \/ \E r \in Requests : Call(r) \/ CallRoot(r)
  PROVE  SoundInv'
<1>1. /\ pc = "idle" /\ pc' \in {"walk", "idle"} /\ UNCHANGED <<ready, fat, diskFat, block, super, cwd, marks>>
      /\ (pc' = "walk" => ready) /\ (pc' = "walk" => \E r \in Requests : loc' = StartWalk(r))
  BY DEF Offline, Call, CallRoot, Goto, memory, disk
<1>2. CtlInv' /\ OnlineInv'
  <2>1. pc' = "walk" => ~loc'.found
    BY <1>1 DEF StartWalk, NoLocals
  <2>2. QED
    BY <1>1, <2>1, CtlQuiet DEF OnlineInv
<1>3. CASE ~ready
  <2>1. MemInv'
    BY <1>1, <1>3 DEF MemInv
  <2>2. DiskInv'
    BY <1>1, DiskKept DEF Given, SoundInv, Firm, Exposed, Flushing, Running
  <2>3. QED
    BY <1>2, <2>1, <2>2 DEF SoundInv
<1>4. CASE ready
  <2>1. SUFFICES ASSUME Free(Strays)' PROVE SoundInv'
    BY <1>2, Spoilt
  <2>2. Free(Strays)
    BY <2>1, <1>1 DEF Free
  <2>3. PICK D, F, dp : Phase(D, F, dp)
    BY <1>4, <2>2 DEF Given, SoundInv, MemInv
  <2>4. Still(D, F, dp)
    BY <1>1, <2>3 DEF Phase
  <2>5. Still(D, F, dp)'
    BY <1>1, <2>4, StillKept
  <2>6. CASE pc' = "idle"
    BY <1>1, <1>4, <2>5, <2>6, ToIdle DEF Given
  <2>7. CASE pc' = "walk"
    <3>1. loc'.cur \in Heads(fat', D)
      BY <1>1, <2>4, <2>7, WalkStarts
    <3>2. ~loc'.found
      BY <1>2, <2>7 DEF CtlInv
    <3>3. QED
      BY <1>1, <1>4, <2>5, <2>7, <3>1, <3>2, ToWalk DEF Given
  <2>8. QED
    BY <1>1, <2>6, <2>7
<1>5. QED
  BY <1>3, <1>4

\* A power loss, at any step.
LEMMA CrashSound ==
  ASSUME Given, Crash
  PROVE  SoundInv'
<1>1. pc' = "off" /\ ready' = FALSE /\ UNCHANGED <<super, diskFat, block>> /\ marks' = marks \cup CrashMarks
  BY DEF Crash, disk
<1>2. CtlInv' /\ OnlineInv' /\ MemInv'
  BY <1>1, CtlQuiet DEF OnlineInv, MemInv
<1>3. CASE Exposed
  <2>1. CrashMarks \cap Strays # {}
    BY <1>3 DEF Exposed, CrashMarks, Flushing, Running, Strays, Breaks
  <2>2. ~Free(Strays)'
    BY <1>1, <2>1 DEF Free
  <2>3. QED
    BY <1>2, <2>2, Spoilt
<1>4. CASE ~Exposed /\ pc # "formatSuper"
  <2>1. pc \in {"off", "idle", "formatSuper", "formatRoot", "load", "walk", "data",
                "flush", "initDir", "addEntry", "addCluster", "setEntry", "scan", "halted"}
    BY DEF Given, TypeInv, TypeOK
  <2>2. Firm \/ "leak" \in CrashMarks
    BY <1>4, <2>1 DEF Exposed, Firm, CrashMarks, Flushing, Running
  <2>3. Firm' /\ Free(Omit)' => Firm
    BY <1>1, <2>2 DEF Free, Omit
  <2>4. DiskInv'
    BY <1>1, <1>4, <2>3, DiskKept DEF Given, SoundInv
  <2>5. QED
    BY <1>2, <2>4 DEF SoundInv
<1>5. CASE pc = "formatSuper"
  <2>1. ~super'
    BY <1>1, <1>5 DEF Given, SoundInv, CtlInv
  <2>2. QED
    BY <1>2, <2>1 DEF SoundInv, DiskInv
<1>6. QED
  BY <1>3, <1>4, <1>5

\* Starting up.
LEMMA StartingSound ==
  ASSUME Given, Starting
  PROVE  SoundInv'
<1>0. TypeOK /\ loc \in Locals
  BY DEF Given, TypeInv, TypeOK
<1>1. CASE Boot
  <2>1. /\ pc = "off" /\ UNCHANGED <<super, diskFat, block, ready, marks>>
        /\ \/ pc' = "idle"
           \/ pc' = "load" /\ super
           \/ pc' = "formatSuper" /\ ~super /\ fat' = FormattedFat
    <3>1. PICK ok \in Reads : CASE ~ok         -> pc' = "idle" /\ fat' = fat
                                [] ok /\ super  -> pc' = "load" /\ fat' = fat
                                [] ok /\ ~super -> pc' = "formatSuper" /\ fat' = FormattedFat
      BY <1>1 DEF Boot
    <3>2. ok \in BOOLEAN /\ super \in BOOLEAN
      BY <1>0 DEF TypeOK, Reads
    <3>3. \/ pc' = "idle"
          \/ pc' = "load" /\ super
          \/ pc' = "formatSuper" /\ ~super /\ fat' = FormattedFat
      BY <3>1, <3>2
    <3>4. QED
      BY <1>1, <3>3 DEF Boot, disk
  <2>2. ~ready
    BY <2>1 DEF Given, SyncInv, OfflineInv
  <2>3. CtlInv' /\ OnlineInv' /\ MemInv'
    BY <2>1, <2>2 DEF CtlInv, OnlineInv, MemInv, Flushing
  <2>4. DiskInv'
    BY <2>1, DiskKept DEF Given, SoundInv, Firm, Exposed, Flushing, Running
  <2>5. QED
    BY <2>3, <2>4 DEF SoundInv
<1>2. CASE FormatSuper
  <2>1. pc = "formatSuper" /\ UNCHANGED <<diskFat, block, ready, fat>> /\ ~ready /\ fat = FormattedFat
    BY <1>2 DEF FormatSuper, memory, Given, SyncInv, OfflineInv, SoundInv, CtlInv
  <2>2. PICK w \in Writes :
          /\ super' = (w # "lost")
          /\ IF w = "done" THEN StartFlush(loc, "formatRoot") ELSE Goto("idle", loc)
          /\ marks' = IF w = "landed" THEN marks \cup {"halfFormat"} ELSE marks
    BY <1>2 DEF FormatSuper
  <2>3. CASE w = "done"
    <3>1. pc' = "flush" /\ loc'.k = 0 /\ loc'.then = "formatRoot" /\ super'
      BY <1>0, <2>2, <2>3 DEF StartFlush, Goto, Locals
    <3>2. FlushedSoFar'
      BY <3>1, SectorBound DEF FlushedSoFar
    <3>3. CtlInv' /\ OnlineInv' /\ MemInv' /\ DiskInv'
      BY <2>1, <3>1, <3>2 DEF CtlInv, OnlineInv, MemInv, DiskInv, Exposed, Flushing
    <3>4. QED
      BY <3>3 DEF SoundInv
  <2>4. CASE w # "done"
    <3>1. pc' = "idle"
      BY <2>2, <2>4 DEF Goto
    <3>2. CtlInv' /\ OnlineInv' /\ MemInv'
      BY <2>1, <3>1, CtlQuiet DEF OnlineInv, MemInv
    <3>3. DiskInv'
      <4>1. w = "lost" \/ w = "landed"
        BY <2>4 DEF Writes
      <4>2. CASE w = "lost"
        BY <2>2, <4>2 DEF DiskInv
      <4>3. CASE w = "landed"
        BY <2>2, <4>3 DEF DiskInv, Free, Strays, Breaks
      <4>4. QED
        BY <4>1, <4>2, <4>3
    <3>4. QED
      BY <3>2, <3>3 DEF SoundInv
  <2>5. QED
    BY <2>3, <2>4
<1>3. CASE FormatRoot
  <2>1. /\ pc = "formatRoot" /\ UNCHANGED <<ready, fat>> /\ ~ready /\ fat = FormattedFat
        /\ super /\ diskFat = fat
    BY <1>3 DEF FormatRoot, memory, Given, SyncInv, OfflineInv, SoundInv, CtlInv
  <2>2. PICK w \in Writes :
          /\ WriteBlock(RootCluster, DirBlock(RootCluster, RootCluster), w)
          /\ IF w = "done" THEN Goto("load", NoLocals) /\ marks' = marks
                           ELSE Goto("idle", NoLocals) /\ marks' = marks \cup {"halfFormat"}
    BY <1>3 DEF FormatRoot
  <2>3. UNCHANGED <<super, diskFat>>
    BY <2>2 DEF WriteBlock
  <2>4. CASE w = "done"
    <3>1. pc' = "load" /\ block' = [block EXCEPT ![RootCluster] = DirBlock(RootCluster, RootCluster)]
      BY <2>2, <2>4 DEF WriteBlock, Goto
    <3>2. block'[RootCluster] = DirBlock(RootCluster, RootCluster)
      BY <1>0, <3>1, FsAssumption DEF TypeOK
    <3>3. PICK dp : Tree(FormattedFat, block', {RootCluster}, {}, dp)
      BY <3>2, FormattedTree
    <3>4. /\ Reached(FormattedFat, block', {RootCluster}, {})
          /\ \A c \in Clusters : FormattedFat[c] # FREE => c \in {RootCluster} \cup {}
      BY <3>2, FormattedTree
    <3>5. diskFat' = FormattedFat
      BY <2>1, <2>3
    <3>6. PICK D, F : D = {RootCluster} /\ F = {}
      OBVIOUS
    <3>7. OnDisk(D, F, dp)'
      BY <3>3, <3>4, <3>5, <3>6 DEF OnDisk
    <3>8. DiskInv'
      BY <3>7 DEF DiskInv
    <3>9. CtlInv' /\ OnlineInv' /\ MemInv'
      BY <2>1, <2>3, <3>1 DEF CtlInv, OnlineInv, MemInv, Flushing
    <3>10. QED
      BY <3>8, <3>9 DEF SoundInv
  <2>5. CASE w # "done"
    <3>1. pc' = "idle" /\ "halfFormat" \in marks'
      BY <2>2, <2>5 DEF Goto
    <3>2. CtlInv' /\ OnlineInv' /\ ~Free(Strays)'
      BY <3>1, CtlQuiet DEF OnlineInv, Free, Strays, Breaks
    <3>3. QED
      BY <3>2, Spoilt
  <2>6. QED
    BY <2>4, <2>5
<1>4. CASE Load
  <2>1. PICK ok \in Reads : ready' = ok /\ fat' = IF ok THEN diskFat ELSE fat
    BY <1>4 DEF Load
  <2>2. /\ pc = "load" /\ pc' = "idle" /\ cwd' = RootCluster /\ super
        /\ UNCHANGED <<super, diskFat, block, marks>>
    BY <1>4 DEF Load, disk, Given, SoundInv, CtlInv
  <2>3. CtlInv' /\ OnlineInv'
    BY <2>2, CtlQuiet DEF OnlineInv
  <2>4. DiskInv'
    BY <2>2, DiskKept DEF Given, SoundInv, Firm, Exposed, Flushing, Running
  <2>5. MemInv'
    <3>1. SUFFICES ASSUME ready', Free(Strays)' PROVE MemInv'
      BY DEF MemInv
    <3>2. fat' = diskFat /\ Free(Strays) /\ diskFat \in Fats
      BY <1>0, <2>1, <2>2, <3>1 DEF Free, TypeOK, Reads
    <3>3. PICK D, F, dp : OnDisk(D, F, dp)
      BY <2>2, <3>2 DEF Given, SoundInv, DiskInv, Exposed, Flushing, Running
    <3>4. PICK D2, F2 : /\ Tree(diskFat, block, D2, F2, dp) /\ Reached(diskFat, block, D2, F2)
                        /\ Free(Omit) => \A c \in Clusters : diskFat[c] # FREE => c \in D2 \cup F2
      <4>1. CASE Free(Omit)
        <5>1. /\ Tree(diskFat, block, D, F, dp) /\ Reached(diskFat, block, D, F)
              /\ \A c \in Clusters : diskFat[c] # FREE => c \in D \cup F
          BY <2>2, <3>3, <4>1 DEF OnDisk, Firm
        <5>2. QED
          BY <5>1
      <4>2. CASE ~Free(Omit)
        BY <3>2, <3>3, <4>2, TreeReached DEF OnDisk
      <4>3. QED
        BY <4>1, <4>2
    <3>5. RootCluster \in Heads(diskFat, D2)
      BY <3>4, RootIsHead
    <3>6. Still(D2, F2, dp)'
      BY <2>2, <3>2, <3>4, <3>5 DEF Still, Resting, Shape, Agree, Kept, Free
    <3>7. SoundInv'
      BY <2>2, <3>1, <3>6, ToIdle DEF Given
    <3>8. QED
      BY <3>7 DEF SoundInv
  <2>6. QED
    BY <2>3, <2>4, <2>5 DEF SoundInv
<1>5. QED
  BY <1>1, <1>2, <1>3, <1>4 DEF Starting

-------------------------------------------------------------------------------
\* What each operation does before its first write.

\* An entry is to be added.
LEMMA ToAdd ==
  ASSUME TypeInv', ready', CtlInv', Adding', NEW D, NEW F, NEW dp, AddPhase(D, F, dp)',
         pc' = "data" /\ Free(Strays)' => \E F0, dp0 : OnDisk(D, F0, dp0)'
  PROVE  SoundInv'
<1>1. OnlineInv'
  BY OnlineKept
<1>2. MemInv'
  <2>1. ASSUME Free(Strays)' PROVE Phase(D, F, dp)'
    <3>1. /\ pc' \notin {"idle", "walk", "scan"} /\ ~Flushing("return")'
          /\ ~Storing' /\ ~Growing'
      BY DEF Adding, Storing, Growing, Flushing
    <3>2. QED
      BY <2>1, <3>1 DEF Phase
  <2>2. QED
    BY <2>1 DEF MemInv
<1>3. DiskInv'
  <2>1. CASE pc' = "data"
    BY <2>1 DEF DiskInv
  <2>2. CASE pc' # "data"
    <3>1. ~Firm'
      BY <2>2 DEF Adding, Firm, Flushing
    <3>2. QED
      BY <3>1, DiskRests DEF AddPhase
  <2>3. QED
    BY <2>1, <2>2
<1>4. QED
  BY <1>1, <1>2, <1>3 DEF SoundInv

\* An entry is to be replaced.
LEMMA ToStore ==
  ASSUME ready', CtlInv', Storing', NEW D, NEW F, NEW dp, StorePhase(D, F, dp)',
         pc' = "data" /\ Free(Strays)' => \E F0, dp0 : OnDisk(D, F0, dp0)',
         pc' = "setEntry" /\ loc'.req.op # "write" => DiskInv'
  PROVE  SoundInv'
<1>1. OnlineInv'
  BY OnlineKept
<1>2. MemInv'
  <2>1. ASSUME Free(Strays)' PROVE Phase(D, F, dp)'
    <3>1. /\ pc' \notin {"idle", "walk", "scan"} /\ ~Flushing("return")'
          /\ ~Adding' /\ ~Growing'
      BY DEF Adding, Storing, Growing, Flushing
    <3>2. QED
      BY <2>1, <3>1 DEF Phase
  <2>2. QED
    BY <2>1 DEF MemInv
<1>3. DiskInv'
  <2>1. CASE pc' = "data"
    BY <2>1 DEF DiskInv
  <2>2. CASE pc' # "data" /\ (pc' = "setEntry" => loc'.req.op = "write")
    BY <2>2 DEF Storing, DiskInv, Exposed, Flushing, Running
  <2>3. QED
    BY <2>1, <2>2
<1>4. QED
  BY <1>1, <1>2, <1>3 DEF SoundInv

\* A directory is to get another cluster.
LEMMA ToGrow ==
  ASSUME ready', CtlInv', Growing', NEW D, NEW F, NEW dp, GrowPhase(D, F, dp)'
  PROVE  SoundInv'
<1>1. OnlineInv'
  BY OnlineKept
<1>2. MemInv'
  <2>1. /\ pc' \notin {"idle", "walk", "scan", "data"} /\ ~Flushing("return")'
        /\ ~Adding' /\ ~Storing'
    BY DEF Adding, Storing, Growing, Flushing
  <2>2. Phase(D, F, dp)'
    BY <2>1 DEF Phase
  <2>3. QED
    BY <2>2 DEF MemInv
<1>3. DiskInv'
  BY DEF Growing, DiskInv, Exposed, Flushing, Running
<1>4. QED
  BY <1>1, <1>2, <1>3 DEF SoundInv

\* A directory is being emptied.
LEMMA ToScan ==
  ASSUME ready', pc' = "scan", NEW E, NEW D, NEW F, NEW dp, ScanPhase(E, D, F, dp)', DiskInv'
  PROVE  SoundInv'
<1>1. CtlInv' /\ OnlineInv'
  BY CtlQuiet, OnlineKept
<1>2. MemInv'
  <2>1. Phase(D, F, dp)'
    BY DEF Phase, Adding, Storing, Growing, Flushing
  <2>2. QED
    BY <2>1 DEF MemInv
<1>3. QED
  BY <1>1, <1>2 DEF SoundInv

\* The flush that ends a removal.
LEMMA ToReturn ==
  ASSUME TypeInv', ready', CtlInv', Flushing("return")', NEW D, NEW F, NEW dp, Still(D, F, dp)'
  PROVE  SoundInv'
<1>1. OnlineInv'
  BY OnlineKept
<1>2. MemInv'
  <2>1. Phase(D, F, dp)'
    BY DEF Phase, Adding, Storing, Growing, Flushing
  <2>2. QED
    BY <2>1 DEF MemInv
<1>3. DiskInv'
  <2>1. ~Firm'
    BY DEF Firm, Flushing
  <2>2. QED
    BY <2>1, DiskRests DEF Still
<1>4. QED
  BY <1>1, <1>2, <1>3 DEF SoundInv

\* Between the calls and during the walk the disk has the tree as well.
LEMMA WalkOnDisk ==
  ASSUME Given, pc = "walk", Free(Strays), NEW D, NEW F, NEW dp, Still(D, F, dp)
  PROVE  OnDisk(D, F, dp)
<1>1. fat \in Fats /\ diskFat \in Fats /\ ready
  BY DEF Given, TypeInv, TypeOK, SoundInv, OnlineInv
<1>2. /\ Tree(fat, block, D, F, dp) /\ Reached(fat, block, D, F)
      /\ \A c \in D \cup F : diskFat[c] = fat[c]
  BY DEF Still, Resting, Shape, Agree
<1>3. Tree(diskFat, block, D, F, dp) /\ Reached(diskFat, block, D, F)
  BY <1>1, <1>2, TreeSame
<1>4. ASSUME Free(Omit) PROVE \A c \in Clusters : diskFat[c] # FREE => c \in D \cup F
  <2>1. Free(Lost)
    BY <1>4 DEF Free, Omit, Strays, Breaks, Lost
  <2>2. diskFat = fat
    BY <1>1, <2>1 DEF Given, SyncInv, FollowInv, Synced
  <2>3. QED
    BY <1>4, <2>2 DEF Still, Kept
<1>5. QED
  BY <1>3, <1>4 DEF OnDisk

\* What is on disk stays there.
LEMMA OnDiskKept ==
  ASSUME NEW D, NEW F, NEW dp, OnDisk(D, F, dp), UNCHANGED <<diskFat, block>>, marks \subseteq marks',
         Firm' => Firm
  PROVE  OnDisk(D, F, dp)'
<1>1. Free(Omit)' => Free(Omit)
  BY FreeBefore
<1>2. QED
  BY <1>1 DEF OnDisk

\* What an allocation adds to a tree.
LEMMA Allocated ==
  ASSUME NEW f \in Fats, NEW b, NEW D, NEW F, NEW dp, Tree(f, b, D, F, dp), Reached(f, b, D, F),
         NEW n \in Nat \ {0}, HasRoom(f, n),
         NEW g, g = AllocChain(f, n), NEW y, y = Least(FirstFit(f, n))
  PROVE  /\ Tree(g, b, D, F, dp) /\ Reached(g, b, D, F)
         /\ Heads(g, D) = Heads(f, D) /\ \A c \in D \cup F : g[c] = f[c]
         /\ Apart(g, D, F, y) /\ y \in Clusters /\ y \in Chain(g, y)
         /\ \A c \in Clusters : g[c] # FREE => f[c] # FREE \/ c \in Chain(g, y)
<1>1. /\ Tree(g, b, D, F, dp) /\ Reached(g, b, D, F)
      /\ Heads(g, D) = Heads(f, D) /\ \A c \in D \cup F : g[c] = f[c]
  BY AllocKeepsTree
<1>2. Apart(g, D, F, y)
  BY AllocIsApart
<1>3. y \in Clusters /\ y \in Chain(g, y)
  <2>1. y \in Clusters
    BY <1>2 DEF Apart
  <2>2. QED
    BY <2>1, AllocChainType, ChainProperties
<1>4. ASSUME NEW c \in Clusters, g[c] # FREE, f[c] = FREE PROVE c \in Chain(g, y)
  <2>1. c \in FirstFit(f, n)
    BY <1>4, AllocChainLinks, ClusterFacts
  <2>2. QED
    BY <2>1, AllocCovers
<1>5. QED
  BY <1>1, <1>2, <1>3, <1>4

\* No cluster for no data.
LEMMA AllocNone ==
  ASSUME NEW f \in Fats
  PROVE  AllocChain(f, 0) = f
<1>1. FirstFit(f, 0) = {}
  <2>1. SUFFICES ASSUME NEW c \in FirstFit(f, 0) PROVE FALSE
    OBVIOUS
  <2>2. PICK S : S = {d \in FreeClusters(f) : d < c} /\ Cardinality(S) < 0
    BY <2>1 DEF FirstFit
  <2>3. S \subseteq Clusters
    BY <2>2 DEF FreeClusters
  <2>4. IsFiniteSet(S)
    BY <2>3, ClusterFacts, FS_Subset
  <2>5. Cardinality(S) \in Nat
    BY <2>4, FS_CardinalityType
  <2>6. QED
    BY <2>2, <2>5
<1>2. AllocChain(f, 0) = [c \in Indices |-> f[c]]
  BY <1>1 DEF AllocChain
<1>3. QED
  BY <1>2 DEF Fats

\* The table g and the clusters b2 have the tree of f without the chain C.
Cut(f, g, b2, D, F, dp, C) ==
  /\ Tree(g, b2, D \ C, F \ C, dp) /\ Reached(g, b2, D \ C, F \ C)
  /\ Heads(g, D \ C) = Heads(f, D) \ C

\* An entry and the chain it leads to are taken out of the tree.
LEMMA ChainCut ==
  ASSUME NEW f \in Fats, NEW b, NEW b2, NEW D, NEW F, NEW dp, Tree(f, b, D, F, dp), Reached(f, b, D, F),
         NEW p \in Proper(b, D), NEW x, x = At(b, p).first, NEW C, C = Chain(f, x),
         \A q \in Proper(b, D) : q[1] \notin C,
         At(b2, p) = Zeroed, \A q \in (D \ C) \X Slots : q # p => At(b2, q) = At(b, q),
         NEW g, g = FreeChain(f, x)
  PROVE  Cut(f, g, b2, D, F, dp, C)
<1>1. C = Chain(f, At(b, p).first) /\ g = FreeChain(f, At(b, p).first)
  OBVIOUS
<1>2. /\ Tree(FreeChain(f, At(b, p).first), b2, D \ C, F \ C, dp)
      /\ Heads(FreeChain(f, At(b, p).first), D \ C) = Heads(f, D) \ C
      /\ Reached(f, b, D, F) => Reached(FreeChain(f, At(b, p).first), b2, D \ C, F \ C)
  BY <1>1, TreeWithout
<1>3. QED
  BY <1>1, <1>2 DEF Cut

\* The table g and the clusters b2 have the tree of f without the file on C.
TakenOut(f, g, b2, D, F, dp, C) ==
  /\ Tree(g, b2, D, F \ C, dp) /\ Reached(g, b2, D, F \ C)
  /\ Heads(g, D) = Heads(f, D)
  /\ C \cap D = {} /\ g \in Fats
  /\ \A c \in Clusters : g[c] = IF c \in C THEN FREE ELSE f[c]

\* A file is taken out of the tree.
LEMMA FileRemoved ==
  ASSUME NEW f \in Fats, NEW b, NEW b2, NEW D, NEW F, NEW dp, Tree(f, b, D, F, dp), Reached(f, b, D, F),
         NEW p \in Proper(b, D), At(b, p).type = "file", NEW x, x = At(b, p).first,
         At(b2, p) = Zeroed, \A q \in D \X Slots : q # p => At(b2, q) = At(b, q),
         NEW C, C = Chain(f, x), NEW g, g = FreeChain(f, x)
  PROVE  TakenOut(f, g, b2, D, F, dp, C)
<1>1. Ground(f, D, F) /\ Entered(b, D, F)
  BY DEF Tree
<1>2. C \cap D = {}
  <2>1. x \in F \/ x = NoCluster
    BY <1>1 DEF Entered
  <2>2. CASE x \in F
    <3>1. C \subseteq F
      BY <1>1, <2>2, ChainGround
    <3>2. QED
      BY <1>1, <3>1 DEF Ground
  <2>3. CASE x = NoCluster
    <3>1. NoCluster \notin Clusters
      BY ClusterAssumption DEF NoCluster, Clusters
    <3>2. C = {}
      BY <2>3, <3>1, NoChain
    <3>3. QED
      BY <3>2
  <2>4. QED
    BY <2>1, <2>2, <2>3
<1>3. D \ C = D
  BY <1>2
<1>4. \A q \in Proper(b, D) : q[1] \notin C
  BY <1>2 DEF Proper
<1>5. \A q \in (D \ C) \X Slots : q # p => At(b2, q) = At(b, q)
  BY <1>3
<1>6. Cut(f, g, b2, D, F, dp, C)
  BY <1>4, <1>5, ChainCut
<1>7. Heads(f, D) \ C = Heads(f, D)
  BY <1>2 DEF Heads
<1>8. \A c \in Clusters : g[c] = IF c \in C THEN FREE ELSE f[c]
  BY ClusterFacts DEF FreeChain
<1>9. QED
  BY <1>2, <1>3, <1>6, <1>7, <1>8, FreeChainType DEF TakenOut, Cut

DataStarted(f, l, e, y) ==
  /\ loc'.req = l.req /\ loc'.cur = l.cur /\ loc'.found = l.found /\ loc'.at = l.at
  /\ CtlInv'
  /\ \/ /\ pc' = "flush" /\ loc'.then = StoreStep(l) /\ fat' = f /\ loc'.entry = e
     \/ /\ pc' = "data" /\ l.req.size \in Nat \ {0} /\ HasRoom(f, l.req.size)
        /\ fat' = AllocChain(f, l.req.size)
        /\ loc'.entry = [e EXCEPT !.first = y] /\ loc'.data = y

\* What fs_write_file has decided when it starts to write.
LEMMA StartDataSteps ==
  ASSUME TypeOK, NEW f \in Fats, NEW l \in Locals, NEW e \in Entries,
         l.req.size \in 0..MaxSize, l.req.op = "write", StartData(f, l, e),
         NEW y, y = Least(FirstFit(f, l.req.size))
  PROVE  DataStarted(f, l, e, y)
<1>1. CASE l.req.size = 0 /\ StartFlush([l EXCEPT !.entry = e], StoreStep(l))
  <2>1. PICK m : m = [l EXCEPT !.entry = e]
    OBVIOUS
  <2>2. /\ m \in Locals /\ m.req = l.req /\ m.cur = l.cur /\ m.found = l.found /\ m.at = l.at
        /\ m.entry = e
    BY <2>1 DEF Locals
  <2>3. PICK label : label = StoreStep(l)
    OBVIOUS
  <2>4. label \in {"initDir", "addEntry", "addCluster", "setEntry", "return"}
    BY <2>3 DEF StoreStep
  <2>5. StartFlush(m, label) /\ m.req.op = "write"
    BY <1>1, <2>1, <2>2, <2>3
  <2>6. /\ pc' = "flush"
        /\ loc'.then = label /\ loc'.req = m.req /\ loc'.cur = m.cur
        /\ loc'.found = m.found /\ loc'.at = m.at /\ loc'.entry = m.entry
        /\ CtlInv'
    BY <2>2, <2>4, <2>5, ToFlush
  <2>7. fat' = f
    BY <1>1, AllocNone DEF StartData
  <2>8. QED
    BY <2>2, <2>3, <2>6, <2>7 DEF DataStarted
<1>2. CASE l.req.size > 0 /\ Goto("data", AtData(l, e, y))
  <2>1. pc' = "data" /\ loc' = [l EXCEPT !.entry = [e EXCEPT !.first = y], !.data = y, !.k = 1]
    BY <1>2 DEF Goto, AtData
  <2>2. /\ loc'.req = l.req /\ loc'.cur = l.cur /\ loc'.found = l.found /\ loc'.at = l.at
        /\ loc'.entry = [e EXCEPT !.first = y] /\ loc'.data = y
    BY <2>1 DEF Locals
  <2>3. CtlInv'
    BY <2>1, <2>2 DEF CtlInv, Flushing
  <2>4. l.req.size \in Nat \ {0}
    BY <1>2, FsAssumption
  <2>5. QED
    BY <2>1, <2>2, <2>3, <2>4 DEF StartData, DataStarted
<1>3. QED
  BY <1>1, <1>2 DEF StartData

\* The entry that a call has arrived at.
LEMMA Arrives ==
  ASSUME Given, Free(Strays)', NEW op, Arrived(op), ready' = ready
  PROVE  /\ ready' /\ Free(Strays) /\ pc = "walk" /\ loc.req.op = op /\ ~loc.found
         /\ Name \in Names \cup Dots /\ Name # Empty
         /\ \E D, F, dp :
              /\ Still(D, F, dp) /\ loc.cur \in Heads(fat, D) /\ OnDisk(D, F, dp)
              /\ Tree(fat, block, D, F, dp) /\ Reached(fat, block, D, F)
<1>1. pc = "walk" /\ loc.req.op = op /\ TypeOK /\ ~loc.found
  BY DEF Arrived, Running, Given, TypeInv, SoundInv, CtlInv
<1>2. ready /\ Free(Strays) /\ \E D, F, dp : Phase(D, F, dp)
  BY <1>1, TreeNow
<1>3. PICK D, F, dp : Still(D, F, dp) /\ loc.cur \in Heads(fat, D)
  BY <1>1, <1>2 DEF Phase
<1>4. OnDisk(D, F, dp)
  BY <1>1, <1>2, <1>3, WalkOnDisk
<1>5. Tree(fat, block, D, F, dp) /\ Reached(fat, block, D, F)
  BY <1>3 DEF Still, Resting, Shape
<1>6. Name \in Names \cup Dots
  BY <1>1, LastName
<1>7. Name # Empty
  BY <1>6, FsAssumption DEF Dots, Empty
<1>8. QED
  BY <1>1, <1>2, <1>3, <1>4, <1>5, <1>6, <1>7

\* A call that is turned down.
LEMMA RefusedSound ==
  ASSUME Given, NEW op, Arrived(op), pc' = "idle", UNCHANGED <<ready, fat, diskFat, block, cwd>>
  PROVE  SoundInv'
<1>1. SUFFICES ASSUME Free(Strays)' PROVE SoundInv'
  <2>1. CtlInv' /\ OnlineInv'
    BY CtlQuiet DEF OnlineInv
  <2>2. QED
    BY <1>1, <2>1, Spoilt
<1>2. PICK D, F, dp : Still(D, F, dp)
  BY <1>1, Arrives
<1>3. Still(D, F, dp)'
  BY <1>2, StillKept DEF Given
<1>4. ready'
  BY <1>1, Arrives
<1>5. QED
  BY <1>3, <1>4, ToIdle DEF Given

\* A dot entry is found unless the directory cannot be read.
LEMMA HiddenDot ==
  ASSUME TypeOK, NEW D, NEW F, NEW dp, Tree(fat, block, D, F, dp), Reached(fat, block, D, F),
         loc.cur \in Heads(fat, D), NEW ok, ok => Places = {}, marks' = Hidden(ok), Name \in Dots
  PROVE  ~Free(Omit)'
<1>1. PICK d, n, i, C, p : /\ d = loc.cur /\ n = Name /\ i = (IF n = "." THEN 1 ELSE 2)
                           /\ C = Chain(fat, d) /\ p = <<d, i>>
  OBVIOUS
<1>2. d \in Heads(fat, D) /\ n \in Dots /\ n = (IF i = 1 THEN "." ELSE "..") /\ i \in {1, 2} /\ fat \in Fats
  BY <1>1 DEF Dots, TypeOK
<1>3. PICK h : At(block, <<d, 1>>) = DirEntry(".", d) /\ At(block, <<d, 2>>) = DirEntry("..", h)
  BY <1>2, DotsOf
<1>4. d \in D /\ d \in Clusters /\ dp \in [Clusters -> Nat] /\ D \subseteq Clusters
  BY <1>2 DEF Heads, Tree, Ground, Deeper
<1>5. d \in C /\ C \subseteq D
  <2>1. Ground(fat, D, F)
    BY DEF Tree
  <2>2. QED
    BY <1>1, <1>2, <1>4, <2>1, ChainGround
<1>6. p \in C \X Slots /\ At(block, p).name = n
  <2>1. i \in Slots
    BY <1>2, FsAssumption DEF Slots
  <2>2. At(block, p).name = n
    BY <1>1, <1>2, <1>3 DEF DirEntry
  <2>3. QED
    BY <1>1, <1>5, <2>1, <2>2
<1>7. ASSUME NEW q \in C \X Slots, At(block, q).name = n, Earlier(fat, q, p)
      PROVE  FALSE
  <2>1. p[1] = d /\ p[2] = i
    BY <1>1
  <2>2. CASE After(fat, q[1], d)
    <3>1. q[1] \in D /\ q[1] \in Clusters /\ q[1] # d /\ d \in Chain(fat, q[1])
      BY <1>4, <1>5, <2>2 DEF After
    <3>2. dp[q[1]] < dp[d]
      BY <1>2, <3>1, ChainDeeper
    <3>3. dp[d] < dp[q[1]]
      BY <1>1, <1>2, <1>4, <3>1, ChainDeeper
    <3>4. QED
      BY <1>4, <3>1, <3>2, <3>3
  <2>3. CASE q[1] = d /\ q[2] < i
    <3>1. q[2] = 1 /\ i = 2
      BY <1>2, <2>3, FsAssumption DEF Slots
    <3>2. q = <<d, 1>> /\ n = ".."
      BY <1>2, <2>3, <3>1
    <3>3. At(block, q).name = "."
      BY <1>3, <3>2 DEF DirEntry
    <3>4. QED
      BY <1>7, <3>2, <3>3
  <2>4. QED
    BY <1>7, <2>1, <2>2, <2>3 DEF Earlier
<1>8. p \in FirstPlace(d, {n})
  BY <1>1, <1>6, <1>7 DEF FirstPlace, At
<1>9. Places # {}
  BY <1>1, <1>8 DEF Places, FindEntry
<1>10. "duplicate" \in marks'
  BY <1>9 DEF Hidden
<1>11. QED
  BY <1>10 DEF Free, Omit

\* fs_touch
LEMMA TouchSound ==
  ASSUME Given, Touch
  PROVE  SoundInv'
<1>1. PICK e : e = FileEntry(Name, 0, NoCluster)
  OBVIOUS
<1>2. /\ Arrived("touch") /\ UNCHANGED <<ready, fat, diskFat, block, cwd>> /\ loc \in Locals
      /\ pc' = "addEntry" /\ loc' = [loc EXCEPT !.entry = e]
  BY <1>1 DEF Touch, Goto, memory, disk, Given, TypeInv, TypeOK
<1>3. loc'.entry = e /\ loc'.cur = loc.cur
  BY <1>2 DEF Locals
<1>4. e.name = Name /\ e.type = "file" /\ e.first = NoCluster
  BY <1>1 DEF FileEntry
<1>5. CtlInv'
  BY <1>2, <1>3, <1>4 DEF CtlInv, Flushing
<1>6. ready'
  BY <1>2 DEF Given, SoundInv, OnlineInv, Arrived, Running
<1>7. SUFFICES ASSUME Free(Strays)' PROVE SoundInv'
  <2>1. OnlineInv'
    BY <1>6, OnlineKept
  <2>2. QED
    BY <1>5, <1>7, <2>1, Spoilt
<1>8. PICK D, F, dp : /\ Still(D, F, dp) /\ loc.cur \in Heads(fat, D)
                      /\ Tree(fat, block, D, F, dp) /\ Reached(fat, block, D, F)
  BY <1>2, <1>7, Arrives
<1>9. Name # Empty /\ (Name \in Dots => ~Free(Omit)')
  <2>1. Name # Empty
    BY <1>2, <1>7, Arrives
  <2>2. PICK ok \in Reads : (ok => Places = {}) /\ marks' = Hidden(ok)
    BY DEF Touch
  <2>3. Name \in Dots => ~Free(Omit)'
    BY <1>8, <2>2, HiddenDot DEF Given, TypeInv
  <2>4. QED
    BY <2>1, <2>3
<1>10. Still(D, F, dp)'
  BY <1>2, <1>8, StillKept DEF Given
<1>11. AddPhase(D, F, dp)'
  <2>1. Incoming(D, F)'
    BY <1>2, <1>3, <1>4, <1>8, <1>9 DEF Incoming
  <2>2. Arriving'
    BY <1>2, <1>3, <1>4 DEF Arriving, Flushing
  <2>3. NoCluster \notin Clusters
    BY ClusterAssumption DEF NoCluster, Clusters
  <2>4. Chain(fat', loc'.entry.first) = {}
    BY <1>3, <1>4, <2>3, NoChain
  <2>5. Kept(D, F, Chain(fat, loc.entry.first))'
    BY <1>10, <2>4 DEF Still, Kept
  <2>6. Resting(D, F, dp)'
    BY <1>10 DEF Still
  <2>7. QED
    BY <2>1, <2>2, <2>5, <2>6 DEF AddPhase
<1>12. Adding' /\ pc' # "data"
  BY <1>2 DEF Adding
<1>13. QED
  BY <1>5, <1>6, <1>11, <1>12, ToAdd DEF Given

\* fs_mkdir
LEMMA MkdirSound ==
  ASSUME Given, Mkdir
  PROVE  SoundInv'
<1>1. PICK y, e, l : /\ y = Least(FirstFit(fat, 1)) /\ e = DirEntry(Name, y)
                     /\ l = [loc EXCEPT !.entry = e]
  OBVIOUS
<1>2. /\ Arrived("mkdir") /\ UNCHANGED <<ready, diskFat, block, cwd>> /\ TypeOK
      /\ HasRoom(fat, 1) /\ fat' = AllocChain(fat, 1) /\ StartFlush(l, "initDir")
  BY <1>1 DEF Mkdir, disk, Given, TypeInv
<1>3. fat \in Fats /\ loc \in Locals
  BY <1>2 DEF TypeOK
<1>4. y \in Clusters /\ fat'[y] \notin Clusters
  BY <1>1, <1>2, <1>3, AllocOne
<1>5. Name \in Names \cup Dots
  BY <1>2, LastName
<1>6. e \in Entries /\ e.name = Name /\ e.type = "dir" /\ e.first = y
  BY <1>1, <1>4, <1>5, FsAssumption DEF DirEntry, Entries
<1>7. l \in Locals /\ l.entry = e /\ l.cur = loc.cur
  BY <1>1, <1>3, <1>6 DEF Locals
<1>8. pc' = "flush" /\ loc'.then = "initDir" /\ loc'.cur = loc.cur /\ loc'.entry = e /\ CtlInv'
  BY <1>2, <1>7, ToFlush
<1>9. ready'
  BY <1>2 DEF Given, SoundInv, OnlineInv, Arrived, Running
<1>10. SUFFICES ASSUME Free(Strays)' PROVE SoundInv'
  <2>1. OnlineInv'
    BY <1>9, OnlineKept
  <2>2. QED
    BY <1>8, <1>10, <2>1, Spoilt
<1>11. PICK D, F, dp : /\ Still(D, F, dp) /\ loc.cur \in Heads(fat, D)
                      /\ Tree(fat, block, D, F, dp) /\ Reached(fat, block, D, F)
  BY <1>2, <1>10, Arrives
<1>12. Name # Empty /\ (Name \in Dots => ~Free(Omit)')
  <2>1. Name # Empty
    BY <1>2, <1>10, Arrives
  <2>2. PICK ok \in Reads : (ok => Places = {}) /\ marks' = Hidden(ok)
    BY DEF Mkdir
  <2>3. Name \in Dots => ~Free(Omit)'
    BY <1>2, <1>11, <2>2, HiddenDot
  <2>4. QED
    BY <2>1, <2>3
<1>13. /\ Tree(fat', block, D, F, dp) /\ Reached(fat', block, D, F)
       /\ Heads(fat', D) = Heads(fat, D) /\ \A c \in D \cup F : fat'[c] = fat[c]
       /\ Apart(fat', D, F, y) /\ y \in Chain(fat', y)
       /\ \A c \in Clusters : fat'[c] # FREE => fat[c] # FREE \/ c \in Chain(fat', y)
  <2>1. PICK n : n = 1
    OBVIOUS
  <2>2. n \in Nat \ {0} /\ HasRoom(fat, n) /\ fat' = AllocChain(fat, n) /\ y = Least(FirstFit(fat, n))
    BY <1>1, <1>2, <2>1
  <2>3. QED
    BY <1>3, <1>11, <2>2, Allocated
<1>14. Resting(D, F, dp)'
  BY <1>2, <1>11, <1>13 DEF Still, Resting, Shape, Agree
<1>15. Kept(D, F, Chain(fat, loc.entry.first))'
  <2>1. Free(Omit)' => Free(Omit)
    BY FreeBefore DEF Given
  <2>2. Chain(fat', loc'.entry.first) = Chain(fat', y)
    BY <1>6, <1>8
  <2>3. QED
    BY <1>11, <1>13, <2>1, <2>2 DEF Still, Kept
<1>16. AddPhase(D, F, dp)'
  <2>1. Incoming(D, F)'
    BY <1>4, <1>6, <1>8, <1>11, <1>12, <1>13 DEF Incoming
  <2>2. Arriving'
    BY <1>6, <1>8 DEF Arriving, Flushing
  <2>3. QED
    BY <1>14, <1>15, <2>1, <2>2 DEF AddPhase
<1>17. Adding' /\ pc' # "data"
  BY <1>8 DEF Adding, Flushing
<1>18. QED
  BY <1>8, <1>9, <1>16, <1>17, ToAdd DEF Given

\* fs_write_file, for a new file.
LEMMA WriteNewSound ==
  ASSUME Given, WriteNew
  PROVE  SoundInv'
<1>1. PICK e, y : e = FileEntry(Name, loc.req.size, NoCluster) /\ y = Least(FirstFit(fat, loc.req.size))
  OBVIOUS
<1>2. /\ Arrived("write") /\ UNCHANGED <<ready, diskFat, block, cwd>> /\ TypeOK
      /\ StartData(fat, loc, e) /\ loc.req.op = "write"
  BY <1>1 DEF WriteNew, disk, Given, TypeInv, Arrived, Running
<1>3. fat \in Fats /\ loc \in Locals
  BY <1>2 DEF TypeOK
<1>4. loc.req.size \in 0..MaxSize
  BY <1>3, RequestFields DEF Locals
<1>5. Name \in Names \cup Dots
  BY <1>2, LastName
<1>6. e \in Entries /\ e.name = Name /\ e.type = "file" /\ e.first = NoCluster
  BY <1>1, <1>4, <1>5 DEF FileEntry, Entries
<1>7. /\ loc'.cur = loc.cur /\ loc'.found = loc.found
      /\ CtlInv'
      /\ \/ /\ pc' = "flush" /\ loc'.then = StoreStep(loc) /\ fat' = fat /\ loc'.entry = e
         \/ /\ pc' = "data" /\ loc.req.size \in Nat \ {0} /\ HasRoom(fat, loc.req.size)
            /\ fat' = AllocChain(fat, loc.req.size)
            /\ loc'.entry = [e EXCEPT !.first = y] /\ loc'.data = y
  <2>1. DataStarted(fat, loc, e, y)
    BY <1>1, <1>2, <1>3, <1>4, <1>6, StartDataSteps
  <2>2. QED
    BY <2>1 DEF DataStarted
<1>8. ready' /\ ~loc.found
  BY <1>2 DEF Given, SoundInv, OnlineInv, CtlInv, Arrived, Running
<1>9. SUFFICES ASSUME Free(Strays)' PROVE SoundInv'
  <2>1. OnlineInv'
    BY <1>8, OnlineKept
  <2>2. QED
    BY <1>7, <1>9, <2>1, Spoilt
<1>10. PICK D, F, dp : /\ Still(D, F, dp) /\ loc.cur \in Heads(fat, D) /\ OnDisk(D, F, dp)
                       /\ Tree(fat, block, D, F, dp) /\ Reached(fat, block, D, F)
  BY <1>2, <1>9, Arrives
<1>11. Name # Empty /\ (Name \in Dots => ~Free(Omit)')
  <2>1. Name # Empty
    BY <1>2, <1>9, Arrives
  <2>2. PICK ok : ok = ~loc.missed
    OBVIOUS
  <2>3. (ok => Places = {}) /\ marks' = Hidden(ok)
    BY <2>2 DEF WriteNew
  <2>4. Name \in Dots => ~Free(Omit)'
    BY <1>2, <1>10, <2>3, HiddenDot
  <2>5. QED
    BY <2>1, <2>4
<1>12. CASE pc' = "flush" /\ loc'.then = StoreStep(loc) /\ fat' = fat /\ loc'.entry = e
  <2>1. loc'.then = "addEntry"
    BY <1>8, <1>12 DEF StoreStep
  <2>2. Still(D, F, dp)'
    BY <1>2, <1>10, <1>12, StillKept DEF Given
  <2>3. Incoming(D, F)'
    BY <1>6, <1>7, <1>10, <1>11, <1>12 DEF Incoming
  <2>4. Arriving'
    BY <1>6, <1>12, <2>1 DEF Arriving, Flushing
  <2>5. NoCluster \notin Clusters
    BY ClusterAssumption DEF NoCluster, Clusters
  <2>6. Chain(fat', loc'.entry.first) = {}
    BY <1>6, <1>12, <2>5, NoChain
  <2>7. Kept(D, F, Chain(fat, loc.entry.first))'
    BY <2>2, <2>6 DEF Still, Kept
  <2>8. Resting(D, F, dp)'
    BY <2>2 DEF Still
  <2>9. AddPhase(D, F, dp)'
    BY <2>3, <2>4, <2>7, <2>8 DEF AddPhase
  <2>10. Adding' /\ pc' # "data"
    BY <1>12, <2>1 DEF Adding, Flushing
  <2>11. QED
    BY <1>7, <1>8, <2>9, <2>10, ToAdd DEF Given
<1>13. CASE /\ pc' = "data" /\ loc.req.size \in Nat \ {0} /\ HasRoom(fat, loc.req.size)
            /\ fat' = AllocChain(fat, loc.req.size)
            /\ loc'.entry = [e EXCEPT !.first = y] /\ loc'.data = y
  <2>1. /\ Tree(fat', block, D, F, dp) /\ Reached(fat', block, D, F)
        /\ Heads(fat', D) = Heads(fat, D) /\ \A c \in D \cup F : fat'[c] = fat[c]
        /\ Apart(fat', D, F, y) /\ y \in Clusters /\ y \in Chain(fat', y)
        /\ \A c \in Clusters : fat'[c] # FREE => fat[c] # FREE \/ c \in Chain(fat', y)
    <3>1. PICK n : n = loc.req.size
      OBVIOUS
    <3>2. n \in Nat \ {0} /\ HasRoom(fat, n) /\ fat' = AllocChain(fat, n) /\ y = Least(FirstFit(fat, n))
      BY <1>1, <1>13, <3>1
    <3>3. QED
      BY <1>3, <1>10, <3>2, Allocated
  <2>2. loc'.entry.name = Name /\ loc'.entry.type = "file" /\ loc'.entry.first = y
    BY <1>6, <1>13 DEF Entries
  <2>3. Resting(D, F, dp)'
    BY <1>2, <1>10, <2>1 DEF Still, Resting, Shape, Agree
  <2>4. Incoming(D, F)'
    BY <1>7, <1>10, <1>11, <2>1, <2>2 DEF Incoming
  <2>5. Arriving'
    BY <1>13, <2>1, <2>2 DEF Arriving, Flushing
  <2>6. Free(Omit)' => Free(Omit)
    BY FreeBefore DEF Given
  <2>7. Kept(D, F, Chain(fat, loc.entry.first))'
    BY <1>10, <2>1, <2>2, <2>6 DEF Still, Kept
  <2>8. AddPhase(D, F, dp)'
    BY <2>3, <2>4, <2>5, <2>7 DEF AddPhase
  <2>9. OnDisk(D, F, dp)'
    BY <1>2, <1>10, OnDiskKept DEF Given, Firm, Arrived, Running
  <2>10. Adding'
    BY <1>7, <1>8, <1>13 DEF Adding
  <2>11. QED
    BY <1>7, <1>8, <2>8, <2>9, <2>10, ToAdd DEF Given
<1>14. QED
  BY <1>7, <1>12, <1>13

\* A file is put into a free slot of the tree.
LEMMA FileAdded ==
  ASSUME NEW f \in Fats, NEW b, NEW b2, NEW D, NEW F, NEW dp, Tree(f, b, D, F, dp), Reached(f, b, D, F),
         NEW p \in D \X Slots, At(b, p).name = Empty,
         NEW e, At(b2, p) = e, e.type = "file", e.name # Empty, e.name \notin Dots,
         Apart(f, D, F, e.first),
         \A q \in D \X Slots : q # p => At(b2, q) = At(b, q),
         NEW F2, F2 = F \cup Chain(f, e.first)
  PROVE  /\ \E dp2 : Tree(f, b2, D, F2, dp2)
         /\ Reached(f, b2, D, F2)
<1>1. PICK y, C, D2 : y = e.first /\ C = Chain(f, y) /\ D2 = D
  OBVIOUS
<1>2. IsProper(At(b2, p)) /\ At(b2, p).name # Empty /\ y = At(b2, p).first /\ Apart(f, D, F, y)
  BY <1>1 DEF IsProper
<1>3. Brings(f, b2, D, F, p, y, C, D2, F2)
  BY <1>1 DEF Brings
<1>4. C = Chain(f, y)
  BY <1>1
<1>5. Holds(f, b2, D, D2, F2)
  BY <1>2, <1>3, <1>4, TreeWithChain
<1>6. QED
  BY <1>1, <1>5 DEF Holds

\* The entry that a look-up of the last component has found.
LEMMA PlaceFound ==
  ASSUME TypeOK, Name \in Names \cup Dots, NEW D, NEW F, NEW dp,
         Tree(fat, block, D, F, dp), Reached(fat, block, D, F), loc.cur \in Heads(fat, D),
         NEW p \in Places
  PROVE  /\ p \in D \X Slots /\ At(block, p) = EntryAt(p) /\ EntryAt(p) \in Entries /\ p \in Clusters \X Slots
         /\ EntryAt(p).type = "file" => p \in Proper(block, D)
         /\ EntryAt(p).type = "dir" => /\ EntryAt(p).first \in Heads(fat, D)
                                       /\ Name \notin Dots => p \in Proper(block, D)
<1>1. fat \in Fats /\ p \in Clusters \X Slots /\ EntryAt(p) \in Entries
  BY PlaceType DEF TypeOK
<1>2. PICK n, d : n = Name /\ d = loc.cur
  OBVIOUS
<1>3. p \in FindEntry(d, n)
  BY <1>2 DEF Places
<1>4. /\ p \in D \X Slots /\ p[1] \in Chain(fat, d)
      /\ At(block, p) = EntryAt(p) /\ EntryAt(p).name = n
      /\ n \in Dots => EntryAt(p).type = "dir" /\ EntryAt(p).first \in Heads(fat, D)
      /\ n \notin Dots /\ EntryAt(p).type \in {"file", "dir"} => p \in Proper(block, D)
      /\ EntryAt(p).type = "dir" => EntryAt(p).first \in Heads(fat, D)
  BY <1>1, <1>2, <1>3, FoundAt
<1>5. EntryAt(p).type = "file" => n \notin Dots
  BY <1>4
<1>6. QED
  BY <1>1, <1>2, <1>4, <1>5

\* What an entry of the tree has as its name.
LEMMA ProperName ==
  ASSUME NEW f, NEW b, NEW D, NEW F, NEW dp, Tree(f, b, D, F, dp), NEW p \in Proper(b, D)
  PROVE  At(b, p).name # Empty /\ At(b, p).name \notin Dots /\ At(b, p).type \in {"file", "dir"}
BY DEF Tree, Entered, Proper, IsProper

\* fs_write_file, for an existing one.
LEMMA WriteOverSound ==
  ASSUME Given, WriteOver
  PROVE  SoundInv'
<1>1. PICK p \in Overwritable :
        StartData(Released(EntryAt(p)), [loc EXCEPT !.found = TRUE, !.at = p],
                  [EntryAt(p) EXCEPT !.size = loc.req.size, !.first = NoCluster])
  BY DEF WriteOver
<1>2. PICK l, e, x, f, y : /\ l = [loc EXCEPT !.found = TRUE, !.at = p]
                           /\ x = EntryAt(p).first /\ f = FreeChain(fat, x)
                           /\ e = [EntryAt(p) EXCEPT !.size = loc.req.size, !.first = NoCluster]
                           /\ y = Least(FirstFit(f, loc.req.size))
  OBVIOUS
<1>3. /\ Arrived("write") /\ UNCHANGED <<ready, diskFat, block, cwd, marks>> /\ TypeOK
      /\ StartData(f, l, e) /\ loc.req.op = "write"
  BY <1>1, <1>2 DEF WriteOver, disk, Given, TypeInv, Arrived, Running, Released
<1>4. fat \in Fats /\ loc \in Locals /\ block \in [Clusters -> Blocks]
  BY <1>3 DEF TypeOK
<1>5. loc.req.size \in 0..MaxSize
  BY <1>4, RequestFields DEF Locals
<1>6. p \in Places /\ EntryAt(p).type = "file"
  BY DEF Overwritable
<1>7. p \in Clusters \X Slots /\ EntryAt(p) \in Entries
  BY <1>3, <1>6, PlaceType
<1>8. e \in Entries /\ e.name = EntryAt(p).name /\ e.type = "file" /\ e.first = NoCluster
  BY <1>2, <1>5, <1>6, <1>7 DEF Entries
<1>9. l \in Locals /\ l.req = loc.req /\ l.found /\ l.at = p
  BY <1>2, <1>4, <1>7 DEF Locals
<1>10. f \in Fats
  BY <1>2, <1>4, FreeChainType
<1>11. /\ loc'.req = loc.req /\ loc'.found /\ loc'.at = p
       /\ CtlInv'
       /\ \/ /\ pc' = "flush" /\ loc'.then = "setEntry" /\ fat' = f /\ loc'.entry = e
          \/ /\ pc' = "data" /\ loc.req.size \in Nat \ {0} /\ HasRoom(f, loc.req.size)
             /\ fat' = AllocChain(f, loc.req.size)
             /\ loc'.entry = [e EXCEPT !.first = y] /\ loc'.data = y
  <2>1. l.req.op = "write" /\ l.req.size \in 0..MaxSize /\ y = Least(FirstFit(f, l.req.size))
    BY <1>2, <1>3, <1>5, <1>9
  <2>2. DataStarted(f, l, e, y)
    BY <1>3, <1>8, <1>9, <1>10, <2>1, StartDataSteps
  <2>3. QED
    BY <1>9, <2>2 DEF DataStarted, StoreStep
<1>12. ready'
  BY <1>3 DEF Given, SoundInv, OnlineInv, Arrived, Running
<1>13. SUFFICES ASSUME Free(Strays)' PROVE SoundInv'
  <2>1. OnlineInv'
    BY <1>12, OnlineKept
  <2>2. QED
    BY <1>11, <1>13, <2>1, Spoilt
<1>14. PICK D, F, dp : /\ Still(D, F, dp) /\ loc.cur \in Heads(fat, D) /\ OnDisk(D, F, dp)
                       /\ Tree(fat, block, D, F, dp) /\ Reached(fat, block, D, F)
  BY <1>3, <1>13, Arrives
<1>15. Name \in Names \cup Dots
  BY <1>3, <1>13, Arrives
<1>16. /\ p \in D \X Slots /\ At(block, p) = EntryAt(p) /\ p \in Proper(block, D)
  BY <1>3, <1>6, <1>14, <1>15, PlaceFound
<1>17. e.name # Empty
  BY <1>8, <1>14, <1>16, ProperName
<1>18. D \subseteq Clusters
  BY <1>14 DEF Tree, Ground
<1>19. PICK b2, b3, C, F2 : /\ b2 = With(block, p, Zeroed) /\ C = Chain(fat, x) /\ F2 = F \ C
                           /\ b3 = With(block, p, loc'.entry)
  OBVIOUS
<1>20. loc'.entry \in Entries
  <2>1. TypeOK'
    BY DEF Given, TypeInv
  <2>2. loc' \in Locals
    BY <2>1 DEF TypeOK
  <2>3. QED
    BY <2>2 DEF Locals
<1>21. At(b2, p) = Zeroed /\ \A q \in D \X Slots : q # p => At(b2, q) = At(block, q)
  <2>1. Zeroed \in Entries
    BY FsAssumption DEF Zeroed, Entries
  <2>2. /\ At(b2, p) = Zeroed
        /\ \A q \in Clusters \X Slots : q # p => At(b2, q) = At(block, q)
    BY <1>4, <1>7, <1>19, <2>1, WithAt
  <2>3. QED
    BY <1>18, <2>2
<1>22. At(b3, p) = loc'.entry /\ \A q \in D \X Slots : q # p => At(b3, q) = At(block, q)
  <2>2. /\ At(b3, p) = loc'.entry
        /\ \A q \in Clusters \X Slots : q # p => At(b3, q) = At(block, q)
    BY <1>4, <1>7, <1>19, <1>20, WithAt
  <2>3. QED
    BY <1>18, <2>2
<1>23. /\ Tree(f, b2, D, F2, dp) /\ Reached(f, b2, D, F2)
       /\ Heads(f, D) = Heads(fat, D)
       /\ C \cap D = {}
       /\ \A c \in Clusters : f[c] = IF c \in C THEN FREE ELSE fat[c]
  <2>1. At(block, p).type = "file" /\ x = At(block, p).first
    BY <1>2, <1>6, <1>16
  <2>2. TakenOut(fat, f, b2, D, F, dp, C)
    BY <1>2, <1>4, <1>14, <1>16, <1>19, <1>21, <2>1, FileRemoved
  <2>3. QED
    BY <1>19, <2>2 DEF TakenOut
<1>24. At(b2, p).name = Empty
  BY <1>21 DEF Zeroed
<1>25. \A q \in D \X Slots : q # p => At(b3, q) = At(b2, q)
  BY <1>21, <1>22
<1>26. cwd \in Heads(f, D)
  BY <1>14, <1>23 DEF Still, Resting, Shape
<1>27. With(block', loc'.at, loc'.entry) = b3
  BY <1>3, <1>11, <1>19
<1>28. Free(Omit)' => Free(Omit)
  BY FreeBefore DEF Given
<1>29. CASE pc' = "flush" /\ loc'.then = "setEntry" /\ fat' = f /\ loc'.entry = e
  <2>1. Tree(f, b3, D, F2, dp) /\ Reached(f, b3, D, F2)
    <3>1. At(b3, p).name # Empty
      BY <1>17, <1>22, <1>29
    <3>2. At(b3, p).type = "file" /\ At(b3, p).first = NoCluster
      BY <1>8, <1>22, <1>29
    <3>3. QED
      BY <1>10, <1>16, <1>23, <1>24, <1>25, <3>1, <3>2, TreeWithNothing
  <2>2. Shape(With(block, loc.at, loc.entry), D, F2, dp)'
    BY <1>3, <1>26, <1>27, <1>29, <2>1 DEF Shape
  <2>3. Kept(D, F2, {})'
    BY <1>14, <1>19, <1>23, <1>28, <1>29 DEF Still, Kept
  <2>4. StorePhase(D, F2, dp)'
    BY <1>11, <1>16, <1>29, <2>2, <2>3 DEF StorePhase
  <2>5. Storing' /\ pc' # "data" /\ pc' # "setEntry"
    BY <1>29 DEF Storing, Flushing
  <2>6. QED
    BY <1>11, <1>12, <2>4, <2>5, ToStore
<1>30. CASE /\ pc' = "data" /\ loc.req.size \in Nat \ {0} /\ HasRoom(f, loc.req.size)
            /\ fat' = AllocChain(f, loc.req.size)
            /\ loc'.entry = [e EXCEPT !.first = y] /\ loc'.data = y
  <2>1. PICK n, g, Y, F3 : n = loc.req.size /\ g = fat' /\ Y = Chain(g, y) /\ F3 = F2 \cup Y
    OBVIOUS
  <2>2. /\ Tree(g, b2, D, F2, dp) /\ Reached(g, b2, D, F2)
        /\ Heads(g, D) = Heads(f, D) /\ \A c \in D \cup F2 : g[c] = f[c]
        /\ Apart(g, D, F2, y) /\ y \in Clusters /\ y \in Chain(g, y)
        /\ \A c \in Clusters : g[c] # FREE => f[c] # FREE \/ c \in Chain(g, y)
    <3>1. n \in Nat \ {0} /\ HasRoom(f, n) /\ g = AllocChain(f, n) /\ y = Least(FirstFit(f, n))
      BY <1>2, <1>30, <2>1
    <3>2. QED
      BY <1>10, <1>23, <3>1, Allocated
  <2>3. loc'.entry.name = e.name /\ loc'.entry.type = "file" /\ loc'.entry.first = y
    BY <1>8, <1>30 DEF Entries
  <2>4. g \in Fats
    BY <1>10, <1>30, <2>1, AllocChainType
  <2>5. Reached(g, b3, D, F3) /\ \E dp2 : Tree(g, b3, D, F3, dp2)
    <3>1. PICK e3 : e3 = loc'.entry
      OBVIOUS
    <3>2. e3.name # Empty /\ e3.type = "file" /\ e3.first = y /\ At(b3, p) = e3
      BY <1>17, <1>22, <2>3, <3>1
    <3>3. e3.name \notin Dots
      <4>1. e.name \notin Dots
        BY <1>8, <1>14, <1>16, ProperName
      <4>2. QED
        BY <2>3, <3>1, <4>1
    <3>4. Apart(g, D, F2, e3.first) /\ F3 = F2 \cup Chain(g, e3.first)
      BY <2>1, <2>2, <3>2
    <3>5. QED
      BY <1>16, <1>24, <1>25, <2>2, <2>4, <3>2, <3>3, <3>4, FileAdded
  <2>6. PICK dp2 : Tree(g, b3, D, F3, dp2)
    BY <2>5
  <2>7. Shape(With(block, loc.at, loc.entry), D, F3, dp2)'
    BY <1>3, <1>26, <1>27, <2>1, <2>2, <2>5, <2>6 DEF Shape
  <2>8. Kept(D, F3, {})'
    BY <1>14, <1>19, <1>23, <1>28, <2>1, <2>2 DEF Still, Kept
  <2>9. StorePhase(D, F3, dp2)'
    <3>1. loc'.data \in F3
      BY <1>30, <2>1, <2>2
    <3>2. QED
      BY <1>11, <1>16, <1>30, <2>7, <2>8, <3>1 DEF StorePhase
  <2>10. Storing' /\ pc' # "setEntry"
    BY <1>11, <1>30 DEF Storing
  <2>11. OnDisk(D, F, dp)'
    BY <1>3, <1>14, OnDiskKept DEF Given, Firm, Arrived, Running
  <2>12. QED
    BY <1>11, <1>12, <2>9, <2>10, <2>11, ToStore
<1>31. QED
  BY <1>11, <1>29, <1>30

\* The same, on a full disk.
LEMMA WriteOverNoRoomSound ==
  ASSUME Given, WriteOverNoRoom
  PROVE  SoundInv'
<1>1. PICK p \in Overwritable :
        /\ fat' = Released(EntryAt(p))
        /\ GiveUp(IF EntryAt(p).first = NoCluster THEN {} ELSE {"dangling"})
  BY DEF WriteOverNoRoom
<1>2. Arrived("write") /\ UNCHANGED <<ready, diskFat, block, cwd>> /\ TypeOK /\ pc' = "idle"
  BY <1>1 DEF WriteOverNoRoom, disk, GiveUp, Return, Given, TypeInv
<1>3. CASE EntryAt(p).first = NoCluster
  <2>1. fat' = fat
    BY <1>1, <1>2, <1>3, ReleaseNothing DEF Released
  <2>2. QED
    BY <1>2, <2>1, RefusedSound
<1>4. CASE EntryAt(p).first # NoCluster
  <2>1. "dangling" \in marks'
    BY <1>1, <1>4 DEF GiveUp
  <2>2. ~Free(Strays)'
    BY <2>1 DEF Free, Strays, Breaks
  <2>3. CtlInv' /\ OnlineInv'
    BY <1>2, CtlQuiet DEF OnlineInv
  <2>4. QED
    BY <2>2, <2>3, Spoilt
<1>5. QED
  BY <1>3, <1>4

\* The entry is cleared in the clusters that the tree is read from.
LEMMA ClearedAt ==
  ASSUME TypeOK, NEW D \in SUBSET Clusters, NEW p \in D \X Slots, NEW b2, b2 = With(block, p, Zeroed)
  PROVE  At(b2, p) = Zeroed /\ \A q \in D \X Slots : q # p => At(b2, q) = At(block, q)
<1>1. Zeroed \in Entries
  BY FsAssumption DEF Zeroed, Entries
<1>2. p \in Clusters \X Slots /\ block \in [Clusters -> Blocks]
  BY DEF TypeOK
<1>3. /\ At(b2, p) = Zeroed
      /\ \A q \in Clusters \X Slots : q # p => At(b2, q) = At(block, q)
  BY <1>1, <1>2, WithAt
<1>4. QED
  BY <1>3

\* fs_remove_file
LEMMA RmSound ==
  ASSUME Given, Rm
  PROVE  SoundInv'
<1>1. PICK p \in LookedUp("file") :
        /\ fat' = FreeChain(fat, EntryAt(p).first)
        /\ Goto("setEntry", [loc EXCEPT !.at = p, !.entry = Zeroed])
  BY DEF Rm
<1>2. /\ Arrived("rm") /\ UNCHANGED <<super, ready, diskFat, block, cwd>> /\ TypeOK /\ loc.req.op = "rm"
      /\ p \in Places /\ EntryAt(p).type = "file" /\ pc = "walk"
  BY DEF Rm, disk, Given, TypeInv, LookedUp, Arrived, Running
<1>3. fat \in Fats /\ loc \in Locals /\ block \in [Clusters -> Blocks]
  BY <1>2 DEF TypeOK
<1>4. pc' = "setEntry" /\ loc'.at = p /\ loc'.entry = Zeroed /\ loc'.req = loc.req
  BY <1>1, <1>3 DEF Goto, Locals
<1>5. CtlInv'
  BY <1>2, <1>4 DEF CtlInv, Flushing
<1>6. ready'
  BY <1>2 DEF Given, SoundInv, OnlineInv
<1>7. SUFFICES ASSUME Free(Strays)' PROVE SoundInv'
  <2>1. OnlineInv'
    BY <1>6, OnlineKept
  <2>2. QED
    BY <1>5, <1>7, <2>1, Spoilt
<1>8. PICK D, F, dp : /\ Still(D, F, dp) /\ loc.cur \in Heads(fat, D)
                      /\ Tree(fat, block, D, F, dp) /\ Reached(fat, block, D, F)
  BY <1>2, <1>7, Arrives
<1>9. Name \in Names \cup Dots
  BY <1>2, <1>7, Arrives
<1>10. /\ p \in D \X Slots /\ At(block, p) = EntryAt(p) /\ p \in Proper(block, D)
  BY <1>2, <1>8, <1>9, PlaceFound
<1>11. D \subseteq Clusters
  BY <1>8 DEF Tree, Ground
<1>12. PICK x, C, b2 : x = EntryAt(p).first /\ C = Chain(fat, x) /\ b2 = With(block, p, Zeroed)
  OBVIOUS
<1>13. TakenOut(fat, fat', b2, D, F, dp, C)
  <2>1. At(block, p).type = "file" /\ x = At(block, p).first
    BY <1>2, <1>10, <1>12
  <2>2. At(b2, p) = Zeroed /\ \A q \in D \X Slots : q # p => At(b2, q) = At(block, q)
    BY <1>2, <1>10, <1>11, <1>12, ClearedAt
  <2>3. fat' = FreeChain(fat, x)
    BY <1>1, <1>12
  <2>4. QED
    BY <1>3, <1>8, <1>10, <1>12, <2>1, <2>2, <2>3, FileRemoved
<1>14. PICK F2 : F2 = F \ C
  OBVIOUS
<1>15. StorePhase(D, F2, dp)'
  <2>1. With(block', loc'.at, loc'.entry) = b2
    BY <1>2, <1>4, <1>12
  <2>2. Shape(With(block, loc.at, loc.entry), D, F2, dp)'
    BY <1>2, <1>8, <1>13, <1>14, <2>1 DEF Still, Resting, Shape, TakenOut
  <2>3. Kept(D, F2, {})'
    <3>1. Free(Omit)' => Free(Omit)
      BY FreeBefore DEF Given
    <3>2. QED
      BY <1>8, <1>13, <1>14, <3>1 DEF Still, Kept, TakenOut
  <2>4. Agree(D, F2)'
    <3>1. D \subseteq Clusters /\ F \subseteq Clusters
      BY <1>8 DEF Tree, Ground
    <3>2. QED
      BY <1>2, <1>8, <1>13, <1>14, <3>1 DEF Still, Resting, Agree, TakenOut
  <2>5. QED
    BY <1>4, <1>10, <2>2, <2>3, <2>4 DEF StorePhase
<1>16. DiskInv'
  BY <1>2, <1>4, DiskKept DEF Given, SoundInv, Firm, Exposed, Flushing, Running
<1>17. Storing' /\ pc' # "data"
  BY <1>4 DEF Storing
<1>18. QED
  BY <1>5, <1>6, <1>15, <1>16, <1>17, ToStore

\* An empty directory is taken out of the tree.
LEMMA Unlinked ==
  ASSUME Given, NEW D, NEW F, NEW dp, Resting(D, F, dp), Kept(D, F, {}),
         NEW p \in Proper(block, D), At(block, p).type = "dir",
         NEW x, x = At(block, p).first,
         \A q \in Proper(block, D) : q[1] \notin Chain(fat, x),
         NEW l \in Locals, l.at = p, Unlink(l, x), UNCHANGED <<diskFat, block, cwd>>, Free(Strays)',
         l.req.op # "write"
  PROVE  \E D2, F2 : StorePhase(D2, F2, dp)'
<1>1. TypeOK /\ fat \in Fats
  BY DEF Given, TypeInv, TypeOK
<1>2. PICK C, b2, D2, F2 : C = Chain(fat, x) /\ b2 = With(block, p, Zeroed) /\ D2 = D \ C /\ F2 = F \ C
  OBVIOUS
<1>3. /\ Tree(fat, block, D, F, dp) /\ Reached(fat, block, D, F) /\ cwd \in Heads(fat, D)
      /\ D \subseteq Clusters /\ F \subseteq Clusters /\ p \in D \X Slots
  BY DEF Resting, Shape, Tree, Ground, Proper
<1>4. At(b2, p) = Zeroed /\ \A q \in D \X Slots : q # p => At(b2, q) = At(block, q)
  BY <1>1, <1>2, <1>3, ClearedAt
<1>5. fat' = FreeChain(fat, x) /\ pc' = "setEntry" /\ loc' = [l EXCEPT !.entry = Zeroed]
      /\ Forget(x) \subseteq marks'
  BY DEF Unlink, Goto
<1>6. loc'.at = p /\ loc'.entry = Zeroed /\ loc'.req = l.req
  BY <1>5 DEF Locals
<1>7. Cut(fat, fat', b2, D, F, dp, C)
  <2>1. C = Chain(fat, x) /\ \A q \in Proper(block, D) : q[1] \notin C
    BY <1>2
  <2>2. \A q \in (D \ C) \X Slots : q # p => At(b2, q) = At(block, q)
    BY <1>4
  <2>3. QED
    BY <1>1, <1>3, <1>4, <1>5, <2>1, <2>2, ChainCut
<1>8. cwd \notin C
  <2>1. cwd \in C => "cwdGone" \in marks'
    BY <1>2, <1>5 DEF Forget
  <2>2. QED
    BY <2>1 DEF Free, Strays
<1>9. Tree(fat', b2, D2, F2, dp) /\ Reached(fat', b2, D2, F2) /\ cwd' \in Heads(fat', D2)
  BY <1>2, <1>3, <1>7, <1>8 DEF Cut
<1>10. Shape(With(block, loc.at, loc.entry), D2, F2, dp)'
  <2>1. With(block', loc'.at, loc'.entry) = b2
    BY <1>2, <1>6
  <2>2. QED
    BY <1>9, <2>1 DEF Shape
<1>11. \A c \in Clusters : fat'[c] = IF c \in C THEN FREE ELSE fat[c]
  BY <1>2, <1>5, ClusterFacts DEF FreeChain
<1>12. Kept(D2, F2, {})'
  <2>1. Free(Omit)' => Free(Omit)
    BY FreeBefore DEF Given
  <2>2. QED
    BY <1>2, <1>11, <2>1 DEF Kept
<1>13. Agree(D2, F2)'
  BY <1>2, <1>3, <1>11 DEF Resting, Agree
<1>14. loc'.at \in D2 \X Slots
  <2>1. p[1] \notin C
    BY <1>2
  <2>2. QED
    BY <1>2, <1>3, <1>6, <2>1
<1>15. StorePhase(D2, F2, dp)'
  BY <1>5, <1>10, <1>12, <1>13, <1>14 DEF StorePhase
<1>16. QED
  BY <1>15

\* fs_remove_dir, for an empty directory.
LEMMA RmdirEmptySound ==
  ASSUME Given, RmdirEmpty
  PROVE  SoundInv'
<1>1. PICK p \in LookedUp("dir") :
        /\ DirIsEmpty(EntryAt(p).first)
        /\ Unlink([loc EXCEPT !.at = p], EntryAt(p).first)
  BY DEF RmdirEmpty
<1>2. /\ Arrived("rmdir") /\ UNCHANGED <<super, ready, diskFat, block, cwd>> /\ TypeOK /\ loc.req.op = "rmdir"
      /\ p \in Places /\ EntryAt(p).type = "dir" /\ pc = "walk"
  BY DEF RmdirEmpty, disk, Given, TypeInv, LookedUp, Arrived, Running
<1>3. fat \in Fats /\ loc \in Locals /\ block \in [Clusters -> Blocks] /\ p \in Clusters \X Slots
  BY <1>2, PlaceType DEF TypeOK
<1>4. PICK l, x : l = [loc EXCEPT !.at = p] /\ x = EntryAt(p).first
  OBVIOUS
<1>5. l \in Locals /\ l.at = p /\ l.req = loc.req /\ l.rest = loc.rest
  BY <1>3, <1>4 DEF Locals
<1>6. /\ Unlink(l, x) /\ DirIsEmpty(x) /\ pc' = "setEntry" /\ loc' = [l EXCEPT !.entry = Zeroed]
      /\ marks' = marks \cup Forget(x) \cup (IF l.rest[1] \in Dots THEN {"dotCut"} ELSE {})
  BY <1>1, <1>4 DEF Unlink, Goto
<1>7. loc'.req = loc.req
  BY <1>5, <1>6 DEF Locals
<1>8. CtlInv'
  BY <1>2, <1>6, <1>7 DEF CtlInv, Flushing
<1>9. ready'
  BY <1>2 DEF Given, SoundInv, OnlineInv
<1>10. SUFFICES ASSUME Free(Strays)' PROVE SoundInv'
  <2>1. OnlineInv'
    BY <1>9, OnlineKept
  <2>2. QED
    BY <1>8, <1>10, <2>1, Spoilt
<1>11. PICK D, F, dp : /\ Still(D, F, dp) /\ loc.cur \in Heads(fat, D)
                       /\ Tree(fat, block, D, F, dp) /\ Reached(fat, block, D, F)
  BY <1>2, <1>10, Arrives
<1>12. Name \in Names \cup Dots
  BY <1>2, <1>10, Arrives
<1>13. Name \notin Dots
  <2>1. Name = l.rest[1]
    BY <1>5 DEF Name
  <2>2. l.rest[1] \in Dots => "dotCut" \in marks'
    BY <1>6
  <2>3. "dotCut" \notin marks'
    BY <1>10 DEF Free, Strays, Breaks
  <2>4. QED
    BY <2>1, <2>2, <2>3
<1>14. /\ p \in D \X Slots /\ At(block, p) = EntryAt(p) /\ p \in Proper(block, D)
       /\ x \in Heads(fat, D)
  BY <1>2, <1>4, <1>11, <1>12, <1>13, PlaceFound
<1>15. ASSUME NEW q \in Proper(block, D) PROVE q[1] \notin Chain(fat, x)
  <2>1. At(block, q).name \notin Dots \cup {Empty}
    BY <1>11, ProperName
  <2>2. q \in D \X Slots
    BY DEF Proper
  <2>3. q[1] \in Chain(fat, x) => block[q[1]][q[2]].name \in Dots \cup {Empty}
    BY <1>6, <2>2 DEF DirIsEmpty
  <2>4. QED
    BY <2>1, <2>3 DEF At
<1>16. PICK D2, F2 : StorePhase(D2, F2, dp)'
  <2>1. At(block, p).type = "dir" /\ x = At(block, p).first
    BY <1>2, <1>4, <1>14
  <2>2. Resting(D, F, dp) /\ Kept(D, F, {}) /\ l.req.op # "write"
    BY <1>2, <1>5, <1>11 DEF Still
  <2>3. \E D2, F2 : StorePhase(D2, F2, dp)'
    BY <1>2, <1>5, <1>6, <1>10, <1>14, <1>15, <2>1, <2>2, Unlinked
  <2>4. QED
    BY <2>3
<1>17. DiskInv'
  BY <1>2, <1>6, <1>7, DiskKept DEF Given, SoundInv, Firm, Exposed, Flushing, Running
<1>18. Storing' /\ pc' # "data"
  BY <1>6 DEF Storing
<1>19. QED
  BY <1>8, <1>9, <1>16, <1>17, <1>18, ToStore

\* The first activation works on the disk as it is.
LEMMA RmdirAllSound ==
  ASSUME Given, RmdirAll
  PROVE  SoundInv'
<1>1. PICK p \in LookedUp("dir") :
        /\ EntryAt(p).first \in Clusters
        /\ frames' = <<Frame(EntryAt(p).first)>>
        /\ Goto("scan", [loc EXCEPT !.at = p, !.entry = EntryAt(p)])
  BY DEF RmdirAll
<1>2. /\ Arrived("rmdir") /\ UNCHANGED <<super, ready, fat, diskFat, block, cwd>> /\ TypeOK
      /\ p \in Places /\ EntryAt(p).type = "dir" /\ pc = "walk" /\ marks' = marks
  BY DEF RmdirAll, disk, memory, Given, TypeInv, LookedUp, Arrived, Running
<1>3. fat \in Fats /\ loc \in Locals /\ block \in [Clusters -> Blocks] /\ p \in Clusters \X Slots
  BY <1>2, PlaceType DEF TypeOK
<1>4. PICK x, e : e = EntryAt(p) /\ x = e.first
  OBVIOUS
<1>5. /\ pc' = "scan" /\ loc' = [loc EXCEPT !.at = p, !.entry = e]
      /\ frames' = <<[dir |-> x, buf |-> block[x], dirty |-> FALSE]>> /\ x \in Clusters
  BY <1>1, <1>4 DEF Goto, Frame
<1>6. loc'.at = p /\ loc'.entry = e /\ loc'.rest = loc.rest
  BY <1>3, <1>5 DEF Locals
<1>7. ready'
  BY <1>2 DEF Given, SoundInv, OnlineInv
<1>8. SUFFICES ASSUME Free(Strays)' PROVE SoundInv'
  <2>1. CtlInv' /\ OnlineInv'
    BY <1>5, <1>7, CtlQuiet, OnlineKept
  <2>2. QED
    BY <1>8, <2>1, Spoilt
<1>9. PICK D, F, dp : /\ Still(D, F, dp) /\ loc.cur \in Heads(fat, D)
                      /\ Tree(fat, block, D, F, dp) /\ Reached(fat, block, D, F)
  BY <1>2, <1>8, Arrives
<1>10. Name \in Names \cup Dots
  BY <1>2, <1>8, Arrives
<1>11. /\ p \in D \X Slots /\ At(block, p) = e /\ x \in Heads(fat, D) /\ e.type = "dir"
       /\ Name \notin Dots => p \in Proper(block, D)
  BY <1>2, <1>4, <1>9, <1>10, PlaceFound
<1>12. Still(D, F, dp)'
  BY <1>2, <1>9, StillKept
<1>13. PICK E, t : E = block /\ t = [dir |-> x, buf |-> block[x], dirty |-> FALSE]
  OBVIOUS
<1>14. /\ t.dir = x /\ t.buf = block[x] /\ frames' = <<t>>
  BY <1>5, <1>13
<1>15. Len(frames') = 1 /\ frames'[1] = t /\ frames' # <<>>
  BY <1>14
<1>16. Activation(E, D, 1)'
  <2>1. HeadOf(1)' = x
    BY <1>4, <1>6, <1>15 DEF HeadOf
  <2>2. x \in D /\ x \in Chain(fat', x)
    BY <1>2, <1>3, <1>5, <1>11, ChainProperties DEF Heads
  <2>3. E[x] = t.buf /\ block' = E /\ fat' = fat
    BY <1>2, <1>13, <1>14
  <2>4. Working(t, x, fat, E, E, D)
    BY <1>2, <1>11, <1>14, <2>2, <2>3 DEF Working
  <2>5. QED
    BY <1>15, <2>1, <2>3, <2>4 DEF Activation
<1>17. Activations(E, D, dp)'
  <2>1. E \in [Clusters -> Blocks] /\ block' = E
    BY <1>2, <1>3, <1>13
  <2>2. 1..Len(frames') = {1} /\ 2..Len(frames') = {}
    BY <1>15
  <2>3. \A i, j \in 1..Len(frames') : ~(i < j)
    BY <1>15
  <2>4. \A i \in 1..Len(frames') : Activation(E, D, i)'
    BY <1>16, <2>2
  <2>5. QED
    BY <1>15, <2>1, <2>2, <2>3, <2>4 DEF Activations
<1>18. ScanPhase(E, D, F, dp)'
  <2>1. Shape(E, D, F, dp)' /\ Agree(D, F)' /\ Kept(D, F, {})'
    BY <1>2, <1>12, <1>13 DEF Still, Resting, Shape
  <2>2. loc'.rest[1] \notin Dots => p \in Proper(E, D)
    BY <1>6, <1>11, <1>13 DEF Name
  <2>3. loc'.rest[1] \notin Dots =>
          loc'.at \in Proper(E, D) /\ At(E, loc'.at).type = "dir" /\ At(E, loc'.at).first = loc'.entry.first
    BY <1>4, <1>6, <1>11, <1>13, <2>2
  <2>4. QED
    BY <1>17, <2>1, <2>3 DEF ScanPhase
<1>19. DiskInv'
  BY <1>2, <1>5, DiskKept DEF Given, SoundInv, Firm, Exposed, Flushing, Running
<1>20. QED
  BY <1>5, <1>7, <1>18, <1>19, ToScan

\* The last component of a path.
LEMMA DecideSound ==
  ASSUME Given, Decide
  PROVE  SoundInv'
<1>1. CASE MkdirRefused
  <2>1. pc' = "idle" /\ Arrived("mkdir") /\ UNCHANGED <<ready, fat, diskFat, block, cwd>>
    BY <1>1 DEF MkdirRefused, GiveUp, Return, disk, memory
  <2>2. QED
    BY <2>1, RefusedSound
<1>2. CASE TouchRefused
  <2>1. pc' = "idle" /\ Arrived("touch") /\ UNCHANGED <<ready, fat, diskFat, block, cwd>>
    BY <1>2 DEF TouchRefused, GiveUp, Return, disk, memory
  <2>2. QED
    BY <2>1, RefusedSound
<1>3. CASE WriteRefused \/ WriteNewNoRoom
  <2>1. pc' = "idle" /\ Arrived("write") /\ UNCHANGED <<ready, fat, diskFat, block, cwd>>
    BY <1>3 DEF WriteRefused, WriteNewNoRoom, GiveUp, Return, disk, memory
  <2>2. QED
    BY <2>1, RefusedSound
<1>4. CASE RemoveRefused
  <2>1. /\ pc' = "idle" /\ UNCHANGED <<ready, fat, diskFat, block, cwd>>
        /\ Arrived("rm") \/ Arrived("rmdir")
    BY <1>4 DEF RemoveRefused, GiveUp, Return, disk, memory
  <2>2. QED
    BY <2>1, RefusedSound
<1>5. QED
  BY <1>1, <1>2, <1>3, <1>4, MkdirSound, TouchSound, WriteOverSound, WriteOverNoRoomSound, WriteNewSound,
     RmSound, RmdirEmptySound, RmdirAllSound DEF Decide

-------------------------------------------------------------------------------
\* Removing the contents of a directory.

\* The activation in front, and the ones after it.
LEMMA Replaced ==
  ASSUME NEW S, NEW s \in Seq(S), s # <<>>, NEW t, NEW r, r = <<t>> \o Tail(s)
  PROVE  Len(r) = Len(s) /\ Len(s) \in Nat \ {0} /\ r # <<>> /\ r[1] = t /\ \A i \in 2..Len(s) : r[i] = s[i]
<1>1. Len(s) \in Nat /\ Len(s) > 0 /\ Len(Tail(s)) = Len(s) - 1 /\ Tail(s) \in Seq(S)
  OBVIOUS
<1>2. Len(r) = 1 + Len(Tail(s)) /\ r[1] = t
  BY <1>1
<1>3. ASSUME NEW i \in 2..Len(s) PROVE r[i] = s[i]
  <2>1. r[i] = Tail(s)[i - 1]
    BY <1>1, <1>3
  <2>2. QED
    BY <1>1, <1>3, <2>1
<1>4. r # <<>>
  BY <1>1, <1>2
<1>5. QED
  BY <1>1, <1>2, <1>3, <1>4

\* One activation more.
LEMMA Pushed ==
  ASSUME NEW S, NEW s \in Seq(S), NEW t, NEW r, r = <<t>> \o s
  PROVE  Len(r) = Len(s) + 1 /\ Len(s) \in Nat /\ r # <<>> /\ r[1] = t /\ \A i \in 1..Len(s) : r[i + 1] = s[i]
<1>1. Len(s) \in Nat
  OBVIOUS
<1>2. Len(r) = 1 + Len(s) /\ r[1] = t
  BY <1>1
<1>3. ASSUME NEW i \in 1..Len(s) PROVE r[i + 1] = s[i]
  BY <1>1, <1>3
<1>4. r # <<>>
  BY <1>1, <1>2
<1>5. QED
  BY <1>1, <1>2, <1>3, <1>4

\* The activation below the topmost one.
LEMMA SecondOf ==
  ASSUME NEW S, NEW s \in Seq(S), Len(s) > 1
  PROVE  Head(Tail(s)) = s[2]
<1>1. Len(s) \in Nat /\ Len(Tail(s)) = Len(s) - 1 /\ Tail(s) \in Seq(S)
  OBVIOUS
<1>2. PICK u : u = Tail(s)
  OBVIOUS
<1>3. u \in Seq(S) /\ Len(u) = Len(s) - 1 /\ \A i \in 1..Len(u) : u[i] = s[i + 1]
  BY <1>1, <1>2
<1>4. u # <<>>
  BY <1>1, <1>3
<1>5. QED
  BY <1>1, <1>2, <1>3, <1>4

\* An activation goes on in a tree from which something was taken elsewhere.
LEMMA WorkingKept ==
  ASSUME NEW f \in Fats, NEW g \in Fats, NEW t, NEW h \in Clusters, NEW b, NEW b2, NEW E, NEW E2, NEW D, NEW D2,
         Working(t, h, f, b, E, D), b2[t.dir] = b[t.dir], E2[t.dir] = E[t.dir],
         t.dir \in D2, h \in Heads(g, D2), \A c \in Chain(f, h) : g[c] = f[c],
         \A c \in Chain(f, h), j \in Slots : IsProper(E2[c][j]) => IsProper(E[c][j])
  PROVE  Working(t, h, g, b2, E2, D2)
<1>1. Chain(g, h) = Chain(f, h)
  BY ChainSame
<1>2. t.dir \in Chain(f, h)
  BY DEF Working
<1>3. Chain(f, t.dir) \subseteq Chain(f, h) /\ t.dir \in Clusters
  <2>1. Chain(f, h) \in SUBSET Clusters /\ ClosedUnderLinks(f, Chain(f, h))
    BY ChainProperties
  <2>2. QED
    BY <1>2, <2>1, ChainWithin
<1>4. Chain(g, t.dir) = Chain(f, t.dir)
  BY <1>3, ChainSame
<1>5. QED
  BY <1>1, <1>2, <1>4 DEF Working

\* What a step of fs_remove_dir_contents starts from.
LEMMA ScanNow ==
  ASSUME Given, Free(Strays)', Scanning
  PROVE  /\ ready /\ Free(Strays) /\ pc = "scan" /\ TypeOK /\ fat \in Fats
         /\ loc \in Locals /\ block \in [Clusters -> Blocks] /\ frames \in Seq(Frames) /\ frames # <<>>
         /\ Len(frames) \in Nat \ {0} /\ Top = frames[1] /\ Top \in Frames
         /\ \E E, D, F, dp : ScanPhase(E, D, F, dp)
<1>1. pc = "scan" /\ frames # <<>>
  BY DEF Scanning
<1>2. TypeOK /\ fat \in Fats /\ loc \in Locals /\ block \in [Clusters -> Blocks] /\ frames \in Seq(Frames)
  BY DEF Given, TypeInv, TypeOK
<1>3. ready /\ Free(Strays) /\ \E D, F, dp : Phase(D, F, dp)
  BY <1>1, TreeNow
<1>4. \E E, D, F, dp : ScanPhase(E, D, F, dp)
  BY <1>1, <1>3 DEF Phase
<1>5. Len(frames) \in Nat \ {0} /\ Top = frames[1] /\ Top \in Frames
  BY <1>1, <1>2 DEF Top
<1>6. QED
  BY <1>1, <1>2, <1>3, <1>4, <1>5

\* The entry that an activation has come to.
LEMMA PendingPlace ==
  ASSUME NEW E, NEW D, NEW F, NEW dp, NEW f, Tree(f, E, D, F, dp),
         NEW t \in Frames, t.dir \in D, E[t.dir] = t.buf, Pending(t) # {},
         NEW i, i = Least(Pending(t))
  PROVE  /\ i \in Slots /\ IsProper(t.buf[i])
         /\ <<t.dir, i>> \in Proper(E, D) /\ At(E, <<t.dir, i>>) = t.buf[i]
<1>1. Pending(t) \subseteq Slots
  BY DEF Pending
<1>2. i \in Pending(t)
  <2>1. PICK S : S = Pending(t)
    OBVIOUS
  <2>2. S \subseteq Nat /\ S # {}
    BY <1>1, <2>1, FsAssumption DEF Slots
  <2>3. PICK m \in S : \A d \in S : ~(<<d, m>> \in OpToRel(<, Nat))
    <3>1. IsWellFoundedOn(OpToRel(<, Nat), Nat)
      BY NatLessThanWellFounded
    <3>2. QED
      BY <2>2, <3>1, WFMin
  <2>4. \A d \in S : m <= d
    <3>1. TAKE d \in S
    <3>2. m \in Nat /\ d \in Nat
      BY <2>2
    <3>3. ~(d < m)
      BY <2>3, <3>2 DEF OpToRel
    <3>4. QED
      BY <3>2, <3>3
  <2>5. QED
    BY <2>1, <2>4 DEF Least
<1>3. i \in Slots /\ IsProper(t.buf[i])
  BY <1>2 DEF Pending
<1>4. QED
  BY <1>3 DEF Proper, At

\* The copy without the entry that the activation has dealt with.
LEMMA ClearedFields ==
  ASSUME NEW t \in Frames, NEW i \in Slots, i = Least(Pending(t))
  PROVE  /\ Cleared(t) \in Frames /\ Cleared(t).dir = t.dir /\ Cleared(t).dirty
         /\ Cleared(t).buf[i] = Zeroed
         /\ \A j \in Slots : j # i => Cleared(t).buf[j] = t.buf[j]
         /\ Cleared(t).buf = [t.buf EXCEPT ![i] = Zeroed]
<1>1. Zeroed \in Entries
  BY FsAssumption DEF Zeroed, Entries
<1>2. PICK u : u = [t EXCEPT !.buf[i] = Zeroed, !.dirty = TRUE]
  OBVIOUS
<1>3. u = Cleared(t)
  BY <1>2 DEF Cleared
<1>4. u \in Frames
  BY <1>1, <1>2 DEF Frames, Blocks
<1>5. u.dir = t.dir /\ u.dirty /\ u.buf = [t.buf EXCEPT ![i] = Zeroed]
  BY <1>2 DEF Frames
<1>6. u.buf[i] = Zeroed /\ \A j \in Slots : j # i => u.buf[j] = t.buf[j]
  BY <1>5 DEF Frames, Blocks
<1>7. QED
  BY <1>3, <1>4, <1>5, <1>6

\* The activation that has dealt with an entry.
LEMMA WorkingCleared ==
  ASSUME NEW f \in Fats, NEW g \in Fats, NEW t \in Frames, NEW h \in Clusters, NEW b,
         NEW E \in [Clusters -> Blocks], NEW E2, NEW D, NEW F, NEW dp, NEW D2,
         Tree(f, E, D, F, dp), Working(t, h, f, b, E, D), Pending(t) # {},
         NEW i, i = Least(Pending(t)), E2 = With(E, <<t.dir, i>>, Zeroed),
         t.dir \in D2, h \in Heads(g, D2), \A c \in Chain(f, h) : g[c] = f[c]
  PROVE  Working(Cleared(t), h, g, b, E2, D2)
<1>1. t.dir \in D /\ E[t.dir] = t.buf /\ t.dir \in Clusters /\ t.dir \in Chain(f, h)
  BY DEF Working, Frames
<1>2. i \in Slots /\ IsProper(t.buf[i])
  BY <1>1, PendingPlace
<1>3. PICK u, d : u = Cleared(t) /\ d = t.dir
  OBVIOUS
<1>4. u.dir = d /\ u.dirty /\ u.buf[i] = Zeroed /\ u.buf = [t.buf EXCEPT ![i] = Zeroed]
      /\ \A j \in Slots : j # i => u.buf[j] = t.buf[j]
  BY <1>2, <1>3, ClearedFields
<1>5. E2 = [E EXCEPT ![d] = u.buf]
  BY <1>1, <1>3, <1>4 DEF With
<1>6. E2[d] = u.buf /\ \A c \in Clusters : c # d => E2[c] = E[c]
  BY <1>1, <1>3, <1>5
<1>7. ~IsProper(Zeroed)
  BY DEF IsProper, Zeroed
<1>8. ASSUME NEW j \in Slots
      PROVE  u.buf[j] = b[d][j] \/ (IsProper(b[d][j]) /\ u.buf[j] = Zeroed)
  <2>1. t.buf[j] = b[d][j] \/ (IsProper(b[d][j]) /\ t.buf[j] = Zeroed)
    BY <1>3 DEF Working
  <2>2. CASE j = i
    BY <1>2, <1>4, <1>7, <2>1, <2>2
  <2>3. CASE j # i
    BY <1>4, <2>1, <2>3
  <2>4. QED
    BY <2>2, <2>3
<1>9. Chain(f, h) \subseteq Clusters /\ ClosedUnderLinks(f, Chain(f, h)) /\ Chain(g, h) = Chain(f, h)
  BY ChainProperties, ChainSame
<1>10. Chain(g, d) = Chain(f, d)
  <2>1. Chain(f, d) \subseteq Chain(f, h)
    BY <1>1, <1>3, <1>9, ChainWithin
  <2>2. QED
    BY <1>1, <1>3, <2>1, ChainSame
<1>11. ASSUME NEW c \in Chain(g, h), NEW j \in Slots
       PROVE  c \in Chain(g, d) \/ ~IsProper(E2[c][j])
  <2>1. c \in Chain(f, d) \/ ~IsProper(E[c][j])
    BY <1>3, <1>9, <1>11 DEF Working
  <2>2. CASE c = d
    BY <1>1, <1>3, <1>10, <2>2, ChainProperties
  <2>3. CASE c # d
    BY <1>6, <1>9, <1>10, <1>11, <2>1, <2>3
  <2>4. QED
    BY <2>2, <2>3
<1>12. d \in D2 /\ d \in Chain(g, h)
  BY <1>1, <1>3, <1>9
<1>13. Working(u, h, g, b, E2, D2)
  BY <1>4, <1>6, <1>8, <1>11, <1>12 DEF Working
<1>14. QED
  BY <1>3, <1>13

\* The activations keep the directories that they work on.
LEMMA HeadsFollow ==
  ASSUME Len(frames) \in Nat \ {0}, Len(frames') = Len(frames), loc' = loc,
         \A i \in 2..Len(frames) : frames'[i] = frames[i]
  PROVE  \A k \in 1..Len(frames) : HeadOf(k)' = HeadOf(k)
<1>1. SUFFICES ASSUME NEW k \in 1..Len(frames) PROVE HeadOf(k)' = HeadOf(k)
  OBVIOUS
<1>2. k # Len(frames) => frames'[k + 1] = frames[k + 1]
  OBVIOUS
<1>3. QED
  BY <1>2 DEF HeadOf

\* The activations and the tree that they work on.
LEMMA ScanFacts ==
  ASSUME TypeOK, Len(frames) \in Nat \ {0}, NEW E, NEW D, NEW F, NEW dp, ScanPhase(E, D, F, dp)
  PROVE  /\ Tree(fat, E, D, F, dp) /\ Reached(fat, E, D, F) /\ cwd \in Heads(fat, D)
         /\ D \subseteq Clusters /\ F \subseteq Clusters /\ D \cap F = {} /\ E \in [Clusters -> Blocks]
         /\ dp \in [Clusters -> Nat]
         /\ \A k \in 1..Len(frames) :
              /\ Working(frames[k], HeadOf(k), fat, block, E, D)
              /\ HeadOf(k) \in Heads(fat, D) /\ HeadOf(k) \in D
              /\ Chain(fat, HeadOf(k)) \subseteq D
              /\ frames[k].dir \in D /\ E[frames[k].dir] = frames[k].buf
         /\ \A k \in 2..Len(frames) :
              /\ dp[frames[k].dir] < dp[frames[1].dir] /\ frames[k].dir # frames[1].dir
<1>1. Tree(fat, E, D, F, dp) /\ Reached(fat, E, D, F) /\ cwd \in Heads(fat, D) /\ Activations(E, D, dp)
  BY DEF ScanPhase, Shape
<1>2. /\ D \subseteq Clusters /\ F \subseteq Clusters /\ D \cap F = {} /\ E \in [Clusters -> Blocks]
      /\ Ground(fat, D, F) /\ dp \in [Clusters -> Nat] /\ fat \in Fats
  BY <1>1 DEF Tree, Ground, Deeper, Activations, TypeOK
<1>3. ASSUME NEW k \in 1..Len(frames)
      PROVE  /\ Working(frames[k], HeadOf(k), fat, block, E, D)
             /\ HeadOf(k) \in Heads(fat, D) /\ HeadOf(k) \in D
             /\ Chain(fat, HeadOf(k)) \subseteq D
             /\ frames[k].dir \in D /\ E[frames[k].dir] = frames[k].buf
  <2>1. Working(frames[k], HeadOf(k), fat, block, E, D)
    BY <1>1 DEF Activations, Activation
  <2>2. HeadOf(k) \in Heads(fat, D) /\ frames[k].dir \in D /\ E[frames[k].dir] = frames[k].buf
    BY <2>1 DEF Working
  <2>3. HeadOf(k) \in D
    BY <2>2 DEF Heads
  <2>4. Chain(fat, HeadOf(k)) \subseteq D
    BY <1>2, <2>3, ChainGround
  <2>5. QED
    BY <2>1, <2>2, <2>3, <2>4
<1>4. ASSUME NEW k \in 2..Len(frames)
      PROVE  dp[frames[k].dir] < dp[frames[1].dir] /\ frames[k].dir # frames[1].dir
  <2>1. k \in 1..Len(frames) /\ 1 \in 1..Len(frames) /\ 1 < k
    BY <1>4
  <2>2. \A i, j \in 1..Len(frames) : i < j => dp[frames[j].dir] < dp[frames[i].dir]
    BY <1>1 DEF Activations
  <2>3. dp[frames[k].dir] < dp[frames[1].dir]
    BY <2>1, <2>2
  <2>4. frames[1].dir \in Clusters
    BY <1>2, <1>3, <2>1
  <2>5. dp[frames[1].dir] \in Nat
    BY <1>2, <2>4
  <2>6. QED
    BY <2>3, <2>5
<1>5. QED
  BY <1>1, <1>2, <1>3, <1>4

\* What stays of the ranks of the table when a chain is released.
LEMMA TablesCut ==
  ASSUME NEW D, NEW F, NEW C, D \subseteq Clusters, F \subseteq Clusters,
         Agree(D, F), Kept(D, F, {}), UNCHANGED diskFat, marks \subseteq marks',
         \A c \in Clusters : fat'[c] = IF c \in C THEN FREE ELSE fat[c]
  PROVE  Agree(D \ C, F \ C)' /\ Kept(D \ C, F \ C, {})'
<1>1. Free(Omit)' => Free(Omit)
  BY FreeBefore
<1>2. Agree(D \ C, F \ C)'
  BY DEF Agree
<1>3. Kept(D \ C, F \ C, {})'
  BY <1>1 DEF Kept
<1>4. QED
  BY <1>2, <1>3

\* The next entry is a file.
LEMMA ScanFileSound ==
  ASSUME Given, ScanFile, Free(Strays)'
  PROVE  SoundInv'
<1>1. /\ Scanning /\ Pending(Top) # {} /\ ScanEntry.type = "file"
      /\ fat' = FreeChain(fat, ScanEntry.first)
      /\ frames' = <<Cleared(Top)>> \o Tail(frames)
      /\ UNCHANGED <<super, diskFat, block, ready, cwd, pc, loc>>
  BY DEF ScanFile, disk
<1>2. /\ ready /\ pc = "scan" /\ TypeOK /\ fat \in Fats
      /\ loc \in Locals /\ block \in [Clusters -> Blocks] /\ frames \in Seq(Frames) /\ frames # <<>>
      /\ Len(frames) \in Nat \ {0} /\ Top = frames[1] /\ Top \in Frames
  BY <1>1, ScanNow
<1>3. PICK E, D, F, dp : ScanPhase(E, D, F, dp)
  BY <1>1, ScanNow
<1>4. PICK n, t, i, e, x, C, E2, F2 :
        /\ n = Len(frames) /\ t = frames[1] /\ i = Least(Pending(t)) /\ e = t.buf[i] /\ x = e.first
        /\ C = Chain(fat, x) /\ E2 = With(E, <<t.dir, i>>, Zeroed) /\ F2 = F \ C
  OBVIOUS
<1>5. /\ Tree(fat, E, D, F, dp) /\ Reached(fat, E, D, F) /\ cwd \in Heads(fat, D)
      /\ D \subseteq Clusters /\ F \subseteq Clusters /\ D \cap F = {} /\ E \in [Clusters -> Blocks]
      /\ dp \in [Clusters -> Nat]
  BY <1>2, <1>3, ScanFacts
<1>6. \A k \in 1..n :
         /\ Working(frames[k], HeadOf(k), fat, block, E, D)
         /\ HeadOf(k) \in Heads(fat, D) /\ HeadOf(k) \in D
         /\ Chain(fat, HeadOf(k)) \subseteq D
         /\ frames[k].dir \in D /\ E[frames[k].dir] = frames[k].buf
  BY <1>2, <1>3, <1>4, ScanFacts
<1>7. \A k \in 2..n : dp[frames[k].dir] < dp[t.dir] /\ frames[k].dir # t.dir
  BY <1>2, <1>3, <1>4, ScanFacts
<1>8. n \in Nat \ {0} /\ t \in Frames /\ Pending(t) # {} /\ e.type = "file" /\ fat' = FreeChain(fat, x)
  BY <1>1, <1>2, <1>4 DEF ScanEntry
<1>9. Working(t, HeadOf(1), fat, block, E, D) /\ HeadOf(1) \in Heads(fat, D) /\ t.dir \in D /\ E[t.dir] = t.buf
  BY <1>4, <1>6, <1>8
<1>10. /\ i \in Slots /\ <<t.dir, i>> \in Proper(E, D) /\ At(E, <<t.dir, i>>) = e
  BY <1>4, <1>5, <1>8, <1>9, PendingPlace
<1>11. PICK p : p = <<t.dir, i>>
  OBVIOUS
<1>12. p \in Clusters \X Slots /\ p \in D \X Slots
  BY <1>5, <1>9, <1>10, <1>11
<1>13. /\ E2 \in [Clusters -> Blocks] /\ At(E2, p) = Zeroed
       /\ \A q \in Clusters \X Slots : q # p => At(E2, q) = At(E, q)
       /\ \A c \in Clusters : c # t.dir => E2[c] = E[c]
  <2>1. Zeroed \in Entries
    BY FsAssumption DEF Zeroed, Entries
  <2>2. p[1] = t.dir
    BY <1>11
  <2>3. QED
    BY <1>4, <1>5, <1>11, <1>12, <2>1, <2>2, WithAt
<1>14. TakenOut(fat, fat', E2, D, F, dp, C)
  <2>1. p \in Proper(E, D) /\ At(E, p).type = "file" /\ x = At(E, p).first
    BY <1>4, <1>8, <1>10, <1>11
  <2>2. \A q \in D \X Slots : q # p => At(E2, q) = At(E, q)
    BY <1>5, <1>13
  <2>3. PICK f, g : f = fat /\ g = fat'
    OBVIOUS
  <2>4. f \in Fats /\ Tree(f, E, D, F, dp) /\ Reached(f, E, D, F) /\ C = Chain(f, x) /\ g = FreeChain(f, x)
    BY <1>2, <1>4, <1>5, <1>8, <2>3
  <2>5. At(E2, p) = Zeroed
    BY <1>13
  <2>6. TakenOut(f, g, E2, D, F, dp, C)
    BY ONLY <2>1, <2>2, <2>4, <2>5, FileRemoved
  <2>7. QED
    BY <2>3, <2>6
<1>15. /\ Tree(fat', E2, D, F2, dp) /\ Reached(fat', E2, D, F2)
       /\ Heads(fat', D) = Heads(fat, D) /\ C \cap D = {} /\ fat' \in Fats
       /\ \A c \in Clusters : fat'[c] = IF c \in C THEN FREE ELSE fat[c]
  BY <1>4, <1>14 DEF TakenOut
<1>16. \A c \in D : fat'[c] = fat[c]
  BY <1>5, <1>15
<1>17. Len(frames') = n /\ frames' # <<>> /\ frames'[1] = Cleared(t) /\ \A k \in 2..n : frames'[k] = frames[k]
  <2>1. frames' = <<Cleared(t)>> \o Tail(frames)
    BY <1>1, <1>2, <1>4
  <2>2. QED
    BY <1>2, <1>4, <2>1, Replaced
<1>18. \A k \in 1..n : HeadOf(k)' = HeadOf(k)
  BY <1>1, <1>2, <1>4, <1>17, HeadsFollow
<1>19. Cleared(t).dir = t.dir
  BY <1>4, <1>8, <1>10, ClearedFields
<1>20. \A k \in 1..n : frames'[k].dir = frames[k].dir
  <2>1. \A k \in 1..n : k = 1 \/ k \in 2..n
    BY <1>8
  <2>2. QED
    BY <1>4, <1>17, <1>19, <2>1
<1>21. ASSUME NEW k \in 1..n
       PROVE  Working(frames'[k], HeadOf(k), fat', block, E2, D)
  <2>1. PICK h : h = HeadOf(k)
    OBVIOUS
  <2>2. /\ Working(frames[k], h, fat, block, E, D) /\ h \in Heads(fat', D) /\ h \in Clusters /\ frames[k].dir \in D
        /\ \A c \in Chain(fat, h) : fat'[c] = fat[c]
    BY <1>5, <1>6, <1>15, <1>16, <2>1
  <2>3. CASE k = 1
    <3>1. Working(t, h, fat, block, E, D) /\ t.dir \in D
      BY <1>4, <2>2, <2>3
    <3>2. Working(Cleared(t), h, fat', block, E2, D)
      BY ZenonT(60), <1>2, <1>4, <1>5, <1>8, <1>15, <2>2, <3>1, WorkingCleared
    <3>3. QED
      BY <1>17, <2>1, <2>3, <3>2
  <2>4. CASE k # 1
    <3>1. k \in 2..n
      BY <1>8, <2>4
    <3>2. PICK u : u = frames[k]
      OBVIOUS
    <3>3. E2[u.dir] = E[u.dir] /\ u.dir \in D
      BY <1>5, <1>7, <1>13, <2>2, <3>1, <3>2
    <3>4. \A c \in Chain(fat, h), j \in Slots : IsProper(E2[c][j]) => IsProper(E[c][j])
      <4>1. SUFFICES ASSUME NEW c \in Clusters, NEW j \in Slots, IsProper(E2[c][j]) PROVE IsProper(E[c][j])
        BY <2>2, <3>1, <1>5, <1>6, <2>1
      <4>2. PICK q : q = <<c, j>>
        OBVIOUS
      <4>3. At(E2, q) = E2[c][j] /\ At(E, q) = E[c][j] /\ q \in Clusters \X Slots
        BY <4>2 DEF At
      <4>4. At(E2, q) = At(E, q) \/ At(E2, q) = Zeroed
        BY <1>13, <4>3
      <4>5. ~IsProper(Zeroed)
        BY DEF IsProper, Zeroed
      <4>6. QED
        BY <4>1, <4>3, <4>4, <4>5
    <3>5. Working(u, h, fat', block, E2, D)
      BY <1>2, <1>15, <2>2, <3>2, <3>3, <3>4, WorkingKept
    <3>6. QED
      BY <1>17, <2>1, <3>1, <3>2, <3>5
  <2>5. QED
    BY <2>3, <2>4
<1>22. Activations(E2, D, dp)'
  <2>1. \A k \in 1..n : Activation(E2, D, k)'
    BY <1>1, <1>18, <1>21 DEF Activation
  <2>2. Activations(E, D, dp)
    BY <1>3 DEF ScanPhase
  <2>3. \A k \in 2..n : Pending(frames'[k]) # {} /\ Due(frames'[k]).type = "dir"
    BY <1>4, <1>17, <2>2 DEF Activations
  <2>4. \A c \in Clusters : (\A k \in 1..n : frames'[k].dir # c) => E2[c] = block'[c]
    <3>1. SUFFICES ASSUME NEW c \in Clusters, \A k \in 1..n : frames'[k].dir # c
                   PROVE  E2[c] = block'[c]
      OBVIOUS
    <3>2. \A k \in 1..n : frames[k].dir # c
      BY <1>20, <3>1
    <3>3. E[c] = block[c]
      BY <1>4, <2>2, <3>2 DEF Activations
    <3>4. c # t.dir
      BY <1>4, <1>8, <3>2
    <3>5. QED
      BY <1>1, <1>13, <3>3, <3>4
  <2>5. \A k, m \in 1..n : k < m => dp[frames'[m].dir] < dp[frames'[k].dir]
    BY <1>4, <1>20, <2>2 DEF Activations
  <2>6. QED
    BY <1>13, <1>17, <2>1, <2>3, <2>4, <2>5 DEF Activations
<1>23. ScanPhase(E2, D, F2, dp)'
  <2>1. Shape(E2, D, F2, dp)'
    BY <1>1, <1>5, <1>15 DEF Shape
  <2>2. Agree(D, F2)' /\ Kept(D, F2, {})'
    <3>1. Agree(D, F) /\ Kept(D, F, {})
      BY <1>3 DEF ScanPhase
    <3>2. D \ C = D
      BY <1>15
    <3>3. Agree(D \ C, F \ C)' /\ Kept(D \ C, F \ C, {})'
      BY <1>1, <1>5, <1>15, <3>1, TablesCut DEF Given
    <3>4. QED
      BY <1>4, <3>2, <3>3
  <2>3. loc'.rest[1] \notin Dots =>
          loc'.at \in Proper(E2, D) /\ At(E2, loc'.at).type = "dir" /\ At(E2, loc'.at).first = loc'.entry.first
    <3>1. SUFFICES ASSUME loc.rest[1] \notin Dots
                   PROVE  /\ loc.at \in Proper(E2, D) /\ At(E2, loc.at).type = "dir"
                          /\ At(E2, loc.at).first = loc.entry.first
      BY <1>1
    <3>2. /\ loc.at \in Proper(E, D) /\ At(E, loc.at).type = "dir"
          /\ At(E, loc.at).first = loc.entry.first
      BY <1>3, <3>1 DEF ScanPhase
    <3>3. loc.at # p
      BY <1>8, <1>10, <1>11, <3>2
    <3>4. loc.at \in D \X Slots /\ loc.at \in Clusters \X Slots
      BY <1>5, <3>2 DEF Proper
    <3>5. At(E2, loc.at) = At(E, loc.at)
      BY <1>13, <3>3, <3>4
    <3>6. QED
      BY <3>2, <3>4, <3>5 DEF Proper
  <2>4. QED
    BY <1>22, <2>1, <2>2, <2>3 DEF ScanPhase
<1>24. DiskInv'
  BY <1>1, <1>2, DiskKept DEF Given, SoundInv, Firm, Exposed, Flushing, Running
<1>25. QED
  BY <1>1, <1>2, <1>23, <1>24, ToScan

\* A step that changes nothing but the activations.
LEMMA ScanGoesOn ==
  ASSUME Given, NEW E, NEW D, NEW F, NEW dp, ScanPhase(E, D, F, dp), pc = "scan", ready,
         UNCHANGED <<super, diskFat, block, ready, fat, cwd, pc, loc>>, Activations(E, D, dp)'
  PROVE  SoundInv'
<1>1. ScanPhase(E, D, F, dp)'
  <2>1. Kept(D, F, {})'
    <3>1. Free(Omit)' => Free(Omit)
      BY FreeBefore DEF Given
    <3>2. QED
      BY <3>1 DEF ScanPhase, Kept
  <2>2. QED
    BY <2>1 DEF ScanPhase, Shape, Agree
<1>2. DiskInv'
  BY DiskKept DEF Given, SoundInv, Firm, Exposed, Flushing, Running
<1>3. QED
  BY <1>1, <1>2, ToScan

\* The next entry is a directory: the recursive call.
LEMMA ScanDirSound ==
  ASSUME Given, ScanDir, Free(Strays)'
  PROVE  SoundInv'
<1>1. /\ Scanning /\ Pending(Top) # {} /\ ScanEntry.type = "dir"
      /\ frames' = <<Frame(ScanEntry.first)>> \o frames
      /\ UNCHANGED <<super, diskFat, block, ready, fat, cwd, pc, loc>>
  BY DEF ScanDir, disk, memory
<1>2. /\ ready /\ pc = "scan" /\ TypeOK /\ fat \in Fats
      /\ loc \in Locals /\ block \in [Clusters -> Blocks] /\ frames \in Seq(Frames) /\ frames # <<>>
      /\ Len(frames) \in Nat \ {0} /\ Top = frames[1] /\ Top \in Frames
  BY <1>1, ScanNow
<1>3. PICK E, D, F, dp : ScanPhase(E, D, F, dp)
  BY <1>1, ScanNow
<1>4. PICK n, t, i, e, x, u :
        /\ n = Len(frames) /\ t = frames[1] /\ i = Least(Pending(t)) /\ e = t.buf[i] /\ x = e.first
        /\ u = [dir |-> x, buf |-> block[x], dirty |-> FALSE]
  OBVIOUS
<1>5. /\ Tree(fat, E, D, F, dp)
      /\ D \subseteq Clusters /\ E \in [Clusters -> Blocks]
      /\ dp \in [Clusters -> Nat]
  BY <1>2, <1>3, ScanFacts
<1>6. \A k \in 1..n :
         /\ Working(frames[k], HeadOf(k), fat, block, E, D)
         /\ frames[k].dir \in D /\ E[frames[k].dir] = frames[k].buf
  BY <1>2, <1>3, <1>4, ScanFacts
<1>7. \A k \in 2..n : dp[frames[k].dir] < dp[t.dir]
  BY <1>2, <1>3, <1>4, ScanFacts
<1>8. n \in Nat \ {0} /\ t \in Frames /\ Pending(t) # {} /\ e.type = "dir"
  BY <1>1, <1>2, <1>4 DEF ScanEntry
<1>9. t.dir \in D /\ E[t.dir] = t.buf
  BY <1>4, <1>6, <1>8
<1>10. <<t.dir, i>> \in Proper(E, D) /\ At(E, <<t.dir, i>>) = e
  BY <1>4, <1>5, <1>8, <1>9, PendingPlace
<1>11. x \in Heads(fat, D) /\ x \in Clusters /\ x \in D /\ x \in Chain(fat, x)
  BY <1>2, <1>4, <1>5, <1>8, <1>10, EntryIsHead, ChainProperties DEF Heads
<1>12. dp[t.dir] < dp[x]
  <2>1. PICK p : p = <<t.dir, i>>
    OBVIOUS
  <2>2. p \in Proper(E, D) /\ At(E, p).first = x /\ p[1] = t.dir
    BY <1>4, <1>10, <2>1
  <2>3. At(E, p).first \in Clusters => dp[p[1]] < dp[At(E, p).first]
    BY <1>5, <2>2 DEF Tree, Deeper
  <2>4. QED
    BY <1>11, <2>2, <2>3
<1>13. \A k \in 1..n : dp[frames[k].dir] < dp[x] /\ frames[k].dir # x
  <2>1. SUFFICES ASSUME NEW k \in 1..n PROVE dp[frames[k].dir] < dp[x] /\ frames[k].dir # x
    OBVIOUS
  <2>2. frames[k].dir \in Clusters /\ t.dir \in Clusters
    BY <1>5, <1>6, <1>9
  <2>3. dp[frames[k].dir] \in Nat /\ dp[t.dir] \in Nat /\ dp[x] \in Nat
    BY <1>5, <1>11, <2>2
  <2>4. CASE k = 1
    BY <1>4, <1>12, <2>3, <2>4
  <2>5. CASE k \in 2..n
    <3>1. dp[frames[k].dir] < dp[t.dir]
      BY <1>7, <2>5
    <3>2. dp[frames[k].dir] < dp[x]
      BY <1>12, <2>3, <3>1
    <3>3. QED
      BY <2>3, <3>2
  <2>6. QED
    BY <1>8, <2>4, <2>5
<1>14. Activations(E, D, dp)
  BY <1>3 DEF ScanPhase
<1>15. E[x] = block[x]
  BY <1>4, <1>11, <1>13, <1>14 DEF Activations
<1>16. /\ Len(frames') = n + 1 /\ frames' # <<>> /\ frames'[1] = u /\ \A k \in 1..n : frames'[k + 1] = frames[k]
  <2>1. frames' = <<u>> \o frames
    BY <1>1, <1>2, <1>4 DEF ScanEntry, Frame
  <2>2. QED
    BY <1>2, <1>4, <2>1, Pushed
<1>17. u.dir = x /\ u.buf = block[x] /\ u.dirty = FALSE
  BY <1>4
<1>18. HeadOf(1)' = x
  <2>1. frames'[2] = t /\ 1 # Len(frames')
    <3>1. frames'[1 + 1] = frames[1]
      BY <1>8, <1>16
    <3>2. QED
      BY <1>4, <1>8, <1>16, <3>1
  <2>2. HeadOf(1)' = Due(frames'[2]).first
    <3>1. HeadOf(1)' = Due(frames'[1 + 1]).first
      BY <2>1 DEF HeadOf
    <3>2. QED
      BY <3>1
  <2>3. QED
    BY <1>4, <2>1, <2>2 DEF Due
<1>19. \A k \in 1..n : HeadOf(k + 1)' = HeadOf(k)
  <2>1. SUFFICES ASSUME NEW k \in 1..n PROVE HeadOf(k + 1)' = HeadOf(k)
    OBVIOUS
  <2>2. CASE k = n
    BY <1>1, <1>4, <1>8, <1>16, <2>2 DEF HeadOf
  <2>3. CASE k # n
    <3>1. k + 1 \in 1..n /\ k + 1 # Len(frames') /\ k # Len(frames)
      BY <1>4, <1>8, <1>16, <2>3
    <3>2. frames'[(k + 1) + 1] = frames[k + 1]
      BY <1>16, <3>1
    <3>3. QED
      BY <3>1, <3>2 DEF HeadOf
  <2>4. QED
    BY <2>2, <2>3
<1>20. \A m \in 1..(n + 1) : m = 1 \/ \E k \in 1..n : m = k + 1
  <2>1. SUFFICES ASSUME NEW m \in 1..(n + 1), m # 1 PROVE \E k \in 1..n : m = k + 1
    OBVIOUS
  <2>2. m - 1 \in 1..n /\ m = (m - 1) + 1
    BY <1>8, <2>1
  <2>3. QED
    BY <2>2
<1>21. Activations(E, D, dp)'
  <2>1. \A m \in 1..(n + 1) : Activation(E, D, m)'
    <3>1. SUFFICES ASSUME NEW m \in 1..(n + 1) PROVE Activation(E, D, m)'
      OBVIOUS
    <3>2. CASE m = 1
      <4>1. Working(u, x, fat, block, E, D)
        BY <1>11, <1>15, <1>17 DEF Working
      <4>2. QED
        BY <1>1, <1>16, <1>18, <3>2, <4>1 DEF Activation
    <3>3. ASSUME NEW k \in 1..n, m = k + 1 PROVE Activation(E, D, m)'
      <4>1. Working(frames[k], HeadOf(k), fat, block, E, D)
        BY <1>6
      <4>2. HeadOf(m)' = HeadOf(k) /\ frames'[m] = frames[k]
        BY <1>16, <1>19, <3>3
      <4>3. QED
        BY <1>1, <4>1, <4>2 DEF Activation
    <3>4. QED
      BY <1>20, <3>2, <3>3
  <2>2. \A m \in 2..(n + 1) : Pending(frames'[m]) # {} /\ Due(frames'[m]).type = "dir"
    <3>1. SUFFICES ASSUME NEW m \in 2..(n + 1)
                   PROVE  Pending(frames'[m]) # {} /\ Due(frames'[m]).type = "dir"
      OBVIOUS
    <3>2. m \in 1..(n + 1) /\ m # 1
      BY <1>8
    <3>3. PICK k \in 1..n : m = k + 1
      BY <1>20, <3>2
    <3>4. frames'[m] = frames[k]
      BY <1>16, <3>3
    <3>5. CASE k = 1
      BY <1>4, <1>8, <3>4, <3>5 DEF Due
    <3>6. CASE k # 1
      <4>1. k \in 2..Len(frames)
        BY <1>4, <1>8, <3>6
      <4>2. QED
        BY <1>14, <3>4, <4>1 DEF Activations
    <3>7. QED
      BY <3>5, <3>6
  <2>3. \A c \in Clusters : (\A m \in 1..(n + 1) : frames'[m].dir # c) => E[c] = block'[c]
    <3>1. SUFFICES ASSUME NEW c \in Clusters, \A m \in 1..(n + 1) : frames'[m].dir # c
                   PROVE  E[c] = block'[c]
      OBVIOUS
    <3>2. \A k \in 1..n : k + 1 \in 1..(n + 1)
      BY <1>8
    <3>3. \A k \in 1..n : frames[k].dir # c
      BY <1>16, <3>1, <3>2
    <3>4. QED
      BY <1>1, <1>4, <1>14, <3>3 DEF Activations
  <2>4. \A k, m \in 1..(n + 1) : k < m => dp[frames'[m].dir] < dp[frames'[k].dir]
    <3>1. SUFFICES ASSUME NEW k \in 1..(n + 1), NEW m \in 1..(n + 1), k < m
                   PROVE  dp[frames'[m].dir] < dp[frames'[k].dir]
      OBVIOUS
    <3>2. m # 1
      BY <1>8, <3>1
    <3>3. PICK m2 \in 1..n : m = m2 + 1
      BY <1>20, <3>2
    <3>4. frames'[m] = frames[m2]
      BY <1>16, <3>3
    <3>5. CASE k = 1
      BY <1>13, <1>16, <1>17, <3>4, <3>5
    <3>6. CASE k # 1
      <4>1. PICK k2 \in 1..n : k = k2 + 1
        BY <1>20, <3>6
      <4>2. frames'[k] = frames[k2]
        BY <1>16, <4>1
      <4>3. k2 < m2
        BY <1>8, <3>1, <3>3, <4>1
      <4>4. QED
        BY <1>4, <1>14, <3>4, <4>2, <4>3 DEF Activations
    <3>7. QED
      BY <3>5, <3>6
  <2>5. QED
    BY <1>5, <1>16, <2>1, <2>2, <2>3, <2>4 DEF Activations
<1>22. QED
  BY <1>1, <1>2, <1>3, <1>21, ScanGoesOn

\* There is no stack left for it.
LEMMA ScanOverrunSound ==
  ASSUME Given, ScanOverrun
  PROVE  SoundInv'
<1>1. pc = "scan" /\ pc' = "halted" /\ UNCHANGED <<super, diskFat, block, ready>>
  BY DEF ScanOverrun, Scanning, disk, memory
<1>2. CtlInv' /\ OnlineInv'
  <2>1. ready
    BY <1>1 DEF Given, SoundInv, OnlineInv
  <2>2. QED
    BY <1>1, <2>1, CtlQuiet DEF OnlineInv
<1>3. MemInv'
  <2>1. \E D, F, dp : Phase(D, F, dp)'
    BY <1>1 DEF Phase, Adding, Storing, Growing, Flushing
  <2>2. QED
    BY <2>1 DEF MemInv
<1>4. DiskInv'
  BY <1>1, DiskKept DEF Given, SoundInv, Firm, Exposed, Flushing, Running
<1>5. QED
  BY <1>2, <1>3, <1>4 DEF SoundInv

\* A cluster cannot be read.
LEMMA ScanFailsSound ==
  ASSUME Given, ScanFails
  PROVE  SoundInv'
<1>1. pc' = "idle" /\ "dangling" \in marks'
  BY DEF ScanFails, GiveUp, Return
<1>2. ~Free(Strays)' /\ CtlInv' /\ OnlineInv'
  BY <1>1, CtlQuiet DEF OnlineInv, Free, Strays, Breaks
<1>3. QED
  BY <1>2, Spoilt

\* The copy of the cluster is written back.
LEMMA ScanWriteSound ==
  ASSUME Given, ScanWrite
  PROVE  SoundInv'
<1>1. PICK w \in Writes :
        /\ WriteBlock(Top.dir, Top.buf, w)
        /\ IF w = "done"
           THEN /\ frames' = <<[Top EXCEPT !.dirty = FALSE]>> \o Tail(frames)
                /\ UNCHANGED <<pc, loc, ret, marks>>
           ELSE frames' = <<>> /\ GiveUp({"dangling"})
  BY DEF ScanWrite
<1>2. CASE w # "done"
  <2>1. pc' = "idle" /\ "dangling" \in marks'
    BY <1>1, <1>2 DEF GiveUp, Return
  <2>2. ~Free(Strays)' /\ CtlInv' /\ OnlineInv'
    BY <2>1, CtlQuiet DEF OnlineInv, Free, Strays, Breaks
  <2>3. QED
    BY <2>2, Spoilt
<1>3. CASE w = "done"
  <2>1. /\ Scanning /\ Pending(Top) = {}
        /\ frames' = <<[Top EXCEPT !.dirty = FALSE]>> \o Tail(frames)
        /\ block' = [block EXCEPT ![Top.dir] = Top.buf]
        /\ UNCHANGED <<super, diskFat, ready, fat, cwd, pc, loc, marks>>
    BY <1>1, <1>3 DEF ScanWrite, memory, WriteBlock
  <2>2. SUFFICES ASSUME Free(Strays)' PROVE SoundInv'
    <3>1. pc' = "scan" /\ ready'
      BY <2>1 DEF Scanning, Given, SoundInv, OnlineInv
    <3>2. CtlInv' /\ OnlineInv'
      BY <3>1, CtlQuiet, OnlineKept
    <3>3. QED
      BY <2>2, <3>2, Spoilt
  <2>3. /\ ready /\ pc = "scan" /\ TypeOK /\ fat \in Fats /\ Free(Strays)
        /\ loc \in Locals /\ block \in [Clusters -> Blocks] /\ frames \in Seq(Frames) /\ frames # <<>>
        /\ Len(frames) \in Nat \ {0} /\ Top = frames[1] /\ Top \in Frames
    BY <2>1, <2>2, ScanNow
  <2>4. PICK E, D, F, dp : ScanPhase(E, D, F, dp)
    BY <2>1, <2>2, ScanNow
  <2>5. PICK n, t, u : n = Len(frames) /\ t = frames[1] /\ u = [t EXCEPT !.dirty = FALSE]
    OBVIOUS
  <2>6. /\ Tree(fat, E, D, F, dp) /\ D \subseteq Clusters /\ E \in [Clusters -> Blocks]
    BY <2>3, <2>4, ScanFacts
  <2>7. \A k \in 1..n :
           /\ Working(frames[k], HeadOf(k), fat, block, E, D)
           /\ HeadOf(k) \in Heads(fat, D) /\ HeadOf(k) \in D
           /\ frames[k].dir \in D /\ E[frames[k].dir] = frames[k].buf
    BY <2>3, <2>4, <2>5, ScanFacts
  <2>8. \A k \in 2..n : frames[k].dir # t.dir
    BY <2>3, <2>4, <2>5, ScanFacts
  <2>9. n \in Nat \ {0} /\ t \in Frames
    BY <2>3, <2>5
  <2>10. u.dir = t.dir /\ u.buf = t.buf /\ u.dirty = FALSE
    BY <2>5, <2>9 DEF Frames
  <2>11. Working(t, HeadOf(1), fat, block, E, D) /\ t.dir \in D /\ E[t.dir] = t.buf
    BY <2>5, <2>7, <2>9
  <2>12. block'[t.dir] = t.buf /\ \A c \in Clusters : c # t.dir => block'[c] = block[c]
    <3>1. t.dir \in Clusters
      BY <2>6, <2>11
    <3>2. block' = [block EXCEPT ![t.dir] = t.buf]
      BY <2>1, <2>3, <2>5
    <3>3. QED
      BY <2>3, <3>1, <3>2
  <2>13. /\ Len(frames') = n /\ frames' # <<>> /\ frames'[1] = u /\ \A k \in 2..n : frames'[k] = frames[k]
    <3>1. frames' = <<u>> \o Tail(frames)
      BY <2>1, <2>3, <2>5
    <3>2. QED
      BY <2>3, <2>5, <3>1, Replaced
  <2>14. \A k \in 1..n : HeadOf(k)' = HeadOf(k)
    BY <2>1, <2>3, <2>5, <2>13, HeadsFollow
  <2>15. \A k \in 1..n : k = 1 \/ k \in 2..n
    BY <2>9
  <2>16. \A k \in 1..n : frames'[k].dir = frames[k].dir
    BY <2>5, <2>10, <2>13, <2>15
  <2>17. Activations(E, D, dp)
    BY <2>4 DEF ScanPhase
  <2>18. Activations(E, D, dp)'
    <3>1. \A k \in 1..n : Activation(E, D, k)'
      <4>1. SUFFICES ASSUME NEW k \in 1..n PROVE Activation(E, D, k)'
        OBVIOUS
      <4>2. CASE k = 1
        <5>1. Working(u, HeadOf(1), fat, block', E, D)
          BY <2>10, <2>11, <2>12 DEF Working
        <5>2. QED
          BY <2>1, <2>9, <2>13, <2>14, <4>2, <5>1 DEF Activation
      <4>3. CASE k \in 2..n
        <5>1. PICK v, h : v = frames[k] /\ h = HeadOf(k)
          OBVIOUS
        <5>2. Working(v, h, fat, block, E, D) /\ block'[v.dir] = block[v.dir]
          BY <2>6, <2>7, <2>8, <2>12, <4>1, <4>3, <5>1
        <5>3. Working(v, h, fat, block', E, D)
          BY <5>2 DEF Working
        <5>4. QED
          BY <2>1, <2>13, <2>14, <4>1, <4>3, <5>1, <5>3 DEF Activation
      <4>4. QED
        BY <2>15, <4>2, <4>3
    <3>2. \A k \in 2..n : Pending(frames'[k]) # {} /\ Due(frames'[k]).type = "dir"
      BY <2>5, <2>13, <2>17 DEF Activations
    <3>3. \A c \in Clusters : (\A k \in 1..n : frames'[k].dir # c) => E[c] = block'[c]
      <4>1. SUFFICES ASSUME NEW c \in Clusters, \A k \in 1..n : frames'[k].dir # c
                     PROVE  E[c] = block'[c]
        OBVIOUS
      <4>2. \A k \in 1..n : frames[k].dir # c
        BY <2>16, <4>1
      <4>3. E[c] = block[c] /\ c # t.dir
        BY <2>5, <2>9, <2>17, <4>2 DEF Activations
      <4>4. QED
        BY <2>12, <4>3
    <3>4. \A k, m \in 1..n : k < m => dp[frames'[m].dir] < dp[frames'[k].dir]
      BY <2>5, <2>16, <2>17 DEF Activations
    <3>5. QED
      BY <2>6, <2>13, <3>1, <3>2, <3>3, <3>4 DEF Activations
  <2>19. ScanPhase(E, D, F, dp)'
    BY <2>1, <2>4, <2>18 DEF ScanPhase, Shape, Agree, Kept, Free
  <2>20. DiskInv'
    <3>1. SUFFICES ASSUME super' PROVE \E D0, F0, dp0 : OnDisk(D0, F0, dp0)'
      BY DEF DiskInv
    <3>2. super /\ ~Exposed /\ Free(Strays)
      BY <2>1, <2>3, <3>1 DEF Exposed, Flushing, Running
    <3>3. PICK D0, F0, dp0 : OnDisk(D0, F0, dp0)
      BY <3>2 DEF Given, SoundInv, DiskInv
    <3>4. Tree(diskFat, block, D0, F0, dp0) /\ D0 \subseteq Clusters /\ diskFat \in Fats
      BY <2>3, <3>3 DEF OnDisk, Tree, Ground, TypeOK
    <3>5. ASSUME NEW p \in D0 \X Slots
          PROVE  At(block', p) = At(block, p) \/ (IsProper(At(block, p)) /\ At(block', p) = Zeroed)
      <4>1. PICK c \in Clusters, j \in Slots : p = <<c, j>>
        BY <3>4
      <4>2. At(block', p) = block'[c][j] /\ At(block, p) = block[c][j]
        BY <4>1 DEF At
      <4>3. CASE c = t.dir
        BY <2>11, <2>12, <4>1, <4>2, <4>3 DEF Working
      <4>4. CASE c # t.dir
        BY <2>12, <4>2, <4>4
      <4>5. QED
        BY <4>3, <4>4
    <3>6. Tree(diskFat, block', D0, F0, dp0)
      BY <3>4, <3>5, TreeThinner
    <3>7. ~Firm'
      BY <2>1, <2>3 DEF Firm
    <3>8. OnDisk(D0, F0, dp0)'
      BY <2>1, <3>6, <3>7 DEF OnDisk
    <3>9. QED
      BY <3>8
  <2>21. QED
    BY <2>1, <2>3, <2>19, <2>20, ToScan
<1>4. QED
  BY <1>2, <1>3

\* The next cluster of the directory.
LEMMA ScanNextSound ==
  ASSUME Given, ScanNextCluster, Free(Strays)'
  PROVE  SoundInv'
<1>1. /\ Scanning /\ Pending(Top) = {} /\ ~Top.dirty /\ fat[Top.dir] \in Clusters
      /\ frames' = <<Frame(fat[Top.dir])>> \o Tail(frames)
      /\ UNCHANGED <<super, diskFat, block, ready, fat, cwd, pc, loc>>
  BY DEF ScanNextCluster, disk, memory
<1>2. /\ ready /\ pc = "scan" /\ TypeOK /\ fat \in Fats
      /\ loc \in Locals /\ block \in [Clusters -> Blocks] /\ frames \in Seq(Frames) /\ frames # <<>>
      /\ Len(frames) \in Nat \ {0} /\ Top = frames[1] /\ Top \in Frames
  BY <1>1, ScanNow
<1>3. PICK E, D, F, dp : ScanPhase(E, D, F, dp)
  BY <1>1, ScanNow
<1>4. PICK n, t, x, u :
        /\ n = Len(frames) /\ t = frames[1] /\ x = fat[t.dir]
        /\ u = [dir |-> x, buf |-> block[x], dirty |-> FALSE]
  OBVIOUS
<1>5. /\ Tree(fat, E, D, F, dp)
      /\ D \subseteq Clusters /\ E \in [Clusters -> Blocks]
      /\ dp \in [Clusters -> Nat]
  BY <1>2, <1>3, ScanFacts
<1>6. \A k \in 1..n :
         /\ Working(frames[k], HeadOf(k), fat, block, E, D)
         /\ HeadOf(k) \in Heads(fat, D) /\ HeadOf(k) \in D
         /\ frames[k].dir \in D /\ E[frames[k].dir] = frames[k].buf
  BY <1>2, <1>3, <1>4, ScanFacts
<1>7. \A k \in 2..n : dp[frames[k].dir] < dp[t.dir]
  BY <1>2, <1>3, <1>4, ScanFacts
<1>8. n \in Nat \ {0} /\ t \in Frames /\ Pending(t) = {} /\ ~t.dirty /\ x \in Clusters
  BY <1>1, <1>2, <1>4
<1>9. Working(t, HeadOf(1), fat, block, E, D) /\ t.dir \in D /\ E[t.dir] = t.buf /\ HeadOf(1) \in D
  BY <1>4, <1>6, <1>8
<1>10. E[t.dir] = block[t.dir] /\ \A j \in Slots : ~IsProper(E[t.dir][j])
  BY <1>8, <1>9 DEF Working, Pending
<1>11. x \in D /\ dp[t.dir] < dp[x]
  BY <1>4, <1>5, <1>8, <1>9 DEF Tree, Ground, Deeper
<1>12. \A k \in 1..n : frames[k].dir # x
  <2>1. SUFFICES ASSUME NEW k \in 1..n PROVE frames[k].dir # x
    OBVIOUS
  <2>2. frames[k].dir \in Clusters /\ t.dir \in Clusters
    BY <1>5, <1>6, <1>9
  <2>3. dp[frames[k].dir] \in Nat /\ dp[t.dir] \in Nat /\ dp[x] \in Nat
    BY <1>5, <1>8, <2>2
  <2>4. CASE k = 1
    BY <1>4, <1>11, <2>3, <2>4
  <2>5. CASE k \in 2..n
    <3>1. dp[frames[k].dir] < dp[t.dir]
      BY <1>7, <2>5
    <3>2. dp[frames[k].dir] < dp[x]
      BY <1>11, <2>3, <3>1
    <3>3. QED
      BY <2>3, <3>2
  <2>6. QED
    BY <1>8, <2>4, <2>5
<1>13. Activations(E, D, dp)
  BY <1>3 DEF ScanPhase
<1>14. E[x] = block[x]
  BY <1>4, <1>8, <1>12, <1>13 DEF Activations
<1>15. u.dir = x /\ u.buf = block[x] /\ u.dirty = FALSE
  BY <1>4
<1>16. /\ Len(frames') = n /\ frames' # <<>> /\ frames'[1] = u /\ \A k \in 2..n : frames'[k] = frames[k]
  <2>1. frames' = <<u>> \o Tail(frames)
    BY <1>1, <1>2, <1>4 DEF Frame
  <2>2. QED
    BY <1>2, <1>4, <2>1, Replaced
<1>17. \A k \in 1..n : HeadOf(k)' = HeadOf(k)
  BY <1>1, <1>2, <1>4, <1>16, HeadsFollow
<1>18. \A k \in 1..n : k = 1 \/ k \in 2..n
  BY <1>8
<1>19. Working(u, HeadOf(1), fat, block, E, D)
  <2>1. PICK h : h = HeadOf(1)
    OBVIOUS
  <2>2. h \in Clusters /\ h \in Heads(fat, D) /\ t.dir \in Chain(fat, h) /\ t.dir \in Clusters
    BY <1>5, <1>9, <2>1 DEF Working
  <2>3. Chain(fat, h) \subseteq Clusters /\ ClosedUnderLinks(fat, Chain(fat, h))
    BY <1>2, <2>2, ChainProperties
  <2>4. x \in Chain(fat, h)
    BY <1>4, <1>8, <2>2, <2>3 DEF ClosedUnderLinks
  <2>5. Chain(fat, t.dir) \subseteq {t.dir} \cup Chain(fat, x)
    <3>1. PICK S : S = {t.dir} \cup Chain(fat, x)
      OBVIOUS
    <3>2. x \in Chain(fat, x) /\ Chain(fat, x) \subseteq Clusters /\ ClosedUnderLinks(fat, Chain(fat, x))
      BY <1>2, <1>8, ChainProperties
    <3>3. S \in SUBSET Clusters /\ t.dir \in S /\ ClosedUnderLinks(fat, S)
      BY <1>4, <2>2, <3>1, <3>2 DEF ClosedUnderLinks
    <3>4. QED
      BY <3>1, <3>3, ChainWithin
  <2>6. ASSUME NEW c \in Chain(fat, h), NEW j \in Slots
        PROVE  c \in Chain(fat, x) \/ ~IsProper(E[c][j])
    <3>1. c \in Chain(fat, t.dir) \/ ~IsProper(E[c][j])
      BY <1>9, <2>1, <2>6 DEF Working
    <3>2. QED
      BY <1>10, <2>5, <3>1
  <2>7. Working(u, h, fat, block, E, D)
    BY <1>11, <1>14, <1>15, <2>2, <2>4, <2>6 DEF Working
  <2>8. QED
    BY <2>1, <2>7
<1>20. Activations(E, D, dp)'
  <2>1. \A k \in 1..n : Activation(E, D, k)'
    <3>1. SUFFICES ASSUME NEW k \in 1..n PROVE Activation(E, D, k)'
      OBVIOUS
    <3>2. CASE k = 1
      BY <1>1, <1>8, <1>16, <1>17, <1>19, <3>2 DEF Activation
    <3>3. CASE k \in 2..n
      BY <1>1, <1>6, <1>16, <1>17, <3>1, <3>3 DEF Activation
    <3>4. QED
      BY <1>18, <3>2, <3>3
  <2>2. \A k \in 2..n : Pending(frames'[k]) # {} /\ Due(frames'[k]).type = "dir"
    BY <1>4, <1>13, <1>16 DEF Activations
  <2>3. \A c \in Clusters : (\A k \in 1..n : frames'[k].dir # c) => E[c] = block'[c]
    <3>1. SUFFICES ASSUME NEW c \in Clusters, \A k \in 1..n : frames'[k].dir # c
                   PROVE  E[c] = block'[c]
      OBVIOUS
    <3>2. CASE c = t.dir
      BY <1>1, <1>10, <3>2
    <3>3. CASE c # t.dir
      <4>1. \A k \in 1..n : frames[k].dir # c
        BY <1>4, <1>16, <1>18, <3>1, <3>3
      <4>2. QED
        BY <1>1, <1>4, <1>13, <4>1 DEF Activations
    <3>4. QED
      BY <3>2, <3>3
  <2>4. \A k, m \in 1..n : k < m => dp[frames'[m].dir] < dp[frames'[k].dir]
    <3>1. SUFFICES ASSUME NEW k \in 1..n, NEW m \in 1..n, k < m
                   PROVE  dp[frames'[m].dir] < dp[frames'[k].dir]
      OBVIOUS
    <3>2. m \in 2..n /\ frames'[m] = frames[m]
      BY <1>8, <1>16, <3>1
    <3>3. CASE k = 1
      <4>1. dp[frames[m].dir] < dp[t.dir]
        BY <1>7, <3>2
      <4>2. frames[m].dir \in Clusters /\ t.dir \in Clusters
        BY <1>5, <1>6, <1>9, <3>1
      <4>3. dp[frames[m].dir] \in Nat /\ dp[t.dir] \in Nat /\ dp[x] \in Nat
        BY <1>5, <1>8, <4>2
      <4>4. dp[frames[m].dir] < dp[x]
        BY <1>11, <4>1, <4>3
      <4>5. QED
        BY <1>15, <1>16, <3>2, <3>3, <4>4
    <3>4. CASE k \in 2..n
      BY <1>4, <1>13, <1>16, <3>1, <3>2, <3>4 DEF Activations
    <3>5. QED
      BY <1>18, <3>3, <3>4
  <2>5. QED
    BY <1>4, <1>5, <1>16, <2>1, <2>2, <2>3, <2>4 DEF Activations
<1>21. QED
  BY <1>1, <1>2, <1>3, <1>20, ScanGoesOn

\* The innermost activation has emptied its directory.
LEMMA ScanEmptied ==
  ASSUME TypeOK, Len(frames) \in Nat \ {0}, NEW E, NEW D, NEW F, NEW dp, ScanPhase(E, D, F, dp),
         NEW t \in Frames, t = frames[1], Pending(t) = {}, ~t.dirty, fat[t.dir] \notin Clusters,
         NEW h, h = HeadOf(1)
  PROVE  /\ E[t.dir] = block[t.dir]
         /\ \A q \in Proper(E, D) : q[1] \notin Chain(fat, h)
<1>1. Working(t, h, fat, block, E, D) /\ D \subseteq Clusters /\ t.dir \in D /\ E[t.dir] = t.buf
  <2>1. 1 \in 1..Len(frames)
    OBVIOUS
  <2>2. QED
    BY <2>1, ScanFacts
<1>2. E[t.dir] = block[t.dir] /\ \A j \in Slots : ~IsProper(E[t.dir][j])
  BY <1>1 DEF Working, Pending
<1>3. Chain(fat, t.dir) \subseteq {t.dir}
  <2>1. {t.dir} \in SUBSET Clusters /\ ClosedUnderLinks(fat, {t.dir})
    BY <1>1 DEF ClosedUnderLinks
  <2>2. QED
    BY <2>1, ChainWithin
<1>4. ASSUME NEW q \in Proper(E, D), q[1] \in Chain(fat, h) PROVE FALSE
  <2>1. q[2] \in Slots /\ IsProper(E[q[1]][q[2]])
    BY DEF Proper, At
  <2>2. q[1] \in Chain(fat, t.dir)
    BY <1>1, <1>4, <2>1 DEF Working
  <2>3. QED
    BY <1>2, <1>3, <2>1, <2>2
<1>5. QED
  BY <1>2, <1>4

\* The directories above one are no part of it.
LEMMA AboveApart ==
  ASSUME NEW f \in Fats, NEW b, NEW D, NEW F, NEW dp, Tree(f, b, D, F, dp),
         NEW x \in Heads(f, D), NEW a \in D, dp[a] < dp[x],
         NEW d \in D, d = a \/ dp[d] < dp[a], NEW h \in Heads(f, D), d \in Chain(f, h)
  PROVE  d \notin Chain(f, x) /\ h \notin Chain(f, x) /\ Chain(f, h) \cap Chain(f, x) = {}
<1>1. /\ D \subseteq Clusters /\ dp \in [Clusters -> Nat] /\ x \in D /\ h \in D
      /\ Ground(f, D, F) /\ Once(f, b, D, F)
  BY DEF Tree, Ground, Deeper, Heads
<1>2. dp[a] \in Nat /\ dp[d] \in Nat /\ dp[x] \in Nat
  BY <1>1
<1>3. dp[d] < dp[x]
  BY <1>2
<1>4. d \notin Chain(f, x)
  <2>1. SUFFICES ASSUME d \in Chain(f, x) PROVE FALSE
    OBVIOUS
  <2>2. d = x \/ dp[x] < dp[d]
    BY <1>1, <2>1, ChainDeeper
  <2>3. QED
    BY <1>2, <1>3, <2>2
<1>5. h # x
  BY <1>4
<1>6. Chain(f, h) \cap Chain(f, x) = {}
  BY <1>1, <1>5, ChainsApart
<1>7. h \in Chain(f, h)
  BY <1>1, ChainProperties
<1>8. QED
  BY <1>4, <1>6, <1>7

\* The subdirectory is empty: its chain is released.
LEMMA ScanReturnSound ==
  ASSUME Given, ScanReturn, Free(Strays)'
  PROVE  SoundInv'
<1>1. /\ Scanning /\ Pending(Top) = {} /\ ~Top.dirty /\ fat[Top.dir] \notin Clusters /\ Len(frames) > 1
      /\ UNCHANGED <<super, diskFat, block, ready, cwd, pc, loc>>
  BY DEF ScanReturn, ScanDone, disk
<1>2. /\ ready /\ pc = "scan" /\ TypeOK /\ fat \in Fats
      /\ loc \in Locals /\ block \in [Clusters -> Blocks] /\ frames \in Seq(Frames) /\ frames # <<>>
      /\ Len(frames) \in Nat \ {0} /\ Top = frames[1] /\ Top \in Frames
  BY <1>1, ScanNow
<1>3. PICK E, D, F, dp : ScanPhase(E, D, F, dp)
  BY <1>1, ScanNow
<1>4. PICK n, t, a, i, e, x, C, p, E2, D2, F2 :
        /\ n = Len(frames) /\ t = frames[1] /\ a = frames[2] /\ i = Least(Pending(a))
        /\ e = a.buf[i] /\ x = e.first
        /\ C = Chain(fat, x) /\ p = <<a.dir, i>> /\ E2 = With(E, p, Zeroed) /\ D2 = D \ C /\ F2 = F \ C
  OBVIOUS
<1>5. Head(Tail(frames)) = a
  BY <1>1, <1>2, <1>4, SecondOf
<1>6. /\ fat' = FreeChain(fat, x) /\ Forget(x) \subseteq marks'
      /\ frames' = <<Cleared(a)>> \o Tail(Tail(frames))
  BY <1>4, <1>5 DEF ScanReturn
<1>7. /\ Tree(fat, E, D, F, dp) /\ Reached(fat, E, D, F) /\ cwd \in Heads(fat, D)
      /\ D \subseteq Clusters /\ F \subseteq Clusters /\ D \cap F = {} /\ E \in [Clusters -> Blocks]
      /\ dp \in [Clusters -> Nat]
  BY <1>2, <1>3, ScanFacts
<1>8. \A k \in 1..n :
         /\ Working(frames[k], HeadOf(k), fat, block, E, D)
         /\ HeadOf(k) \in Heads(fat, D) /\ HeadOf(k) \in D
         /\ frames[k].dir \in D /\ E[frames[k].dir] = frames[k].buf
  BY <1>2, <1>3, <1>4, ScanFacts
<1>9. Activations(E, D, dp)
  BY <1>3 DEF ScanPhase
<1>10. n \in Nat /\ n > 1 /\ t \in Frames /\ a \in Frames /\ Pending(t) = {} /\ ~t.dirty /\ fat[t.dir] \notin Clusters
  BY <1>1, <1>2, <1>4
<1>11. a.dir \in D /\ E[a.dir] = a.buf /\ Pending(a) # {} /\ e.type = "dir"
  <2>1. 2 \in 1..n /\ 2 \in 2..n
    BY <1>10
  <2>2. QED
    BY <1>4, <1>8, <1>9, <2>1 DEF Activations, Due
<1>12. i \in Slots /\ p \in Proper(E, D) /\ At(E, p) = e
  BY <1>4, <1>7, <1>10, <1>11, PendingPlace
<1>13. HeadOf(1) = x
  <2>1. 1 # Len(frames) /\ frames[1 + 1] = a
    BY <1>4, <1>10
  <2>2. HeadOf(1) = Due(frames[1 + 1]).first
    BY <2>1 DEF HeadOf
  <2>3. QED
    BY <1>4, <2>1, <2>2 DEF Due
<1>14. /\ E[t.dir] = block[t.dir]
       /\ \A q \in Proper(E, D) : q[1] \notin C
  BY <1>2, <1>3, <1>4, <1>10, <1>13, ScanEmptied
<1>15. /\ E2 \in [Clusters -> Blocks] /\ At(E2, p) = Zeroed
       /\ \A q \in Clusters \X Slots : q # p => At(E2, q) = At(E, q)
       /\ \A c \in Clusters : c # a.dir => E2[c] = E[c]
  <2>1. Zeroed \in Entries
    BY FsAssumption DEF Zeroed, Entries
  <2>2. p[1] = a.dir /\ p \in Clusters \X Slots
    BY <1>4, <1>7, <1>11, <1>12
  <2>3. E \in [Clusters -> Blocks] /\ E2 = With(E, p, Zeroed)
    BY <1>4, <1>7
  <2>4. /\ E2 \in [Clusters -> Blocks] /\ At(E2, p) = Zeroed
        /\ \A q \in Clusters \X Slots : q # p => At(E2, q) = At(E, q)
        /\ \A c \in Clusters : c # p[1] => E2[c] = E[c]
    BY ONLY <2>1, <2>2, <2>3, WithAt
  <2>5. QED
    BY <2>2, <2>4
<1>16. Cut(fat, fat', E2, D, F, dp, C)
  <2>1. x = At(E, p).first /\ \A q \in (D \ C) \X Slots : q # p => At(E2, q) = At(E, q)
    BY <1>4, <1>7, <1>12, <1>15
  <2>2. PICK f, g : f = fat /\ g = fat'
    OBVIOUS
  <2>3. /\ f \in Fats /\ Tree(f, E, D, F, dp) /\ Reached(f, E, D, F) /\ C = Chain(f, x) /\ g = FreeChain(f, x)
        /\ p \in Proper(E, D) /\ \A q \in Proper(E, D) : q[1] \notin C
    BY <1>2, <1>4, <1>6, <1>7, <1>12, <1>14, <2>2
  <2>4. At(E2, p) = Zeroed
    BY <1>15
  <2>5. Cut(f, g, E2, D, F, dp, C)
    BY ONLY <2>1, <2>3, <2>4, ChainCut
  <2>6. QED
    BY <2>2, <2>5
<1>17. /\ Tree(fat', E2, D2, F2, dp) /\ Reached(fat', E2, D2, F2)
       /\ Heads(fat', D2) = Heads(fat, D) \ C /\ fat' \in Fats
  BY <1>2, <1>4, <1>6, <1>16, FreeChainType DEF Cut
<1>18. \A c \in Clusters : fat'[c] = IF c \in C THEN FREE ELSE fat[c]
  BY <1>4, <1>6, ClusterFacts DEF FreeChain
<1>19. x \in Heads(fat, D) /\ x \in D /\ dp[a.dir] < dp[x]
  <2>1. x \in Heads(fat, D) /\ x \in Clusters
    BY <1>4, <1>7, <1>11, <1>12, EntryIsHead
  <2>2. p[1] = a.dir /\ At(E, p).first = x
    BY <1>4, <1>12
  <2>3. dp[p[1]] < dp[At(E, p).first]
    BY <1>7, <1>12, <2>1, <2>2 DEF Tree, Deeper
  <2>4. QED
    BY <2>1, <2>2, <2>3 DEF Heads
<1>20. ASSUME NEW k \in 2..n
       PROVE  /\ Working(frames[k], HeadOf(k), fat, block, E, D)
              /\ frames[k].dir \in D2 /\ HeadOf(k) \in Heads(fat', D2) /\ HeadOf(k) \in Clusters
              /\ Chain(fat, HeadOf(k)) \cap C = {} /\ Chain(fat, HeadOf(k)) \subseteq Clusters
              /\ \A c \in Chain(fat, HeadOf(k)) : fat'[c] = fat[c]
              /\ k # 2 => frames[k].dir # a.dir
  <2>1. PICK d, h : d = frames[k].dir /\ h = HeadOf(k)
    OBVIOUS
  <2>2. k \in 1..n
    BY <1>10
  <2>3. Working(frames[k], h, fat, block, E, D) /\ d \in D /\ h \in Heads(fat, D) /\ d \in Chain(fat, h) /\ h \in Clusters
    BY <1>7, <1>8, <2>1, <2>2 DEF Working
  <2>4. k # 2 => dp[d] < dp[a.dir]
    <3>1. SUFFICES ASSUME k # 2 PROVE dp[d] < dp[a.dir]
      OBVIOUS
    <3>2. 2 < k /\ 2 \in 1..n
      BY <1>10, <3>1
    <3>3. QED
      BY <1>4, <1>9, <2>1, <2>2, <3>2 DEF Activations
  <2>5. k # 2 => d # a.dir
    <3>1. dp[d] \in Nat
      BY <1>7, <2>3
    <3>2. QED
      BY <2>4, <3>1
  <2>6. k = 2 => d = a.dir
    BY <1>4, <2>1
  <2>7. d \notin C /\ h \notin C /\ Chain(fat, h) \cap C = {}
    <3>1. d = a.dir \/ dp[d] < dp[a.dir]
      BY <2>4, <2>6
    <3>2. PICK f, y : f = fat /\ y = a.dir
      OBVIOUS
    <3>3. /\ f \in Fats /\ Tree(f, E, D, F, dp) /\ x \in Heads(f, D) /\ y \in D /\ dp[y] < dp[x]
          /\ d = y \/ dp[d] < dp[y]
          /\ h \in Heads(f, D) /\ d \in Chain(f, h)
      BY <1>2, <1>7, <1>11, <1>19, <2>3, <3>1, <3>2
    <3>4. d \notin Chain(f, x) /\ h \notin Chain(f, x) /\ Chain(f, h) \cap Chain(f, x) = {}
      BY ONLY <2>3, <3>3, AboveApart
    <3>5. QED
      BY <1>4, <3>2, <3>4
  <2>8. Chain(fat, h) \subseteq Clusters
    BY <1>2, <2>3, ChainProperties
  <2>9. \A c \in Chain(fat, h) : fat'[c] = fat[c]
    BY <1>18, <2>7, <2>8
  <2>10. d \in D2 /\ h \in Heads(fat', D2)
    BY <1>4, <1>17, <2>3, <2>7
  <2>11. QED
    BY <2>1, <2>3, <2>5, <2>7, <2>8, <2>9, <2>10
<1>21. /\ Len(frames') = n - 1 /\ frames' # <<>> /\ frames'[1] = Cleared(a)
       /\ \A k \in 2..(n - 1) : frames'[k] = frames[k + 1]
  <2>1. PICK u, v, r : u = Tail(frames) /\ v = Cleared(a) /\ r = frames'
    OBVIOUS
  <2>2. u \in Seq(Frames) /\ Len(u) = n - 1 /\ \A k \in 1..(n - 1) : u[k] = frames[k + 1]
    BY <1>2, <1>4, <1>10, <2>1
  <2>3. u # <<>>
    BY <1>10, <2>2
  <2>4. r = <<v>> \o Tail(u)
    BY <1>6, <2>1
  <2>5. Len(r) = Len(u) /\ r # <<>> /\ r[1] = v /\ \A k \in 2..Len(u) : r[k] = u[k]
    BY ONLY <2>2, <2>3, <2>4, Replaced
  <2>6. \A k \in 2..(n - 1) : r[k] = frames[k + 1]
    BY <1>10, <2>2, <2>5
  <2>7. QED
    BY <2>1, <2>2, <2>5, <2>6
<1>22. Cleared(a).dir = a.dir
  BY <1>4, <1>10, <1>12, ClearedFields
<1>23. \A k \in 1..(n - 1) : k + 1 \in 2..n /\ (k = 1 \/ k \in 2..(n - 1))
  BY <1>10
<1>24. ASSUME NEW k \in 1..(n - 1)
       PROVE  frames'[k].dir = frames[k + 1].dir /\ HeadOf(k)' = HeadOf(k + 1)
  <2>1. frames'[k].dir = frames[k + 1].dir
    <3>1. CASE k = 1
      BY <1>4, <1>21, <1>22, <3>1
    <3>2. CASE k # 1
      BY <1>21, <1>23, <3>2
    <3>3. QED
      BY <3>1, <3>2
  <2>2. CASE k = n - 1
    <3>1. k = Len(frames') /\ k + 1 = Len(frames)
      BY <1>4, <1>10, <1>21, <2>2
    <3>2. QED
      BY <1>1, <2>1, <3>1 DEF HeadOf
  <2>3. CASE k # n - 1
    <3>1. k # Len(frames') /\ k + 1 # Len(frames) /\ k + 1 \in 2..(n - 1)
      BY <1>4, <1>10, <1>21, <2>3
    <3>2. frames'[k + 1] = frames[(k + 1) + 1]
      BY <1>21, <3>1
    <3>3. QED
      BY <2>1, <3>1, <3>2 DEF HeadOf
  <2>4. QED
    BY <2>2, <2>3
<1>25. \A c \in Clusters, j \in Slots : IsProper(E2[c][j]) => IsProper(E[c][j])
  <2>1. SUFFICES ASSUME NEW c \in Clusters, NEW j \in Slots, IsProper(E2[c][j]) PROVE IsProper(E[c][j])
    OBVIOUS
  <2>2. PICK q : q = <<c, j>>
    OBVIOUS
  <2>3. At(E2, q) = E2[c][j] /\ At(E, q) = E[c][j] /\ q \in Clusters \X Slots
    BY <2>2 DEF At
  <2>4. At(E2, q) = At(E, q) \/ At(E2, q) = Zeroed
    BY <1>15, <2>3
  <2>5. ~IsProper(Zeroed)
    BY DEF IsProper, Zeroed
  <2>6. QED
    BY <2>1, <2>3, <2>4, <2>5
<1>26. ASSUME NEW k \in 1..(n - 1)
       PROVE  Working(frames'[k], HeadOf(k + 1), fat', block, E2, D2)
  <2>1. PICK h, g : h = HeadOf(k + 1) /\ g = fat'
    OBVIOUS
  <2>2. k + 1 \in 2..n
    BY <1>23
  <2>3. /\ Working(frames[k + 1], h, fat, block, E, D)
        /\ frames[k + 1].dir \in D2 /\ h \in Heads(g, D2) /\ h \in Clusters /\ g \in Fats
        /\ Chain(fat, h) \subseteq Clusters
        /\ \A c \in Chain(fat, h) : g[c] = fat[c]
    BY <1>17, <1>20, <2>1, <2>2
  <2>4. CASE k = 1
    <3>1. frames[k + 1] = a
      BY <1>4, <2>4
    <3>2. Working(Cleared(a), h, g, block, E2, D2)
      BY <1>2, <1>4, <1>7, <1>10, <1>11, <2>3, <3>1, WorkingCleared
    <3>3. QED
      BY <1>21, <2>1, <2>4, <3>2
  <2>5. CASE k # 1
    <3>1. k \in 2..(n - 1) /\ k + 1 # 2
      BY <1>23, <2>5
    <3>2. PICK u : u = frames[k + 1]
      OBVIOUS
    <3>3. E2[u.dir] = E[u.dir] /\ u.dir \in D2
      <4>1. u.dir # a.dir
        BY <1>20, <2>2, <3>1, <3>2
      <4>2. u.dir \in D2 /\ u.dir \in Clusters
        BY <1>4, <1>7, <2>3, <3>2
      <4>3. QED
        BY <1>15, <4>1, <4>2
    <3>4. \A c \in Chain(fat, h), j \in Slots : IsProper(E2[c][j]) => IsProper(E[c][j])
      BY <1>25, <2>3
    <3>5. Working(u, h, g, block, E2, D2)
      BY <1>2, <2>3, <3>2, <3>3, <3>4, WorkingKept
    <3>6. QED
      BY <1>21, <2>1, <3>1, <3>2, <3>5
  <2>6. QED
    BY <2>4, <2>5
<1>27. Activations(E2, D2, dp)'
  <2>1. \A k \in 1..(n - 1) : Activation(E2, D2, k)'
    BY <1>1, <1>24, <1>26 DEF Activation
  <2>2. \A k \in 2..(n - 1) : Pending(frames'[k]) # {} /\ Due(frames'[k]).type = "dir"
    <3>1. SUFFICES ASSUME NEW k \in 2..(n - 1)
                   PROVE  Pending(frames'[k]) # {} /\ Due(frames'[k]).type = "dir"
      OBVIOUS
    <3>2. k + 1 \in 2..Len(frames) /\ frames'[k] = frames[k + 1]
      BY <1>4, <1>10, <1>21
    <3>3. QED
      BY <1>9, <3>2 DEF Activations
  <2>3. \A c \in Clusters : (\A k \in 1..(n - 1) : frames'[k].dir # c) => E2[c] = block'[c]
    <3>1. SUFFICES ASSUME NEW c \in Clusters, \A k \in 1..(n - 1) : frames'[k].dir # c
                   PROVE  E2[c] = block'[c]
      OBVIOUS
    <3>2. \A k \in 2..n : frames[k].dir # c
      <4>1. SUFFICES ASSUME NEW k \in 2..n PROVE frames[k].dir # c
        OBVIOUS
      <4>2. k - 1 \in 1..(n - 1) /\ (k - 1) + 1 = k
        BY <1>10
      <4>3. frames'[k - 1].dir = frames[(k - 1) + 1].dir
        BY <1>24, <4>2
      <4>4. QED
        BY <3>1, <4>2, <4>3
    <3>3. c # a.dir
      BY <1>4, <1>10, <3>2
    <3>4. E[c] = block[c]
      <4>1. CASE c = t.dir
        BY <1>14, <4>1
      <4>2. CASE c # t.dir
        <5>1. \A k \in 1..Len(frames) : k = 1 \/ k \in 2..n
          BY <1>4, <1>10
        <5>2. \A k \in 1..Len(frames) : frames[k].dir # c
          BY <1>4, <3>2, <4>2, <5>1
        <5>3. QED
          BY <1>9, <5>2 DEF Activations
      <4>3. QED
        BY <4>1, <4>2
    <3>5. QED
      BY <1>1, <1>15, <3>3, <3>4
  <2>4. \A k, m \in 1..(n - 1) : k < m => dp[frames'[m].dir] < dp[frames'[k].dir]
    <3>1. SUFFICES ASSUME NEW k \in 1..(n - 1), NEW m \in 1..(n - 1), k < m
                   PROVE  dp[frames'[m].dir] < dp[frames'[k].dir]
      OBVIOUS
    <3>2. k + 1 \in 1..Len(frames) /\ m + 1 \in 1..Len(frames) /\ k + 1 < m + 1
      BY <1>4, <1>10, <3>1
    <3>3. dp[frames[m + 1].dir] < dp[frames[k + 1].dir]
      BY <1>9, <3>2 DEF Activations
    <3>4. QED
      BY <1>24, <3>3
  <2>5. QED
    BY <1>15, <1>21, <2>1, <2>2, <2>3, <2>4 DEF Activations
<1>28. cwd \notin C
  <2>1. cwd \in C => "cwdGone" \in marks'
    BY <1>4, <1>6 DEF Forget
  <2>2. QED
    BY <2>1 DEF Free, Strays
<1>29. ScanPhase(E2, D2, F2, dp)'
  <2>1. Shape(E2, D2, F2, dp)'
    BY <1>1, <1>7, <1>17, <1>28 DEF Shape
  <2>2. Agree(D2, F2)' /\ Kept(D2, F2, {})'
    <3>1. Agree(D, F) /\ Kept(D, F, {})
      BY <1>3 DEF ScanPhase
    <3>2. Agree(D \ C, F \ C)' /\ Kept(D \ C, F \ C, {})'
      BY <1>1, <1>7, <1>18, <3>1, TablesCut DEF Given
    <3>3. QED
      BY <1>4, <3>2
  <2>3. loc'.rest[1] \notin Dots =>
          loc'.at \in Proper(E2, D2) /\ At(E2, loc'.at).type = "dir" /\ At(E2, loc'.at).first = loc'.entry.first
    <3>1. SUFFICES ASSUME loc.rest[1] \notin Dots
                   PROVE  /\ loc.at \in Proper(E2, D2) /\ At(E2, loc.at).type = "dir"
                          /\ At(E2, loc.at).first = loc.entry.first
      BY <1>1
    <3>2. /\ loc.at \in Proper(E, D) /\ At(E, loc.at).type = "dir"
          /\ At(E, loc.at).first = loc.entry.first
      BY <1>3, <3>1 DEF ScanPhase
    <3>3. loc.entry.first # x
      <4>1. HeadOf(n) = loc.entry.first /\ n \in 2..n
        BY <1>4, <1>10 DEF HeadOf
      <4>2. HeadOf(n) \in Heads(fat', D2)
        BY <1>20, <4>1
      <4>3. x \in C
        BY <1>2, <1>4, <1>7, <1>19, ChainProperties
      <4>4. QED
        BY <1>17, <4>1, <4>2, <4>3
    <3>4. loc.at # p
      BY <1>4, <1>12, <3>2, <3>3
    <3>5. loc.at \in D \X Slots /\ loc.at \in Clusters \X Slots /\ loc.at[1] \notin C
      BY <1>7, <1>14, <3>2 DEF Proper
    <3>6. At(E2, loc.at) = At(E, loc.at)
      BY <1>15, <3>4, <3>5
    <3>7. loc.at \in D2 \X Slots
      BY <1>4, <3>5
    <3>8. QED
      BY <3>2, <3>6, <3>7 DEF Proper
  <2>4. QED
    BY <1>27, <2>1, <2>2, <2>3 DEF ScanPhase
<1>30. DiskInv'
  BY <1>1, <1>2, DiskKept DEF Given, SoundInv, Firm, Exposed, Flushing, Running
<1>31. QED
  BY <1>1, <1>2, <1>29, <1>30, ToScan

\* The directory is empty: its entry is about to be cleared.
LEMMA ScanFinishSound ==
  ASSUME Given, ScanFinish
  PROVE  SoundInv'
<1>1. /\ Scanning /\ Pending(Top) = {} /\ ~Top.dirty /\ fat[Top.dir] \notin Clusters /\ Len(frames) = 1
      /\ Unlink(loc, loc.entry.first) /\ UNCHANGED <<super, diskFat, block, ready, cwd>>
  BY DEF ScanFinish, ScanDone, disk
<1>2. pc = "scan" /\ loc.req.op = "rmdir" /\ ready /\ loc \in Locals
  BY <1>1 DEF Scanning, Given, SyncInv, ScanInv, SoundInv, OnlineInv, TypeInv, TypeOK
<1>3. /\ pc' = "setEntry" /\ loc' = [loc EXCEPT !.entry = Zeroed]
      /\ marks' = marks \cup Forget(loc.entry.first) \cup (IF loc.rest[1] \in Dots THEN {"dotCut"} ELSE {})
  BY <1>1 DEF Unlink, Goto
<1>4. loc'.req = loc.req
  BY <1>2, <1>3 DEF Locals
<1>5. CtlInv' /\ ready'
  BY <1>1, <1>2, <1>3, <1>4 DEF CtlInv, Flushing
<1>6. SUFFICES ASSUME Free(Strays)' PROVE SoundInv'
  <2>1. OnlineInv'
    BY <1>5, OnlineKept
  <2>2. QED
    BY <1>5, <1>6, <2>1, Spoilt
<1>7. /\ TypeOK /\ fat \in Fats /\ block \in [Clusters -> Blocks]
      /\ Len(frames) \in Nat \ {0} /\ Top = frames[1] /\ Top \in Frames
  BY <1>1, <1>6, ScanNow
<1>8. PICK E, D, F, dp : ScanPhase(E, D, F, dp)
  BY <1>1, <1>6, ScanNow
<1>9. PICK t, x, p : t = frames[1] /\ x = loc.entry.first /\ p = loc.at
  OBVIOUS
<1>10. HeadOf(1) = x
  BY <1>1, <1>9 DEF HeadOf
<1>11. /\ E[t.dir] = block[t.dir]
       /\ \A q \in Proper(E, D) : q[1] \notin Chain(fat, x)
  BY <1>1, <1>7, <1>8, <1>9, <1>10, ScanEmptied
<1>12. E = block
  <2>1. E \in [Clusters -> Blocks]
    BY <1>7, <1>8, ScanFacts
  <2>2. ASSUME NEW c \in Clusters PROVE E[c] = block[c]
    <3>1. CASE c = t.dir
      BY <1>11, <3>1
    <3>2. CASE c # t.dir
      <4>1. \A k \in 1..Len(frames) : frames[k].dir # c
        BY <1>1, <1>9, <3>2
      <4>2. QED
        BY <1>8, <4>1 DEF ScanPhase, Activations
    <3>3. QED
      BY <3>1, <3>2
  <2>3. QED
    BY <1>7, <2>1, <2>2
<1>13. loc.rest[1] \notin Dots
  <2>1. "dotCut" \notin marks'
    BY <1>6 DEF Free, Strays, Breaks
  <2>2. QED
    BY <1>3, <2>1
<1>14. p \in Proper(block, D) /\ At(block, p).type = "dir" /\ x = At(block, p).first
  BY <1>8, <1>9, <1>12, <1>13 DEF ScanPhase
<1>15. Resting(D, F, dp) /\ Kept(D, F, {})
  BY <1>8, <1>12 DEF ScanPhase, Resting
<1>16. PICK D2, F2 : StorePhase(D2, F2, dp)'
  <2>1. \A q \in Proper(block, D) : q[1] \notin Chain(fat, x)
    BY <1>11, <1>12
  <2>2. /\ loc.at = p /\ Unlink(loc, x) /\ loc.req.op # "write" /\ UNCHANGED <<diskFat, block, cwd>>
    BY <1>1, <1>2, <1>9
  <2>3. \E D2, F2 : StorePhase(D2, F2, dp)'
    BY <1>2, <1>6, <1>14, <1>15, <2>1, <2>2, Unlinked
  <2>4. QED
    BY <2>3
<1>17. DiskInv'
  BY <1>1, <1>2, <1>3, <1>4, DiskKept DEF Given, SoundInv, Firm, Exposed, Flushing, Running
<1>18. Storing' /\ pc' # "data"
  BY <1>3 DEF Storing
<1>19. QED
  BY <1>5, <1>16, <1>17, <1>18, ToStore

\* fs_remove_dir_contents
LEMMA ScanSound ==
  ASSUME Given, Scan
  PROVE  SoundInv'
<1>1. CASE ScanFile \/ ScanDir \/ ScanNextCluster \/ ScanReturn
  <2>1. pc' = "scan" /\ ready'
    <3>1. pc = "scan" /\ pc' = pc /\ ready' = ready
      BY <1>1 DEF ScanFile, ScanDir, ScanNextCluster, ScanReturn, ScanDone, Scanning, memory
    <3>2. QED
      BY <3>1 DEF Given, SoundInv, OnlineInv
  <2>2. CASE ~Free(Strays)'
    <3>1. CtlInv' /\ OnlineInv'
      BY <2>1, CtlQuiet, OnlineKept
    <3>2. QED
      BY <2>2, <3>1, Spoilt
  <2>3. CASE Free(Strays)'
    BY <1>1, <2>3, ScanFileSound, ScanDirSound, ScanNextSound, ScanReturnSound
  <2>4. QED
    BY <2>2, <2>3
<1>2. QED
  BY <1>1, ScanOverrunSound, ScanFailsSound, ScanWriteSound, ScanFinishSound DEF Scan

-------------------------------------------------------------------------------
\* The writes.

\* A write outside the directories leaves the tree as it is.
LEMMA RestingOutside ==
  ASSUME TypeOK, NEW D, NEW F, NEW dp, Resting(D, F, dp), UNCHANGED <<fat, diskFat, cwd>>,
         \A c \in D : block'[c] = block[c]
  PROVE  Resting(D, F, dp)'
<1>1. Tree(fat, block, D, F, dp) /\ Reached(fat, block, D, F) /\ cwd \in Heads(fat, D) /\ fat \in Fats
  BY DEF Resting, Shape, TypeOK
<1>2. Tree(fat, block', D, F, dp) /\ Reached(fat, block', D, F)
  BY <1>1, TreeOfBlocks
<1>3. QED
  BY <1>1, <1>2 DEF Resting, Shape, Agree

\* An operation gives up before its entry is stored.
LEMMA GivesUp ==
  ASSUME Given, ready', pc' = "idle", "leak" \in marks', NEW D, NEW F, NEW dp, Resting(D, F, dp)'
  PROVE  SoundInv'
<1>1. ~Free(Omit)'
  BY DEF Free, Omit
<1>2. Still(D, F, dp)'
  BY <1>1 DEF Still, Kept
<1>3. QED
  BY <1>2, ToIdle DEF Given

\* Where fs_write_file goes on after a cluster of data.
LEMMA WriteDataSteps ==
  ASSUME Given, WriteData
  PROVE  /\ pc = "data" /\ TypeOK /\ fat \in Fats /\ loc \in Locals /\ loc.req.op = "write" /\ ready'
         /\ UNCHANGED <<super, diskFat, ready, fat, cwd>>
         /\ \A c \in Clusters : c # loc.data => block'[c] = block[c]
         /\ CtlInv'
         /\ \/ pc' = "idle" /\ (IF loc.found THEN {"dangling", "torn"} ELSE {"leak"}) \subseteq marks'
            \/ /\ marks' = marks /\ loc'.cur = loc.cur /\ loc'.found = loc.found
               /\ loc'.at = loc.at /\ loc'.entry = loc.entry
               /\ \/ pc' = "data" /\ fat[loc.data] \in Clusters /\ loc'.data = fat[loc.data]
                  \/ pc' = "flush" /\ loc'.then = StoreStep(loc)
<1>1. PICK w \in Writes :
        /\ WriteBlock(loc.data, TextBlock(loc.req.text, loc.k), w)
        /\ IF w # "done"
           THEN GiveUp(IF loc.found THEN {"dangling", "torn"} ELSE {"leak"})
           ELSE /\ IF loc.k < loc.req.size /\ fat[loc.data] \in Clusters
                   THEN Goto("data", [loc EXCEPT !.data = fat[@], !.k = @ + 1])
                   ELSE StartFlush(loc, StoreStep(loc))
                /\ UNCHANGED <<ret, marks>>
  BY DEF WriteData
<1>2. /\ pc = "data" /\ TypeOK /\ fat \in Fats /\ loc \in Locals /\ loc.req.op = "write" /\ ready /\ ready'
      /\ UNCHANGED <<super, diskFat, ready, fat, cwd>> /\ block \in [Clusters -> Blocks]
  BY <1>1 DEF WriteData, WriteBlock, memory, Given, TypeInv, TypeOK, SoundInv, CtlInv, OnlineInv
<1>3. \A c \in Clusters : c # loc.data => block'[c] = block[c]
  BY <1>1, <1>2 DEF WriteBlock
<1>4. CASE w # "done"
  <2>1. pc' = "idle" /\ (IF loc.found THEN {"dangling", "torn"} ELSE {"leak"}) \subseteq marks'
    BY <1>1, <1>4 DEF GiveUp, Return
  <2>2. CtlInv'
    BY <2>1, CtlQuiet
  <2>3. QED
    BY <1>2, <1>3, <2>1, <2>2
<1>5. CASE w = "done" /\ loc.k < loc.req.size /\ fat[loc.data] \in Clusters
  <2>1. pc' = "data" /\ loc' = [loc EXCEPT !.data = fat[@], !.k = @ + 1] /\ marks' = marks
    BY <1>1, <1>5 DEF Goto
  <2>2. /\ loc'.data = fat[loc.data] /\ loc'.req = loc.req /\ loc'.cur = loc.cur
        /\ loc'.found = loc.found /\ loc'.at = loc.at /\ loc'.entry = loc.entry
    BY <1>2, <2>1 DEF Locals
  <2>3. CtlInv'
    BY <1>2, <2>1, <2>2 DEF CtlInv, Flushing
  <2>4. QED
    BY <1>2, <1>3, <1>5, <2>1, <2>2, <2>3
<1>6. CASE w = "done" /\ ~(loc.k < loc.req.size /\ fat[loc.data] \in Clusters)
  <2>1. StartFlush(loc, StoreStep(loc)) /\ marks' = marks
    BY <1>1, <1>6
  <2>2. StoreStep(loc) \in {"initDir", "addEntry", "addCluster", "setEntry", "return"}
    BY DEF StoreStep
  <2>3. /\ pc' = "flush" /\ loc'.then = StoreStep(loc) /\ loc'.cur = loc.cur
        /\ loc'.found = loc.found /\ loc'.at = loc.at /\ loc'.entry = loc.entry /\ CtlInv'
    BY <1>2, <2>1, <2>2, ToFlush
  <2>4. QED
    BY <1>2, <1>3, <2>1, <2>3
<1>7. QED
  BY <1>4, <1>5, <1>6

\* A cluster of data is written.
LEMMA WriteDataSound ==
  ASSUME Given, WriteData
  PROVE  SoundInv'
<1>1. /\ pc = "data" /\ TypeOK /\ fat \in Fats /\ loc \in Locals /\ loc.req.op = "write" /\ ready'
      /\ UNCHANGED <<super, diskFat, ready, fat, cwd>>
      /\ \A c \in Clusters : c # loc.data => block'[c] = block[c]
      /\ CtlInv'
  BY WriteDataSteps
<1>2. \/ pc' = "idle" /\ (IF loc.found THEN {"dangling", "torn"} ELSE {"leak"}) \subseteq marks'
      \/ /\ marks' = marks /\ loc'.cur = loc.cur /\ loc'.found = loc.found
         /\ loc'.at = loc.at /\ loc'.entry = loc.entry
         /\ \/ pc' = "data" /\ fat[loc.data] \in Clusters /\ loc'.data = fat[loc.data]
            \/ pc' = "flush" /\ loc'.then = StoreStep(loc)
  BY WriteDataSteps
<1>3. SUFFICES ASSUME Free(Strays)' PROVE SoundInv'
  BY <1>1, <1>3, OnlineKept, Spoilt
<1>4. PICK D, F, dp : Phase(D, F, dp)
  BY <1>1, <1>3, TreeNow
<1>5. PICK F0, dp0 : OnDisk(D, F0, dp0)
  BY <1>1, <1>4 DEF Phase
<1>6. ASSUME \A c \in D : block'[c] = block[c]
      PROVE  OnDisk(D, F0, dp0)'
  <2>1. diskFat \in Fats /\ Tree(diskFat, block, D, F0, dp0)
    BY <1>1, <1>5 DEF OnDisk, TypeOK
  <2>2. Tree(diskFat, block', D, F0, dp0) /\ (Reached(diskFat, block, D, F0) => Reached(diskFat, block', D, F0))
    BY <1>6, <2>1, TreeOfBlocks
  <2>3. Free(Omit)' => Free(Omit)
    BY FreeBefore DEF Given
  <2>4. Firm
    BY <1>1 DEF Firm
  <2>5. QED
    BY <1>1, <1>5, <2>2, <2>3, <2>4 DEF OnDisk
<1>7. CASE ~loc.found
  <2>1. AddPhase(D, F, dp)
    BY <1>1, <1>4, <1>7 DEF Phase, Adding
  <2>2. loc.data \in Chain(fat, loc.entry.first) /\ loc.entry.type = "file"
    BY <1>1, <2>1 DEF AddPhase, Arriving
  <2>3. loc.entry.first \in Clusters
    BY <2>2, NoChain
  <2>4. Apart(fat, D, F, loc.entry.first) /\ D \subseteq Clusters
    BY <2>1, <2>3, ClusterFacts DEF AddPhase, Incoming, NoCluster, Resting, Shape, Tree, Ground, FREE
  <2>5. loc.data \notin D
    BY <2>2, <2>4 DEF Apart
  <2>6. \A c \in D : block'[c] = block[c]
    BY <1>1, <2>4, <2>5
  <2>7. Resting(D, F, dp)'
    BY <1>1, <2>1, <2>6, RestingOutside DEF AddPhase
  <2>8. CASE pc' = "idle" /\ "leak" \in marks'
    BY <1>1, <2>7, <2>8, GivesUp
  <2>9. CASE /\ marks' = marks /\ loc'.cur = loc.cur /\ loc'.found = loc.found /\ loc'.entry = loc.entry
             /\ \/ pc' = "data" /\ fat[loc.data] \in Clusters /\ loc'.data = fat[loc.data]
                \/ pc' = "flush" /\ loc'.then = "addEntry"
    <3>1. Incoming(D, F)'
      BY <1>1, <2>1, <2>9 DEF AddPhase, Incoming, Free
    <3>2. pc' = "data" => loc'.data \in Chain(fat', loc'.entry.first)
      <4>1. ClosedUnderLinks(fat, Chain(fat, loc.entry.first))
        BY <1>1, <2>3, ChainProperties
      <4>2. QED
        BY <1>1, <2>2, <2>9, <4>1 DEF ClosedUnderLinks
    <3>3. Arriving'
      BY <2>2, <2>9, <3>2 DEF Arriving, Flushing
    <3>4. Kept(D, F, Chain(fat, loc.entry.first))'
      BY <1>1, <2>1, <2>9 DEF AddPhase, Kept, Free
    <3>5. AddPhase(D, F, dp)'
      BY <2>7, <3>1, <3>3, <3>4 DEF AddPhase
    <3>6. Adding'
      BY <1>7, <2>9 DEF Adding, Flushing
    <3>7. QED
      BY <1>1, <1>6, <2>6, <3>5, <3>6, ToAdd DEF Given
  <2>10. QED
    BY <1>2, <1>7, <2>8, <2>9 DEF StoreStep
<1>8. CASE loc.found
  <2>1. CASE pc' = "idle" /\ "dangling" \in marks'
    BY <1>3, <2>1 DEF Free, Strays, Breaks
  <2>2. CASE /\ marks' = marks /\ loc'.found = loc.found /\ loc'.at = loc.at /\ loc'.entry = loc.entry
             /\ \/ pc' = "data" /\ fat[loc.data] \in Clusters /\ loc'.data = fat[loc.data]
                \/ pc' = "flush" /\ loc'.then = "setEntry"
    <3>1. StorePhase(D, F, dp)
      BY <1>1, <1>4, <1>8 DEF Phase, Storing
    <3>2. PICK e, p, b, b2 : /\ e = loc.entry /\ p = loc.at /\ b = With(block, p, e) /\ b2 = With(block', p, e)
      OBVIOUS
    <3>3. /\ Tree(fat, b, D, F, dp) /\ Reached(fat, b, D, F) /\ cwd \in Heads(fat, D) /\ p \in D \X Slots
          /\ loc.data \in F /\ Kept(D, F, {})
      BY <1>1, <3>1, <3>2 DEF StorePhase, Shape
    <3>4. D \subseteq Clusters /\ loc.data \notin D /\ (fat[loc.data] \in Clusters => fat[loc.data] \in F)
      BY <3>3 DEF Tree, Ground
    <3>5. \A c \in D : block'[c] = block[c]
      BY <1>1, <3>4
    <3>6. \A c \in D : b2[c] = b[c]
      <4>1. block \in [Clusters -> Blocks] /\ block' \in [Clusters -> Blocks]
        BY DEF Given, TypeInv, TypeOK
      <4>2. p[1] \in D
        BY <3>3
      <4>3. QED
        BY <3>2, <3>4, <3>5, <4>1, <4>2 DEF With
    <3>7. Tree(fat, b2, D, F, dp) /\ Reached(fat, b2, D, F)
      BY <1>1, <3>3, <3>6, TreeOfBlocks
    <3>8. Shape(With(block, loc.at, loc.entry), D, F, dp)'
      BY <1>1, <2>2, <3>2, <3>3, <3>7 DEF Shape
    <3>9. Kept(D, F, {})'
      BY <1>1, <2>2, <3>3 DEF Kept, Free
    <3>10. StorePhase(D, F, dp)'
      BY <2>2, <3>2, <3>3, <3>4, <3>8, <3>9 DEF StorePhase
    <3>11. Storing' /\ pc' # "setEntry"
      BY <1>8, <2>2 DEF Storing, Flushing
    <3>12. QED
      BY <1>1, <1>6, <3>5, <3>10, <3>11, ToStore
  <2>3. QED
    BY <1>2, <1>8, <2>1, <2>2 DEF StoreStep
<1>9. QED
  BY <1>7, <1>8

\* The dot entries of a new directory are written.
LEMMA InitDirSound ==
  ASSUME Given, InitDir
  PROVE  SoundInv'
<1>1. PICK w \in Writes :
        /\ WriteBlock(loc.entry.first, DirBlock(loc.entry.first, loc.cur), w)
        /\ IF w = "done" THEN Goto("addEntry", loc) /\ UNCHANGED <<ret, marks>>
                         ELSE GiveUp({"leak"})
  BY DEF InitDir
<1>2. /\ pc = "initDir" /\ TypeOK /\ fat \in Fats /\ ready' /\ block \in [Clusters -> Blocks] /\ diskFat = fat
      /\ UNCHANGED <<super, diskFat, ready, fat, cwd>>
  BY <1>1 DEF InitDir, WriteBlock, memory, Given, TypeInv, TypeOK, SoundInv, CtlInv, OnlineInv
<1>3. CtlInv'
  <2>1. CASE w = "done"
    <3>1. pc' = "addEntry" /\ loc' = loc
      BY <1>1, <2>1 DEF Goto
    <3>2. QED
      BY <1>2, <3>1 DEF CtlInv, Flushing
  <2>2. CASE w # "done"
    <3>1. pc' = "idle"
      BY <1>1, <2>2 DEF GiveUp, Return
    <3>2. QED
      BY <3>1, CtlQuiet
  <2>3. QED
    BY <2>1, <2>2
<1>4. SUFFICES ASSUME Free(Strays)' PROVE SoundInv'
  BY <1>2, <1>3, <1>4, OnlineKept, Spoilt
<1>5. PICK D, F, dp : Phase(D, F, dp)
  BY <1>2, <1>4, TreeNow
<1>6. AddPhase(D, F, dp)
  BY <1>2, <1>5 DEF Phase, Adding
<1>7. PICK x : x = loc.entry.first
  OBVIOUS
<1>8. loc.entry.type = "dir" /\ x \in Clusters /\ Apart(fat, D, F, x) /\ D \subseteq Clusters
  <2>1. loc.entry.type = "dir"
    BY <1>2, <1>6 DEF AddPhase, Arriving
  <2>2. x \in Clusters
    BY <1>6, <1>7, <2>1 DEF AddPhase, Incoming
  <2>3. QED
    BY <1>6, <1>7, <2>1, <2>2, ClusterFacts DEF AddPhase, Incoming, NoCluster, Resting, Shape, Tree, Ground, FREE
<1>9. x \notin D
  BY <1>2, <1>8, ChainProperties DEF Apart
<1>10. \A c \in D : block'[c] = block[c]
  BY <1>1, <1>2, <1>7, <1>8, <1>9 DEF WriteBlock
<1>11. Resting(D, F, dp)'
  BY <1>2, <1>6, <1>10, RestingOutside DEF AddPhase
<1>12. CASE w # "done"
  <2>1. pc' = "idle" /\ "leak" \in marks'
    BY <1>1, <1>12 DEF GiveUp, Return
  <2>2. QED
    BY <1>2, <1>11, <2>1, GivesUp
<1>13. CASE w = "done"
  <2>1. pc' = "addEntry" /\ loc' = loc /\ marks' = marks
    BY <1>1, <1>13 DEF Goto
  <2>2. block'[x] = DirBlock(x, loc.cur)
    BY <1>1, <1>2, <1>7, <1>8, <1>13 DEF WriteBlock
  <2>3. Incoming(D, F)'
    BY <1>2, <1>6, <2>1 DEF AddPhase, Incoming, Free
  <2>4. Arriving'
    BY <1>7, <2>1, <2>2 DEF Arriving, Flushing
  <2>5. Kept(D, F, Chain(fat, loc.entry.first))'
    BY <1>2, <1>6, <2>1 DEF AddPhase, Kept, Free
  <2>6. AddPhase(D, F, dp)'
    BY <1>11, <2>3, <2>4, <2>5 DEF AddPhase
  <2>7. Adding' /\ pc' # "data"
    BY <2>1 DEF Adding
  <2>8. QED
    BY <1>2, <1>3, <2>6, <2>7, ToAdd DEF Given
<1>14. QED
  BY <1>12, <1>13

\* What the new entry e brings: at most its chain, and no less unless it is a dot.
Owned(f, e, D, F, D2, F2) ==
  /\ D \cup F \subseteq D2 \cup F2 /\ D2 \cup F2 \subseteq D \cup F \cup Chain(f, e.first)
  /\ e.name \notin Dots => D2 \cup F2 = D \cup F \cup Chain(f, e.first)

\* The entry e that is put into a free slot p, with what its directory must hold.
Fits(f, b2, e, p, D, F) ==
  /\ e.name # Empty /\ e.type \in {"file", "dir"}
  /\ e.first = NoCluster \/ Apart(f, D, F, e.first)
  /\ e.type = "dir" =>
       /\ e.first \in Clusters /\ f[e.first] \notin Clusters
       /\ \E h \in Heads(f, D) : b2[e.first] = DirBlock(e.first, h) /\ p[1] \in Chain(f, h)

\* An entry is put into a free slot of the tree.
LEMMA EntryStored ==
  ASSUME NEW f \in Fats, NEW b, NEW b2, NEW D, NEW F, NEW dp, Tree(f, b, D, F, dp), Reached(f, b, D, F),
         NEW p \in D \X Slots, At(b, p).name = Empty,
         NEW e, At(b2, p) = e, Fits(f, b2, e, p, D, F),
         \A q \in D \X Slots : q # p => At(b2, q) = At(b, q)
  PROVE  \E D2, F2 : Holds(f, b2, D, D2, F2) /\ Owned(f, e, D, F, D2, F2)
<1>1. PICK y, C : y = e.first /\ C = Chain(f, y)
  OBVIOUS
<1>2. /\ At(b2, p).name # Empty /\ e.type \in {"file", "dir"} /\ NoCluster \notin Clusters
      /\ IsProper(e) <=> e.name \notin Dots
  BY ClusterAssumption DEF Fits, IsProper, NoCluster, Clusters
<1>3. e.first = NoCluster => C = {}
  BY <1>1, <1>2, NoChain
<1>4. CASE ~IsProper(e) \/ (e.type = "file" /\ e.first = NoCluster)
  <2>1. Tree(f, b2, D, F, dp) /\ Reached(f, b2, D, F)
    BY <1>2, <1>4, TreeWithNothing
  <2>2. Holds(f, b2, D, D, F)
    BY <2>1 DEF Holds
  <2>3. Owned(f, e, D, F, D, F)
    BY <1>1, <1>2, <1>3, <1>4 DEF Owned
  <2>4. QED
    BY <2>2, <2>3
<1>5. CASE IsProper(e) /\ ~(e.type = "file" /\ e.first = NoCluster)
  <2>1. Apart(f, D, F, y) /\ y \in Clusters
    BY <1>1, <1>2, <1>5 DEF Fits, Apart
  <2>2. PICK D2, F2 : IF e.type = "dir" THEN D2 = D \cup C /\ F2 = F ELSE D2 = D /\ F2 = F \cup C
    OBVIOUS
  <2>3. Brings(f, b2, D, F, p, y, C, D2, F2)
    <3>1. CASE e.type = "file"
      BY <2>2, <3>1 DEF Brings
    <3>2. CASE e.type = "dir"
      <4>1. PICK h \in Heads(f, D) : b2[y] = DirBlock(y, h) /\ p[1] \in Chain(f, h)
        BY <1>1, <3>2 DEF Fits
      <4>2. C \subseteq {y}
        <5>1. {y} \in SUBSET Clusters /\ ClosedUnderLinks(f, {y})
          BY <1>1, <2>1, <3>2 DEF Fits, ClosedUnderLinks
        <5>2. QED
          BY <1>1, <5>1, ChainWithin
      <4>3. {1, 2} \subseteq Slots
        BY FsAssumption DEF Slots
      <4>4. /\ b2[y][1] = DirEntry(".", y) /\ b2[y][2] = DirEntry("..", h)
            /\ \A j \in Slots : j # 1 /\ j # 2 => b2[y][j] = Zeroed
        BY <4>1, <4>3 DEF DirBlock
      <4>5. \A j \in Slots : ~IsProper(b2[y][j])
        <5>1. ~IsProper(Zeroed) /\ ~IsProper(DirEntry(".", y)) /\ ~IsProper(DirEntry("..", h))
          BY DEF IsProper, Zeroed, DirEntry, Dots
        <5>2. QED
          BY <4>4, <5>1
      <4>6. \A q \in C \X Slots : ~IsProper(At(b2, q))
        BY <4>2, <4>5 DEF At
      <4>7. At(b2, <<y, 1>>) = DirEntry(".", y) /\ At(b2, <<y, 2>>) = DirEntry("..", h)
        BY <4>4 DEF At
      <4>8. QED
        BY <2>2, <3>2, <4>1, <4>6, <4>7 DEF Brings
    <3>3. QED
      BY <1>2, <3>1, <3>2
  <2>4. IsProper(At(b2, p)) /\ y = At(b2, p).first
    BY <1>1, <1>5
  <2>5. Holds(f, b2, D, D2, F2)
    BY ONLY <1>1, <1>2, <2>1, <2>3, <2>4, TreeWithChain,
            f \in Fats, Tree(f, b, D, F, dp), Reached(f, b, D, F), p \in D \X Slots, At(b, p).name = Empty,
            \A q \in D \X Slots : q # p => At(b2, q) = At(b, q)
  <2>6. Owned(f, e, D, F, D2, F2)
    BY <1>1, <2>2 DEF Owned
  <2>7. QED
    BY <2>5, <2>6
<1>6. QED
  BY <1>4, <1>5

\* The entry of the operation has not been stored.
LEMMA NotStored ==
  ASSUME Given, pc = "addEntry", pc' = "idle", UNCHANGED <<ready, fat, diskFat, block, cwd>>,
         Unowned \subseteq marks'
  PROVE  SoundInv'
<1>1. ready' /\ CtlInv'
  BY CtlQuiet DEF Given, SoundInv, OnlineInv
<1>2. SUFFICES ASSUME Free(Strays)' PROVE SoundInv'
  BY <1>1, <1>2, OnlineKept, Spoilt
<1>3. PICK D, F, dp : AddPhase(D, F, dp)
  BY <1>2, TreeNow DEF Phase, Adding
<1>4. Resting(D, F, dp)'
  BY <1>3 DEF AddPhase, Resting, Shape, Agree
<1>5. CASE loc.entry.first # NoCluster
  BY <1>1, <1>4, <1>5, GivesUp DEF Unowned
<1>6. CASE loc.entry.first = NoCluster
  <2>1. NoCluster \notin Clusters
    BY ClusterAssumption DEF NoCluster, Clusters
  <2>2. Chain(fat, loc.entry.first) = {}
    BY <1>6, <2>1, NoChain
  <2>3. Free(Omit)' => Free(Omit)
    BY FreeBefore DEF Given
  <2>4. Kept(D, F, {})'
    BY <1>3, <2>2, <2>3 DEF AddPhase, Kept
  <2>5. QED
    BY <1>1, <1>4, <2>4, ToIdle DEF Given, Still
<1>7. QED
  BY <1>5, <1>6

\* fs_add_entry finds no room.
LEMMA AddEntryFailsSound ==
  ASSUME Given, AddEntryFails
  PROVE  SoundInv'
<1>1. pc = "addEntry" /\ pc' = "idle" /\ UNCHANGED <<ready, fat, diskFat, block, cwd>> /\ Unowned \subseteq marks'
  BY DEF AddEntryFails, GiveUp, Return, disk, memory
<1>2. QED
  BY <1>1, NotStored

\* fs_add_entry puts the entry into a free slot.
LEMMA AddEntrySound ==
  ASSUME Given, AddEntry
  PROVE  SoundInv'
<1>1. PICK p \in FreeSlot(loc.cur), w \in Writes :
        /\ WriteBlock(p[1], [block[p[1]] EXCEPT ![p[2]] = loc.entry], w)
        /\ IF w = "done" THEN Return("ok") /\ UNCHANGED marks
                         ELSE GiveUp(Unless(w, Unowned))
  BY DEF AddEntry
<1>2. /\ pc = "addEntry" /\ pc' = "idle" /\ TypeOK /\ fat \in Fats /\ loc \in Locals /\ block \in [Clusters -> Blocks]
      /\ UNCHANGED <<super, ready, diskFat, fat, cwd>>
  BY <1>1 DEF AddEntry, WriteBlock, GiveUp, Return, memory, Given, TypeInv, TypeOK
<1>3. ready' /\ CtlInv'
  BY <1>2, CtlQuiet DEF Given, SoundInv, OnlineInv
<1>4. CASE w = "lost"
  <2>1. block' = block
    BY <1>1, <1>4 DEF WriteBlock
  <2>2. GiveUp(Unless(w, Unowned)) /\ Unless(w, Unowned) = Unowned
    BY <1>1, <1>4 DEF Unless
  <2>3. Unowned \subseteq marks'
    BY <2>2 DEF GiveUp
  <2>4. QED
    BY <1>2, <2>1, <2>3, NotStored
<1>5. CASE w # "lost"
  <2>1. SUFFICES ASSUME Free(Strays)' PROVE SoundInv'
    BY <1>3, <2>1, OnlineKept, Spoilt
  <2>2. PICK D, F, dp : AddPhase(D, F, dp)
    BY <1>2, <2>1, TreeNow DEF Phase, Adding
  <2>3. PICK d, e, C, b2 : d = loc.cur /\ e = loc.entry /\ C = Chain(fat, d) /\ b2 = With(block, p, e)
    OBVIOUS
  <2>4. /\ Tree(fat, block, D, F, dp) /\ Reached(fat, block, D, F) /\ cwd \in Heads(fat, D)
        /\ D \subseteq Clusters /\ F \subseteq Clusters /\ d \in Heads(fat, D) /\ d \in D /\ Ground(fat, D, F)
    BY <2>2, <2>3 DEF AddPhase, Resting, Shape, Incoming, Tree, Ground, Heads
  <2>5. p \in C \X Slots /\ At(block, p).name = Empty
    BY <2>3 DEF FreeSlot, FirstPlace, At
  <2>6. p \in D \X Slots /\ p \in Clusters \X Slots
    <3>1. C \subseteq D
      BY <1>2, <2>3, <2>4, ChainGround
    <3>2. QED
      BY <2>4, <2>5, <3>1
  <2>7. block' = b2
    BY <1>1, <1>5, <2>3 DEF WriteBlock, With
  <2>8. e \in Entries
    BY <1>2, <2>3 DEF Locals
  <2>9. /\ At(b2, p) = e
        /\ \A q \in Clusters \X Slots : q # p => At(b2, q) = At(block, q)
        /\ \A c \in Clusters : c # p[1] => b2[c] = block[c]
    BY <1>2, <2>3, <2>6, <2>8, WithAt
  <2>10. Fits(fat, b2, e, p, D, F)
    <3>1. /\ e.name # Empty /\ e.type \in {"file", "dir"}
          /\ e.first = NoCluster \/ Apart(fat, D, F, e.first)
          /\ e.type = "dir" => e.first \in Clusters /\ fat[e.first] \notin Clusters
      BY <2>2, <2>3 DEF AddPhase, Incoming
    <3>2. ASSUME e.type = "dir"
          PROVE  b2[e.first] = DirBlock(e.first, d) /\ p[1] \in Chain(fat, d)
      <4>1. e.first \in Clusters /\ Apart(fat, D, F, e.first)
        BY <3>1, <3>2, ClusterAssumption DEF NoCluster, Clusters
      <4>2. e.first \notin D
        BY <1>2, <4>1, ChainProperties DEF Apart
      <4>3. block[e.first] = DirBlock(e.first, d)
        BY <1>2, <2>2, <2>3, <3>2 DEF AddPhase, Arriving
      <4>4. QED
        BY <2>3, <2>5, <2>6, <2>9, <4>1, <4>2, <4>3
    <3>3. QED
      BY <2>4, <3>1, <3>2 DEF Fits
  <2>11. PICK D2, F2 : Holds(fat, b2, D, D2, F2) /\ Owned(fat, e, D, F, D2, F2)
    <3>1. \A q \in D \X Slots : q # p => At(b2, q) = At(block, q)
      BY <2>4, <2>9
    <3>2. QED
      BY <1>2, <2>4, <2>5, <2>6, <2>9, <2>10, <3>1, EntryStored
  <2>12. PICK dp2 : Tree(fat, b2, D2, F2, dp2)
    BY <2>11 DEF Holds
  <2>13. Shape(block, D2, F2, dp2)'
    BY <1>2, <2>4, <2>7, <2>11, <2>12 DEF Holds, Shape
  <2>14. Agree(D2, F2)'
    <3>1. Agree(D, F)
      BY <2>2 DEF AddPhase, Resting
    <3>2. e.first # NoCluster => diskFat = fat
      BY <1>2, <2>3 DEF Given, SoundInv, CtlInv
    <3>3. e.first = NoCluster => Chain(fat, e.first) = {}
      BY NoChain, ClusterAssumption DEF NoCluster, Clusters
    <3>4. QED
      BY <1>2, <2>11, <3>1, <3>2, <3>3 DEF Agree, Owned
  <2>15. Kept(D2, F2, {})'
    <3>1. Free(Omit)' => Free(Omit)
      BY FreeBefore DEF Given
    <3>2. Free(Omit) => e.name \notin Dots
      BY <2>2, <2>3 DEF AddPhase, Incoming
    <3>3. Kept(D, F, Chain(fat, e.first))
      BY <2>2, <2>3 DEF AddPhase
    <3>4. QED
      BY <1>2, <2>11, <3>1, <3>2, <3>3 DEF Kept, Owned
  <2>16. Still(D2, F2, dp2)'
    BY <2>13, <2>14, <2>15 DEF Still, Resting
  <2>17. QED
    BY <1>2, <1>3, <2>16, ToIdle DEF Given
<1>6. QED
  BY <1>4, <1>5

\* The table g and the clusters b2 have the tree of f with the entry e in the new
\* cluster of one of its directories.
GrownBy(f, g, b2, D, F, e, new) ==
  \E D2, F2 :
    /\ \E dp2 : Tree(g, b2, D2, F2, dp2)
    /\ Reached(g, b2, D2, F2)
    /\ new \in D2 /\ \A x \in Heads(f, D) : x \in Heads(g, D2)
    /\ \A c \in Clusters :
         e.name \notin Dots /\ g[c] # FREE /\ c \notin D2 \cup F2 =>
           f[c] # FREE /\ c \notin D \cup F \cup Chain(f, e.first)

\* The directory d ends in the empty cluster new of b1, behind last.
Appended(f, g, b, b1, D, F, d, last, new) ==
  /\ new \in Clusters /\ f[new] = FREE /\ new \notin D \cup F
  /\ last \in Chain(f, d) /\ f[last] \notin Clusters /\ last \in D
  /\ g \in Fats /\ g[last] = new /\ g[new] \notin Clusters
  /\ \A c \in Indices : c # new /\ c # last => g[c] = f[c]
  /\ \A i \in Slots : At(b1, <<new, i>>) = Zeroed
  /\ \A q \in D \X Slots : At(b1, q) = At(b, q)
  /\ \E dp2 : Tree(g, b1, D \cup {new}, F, dp2)
  /\ Heads(g, D \cup {new}) = Heads(f, D)
  /\ Reached(g, b1, D \cup {new}, F)
  /\ new \in Chain(g, d)

\* An empty cluster is allocated and appended to the directory d.
LEMMA ClusterAdded ==
  ASSUME NEW f \in Fats, NEW b \in [Clusters -> Blocks], NEW D, NEW F, NEW dp,
         Tree(f, b, D, F, dp), Reached(f, b, D, F), HasRoom(f, 1), NEW d \in Heads(f, D),
         NEW new, new = Least(FirstFit(f, 1)),
         NEW last, last = Last(f, d),
         NEW g, g = Extend(AllocChain(f, 1), last, new),
         NEW b1, b1 = [b EXCEPT ![new] = ZeroBlock]
  PROVE  Appended(f, g, b, b1, D, F, d, last, new)
<1>1. PICK f1 : f1 = AllocChain(f, 1)
  OBVIOUS
<1>2. /\ new \in Clusters /\ f[new] = FREE /\ f1[new] \notin Clusters /\ FirstFit(f, 1) = {new}
  BY <1>1, AllocOne
<1>3. f1 \in Fats /\ Ground(f, D, F) /\ d \in D /\ D \subseteq Clusters
  BY <1>1, AllocChainType DEF Tree, Ground, Heads
<1>4. /\ Tree(f1, b, D, F, dp) /\ Reached(f1, b, D, F) /\ Heads(f1, D) = Heads(f, D)
      /\ \A c \in D \cup F : f1[c] = f[c]
  BY <1>1, AllocKeepsTree
<1>5. \A c \in Indices : c # new => f1[c] = f[c]
  BY <1>1, <1>2, AllocChainLinks
<1>6. /\ last \in Chain(f, d) /\ f[last] \notin Clusters /\ last \in D
  BY <1>1, <1>3, LastOfChain, ChainGround
<1>7. f1[last] \notin Clusters /\ new \notin D \cup F
  BY <1>2, <1>3, <1>4, <1>6 DEF Ground
<1>8. last \in Chain(f1, d)
  <2>1. \A c \in Chain(f, d) : f1[c] = f[c]
    BY <1>3, <1>4, ChainGround
  <2>2. QED
    BY <1>3, <1>6, <2>1, ChainSame
<1>9. /\ g \in Fats /\ g[last] = new /\ g[new] \notin Clusters
      /\ \A c \in Indices : c # new /\ c # last => g[c] = f[c]
  <2>1. g \in Fats
    BY <1>1, <1>2, <1>3, <1>6, ExtendType
  <2>2. QED
    BY <1>1, <1>2, <1>3, <1>5, <1>6, <1>7, <2>1, ClusterFacts DEF Extend, Fats
<1>10. /\ \A i \in Slots : At(b1, <<new, i>>) = Zeroed
       /\ \A c \in Clusters : c # new => b1[c] = b[c]
  BY <1>2 DEF At, ZeroBlock
<1>11. \A q \in D \X Slots : At(b1, q) = At(b, q)
  BY <1>3, <1>7, <1>10 DEF At
<1>12. Longer(f1, g, b, b1, D, F, last, new)
  <2>1. g = Extend(f1, last, new)
    BY <1>1
  <2>2. \A i \in Slots : At(b1, <<new, i>>) = Zeroed
    BY <1>10
  <2>3. last \in D /\ new \in Clusters /\ new \notin D \cup F /\ Tree(f1, b, D, F, dp) /\ f1 \in Fats
    BY <1>2, <1>3, <1>4, <1>6, <1>7
  <2>4. QED
    BY ONLY <1>7, <1>11, <2>1, <2>2, <2>3, TreeExtended
<1>13. /\ \E dp2 : Tree(g, b1, D \cup {new}, F, dp2)
       /\ Heads(g, D \cup {new}) = Heads(f, D)
       /\ Reached(g, b1, D \cup {new}, F)
       /\ new \in Chain(g, d)
  BY <1>3, <1>4, <1>8, <1>12 DEF Longer
<1>14. QED
  BY <1>2, <1>6, <1>7, <1>9, <1>10, <1>11, <1>13 DEF Appended

\* fs_add_entry gives the directory d a cluster that begins with the entry e.
LEMMA EntryInNew ==
  ASSUME NEW f \in Fats, NEW b \in [Clusters -> Blocks], NEW D, NEW F, NEW dp,
         Tree(f, b, D, F, dp), Reached(f, b, D, F), HasRoom(f, 1), NEW d \in Heads(f, D),
         NEW e \in Entries, e.name # Empty, e.type \in {"file", "dir"},
         e.first = NoCluster \/ Apart(f, D, F, e.first),
         e.type = "dir" => /\ e.first \in Clusters /\ f[e.first] \notin Clusters
                           /\ b[e.first] = DirBlock(e.first, d),
         NEW new, new = Least(FirstFit(f, 1)),
         NEW g, g = Extend(AllocChain(f, 1), Last(f, d), new),
         NEW b2, b2 = [b EXCEPT ![new] = [ZeroBlock EXCEPT ![1] = e]]
  PROVE  GrownBy(f, g, b2, D, F, e, new)
<1>1. PICK last, y, b1, D1 :
        /\ last = Last(f, d) /\ y = e.first
        /\ b1 = [b EXCEPT ![new] = ZeroBlock] /\ D1 = D \cup {new}
  OBVIOUS
<1>2. /\ new \in Clusters /\ f[new] = FREE /\ new \notin D \cup F
      /\ last \in Chain(f, d) /\ f[last] \notin Clusters /\ last \in D
      /\ g \in Fats /\ g[last] = new /\ g[new] \notin Clusters
      /\ \A c \in Indices : c # new /\ c # last => g[c] = f[c]
      /\ \A i \in Slots : At(b1, <<new, i>>) = Zeroed
      /\ \A q \in D \X Slots : At(b1, q) = At(b, q)
      /\ \E dp2 : Tree(g, b1, D1, F, dp2)
      /\ Heads(g, D1) = Heads(f, D)
      /\ Reached(g, b1, D1, F)
      /\ new \in Chain(g, d)
  <2>1. g = Extend(AllocChain(f, 1), last, new)
    BY <1>1
  <2>2. Appended(f, g, b, b1, D, F, d, last, new)
    BY ONLY <1>1, <2>1, ClusterAdded, f \in Fats, b \in [Clusters -> Blocks], Tree(f, b, D, F, dp),
       Reached(f, b, D, F), HasRoom(f, 1), d \in Heads(f, D), new = Least(FirstFit(f, 1))
  <2>3. QED
    BY <1>1, <2>2 DEF Appended
<1>3. d \in D /\ D \subseteq Clusters
  BY DEF Tree, Ground, Heads
<1>11. /\ 1 \in Slots
       /\ \A i \in Slots : i # 1 => At(b2, <<new, i>>) = Zeroed
       /\ At(b2, <<new, 1>>) = e
       /\ \A c \in Clusters : c # new => b1[c] = b[c] /\ b2[c] = b[c]
  <2>1. 1 \in Slots
    BY FsAssumption DEF Slots
  <2>2. QED
    BY <1>1, <1>2, <2>1 DEF At, ZeroBlock
<1>14. PICK dp1 : Tree(g, b1, D1, F, dp1)
  BY <1>2
<1>15. e.first # NoCluster => Apart(g, D1, F, y) /\ Chain(g, y) = Chain(f, y) /\ y # new /\ g[y] = f[y]
  <2>1. SUFFICES ASSUME Apart(f, D, F, y)
                 PROVE  Apart(g, D1, F, y) /\ Chain(g, y) = Chain(f, y) /\ y # new /\ g[y] = f[y]
    BY <1>1
  <2>2. Chain(f, y) \subseteq Clusters /\ y \in Chain(f, y) /\ Clusters \subseteq Indices
    BY <2>1, ChainProperties, ClusterFacts DEF Apart
  <2>3. new \notin Chain(f, y) /\ last \notin Chain(f, y)
    BY <1>2, <2>1 DEF Apart
  <2>4. \A c \in Chain(f, y) : g[c] = f[c]
    BY <1>2, <2>2, <2>3
  <2>5. Apart(g, D, F, y) /\ Chain(g, y) = Chain(f, y)
    BY <1>2, <2>1, <2>4, ApartSame
  <2>6. Apart(g, D1, F, y)
    BY <1>1, <2>3, <2>5 DEF Apart
  <2>7. QED
    BY <2>2, <2>3, <2>4, <2>5, <2>6
<1>16. PICK p : p = <<new, 1>>
  OBVIOUS
<1>17. Fits(g, b2, e, p, D1, F)
  <2>1. ASSUME e.type = "dir"
        PROVE  /\ e.first \in Clusters /\ g[e.first] \notin Clusters
               /\ d \in Heads(g, D1) /\ b2[e.first] = DirBlock(e.first, d) /\ p[1] \in Chain(g, d)
    <3>1. e.first \in Clusters /\ e.first # NoCluster
      BY <2>1, ClusterAssumption DEF NoCluster, Clusters
    <3>2. QED
      BY <1>1, <1>2, <1>11, <1>15, <1>16, <2>1, <3>1
  <2>2. QED
    BY <1>1, <1>15, <2>1 DEF Fits
<1>18. /\ p \in D1 \X Slots /\ At(b1, p).name = Empty /\ At(b2, p) = e
       /\ \A q \in D1 \X Slots : q # p => At(b2, q) = At(b1, q)
  <2>1. p \in D1 \X Slots
    BY <1>1, <1>11, <1>16
  <2>2. At(b1, p).name = Empty /\ At(b2, p) = e
    BY <1>2, <1>11, <1>16 DEF Zeroed
  <2>3. ASSUME NEW c \in D1, NEW i \in Slots, <<c, i>> # p
        PROVE  At(b2, <<c, i>>) = At(b1, <<c, i>>)
    <3>1. CASE c = new
      BY <1>2, <1>11, <1>16, <2>3, <3>1
    <3>2. CASE c # new
      BY <1>1, <1>3, <1>11, <3>2 DEF At
    <3>3. QED
      BY <3>1, <3>2
  <2>4. ASSUME NEW q \in D1 \X Slots, q # p
        PROVE  At(b2, q) = At(b1, q)
    <3>1. PICK c \in D1, i \in Slots : q = <<c, i>>
      OBVIOUS
    <3>2. QED
      BY <2>3, <2>4, <3>1
  <2>5. QED
    BY <2>1, <2>2, <2>4
<1>19. PICK D2, F2 : Holds(g, b2, D1, D2, F2) /\ Owned(g, e, D1, F, D2, F2)
  <2>1. g \in Fats /\ Reached(g, b1, D1, F)
    BY <1>2
  <2>2. QED
    BY ONLY <1>14, <1>17, <1>18, <2>1, EntryStored
<1>20. \A x \in Heads(f, D) : x \in Heads(g, D2)
  BY <1>2, <1>19 DEF Holds
<1>21. PICK dp2 : Tree(g, b2, D2, F2, dp2)
  BY <1>19 DEF Holds
<1>22. new \in D2
  <2>1. Ground(g, D2, F2) /\ d \in D2
    BY <1>20, <1>21 DEF Tree, Heads
  <2>2. QED
    BY <1>2, <2>1, ChainGround
<1>23. ASSUME NEW c \in Clusters, e.name \notin Dots, g[c] # FREE, c \notin D2 \cup F2
       PROVE  f[c] # FREE /\ c \notin D \cup F \cup Chain(f, e.first)
  <2>1. D2 \cup F2 = D1 \cup F \cup Chain(g, e.first)
    BY <1>19, <1>23 DEF Owned
  <2>2. c # new /\ c \notin D \cup F /\ c \notin Chain(g, e.first)
    BY <1>1, <1>23, <2>1
  <2>3. Chain(g, e.first) = Chain(f, e.first)
    <3>1. CASE e.first # NoCluster
      BY <1>1, <1>15, <3>1
    <3>2. CASE e.first = NoCluster
      <4>1. e.first \notin Clusters
        BY <3>2, ClusterAssumption DEF NoCluster, Clusters
      <4>2. QED
        BY <4>1, NoChain
    <3>3. QED
      BY <3>1, <3>2
  <2>4. g[c] = f[c]
    BY <1>2, <2>2, ClusterFacts
  <2>5. QED
    BY <1>23, <2>2, <2>3, <2>4
<1>24. QED
  BY <1>19, <1>20, <1>21, <1>22, <1>23 DEF GrownBy, Holds

\* fs_add_entry takes a new cluster for the directory.
LEMMA AddEntryExtendSound ==
  ASSUME Given, AddEntryExtend
  PROVE  SoundInv'
<1>1. PICK new, l : new = Least(FirstFit(fat, 1)) /\ l = [loc EXCEPT !.data = new]
  OBVIOUS
<1>2. /\ pc = "addEntry" /\ TypeOK /\ fat \in Fats /\ loc \in Locals /\ block \in [Clusters -> Blocks]
      /\ HasRoom(fat, 1)
      /\ fat' = Extend(AllocChain(fat, 1), Last(fat, loc.cur), new)
      /\ StartFlush(l, "addCluster")
      /\ UNCHANGED <<ready, super, diskFat, block, cwd, marks>>
  BY <1>1 DEF AddEntryExtend, disk, Given, TypeInv, TypeOK
<1>3. new \in Clusters
  BY <1>1, <1>2, AllocOne
<1>4. l \in Locals /\ l.entry = loc.entry /\ l.data = new
  BY <1>1, <1>2, <1>3 DEF Locals
<1>5. pc' = "flush" /\ loc'.then = "addCluster" /\ loc'.entry = loc.entry /\ loc'.data = new /\ CtlInv'
  BY <1>2, <1>4, ToFlush
<1>6. ready' /\ Growing'
  BY <1>2, <1>5 DEF Given, SoundInv, OnlineInv, Growing, Flushing
<1>7. SUFFICES ASSUME Free(Strays)' PROVE SoundInv'
  BY <1>5, <1>6, <1>7, OnlineKept, Spoilt
<1>8. PICK D, F, dp : AddPhase(D, F, dp)
  BY <1>2, <1>7, TreeNow DEF Phase, Adding
<1>9. PICK d, e, b2 : d = loc.cur /\ e = loc.entry /\ b2 = [block EXCEPT ![new] = [ZeroBlock EXCEPT ![1] = e]]
  OBVIOUS
<1>10. /\ Tree(fat, block, D, F, dp) /\ Reached(fat, block, D, F) /\ cwd \in Heads(fat, D)
       /\ d \in Heads(fat, D) /\ e \in Entries /\ e.name # Empty /\ e.type \in {"file", "dir"}
       /\ e.first = NoCluster \/ Apart(fat, D, F, e.first)
       /\ e.type = "dir" => /\ e.first \in Clusters /\ fat[e.first] \notin Clusters
                            /\ block[e.first] = DirBlock(e.first, d)
  BY <1>2, <1>8, <1>9 DEF AddPhase, Resting, Shape, Incoming, Arriving, Locals
<1>11. PICK f, g, b : f = fat /\ g = fat' /\ b = block
  OBVIOUS
<1>12. GrownBy(f, g, b2, D, F, e, new)
  <2>1. /\ f \in Fats /\ b \in [Clusters -> Blocks] /\ HasRoom(f, 1) /\ new = Least(FirstFit(f, 1))
        /\ g = Extend(AllocChain(f, 1), Last(f, d), new)
        /\ b2 = [b EXCEPT ![new] = [ZeroBlock EXCEPT ![1] = e]]
    BY <1>1, <1>2, <1>9, <1>11
  <2>2. /\ Tree(f, b, D, F, dp) /\ Reached(f, b, D, F) /\ d \in Heads(f, D)
        /\ e \in Entries /\ e.name # Empty /\ e.type \in {"file", "dir"}
        /\ e.first = NoCluster \/ Apart(f, D, F, e.first)
        /\ e.type = "dir" => /\ e.first \in Clusters /\ f[e.first] \notin Clusters
                             /\ b[e.first] = DirBlock(e.first, d)
    BY <1>10, <1>11
  <2>3. QED
    BY ONLY <2>1, <2>2, EntryInNew
<1>13. PICK D2, F2 :
         /\ \E dp2 : Tree(g, b2, D2, F2, dp2)
         /\ Reached(g, b2, D2, F2)
         /\ new \in D2 /\ \A x \in Heads(f, D) : x \in Heads(g, D2)
         /\ \A c \in Clusters :
              e.name \notin Dots /\ g[c] # FREE /\ c \notin D2 \cup F2 =>
                f[c] # FREE /\ c \notin D \cup F \cup Chain(f, e.first)
  BY <1>12 DEF GrownBy
<1>14. PICK dp2 : Tree(g, b2, D2, F2, dp2)
  BY <1>13
<1>15. Grown' = b2
  BY <1>2, <1>5, <1>9 DEF Grown
<1>16. Shape(Grown, D2, F2, dp2)'
  BY <1>2, <1>10, <1>11, <1>13, <1>14, <1>15 DEF Shape
<1>17. Kept(D2, F2, {})'
  <2>1. Free(Omit)' => Free(Omit)
    BY FreeBefore DEF Given
  <2>2. Free(Omit) => e.name \notin Dots
    BY <1>8, <1>9 DEF AddPhase, Incoming
  <2>3. Kept(D, F, Chain(f, e.first))
    BY <1>8, <1>9, <1>11 DEF AddPhase
  <2>4. QED
    BY <1>11, <1>13, <2>1, <2>2, <2>3 DEF Kept
<1>18. GrowPhase(D2, F2, dp2)'
  BY <1>5, <1>13, <1>16, <1>17 DEF GrowPhase
<1>19. QED
  BY <1>5, <1>6, <1>18, ToGrow

\* That cluster is written, with the entry in it.
LEMMA AddClusterSound ==
  ASSUME Given, AddCluster
  PROVE  SoundInv'
<1>1. PICK w \in Writes :
        /\ WriteBlock(loc.data, [ZeroBlock EXCEPT ![1] = loc.entry], w)
        /\ IF w = "done" THEN Return("ok") /\ UNCHANGED marks
                         ELSE GiveUp(Unless(w, {"stale"} \cup Unowned))
  BY DEF AddCluster
<1>2. /\ pc = "addCluster" /\ pc' = "idle" /\ UNCHANGED <<ready, fat, diskFat, cwd>>
  BY <1>1 DEF AddCluster, WriteBlock, GiveUp, Return, memory
<1>3. ready' /\ CtlInv' /\ diskFat = fat
  BY <1>2, CtlQuiet DEF Given, SoundInv, OnlineInv, CtlInv
<1>4. SUFFICES ASSUME Free(Strays)' PROVE SoundInv'
  BY <1>3, <1>4, OnlineKept, Spoilt
<1>5. PICK D, F, dp : GrowPhase(D, F, dp)
  BY <1>2, <1>4, TreeNow DEF Phase, Growing
<1>6. CASE w = "lost"
  <2>1. "stale" \in marks'
    BY <1>1, <1>6 DEF GiveUp, Unless
  <2>2. QED
    BY <1>4, <2>1 DEF Free, Strays, Breaks
<1>7. CASE w # "lost"
  <2>1. block' = Grown
    BY <1>1, <1>7 DEF WriteBlock, Grown
  <2>2. Shape(block, D, F, dp)'
    BY <1>2, <1>5, <2>1 DEF GrowPhase, Shape
  <2>3. Agree(D, F)'
    BY <1>2, <1>3 DEF Agree
  <2>4. Kept(D, F, {})'
    <3>1. Free(Omit)' => Free(Omit)
      BY FreeBefore DEF Given
    <3>2. QED
      BY <1>2, <1>5, <3>1 DEF GrowPhase, Kept
  <2>5. Still(D, F, dp)'
    BY <2>2, <2>3, <2>4 DEF Still, Resting
  <2>6. QED
    BY <1>2, <1>3, <2>5, ToIdle DEF Given
<1>8. QED
  BY <1>6, <1>7

\* The write of the entry that an overwrite or a removal ends with.
LEMMA SetEntrySound ==
  ASSUME Given, SetEntry
  PROVE  SoundInv'
<1>1. PICK w \in Writes :
        /\ WriteBlock(loc.at[1], [block[loc.at[1]] EXCEPT ![loc.at[2]] = loc.entry], w)
        /\ IF w # "done" THEN GiveUp(Unless(w, {"dangling"}) \cup {"leak"})
           ELSE IF loc.req.op = "write" THEN Return("ok") /\ UNCHANGED marks
           ELSE StartFlush(loc, "return") /\ UNCHANGED <<ret, marks>>
  BY DEF SetEntry
<1>2. /\ pc = "setEntry" /\ TypeOK /\ loc \in Locals /\ UNCHANGED <<ready, fat, diskFat, cwd>>
  BY <1>1 DEF SetEntry, WriteBlock, memory, Given, TypeInv, TypeOK
<1>3. ready'
  BY <1>2 DEF Given, SoundInv, OnlineInv
<1>4. \/ w # "done" /\ pc' = "idle" /\ "leak" \in marks' /\ (w = "lost" => "dangling" \in marks')
      \/ w = "done" /\ pc' = "idle"
      \/ w = "done" /\ StartFlush(loc, "return")
  BY <1>1 DEF GiveUp, Return, Unless
<1>5. CtlInv'
  <2>1. CASE pc' = "idle"
    BY <2>1, CtlQuiet
  <2>2. CASE StartFlush(loc, "return")
    BY <1>2, <2>2, ToFlush
  <2>3. QED
    BY <1>4, <2>1, <2>2
<1>6. SUFFICES ASSUME Free(Strays)' PROVE SoundInv'
  BY <1>3, <1>5, <1>6, OnlineKept, Spoilt
<1>7. PICK D, F, dp : StorePhase(D, F, dp)
  BY <1>2, <1>6, TreeNow DEF Phase, Storing
<1>8. CASE w = "lost"
  BY <1>4, <1>6, <1>8 DEF Free, Strays, Breaks
<1>9. CASE w # "lost"
  <2>1. block' = With(block, loc.at, loc.entry)
    BY <1>1, <1>9 DEF WriteBlock, With
  <2>2. Shape(block, D, F, dp)'
    BY <1>2, <1>7, <2>1 DEF StorePhase, Shape
  <2>3. Agree(D, F)'
    <3>1. loc.req.op = "write" => diskFat = fat
      BY <1>2 DEF Given, SoundInv, CtlInv
    <3>2. loc.req.op # "write" => Agree(D, F)
      BY <1>2, <1>7 DEF StorePhase
    <3>3. QED
      BY <1>2, <3>1, <3>2 DEF Agree
  <2>4. Kept(D, F, {})'
    <3>1. Free(Omit)' => Free(Omit)
      BY FreeBefore DEF Given
    <3>2. QED
      BY <1>2, <1>7, <3>1 DEF StorePhase, Kept
  <2>5. Resting(D, F, dp)' /\ Still(D, F, dp)'
    BY <2>2, <2>3, <2>4 DEF Still, Resting
  <2>6. CASE w # "done"
    BY <1>3, <1>4, <2>5, <2>6, GivesUp
  <2>7. CASE w = "done" /\ pc' = "idle"
    BY <1>3, <2>5, <2>7, ToIdle DEF Given
  <2>8. CASE w = "done" /\ StartFlush(loc, "return")
    <3>1. pc' = "flush" /\ loc'.then = "return"
      BY <1>2, <2>8, ToFlush
    <3>2. QED
      BY <1>3, <1>5, <2>5, <3>1, ToReturn DEF Flushing, Given
  <2>9. QED
    BY <1>4, <2>6, <2>7, <2>8
<1>10. QED
  BY <1>8, <1>9

-------------------------------------------------------------------------------
\* A sector of the FAT is written.

\* What the write of a sector does to the table on disk.
LEMMA SectorWritten ==
  ASSUME TypeOK, NEW w \in Writes, diskFat' = IF w = "lost" THEN diskFat ELSE FlushSector(loc.k),
         fat' = fat
  PROVE  /\ \A c \in Indices : diskFat'[c] = fat'[c] \/ diskFat'[c] = diskFat[c]
         /\ \A D, F : Agree(D, F) /\ D \cup F \subseteq Clusters => Agree(D, F)'
<1>1. \A c \in Indices : diskFat'[c] = fat'[c] \/ diskFat'[c] = diskFat[c]
  BY DEF FlushSector
<1>2. ASSUME NEW D, NEW F, Agree(D, F), D \cup F \subseteq Clusters
      PROVE  Agree(D, F)'
  <2>1. \A c \in D \cup F : diskFat[c] = fat[c] /\ c \in Indices
    BY <1>2, ClusterFacts DEF Agree
  <2>2. \A c \in D \cup F : diskFat'[c] = fat'[c]
    BY <1>1, <2>1
  <2>3. QED
    BY <2>2 DEF Agree
<1>3. QED
  BY <1>1, <1>2

\* With the sector at hand all those behind it are up to date, after the last one
\* the whole table.
LEMMA SectorDone ==
  ASSUME TypeOK, pc = "flush", FlushedSoFar, diskFat' = FlushSector(loc.k), fat' = fat
  PROVE  /\ \A c \in Indices : c \div FatPerSector < loc.k + 1 => diskFat'[c] = fat'[c]
         /\ loc.k >= LastFatSector => diskFat' = fat'
<1>1. loc.k \in Nat /\ LastFatSector \in Int
  <2>1. loc.k \in Nat
    BY DEF TypeOK, Locals
  <2>2. NClusters + 1 \in Indices
    BY ClusterAssumption DEF Indices
  <2>3. LastFatSector \in Int
    BY <2>2, SectorBound DEF LastFatSector
  <2>4. QED
    BY <2>1, <2>3
<1>2. fat \in Fats /\ diskFat \in Fats
  BY DEF TypeOK
<1>3. ASSUME NEW c \in Indices, c \div FatPerSector < loc.k + 1
      PROVE  diskFat'[c] = fat'[c]
  <2>1. PICK s \in Nat : s = c \div FatPerSector
    BY SectorBound
  <2>2. s = loc.k \/ s < loc.k
    BY <1>1, <1>3, <2>1
  <2>3. CASE s = loc.k
    BY <2>1, <2>3 DEF FlushSector
  <2>4. CASE s < loc.k
    BY <2>1, <2>4 DEF FlushSector, FlushedSoFar
  <2>5. QED
    BY <2>2, <2>3, <2>4
<1>4. ASSUME loc.k >= LastFatSector
      PROVE  diskFat' = fat'
  <2>1. \A c \in Indices : diskFat'[c] = fat'[c]
    <3>1. SUFFICES ASSUME NEW c \in Indices PROVE diskFat'[c] = fat'[c]
      OBVIOUS
    <3>2. PICK s \in Nat : s = c \div FatPerSector /\ s <= LastFatSector
      BY SectorBound
    <3>3. s < loc.k + 1
      BY <1>1, <1>4, <3>2
    <3>4. QED
      BY <1>3, <3>2, <3>3
  <2>2. diskFat' = [c \in Indices |-> diskFat'[c]] /\ fat' = [c \in Indices |-> fat'[c]]
    BY <1>2 DEF Fats, FlushSector
  <2>3. QED
    BY <2>1, <2>2
<1>5. QED
  BY <1>3, <1>4

\* How the write of a sector goes on.
FlushFails == pc' = "idle" /\ FlushMarks \subseteq marks'
FlushGoesOn ==
  /\ pc' = "flush" /\ loc'.then = loc.then
  /\ loc'.req = loc.req /\ loc'.entry = loc.entry /\ loc'.cur = loc.cur
  /\ loc'.at = loc.at /\ loc'.data = loc.data /\ loc'.found = loc.found
FlushEnds ==
  \/ loc.then = "return" /\ pc' = "idle"
  \/ loc.then # "return" /\ pc' = loc.then /\ loc' = loc /\ diskFat' = fat'

\* What the write of a sector does to the steps that follow.
LEMMA FlushSteps ==
  ASSUME Given, Flush
  PROVE  /\ pc = "flush" /\ TypeOK /\ UNCHANGED <<super, ready, fat, block, cwd>>
         /\ CtlInv'
         /\ \A D, F : Agree(D, F) /\ D \cup F \subseteq Clusters => Agree(D, F)'
         /\ FlushFails \/ FlushGoesOn \/ FlushEnds
<1>1. pc = "flush" /\ TypeOK /\ UNCHANGED <<super, ready, fat, block, cwd>>
  BY DEF Flush, memory, Given, TypeInv
<1>2. PICK w \in Writes :
           /\ diskFat' = IF w = "lost" THEN diskFat ELSE FlushSector(loc.k)
           /\ Spend(w = "done")
           /\ \/ w # "done" /\ GiveUp(FlushMarks)
              \/ /\ w = "done" /\ loc.k < LastFatSector
                 /\ Goto("flush", [loc EXCEPT !.k = @ + 1]) /\ UNCHANGED <<ret, marks>>
              \/ /\ w = "done" /\ loc.k >= LastFatSector /\ loc.then = "return"
                 /\ Return("ok") /\ UNCHANGED marks
              \/ /\ w = "done" /\ loc.k >= LastFatSector /\ loc.then # "return"
                 /\ Goto(loc.then, loc) /\ UNCHANGED <<ret, marks>>
  BY <1>1, FlushCases
<1>3. \A D, F : Agree(D, F) /\ D \cup F \subseteq Clusters => Agree(D, F)'
  BY <1>1, <1>2, SectorWritten
<1>4. loc \in Locals /\ FlushedSoFar
  BY <1>1 DEF Given, SoundInv, CtlInv, TypeOK
<1>5. CASE w # "done"
  <2>1. FlushFails
    BY <1>2, <1>5 DEF GiveUp, Return, FlushFails
  <2>2. CtlInv'
    BY <2>1, CtlQuiet DEF FlushFails
  <2>3. QED
    BY <1>1, <1>3, <2>1, <2>2
<1>6. CASE w = "done" /\ loc.k < LastFatSector /\ Goto("flush", [loc EXCEPT !.k = @ + 1])
  <2>1. pc' = "flush" /\ loc' = [loc EXCEPT !.k = @ + 1] /\ diskFat' = FlushSector(loc.k)
    BY <1>2, <1>6 DEF Goto
  <2>2. FlushGoesOn /\ loc'.k = loc.k + 1
    BY <1>4, <2>1 DEF Locals, FlushGoesOn
  <2>3. FlushedSoFar'
    BY <1>1, <1>4, <2>1, <2>2, SectorDone DEF FlushedSoFar
  <2>4. CtlInv'
    BY <1>1, <2>2, <2>3 DEF CtlInv, Flushing, FlushGoesOn, Given, SoundInv
  <2>5. QED
    BY <1>1, <1>3, <2>2, <2>4
<1>7. CASE /\ w = "done" /\ loc.k >= LastFatSector
           /\ \/ loc.then = "return" /\ Return("ok")
              \/ loc.then # "return" /\ Goto(loc.then, loc)
  <2>1. diskFat' = fat'
    BY <1>1, <1>2, <1>4, <1>7, SectorDone
  <2>2. FlushEnds
    BY <1>7, <2>1 DEF FlushEnds, Goto, Return
  <2>3. CtlInv'
    <3>1. CASE loc.then = "return"
      BY <2>2, <3>1, CtlQuiet DEF FlushEnds
    <3>2. CASE loc.then # "return"
      <4>1. loc.then \in {"formatRoot", "initDir", "addEntry", "addCluster", "setEntry"}
        BY <1>4, <3>2 DEF Locals
      <4>2. pc' = loc.then
        BY <2>2, <3>2 DEF FlushEnds
      <4>3. loc.then = "formatRoot" => super' /\ fat' = FormattedFat
        BY <1>1 DEF Given, SoundInv, CtlInv, Flushing
      <4>4. QED
        BY <2>1, <4>1, <4>2, <4>3 DEF CtlInv, Flushing
    <3>3. QED
      BY <3>1, <3>2
  <2>4. QED
    BY <1>1, <1>3, <2>2, <2>3
<1>8. QED
  BY <1>2, <1>5, <1>6, <1>7

\* The flush of fs_format.
LEMMA FormatFlushSound ==
  ASSUME Given, Flush, loc.then = "formatRoot"
  PROVE  SoundInv'
<1>1. /\ pc = "flush" /\ CtlInv' /\ ready' = ready
      /\ FlushFails \/ FlushGoesOn \/ FlushEnds
  BY FlushSteps
<1>2. ~ready'
  BY <1>1 DEF Given, SyncInv, OfflineInv, Flushing
<1>3. OnlineInv'
  BY <1>1 DEF OnlineInv, FlushFails, FlushGoesOn, FlushEnds
<1>4. SUFFICES ASSUME Free(Strays)' PROVE SoundInv'
  BY <1>1, <1>3, <1>4, Spoilt
<1>5. MemInv'
  BY <1>2 DEF MemInv
<1>6. ~FlushFails
  BY <1>4 DEF FlushFails, FlushMarks, Free, Strays, Breaks
<1>7. Exposed'
  BY <1>1, <1>6 DEF FlushGoesOn, FlushEnds, Exposed, Flushing
<1>8. DiskInv'
  BY <1>7 DEF DiskInv
<1>9. QED
  BY <1>1, <1>3, <1>5, <1>8 DEF SoundInv

\* fs_flush_fat, sector by sector.
LEMMA FlushSound ==
  ASSUME Given, Flush
  PROVE  SoundInv'
<1>1. /\ pc = "flush" /\ TypeOK /\ UNCHANGED <<super, ready, fat, block, cwd>>
      /\ CtlInv'
      /\ \A D, F : Agree(D, F) /\ D \cup F \subseteq Clusters => Agree(D, F)'
      /\ FlushFails \/ FlushGoesOn \/ FlushEnds
  BY FlushSteps
<1>2. CASE loc.then = "formatRoot"
  BY <1>2, FormatFlushSound
<1>3. CASE loc.then # "formatRoot"
  <2>1. ready'
    BY <1>1, <1>3 DEF Given, SoundInv, OnlineInv
  <2>2. SUFFICES ASSUME Free(Strays)' PROVE SoundInv'
    BY <1>1, <2>1, <2>2, OnlineKept, Spoilt
  <2>3. PICK D, F, dp : Phase(D, F, dp)
    BY <1>1, <1>3, <2>2, TreeNow
  <2>4. Free(Omit)' => Free(Omit)
    BY FreeBefore DEF Given
  <2>5. /\ \A X : Kept(D, F, X) => (Free(Omit)' => \A c \in Clusters : fat'[c] # FREE => c \in D \cup F \cup X)
        /\ Kept(D, F, {}) => Kept(D, F, {})'
    BY <1>1, <2>4 DEF Kept
  <2>6. Resting(D, F, dp) => Resting(D, F, dp)'
    BY <1>1 DEF Resting, Shape, Tree, Ground
  <2>7. CASE loc.then \in {"initDir", "addEntry"}
    <3>1. AddPhase(D, F, dp)
      BY <1>1, <2>3, <2>7 DEF Phase, Adding, Flushing
    <3>2. Resting(D, F, dp)'
      BY <2>6, <3>1 DEF AddPhase
    <3>3. CASE FlushFails
      <4>1. "leak" \in marks' /\ pc' = "idle"
        BY <2>7, <3>3 DEF FlushFails, FlushMarks
      <4>2. QED
        BY <2>1, <3>2, <4>1, GivesUp
    <3>4. CASE ~FlushFails
      <4>1. /\ loc'.cur = loc.cur /\ loc'.entry = loc.entry
            /\ \/ pc' = "flush" /\ loc'.then = loc.then
               \/ pc' = loc.then
        BY <1>1, <2>7, <3>4 DEF FlushGoesOn, FlushEnds
      <4>2. Adding' /\ pc' # "data"
        BY <2>7, <4>1 DEF Adding, Flushing
      <4>3. Incoming(D, F)'
        BY <1>1, <2>4, <3>1, <4>1 DEF AddPhase, Incoming, Apart
      <4>4. Arriving'
        <5>1. loc.then = "initDir" => loc.entry.type = "dir"
          BY <1>1, <3>1 DEF AddPhase, Arriving, Flushing
        <5>2. loc.then = "addEntry" => loc.entry.type = "file"
          BY <1>1, <3>1 DEF AddPhase, Arriving, Flushing
        <5>3. QED
          BY <2>7, <4>1, <5>1, <5>2 DEF Arriving, Flushing
      <4>5. Kept(D, F, Chain(fat, loc.entry.first))'
        BY <1>1, <2>4, <3>1, <4>1 DEF AddPhase, Kept
      <4>6. AddPhase(D, F, dp)'
        BY <3>2, <4>3, <4>4, <4>5 DEF AddPhase
      <4>7. QED
        BY <1>1, <2>1, <4>2, <4>6, ToAdd DEF Given
    <3>5. QED
      BY <3>3, <3>4
  <2>8. CASE loc.then = "setEntry"
    <3>1. ~FlushFails
      BY <2>2, <2>8 DEF FlushFails, FlushMarks, Free, Strays, Breaks
    <3>2. /\ loc'.at = loc.at /\ loc'.entry = loc.entry /\ loc'.req = loc.req
          /\ \/ pc' = "flush" /\ loc'.then = loc.then
             \/ pc' = "setEntry"
      BY <1>1, <2>8, <3>1 DEF FlushGoesOn, FlushEnds
    <3>3. StorePhase(D, F, dp) /\ loc.req.op = "write"
      BY <1>1, <2>3, <2>8 DEF Phase, Storing, Flushing, Given, SoundInv, CtlInv
    <3>4. Storing' /\ pc' # "data" /\ loc'.req.op = "write"
      BY <2>8, <3>2, <3>3 DEF Storing, Flushing
    <3>5. StorePhase(D, F, dp)'
      BY <1>1, <2>5, <3>2, <3>3, <3>4 DEF StorePhase, Shape
    <3>6. QED
      BY <1>1, <2>1, <3>4, <3>5, ToStore
  <2>9. CASE loc.then = "addCluster"
    <3>1. ~FlushFails
      BY <2>2, <2>9 DEF FlushFails, FlushMarks, Free, Strays, Breaks
    <3>2. /\ loc'.data = loc.data /\ loc'.entry = loc.entry
          /\ \/ pc' = "flush" /\ loc'.then = loc.then
             \/ pc' = "addCluster"
      BY <1>1, <2>9, <3>1 DEF FlushGoesOn, FlushEnds
    <3>3. GrowPhase(D, F, dp)
      BY <1>1, <2>3, <2>9 DEF Phase, Growing, Flushing
    <3>4. Growing'
      BY <2>9, <3>2 DEF Growing, Flushing
    <3>5. GrowPhase(D, F, dp)'
      BY <1>1, <2>5, <3>2, <3>3 DEF GrowPhase, Shape, Grown
    <3>6. QED
      BY <1>1, <2>1, <3>4, <3>5, ToGrow
  <2>10. CASE loc.then = "return"
    <3>1. Still(D, F, dp)
      BY <1>1, <2>3, <2>10 DEF Phase, Flushing
    <3>2. Still(D, F, dp)' /\ Resting(D, F, dp)'
      BY <2>5, <2>6, <3>1 DEF Still
    <3>3. CASE FlushFails
      <4>1. "leak" \in marks' /\ pc' = "idle"
        BY <2>10, <3>3 DEF FlushFails, FlushMarks
      <4>2. QED
        BY <2>1, <3>2, <4>1, GivesUp
    <3>4. CASE FlushGoesOn
      <4>1. Flushing("return")'
        BY <2>10, <3>4 DEF FlushGoesOn, Flushing
      <4>2. QED
        BY <1>1, <2>1, <3>2, <4>1, ToReturn DEF Given
    <3>5. CASE FlushEnds
      <4>1. pc' = "idle"
        BY <2>10, <3>5 DEF FlushEnds
      <4>2. QED
        BY <2>1, <3>2, <4>1, ToIdle DEF Given
    <3>6. QED
      BY <1>1, <3>3, <3>4, <3>5
  <2>11. loc.then \in {"formatRoot", "initDir", "addEntry", "addCluster", "setEntry", "return"}
    BY <1>1 DEF TypeOK, Locals
  <2>12. QED
    BY <1>3, <2>7, <2>8, <2>9, <2>10, <2>11
<1>4. QED
  BY <1>2, <1>3

-------------------------------------------------------------------------------
\* Every step.

\* The writes of an operation.
LEMMA StoreSound ==
  ASSUME Given, Store
  PROVE  SoundInv'
BY WriteDataSound, FlushSound, InitDirSound, AddEntrySound, AddEntryExtendSound, AddEntryFailsSound,
   AddClusterSound, SetEntrySound DEF Store

\* A step that changes nothing.
LEMMA StutterSound ==
  ASSUME SoundInv, UNCHANGED vars
  PROVE  SoundInv'
<1>1. /\ UNCHANGED <<super, diskFat, block, ready, fat, cwd, pc, loc, frames, marks>>
      /\ CtlInv /\ OnlineInv /\ MemInv /\ DiskInv
  BY DEF vars, disk, memory, SoundInv
<1>2. CtlInv' /\ OnlineInv'
  BY <1>1 DEF CtlInv, OnlineInv, Flushing, FlushedSoFar
<1>3. \A m : Free(m)' = Free(m)
  BY <1>1 DEF Free
<1>4. DiskInv'
  <2>1. SUFFICES ASSUME super', ~Exposed', Free(Strays)'
                 PROVE  \E D, F, dp : OnDisk(D, F, dp)'
    BY DEF DiskInv
  <2>2. super /\ ~Exposed /\ Free(Strays)
    BY <1>1, <1>3, <2>1 DEF Exposed, Flushing, Running
  <2>3. PICK D, F, dp : OnDisk(D, F, dp)
    BY <1>1, <2>2 DEF DiskInv
  <2>4. Firm' = Firm
    BY <1>1 DEF Firm
  <2>5. OnDisk(D, F, dp)'
    BY <1>1, <1>3, <2>3, <2>4 DEF OnDisk
  <2>6. QED
    BY <2>5
<1>5. MemInv'
  <2>1. SUFFICES ASSUME ready', Free(Strays)'
                 PROVE  \E D, F, dp : Phase(D, F, dp)'
    BY DEF MemInv
  <2>2. PICK D, F, dp : Phase(D, F, dp)
    BY <1>1, <1>3, <2>1 DEF MemInv
  <2>3. /\ \A E, D1, F1, dp1 : Shape(E, D1, F1, dp1)' <=> Shape(E, D1, F1, dp1)
        /\ \A D1, F1 : Agree(D1, F1)' <=> Agree(D1, F1)
        /\ \A D1, F1, X : Kept(D1, F1, X)' <=> Kept(D1, F1, X)
    BY <1>1, <1>3 DEF Shape, Agree, Kept
  <2>4. Resting(D, F, dp)' <=> Resting(D, F, dp)
    BY <1>1 DEF Resting, Shape, Agree
  <2>5. Still(D, F, dp)' <=> Still(D, F, dp)
    BY <1>1, <1>3, <2>4 DEF Still, Kept
  <2>6. \A x : Flushing(x)' = Flushing(x)
    BY <1>1 DEF Flushing
  <2>7. Adding' = Adding /\ Storing' = Storing /\ Growing' = Growing
    BY <1>1 DEF Adding, Storing, Growing, Flushing
  <2>8. AddPhase(D, F, dp)' <=> AddPhase(D, F, dp)
    <3>1. Incoming(D, F)' <=> Incoming(D, F)
      BY <1>1, <1>3 DEF Incoming
    <3>2. Arriving' <=> Arriving
      BY <1>1 DEF Arriving, Flushing
    <3>3. Kept(D, F, Chain(fat, loc.entry.first))' <=> Kept(D, F, Chain(fat, loc.entry.first))
      BY <1>1, <1>3 DEF Kept
    <3>4. QED
      BY <2>4, <3>1, <3>2, <3>3 DEF AddPhase
  <2>9. StorePhase(D, F, dp)' <=> StorePhase(D, F, dp)
    BY <1>1, <1>3 DEF StorePhase, Shape, Kept, Agree
  <2>10. GrowPhase(D, F, dp)' <=> GrowPhase(D, F, dp)
    BY <1>1, <1>3 DEF GrowPhase, Shape, Kept, Grown
  <2>11. ASSUME NEW E, ScanPhase(E, D, F, dp) PROVE ScanPhase(E, D, F, dp)'
    <3>1. Shape(E, D, F, dp)' /\ Agree(D, F)' /\ Kept(D, F, {})'
      BY <1>1, <1>3, <2>11 DEF ScanPhase, Shape, Agree, Kept
    <3>2. Activations(E, D, dp)'
      BY <1>1, <2>11 DEF ScanPhase, Activations, Activation, HeadOf
    <3>3. QED
      BY <1>1, <2>11, <3>1, <3>2 DEF ScanPhase
  <2>12. ASSUME NEW F0, NEW dp0, OnDisk(D, F0, dp0) PROVE OnDisk(D, F0, dp0)'
    BY <1>1, <1>3, <2>12 DEF OnDisk, Firm
  <2>13. Phase(D, F, dp)'
    BY <1>1, <2>2, <2>5, <2>6, <2>7, <2>8, <2>9, <2>10, <2>11, <2>12 DEF Phase
  <2>14. QED
    BY <2>13
<1>6. QED
  BY <1>2, <1>4, <1>5 DEF SoundInv

\* Before the machine is switched on for the first time.
LEMMA InitSound == Init => SoundInv
BY DEF Init, SoundInv, CtlInv, OnlineInv, MemInv, DiskInv, Flushing

Inv == TypeInv /\ SyncInv /\ SoundInv

\* Every step of the machine, every call and every power loss.
LEMMA StepSound ==
  ASSUME Inv, [Next]_vars
  PROVE  Inv'
<1>1. TypeInv' /\ SyncInv'
  BY StepType, StepSync DEF Inv
<1>2. CASE UNCHANGED vars
  BY <1>1, <1>2, StutterSound DEF Inv
<1>3. CASE Next
  <2>1. CASE Step
    <3>1. Given
      BY <1>1, <2>1, MarksStay DEF Given, Inv
    <3>2. QED
      BY <1>1, <2>1, <3>1, StartingSound, WalkSound, DecideSound, ScanSound, StoreSound DEF Step, Inv
  <2>2. CASE Offline \/ \E r \in Requests : Call(r) \/ CallRoot(r)
    <3>1. Given
      BY <1>1, <2>2 DEF Given, Inv, Offline, Call, CallRoot
    <3>2. QED
      BY <1>1, <2>2, <3>1, CallSound DEF Inv
  <2>3. CASE Crash
    <3>1. Given
      BY <1>1, <2>3 DEF Given, Inv, Crash
    <3>2. QED
      BY <1>1, <2>3, <3>1, CrashSound DEF Inv
  <2>4. QED
    BY <1>3, <2>1, <2>2, <2>3 DEF Next
<1>4. QED
  BY <1>2, <1>3

\* In every behaviour.
LEMMA SoundInvariant == Spec => []Inv
<1>1. Init => Inv
  <2>1. Init => SyncInv
    BY DEF Init, SyncInv, FollowInv, OfflineInv, ScanInv
  <2>2. QED
    BY <2>1, InitType, InitSound DEF Inv
<1>2. Inv /\ [Next]_vars => Inv'
  BY StepSound
<1>3. QED
  BY <1>1, <1>2, PTL DEF Spec

\* Between two commands.
LEMMA SettledTree ==
  ASSUME Inv, Settled, Free(Strays)
  PROVE  /\ fat \in Fats
         /\ \E D, F, dp : Tree(fat, block, D, F, dp) /\ Reached(fat, block, D, F) /\ Kept(D, F, {})
<1>1. fat \in Fats /\ ready /\ pc = "idle"
  BY DEF Inv, TypeInv, TypeOK, Settled
<1>2. PICK D, F, dp : Phase(D, F, dp)
  BY <1>1 DEF Inv, SoundInv, MemInv
<1>3. Still(D, F, dp)
  BY <1>1, <1>2 DEF Phase
<1>4. QED
  BY <1>1, <1>3 DEF Still, Resting, Shape

-------------------------------------------------------------------------------
\* The properties.

\* Between commands the files and directories are a tree over disjoint chains of
\* allocated clusters: for every disk, every series of calls and any number of disk
\* faults and power losses, until one of the named mishaps or the removal of the
\* current directory.
THEOREM TreeStaysSound == Spec => [](Free({"cwdGone"}) => TreeSound)
<1>1. Inv => (Free({"cwdGone"}) => TreeSound)
  <2>1. SUFFICES ASSUME Inv, Free({"cwdGone"}), Settled, Free(Breaks)
                 PROVE  NoCrossLink(fat, block) /\ NoDangling(fat, block)
    BY DEF TreeSound
  <2>2. Free(Strays)
    BY <2>1 DEF Free, Strays
  <2>3. QED
    BY <2>1, <2>2, SettledTree, TreeIsSound
<1>2. QED
  BY <1>1, SoundInvariant, PTL

\* The same of the disk alone at every step of every operation but those that
\* Exposed names: the chains on it are disjoint and allocated.
THEOREM DiskStaysSound == Spec => [](Free({"cwdGone"}) => DiskSound)
<1>1. Inv => (Free({"cwdGone"}) => DiskSound)
  <2>1. SUFFICES ASSUME Inv, Free({"cwdGone"}), super, ~Exposed, Free(Breaks)
                 PROVE  NoCrossLink(diskFat, block) /\ NoDangling(diskFat, block)
    BY DEF DiskSound
  <2>2. Free(Strays) /\ diskFat \in Fats
    BY <2>1 DEF Free, Strays, Inv, TypeInv, TypeOK
  <2>3. PICK D, F, dp : Tree(diskFat, block, D, F, dp)
    BY <2>1, <2>2 DEF Inv, SoundInv, DiskInv, OnDisk
  <2>4. QED
    BY <2>2, <2>3, TreeIsSound
<1>2. QED
  BY <1>1, SoundInvariant, PTL

\* "." and ".." of every directory agree with the tree.
THEOREM ParentLinksAgree == Spec => []DotsAgree
<1>1. Inv => DotsAgree
  BY SettledTree, TreeHasDots DEF DotsAgree
<1>2. QED
  BY <1>1, SoundInvariant, PTL

\* Every allocated cluster can be reached: no operation that runs to its end loses
\* one.
THEOREM NoClusterLost == Spec => []NothingLost
<1>1. Inv => NothingLost
  <2>1. SUFFICES ASSUME Inv, Settled, Free(Strays \cup {"leak", "duplicate"})
                 PROVE  NoLeak(fat, block)
    BY DEF NothingLost
  <2>2. Free(Strays) /\ Free(Omit)
    BY <2>1 DEF Free, Omit
  <2>3. PICK D, F, dp : Tree(fat, block, D, F, dp) /\ Reached(fat, block, D, F) /\ Kept(D, F, {})
    BY <2>1, <2>2, SettledTree
  <2>4. Used(fat, block) = D \cup F
    BY <2>1, <2>2, <2>3, SettledTree, ReachedAll
  <2>5. QED
    BY <2>2, <2>3, <2>4 DEF NoLeak, Kept
<1>2. QED
  BY <1>1, SoundInvariant, PTL

===============================================================================
