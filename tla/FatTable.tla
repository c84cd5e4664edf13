------------------------------- MODULE FatTable -------------------------------
(***************************************************************************)
(* The file allocation table of src/src/fs.c: one link per cluster, chains *)
(* of clusters, first-fit allocation and the release of a chain.  These    *)
(* are the operations on g_fat that touch memory only; KososFs says when   *)
(* the table reaches the disk.                                             *)
(*                                                                         *)
(* A chain is defined as a least fixed point and not by recursion, so that *)
(* KososFs_proofs can reason about chains of any length.                   *)
(***************************************************************************)
EXTENDS Integers, FiniteSets

CONSTANT NClusters     \* g_sb.cluster_count

ASSUME ClusterAssumption == NClusters \in Nat \ {0}

FREE == 0              \* FS_FAT_FREE
EOC  == -1             \* FS_FAT_EOC, 0xFFFFFFFF
RSVD == -2             \* FS_FAT_RSVD, 0xFFFFFFFE

NoCluster == 0         \* a first_cluster of 0: the file has no data
RootCluster == 2       \* g_sb.root_dir_cluster

Clusters == 2..(NClusters + 1)
Indices  == 0..(NClusters + 1)                        \* of g_fat
Fats     == [Indices -> Clusters \cup {FREE, EOC, RSVD}]

\* g_fat at power on (static storage, zero) and as fs_format fills it.
ZeroFat == [c \in Indices |-> FREE]
FormattedFat ==
  [c \in Indices |-> CASE c \in {0, 1}    -> RSVD
                       [] c = RootCluster -> EOC
                       [] OTHER           -> FREE]

-------------------------------------------------------------------------------
FreeClusters(f) == {c \in Clusters : f[c] = FREE}

\* The n clusters that n calls of fs_alloc_cluster return: the lowest free ones.
FirstFit(f, n) ==
  {c \in FreeClusters(f) : Cardinality({d \in FreeClusters(f) : d < c}) < n}

Least(S) == CHOOSE c \in S : \A d \in S : c <= d

\* Slip: the clusters are marked but never linked.
AllocUnlinked(f, n) == [c \in Indices |-> IF c \in FirstFit(f, n) THEN EOC ELSE f[c]]

\* Every allocated cluster is marked EOC and linked from the one before it.
AllocChain(f, n) ==
  [c \in Indices |->
     IF c \notin FirstFit(f, n) THEN f[c]
     ELSE LET later == {d \in FirstFit(f, n) : d > c}
          IN  IF later = {} THEN EOC ELSE Least(later)]

HasRoom(f, n) == n <= Cardinality(FreeClusters(f))

\* Slip: the two assignments in the wrong order.
ExtendSwapped(f, last, c) == [f EXCEPT ![c] = EOC, ![last] = c]

\* fs_add_entry appends cluster c to the chain that ends in last.
Extend(f, last, c) == [f EXCEPT ![last] = c, ![c] = EOC]

\* S contains every cluster that a cluster of S links to.
ClosedUnderLinks(f, S) == \A c \in S : f[c] \in Clusters => f[c] \in S

\* The clusters that a walk from cluster s along the links visits.
Chain(f, s) ==
  LET closed == {S \in SUBSET Clusters : s \in S /\ ClosedUnderLinks(f, S)}
  IN  {c \in Clusters : s \in Clusters /\ \A S \in closed : c \in S}

\* The cluster at which such a walk stops, on a link that is EOC or FREE.
Last(f, s) == CHOOSE c \in Chain(f, s) : f[c] \notin Clusters

\* Slip: only the first cluster of the chain is released.
FreeHead(f, s) == [c \in Indices |-> IF c = s THEN FREE ELSE f[c]]

\* fs_free_chain: every cluster of the chain becomes free.
FreeChain(f, s) ==
  [c \in Indices |-> IF c \in Chain(f, s) THEN FREE ELSE f[c]]

-------------------------------------------------------------------------------
\* No two clusters link to the same cluster.
LinkedOnce(f) ==
  \A c, d \in Clusters : f[c] \in Clusters /\ f[c] = f[d] => c = d

\* Every link leads to a cluster that is in use.
LinksInUse(f) == \A c \in Clusters : f[c] \in Clusters => f[f[c]] # FREE

\* A walk along the links ends, wherever it starts.
Ends(f) == \A c \in Clusters : \E d \in Chain(f, c) : f[d] \notin Clusters

\* Cluster c is the first of its chain.
IsHead(f, c) == \A d \in Clusters : f[d] # c

WellLinked(f) == LinkedOnce(f) /\ LinksInUse(f)
===============================================================================
