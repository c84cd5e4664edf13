------------------------------ MODULE FsGeometry ------------------------------
(***************************************************************************)
(* The search of fs_format (src/src/fs.c:195-252) for a disk layout: how   *)
(* many sectors the FAT takes and how many clusters are left for data.     *)
(*                                                                         *)
(* Each iteration computes the cluster count that the current FAT size     *)
(* leaves room for, then the FAT size which that count needs, and stops    *)
(* when the two agree.  On some disks (totals that are multiples of 129)   *)
(* they never agree: the loop alternates between two sizes and leaves      *)
(* after its eighth iteration with the FAT size of one round and the       *)
(* cluster count of another.                                               *)
(***************************************************************************)
EXTENDS Integers

CONSTANT Totals    \* the disk sizes, in sectors, that disk_total_sectors may report

ASSUME TotalsAssumption == Totals \subseteq Nat

SectorSize == 512        \* FS_SECTOR_SIZE
MaxClusters == 65536     \* FS_MAX_CLUSTERS
MinTotal == 128          \* below it: "Disk too small for filesystem."
OddIterations == 7       \* slip: one round fewer
Iterations == 8          \* the bound of the for loop

VARIABLES
  total,           \* disk_total_sectors()
  i,               \* the loop counter
  fat_sectors,
  cluster_count,
  phase            \* "loop", "done" (layout written to g_sb), "refused"

vars == <<total, i, fat_sectors, cluster_count, phase>>

\* Slip: no upper limit.
ClusterCountUnlimited(t, n) == t - 1 - n

\* The clusters left for data beside the superblock and n FAT sectors.
ClusterCount(t, n) ==
  LET data_sectors == t - 1 - n
  IN  IF data_sectors > MaxClusters THEN MaxClusters ELSE data_sectors

\* Slips: rounded down, and bytes taken for sectors.
NeededRoundedDown(n) == ((n + 2) * 4) \div SectorSize
NeededInBytes(n) == (n + 2) * 4

\* The FAT sectors that hold the links of n clusters and of the two reserved
\* entries, four bytes each, rounded up.
Needed(n) == ((n + 2) * 4 + SectorSize - 1) \div SectorSize

Init ==
  /\ total \in Totals
  /\ i = 0
  /\ fat_sectors = 1
  /\ cluster_count = 0
  /\ phase = "loop"

\* The early return on a disk that is too small.
Refuse ==
  /\ phase = "loop" /\ i = 0
  /\ total < MinTotal
  /\ phase' = "refused"
  /\ UNCHANGED <<total, i, fat_sectors, cluster_count>>

\* The FAT size suits the cluster count: break.
Agree ==
  /\ phase = "loop" /\ i < Iterations
  /\ total >= MinTotal
  /\ cluster_count' = ClusterCount(total, fat_sectors)
  /\ Needed(cluster_count') = fat_sectors
  /\ phase' = "done"
  /\ UNCHANGED <<total, i, fat_sectors>>

\* They differ: try the FAT size that this cluster count needs.
Adjust ==
  /\ phase = "loop" /\ i < Iterations
  /\ total >= MinTotal
  /\ cluster_count' = ClusterCount(total, fat_sectors)
  /\ Needed(cluster_count') # fat_sectors
  /\ fat_sectors' = Needed(cluster_count')
  /\ i' = i + 1
  /\ UNCHANGED <<total, phase>>

\* The loop runs out of iterations without agreement.
GiveUp ==
  /\ phase = "loop" /\ i = Iterations
  /\ phase' = "done"
  /\ UNCHANGED <<total, i, fat_sectors, cluster_count>>

Next == Refuse \/ Agree \/ Adjust \/ GiveUp

Spec == Init /\ [][Next]_vars

-------------------------------------------------------------------------------
\* Every variable keeps the range of its C type as the loop uses it.
TypeOK ==
  /\ total \in Totals
  /\ i \in 0..Iterations
  /\ fat_sectors \in Nat \ {0}
  /\ cluster_count \in 0..MaxClusters
  /\ phase \in {"loop", "done", "refused"}

\* The subtraction total - 1 - fat_sectors, done on uint32_t, never wraps.
NoWrap == total >= MinTotal => fat_sectors < total

\* The layout chosen fits the disk: superblock, FAT and every data cluster lie
\* below total, so that fs_read_cluster and fs_write_cluster stay on the disk.
LayoutFits == phase = "done" => 1 + fat_sectors + cluster_count <= total

\* The FAT sectors reserved hold a link for every cluster: fs_flush_fat and
\* fs_load_fat save and restore the whole table.
FatHoldsAll == phase = "done" => (cluster_count + 2) * 4 <= fat_sectors * SectorSize
===============================================================================
