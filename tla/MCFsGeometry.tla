---------------------------- MODULE MCFsGeometry ----------------------------
\* FsGeometry on disk sizes around every boundary of the computation: the
\* smallest disk, FAT sizes of one to six sectors, the sizes on which the
\* loop never agrees (multiples of 129), and disks cut by FS_MAX_CLUSTERS.
EXTENDS FsGeometry

MCTotals == (120..660) \cup {129 * k : k \in 6..512} \cup (65920..66080) \cup {2000000000}
=============================================================================
