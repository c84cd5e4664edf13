--------------------------- MODULE FsGeometry_proofs ---------------------------
(***************************************************************************)
(* The layout fs_format chooses is sound on every disk, also on those on   *)
(* which its loop never agrees.                                            *)
(*                                                                         *)
(* The argument: the FAT size that a round asks for falls when the FAT     *)
(* size it starts from grows (Antitone).  So the sizes close in on the     *)
(* answer from both sides, those before an even round from below and those *)
(* before an odd round from above, and since the number of rounds is even  *)
(* the last size is one from below, which cannot be larger than the one    *)
(* the cluster count was computed from.                                    *)
(***************************************************************************)
EXTENDS FsGeometry, TLAPS

\* The FAT size that follows n on a disk of t sectors.
After(t, n) == Needed(ClusterCount(t, n))

Fits == 1 + fat_sectors + cluster_count <= total

IInv ==
  /\ TypeOK
  /\ phase # "loop" => phase = "refused" \/ (Fits /\ FatHoldsAll)
  /\ total >= MinTotal /\ phase = "loop" =>
       /\ fat_sectors < total
       /\ i % 2 = 0 => fat_sectors <= After(total, fat_sectors)
       /\ i % 2 = 1 => fat_sectors >= After(total, fat_sectors)
       /\ i > 0 => fat_sectors = Needed(cluster_count)
       /\ i > 0 /\ i % 2 = 0 => Fits
  /\ phase = "done" => total >= MinTotal /\ fat_sectors < total
  /\ i > 0 => total >= MinTotal
  /\ phase = "refused" => total < MinTotal

\* The provers list a range with a literal bound, so the limit stays a name.
LEMMA LimitNat == MaxClusters \in Nat
BY DEF MaxClusters

\* More FAT sectors leave fewer clusters, which need no more FAT sectors.
LEMMA Antitone ==
  ASSUME NEW t \in Nat, NEW m \in Nat, NEW n \in Nat, t >= MinTotal, m <= n, n < t
  PROVE  /\ ClusterCount(t, n) \in 0..MaxClusters
         /\ ClusterCount(t, n) <= t - 1 - n
         /\ ClusterCount(t, n) <= ClusterCount(t, m)
         /\ After(t, n) <= After(t, m)
<1>1. /\ ClusterCount(t, n) \in 0..MaxClusters
      /\ ClusterCount(t, m) \in Int
      /\ ClusterCount(t, n) <= t - 1 - n
      /\ ClusterCount(t, n) <= ClusterCount(t, m)
  BY LimitNat DEF ClusterCount
<1>2. ASSUME NEW x \in Int, NEW y \in Int, x <= y
      PROVE  Needed(x) <= Needed(y)
  BY <1>2 DEF Needed, SectorSize
<1>3. QED
  BY <1>1, <1>2 DEF After

\* The FAT sectors asked for hold the links, are at least one, and leave room
\* on any disk of 128 sectors or more.
LEMMA NeededHolds ==
  ASSUME NEW n \in 0..MaxClusters
  PROVE  /\ Needed(n) \in Nat \ {0}
         /\ (n + 2) * 4 <= Needed(n) * SectorSize
         /\ 128 * Needed(n) <= n + 129
BY DEF Needed, SectorSize, MaxClusters

LEMMA InitInv == Init => IInv
<1>1. SUFFICES ASSUME Init PROVE IInv
  OBVIOUS
<1>2. TypeOK
  BY <1>1 DEF Init, TypeOK, Iterations, MaxClusters
<1>3. total \in Nat
  BY <1>1, TotalsAssumption DEF Init
<1>4. ASSUME total >= MinTotal
      PROVE  1 <= After(total, 1)
  <2>1. ClusterCount(total, 1) \in 0..MaxClusters
    BY <1>3, <1>4 DEF ClusterCount, MaxClusters, MinTotal
  <2>2. QED
    BY <2>1, NeededHolds DEF After
<1>5. QED
  BY <1>1, <1>2, <1>3, <1>4 DEF Init, IInv, FatHoldsAll, MinTotal

LEMMA StepInv == IInv /\ [Next]_vars => IInv'
<1>1. SUFFICES ASSUME IInv, [Next]_vars PROVE IInv'
  OBVIOUS
<1>2. total \in Nat /\ i \in 0..8 /\ fat_sectors \in Nat \ {0} /\ cluster_count \in 0..MaxClusters
  BY <1>1, TotalsAssumption DEF IInv, TypeOK, Iterations
<1>3. CASE Refuse
  BY <1>1, <1>2, <1>3 DEF IInv, TypeOK, Refuse, FatHoldsAll
<1>4. CASE Agree
  <2>1. cluster_count' \in 0..MaxClusters /\ cluster_count' <= total - 1 - fat_sectors
    BY <1>1, <1>2, <1>4, Antitone DEF Agree, IInv
  <2>2. (cluster_count' + 2) * 4 <= fat_sectors * SectorSize
    BY <2>1, <1>4, NeededHolds DEF Agree
  <2>3. QED
    BY <1>1, <1>2, <1>4, <2>1, <2>2 DEF IInv, TypeOK, Agree, Fits, FatHoldsAll, SectorSize
<1>5. CASE Adjust
  <2> DEFINE n == fat_sectors
             c == ClusterCount(total, n)
  <2>1. c \in 0..MaxClusters /\ c <= total - 1 - n
    BY <1>1, <1>2, <1>5, Antitone DEF Adjust, IInv
  <2>2. /\ cluster_count' = c /\ fat_sectors' = Needed(c) /\ fat_sectors' = After(total, n)
        /\ i' = i + 1 /\ i < 8 /\ total' = total /\ phase' = "loop" /\ total >= MinTotal
        /\ n < total
    BY <1>1, <1>5 DEF Adjust, After, IInv, Iterations
  <2>3. /\ fat_sectors' \in Nat \ {0}
        /\ 128 * fat_sectors' <= c + 129
    BY <2>1, <2>2, NeededHolds
  <2>4. fat_sectors' < total
    BY <1>2, <2>1, <2>2, <2>3 DEF MinTotal
  <2>5. CASE i % 2 = 0
    <3>1. n <= fat_sectors'
      BY <1>1, <1>5, <2>2, <2>5 DEF IInv, Adjust
    <3>2. After(total, fat_sectors') <= fat_sectors'
      BY <1>2, <2>2, <2>3, <2>4, <3>1, Antitone
    <3>3. i' % 2 = 1
      BY <1>2, <2>2, <2>5
    <3>4. QED
      BY <1>1, <1>2, <2>1, <2>2, <2>3, <2>4, <3>2, <3>3 DEF IInv, TypeOK, Iterations, FatHoldsAll
  <2>6. CASE i % 2 = 1
    <3>1. fat_sectors' <= n
      BY <1>1, <1>5, <2>2, <2>6 DEF IInv, Adjust
    <3>2. fat_sectors' <= After(total, fat_sectors')
      BY <1>2, <2>2, <2>3, <2>4, <3>1, Antitone
    <3>3. i' % 2 = 0
      BY <1>2, <2>2, <2>6
    <3>4. Fits'
      BY <1>2, <2>1, <2>2, <2>3, <3>1 DEF Fits
    <3>5. QED
      BY <1>1, <1>2, <2>1, <2>2, <2>3, <2>4, <3>2, <3>3, <3>4 DEF IInv, TypeOK, Iterations, FatHoldsAll
  <2>7. QED
    BY <1>2, <2>5, <2>6
<1>6. CASE GiveUp
  <2>1. i = 8 /\ i % 2 = 0 /\ total >= MinTotal
    BY <1>1, <1>2, <1>6 DEF GiveUp, Iterations, IInv
  <2>2. QED
    BY <1>1, <1>2, <1>6, <2>1, NeededHolds DEF IInv, TypeOK, GiveUp, Fits, FatHoldsAll, Iterations
<1>7. CASE UNCHANGED vars
  BY <1>1, <1>7 DEF IInv, TypeOK, vars, Fits, FatHoldsAll, After
<1>8. QED
  BY <1>1, <1>3, <1>4, <1>5, <1>6, <1>7 DEF Next

\* The layout that fs_format writes to the superblock fits the disk, whatever
\* the size of the disk: the last cluster lies below total_sectors.
THEOREM LayoutSafe == Spec => []LayoutFits
<1>1. IInv => LayoutFits
  BY DEF IInv, LayoutFits, Fits
<1>2. QED
  BY InitInv, StepInv, <1>1, PTL DEF Spec

\* The FAT sectors of that layout hold the link of every cluster.
THEOREM FatSafe == Spec => []FatHoldsAll
<1>1. IInv => FatHoldsAll
  BY DEF IInv, FatHoldsAll
<1>2. QED
  BY InitInv, StepInv, <1>1, PTL DEF Spec

\* The unsigned subtraction of the loop never wraps around.
THEOREM SubtractionSafe == Spec => []NoWrap
<1>1. IInv => NoWrap
  BY TotalsAssumption DEF IInv, NoWrap, TypeOK, MinTotal
<1>2. QED
  BY InitInv, StepInv, <1>1, PTL DEF Spec

THEOREM GeometryTypes == Spec => []TypeOK
<1>1. IInv => TypeOK
  BY DEF IInv
<1>2. QED
  BY InitInv, StepInv, <1>1, PTL DEF Spec
===============================================================================
