----------------------------- MODULE MkfsProofs -----------------------------
(***************************************************************************)
(* Proofs about Mkfs, for images of every size and for every request.      *)
(* The first part is arithmetic: what Layout computes, and what Mounted    *)
(* reads back from its boot record.  The second part is the invariant that *)
(* ties the records of a state to Layout(disk, want).                      *)
(***************************************************************************)
EXTENDS Mkfs, TLAPS

Wants == {"auto"} \cup FatTypes
Sizes == {s \in Nat : s >= MIN_SECTOR}

(* The division of C on natural numbers.                                   *)
LEMMA Division ==
    ASSUME NEW a \in Nat, NEW b \in Nat \ {0}
    PROVE  /\ a \div b \in Nat
           /\ b * (a \div b) <= a
           /\ a < b * (a \div b) + b
BY SMT

(* The loop over sstbl stops at a row, the first one that fits.            *)
LEMMA RowFound ==
    ASSUME NEW d \in Nat
    PROVE  /\ Row(d) \in 1 .. 11
           /\ d >= sstbl[Row(d)]
           /\ \A j \in 1 .. (Row(d) - 1) : d < sstbl[j]
<1> DEFINE P(i) == d >= sstbl[i] /\ \A j \in 1 .. (i - 1) : d < sstbl[j]
<1>1. \E i \in 1 .. 11 : P(i)
  BY SMTT(60) DEF sstbl
<1> QED BY <1>1, Zenon DEF Row

(* The cluster size for each range of partition sizes.                     *)
LEMMA AllocSizeByRow ==
    ASSUME NEW d \in Nat
    PROVE  \/ d >= 2048000 /\ AllocSize(d) = 64
           \/ 1024000 <= d /\ d < 2048000 /\ AllocSize(d) = 32
           \/ 512000 <= d /\ d < 1024000 /\ AllocSize(d) = 16
           \/ 256000 <= d /\ d < 512000 /\ AllocSize(d) = 8
           \/ 128000 <= d /\ d < 256000 /\ AllocSize(d) = 4
           \/ 64000 <= d /\ d < 128000 /\ AllocSize(d) = 32
           \/ 32000 <= d /\ d < 64000 /\ AllocSize(d) = 16
           \/ 16000 <= d /\ d < 32000 /\ AllocSize(d) = 8
           \/ 8000 <= d /\ d < 16000 /\ AllocSize(d) = 4
           \/ 4000 <= d /\ d < 8000 /\ AllocSize(d) = 2
           \/ 0 <= d /\ d < 4000 /\ AllocSize(d) = 1
<1>1. PICK r \in 1 .. 11 : r = Row(d) /\ d >= sstbl[r] /\ (r > 1 => d < sstbl[r - 1])
  BY RowFound, SMT
<1>2. AllocSize(d) = cstbl[r] \div 512
  BY <1>1, SMT DEF AllocSize, SS
<1>a. CASE r \in 1 .. 4
  BY <1>1, <1>2, <1>a, SMT DEF sstbl, cstbl
<1>b. CASE r \in 5 .. 8
  BY <1>1, <1>2, <1>b, SMT DEF sstbl, cstbl
<1>c. CASE r \in 9 .. 11
  BY <1>1, <1>2, <1>c, SMT DEF sstbl, cstbl
<1> QED BY <1>1, <1>a, <1>b, <1>c, SMT

(* A quotient of at most 131072000 sectors by the cluster size that goes   *)
(* with them.                                                              *)
LEMMA QuotientBound ==
    ASSUME NEW p \in Nat, NEW a \in Nat, 1 <= a, NEW q \in Nat,
           p <= 131072000, a * q <= p, p >= 2048000 => a = 64
    PROVE  q <= 2048000
<1>1. CASE p >= 2048000
  BY <1>1, SMT
<1>2. CASE p < 2048000
  <2>1. q <= a * q
    BY SMT
  <2> QED BY <1>2, <2>1, SMT
<1> QED BY <1>1, <1>2, SMT

(* The partition and the estimate of its cluster count, which bounds the   *)
(* size of the FATs.                                                       *)
LEMMA Estimate ==
    ASSUME NEW size \in Sizes, NEW p, NEW a, NEW q,
           p = PartSectors(size), a = AllocSize(p), q = p \div a
    PROVE  /\ p \in Nat /\ 1937 <= p /\ p <= MAX_SECTOR - BPart /\ p + BPart <= size
           /\ a \in Nat /\ 1 <= a /\ a <= 64
           /\ q \in Nat /\ q <= 2048000 /\ q <= p /\ a * q <= p
<1>1. p \in Nat /\ 1937 <= p /\ p <= MAX_SECTOR - BPart /\ p + BPart <= size
  BY SMT DEF PartSectors, WholeDisk, Sizes, MAX_SECTOR, MIN_SECTOR, BPart
<1>2. a \in Nat /\ 1 <= a /\ a <= 64 /\ (p >= 2048000 => a = 64)
  BY <1>1, AllocSizeByRow, SMT
<1>3. q \in Nat /\ a * q <= p
  BY <1>1, <1>2, Division, SMT
<1>4. q <= 2048000
  <2>1. p <= 131072000
    BY <1>1, SMT DEF MAX_SECTOR, BPart
  <2> QED BY <1>1, <1>2, <1>3, <2>1, QuotientBound, SMT
<1>5. q <= p
  BY <1>1, <1>2, <1>3, SMT
<1> QED BY <1>1, <1>2, <1>3, <1>4, <1>5, SMT

(* A FAT has room for the estimated clusters and for entries 0 and 1, and  *)
(* its size fits BPB_FATSz16 on FAT12/16.                                  *)
LEMMA FatSize ==
    ASSUME NEW f \in FatTypes, NEW q \in Nat, q <= 2048000,
           NEW n, n = FatSectors(f, q)
    PROVE  /\ n \in Nat /\ 1 <= n /\ 512 * n <= 4 * q + 519
           /\ f # "FAT32" => n < 65536
           /\ (q + 2) * EntryBits[f] <= n * 4096
<1>1. CASE f = "FAT12"
  <2>1. PICK h \in Nat : h = (q * 3 + 1) \div 2 /\ 3 * q <= 2 * h /\ 2 * h <= 3 * q + 1
    BY SMT
  <2>2. n = (h + 3 + 511) \div 512
    BY <1>1, <2>1, SMT DEF FatSectors, FatBytes, SS
  <2>3. n \in Nat /\ 512 * n <= h + 514 /\ h + 514 < 512 * n + 512
    BY <2>1, <2>2, SMT
  <2> QED BY <1>1, <2>1, <2>3, SMT DEF EntryBits, FatTypes
<1>2. CASE f = "FAT16"
  <2>1. n = (q * 2 + 4 + 511) \div 512
    BY <1>2, SMT DEF FatSectors, FatBytes, SS
  <2>2. n \in Nat /\ 512 * n <= 2 * q + 515 /\ 2 * q + 515 < 512 * n + 512
    BY <2>1, SMT
  <2> QED BY <1>2, <2>2, SMT DEF EntryBits, FatTypes
<1>3. CASE f = "FAT32"
  <2>1. n = (q * 4 + 8 + 511) \div 512
    BY <1>3, SMT DEF FatSectors, FatBytes, SS
  <2>2. n \in Nat /\ 512 * n <= 4 * q + 519 /\ 4 * q + 519 < 512 * n + 512
    BY <2>1, SMT
  <2> QED BY <1>3, <2>2, SMT DEF EntryBits, FatTypes
<1> QED BY <1>1, <1>2, <1>3, SMT DEF FatTypes

(* What f_mkfs may rely on once it has computed layout l for an image of   *)
(* size sectors.                                                           *)
Meta(l) == l.n_rsv + 2 * l.n_fat + l.n_dir

WellLaid(l, size) ==
    /\ l.fmt \in FatTypes
    /\ l.n_part \in Nat /\ 1937 <= l.n_part /\ l.n_part <= MAX_SECTOR - BPart
    /\ l.n_part + BPart <= size
    /\ l.csize \in Nat /\ 1 <= l.csize /\ l.csize <= 64
    /\ l.n_rsv = Reserved(l.fmt) /\ l.n_dir = RootSectors(l.fmt)
    /\ l.n_fat \in Nat /\ 1 <= l.n_fat /\ (l.fmt # "FAT32" => l.n_fat < 65536)
    /\ l.n_clst \in Nat /\ 1 <= l.n_clst
    /\ l.n_clst = (l.n_part - Meta(l)) \div l.csize
    /\ Meta(l) + l.csize * l.n_clst <= l.n_part
    /\ (l.n_clst + 2) * EntryBits[l.fmt] <= l.n_fat * 4096

LEMMA RootSize == ASSUME NEW f \in FatTypes
                  PROVE RootSectors(f) = (IF f = "FAT32" THEN 0 ELSE 32)
BY SMT DEF RootSectors, N_ROOTDIR, SS

LEMMA TypeChosen == ASSUME NEW want \in Wants, NEW q \in Nat PROVE ChosenType(want, q) \in FatTypes
BY SMT DEF ChosenType, Wants, FatTypes

(* The numbers f_mkfs computes: partition p, cluster size a, estimate q of *)
(* the cluster count, FAT type f, FAT size n, sectors m before the         *)
(* clusters, cluster count c.                                              *)
Computed(size, want, p, a, q, f, n, m, c) ==
    /\ 1937 <= p /\ p <= MAX_SECTOR - BPart /\ p + BPart <= size
    /\ a = AllocSize(p) /\ 1 <= a /\ a <= 64
    /\ a * q <= p /\ p < a * q + a
    /\ f = ChosenType(want, q)
    /\ 1 <= n /\ 512 * n <= 4 * q + 519 /\ (f # "FAT32" => n < 65536)
    /\ m = Reserved(f) + 2 * n + RootSectors(f) /\ m + 64 <= p
    /\ c = (p - m) \div a /\ 1 <= c /\ c <= q
    /\ a * c <= p - m /\ p - m < a * c + a
    /\ (c + 2) * EntryBits[f] <= n * 4096
    /\ Layout(size, want) =
          [fmt |-> f, n_part |-> p, csize |-> a, n_rsv |-> Reserved(f), n_fat |-> n,
           n_dir |-> RootSectors(f), n_clst |-> c]

LEMMA LayoutParts ==
    ASSUME NEW size \in Sizes, NEW want \in Wants
    PROVE  \E p, a, q, n, m, c \in Nat, f \in FatTypes : Computed(size, want, p, a, q, f, n, m, c)
<1>1. PICK p : p = PartSectors(size)
  BY Zenon
<1>2. PICK a : a = AllocSize(p)
  BY Zenon
<1>3. PICK q : q = p \div a
  BY Zenon
<1>4. /\ p \in Nat /\ 1937 <= p /\ p <= MAX_SECTOR - BPart /\ p + BPart <= size
      /\ a \in Nat /\ 1 <= a /\ a <= 64
      /\ q \in Nat /\ q <= 2048000 /\ q <= p /\ a * q <= p
  BY <1>1, <1>2, <1>3, Estimate, SMT
<1>5. PICK f \in FatTypes : f = ChosenType(want, q)
  <2>1. q \in Nat
    BY <1>4, SMT
  <2> QED BY <2>1, TypeChosen, Zenon
<1>6. PICK n : n = FatSectors(f, q)
  BY Zenon
<1>7. /\ n \in Nat /\ 1 <= n /\ 512 * n <= 4 * q + 519
      /\ f # "FAT32" => n < 65536
      /\ (q + 2) * EntryBits[f] <= n * 4096
  BY <1>4, <1>6, FatSize, SMT
<1>8. PICK m : m = Reserved(f) + 2 * n + RootSectors(f)
  BY Zenon
<1>9. m \in Nat /\ m + 64 <= p
  BY <1>4, <1>7, <1>8, RootSize, SMT DEF Reserved
<1>10. PICK c : c = (p - m) \div a
  BY Zenon
<1>11. /\ c \in Nat /\ 1 <= c /\ c <= q
       /\ a * c <= p - m /\ p - m < a * c + a /\ p < a * q + a
  <2>1. c \in Nat /\ a * c <= p - m /\ p - m < a * c + a
    BY <1>4, <1>9, <1>10, Division, SMT
  <2>2. p < a * q + a
    BY <1>3, <1>4, Division, SMT
  <2>3. c # 0
    BY <1>4, <1>9, <2>1, SMT
  <2>4. c <= q
    <3>1. a * c < a * (q + 1)
      BY <1>4, <1>9, <2>1, <2>2, SMT
    <3> QED BY <1>4, <2>1, <3>1, SMT
  <2> QED BY <2>1, <2>2, <2>3, <2>4, SMT
<1>12. (c + 2) * EntryBits[f] <= n * 4096
  <2>1. EntryBits[f] \in Nat
    BY SMT DEF EntryBits
  <2>2. (c + 2) * EntryBits[f] <= (q + 2) * EntryBits[f]
    BY <1>4, <1>11, <2>1, SMT
  <2> QED BY <1>4, <1>7, <1>11, <2>1, <2>2, SMT
<1>13. p - Reserved(f) - n * N_FATS - RootSectors(f) = p - m
  BY <1>4, <1>7, <1>8, RootSize, SMT DEF Reserved, N_FATS
<1>14. Layout(size, want) =
         [fmt |-> f, n_part |-> p, csize |-> a, n_rsv |-> Reserved(f), n_fat |-> n,
          n_dir |-> RootSectors(f), n_clst |-> c]
  BY <1>1, <1>2, <1>3, <1>5, <1>6, <1>10, <1>13, Zenon DEF Layout
<1>15. Computed(size, want, p, a, q, f, n, m, c)
  BY <1>2, <1>4, <1>5, <1>7, <1>8, <1>9, <1>10, <1>11, <1>12, <1>14, SMT DEF Computed
<1>16. p \in Nat /\ a \in Nat /\ q \in Nat /\ n \in Nat /\ m \in Nat /\ c \in Nat
  BY <1>4, <1>7, <1>9, <1>11, SMT
<1> QED BY <1>15, <1>16, Zenon

LEMMA LayoutIsWell ==
    ASSUME NEW size \in Sizes, NEW want \in Wants
    PROVE  WellLaid(Layout(size, want), size)
<1>1. PICK p, a, q, n, m, c \in Nat, f \in FatTypes : Computed(size, want, p, a, q, f, n, m, c)
  BY LayoutParts, Zenon
<1> QED BY <1>1, SMT DEF Computed, WellLaid, Meta

(* chk_mounted computes from the boot record what f_mkfs computed before   *)
(* it wrote that record, but for the type of the FAT.                      *)
LEMMA BootFields ==
    ASSUME NEW size, NEW l, WellLaid(l, size)
    PROVE  /\ Boot(l).RsvdSecCnt = l.n_rsv /\ Boot(l).NumFATs = 2
           /\ Boot(l).SecPerClus = l.csize
           /\ Boot(l).RootEntCnt = 16 * l.n_dir
           /\ (IF Boot(l).TotSec16 # 0 THEN Boot(l).TotSec16 ELSE Boot(l).TotSec32) = l.n_part
           /\ (IF Boot(l).FATSz16 # 0 THEN Boot(l).FATSz16 ELSE Boot(l).FATSz32) = l.n_fat
           /\ l.fmt = "FAT32" => Boot(l).RootClus = 2
           /\ Boot(l) \in BootRecords
<1>1. /\ l.fmt \in FatTypes /\ l.n_part \in Nat /\ 1937 <= l.n_part
      /\ l.csize \in Nat /\ 1 <= l.csize /\ l.csize <= 64
      /\ l.n_fat \in Nat /\ 1 <= l.n_fat /\ (l.fmt # "FAT32" => l.n_fat < 65536)
      /\ l.n_rsv \in Nat /\ l.n_rsv <= 33
      /\ l.n_dir \in Nat /\ l.n_dir <= 32
  BY RootSize, SMT DEF WellLaid, Reserved
<1>2. l.csize % 256 = l.csize
  BY <1>1, SMT
<1>3. ((SS \div 32) * l.n_dir) % 65536 = 16 * l.n_dir
  BY <1>1, SMT DEF SS
<1>4. l.fmt # "FAT32" => l.n_fat % 65536 = l.n_fat
  BY <1>1, SMT
<1>5. Boot(l) =
        [RsvdSecCnt |-> l.n_rsv, NumFATs |-> 2, SecPerClus |-> l.csize,
         RootEntCnt |-> 16 * l.n_dir,
         TotSec16 |-> IF l.n_part < 65536 THEN l.n_part ELSE 0,
         TotSec32 |-> IF l.n_part < 65536 THEN 0 ELSE l.n_part,
         FATSz16 |-> IF l.fmt = "FAT32" THEN 0 ELSE l.n_fat,
         FATSz32 |-> IF l.fmt = "FAT32" THEN l.n_fat ELSE 0,
         RootClus |-> IF l.fmt = "FAT32" THEN 2 ELSE LabelBytes]
  BY <1>1, <1>2, <1>3, <1>4, SMT DEF Boot, N_FATS
<1> QED BY <1>1, <1>5, SMT DEF BootRecords, Below, LabelBytes

LEMMA MountReadsBack ==
    ASSUME NEW size, NEW l, WellLaid(l, size), NEW m, m = Mounted(Boot(l))
    PROVE  /\ m.sects_fat = l.n_fat /\ m.csize = l.csize
           /\ m.fatbase = BPart + l.n_rsv
           /\ m.max_clust = l.n_clst + 2
           /\ m.database = BPart + Meta(l)
           /\ m.n_rootdir = 16 * l.n_dir
           /\ m.fs_type = MountedType(l.n_clst + 2)
<1>1. /\ l.n_part \in Nat /\ l.csize \in Nat /\ 1 <= l.csize
      /\ l.n_fat \in Nat /\ l.n_rsv \in Nat
      /\ l.n_dir \in Nat /\ l.n_clst \in Nat
      /\ l.n_clst = (l.n_part - Meta(l)) \div l.csize
  BY RootSize, SMT DEF WellLaid, Reserved
<1>2. PICK b : b = Boot(l)
  BY Zenon
<1>3. /\ b.RsvdSecCnt = l.n_rsv /\ b.NumFATs = 2 /\ b.SecPerClus = l.csize
      /\ b.RootEntCnt = 16 * l.n_dir
      /\ (IF b.TotSec16 # 0 THEN b.TotSec16 ELSE b.TotSec32) = l.n_part
      /\ (IF b.FATSz16 # 0 THEN b.FATSz16 ELSE b.FATSz32) = l.n_fat
  BY <1>2, BootFields, Zenon
<1>4. b.RootEntCnt \div (SS \div 32) = l.n_dir
  BY <1>1, <1>3, SMT DEF SS
<1>5. l.n_part - l.n_rsv - l.n_fat * 2 - l.n_dir = l.n_part - Meta(l)
  BY <1>1, SMT DEF Meta
<1>6. /\ m.sects_fat = l.n_fat /\ m.csize = l.csize /\ m.n_rootdir = 16 * l.n_dir
      /\ m.fatbase = BPart + l.n_rsv
      /\ m.max_clust = l.n_clst + 2
      /\ m.fs_type = MountedType(l.n_clst + 2)
      /\ m.database = BPart + l.n_rsv + l.n_fat * 2 + l.n_dir
  BY <1>1, <1>2, <1>3, <1>4, <1>5, Zenon DEF Mounted
<1>7. BPart + l.n_rsv + l.n_fat * 2 + l.n_dir = BPart + Meta(l)
  BY <1>1, SMT DEF Meta, BPart
<1> QED BY <1>6, <1>7, Zenon

(* With the automatic choice the type is the one chk_mounted derives,      *)
(* outside of the torn range.                                              *)
LEMMA AutoTypeAgrees ==
    ASSUME NEW size \in Sizes, NEW l, l = Layout(size, "auto"),
           l.n_part \notin FirstTorn .. LastTorn
    PROVE  MountedType(l.n_clst + 2) = l.fmt
<1>1. "auto" \in Wants
  BY DEF Wants
<1>2. PICK p, a, q, n, m, c \in Nat, f \in FatTypes : Computed(size, "auto", p, a, q, f, n, m, c)
  BY <1>1, LayoutParts, Zenon
<1>3. l.n_part = p /\ l.n_clst = c /\ l.fmt = f
  BY <1>2, SMT DEF Computed
<1>4. p < 4193600 \/ p >= 4194659
  <2>1. FirstTorn = 4193600 /\ LastTorn = 4194658
    BY SMT DEF FirstTorn, LastTorn, N_FATS
  <2>2. FirstTorn \in Int /\ LastTorn \in Int
    BY <2>1, SMT
  <2>3. p < FirstTorn \/ p > LastTorn
    BY <1>3, <2>2, SMT
  <2> QED BY <2>1, <2>3, SMT
<1>5. /\ a * q <= p /\ p < a * q + a /\ c <= q
      /\ 512 * n <= 4 * q + 519
      /\ p - m < a * c + a
      /\ 1 <= a /\ a <= 64
      /\ m = Reserved(f) + 2 * n + RootSectors(f)
      /\ f = (IF q >= 65525 THEN "FAT32" ELSE IF q >= 4085 THEN "FAT16" ELSE "FAT12")
  BY <1>2, SMT DEF Computed, ChosenType
<1>6. MountedType(c + 2) = (IF c >= 65525 THEN "FAT32" ELSE IF c >= 4085 THEN "FAT16" ELSE "FAT12")
  BY SMT DEF MountedType
<1>7. \/ p >= 2048000 /\ a = 64
      \/ 1024000 <= p /\ p < 2048000 /\ a = 32
      \/ 512000 <= p /\ p < 1024000 /\ a = 16
      \/ 256000 <= p /\ p < 512000 /\ a = 8
      \/ 128000 <= p /\ p < 256000 /\ a = 4
      \/ p <= 4000 * a
  BY <1>2, AllocSizeByRow, SMT DEF Computed
<1>8. CASE q >= 65525
  <2>1. p >= 4194659 /\ a = 64 /\ m = 33 + 2 * n
    BY <1>4, <1>5, <1>7, <1>8, SMT DEF Reserved, RootSectors
  <2>2. c >= 65525
    BY <1>5, <2>1, SMT
  <2> QED BY <1>3, <1>5, <1>6, <1>8, <2>2, SMT
<1>9. CASE 4085 <= q /\ q < 65525
  <2>1. m = 33 + 2 * n
    BY <1>5, <1>9, RootSize, SMT DEF Reserved
  <2>2. ~(p <= 4000 * a)
    BY <1>5, <1>9, SMT
  <2>3. c >= 4085
    BY <1>5, <1>7, <2>1, <2>2, SMT
  <2> QED BY <1>3, <1>5, <1>6, <1>9, <2>3, SMT
<1>10. CASE q < 4085
  BY <1>3, <1>5, <1>6, <1>10, SMT
<1> QED BY <1>8, <1>9, <1>10, SMT

-----------------------------------------------------------------------------
(* The inductive invariant.  The layout and the boot record of a state are *)
(* ones that f_mkfs computes for this image; while f_mkfs runs, and after  *)
(* it has succeeded, they belong together, and the areas written so far    *)
(* are those of the plan up to the place where it has come.                *)
LaidOut(l, size) == size \in Sizes /\ \E want \in Wants : l = Layout(size, want)

FatsAt(l) == BPart + l.n_rsv
RootAt(l) == FatsAt(l) + 2 * l.n_fat
RootLengthOf(l) == IF l.fmt = "FAT32" THEN l.csize ELSE l.n_dir

Fat1Of(l) == Area("fat1", FatsAt(l), FatsAt(l) + l.n_fat - 1)
Fat2Of(l) == Area("fat2", FatsAt(l) + l.n_fat, FatsAt(l) + 2 * l.n_fat - 1)
RootOf(l) == Area("root", RootAt(l), RootAt(l) + RootLengthOf(l) - 1)
MbrArea == Area("mbr", 0, 0)
BootArea == Area("boot", BPart, BPart)
BackupArea == Area("backup", BPart + 6, BPart + 6)

Plan(l) ==
    {MbrArea, BootArea, Fat1Of(l), Fat2Of(l), RootOf(l)}
        \cup (IF l.fmt = "FAT32" THEN {BackupArea, FsInfo, FsInfoCopy} ELSE {})

Running == pc \in {"mbr", "boot", "fat1", "fat2", "root", "fsinfo"}

StateTypes ==
    /\ pc \in {"idle", "mbr", "boot", "fat1", "fat2", "root", "fsinfo", "mounted"}
    /\ disk \in DiskSizes
    /\ b_fat \in Nat /\ fsi \in Int
    /\ res \in {"none", "OK", "MKFS_ABORTED", "DISK_ERR"}

RecordsComputed ==
    /\ lay = NoLayout \/ LaidOut(lay, disk)
    /\ Running \/ res = "OK" => LaidOut(lay, disk)
    /\ boot = NoBoot \/ \E l : LaidOut(l, disk) /\ boot = Boot(l)

RecordsMatch ==
    /\ pc \in {"fat1", "fat2", "root", "fsinfo"} \/ res = "OK" => boot = Boot(lay)
    /\ Running => res # "OK"
    /\ pc = "mounted" => boot # NoBoot /\ fs = Mounted(boot)
    /\ pc # "mounted" => fs = NotMounted

PointerFollows ==
    /\ pc \in {"mbr", "boot", "fat1"} => b_fat = FatsAt(lay)
    /\ pc = "fat2" => b_fat = FatsAt(lay) + lay.n_fat
    /\ pc = "root" => b_fat = RootAt(lay)
    /\ pc = "fsinfo" => lay.fmt = "FAT32"

AreasFollow ==
    /\ areas # {} => LaidOut(lay, disk) /\ areas \subseteq Plan(lay)
    /\ pc = "fat2" => Fat1Of(lay) \in areas
    /\ pc = "root" => {Fat1Of(lay), Fat2Of(lay)} \subseteq areas
    /\ pc = "fsinfo" \/ res = "OK" => {Fat1Of(lay), Fat2Of(lay), RootOf(lay)} \subseteq areas
    /\ FsInfo \in areas => res = "OK" /\ lay.fmt = "FAT32" /\ fsi = lay.n_clst - 1

Inv == StateTypes /\ RecordsComputed /\ RecordsMatch /\ PointerFollows /\ AreasFollow

LEMMA LaidOutWell ==
    ASSUME NEW l, NEW size, LaidOut(l, size)
    PROVE  WellLaid(l, size)
BY LayoutIsWell, Zenon DEF LaidOut

(* The types of the fields on which the steps of f_mkfs compute.           *)
LEMMA LaidOutTypes ==
    ASSUME NEW l, NEW size, LaidOut(l, size)
    PROVE  /\ l.fmt \in FatTypes /\ l.n_fat \in Nat /\ l.n_clst \in Nat /\ 1 <= l.n_clst
           /\ l.csize \in Nat /\ l.n_dir \in Nat /\ l.n_rsv \in Nat
           /\ FatsAt(l) \in Nat /\ RootAt(l) \in Nat /\ RootLengthOf(l) \in Nat
           /\ 1 <= l.n_fat /\ 1 <= RootLengthOf(l)
<1>1. WellLaid(l, size)
  BY LaidOutWell, Zenon
<1> QED BY <1>1, RootSize, SMT DEF WellLaid, Reserved, FatsAt, RootAt, RootLengthOf, BPart

LEMMA InitInv == Init => Inv
BY SMT DEF Init, Inv, StateTypes, RecordsComputed, RecordsMatch, PointerFollows, AreasFollow,
           Running, NoCount

(* Every step of f_mkfs and chk_mounted keeps the invariant.               *)
LEMMA NextInv == Inv /\ [Next]_vars => Inv'
<1> SUFFICES ASSUME Inv, [Next]_vars PROVE Inv'
  OBVIOUS
<1>1. ASSUME NEW want \in Requests, Begin(want) PROVE Inv'
  <2>1. want \in Wants
    BY RequestsAssumption, Zenon DEF Wants, FatTypes
  <2>0. disk \in Nat /\ MIN_SECTOR \in Nat
    BY DiskSizesAssumption, SMT DEF Inv, StateTypes, MIN_SECTOR
  <2>2. CASE disk < MIN_SECTOR
    <3>1. /\ areas' = {} /\ pc' = "idle" /\ res' = "MKFS_ABORTED" /\ fs' = NotMounted
          /\ UNCHANGED <<lay, b_fat, disk, boot, fsi>>
      BY <1>1, <2>0, <2>2, SMT DEF Begin
    <3> QED BY <3>1, SMT DEF Inv, StateTypes, RecordsComputed, RecordsMatch, PointerFollows,
               AreasFollow, Running, FsInfo
  <2>3. CASE disk >= MIN_SECTOR
    <3>1. disk \in Sizes
      BY <2>3, DiskSizesAssumption, SMT DEF Sizes, Inv, StateTypes
    <3>2. /\ lay' = Layout(disk, want) /\ b_fat' = FatsAt(lay')
          /\ pc' = "mbr" /\ res' = "none" /\ fs' = NotMounted /\ areas' = {}
          /\ UNCHANGED <<disk, boot, fsi>>
      BY <1>1, <2>0, <2>3, SMT DEF Begin, FatsAt
    <3>3. LaidOut(lay', disk')
      BY <2>1, <3>1, <3>2, Zenon DEF LaidOut
    <3>4. b_fat' \in Nat
      BY <3>2, <3>3, LaidOutTypes, Zenon
    <3> QED BY <3>2, <3>3, <3>4, SMT DEF Inv, StateTypes, RecordsComputed, RecordsMatch,
               PointerFollows, AreasFollow, Running, FsInfo
  <2> QED BY <2>2, <2>3, DiskSizesAssumption, SMT DEF Inv, StateTypes, MIN_SECTOR
<1>2. CASE WriteMbr
  <2>1. MbrArea \in Plan(lay) /\ MbrArea # FsInfo
    BY SMT DEF Plan, MbrArea, FsInfo, Area
  <2>2. areas' = areas \cup {MbrArea}
    BY <1>2, Zenon DEF WriteMbr, MbrArea
  <2> QED BY <1>2, <2>1, <2>2, SMT DEF WriteMbr, Inv, StateTypes, RecordsComputed, RecordsMatch,
             PointerFollows, AreasFollow, Running
<1>3. CASE WriteBoot
  <2>1. /\ BootArea \in Plan(lay) /\ BootArea # FsInfo /\ BackupArea # FsInfo
        /\ lay.fmt = "FAT32" => BackupArea \in Plan(lay)
    BY SMT DEF Plan, BootArea, BackupArea, FsInfo, Area
  <2>2. \/ areas' = areas \cup {BootArea}
        \/ lay.fmt = "FAT32" /\ areas' = areas \cup {BootArea, BackupArea}
    <3>1. PICK backup \in SUBSET (IF lay.fmt = "FAT32" THEN {BackupArea} ELSE {}) :
            areas' = areas \cup {BootArea} \cup backup
      BY <1>3, Zenon DEF WriteBoot, BootArea, BackupArea
    <3> QED BY <3>1, SMT
  <2> QED BY <1>3, <2>1, <2>2, SMT DEF WriteBoot, Inv, StateTypes, RecordsComputed, RecordsMatch,
             PointerFollows, AreasFollow, Running
<1>4. CASE WriteFat
  <2>1. LaidOut(lay, disk)
    BY <1>4, SMT DEF WriteFat, Inv, RecordsComputed, Running
  <2>2. /\ lay.n_fat \in Nat /\ FatsAt(lay) \in Nat /\ b_fat \in Nat
    BY <2>1, LaidOutTypes, Zenon DEF Inv, StateTypes
  <2>3. Fat1Of(lay) \in Plan(lay) /\ Fat2Of(lay) \in Plan(lay)
    BY Zenon DEF Plan
  <2>4. Fat1Of(lay) # FsInfo /\ Fat2Of(lay) # FsInfo
    BY SMT DEF Fat1Of, Fat2Of, FsInfo, Area
  <2>5. CASE pc = "fat1"
    <3>1. areas' = areas \cup {Fat1Of(lay)}
      BY <1>4, <2>5, SMT DEF WriteFat, Fat1Of, Inv, PointerFollows
    <3> QED BY <1>4, <2>1, <2>2, <2>3, <2>4, <2>5, <3>1, SMT DEF WriteFat, Inv, StateTypes,
               RecordsComputed, RecordsMatch, PointerFollows, AreasFollow, Running
  <2>6. CASE pc = "fat2"
    <3>1. areas' = areas \cup {Fat2Of(lay)}
      BY <1>4, <2>2, <2>6, SMT DEF WriteFat, Fat2Of, Inv, PointerFollows
    <3> QED BY <1>4, <2>1, <2>2, <2>3, <2>4, <2>6, <3>1, SMT DEF WriteFat, RootAt, Inv,
               StateTypes, RecordsComputed, RecordsMatch, PointerFollows, AreasFollow, Running
  <2> QED BY <1>4, <2>5, <2>6, Zenon DEF WriteFat
<1>5. CASE WriteRoot
  <2>1. LaidOut(lay, disk)
    BY <1>5, SMT DEF WriteRoot, Inv, RecordsComputed, Running
  <2>2. RootLengthOf(lay) \in Nat /\ b_fat \in Nat
    BY <2>1, LaidOutTypes, Zenon DEF Inv, StateTypes
  <2>3. RootOf(lay) \in Plan(lay) /\ RootOf(lay) # FsInfo
    BY SMT DEF Plan, RootOf, FsInfo, Area
  <2>4. areas' = areas \cup {RootOf(lay)} /\ b_fat' = b_fat + RootLengthOf(lay)
    BY <1>5, SMT DEF WriteRoot, RootOf, RootLength, RootLengthOf, Inv, PointerFollows
  <2> QED BY <1>5, <2>1, <2>2, <2>3, <2>4, SMT DEF WriteRoot, Inv, StateTypes, RecordsComputed,
             RecordsMatch, PointerFollows, AreasFollow, Running
<1>6. CASE WriteFsInfo
  <2>1. LaidOut(lay, disk) /\ lay.fmt = "FAT32"
    BY <1>6, SMT DEF WriteFsInfo, Inv, RecordsComputed, PointerFollows, Running
  <2>2. lay.n_clst \in Nat
    BY <2>1, LaidOutTypes, Zenon
  <2>3. FsInfo \in Plan(lay) /\ FsInfoCopy \in Plan(lay) /\ FsInfo \notin areas
    BY <1>6, <2>1, SMT DEF Plan, WriteFsInfo, Inv, RecordsMatch, AreasFollow, Running
  <2>4. PICK written \in SUBSET {FsInfo, FsInfoCopy} :
          /\ areas' = areas \cup written
          /\ fsi' = IF FsInfo \in written THEN FreeCount ELSE fsi
    BY <1>6, Zenon DEF WriteFsInfo
  <2> QED BY <1>6, <2>1, <2>2, <2>3, <2>4, SMT DEF WriteFsInfo, FreeCount, Inv, StateTypes,
             RecordsComputed, RecordsMatch, PointerFollows, AreasFollow, Running
<1>7. CASE Fail
  BY <1>7, SMT DEF Fail, Inv, StateTypes, RecordsComputed, RecordsMatch, PointerFollows,
     AreasFollow, Running, FsInfo
<1>8. CASE Mount
  BY <1>8, SMT DEF Mount, Inv, StateTypes, RecordsComputed, RecordsMatch, PointerFollows,
     AreasFollow, Running, FsInfo
<1>9. CASE UNCHANGED vars
  BY <1>9, SMT DEF vars, Inv, StateTypes, RecordsComputed, RecordsMatch, PointerFollows,
     AreasFollow, Running, FsInfo
<1> QED BY <1>1, <1>2, <1>3, <1>4, <1>5, <1>6, <1>7, <1>8, <1>9, Zenon DEF Next

(* The records, the write pointer and the areas of every reachable state   *)
(* are those of a layout of this image.                                    *)
THEOREM Invariance == Spec => []Inv
BY InitInv, NextInv, PTL DEF Spec

(* Consequences of the invariant, state by state.                          *)
LEMMA TypeFollows == Inv => TypeOK
<1> SUFFICES ASSUME Inv PROVE TypeOK
  OBVIOUS
<1>1. \A l : LaidOut(l, disk) => Boot(l) \in BootRecords
  BY LaidOutWell, BootFields, Zenon
<1>2. ASSUME NEW l, LaidOut(l, disk) PROVE l \in Layouts
  <2>1. WellLaid(l, disk)
    BY <1>2, LaidOutWell, Zenon
  <2>2. PICK want \in Wants : l = Layout(disk, want)
    BY <1>2, Zenon DEF LaidOut
  <2>3. l = [fmt |-> l.fmt, n_part |-> l.n_part, csize |-> l.csize, n_rsv |-> l.n_rsv,
             n_fat |-> l.n_fat, n_dir |-> l.n_dir, n_clst |-> l.n_clst]
    BY <2>2, Zenon DEF Layout
  <2>4. /\ l.fmt \in FatTypes /\ l.n_part \in Nat /\ l.csize \in 1 .. 64
        /\ l.n_rsv \in {1, 33} /\ l.n_fat \in Nat /\ l.n_dir \in {0, 32} /\ l.n_clst \in Nat
    BY <2>1, RootSize, SMT DEF WellLaid, Reserved
  <2> QED BY <2>3, <2>4, Zenon DEF Layouts
<1>3. /\ lay = NoLayout \/ lay \in Layouts
      /\ boot = NoBoot \/ boot \in BootRecords
      /\ Running => lay \in Layouts
  BY <1>1, <1>2, Zenon DEF Inv, RecordsComputed
<1>4. pc \in {"idle", "mounted"} \/ lay \in Layouts
  BY <1>3, SMT DEF Inv, StateTypes, Running
<1>5. fs = NotMounted \/ fs = Mounted(boot)
  BY Zenon DEF Inv, RecordsMatch
<1> QED BY <1>3, <1>4, <1>5, Zenon DEF TypeOK, Inv, StateTypes

LEMMA PlanIsApart ==
    ASSUME NEW l, NEW size \in Nat, WellLaid(l, size), NEW a \in Plan(l), NEW b \in Plan(l), a # b
    PROVE  /\ 0 <= a.from /\ a.from <= a.to /\ a.to < size
           /\ a.to < b.from \/ b.to < a.from
<1> DEFINE n == l.n_fat
           r == FatsAt(l)
           x == RootAt(l)
           k == RootLengthOf(l)
<1>1. /\ n \in Nat /\ r \in Nat /\ x \in Nat /\ k \in Nat
      /\ 1 <= n /\ 1 <= k /\ x = r + 2 * n /\ 64 <= r /\ (l.fmt = "FAT32" => r = 96)
  BY RootSize, SMT DEF WellLaid, FatsAt, RootAt, RootLengthOf, Reserved, BPart
<1>2. x + k <= size
  <2>1. x = BPart + Meta(l) - l.n_dir
    BY RootSize, SMT DEF WellLaid, FatsAt, RootAt, Reserved, Meta, BPart
  <2>2. Meta(l) \in Nat /\ Meta(l) + l.csize <= l.n_part
    BY RootSize, SMT DEF WellLaid, Meta, Reserved
  <2> QED BY <2>1, <2>2, RootSize, SMT DEF WellLaid, RootLengthOf, BPart
<1>3. ASSUME NEW e \in Plan(l)
      PROVE  \/ e \in {MbrArea, BootArea, Fat1Of(l), Fat2Of(l), RootOf(l)}
             \/ l.fmt = "FAT32" /\ e \in {BackupArea, FsInfo, FsInfoCopy}
  BY <1>3, Zenon DEF Plan
<1>4. /\ MbrArea.what = "mbr" /\ MbrArea.from = 0 /\ MbrArea.to = 0
      /\ BootArea.what = "boot" /\ BootArea.from = 63 /\ BootArea.to = 63
      /\ FsInfo.what = "fsinfo" /\ FsInfo.from = 64 /\ FsInfo.to = 64
      /\ BackupArea.what = "backup" /\ BackupArea.from = 69 /\ BackupArea.to = 69
      /\ FsInfoCopy.what = "fsinfo2" /\ FsInfoCopy.from = 70 /\ FsInfoCopy.to = 70
  BY SMT DEF MbrArea, BootArea, BackupArea, FsInfo, FsInfoCopy, Area, BPart
<1>5. /\ Fat1Of(l).what = "fat1" /\ Fat1Of(l).from = r /\ Fat1Of(l).to = r + n - 1
      /\ Fat2Of(l).what = "fat2" /\ Fat2Of(l).from = r + n /\ Fat2Of(l).to = r + 2 * n - 1
      /\ RootOf(l).what = "root" /\ RootOf(l).from = x /\ RootOf(l).to = x + k - 1
  BY Zenon DEF Fat1Of, Fat2Of, RootOf, Area
<1>6. a.what # b.what
  BY <1>3, <1>4, <1>5, SMT
<1>7. ASSUME NEW e \in Plan(l)
      PROVE  \/ e.what = "mbr" /\ e.from = 0 /\ e.to = 0
             \/ e.what = "boot" /\ e.from = 63 /\ e.to = 63
             \/ e.what = "fat1" /\ e.from = r /\ e.to = r + n - 1
             \/ e.what = "fat2" /\ e.from = r + n /\ e.to = r + 2 * n - 1
             \/ e.what = "root" /\ e.from = x /\ e.to = x + k - 1
             \/ r = 96 /\ e.what = "fsinfo" /\ e.from = 64 /\ e.to = 64
             \/ r = 96 /\ e.what = "backup" /\ e.from = 69 /\ e.to = 69
             \/ r = 96 /\ e.what = "fsinfo2" /\ e.from = 70 /\ e.to = 70
  BY <1>1, <1>3, <1>4, <1>5, <1>7, SMT
<1> HIDE DEF n, r, x, k
<1> QED BY <1>1, <1>2, <1>6, <1>7, SMT

LEMMA ApartFollows == Inv => WritesApart
<1> SUFFICES ASSUME Inv PROVE WritesApart
  OBVIOUS
<1>1. ASSUME NEW a \in areas PROVE a \in Plan(lay) /\ WellLaid(lay, disk) /\ disk \in Nat
  BY <1>1, LaidOutWell, DiskSizesAssumption, Zenon DEF Inv, AreasFollow, StateTypes
<1>2. ASSUME NEW a \in areas PROVE 0 <= a.from /\ a.from <= a.to /\ a.to < disk
  <2>1. MbrArea \in Plan(lay) /\ BootArea \in Plan(lay)
    BY Zenon DEF Plan
  <2>2. MbrArea # BootArea
    BY SMT DEF MbrArea, BootArea, Area
  <2>3. PICK b \in Plan(lay) : a # b
    BY <2>1, <2>2, Zenon
  <2> QED BY <1>1, <1>2, <2>3, PlanIsApart, Zenon
<1>3. ASSUME NEW a \in areas, NEW b \in areas, a # b
      PROVE  a.to < b.from \/ b.to < a.from
  BY <1>1, <1>3, PlanIsApart, Zenon
<1> QED BY <1>2, <1>3, Zenon DEF WritesApart

(* A fresh volume is the one of lay.                                       *)
LEMMA FreshVolume ==
    ASSUME Inv, Fresh
    PROVE  LaidOut(lay, disk) /\ WellLaid(lay, disk) /\ fs = Mounted(Boot(lay))
BY LaidOutWell, Zenon DEF Fresh, Inv, RecordsComputed, RecordsMatch

LEMMA InsideFollows == Inv => DataInside
<1> SUFFICES ASSUME Inv, pc = "mounted"
             PROVE  fs.max_clust > 2 /\ fs.database + (fs.max_clust - 2) * fs.csize <= disk
  BY Zenon DEF DataInside
<1>1. PICK l : LaidOut(l, disk) /\ fs = Mounted(Boot(l))
  BY Zenon DEF Inv, RecordsComputed, RecordsMatch
<1>2. WellLaid(l, disk)
  BY <1>1, LaidOutWell, Zenon
<1>3. fs.max_clust = l.n_clst + 2 /\ fs.database = BPart + Meta(l) /\ fs.csize = l.csize
  BY <1>1, <1>2, MountReadsBack, Zenon
<1>4. Meta(l) \in Nat
  BY <1>2, RootSize, SMT DEF WellLaid, Meta, Reserved
<1>5. disk \in Nat
  BY DiskSizesAssumption, SMT DEF Inv, StateTypes
<1>6. PICK c, k \in Nat : c = l.n_clst /\ k = l.csize
  BY <1>2, SMT DEF WellLaid
<1>7. (c + 2 - 2) * k = k * c
  BY <1>6, SMT
<1> QED BY <1>2, <1>3, <1>4, <1>5, <1>6, <1>7, SMT DEF WellLaid, BPart

LEMMA FatsFollow == Inv => FatCoversClusters
<1> SUFFICES ASSUME Inv, Fresh, TypesAgree
             PROVE  fs.max_clust * EntryBits[fs.fs_type] <= fs.sects_fat * SS * 8
  BY Zenon DEF FatCoversClusters
<1>1. WellLaid(lay, disk) /\ fs = Mounted(Boot(lay))
  BY FreshVolume, Zenon
<1>2. fs.max_clust = lay.n_clst + 2 /\ fs.sects_fat = lay.n_fat /\ fs.fs_type = lay.fmt
  BY <1>1, MountReadsBack, Zenon DEF TypesAgree
<1>3. lay.n_fat * 4096 = lay.n_fat * SS * 8
  BY <1>1, SMT DEF WellLaid, SS
<1>4. (lay.n_clst + 2) * EntryBits[lay.fmt] <= lay.n_fat * 4096
  BY <1>1, SMT DEF WellLaid
<1> QED BY <1>2, <1>3, <1>4, SMT

LEMMA FsInfoFollows == Inv => FsInfoExact
<1> SUFFICES ASSUME Inv, Fresh, FsInfo \in areas PROVE fsi = fs.max_clust - 3
  BY Zenon DEF FsInfoExact
<1>1. WellLaid(lay, disk) /\ fs = Mounted(Boot(lay))
  BY FreshVolume, Zenon
<1>2. fs.max_clust = lay.n_clst + 2 /\ fsi = lay.n_clst - 1
  BY <1>1, MountReadsBack, Zenon DEF Inv, AreasFollow
<1>3. lay.n_clst \in Nat
  BY <1>1, SMT DEF WellLaid
<1> QED BY <1>2, <1>3, SMT

LEMMA AgreeFollows == Inv => MountedAsFormattedElsewhere
<1> SUFFICES ASSUME Inv, Fresh, lay = Layout(disk, "auto"), lay.n_part \notin FirstTorn .. LastTorn
             PROVE  TypesAgree
  BY Zenon DEF MountedAsFormattedElsewhere
<1>1. WellLaid(lay, disk) /\ fs = Mounted(Boot(lay)) /\ disk \in Sizes
  BY FreshVolume, Zenon DEF LaidOut
<1>2. fs.fs_type = MountedType(lay.n_clst + 2)
  BY <1>1, MountReadsBack, Zenon
<1> QED BY <1>1, <1>2, AutoTypeAgrees, Zenon DEF TypesAgree

LEMMA AreasFound == Inv => MountFindsAreas
<1> SUFFICES ASSUME Inv, Fresh, TypesAgree
             PROVE  /\ Area("fat1", fs.fatbase, fs.fatbase + fs.sects_fat - 1) \in areas
                    /\ Area("fat2", fs.fatbase + fs.sects_fat, fs.fatbase + 2 * fs.sects_fat - 1) \in areas
                    /\ RootArea \in areas
                    /\ fs.n_rootdir * 32 = lay.n_dir * SS
                    /\ \A a \in areas : a.what # "root" => a.to < fs.database
  BY Zenon DEF MountFindsAreas
<1>1. WellLaid(lay, disk) /\ fs = Mounted(Boot(lay)) /\ fs.fs_type = lay.fmt
  BY FreshVolume, Zenon DEF TypesAgree
<1>2. /\ fs.sects_fat = lay.n_fat /\ fs.csize = lay.csize /\ fs.fatbase = FatsAt(lay)
      /\ fs.database = BPart + Meta(lay) /\ fs.n_rootdir = 16 * lay.n_dir
  BY <1>1, MountReadsBack, Zenon DEF FatsAt
<1>3. Fat1Of(lay) \in areas /\ Fat2Of(lay) \in areas /\ RootOf(lay) \in areas /\ areas \subseteq Plan(lay)
  BY SMT DEF Inv, AreasFollow, Fresh
<1>4. /\ lay.n_fat \in Nat /\ lay.n_rsv \in Nat /\ lay.csize \in Nat /\ 1 <= lay.n_fat
      /\ lay.fmt \in FatTypes /\ lay.n_dir = (IF lay.fmt = "FAT32" THEN 0 ELSE 32)
      /\ lay.n_rsv = (IF lay.fmt = "FAT32" THEN 33 ELSE 1)
  BY <1>1, RootSize, SMT DEF WellLaid, Reserved
<1>5. fs.n_rootdir * 32 = lay.n_dir * SS
  BY <1>2, <1>4, SMT DEF SS
<1>6. RootArea = RootOf(lay)
  <2>1. CASE lay.fmt = "FAT32"
    <3>1. fs.dirbase = 2
      <4>1. Boot(lay).RootClus = 2
        BY <1>1, <2>1, BootFields, Zenon
      <4>2. fs.dirbase = IF fs.fs_type = "FAT32" THEN Boot(lay).RootClus ELSE fs.dirbase
        BY <1>1, <2>1, Zenon DEF Mounted
      <4> QED BY <1>1, <2>1, <4>1, <4>2, Zenon
    <3>2. /\ fs.database + (fs.dirbase - 2) * fs.csize = RootAt(lay)
          /\ fs.database + (fs.dirbase - 1) * fs.csize - 1 = RootAt(lay) + RootLengthOf(lay) - 1
      BY <1>2, <1>4, <2>1, <3>1, SMT DEF RootAt, FatsAt, RootLengthOf, Meta, BPart
    <3> QED BY <1>1, <2>1, <3>2, Zenon DEF RootArea, RootOf
  <2>2. CASE lay.fmt # "FAT32"
    <3>1. fs.dirbase = BPart + lay.n_rsv + lay.n_fat * 2
      <4>1. /\ Boot(lay).RsvdSecCnt = lay.n_rsv /\ Boot(lay).NumFATs = 2
            /\ (IF Boot(lay).FATSz16 # 0 THEN Boot(lay).FATSz16 ELSE Boot(lay).FATSz32) = lay.n_fat
        BY <1>1, BootFields, Zenon
      <4>2. fs.fs_type # "FAT32"
        BY <1>1, <2>2, Zenon
      <4> QED BY <1>1, <4>1, <4>2, Zenon DEF Mounted
    <3>2. fs.dirbase = RootAt(lay) /\ fs.database - 1 = RootAt(lay) + RootLengthOf(lay) - 1
      BY <1>2, <1>4, <2>2, <3>1, SMT DEF RootAt, FatsAt, RootLengthOf, Meta, BPart
    <3> QED BY <1>1, <2>2, <3>2, Zenon DEF RootArea, RootOf
  <2> QED BY <2>1, <2>2, Zenon
<1>7. ASSUME NEW a \in areas, a.what # "root" PROVE a.to < fs.database
  <2>1. \/ a \in {MbrArea, BootArea, Fat1Of(lay), Fat2Of(lay), RootOf(lay)}
        \/ lay.fmt = "FAT32" /\ a \in {BackupArea, FsInfo, FsInfoCopy}
    BY <1>3, <1>7, Zenon DEF Plan
  <2>2. /\ MbrArea.to = 0 /\ BootArea.to = 63 /\ FsInfo.to = 64 /\ BackupArea.to = 69
        /\ FsInfoCopy.to = 70
    BY SMT DEF MbrArea, BootArea, BackupArea, FsInfo, FsInfoCopy, Area, BPart
  <2>3. /\ Fat1Of(lay).to = FatsAt(lay) + lay.n_fat - 1
        /\ Fat2Of(lay).to = FatsAt(lay) + 2 * lay.n_fat - 1
        /\ RootOf(lay).what = "root"
    BY Zenon DEF Fat1Of, Fat2Of, RootOf, Area
  <2>4. FatsAt(lay) + 2 * lay.n_fat - 1 < fs.database /\ FatsAt(lay) + lay.n_fat - 1 < fs.database
        /\ 63 < fs.database /\ (lay.fmt = "FAT32" => 70 < fs.database)
    BY <1>2, <1>4, SMT DEF FatsAt, Meta, BPart
  <2>5. a.to \in Int /\ fs.database \in Int
    BY <1>2, <1>4, <2>1, <2>2, <2>3, <1>7, SMT DEF FatsAt, Meta, BPart
  <2> QED BY <1>7, <2>1, <2>2, <2>3, <2>4, <2>5, SMT
<1> QED BY <1>2, <1>3, <1>5, <1>6, <1>7, Zenon DEF Fat1Of, Fat2Of

-----------------------------------------------------------------------------
(* Type correctness of f_mkfs: the layout is made of natural numbers and   *)
(* every field of the boot record fits its bytes, for every size of image. *)
THEOREM TypeCorrect == Spec => []TypeOK
BY Invariance, TypeFollows, PTL

(* f_mkfs writes every area once, inside the image, for every size of      *)
(* image and every requested type.                                         *)
THEOREM NothingOverwritten == Spec => []WritesApart
BY Invariance, ApartFollows, PTL

(* chk_mounted finds the FATs and the root directory where f_mkfs put them.*)
THEOREM AreasAreFound == Spec => []MountFindsAreas
BY Invariance, AreasFound, PTL

(* All clusters that chk_mounted counts lie inside the image.              *)
THEOREM ClustersAreInside == Spec => []DataInside
BY Invariance, InsideFollows, PTL

(* Every cluster has its entry in the FAT.                                 *)
THEOREM FatIsLargeEnough == Spec => []FatCoversClusters
BY Invariance, FatsFollow, PTL

(* FSINFO's free count is exact on a fresh volume.                         *)
THEOREM FreeCountExact == Spec => []FsInfoExact
BY Invariance, FsInfoFollows, PTL

(* The torn range FirstTorn .. LastTorn is the only one: the automatic     *)
(* choice of the type is right for every other size of partition.          *)
THEOREM OneTornRange == Spec => []MountedAsFormattedElsewhere
BY Invariance, AgreeFollows, PTL
=============================================================================
