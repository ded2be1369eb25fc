------------------------------- MODULE MCMkfs -------------------------------
(* Instances of Mkfs for TLC: image sizes on both sides of every boundary  *)
(* of f_mkfs and chk_mounted.                                              *)
EXTENDS Mkfs

Around(n) == (n - 2) .. (n + 2)

(* The rows of sstbl, as sizes of the image.                               *)
RowSizes == UNION {Around(sstbl[i] + BPart) : i \in 1 .. 10}

(* The limits of f_mkfs and the width of BPB_TotSec16.                     *)
LimitSizes == Around(MIN_SECTOR) \cup Around(MAX_SECTOR) \cup Around(65536 + BPart) \cup {64, 1000}

(* Where the number of clusters passes from FAT16 to FAT32.                *)
TornSizes == Around(FirstTorn + BPart) \cup Around(LastTorn + BPart) \cup {4194304}

AllSizes == RowSizes \cup LimitSizes \cup TornSizes
=============================================================================
