-------------------------------- MODULE Mkfs --------------------------------
(***************************************************************************)
(* Formatting and mounting: f_mkfs lays a partition with one FAT volume    *)
(* over the whole image, for the commands create, format and rebuild, and  *)
(* chk_mounted reads the layout back from the boot record.  Sizes are in   *)
(* sectors of 512 bytes.  A boot record is the record of the fields that   *)
(* chk_mounted reads; the areas that f_mkfs writes are intervals.          *)
(***************************************************************************)
EXTENDS Integers, Sequences

CONSTANTS
    DiskSizes,   \* sector counts of the images
    Requests     \* the formats asked for: subset of {"auto", "FAT12", "FAT16", "FAT32"}

ASSUME DiskSizesAssumption == DiskSizes \subseteq Nat
ASSUME RequestsAssumption == Requests \subseteq {"auto", "FAT12", "FAT16", "FAT32"}

SS == 512
N_ROOTDIR == 512
N_FATS == 2
MAX_SECTOR == 131072000
MIN_SECTOR == 2000
BPart == 63             \* b_part: partitioning rule 0 (FDISK) is the only one used

(* Sectors per cluster by the size of the partition: allocsize of sstbl    *)
(* and cstbl, row by row.                                                  *)
sstbl == <<2048000, 1024000, 512000, 256000, 128000, 64000, 32000, 16000, 8000, 4000, 0>>
cstbl == <<32768, 16384, 8192, 4096, 2048, 16384, 8192, 4096, 2048, 1024, 512>>

Row(d) == CHOOSE i \in 1 .. 11 : d >= sstbl[i] /\ \A j \in 1 .. (i - 1) : d < sstbl[j]

AllocSize(d) == cstbl[Row(d)] \div SS

(* The FAT type, automatic from the first estimate of the cluster count.   *)
ChosenTypeSwapped(want, clusters) ==
    IF want # "auto" THEN want
    ELSE IF clusters >= 4085 THEN "FAT16" ELSE "FAT12"

ChosenType(want, clusters) ==
    IF want # "auto" THEN want
    ELSE IF clusters >= 65525 THEN "FAT32"
    ELSE IF clusters >= 4085 THEN "FAT16" ELSE "FAT12"

FatBytes(fmt, clusters) ==
    CASE fmt = "FAT12" -> (clusters * 3 + 1) \div 2 + 3
      [] fmt = "FAT16" -> clusters * 2 + 4
      [] OTHER         -> clusters * 4 + 8

FatSectorsFloor(fmt, clusters) == FatBytes(fmt, clusters) \div SS

FatSectors(fmt, clusters) == (FatBytes(fmt, clusters) + SS - 1) \div SS

Reserved(fmt) == IF fmt = "FAT32" THEN 33 ELSE 1
RootSectors(fmt) == IF fmt = "FAT32" THEN 0 ELSE (N_ROOTDIR * 32) \div SS

WholeDisk(size) == IF size > MAX_SECTOR THEN MAX_SECTOR ELSE size

PartSectors(size) == WholeDisk(size) - BPart

(* What f_mkfs works out before it writes anything.                        *)
Layout(size, want) ==
    LET part  == PartSectors(size)
        csize == AllocSize(part)
        fmt   == ChosenType(want, part \div csize)
        nfat  == FatSectors(fmt, part \div csize)
    IN [fmt    |-> fmt,
        n_part |-> part,
        csize  |-> csize,
        n_rsv  |-> Reserved(fmt),
        n_fat  |-> nfat,
        n_dir  |-> RootSectors(fmt),
        n_clst |-> (part - Reserved(fmt) - nfat * N_FATS - RootSectors(fmt)) \div csize]

NoLayout == [fmt |-> "none"]

(* The boot record of layout l.  On FAT12/16 the place of BPB_RootClus     *)
(* holds bytes of the volume label.                                        *)
LabelBytes == -1

Boot(l) ==
    [RsvdSecCnt |-> l.n_rsv,
     NumFATs    |-> N_FATS,
     SecPerClus |-> l.csize % 256,
     RootEntCnt |-> ((SS \div 32) * l.n_dir) % 65536,
     TotSec16   |-> IF l.n_part < 65536 THEN l.n_part ELSE 0,
     TotSec32   |-> IF l.n_part < 65536 THEN 0 ELSE l.n_part,
     FATSz16    |-> IF l.fmt = "FAT32" THEN 0 ELSE l.n_fat % 65536,
     FATSz32    |-> IF l.fmt = "FAT32" THEN l.n_fat ELSE 0,
     RootClus   |-> IF l.fmt = "FAT32" THEN 2 ELSE LabelBytes]

NoBoot == [NumFATs |-> 0]

(* chk_mounted: the file system object that boot record b gives.           *)
MountedType(max_clust) ==
    IF max_clust >= 65527 THEN "FAT32"
    ELSE IF max_clust >= 4087 THEN "FAT16" ELSE "FAT12"

Mounted(b) ==
    LET fsize == IF b.FATSz16 # 0 THEN b.FATSz16 ELSE b.FATSz32
        tsect == IF b.TotSec16 # 0 THEN b.TotSec16 ELSE b.TotSec32
        rdir  == b.RootEntCnt \div (SS \div 32)
        fatb  == BPart + b.RsvdSecCnt
        mclst == (tsect - b.RsvdSecCnt - fsize * b.NumFATs - rdir) \div b.SecPerClus + 2
    IN [fs_type   |-> MountedType(mclst),
        sects_fat |-> fsize,
        fatbase   |-> fatb,
        csize     |-> b.SecPerClus,
        n_rootdir |-> b.RootEntCnt,
        max_clust |-> mclst,
        dirbase   |-> IF MountedType(mclst) = "FAT32" THEN b.RootClus ELSE fatb + fsize * b.NumFATs,
        database  |-> fatb + fsize * b.NumFATs + rdir]

NotMounted == [fs_type |-> "none"]

-----------------------------------------------------------------------------
VARIABLES
    pc,       \* the area f_mkfs writes next; "idle" between commands; "mounted"
    disk,     \* sectors of the image
    lay,      \* the layout f_mkfs works with
    b_fat,    \* its write pointer
    res,      \* FRESULT of the last f_mkfs, "none" while it runs
    boot,     \* boot record in the image
    areas,    \* areas of the image written by the last f_mkfs: Area(what, from, to)
    fsi,      \* FSI_Free_Count in the image, NoCount when there is no FSINFO
    fs        \* the mounted file system object

vars == <<pc, disk, lay, b_fat, res, boot, areas, fsi, fs>>

NoCount == -1

Area(what, from, to) == [what |-> what, from |-> from, to |-> to]

Init ==
    /\ pc = "idle" /\ disk \in DiskSizes
    /\ lay = NoLayout /\ b_fat = 0 /\ res = "none"
    /\ boot = NoBoot /\ areas = {} /\ fsi = NoCount
    /\ fs = NotMounted

(* f_mkfs begins, on a fresh image or on one that holds a volume.          *)
BeginUnchecked(want) ==
    /\ pc \in {"idle", "mounted"}
    /\ fs' = NotMounted /\ areas' = {} /\ res' = "none"
    /\ lay' = Layout(disk, want)
    /\ b_fat' = BPart + lay'.n_rsv
    /\ pc' = "mbr"
    /\ UNCHANGED <<disk, boot, fsi>>

Begin(want) ==
    /\ pc \in {"idle", "mounted"}
    /\ fs' = NotMounted /\ areas' = {}
    /\ \/ /\ disk < MIN_SECTOR
          /\ pc' = "idle" /\ res' = "MKFS_ABORTED" /\ UNCHANGED <<lay, b_fat>>
       \/ /\ disk >= MIN_SECTOR
          /\ lay' = Layout(disk, want)
          /\ b_fat' = BPart + lay'.n_rsv
          /\ pc' = "mbr" /\ res' = "none"
    /\ UNCHANGED <<disk, boot, fsi>>

(* A write that f_mkfs checks fails, or the program is stopped.            *)
Fail ==
    /\ pc \in {"mbr", "boot", "fat1", "fat2", "root", "fsinfo"}
    /\ pc' = "idle" /\ res' = "DISK_ERR"
    /\ UNCHANGED <<disk, lay, b_fat, boot, areas, fsi, fs>>

WriteMbr ==
    /\ pc = "mbr" /\ pc' = "boot"
    /\ areas' = areas \cup {Area("mbr", 0, 0)}
    /\ UNCHANGED <<disk, lay, b_fat, res, boot, fsi, fs>>

(* The boot record; nobody looks whether its backup could be written.      *)
WriteBoot ==
    /\ pc = "boot" /\ pc' = "fat1"
    /\ boot' = Boot(lay)
    /\ \E backup \in SUBSET (IF lay.fmt = "FAT32" THEN {Area("backup", BPart + 6, BPart + 6)} ELSE {}) :
           areas' = areas \cup {Area("boot", BPart, BPart)} \cup backup
    /\ UNCHANGED <<disk, lay, b_fat, res, fsi, fs>>

(* One copy of the FAT: its first sector, then the others.                 *)
WriteFatOnce ==
    /\ pc = "fat1" /\ pc' = "root"
    /\ areas' = areas \cup {Area(pc, b_fat, b_fat + lay.n_fat - 1)}
    /\ b_fat' = b_fat + lay.n_fat
    /\ UNCHANGED <<disk, lay, res, boot, fsi, fs>>

WriteFat ==
    /\ pc \in {"fat1", "fat2"}
    /\ pc' = IF pc = "fat1" THEN "fat2" ELSE "root"
    /\ areas' = areas \cup {Area(pc, b_fat, b_fat + lay.n_fat - 1)}
    /\ b_fat' = b_fat + lay.n_fat
    /\ UNCHANGED <<disk, lay, res, boot, fsi, fs>>

RootLengthStatic == lay.n_dir

RootLength == IF lay.fmt = "FAT32" THEN lay.csize ELSE lay.n_dir

WriteRoot ==
    /\ pc = "root"
    /\ \/ lay.fmt = "FAT32" /\ pc' = "fsinfo" /\ UNCHANGED res
       \/ lay.fmt # "FAT32" /\ pc' = "idle" /\ res' = "OK"
    /\ areas' = areas \cup {Area("root", b_fat, b_fat + RootLength - 1)}
    /\ b_fat' = b_fat + RootLength
    /\ UNCHANGED <<disk, lay, boot, fsi, fs>>

FreeCountOfAll == lay.n_clst

FreeCount == lay.n_clst - 1

(* FSINFO and its copy: f_mkfs does not look whether they could be written.*)
FsInfo == Area("fsinfo", BPart + 1, BPart + 1)
FsInfoCopy == Area("fsinfo2", BPart + 7, BPart + 7)

WriteFsInfo ==
    /\ pc = "fsinfo" /\ pc' = "idle" /\ res' = "OK"
    /\ \E written \in SUBSET {FsInfo, FsInfoCopy} :
           /\ areas' = areas \cup written
           /\ fsi' = IF FsInfo \in written THEN FreeCount ELSE fsi
    /\ UNCHANGED <<disk, lay, b_fat, boot, fs>>

(* A later command mounts whatever volume the image holds.                 *)
Mount ==
    /\ pc = "idle" /\ boot # NoBoot
    /\ pc' = "mounted"
    /\ fs' = Mounted(boot)
    /\ UNCHANGED <<disk, lay, b_fat, res, boot, areas, fsi>>

Next ==
    \/ \E want \in Requests : Begin(want)
    \/ WriteMbr \/ WriteBoot \/ WriteFat \/ WriteRoot \/ WriteFsInfo \/ Fail
    \/ Mount

Spec == Init /\ [][Next]_vars

-----------------------------------------------------------------------------
FatTypes == {"FAT12", "FAT16", "FAT32"}

Below(n) == {x \in Nat : x < n}

Layouts ==
    [fmt : FatTypes, n_part : Nat, csize : 1 .. 64, n_rsv : {1, 33},
     n_fat : Nat, n_dir : {0, 32}, n_clst : Nat]

(* Every field of the boot record fits the bytes it has there.             *)
BootRecords ==
    [RsvdSecCnt : Below(65536), NumFATs : Below(256), SecPerClus : Below(256),
     RootEntCnt : Below(65536), TotSec16 : Below(65536), TotSec32 : Nat,
     FATSz16 : Below(65536), FATSz32 : Nat, RootClus : {LabelBytes, 2}]

TypeOK ==
    /\ pc \in {"idle", "mbr", "boot", "fat1", "fat2", "root", "fsinfo", "mounted"}
    /\ disk \in DiskSizes
    /\ lay = NoLayout \/ lay \in Layouts
    /\ b_fat \in Nat /\ fsi \in Int /\ res \in {"none", "OK", "MKFS_ABORTED", "DISK_ERR"}
    /\ boot = NoBoot \/ boot \in BootRecords
    /\ pc \in {"idle", "mounted"} \/ lay \in Layouts
    /\ fs = NotMounted \/ fs = Mounted(boot)

(* f_mkfs writes inside the image, and no area over another one.           *)
WritesApart ==
    /\ \A a \in areas : 0 <= a.from /\ a.from <= a.to /\ a.to < disk
    /\ \A a, b \in areas : a # b => a.to < b.from \/ b.to < a.from

(* A command works on the volume that f_mkfs has just made, and takes it   *)
(* for the type of FAT it was made with.                                   *)
Fresh == pc = "mounted" /\ res = "OK"
TypesAgree == fs.fs_type = lay.fmt

(* chk_mounted finds the two FATs and the root directory exactly on the    *)
(* sectors that f_mkfs cleared for them, and nothing else lies in the      *)
(* clusters.                                                               *)
RootArea ==
    IF fs.fs_type = "FAT32"
    THEN Area("root", fs.database + (fs.dirbase - 2) * fs.csize,
                      fs.database + (fs.dirbase - 1) * fs.csize - 1)
    ELSE Area("root", fs.dirbase, fs.database - 1)

MountFindsAreas ==
    Fresh /\ TypesAgree =>
        /\ Area("fat1", fs.fatbase, fs.fatbase + fs.sects_fat - 1) \in areas
        /\ Area("fat2", fs.fatbase + fs.sects_fat, fs.fatbase + 2 * fs.sects_fat - 1) \in areas
        /\ RootArea \in areas
        /\ fs.n_rootdir * 32 = lay.n_dir * SS
        /\ \A a \in areas : a.what # "root" => a.to < fs.database

(* Whenever a volume can be mounted, be it that an f_mkfs was cut short,   *)
(* it has a cluster and all its clusters lie inside the image.             *)
DataInside ==
    pc = "mounted" =>
        /\ fs.max_clust > 2
        /\ fs.database + (fs.max_clust - 2) * fs.csize <= disk

(* Every cluster has an entry of its own in each copy of the FAT, in the   *)
(* width with which get_fat and put_fat take the entries apart.            *)
EntryBits == [t \in FatTypes |-> IF t = "FAT12" THEN 12 ELSE IF t = "FAT16" THEN 16 ELSE 32]

FatCoversClusters ==
    Fresh /\ TypesAgree => fs.max_clust * EntryBits[fs.fs_type] <= fs.sects_fat * SS * 8

(* The free count in FSINFO is that of every cluster but the one of the    *)
(* root directory, as chk_mounted numbers the clusters.                    *)
FsInfoExact == Fresh /\ FsInfo \in areas => fsi = fs.max_clust - 3

(* The volume is taken for the type of FAT it was formatted with.          *)
MountedAsFormatted == Fresh => TypesAgree

(* When the type was chosen automatically this fails only for partitions   *)
(* whose estimated cluster count reaches the FAT32 threshold and whose     *)
(* real one, less the reserved sectors and the FATs, does not.             *)
FirstTorn == 65525 * 64
LastTorn == FirstTorn + 33 + N_FATS * 513 - 1

MountedAsFormattedElsewhere ==
    Fresh /\ lay = Layout(disk, "auto") /\ lay.n_part \notin FirstTorn .. LastTorn => TypesAgree
=============================================================================
