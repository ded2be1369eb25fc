# hdfmonkey in TLA+

hdfmonkey manipulates FAT file systems inside disk image files.  This project
models the FAT driver from its commands down to the image file: allocation of
clusters, directory tables and names, file contents, the sector window through
which all of it reaches the image, formatting and mounting, and the containers.
TLC checks the models on small instances; TLAPS proves for every size the main
safety properties of the allocator, of formatting, of the directory tables, of
the image files and of what the image holds when the program stops, and that
the window implements its abstract specification.

## The system

| Part | Source | State | Operations |
|---|---|---|---|
| Commands | `hdfmonkey.c` | none that outlives a command | clone, create, format, get, ls, mkdir, put, rebuild, rm |
| FAT driver, calls | `ff.c` f_* | open `FIL`: entry, first and current cluster, error flag | f_open, f_read, f_write, f_close, f_mkdir, f_unlink, f_chmod, f_opendir, f_readdir |
| FAT driver, directories | `ff.c` dir_*, create_name, ... | `FATDIR`: position in a table | find, read, register (which may stretch the table), remove |
| FAT driver, allocator | `ff.c` get_fat ... create_chain | the FAT; `last_clust`, `free_clust` | stretch or start a chain, free a chain |
| FAT driver, window | `ff.c` move_window, sync | one cached sector and its dirty flag | load, write back (to both FATs), FSINFO |
| Formatting and mounting | `ff.c` f_mkfs, chk_mounted | boot record, FSINFO, `FATFS` geometry | lay out and clear the areas; read them back |
| Disk functions | `diskio.c` | drive number -> volume | read, write, count sectors |
| Image files | `image_file.c` | descriptor, data offset, sector size and count | create, open, read, write, close; raw or HDF |

A command opens an image (`open_image`), maps it to a drive (`disk_map`), mounts
it, and calls the driver; the driver allocates clusters, updates directory
tables and reads and writes sectors through the disk functions, which call the
image file.  Everything runs in one thread and nothing calls back.  What is hard
is elsewhere: every transfer may fail between two updates that belong together;
the allocator starts from hints that may be stale or not even initialised; the
same quantity (FAT type, cluster count, data offset) is computed in two places
that must agree; and the program may stop anywhere while the image persists.

What makes the parts correct:

* allocator: no two chains share a cluster, no link leads to a free cluster, no
  cluster is lost, the free count is right, "disk full" is true when said, every
  search and every walk along a chain ends;
* calls: a call changes no object but the one it names, on error paths too;
* formatting: areas lie in the image and apart; mounting finds them; each
  cluster has a FAT entry and lies in the image; the FAT type is read as written;
* directory tables: no two short names are equal, each object has all entries
  of its name and is found under it, registering and removing leave the other
  objects alone; a table that could not be cleared when it grew is the exception;
* window: the driver sees every modification at once and the image gets them in
  the order they were made, so that an image on which the program stopped names
  allocated clusters only;
* contents: what is stored is a beginning of the source, and all of it unless
  a transfer failed, the volume or a static root is full, or the name is refused;
  what is read is what is stored, if the host takes it;
* image files: what is written is what is read, however system calls cut it up;
  an image reopens as it was created and a clone has the sectors of its source,
  unless a failed call has had an HDF image taken for a raw one or has cost it
  its header.

`PROJECT.json` lists the components, the hazards with their lines, and for each
definition of the models the source lines it stands for.

## The modules

### FatChain

The FAT as `move_window` presents it (`fat`: cluster -> link), directory entries
(`kind`, `clust`, `parent`, `rdo`), the allocation hints, one open file, and the
registers of the call that runs.  A call is a sequence of steps, each touching
at most one FAT entry or directory entry, in the order of the source, so that
invariants speak about every point at which a transfer can fail.  `image` and
`fsinfo` are what the image file has of them, at most one sector behind, and
`fsi_flag` says that FSINFO is yet to be written.  `pc` names the
procedure: `scan` and `link` are the two halves of create_chain, `return` its
return to the caller, `remove` the loop of remove_chain, `register` the walk of
dir_register along the table.

| Actions | Code |
|---|---|
| `CreateChain`, `Scan`, `Link`, `ChainError` | create_chain |
| `RemoveLink`, `RemoveDone`, `RemoveError` | remove_chain and what its callers do next |
| `Mkdir`, `MkdirTable`, `MkdirFails` | f_mkdir |
| `RegisterHere`, `RegisterNext`, `RegisterStretch`, `Stretched`, `StretchFails`, `RegisterFull`, `RegisterError` | dir_register with dir_next |
| `Open` (`OpenNew`, `OpenDenied`, `OpenOver`) | f_open with FA_CREATE_ALWAYS |
| `Write`, `WriteCluster` | f_write at a cluster boundary |
| `Close`, `Unlink`, `Chmod` | f_close and f_sync, f_unlink, f_chmod |
| `LookupError` | a call that fails before it changes anything |
| `Remount` | the command ends, whatever its last call returned, and the next one mounts what is on the image with a new, uninitialised FATFS |

Abstractions.  Whether a table cluster has a blank run of entries is a free
choice.  `Eoc` stands for every link value >= max_clust, `DiskErr` for
0xFFFFFFFF.  A failed transfer leaves the window as it was.  Which entries share
a sector is a free choice at each step, and a FAT12 entry that straddles two
sectors is written as one.  `unsynced` is a history: it counts the commands that
ended with a change in memory only.  The internal error of create_chain (1) has no
continuation in the callers: `TypeOK`, which is proved, says that it never comes.

### Mkfs

f_mkfs computes a layout from the sector count and the requested format and
writes MBR, boot record, two FATs, root directory and FSINFO, an action each;
`Fail` is a failing write or the end of the program in between.  chk_mounted
(`Mounted`) computes the file system object from the fields of the boot record,
which are reduced to their widths.  Written areas are recorded as intervals.

### ImageFile

Files are sequences of units; the two units of a sector (256 bytes each) hold
different contents, so that data in the wrong place shows.  A header has
`HDF_HEADER_SIZE` units, of which the first is what image_file.c reads back
(`Preamble`: signature, halved flag and the two bytes of the data offset, the
lower one being `OffsetLow`), the second the geometry and the sector count
(`Identity`), which is stored modulo `CountRange`, in the place of 2^32.  The
transfer loops of image_file_read and image_file_write and of the header are
stepped through, each system call moving any number of units or failing; a
failing write of the header may stop inside a unit (`Cut`).  `SeekFails` is the
int that receives lseek's result, with `IntRange` in the place of 2^32.  On top
of it are disk_read and disk_write for drive 0, the create and open functions of
both containers, and clone with drives 0 and 1.

| Actions | Code |
|---|---|
| `OpenImage`, `CloseImage` | open_image with image_file_is_hdf: a probe that fails or ends short says no, and an HDF image is opened as a raw one (`Openings`); the open itself may fail |
| `Create`, `HeaderTurn`, `HeaderError` | create_image, raw and HDF; open, ftruncate and each write of the header may fail |
| `DiskRead`, `DiskWrite`, `TurnRead`, `TurnWrite`, `TurnError`, `TurnEnd` | disk_read, disk_write and the transfer loops below them |
| `Clone`, `CloneTurn` | cmd_clone |

Two histories serve the properties: `misread` (the image in drive 0 is an HDF
image that was opened as a raw one) and `damaged` (files whose header was left
unfinished by a failed call).

### SectorStore and FatWindow

`SectorStore` is the abstract specification: a store of sectors in which the
driver sees each modification at once (`view`) while the image (`durable`)
differs from it in one sector at most, so that a stop loses the last modified
sector and no other.  A failed transfer may spoil what the driver sees of one
sector; the image keeps it.

`FatWindow` has the fields `winsect`, `win` and `wflag`, the image, the other
copies of the FAT and FSINFO.  Its refinement mapping is `view <- View` (the
window in front of the image), `durable <- image`, `spoilt <- stale`.  A sector
holds a set of marks: in the FAT, which clusters are in use and by which cluster
a table was stretched; in a table, which clusters its entries name.

| Actions | Code |
|---|---|
| `Hit`, `WriteBack`, `WriteBackFails`, `Mirror`, `Read`, `ReadFails` | move_window; a failing transfer may be cut off inside the sector |
| `Look`, `Looked` | any call that only reads |
| `MkdirOrWrite`, `Grow`, `Take`, `TakeNone`, `Link` | the calls that take a cluster, create_chain |
| `Flushed`, `FillNext`, `FillDone` | the loops of f_mkdir and dir_next that clear a cluster through the window |
| `Direct`, `DirectDone`, `DirectFails` | f_write past the window |
| `Entry`, `Unlink`, `Unname`, `Release` | the entry of f_close and f_mkdir; f_unlink with dir_remove and remove_chain |
| `Synced`, `Failed`, `Stop` | sync with FSINFO; error returns; the program ends or is killed, and mounts again |

`stale` says that the window shows what nobody put there (after a read that was
cut off, or after f_mkdir has cleared it once too often with one sector per
cluster); `lost`, that a cut-off transfer has got into the image or into a
modification.  FAT12 entries that straddle two sectors, and the removal of a
table that has grown, are left out.

### FatDirectory

One table as a function from index to entry.  A long name is a sequence of
segments; its entries carry segment, ordinal and checksum.  What create_name
and gen_numname make of a name is given by constants: two names that compete for
the same numbered short names, one that is spelled like a numbered name,
checksums that collide, a name of 255 characters.  `Find` and `Shown` are
dir_find and dir_read entry by entry, with their registers `ord`, `sum` and
`lfn_idx`.

| Actions | Code |
|---|---|
| `Create` | f_open or f_mkdir: the lookup, then the numbered name of dir_register |
| `Reserve`, `Stretch`, `TableFull` | the search for a blank run, with dir_next stretching the table |
| `StretchFails` | the cluster is linked (ff.c:632), and a transfer of its clearing fails (637 to 642): the table shows what was in the cluster, behind the sectors already cleared |
| `RegisterLfn`, `RegisterSfn` | the entries, one per step |
| `Unlink`, `Remove` | f_unlink: the lookup and dir_remove, one entry per step |
| `Fails` | a sector that cannot be read or written, between any two of these |

What an uncleared cluster holds is one of `Leftovers`: entries of a table that
has been removed, as the driver wrote them.  File contents read as entries are
left out.  The search of dir_register passes such a cluster's blank entries and
goes on behind them; dir_find and dir_read stop at the first one never used.

`own` (the name for which an entry was written), `aliased` (an object with a
long name was removed under its short name) and `torn` (the table has a cluster
whose clearing failed) exist for the properties only.

### FileCopy

Contents and sizes: two volumes with cluster sizes of their own, `FIL`s with
`fptr`, `fsize`, `csect`, the sector buffer and its dirty flag, and the commands
put, get and rebuild with their buffer.  A turn of the loops of f_read and
f_write is a step.  Bytes are <<file, position>>.  Of a name only two things
count: how many directory entries it needs, and whether its object is `barred`
(read-only, a directory, an invalid name, or one whose 99 numbered short names
are taken).  `room` is the number of entries that a static table still takes at its
end, or `Dynamic` for a table that is a chain of clusters.

| Actions | Code |
|---|---|
| `Put`, `PutAgain`, `Get`, `Rebuild` | the commands; a put may overwrite what an earlier one stored |
| `Open`, `OpenSkips` | f_open of source and destination, with dir_register; no two names find each other's entries |
| `OpenDenied` | f_open fails while every transfer succeeds: barred object, static table full (ff.c:614 to 621), no cluster to stretch the table |
| `OpenFails` | a transfer fails in f_open: before it changes anything, in dir_register, or while the old chain is freed |
| `FetchHost`, `FetchHostFails`, `FetchFile` | fread; the start of f_read |
| `HostWriteFails`, `HostCloseFails` | the host takes less than fwrite and fclose give it; get does not look (hdfmonkey.c:300, 305) |
| `ReadWhole`, `ReadPart`, `ReadFails`, `ReadDone` | f_read |
| `Write` (`WriteWhole`, `WritePart`), `WriteStops`, `WriteFails`, `WriteDone` | f_write, which stops short on a full volume and reports no error |
| `NextChunk`, `Close`, `CloseFails`, `Drop` | the loop of the command; f_close with f_sync, after a copy and after an error |

After an error put continues with the next file, get reports it, and rebuild
ends and reports success (`GiveUp`, `NextFile`).  `lost` remembers that the host
took less than it was given.  A table cluster that is linked but not cleared is
FatDirectory's subject.  Any free cluster may be
allocated: which one it is, is FatChain's subject, and so is the start cluster
that a failed create_chain leaves behind.

### Proof and instance modules

`FatChainProofs`, `MkfsProofs`, `FatWindowProofs`, `FatDirectoryProofs`,
`ImageFileProofs` and `FileCopyProofs` extend the modules they prove about;
`FatWindowSafety` extends `FatWindowProofs`.  `NaturalFacts` has induction and
arithmetic that several of them use.
The `MC` modules name the sets the configurations use.

## What the runs check

| Run | Question | Result |
|---|---|---|
| chain_fat16 | chains apart, search complete, other objects untouched, tables only grow, every call returns; FAT12/16, 3 clusters, any initial hint, mounts after commands that ended synced | holds |
| chain_fat32 | types, chains, no lost cluster, free count; FAT32, 3 clusters, one failed transfer anywhere, one command that ends anywhere between two calls with unwritten changes | holds |
| chain_start | the recorded start cluster is a cluster | fails: an error code is stored before it is tested |
| chain_rebuild | rebuild leaves files unfragmented | fails on FAT12/16: the search starts at an uninitialised hint |
| mkfs_layout | layout, mounting, FAT length, FSINFO, type; sizes on both sides of every boundary, all requests, interruptions | holds |
| mkfs_torn | the FAT type is mounted as formatted, chosen automatically | fails for 2 GB |
| image_transfer | transfers exact, reopening, end of file, clone, geometry, calls return; two files, one failing system call: open, probe, ftruncate, header write or transfer, any of them cut short | holds |
| image_large | every sector of a large image can be transferred | fails where lseek's result does not fit an int |
| window | FatWindow implements SectorStore; crash safety, cleared tables, copies of the FAT, FSINFO; two FAT sectors, two sectors per cluster, one failed transfer, one stop | holds |
| directory | short names unique, names whole and found again, no orphans, other objects untouched; five names, a table that grows once, one failed transfer, old entries in the new cluster | holds |
| copy | prefixes, complete copies, get exact, every command ends; two files, two volumes, a full volume, a full static root, a refused name, one failed transfer or short write of the host | holds |
| image_halved | clone of an image with 256-byte sectors | fails: the copy has the same number of larger sectors |

The failing runs are findings: each contradicts a line of the repository's
help or comments, quoted in `PROJECT.json`.  The property of mkfs_torn also fails
when --fat16 is requested for an image of less than 62 MB: f_mkfs keeps its
cluster size table, and chk_mounted takes the volume for FAT12.

What the properties except is as telling as what they say:

* `NoLostClusters` and `FreeCountTracks` except failed transfers (the second one
  by their number) and commands that ended with a change in memory only.  The
  second exception needs no failing transfer: f_mkdir has the mark of its new
  cluster written (ff.c:2520) and, when dir_register then refuses the entry,
  takes it back in the window alone (2549 to 2550); cmd_mkdir reports the error
  and ends without a sync (hdfmonkey.c:676 to 680).  The image keeps a lost
  cluster, and a FAT32 volume an FSINFO that is out by it or by more.  `NoCrossLink` and
  `NoDangling` hold after such an end too.
* `OthersUntouched` speaks of the steps of calls, not of the mount that follows.
* `Reopens` and `CloneFaithful` except an image that a failed probe has had
  opened as a raw one, and files with an unfinished header.  In the first case
  clone copies the header as data and reports success.  `GeometryExact` excepts
  the second, and compares the sector count modulo 2^32, which is all the header
  has room for.
* `ShortNamesDiffer` and `FoundAgain` except a table with a cluster whose
  clearing failed: old entries there become objects of the directory, and may
  have the short name of another object or hide it.  `OthersKept` holds in such
  tables as well, of the old entries too.
* `CrashSafe` and `TablesCleared` hold at every point at which the program may
  stop, with or without failed transfers, as long as no transfer is cut off
  inside a sector.  The one exception in `TablesCleared`: between dir_next's
  link and its clearing loop the image has a table with old data in it.
* `MirrorsAgree` and `FsinfoCurrent` except failed transfers, because the code
  does not look at the results of those writes.
* `NoOrphans` excepts failed transfers and objects removed under their short
  names; `FoundAgain` excepts tables with orphans, where an orphaned run gives
  its name to the next object with the right checksum, and names of 255
  characters.
* `OnlyFailedMissing` and `RebuildCopies` except a full volume, and files whose
  entry is refused without any failing transfer (`Excused`): rebuild ends at the
  first file that a static root has no entries for (`Unfit`) and reports success
  (hdfmonkey.c:787 to 792).
* `GetExact` excepts a host that takes less than it is given: get reports
  success then.

### Bounds

* FatChain: two names allow a directory with a file in it, and two files that
  compete for clusters.  Three clusters (with FAT32 one of them the root's)
  allow a chain of several clusters next to another one, a full volume, and a
  search that wraps from every start.  One failed transfer reaches every error
  path, and one unsynced end (`MaxUnsynced`) every image that a command may
  leave; the proofs cover any number of both.  chain_fat16 has neither, so that
  its liveness check stays small; its chains are proved apart for any number.
* Mkfs: sizes two below to two above each row of the cluster size table, the
  limits, the 16-bit sector count and the FAT32 threshold.  The proofs cover
  every size.
* FatWindow: two clusters with their FAT entries in different sectors, so that a
  link and its target reach the image separately; two sectors per cluster, so
  that a table can be half cleared; a second copy of the FAT.  TLC stops at
  states in which a cut-off transfer has done harm.
* FatDirectory: five entries that grow to seven, which two long names and a
  short one fill; every name is created and removed any number of times.  The
  uncleared cluster has a whole long name, a short name, or a name that wants its
  beginning.
* FileCopy: sectors of two bytes, buffers of two sectors, clusters of one and two
  sectors on either side; file lengths zero, inside, at the end of and after a
  buffer and a cluster; three clusters, so that the smaller volume fills up.  A
  root with two entries left takes one file or two, by the names; the first name may be
  refused.
* ImageFile: images of one and two sectors, a header of three units and a clone
  buffer of three, so that the last chunk is shorter, chunks straddle sectors
  and a header is cut between and inside its units; `CountRange` 2, so that a
  count of two does not fit; geometry limits small enough for the dummy geometry
  to occur.  The two failing runs have images of two and three sectors.

chain_fat32 uses symmetry in the names (`NamesAlike`): nothing in FatChain tells
one name from another, and the run checks invariants only.  The other runs use
none: liveness checks would not allow it, or the names differ.

### Fairness

`FairSpec` has weak fairness on `Step`, the steps of a call in progress: the
program is sequential, and a call that has begun runs on.  The commands may stop
calling at any time.  `FileCopy` likewise assumes that a command that runs goes
on.  `ImageFile` assumes besides that a read or write that
succeeds moves at least one unit; POSIX promises it for regular files.

## What is proved

`FatChainProofs`, from the assumptions of FatChain only (at least one cluster,
names distinct from the root): the invariants `TypeOK`, `NoCrossLink`,
`NoDangling`, `NoLostClusters`, `FreeCountTracks` and `FullOnlyWhenFull`, and the
action properties `OthersUntouched` and `TableOnlyGrows`, for every volume size,
set of names, FAT kind and number of failed transfers and unsynced ends.

None of the invariants is inductive alone.  `IInv` adds what the registers hold in each
procedure:

* `FileShape`: while a file is open its entry records no chain, so that the
  `FIL` is the only holder of the chain it builds;
* `EntryShape`: removed entries hold nothing, directories hold a cluster;
* `CallShape`, `RegisterShape`, `ChainShape`: which call can be in which
  procedure, that the chain to be stretched ends where create_chain stretches
  it, that a cluster just marked is nobody's yet;
* `Searched`: the clusters between the start of the search and its candidate,
  around the end, are in use;
* `NoErrorValue`: without a failed transfer no register holds an error code.

A mount starts from the image, which lags behind.  `ImageInv` says of the image
what a mount needs (`Mountable`, `Sound`): its chains are apart, lead to no free
cluster and belong to its entries, and without a failed transfer it has no error
code.  Each step leaves the image as it was or brings it level with what the
driver sees, so that only the second case has to be shown, from `IInv`.

The proof has one lemma per action.  The three chain properties are conjoined
(`Chains`), and the actions move a chain in four ways, each with a lemma of its
own: nothing changes hands (`ChainsKept`), a chain passes from one holder to
another (`ChainMoved`), a holder lets go after a failed transfer
(`ChainDropped`), or the FAT itself changes (`Scan`, `Link`, `RemoveLink`, proved
directly).  `HeldCases` spells out what each holder holds.  The free count uses
the cardinality of the set of free clusters with one cluster added or removed.

The two action properties speak of whole chains.  `OwnChain` adds to the
invariant that the cluster a call works on, be it the last cluster of the open
file, the last one of the table or the one create_chain returned, lies on the
chain of the object or table the call works for.  "On the chain of" is stated
without following the chain: the cluster is in every set that holds the head and
is closed under the links (`Leads`).  With it a link that changes belongs to a
known head, and `ChainsSeparate` shows that it is on no other holder's chain: the
complement of one chain is closed under the links, since chains do not meet.
The recursive `ChainOf` is met in one lemma, `ChainFollows`: what it returns is
the least such set, for which only the existence of the recursive function needs
induction.

`MkfsProofs`: for every image size and request, every invariant of mkfs_layout.
The argument is arithmetic: bounds of a layout by cluster size, exactness of the
mounted geometry from the boot record (the fields do not overflow), then an
invariant `Inv` that relates the write pointer, the areas written so far and the
layout at each `pc`.  `OneTornRange` shows that an automatically chosen type is
read back as written for every size outside one range of 1059 partition sizes.

`FatWindowProofs`: FatWindow implements SectorStore (`ImplementsStore`), for every
number of clusters, entries per FAT sector, sectors per cluster, copies of the
FAT, failed transfers and stops.  The argument has two halves in each step: an
invariant is kept, and the step is one of the store or changes nothing the store
knows.  The invariant (`WindowInvariant`) says what the refinement mapping needs
and the code never states in one place:

* `WindowShape`: a dirty window holds a sector of the volume, and a clean one
  shows what the image has unless it is stale;
* `MoveShape`: after move_window the window is on the sector asked for, or is
  clean when it only had to be flushed;
* `CallShape`: which sector and cluster each place of a call relies on; that
  f_mkdir and dir_next, which move the window without reading, do so with a
  clean window; that file data goes past a window that shows a FAT sector.

The steps fall into few kinds, each with a lemma: the store sees nothing
(`Kept`), the window gets another content in place (`Given`, `Modified`), it moves to
another sector without reading (`Replaced`) or is given up (`Discarded`).
`FreeCountIsCurrent` is nearly inductive and needs only the type of the error
count.

`FatWindowSafety`: `CrashSafe`, `TablesCleared` and `MirrorsAgree`, for the same
constants.  `CrashSafe` and `TablesCleared` speak about the image, and the driver
reads through the window, so the invariant states both: what the image says is
sound, and what it will say once the dirty window has been written (`Latest`) is
sound too.  A write of the window takes the image from the one to the other, and
a call only has to be right about `Latest`, where it finds its own modifications.
Each step of a call has a place in that argument: the link is made when both
ends are in use, an entry names a cluster that has been marked, the entry goes
before its chain.  The exceptions of the properties (marks that were cut off,
`stale` and `lost`) are the only ones the proof needs.  For `MirrorsAgree` the
set of differing sectors is bounded by a count: a failed transfer adds one
sector, a stop adds one, and a write of the window puts a sector back.

`ImageFileProofs`: all invariants of the module, for all lengths of files,
buffers and headers, any number of failing calls, and any way the system cuts
transfers up.

* `FileShape`: every file that is not `damaged` is a header and data, or data
  alone (`FilesShape`); an open volume lies in its file, and a `Sound` one agrees
  with the header, so it reopens as it is (`VolumesShape`, `ImagesReopen`); a
  header that is being written is there up to the unit reached (`HeaderShape`);
* `CallShape`: which range of the volume each place of a call is on;
* `IoShape`: what has been moved so far, unit by unit, and that the rest lies
  within the file (`TransfersAreExact`, `ReadsStayInFile`);
* `CloneShape`: the destination has the sectors below the clone's position.

`GeometriesAreExact` shows that the search for factors leaves no remainder, with
the largest factor found as a least natural number.  Two properties that a run
refutes are proved where they hold.  `SectorsAreReachable` assumes that half of
`IntRange` exceeds the position of every unit of an image
(`RangeSuffices`), which is what image_large does not give.  `ClonesAreFaithful`
assumes that no foreign image is halved, which image_halved does not give;
`ClonesOfWholeSectors` says instead, for every instance, that a clone is faithful
whenever its source has sectors of 512 bytes.  The exceptions for failed probes
and unfinished headers are those of the properties.

`FatDirectoryProofs`: `ShortNamesDiffer`, `NoOrphans`, `FoundAgain` and the action
property `OthersKept`, for any names, checksums, short names, table sizes and growth, and
any number of failed transfers and any leftovers of old tables in the driver's
form.  The invariant `IInv`:

* `TableShape`: entries have one of five forms, and nothing follows the end
  unless the table is `torn`;
* `RegisterShape`: while dir_register runs, no object has the short name it was
  given (again unless `torn`), the entries ahead are blank and those behind are
  the segments written;
* `RemoveShape`: between dir_remove's position and the object it removes there
  is no other object;
* `OwnerShape`: without failures each long name entry belongs to an object that
  is whole, or to the call that runs.

What the proofs need of dir_find is in `FindFacts`: it has seen every entry in
use when it finds nothing; when it finds an object, there is no other between
the start of the long name it remembers and that object.  `Find` is a recursive
function; `ScanExists` shows by induction that such a function exists, and
`ScanSoFar` what each turn of the loop keeps.  Induction is the lemma
`SetInduction` of NaturalFacts, derived from the least element of a set of
numbers, since the library's theorem takes an operator.  In `UnlinkStep` the pieces meet: the entry
remembered as the start of the long name has an owner, which cannot stand before
the object found (no other object does) nor behind it (its run would include the
object found), so the object removed takes all of its entries with it.

`FoundAgain` takes three more facts about the loops.  Soundness of dir_find
(`ScanSpells`, `FindReason`): an object is found only because the entries before
it spell the long name looked for, or because its short name is the one looked
for.  Completeness (`RunScanned`, `FindRun`): behind a run that is whole
dir_find has counted down to zero with the checksum of the object, so that it
cannot pass the object.  And dir_read (`RunRead`, `ShownFacts`) shows a long
name only for an object that is whole, and then its own.  To this the invariant
`NInv` adds what create_name and dir_register ensure together, in a table that
is not `torn`: no two objects that are whole have names that compare as equal
(`NoTwins`), nor has one the name being registered (`NoRival`; this is the
search before dir_register), and a name that fits a short name has that one
(`NamesKept`).  No step of dir_register but its last one makes an object whole
(`StillWhole`): a blank entry is still kept for the short name.

The assumptions on names are what create_name makes of them.  `CaseAssumption`:
of names that differ only in letter case either both have 255 characters or none,
and if one needs no long name entries, the other fits the same short name.
`SpellingAssumption`: a name spelled like a short name fits that short name.  For
code page 1252 (ffconf.h:56) the first holds for all characters.  The second
fails for three: the upper case table of short names takes small s and z with
caron to 0xAD and 0xAE (ff.h:165) and not to their capitals 0x8A and 0x8E, and a
short name with 0xDB, made from a small u with circumflex, cannot be typed again
because the conversion table has U+00BD in its place (ccsbcs.c:354).  Names with
these characters are outside the model.

`FileCopyProofs`: `StoredIsPrefix`, `OnlyFailedMissing`, `GetExact` and
`RebuildCopies`, for any number of files of any length on the host, any cluster
sizes, volumes, sectors and buffers, any names and room in static tables, and any
number of failed transfers and short writes of the host.  The assumptions are
that sizes are positive, that the buffer is a number of whole sectors
(BUFFER_SIZE is four of them, hdfmonkey.c:36), that there is at least one file,
and that a name needs a number of entries.

The properties compare whole files; the code works a sector or a part of one at
a time, and knows its place by `fptr`, `csect` and `clust` together.  The
invariant `IInv` states what ties these to each other:

* `Placed`: the FIL stands in the n-th cluster of its chain, in the sector before
  `csect`, and `fptr` is in that sector or at its end.  On a sector boundary
  `csect` is the next sector, inside one it is one ahead; `Stands` derives
  which, and this is where `ReadPart` and `WritePart` take `csect` or `csect - 1`;
* `Held`: every byte before a position is in the sector of the chain that the
  position computes to.  For a file being written it speaks of the image with
  the dirty sector buffer in front (`Latest`), for a finished one of the image;
* `ChainShape`: clusters belong to one place of one chain, so a write to one file
  changes no other (`SectorOwned`, `OneFile`), among them the source of a rebuild;
* `EntryShape`: an entry that has a start cluster covers no more than is held, and
  otherwise it is absent or empty, in particular while the file is written;
* `ChunkShape`, `AlignShape`: what is pending in the command's buffer are the last
  bytes that were read, and they belong where `fptr` of the target is, unless
  the volume is full: then f_write never stores another byte, so that no gap
  can arise behind the bytes that did not fit;
* `PutShape`, `RebuildShape`, `GetShape`: which files are done, by their lengths,
  and which were refused.  An entry that is there stays, and a static table's
  room only shrinks, so that a file refused once stays `Excused` or `Unfit`.

A turn of f_write (`WriteStep`) is split into where it goes on (`StandsHere`,
`StandsNext`), what it does to the bytes in a sector or in a run of sectors
(`PartWritten`, `WholeWritten`), and that the rest of the state agrees
(`WriteTurned`).  f_read is taken apart in the same way (`ReadAt`, `PartRead`,
`WholeRead`, `ReadGoes`).  `StoredType` leads back from `Held` to the
concatenated clusters of `Stored`: `Flat` says where a byte of a block is in
FlattenSeq, `BlockOf` in which block a byte is.

Only model-checked: the liveness properties `CallsReturn` and `CommandsEnd`
(out of the prover's reach).

## Not modelled

* Conversions without state: create_name and gen_numname (their results are
  constants of FatDirectory), the parsing of paths, sizes and arguments, time
  stamps, code pages, printing.
* put and rebuild of directories: the recursion calls f_mkdir, which FatChain,
  FatWindow and FatDirectory model, and copies files as FileCopy does.
* File data behind the window in FatWindow is one mark; contents are FileCopy's.
  FileCopy takes directory entries as the driver sees them.
* Calls of the driver that no command uses (f_lseek, f_truncate, f_rename,
  f_utime, f_getfree, f_stat, f_forward) and `mbr.c`, which is not built.
* Damaged or foreign volumes: the models start from images that the program
  makes, and from well-formed foreign HDF files.  A file shorter than its data
  offset (image_file.c:159) is such a case, and so is a command whose source and
  destination are the same file (hdfmonkey.c:210).

## Plan

1. `FileStore`: an abstract store of named contents, with FileCopy shown to
   implement it.
2. Recursion of put and rebuild into directories.
