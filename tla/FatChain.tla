------------------------------ MODULE FatChain ------------------------------
(***************************************************************************)
(* The cluster allocator of the FAT driver (ff.c) and the calls of its     *)
(* interface that use it: f_mkdir, f_open with FA_CREATE_ALWAYS, f_write,  *)
(* f_close, f_unlink and f_chmod.  A running command sees the FAT and the  *)
(* entries as move_window presents them: a put_fat is visible to the next  *)
(* get_fat.  The image lags behind by at most the one sector in the        *)
(* window, which sync and every access to another sector write back; which *)
(* entries share a sector is left open.  A command may end after any call, *)
(* failed or not, without a sync: the next one sees the image.             *)
(*                                                                         *)
(* A call runs as a sequence of steps, each one touching at most one FAT   *)
(* entry or one directory entry, in the order of the source: pc says which *)
(* procedure is running.  Directory tables appear as cluster chains and    *)
(* the entries registered in them; whether a table has a blank run of      *)
(* entries in the cluster under inspection is left open.  At most          *)
(* MaxErrors transfers of the image file fail; a failed transfer leaves    *)
(* the window as it was.  An entry of a FAT12 FAT that straddles two       *)
(* sectors is written as one.                                              *)
(***************************************************************************)
EXTENDS Integers, FiniteSets

CONSTANTS
    MaxClust,   \* fs->max_clust: the clusters are 2 .. MaxClust - 1
    Names,      \* the objects a directory entry can be made for
    Root,       \* the root directory
    Fat32,      \* fs_type = FS_FAT32: the root directory is the chain of cluster 2
    MaxErrors,  \* bound on the failed transfers
    MaxUnsynced \* bound on the commands that end with changes in memory only

(* What a running call holds outside of the directory entries.             *)
Slots == {"new", "table", "rest", "file"}

ASSUME MaxClustAssumption == MaxClust \in Nat /\ MaxClust >= 3
ASSUME NamesAssumption == Root \notin Names \cup Slots /\ Names \cap Slots = {}
ASSUME Fat32Assumption == Fat32 \in BOOLEAN
ASSUME MaxErrorsAssumption == MaxErrors \in Nat
ASSUME MaxUnsyncedAssumption == MaxUnsynced \in Nat

Clusters == 2 .. (MaxClust - 1)
Free == 0
Eoc == MaxClust             \* 0x0FFFFFFF, or any value >= max_clust
DiskErr == MaxClust + 1     \* 0xFFFFFFFF as a result of get_fat and create_chain
IntErr == 1                 \* 1 as a result of get_fat and create_chain
FatValues == {Free, Eoc} \cup Clusters
UnknownCount == -1          \* fs->free_clust = 0xFFFFFFFF
Dirs == Names \cup {Root}
NoFile == Root              \* value of fil when no file is open

VARIABLES
    fat,          \* cluster -> link, as get_fat returns it
    kind,         \* name -> "none", "file" or "dir": the entry's existence and AM_DIR
    clust,        \* name -> DIR_FstClus of its entry
    parent,       \* name -> the directory that holds its entry
    rdo,          \* names whose entry has AM_RDO
    last_clust,   \* fs->last_clust
    free_clust,   \* fs->free_clust
    fsi_flag,     \* fs->fsi_flag: the two hints have yet to be written to FSINFO
    image,        \* the FAT and the entries that the image file holds
    fsinfo,       \* the two hints in the FSINFO sector of a FAT32 image
    unsynced,     \* history: commands that ended before their changes were all on the image
    fil, org_clust, curr_clust,   \* the open FIL: its entry, first and current cluster
    abort,        \* FA__ERROR of the open FIL
    call,         \* the interface function that runs
    pc,           \* the procedure it is in
    tgt, par,     \* the entry it works on and the directory of that entry
    dclst,        \* f_mkdir: cluster of the new table; remove_chain's callers: first cluster
    dcl,          \* dir_register: dj->clust, the table cluster under inspection
    scl, ncl,     \* create_chain: start and candidate
    base,         \* create_chain: its argument clst
    ret,          \* create_chain: its result
    rcl,          \* remove_chain: the cluster it has come to
    res,          \* FRESULT of the last call
    errs          \* failed transfers so far

dirVars == <<kind, clust, parent, rdo>>
fsVars == <<last_clust, free_clust, fsi_flag>>
imageVars == <<image, fsinfo, unsynced>>
filVars == <<fil, org_clust, curr_clust, abort>>
scanVars == <<scl, ncl, base, ret>>
regVars == <<call, tgt, par, dclst, dcl>>
vars == <<fat, dirVars, fsVars, imageVars, filVars, scanVars, regVars, pc, rcl, res, errs>>

Results == {"OK", "DENIED", "EXIST", "NO_FILE", "INT_ERR", "DISK_ERR"}

(* First cluster of a directory table; 0 is the static root of FAT12/16.   *)
TableStart(d) == IF d # Root THEN clust[d] ELSE IF Fat32 THEN 2 ELSE 0

IsDir(d) == d \in {Root} \cup {n \in Names : kind[n] = "dir"}

(* The FAT and the entries as the program sees them, and the hints.        *)
View == [fat |-> fat, kind |-> kind, clust |-> clust, parent |-> parent, rdo |-> rdo]
Hints == [last |-> last_clust, free |-> free_clust]

(* Nothing that a mount would read is still in memory only.                *)
Synced == image = View /\ (Fat32 => fsinfo = Hints) /\ org_clust = 0

-----------------------------------------------------------------------------
(* A volume as f_mkfs leaves it, mounted by chk_mounted.  On FAT12/16 the  *)
(* FATFS object is an uninitialised stack variable and chk_mounted does    *)
(* not set last_clust, so it may hold anything.                            *)
Init ==
    /\ fat = [c \in Clusters |-> IF Fat32 /\ c = 2 THEN Eoc ELSE Free]
    /\ kind = [n \in Names |-> "none"]
    /\ clust = [n \in Names |-> 0]
    /\ parent = [n \in Names |-> Root]
    /\ rdo = {}
    /\ last_clust \in IF Fat32 THEN {Eoc} ELSE 0 .. MaxClust
    /\ free_clust = IF Fat32 THEN MaxClust - 3 ELSE UnknownCount
    /\ fsi_flag = FALSE
    /\ image = View /\ fsinfo = Hints /\ unsynced = 0
    /\ fil = NoFile /\ org_clust = 0 /\ curr_clust = 0 /\ abort = FALSE
    /\ call = "none" /\ pc = "idle" /\ tgt = Root /\ par = Root
    /\ dclst = 0 /\ dcl = 0
    /\ scl = 0 /\ ncl = 0 /\ base = 0 /\ ret = 0 /\ rcl = 0
    /\ res = "OK" /\ errs = 0

(* The interface function returns r; every register of the call is dead.   *)
Return(r) ==
    /\ pc' = "idle" /\ call' = "none" /\ res' = r
    /\ tgt' = Root /\ par' = Root /\ dclst' = 0 /\ dcl' = 0
    /\ scl' = 0 /\ ncl' = 0 /\ base' = 0 /\ ret' = 0 /\ rcl' = 0

Done(r) == Return(r) /\ UNCHANGED errs

(* A transfer of the image file fails.                                     *)
Fault == errs < MaxErrors /\ errs' = errs + 1

(* What a step does to the window.  Before another sector comes into it     *)
(* the window is written back: an access to the FAT writes back changed    *)
(* entries, an access to a table a changed FAT, and either one may also    *)
(* leave a sector of its own kind.                                         *)
Entries(v) == <<v.kind, v.clust, v.parent, v.rdo>>
Stored == UNCHANGED <<fsinfo, unsynced>>

Nowhere == UNCHANGED image /\ Stored
Anywhere == image' \in {image, View} /\ Stored
InFat == Anywhere /\ Entries(image') = dirVars
InTable == Anywhere /\ image'.fat = fat
InBoth == image' = View /\ Stored

(* The function ends with sync(fs), whose result it returns: the window    *)
(* and FSINFO are written, the latter without looking at the outcome.      *)
Sync ==
    \/ /\ image' = View'
       /\ fsi_flag' = FALSE
       /\ \/ Done("OK") /\ fsinfo' = IF fsi_flag THEN Hints ELSE fsinfo
          \/ fsi_flag /\ Fault /\ Return("OK") /\ UNCHANGED fsinfo
       /\ UNCHANGED unsynced
    \/ Fault /\ Return("DISK_ERR") /\ UNCHANGED fsi_flag /\ Anywhere

-----------------------------------------------------------------------------
(* create_chain(fs, c): stretch the chain that ends in c, or start a chain *)
(* when c = 0.  A get_fat(c) that fails passes for the end of the chain,   *)
(* which c is for both callers.                                            *)
SuggestedUnchecked == IF last_clust = 0 THEN 1 ELSE last_clust

Suggested == IF last_clust = 0 \/ last_clust >= MaxClust THEN 1 ELSE last_clust

CreateChain(c) ==
    LET start == IF c = 0 THEN Suggested ELSE c
        followed == c # 0 /\ fat[c] < MaxClust
    IN /\ base' = c
       /\ scl' = start
       /\ ncl' = start
       /\ ret' = IF ~followed THEN 0 ELSE IF fat[c] < 2 THEN IntErr ELSE fat[c]
       /\ pc' = IF followed THEN "return" ELSE "scan"

(* The search loop's next candidate, and its two ways to give up: before   *)
(* the candidate is looked at and after it was found in use.               *)
Candidate == IF ncl + 1 >= MaxClust THEN 2 ELSE ncl + 1
WrappedAtTwo == ncl + 1 >= MaxClust /\ 2 >= scl
WrappedPast == ncl + 1 >= MaxClust /\ 2 > scl
NeverRound == FALSE
CameRound == Candidate = scl

Scan ==
    /\ pc = "scan"
    /\ ncl' = Candidate
    /\ \/ /\ ~WrappedPast /\ fat[Candidate] = Free
          /\ fat' = [fat EXCEPT ![Candidate] = Eoc]
          /\ pc' = "link"
       \/ /\ ~WrappedPast /\ fat[Candidate] # Free /\ ~CameRound
          /\ UNCHANGED <<fat, pc>>
       \/ /\ WrappedPast \/ (fat[Candidate] # Free /\ CameRound)
          /\ pc' = "return"
          /\ UNCHANGED fat
    /\ UNCHANGED <<dirVars, fsVars, filVars, regVars, scl, base, ret, rcl, res, errs>>
    /\ InFat

(* Hook the new cluster to the chain and update the allocation hints.      *)
CountTaken == IF free_clust = UnknownCount THEN free_clust ELSE free_clust - 1
CountChanged == fsi_flag \/ free_clust # UnknownCount

Link ==
    /\ pc = "link"
    /\ fat' = IF base = 0 THEN fat ELSE [fat EXCEPT ![base] = ncl]
    /\ last_clust' = ncl
    /\ free_clust' = CountTaken
    /\ fsi_flag' = CountChanged
    /\ ret' = ncl
    /\ pc' = "return"
    /\ UNCHANGED <<dirVars, filVars, regVars, scl, ncl, base, rcl, res, errs>>
    /\ InFat

(* get_fat or put_fat fails inside create_chain.                           *)
ChainError ==
    /\ pc \in {"scan", "link"}
    /\ Fault
    /\ ret' = DiskErr
    /\ pc' = "return"
    /\ UNCHANGED <<fat, dirVars, fsVars, filVars, regVars, scl, ncl, base, rcl, res>>
    /\ Anywhere

-----------------------------------------------------------------------------
(* remove_chain(fs, rcl): one turn of its loop, or its return to the       *)
(* caller: f_mkdir after a failed dir_register, f_open of an existing      *)
(* file, or f_unlink.                                                      *)
AtEndOfChain == rcl < MaxClust => fat[rcl] = Free

CountForgotten == free_clust

CountGiven == IF free_clust = UnknownCount THEN free_clust ELSE free_clust + 1

RemoveLink ==
    /\ pc = "remove"
    /\ ~AtEndOfChain
    /\ fat' = [fat EXCEPT ![rcl] = Free]
    /\ free_clust' = CountGiven
    /\ fsi_flag' = CountChanged
    /\ rcl' = fat[rcl]
    /\ UNCHANGED <<dirVars, filVars, scanVars, regVars, last_clust, pc, res, errs>>
    /\ InFat

OpenTruncated ==
    \/ Done("OK") /\ fil' = tgt /\ InBoth
    \/ Fault /\ Return("DISK_ERR") /\ UNCHANGED fil /\ Anywhere

RemoveDone ==
    /\ pc = "remove"
    /\ AtEndOfChain
    /\ UNCHANGED <<fat, dirVars, free_clust, org_clust, curr_clust, abort>>
    /\ \/ /\ call = "unlink" /\ UNCHANGED <<last_clust, fil>>
          /\ Sync
       \/ /\ UNCHANGED fsi_flag
          /\ \/ call = "mkdir" /\ Done(res) /\ UNCHANGED <<last_clust, fil>> /\ InFat
             \/ call = "open" /\ last_clust' = dclst - 1 /\ OpenTruncated

(* The rest of the chain stays allocated; f_mkdir drops the error.         *)
RemoveError ==
    /\ pc = "remove"
    /\ Fault
    /\ Return(IF call = "mkdir" THEN res ELSE "DISK_ERR")
    /\ UNCHANGED <<fat, dirVars, fsVars, filVars>>
    /\ Anywhere

-----------------------------------------------------------------------------
(* f_mkdir(n) in directory p.                                              *)
Mkdir(n, p) ==
    /\ pc = "idle" /\ fil = NoFile
    /\ IsDir(p) /\ n # p
    /\ kind[n] # "none" => parent[n] = p
    /\ \/ kind[n] # "none" /\ Done("EXIST")
       \/ /\ kind[n] = "none"
          /\ call' = "mkdir" /\ tgt' = n /\ par' = p
          /\ CreateChain(0)
          /\ UNCHANGED <<dclst, dcl, rcl, res, errs>>
    /\ UNCHANGED <<fat, dirVars, fsVars, filVars>>
    /\ InTable

(* It has its cluster and writes the new table to it, ...                  *)
MkdirTable ==
    /\ pc = "return" /\ call = "mkdir" /\ base = 0
    /\ ret \in Clusters
    /\ dclst' = ret
    /\ pc' = "register" /\ dcl' = TableStart(par)
    /\ UNCHANGED <<fat, dirVars, fsVars, filVars, scanVars, call, tgt, par, rcl, res, errs>>
    /\ InBoth

(* ... has none, or cannot write it: then the cluster is not given back.   *)
MkdirFails ==
    /\ pc = "return" /\ call = "mkdir" /\ base = 0
    /\ \/ ret = 0 /\ Done("DENIED") /\ Nowhere
       \/ ret = DiskErr /\ Done("DISK_ERR") /\ Nowhere
       \/ ret \in Clusters /\ Fault /\ Return("DISK_ERR") /\ Anywhere
    /\ UNCHANGED <<fat, dirVars, fsVars, filVars>>

-----------------------------------------------------------------------------
(* dir_register: look for a blank run of entries from the start of the     *)
(* table.  The table cluster dcl may hold it, ...                          *)
RegisterHere ==
    /\ pc = "register"
    /\ kind' = [kind EXCEPT ![tgt] = IF call = "mkdir" THEN "dir" ELSE "file"]
    /\ clust' = [clust EXCEPT ![tgt] = dclst]
    /\ parent' = [parent EXCEPT ![tgt] = par]
    /\ rdo' = rdo \ {tgt}
    /\ UNCHANGED <<fat, last_clust, free_clust, org_clust, curr_clust, abort>>
    /\ \/ call = "mkdir" /\ Sync /\ UNCHANGED fil
       \/ call = "open" /\ Done("OK") /\ fil' = tgt /\ InTable /\ UNCHANGED fsi_flag

(* ... or dir_next goes on to the next cluster of the table, ...           *)
RegisterNext ==
    /\ pc = "register"
    /\ dcl # 0 /\ fat[dcl] < MaxClust
    /\ dcl' = fat[dcl]
    /\ UNCHANGED <<fat, dirVars, fsVars, filVars, scanVars, call, tgt, par, dclst, pc, rcl, res, errs>>
    /\ InBoth

(* ... or stretches the table, ...                                         *)
RegisterStretch ==
    /\ pc = "register"
    /\ dcl # 0 /\ fat[dcl] >= MaxClust
    /\ CreateChain(dcl)
    /\ UNCHANGED <<fat, dirVars, fsVars, filVars, regVars, rcl, res, errs>>
    /\ InBoth

Stretching == pc = "return" /\ call \in {"mkdir", "open"} /\ base # 0

Stretched ==
    /\ Stretching
    /\ ret \in Clusters
    /\ dcl' = ret /\ pc' = "register"
    /\ UNCHANGED <<fat, dirVars, fsVars, filVars, scanVars, call, tgt, par, dclst, rcl, res, errs>>
    /\ InBoth

(* ... or registration fails with r, and f_mkdir gives its cluster back.   *)
GiveNothingBack(r) == call = "mkdir" /\ Return(r)

GiveTableBack(r) ==
    /\ call = "mkdir"
    /\ pc' = "remove" /\ rcl' = (IF dcl = 0 THEN dclst ELSE dcl) /\ res' = r
    /\ UNCHANGED <<scanVars, regVars>>

GiveBack(r) ==
    /\ call = "mkdir"
    /\ pc' = "remove" /\ rcl' = dclst /\ res' = r
    /\ UNCHANGED <<scanVars, regVars>>

RegisterFails(r) == GiveBack(r) \/ (call = "open" /\ Return(r))

(* No free cluster to stretch the table with.                              *)
StretchFails ==
    /\ Stretching
    /\ \/ ret = 0 /\ RegisterFails("DENIED")
       \/ ret = DiskErr /\ RegisterFails("DISK_ERR")
    /\ UNCHANGED <<fat, dirVars, fsVars, filVars, errs>>
    /\ Nowhere

(* End of a static table, index 65535 reached, or 99 numbered short names  *)
(* taken.                                                                  *)
RegisterFull ==
    /\ pc = "register"
    /\ \E r \in {"NO_FILE", "DENIED"} : RegisterFails(r)
    /\ UNCHANGED <<fat, dirVars, fsVars, filVars, errs>>
    /\ InTable

(* A table sector cannot be read, or the new table cluster not cleared.    *)
RegisterError ==
    /\ pc = "register" \/ (Stretching /\ ret \in Clusters)
    /\ Fault
    /\ RegisterFails("DISK_ERR")
    /\ UNCHANGED <<fat, dirVars, fsVars, filVars>>
    /\ Anywhere

-----------------------------------------------------------------------------
(* f_open(n, FA_WRITE | FA_CREATE_ALWAYS) in directory p: the name is new, *)
(* cannot be overwritten, or names a file to be resized to zero.           *)
OpenNew(n, p) ==
    /\ kind[n] = "none"
    /\ call' = "open" /\ tgt' = n /\ par' = p
    /\ pc' = "register" /\ dcl' = TableStart(p)
    /\ UNCHANGED <<clust, fil, scanVars, dclst, rcl, res, errs>>

OpenDenied(n) ==
    /\ kind[n] = "dir" \/ n \in rdo
    /\ Done("DENIED")
    /\ UNCHANGED <<clust, fil>>

OpenOverKeepsStart(n, p) ==
    /\ kind[n] = "file" /\ n \notin rdo
    /\ UNCHANGED clust
    /\ \/ clust[n] = 0 /\ Done("OK") /\ fil' = n
       \/ /\ clust[n] \in Clusters
          /\ call' = "open" /\ tgt' = n /\ par' = p
          /\ dclst' = clust[n] /\ rcl' = clust[n] /\ pc' = "remove"
          /\ UNCHANGED <<scanVars, dcl, res, fil, errs>>

OpenOver(n, p) ==
    /\ kind[n] = "file" /\ n \notin rdo
    /\ clust' = [clust EXCEPT ![n] = 0]
    /\ \/ clust[n] = 0 /\ Done("OK") /\ fil' = n
       \/ clust[n] = DiskErr /\ Done("INT_ERR") /\ UNCHANGED fil
       \/ /\ clust[n] \in Clusters
          /\ call' = "open" /\ tgt' = n /\ par' = p
          /\ dclst' = clust[n] /\ rcl' = clust[n] /\ pc' = "remove"
          /\ UNCHANGED <<scanVars, dcl, res, fil, errs>>

Open(n, p) ==
    /\ pc = "idle" /\ fil = NoFile
    /\ IsDir(p) /\ n # p
    /\ kind[n] # "none" => parent[n] = p
    /\ OpenNew(n, p) \/ OpenDenied(n) \/ OpenOver(n, p)
    /\ UNCHANGED <<fat, kind, parent, rdo, fsVars, org_clust, curr_clust, abort>>
    /\ InTable

(* f_write comes to a cluster boundary of the open file.                   *)
Write ==
    /\ pc = "idle" /\ fil # NoFile
    /\ \/ abort /\ Done("INT_ERR") /\ Nowhere
       \/ /\ ~abort
          /\ call' = "write"
          /\ CreateChain(curr_clust)
          /\ UNCHANGED <<tgt, par, dclst, dcl, rcl, res, errs>>
          /\ Anywhere
    /\ UNCHANGED <<fat, dirVars, fsVars, filVars>>

(* create_chain has come back to f_write, whatever its result.  When the   *)
(* disk is full f_write stops short and still returns FR_OK.               *)
Origin == IF org_clust = 0 THEN ret ELSE org_clust

WriteCluster ==
    /\ pc = "return" /\ call = "write"
    /\ org_clust' = Origin
    /\ \/ ret = 0 /\ Done("OK") /\ UNCHANGED <<curr_clust, abort>>
       \/ ret \in Clusters /\ Done("OK") /\ curr_clust' = ret /\ UNCHANGED abort
       \/ ret \in Clusters /\ Fault /\ Return("DISK_ERR") /\ curr_clust' = ret /\ abort' = TRUE
       \/ ret = DiskErr /\ Done("DISK_ERR") /\ abort' = TRUE /\ UNCHANGED curr_clust
    /\ UNCHANGED <<fat, dirVars, fsVars, fil>>
    /\ Nowhere

(* f_close, that is f_sync: the entry gets the file's first cluster.  When *)
(* the entry's sector cannot be had, or put_file cannot read its source,   *)
(* the commands drop the FIL all the same.                                 *)
CloseKeepsFil ==
    /\ pc = "idle" /\ fil # NoFile
    /\ clust' = [clust EXCEPT ![fil] = org_clust]
    /\ fil' = NoFile
    /\ UNCHANGED <<fat, kind, parent, rdo, last_clust, free_clust, org_clust, curr_clust, abort>>
    /\ Sync

Close ==
    /\ pc = "idle" /\ fil # NoFile
    /\ fil' = NoFile /\ org_clust' = 0 /\ curr_clust' = 0 /\ abort' = FALSE
    /\ UNCHANGED <<fat, kind, parent, rdo, last_clust, free_clust>>
    /\ \/ clust' = [clust EXCEPT ![fil] = org_clust] /\ Sync
       \/ Fault /\ Return("DISK_ERR") /\ UNCHANGED <<clust, fsi_flag>> /\ Anywhere

(* f_unlink(n).                                                            *)
Children(d) == {m \in Names : kind[m] # "none" /\ parent[m] = d}

Removable(n) == n \notin rdo /\ ~(kind[n] = "dir" /\ Children(n) # {})

UnlinkRefused(n) ==
    /\ \/ kind[n] = "none" /\ Done("NO_FILE")
       \/ kind[n] # "none" /\ ~Removable(n) /\ Done("DENIED")
    /\ UNCHANGED <<fat, dirVars, fsVars, filVars>>
    /\ InTable

UnlinkEntry(n) ==
    /\ kind[n] # "none" /\ Removable(n)
    /\ kind' = [kind EXCEPT ![n] = "none"]
    /\ clust' = [clust EXCEPT ![n] = 0]
    /\ parent' = [parent EXCEPT ![n] = Root]
    /\ UNCHANGED <<fat, rdo, last_clust, free_clust, filVars>>
    /\ \/ clust[n] = 0 /\ Sync
       \/ clust[n] = DiskErr /\ Done("INT_ERR") /\ InTable /\ UNCHANGED fsi_flag
       \/ /\ clust[n] \in Clusters
          /\ call' = "unlink" /\ tgt' = n /\ par' = parent[n]
          /\ dclst' = clust[n] /\ rcl' = clust[n] /\ pc' = "remove"
          /\ UNCHANGED <<scanVars, dcl, res, errs, fsi_flag>>
          /\ InTable

Unlink(n) ==
    /\ pc = "idle" /\ fil = NoFile
    /\ UnlinkRefused(n) \/ UnlinkEntry(n)

(* f_chmod(n) on the AM_RDO bit.                                           *)
Chmod(n) ==
    /\ pc = "idle" /\ fil = NoFile
    /\ kind[n] # "none"
    /\ rdo' = IF n \in rdo THEN rdo \ {n} ELSE rdo \cup {n}
    /\ UNCHANGED <<fat, kind, clust, parent, last_clust, free_clust, filVars>>
    /\ Sync

(* A call fails before it changes anything: chk_mounted, follow_path or    *)
(* dir_remove cannot read a sector.                                        *)
LookupError ==
    /\ pc = "idle" /\ fil = NoFile
    /\ Fault
    /\ Return("DISK_ERR")
    /\ UNCHANGED <<fat, dirVars, fsVars, filVars>>
    /\ Anywhere

(* The command ends, whatever its last call returned, with the window and  *)
(* the open FIL as they are, and the next one mounts the volume: it finds  *)
(* what is on the image.  A FAT32 volume has its hints from FSINFO.        *)
Remount ==
    /\ pc = "idle"
    /\ fat' = image.fat /\ kind' = image.kind /\ clust' = image.clust
    /\ parent' = image.parent /\ rdo' = image.rdo
    /\ IF Fat32 THEN last_clust' = fsinfo.last ELSE last_clust' \in 0 .. MaxClust
    /\ free_clust' = IF Fat32 THEN fsinfo.free ELSE UnknownCount
    /\ fsi_flag' = FALSE
    /\ fil' = NoFile /\ org_clust' = 0 /\ curr_clust' = 0 /\ abort' = FALSE
    /\ res' = "OK"
    /\ \/ Synced /\ UNCHANGED unsynced
       \/ ~Synced /\ unsynced < MaxUnsynced /\ unsynced' = unsynced + 1
    /\ UNCHANGED <<image, fsinfo, scanVars, regVars, pc, rcl, errs>>

-----------------------------------------------------------------------------
(* The steps that a call in progress takes by itself ...                   *)
Step ==
    \/ Scan \/ Link \/ ChainError
    \/ RemoveLink \/ RemoveDone \/ RemoveError
    \/ MkdirTable \/ MkdirFails
    \/ RegisterHere \/ RegisterNext \/ RegisterStretch \/ Stretched
    \/ StretchFails \/ RegisterFull \/ RegisterError
    \/ WriteCluster

(* ... and the calls the program makes.                                    *)
Invoke ==
    \/ \E n \in Names, p \in Dirs : Mkdir(n, p) \/ Open(n, p)
    \/ \E n \in Names : Unlink(n) \/ Chmod(n)
    \/ Write \/ Close
    \/ LookupError
    \/ Remount

Next == Step \/ Invoke

Spec == Init /\ [][Next]_vars

(* The program is sequential: a call that has begun runs on.               *)
FairSpec == Spec /\ WF_vars(Step)

(* The calls of rebuild: copy_dir fills the fresh volume and stops at the  *)
(* first call that fails (for runs without failed transfers).              *)
RebuildCalls ==
    /\ res = "OK"
    /\ \/ \E n \in Names, p \in Dirs : kind[n] = "none" /\ (Mkdir(n, p) \/ Open(n, p))
       \/ Write \/ Close

RebuildSpec == Init /\ [][Step \/ RebuildCalls]_vars

-----------------------------------------------------------------------------
RegistersOK ==
    /\ fat \in [Clusters -> FatValues]
    /\ kind \in [Names -> {"none", "file", "dir"}]
    /\ clust \in [Names -> {0, DiskErr} \cup Clusters]
    /\ parent \in [Names -> Dirs]
    /\ rdo \in SUBSET Names
    /\ last_clust \in 0 .. MaxClust
    /\ free_clust \in Int
    /\ fil \in Dirs
    /\ org_clust \in {0, DiskErr} \cup Clusters
    /\ curr_clust \in {0} \cup Clusters
    /\ abort \in BOOLEAN
    /\ call \in {"none", "mkdir", "open", "write", "unlink"}
    /\ pc \in {"idle", "scan", "link", "return", "remove", "register"}
    /\ tgt \in Dirs /\ par \in Dirs
    /\ dclst \in {0} \cup Clusters /\ dcl \in {0} \cup Clusters
    /\ scl \in 0 .. (MaxClust - 1) /\ ncl \in 0 .. (MaxClust - 1)
    /\ base \in {0} \cup Clusters
    /\ ret \in {0, DiskErr} \cup Clusters
    /\ rcl \in {0, Eoc} \cup Clusters
    /\ res \in Results
    /\ errs \in 0 .. MaxErrors

Views ==
    [fat : [Clusters -> FatValues], kind : [Names -> {"none", "file", "dir"}],
     clust : [Names -> {0, DiskErr} \cup Clusters], parent : [Names -> Dirs], rdo : SUBSET Names]

TypeOK ==
    /\ RegistersOK
    /\ fsi_flag \in BOOLEAN
    /\ image \in Views
    /\ fsinfo \in [last : 0 .. MaxClust, free : Int]
    /\ unsynced \in 0 .. MaxUnsynced

(* The first cluster that holder h of a chain answers for: an entry, the   *)
(* root directory, or the running call: a cluster just marked in use, the  *)
(* table of a directory that has no entry yet, the rest of a chain that is *)
(* being removed, the chain of the open file.                              *)
Holders == Dirs \cup Slots

Held(h) ==
    CASE h \in Names -> clust[h]
      [] h = Root    -> TableStart(Root)
      [] h = "new"   -> IF pc = "link" THEN ncl ELSE IF pc = "return" /\ base = 0 THEN ret ELSE 0
      [] h = "table" -> IF call = "mkdir" /\ pc # "remove" THEN dclst ELSE 0
      [] h = "rest"  -> IF pc = "remove" THEN rcl ELSE 0
      [] OTHER       -> org_clust

(* Two chains never meet, not even between the steps of a call: no cluster *)
(* follows two others, follows another one and starts a chain, or starts   *)
(* the chains of two holders.                                              *)
LinksApart == \A c, d \in Clusters : c # d /\ fat[c] \in Clusters => fat[c] # fat[d]
StartsUnlinked == \A c \in Clusters, h \in Holders : fat[c] \in Clusters => fat[c] # Held(h)
StartsApart == \A g, h \in Holders : g # h /\ Held(g) \in Clusters => Held(g) # Held(h)

NoCrossLink == LinksApart /\ StartsUnlinked /\ StartsApart

(* No link and no holder points to a cluster that create_chain could give  *)
(* away again.                                                             *)
NoDangling ==
    /\ \A c \in Clusters : fat[c] \in Clusters => fat[fat[c]] # Free
    /\ \A h \in Holders : Held(h) \in Clusters => fat[Held(h)] # Free

(* As long as no transfer fails and every command ends with its changes on *)
(* the image, every cluster in use belongs to a chain that somebody holds: *)
(* nothing leaks, on the paths where a call fails either.  A command that  *)
(* ends on a failed f_mkdir does leak, because nothing writes back what    *)
(* remove_chain undid.                                                     *)
NoLostClusters ==
    errs = 0 /\ unsynced = 0 =>
        \A c \in Clusters : fat[c] # Free =>
            \/ \E d \in Clusters : fat[d] = c
            \/ \E h \in Holders : Held(h) = c

(* As long as every command ends with its changes on the image, FSINFO     *)
(* among them, the free count is never below the number of free clusters   *)
(* and exceeds it by at most one for each failed transfer.                 *)
FreeClusters == {c \in Clusters : fat[c] = Free}
Taking == IF pc = "link" THEN 1 ELSE 0

FreeCountTracks ==
    unsynced = 0 /\ free_clust # UnknownCount =>
        free_clust - Cardinality(FreeClusters) - Taking \in 0 .. errs

(* create_chain reports "no free cluster" only when there is none: the     *)
(* search that starts anywhere, wraps and stops has looked at all of them. *)
FullOnlyWhenFull == pc = "return" /\ ret = 0 => FreeClusters = {}

(* The start cluster that an entry or an open file records is a cluster of *)
(* the volume or 0 for none ("File start cluster", ff.c and ff.h).         *)
StartClusterValid ==
    /\ \A n \in Names : clust[n] \in {0} \cup Clusters
    /\ org_clust \in {0} \cup Clusters

(* The clusters of the chain that starts with c.                           *)
ChainOf(c) ==
    LET upto[k \in 0 .. MaxClust] ==
            IF k = 0 THEN {c} \cap Clusters
            ELSE upto[k - 1] \cup ({fat[d] : d \in upto[k - 1]} \cap Clusters)
    IN upto[MaxClust]

(* A call never touches the chain of an object it does not name: only the  *)
(* entry it works on, the table that holds that entry and the open file    *)
(* may change.  (What the program sees also changes when it mounts the     *)
(* volume anew.)                                                           *)
OthersUntouched ==
    [][~Remount =>
       \A n \in Dirs \ {tgt, tgt', par} :
          /\ n \in Names /\ n # fil /\ clust[n] # DiskErr => clust'[n] = clust[n]
          /\ \A c \in ChainOf(TableStart(n)) : fat'[c] = fat[c]]_vars

(* The table in which an entry is registered keeps every cluster it has,   *)
(* in the same order: it can only grow at its end.                         *)
TableOnlyGrows ==
    [][par = par' /\ call \in {"mkdir", "open"} =>
          \A c \in ChainOf(TableStart(par)) :
              fat'[c] # Free /\ (fat[c] \in Clusters => fat'[c] = fat[c])]_vars

(* Every call returns: no chain a call follows leads back into itself and  *)
(* the search for a free cluster ends.                                     *)
CallsReturn == pc # "idle" ~> pc = "idle"

(* "ensures that the resulting image is unfragmented" (help rebuild), for  *)
(* the contents of files: every cluster of a file is followed by its       *)
(* neighbour.                                                              *)
FilesUnfragmented ==
    \A n \in Names : kind[n] = "file" =>
        \A c \in ChainOf(clust[n]) \cup ChainOf(org_clust) :
            fat[c] \in Clusters => fat[c] = c + 1
=============================================================================
