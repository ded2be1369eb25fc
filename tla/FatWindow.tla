----------------------------- MODULE FatWindow -----------------------------
(***************************************************************************)
(* The sector window of the FAT driver (ff.c: move_window, sync): one      *)
(* buffer through which every access to the FAT and to directory tables    *)
(* goes, and the calls that use it in the order their modifications reach  *)
(* the image: f_mkdir, f_open with a table that must grow, f_write of a    *)
(* first cluster with f_close, f_unlink.  The program may stop between any *)
(* two transfers and start again; transfers may fail.                      *)
(*                                                                         *)
(* A sector holds a set of marks.  In a FAT sector, c says that cluster c  *)
(* is in use, and -c that the last cluster of a directory table is linked  *)
(* to c.  In a table sector, c is the entry of a file and -c the entry of  *)
(* a directory that start at cluster c.                                    *)
(***************************************************************************)
EXTENDS Integers, FiniteSets

CONSTANTS
    MaxClust,   \* fs->max_clust: the clusters are 2 .. MaxClust - 1
    PerSec,     \* FAT entries per sector
    CSize,      \* fs->csize: sectors per cluster
    NFats,      \* fs->n_fats
    FreeCount,  \* the free count of FSINFO, or Unknown on FAT12/16
    MaxErrors,  \* bound on the failed transfers
    MaxStops    \* bound on the stops of the program

ASSUME SizesAssumption ==
    /\ MaxClust \in Nat /\ MaxClust >= 3
    /\ PerSec \in Nat \ {0} /\ CSize \in Nat \ {0} /\ NFats \in Nat \ {0}
ASSUME FreeCountAssumption == FreeCount \in {-1, MaxClust - 2}
ASSUME BoundsAssumption == MaxErrors \in Nat /\ MaxStops \in Nat

Clusters == 2 .. (MaxClust - 1)
FatOf(c) == <<0, 1 + (c \div PerSec)>>      \* the FAT sector with the entry of c
FatSecs == {FatOf(c) : c \in Clusters}
Root == <<1, 0>>                            \* the static root directory
SectorsOf(c) == {<<c, k>> : k \in 0 .. (CSize - 1)}
Sectors == FatSecs \cup {Root} \cup UNION {SectorsOf(c) : c \in Clusters}
NoSec == <<0, 0>>                           \* sector number 0
Copies == 2 .. NFats

Dots == 0                                   \* the "." and ".." entries of a new table
Junk == 1                                   \* file data
Marks == {Dots, Junk} \cup Clusters \cup {-c : c \in Clusters}
Contents == SUBSET Marks
Unknown == -1                               \* fs->free_clust = 0xFFFFFFFF

VARIABLES
    image,      \* sector -> its content in the image file
    mirror,     \* copy of the FAT -> FAT sector -> its content
    fsinfo,     \* the free count in the FSINFO sector
    winsect, win, wflag, free_clust, fsi_flag,   \* the fields of FATFS
    stale,      \* win shows something else than the callers gave or the image holds
    lost,       \* a transfer was cut off inside a sector and that has done harm:
                \* a write has left it so, or a caller has modified a stale window
    call, pc,   \* the interface function that runs, and where it is
    want, mw,   \* the sector asked of move_window, and where that is
    clst, tab,  \* the cluster the call takes or gives back, and the table sector
    fill,       \* counts the sectors of a cluster
    stops, errs \* stops of the program and failed transfers so far

imgVars == <<image, mirror, fsinfo>>
winVars == <<winsect, win, wflag, stale, lost>>
cntVars == <<free_clust, fsi_flag>>
callVars == <<call, clst, tab, fill>>
mwVars == <<pc, want, mw>>
vars == <<imgVars, winVars, cntVars, callVars, mwVars, stops, errs>>

(* What the driver sees of the volume.                                     *)
View == [s \in Sectors |-> IF s = winsect THEN win ELSE image[s]]

(* The clusters some entry or link of v names, and those the FAT has in    *)
(* use; the sectors of directory tables.                                   *)
NameIn(v, s) == {c \in Clusters : -c \in v[s] \/ (s \notin FatSecs /\ c \in v[s])}
Named(v) == UNION {NameIn(v, s) : s \in Sectors}
Used(v) == {c \in Clusters : c \in v[FatOf(c)]}
IsTable(v, c) == \E s \in Sectors : -c \in v[s]
Tables(v) == {Root} \cup UNION {SectorsOf(c) : c \in {d \in Clusters : IsTable(v, d)}}

(* A sector whose transfer was cut off: some of its entries are new.       *)
Mixtures(a, b) == {x \in SUBSET (a \cup b) : a \cap b \subseteq x}

Init ==
    /\ image = [s \in Sectors |-> IF s \in FatSecs \cup {Root} THEN {} ELSE {Junk}]
    /\ mirror = [n \in Copies |-> [s \in FatSecs |-> {}]]
    /\ fsinfo = FreeCount
    /\ winsect = NoSec /\ win = {} /\ wflag = FALSE /\ stale = FALSE /\ lost = FALSE
    /\ free_clust = FreeCount /\ fsi_flag = FALSE
    /\ call = "none" /\ clst = 0 /\ tab = NoSec /\ fill = 0
    /\ pc = "idle" /\ want = NoSec /\ mw = "out"
    /\ stops = 0 /\ errs = 0

Fault == errs < MaxErrors /\ errs' = errs + 1

-----------------------------------------------------------------------------
(* move_window(fs, want).                                                  *)
Moving(p, s) == pc' = p /\ want' = s /\ mw' = "start"

Hit ==
    /\ mw = "start" /\ winsect = want
    /\ mw' = "ok"
    /\ UNCHANGED <<imgVars, winVars, cntVars, callVars, pc, want, stops, errs>>

(* The window is dirty and must be written back first, ...                 *)
IsFirstFat(s) == s = FatOf(2)
IsFat(s) == s \in FatSecs
NeverWritten == FALSE
NeedsWriting == wflag

WriteBack ==
    /\ mw = "start" /\ winsect # want /\ NeedsWriting
    /\ image' = [image EXCEPT ![winsect] = win]
    /\ wflag' = FALSE
    /\ mw' = IF IsFat(winsect) THEN "mirror" ELSE "read"
    /\ UNCHANGED <<mirror, fsinfo, winsect, win, stale, lost, cntVars, callVars, pc, want, stops, errs>>

(* ... which may fail half way; the window is still dirty then, ...        *)
WriteBackFails ==
    /\ mw = "start" /\ winsect # want /\ NeedsWriting /\ Fault
    /\ \E x \in Mixtures(image[winsect], win) :
          /\ image' = [image EXCEPT ![winsect] = x]
          /\ lost' = (lost \/ x \notin {image[winsect], win})
    /\ mw' = "failed"
    /\ UNCHANGED <<mirror, fsinfo, winsect, win, wflag, stale, cntVars, callVars, pc, want, stops>>

(* ... and a sector of the FAT goes to the other copies too.  Nobody looks *)
(* at the results of those writes.                                         *)
Mirror ==
    /\ mw = "mirror"
    /\ \E bad \in SUBSET Copies :
          /\ IF bad = {} THEN errs' = errs ELSE Fault
          /\ mirror' = [n \in Copies |-> IF n \in bad THEN mirror[n]
                                                      ELSE [mirror[n] EXCEPT ![winsect] = win]]
    /\ mw' = "read"
    /\ UNCHANGED <<image, fsinfo, winVars, cntVars, callVars, pc, want, stops>>

(* The sector asked for is read, unless the window only had to be flushed. *)
Reading == mw = "read" \/ (mw = "start" /\ winsect # want /\ ~NeedsWriting)

Read ==
    /\ Reading
    /\ mw' = "ok"
    /\ IF want = NoSec THEN UNCHANGED <<winsect, win, stale>>
                       ELSE winsect' = want /\ win' = image[want] /\ stale' = FALSE
    /\ UNCHANGED <<imgVars, wflag, lost, cntVars, callVars, pc, want, stops, errs>>

(* A read that fails half way leaves part of the new sector in the window, *)
(* which keeps the old sector's number.                                    *)
ReadFails ==
    /\ Reading /\ want # NoSec /\ Fault
    /\ win' \in Mixtures(win, image[want])
    /\ stale' = (stale \/ win' # win)
    /\ mw' = "failed"
    /\ UNCHANGED <<imgVars, winsect, wflag, lost, cntVars, callVars, pc, want, stops>>

-----------------------------------------------------------------------------
(* The steps of the interface functions.  In each one the window shows the *)
(* sector asked for; win[] is changed and wflag set.                       *)
At(p) == pc = p /\ mw = "ok"

ModifyUnmarked(x) ==
    /\ win' = x
    /\ lost' = (lost \/ stale) /\ stale' = FALSE
    /\ UNCHANGED <<winsect, wflag>>

Modify(x) ==
    /\ win' = x /\ wflag' = TRUE
    /\ lost' = (lost \/ stale) /\ stale' = FALSE
    /\ UNCHANGED winsect

Return ==
    /\ pc' = "idle" /\ want' = NoSec /\ mw' = "out"
    /\ call' = "none" /\ clst' = 0 /\ tab' = NoSec /\ fill' = 0

Begin(f, t, p, s) ==
    /\ pc = "idle"
    /\ call' = f /\ tab' = t /\ Moving(p, s)
    /\ UNCHANGED <<imgVars, winVars, cntVars, fill, stops, errs>>

(* get_fat, dir_find, dir_read: look at a sector and change nothing.       *)
Look == \E s \in FatSecs \cup Tables(View) : Begin("look", NoSec, "look", s) /\ UNCHANGED clst

Looked == At("look") /\ Return /\ UNCHANGED <<imgVars, winVars, cntVars, stops, errs>>

(* A new directory or the first cluster of a file, with its entry in t; a  *)
(* new entry in the full table t, which must grow; the removal of a file   *)
(* or of an empty directory whose table never grew.  (The link of a table  *)
(* is known by its FAT sector only: one table in each may grow.)           *)
MkdirOrWrite ==
    \E t \in Tables(View), f \in FatSecs, g \in {"mkdir", "write"} :
        Begin(g, t, "take", f) /\ UNCHANGED clst

HasLink(f) == \E d \in Clusters : -d \in View[f]

Grow ==
    \E t \in Tables(View) \ {Root}, f \in FatSecs :
        /\ ~HasLink(FatOf(t[1]))
        /\ Begin("grow", t, "take", f) /\ UNCHANGED clst

Empty(c) == \A s \in SectorsOf(c) : NameIn(View, s) = {}

Unlink ==
    \E t \in Tables(View), c \in Clusters :
        /\ c \in NameIn(View, t)
        /\ -c \in View[t] => Empty(c) /\ ~HasLink(FatOf(c))
        /\ clst' = c
        /\ Begin("unlink", t, "unname", t)

(* create_chain takes a free entry of the FAT and sets it, ...             *)
CountTaken == IF free_clust = Unknown THEN UNCHANGED cntVars
                                      ELSE free_clust' = free_clust - 1 /\ fsi_flag' = TRUE

CountGiven == IF free_clust = Unknown THEN UNCHANGED cntVars
                                      ELSE free_clust' = free_clust + 1 /\ fsi_flag' = TRUE

Take ==
    /\ At("take")
    /\ \E c \in Clusters :
          /\ FatOf(c) = want /\ c \notin win
          /\ clst' = c
          /\ Modify(win \cup {c})
    /\ CountTaken
    /\ \/ call = "mkdir" /\ Moving("flush", NoSec)
       \/ call = "grow" /\ Moving("link", FatOf(tab[1]))
       \/ call = "write" /\ pc' = "direct" /\ want' = NoSec /\ mw' = "out"
    /\ UNCHANGED <<imgVars, call, tab, fill, stops, errs>>

(* The volume is full.  A file is closed all the same.                     *)
TakeNone ==
    /\ At("take")
    /\ \A c \in Clusters : FatOf(c) = want => c \in win
    /\ IF call = "write" THEN Moving("entry", tab) /\ UNCHANGED callVars ELSE Return
    /\ UNCHANGED <<imgVars, winVars, cntVars, stops, errs>>

(* ... and hooks it to the chain of the table.                             *)
Link ==
    /\ At("link")
    /\ Modify(win \cup {-clst})
    /\ Moving("flush", NoSec)
    /\ UNCHANGED <<imgVars, cntVars, callVars, stops, errs>>

FirstOnly == 1
SectorsToFill == CSize

(* The window is used to clear the new cluster without reading it.         *)
Place(k, x) ==
    /\ winsect' = <<clst, k>> /\ win' = x /\ wflag' = TRUE /\ stale' = FALSE
    /\ fill' = k
    /\ Moving("fill", NoSec)
    /\ UNCHANGED lost

Flushed ==
    /\ At("flush")
    /\ Place(0, IF call = "mkdir" THEN {Dots} ELSE {})
    /\ UNCHANGED <<imgVars, cntVars, call, clst, tab, stops, errs>>

FillNext ==
    /\ At("fill") /\ fill + 1 < SectorsToFill
    /\ Place(fill + 1, {})
    /\ UNCHANGED <<imgVars, cntVars, call, clst, tab, stops, errs>>

(* f_mkdir clears the window once too often: with one sector per cluster   *)
(* it no longer shows the dot entries.  dir_next leaves the window on the  *)
(* first sector of the cluster, where the new entry goes at once.          *)
FillDone ==
    /\ At("fill") /\ fill + 1 = SectorsToFill
    /\ \/ /\ call = "mkdir"
          /\ win' = {} /\ stale' = (win # {})
          /\ Moving("entry", tab)
          /\ UNCHANGED <<winsect, wflag, lost, callVars>>
       \/ /\ call = "grow"
          /\ winsect' = <<clst, 0>> /\ wflag' = TRUE
          /\ Return
          /\ UNCHANGED <<win, stale, lost>>
    /\ UNCHANGED <<imgVars, cntVars, stops, errs>>

(* f_write moves data to the sectors of the file past the window; f_close  *)
(* then writes the entry, after a failed f_write too.  Only a command that *)
(* cannot read its source leaves the file open.                            *)
Direct ==
    /\ pc = "direct" /\ fill < CSize
    /\ image' = [image EXCEPT ![<<clst, fill>>] = {Junk}]
    /\ fill' = fill + 1
    /\ UNCHANGED <<mirror, fsinfo, winVars, cntVars, call, clst, tab, mwVars, stops, errs>>

DirectDone ==
    /\ pc = "direct" /\ fill = CSize
    /\ Moving("entry", tab)
    /\ UNCHANGED <<imgVars, winVars, cntVars, callVars, stops, errs>>

DirectFails ==
    /\ pc = "direct" /\ Fault
    /\ (Moving("entry", tab) /\ UNCHANGED callVars) \/ Return
    /\ UNCHANGED <<imgVars, winVars, cntVars, stops>>

(* The entry gets its start cluster, ...                                   *)
Entry ==
    /\ At("entry")
    /\ Modify(win \cup (IF clst = 0 THEN {} ELSE {IF call = "mkdir" THEN -clst ELSE clst}))
    /\ Moving("sync", NoSec)
    /\ UNCHANGED <<imgVars, cntVars, callVars, stops, errs>>

(* ... or is removed, after which its cluster is given back.               *)
UnnameUnmarked ==
    /\ At("unname")
    /\ ModifyUnmarked(win \ {clst, -clst})
    /\ Moving("give", FatOf(clst))
    /\ UNCHANGED <<imgVars, cntVars, callVars, stops, errs>>

Unname ==
    /\ At("unname")
    /\ Modify(win \ {clst, -clst})
    /\ Moving("give", FatOf(clst))
    /\ UNCHANGED <<imgVars, cntVars, callVars, stops, errs>>

Release ==
    /\ At("give")
    /\ Modify(win \ {clst})
    /\ CountGiven
    /\ IF call = "unlink" THEN Moving("sync", NoSec) /\ UNCHANGED callVars ELSE Return
    /\ UNCHANGED <<imgVars, stops, errs>>

(* sync writes FSINFO without looking at the result.                       *)
FsinfoForgotten == FALSE
NeedsFsinfo == fsi_flag

Synced ==
    /\ At("sync")
    /\ \/ ~NeedsFsinfo /\ UNCHANGED <<fsinfo, winsect, win, errs>>
       \/ NeedsFsinfo /\ fsinfo' = free_clust /\ winsect' = NoSec /\ win' = {} /\ UNCHANGED errs
       \/ NeedsFsinfo /\ Fault /\ UNCHANGED fsinfo /\ winsect' = NoSec /\ win' = {}
    /\ fsi_flag' = FALSE
    /\ Return
    /\ UNCHANGED <<image, mirror, wflag, stale, lost, free_clust, stops>>

(* move_window has failed: the call returns.  But f_mkdir gives its        *)
(* cluster back if its entry could not be registered, and a file that got  *)
(* no cluster is closed.                                                   *)
Failed ==
    /\ mw = "failed"
    /\ \/ pc = "entry" /\ call = "mkdir" /\ Moving("give", FatOf(clst)) /\ UNCHANGED callVars
       \/ pc = "take" /\ call = "write" /\ Moving("entry", tab) /\ UNCHANGED callVars
       \/ /\ <<pc, call>> \notin {<<"entry", "mkdir">>, <<"take", "write">>}
          /\ Return
    /\ UNCHANGED <<imgVars, winVars, cntVars, stops, errs>>

(* The program ends or is stopped, and starts again: chk_mounted discards  *)
(* the window and takes the free count from FSINFO.                        *)
Stop ==
    /\ stops < MaxStops
    /\ stops' = stops + 1
    /\ winsect' = NoSec /\ win' = {} /\ wflag' = FALSE /\ stale' = FALSE
    /\ free_clust' = fsinfo /\ fsi_flag' = FALSE
    /\ Return
    /\ UNCHANGED <<imgVars, lost, errs>>

MoveWindow == Hit \/ WriteBack \/ WriteBackFails \/ Mirror \/ Read \/ ReadFails

Start == Look \/ MkdirOrWrite \/ Grow \/ Unlink

Step ==
    \/ Looked \/ Take \/ TakeNone \/ Link \/ Flushed \/ FillNext \/ FillDone
    \/ Direct \/ DirectDone \/ DirectFails \/ Entry \/ Unname \/ Release \/ Synced \/ Failed

Next == MoveWindow \/ Start \/ Step \/ Stop

Spec == Init /\ [][Next]_vars

-----------------------------------------------------------------------------
(* The promise of the window (ff.c:252): the driver sees every             *)
(* modification at once, the image gets them in order and is never more    *)
(* than one sector behind, and file data written past the window never     *)
(* contradicts it.                                                         *)
Store == INSTANCE SectorStore WITH
    Sector <- Sectors, Content <- Contents,
    view <- View, durable <- image, spoilt <- stale, stops <- stops

IsSectorStore == Store!Spec

(* Wherever the program stops (f_mkdir, f_write with f_close, f_unlink:    *)
(* ff.c:2475, 2511, 2015), whatever the image names is allocated on the    *)
(* image, and nothing is named twice; unless a transfer was cut off inside *)
(* a sector.                                                               *)
CrashSafe ==
    lost \/ /\ Named(image) \subseteq Used(image)
            /\ \A c \in Clusters :
                  /\ Cardinality({s \in Sectors : c \in NameIn(image, s)}) <= 1
                  /\ \A s \in Sectors \ FatSecs : ~({c, -c} \subseteq image[s])

(* A directory whose entry is on the image has a cleared table there       *)
(* (ff.c:2541); so has a table that has grown (ff.c:637), unless the       *)
(* program stopped or a transfer failed between the two writes.            *)
TablesCleared ==
    lost \/ \A c \in Clusters : IsTable(image, c) /\ (\E s \in SectorsOf(c) : Junk \in image[s])
              => (\E s \in FatSecs : -c \in image[s]) /\ (call = "grow" \/ stops + errs > 0)

(* move_window keeps the copies of the FAT alike (ff.c:268): without       *)
(* failing transfers each stop of the program leaves them different in one *)
(* sector at most.                                                         *)
MirrorsAgree ==
    errs = 0 => \A n \in Copies :
        Cardinality({s \in FatSecs : mirror[n][s] # image[s]})
            <= stops + (IF mw = "mirror" THEN 1 ELSE 0)

(* A free count the driver does not mean to write is the one on the image  *)
(* (sync, ff.c:305), where the next mount finds it, unless a transfer has  *)
(* failed.                                                                 *)
FsinfoCurrent == errs > 0 \/ fsi_flag \/ fsinfo = free_clust
=============================================================================
