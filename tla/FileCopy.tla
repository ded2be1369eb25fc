------------------------------ MODULE FileCopy ------------------------------
(***************************************************************************)
(* File contents on their way between the host and volumes: f_read,        *)
(* f_write, f_sync and f_close of the FAT driver (ff.c) and the commands   *)
(* that call them (hdfmonkey.c): put of several files into a directory,    *)
(* get, and rebuild, which copies every file of volume 0 to a new volume 1.*)
(*                                                                         *)
(* Bytes are <<file, position>>.  A turn of the loops of f_read and        *)
(* f_write is one step.  Transfers may fail; a failed one moves nothing.   *)
(* The chain of a file is a sequence of clusters: how create_chain finds   *)
(* and links them, and the start cluster that is left by a create_chain    *)
(* that failed, are FatChain's subject.  Directory entries are those the   *)
(* driver sees: when they reach the image is FatWindow's subject.  Of a    *)
(* directory the model knows how many entries its table still takes, at    *)
(* its end, and which names f_open refuses; no two files have names that   *)
(* find each other's entries (FatDirectory).                               *)
(***************************************************************************)
EXTENDS Integers, SequencesExt

CONSTANTS
    Lengths,     \* the lengths the host's files may have: a set of sequences
    Names,       \* what names they may have: a set of sequences of records
    Rooms,       \* the entries a directory may still take, or Dynamic
    CSizes,      \* the cluster sizes a volume may have
    NClust,      \* clusters of a volume
    SS,          \* bytes per sector
    BufferSize,  \* BUFFER_SIZE
    MaxErrors    \* bound on the failed transfers

ASSUME SizesAssumption ==
    /\ SS \in Nat \ {0} /\ NClust \in Nat
    /\ BufferSize \in Nat \ {0} /\ BufferSize % SS = 0
    /\ CSizes \subseteq Nat \ {0}
Dynamic == -1                       \* a table that is a chain of clusters
ASSUME LengthsAssumption == Lengths \subseteq Seq(Nat) \ {<<>>}
ASSUME NamesAssumption == Names \subseteq Seq([need : Nat, barred : BOOLEAN])
ASSUME RoomsAssumption == Rooms \subseteq Nat \cup {Dynamic}
ASSUME MaxErrorsAssumption == MaxErrors \in Nat

Volumes == {0, 1}
Clusters == 1 .. NClust
NoSector == -1                      \* fp->dsect = 0
Garbage == <<0, 0>>                 \* what a sector holds that was never written

VARIABLES
    host,       \* file -> its content on the host
    names,      \* file -> the directory entries its name needs, and whether
                \* f_open refuses to write to it on volume 0
    csize,      \* volume -> sectors per cluster
    data,       \* volume -> sector -> bytes
    entry,      \* volume -> file -> its directory entry, or Absent
    chain,      \* volume -> file -> the clusters that were linked for it
    used,       \* volume -> clusters that are not free in its FAT
    room,       \* volume -> entries its directory still takes, or Dynamic
    cmd,        \* the command that runs, or ran last
    file,       \* the file it is copying
    pc,         \* what it is doing with it
    in, out,    \* the open FILs
    hpos,       \* position in the host's file
    chunk,      \* buffer of the command
    todo,       \* bytes that f_read still has to fetch
    rest,       \* bytes that f_write still has to store
    got,        \* what get has written to the host
    lost,       \* the host has taken less of it than it was given
    full,       \* the command has met a full volume
    res,        \* result of the command
    errs        \* failed transfers so far

volVars == <<data, entry, chain, used, room>>
bufVars == <<chunk, todo, rest>>
filVars == <<in, out>>
cmdVars == <<cmd, file, hpos, got, lost, full>>
vars == <<host, names, csize, volVars, filVars, cmdVars, pc, bufVars, res, errs>>

Absent == [size |-> -1, rooted |-> FALSE]
Empty == [size |-> 0, rooted |-> FALSE]
Files == DOMAIN host
Closed == [vol |-> 0, fptr |-> 0, fsize |-> 0, csect |-> 0, clust |-> 0,
           dsect |-> NoSector, dirty |-> FALSE, buf |-> <<>>]

(* clust2sect.  Sectors behind the last cluster do not belong to a file.   *)
Sector(v, c, k) == (c - 1) * csize[v] + k
SectorsOf(v) == 0 .. (NClust * csize[v] + BufferSize)
Free(v) == Clusters \ used[v]

(* What a file holds for a program that reads the image: the bytes of its  *)
(* clusters, cut at the size in the entry.  An entry is rooted if its      *)
(* start cluster is that of the chain.                                     *)
Bytes(v, c) == FlattenSeq([k \in 1 .. csize[v] |-> data[v][Sector(v, c, k - 1)]])

Stored(v, f) ==
    LET all == FlattenSeq([i \in DOMAIN chain[v][f] |-> Bytes(v, chain[v][f][i])])
    IN IF entry[v][f].rooted THEN SubSeq(all, 1, Min({entry[v][f].size, Len(all)})) ELSE <<>>

Init ==
    /\ names \in Names
    /\ \E l \in Lengths : Len(l) = Len(names) /\ host = [f \in DOMAIN l |-> [i \in 1 .. l[f] |-> <<f, i>>]]
    /\ csize \in [Volumes -> CSizes]
    /\ data = [v \in Volumes |-> [s \in SectorsOf(v) |-> [b \in 1 .. SS |-> Garbage]]]
    /\ entry = [v \in Volumes |-> [f \in Files |-> Absent]]
    /\ chain = [v \in Volumes |-> [f \in Files |-> <<>>]]
    /\ used = [v \in Volumes |-> {}]
    /\ room \in [Volumes -> Rooms]
    /\ cmd = "none" /\ file = 0 /\ pc = "idle"
    /\ in = Closed /\ out = Closed
    /\ hpos = 0 /\ chunk = <<>> /\ todo = 0 /\ rest = <<>> /\ got = <<>> /\ lost = FALSE
    /\ full = FALSE /\ res = "ok" /\ errs = 0

Fault == errs < MaxErrors /\ errs' = errs + 1

-----------------------------------------------------------------------------
(* The commands: put all files, get one, rebuild.  What get and rebuild    *)
(* read, a put has stored.                                                 *)
Begin(c, f) ==
    /\ pc = "idle"
    /\ cmd' = c /\ file' = f /\ pc' = "open"
    /\ hpos' = 0 /\ got' = <<>> /\ lost' = FALSE /\ full' = FALSE /\ res' = "ok"
    /\ UNCHANGED <<host, names, csize, volVars, filVars, bufVars, errs>>

Put == cmd = "none" /\ Begin("put", 1)
PutAgain == cmd = "get" /\ Begin("put", 1)
Get == cmd = "put" /\ \E f \in Files : entry[0][f] # Absent /\ Begin("get", f)
Rebuild == cmd = "put" /\ Begin("rebuild", 1)

(* The variables of one file's copy.                                       *)
Cleared == in' = Closed /\ out' = Closed /\ hpos' = 0 /\ chunk' = <<>> /\ todo' = 0 /\ rest' = <<>>
End == pc' = "idle" /\ UNCHANGED file /\ Cleared

(* The next file, or the end: put and rebuild report success whatever      *)
(* became of the files.                                                    *)
NextFile ==
    IF cmd # "get" /\ file + 1 \in Files
    THEN pc' = "open" /\ file' = file + 1 /\ Cleared
    ELSE End

(* The file is given up: put goes on with the next one, get fails, rebuild *)
(* ends.                                                                   *)
GiveUp ==
    /\ res' = IF cmd = "get" THEN "error" ELSE res
    /\ IF cmd = "put" THEN NextFile ELSE End

Opened(v, size) ==
    [Closed EXCEPT !.vol = v, !.fsize = size, !.csect = csize[v], !.buf = [b \in 1 .. SS |-> Garbage]]

Reads == cmd \in {"get", "rebuild"}
Target == IF cmd = "put" THEN 0 ELSE 1

(* f_open finds no entry and dir_register has no room for one, at the end  *)
(* of a static table, or the entry may not be written to: read-only, a     *)
(* directory, a name that is not valid or has used up its numbers.         *)
NoRoom(v, f) == room[v] # Dynamic /\ room[v] < names[f].need
Refused ==
    \/ cmd = "put" /\ names[file].barred
    \/ entry[Target][file] = Absent /\ NoRoom(Target, file)

(* dir_register takes n entries, and a cluster if the table is stretched.  *)
Registered(n) == [room EXCEPT ![Target] = IF @ = Dynamic THEN @ ELSE @ - n]
Stretches ==
    IF entry[Target][file] = Absent /\ room[Target] = Dynamic
    THEN {{}} \cup {{c} : c \in Free(Target)} ELSE {{}}
Grown(released, taken) == used' = [used EXCEPT ![Target] = (@ \ released) \cup taken]

(* FA_CREATE_ALWAYS frees the chain that the entry has, and empties it.    *)
Created(released, taken) ==
    /\ entry' = [entry EXCEPT ![Target][file] = Empty]
    /\ chain' = [chain EXCEPT ![Target][file] = <<>>]
    /\ Grown(released, taken)
    /\ room' = IF entry[Target][file] = Absent THEN Registered(names[file].need) ELSE room

Open ==
    /\ pc = "open"
    /\ Reads => entry[0][file] # Absent
    /\ in' = IF Reads THEN Opened(0, entry[0][file].size) ELSE Closed
    /\ IF cmd = "get" THEN UNCHANGED <<entry, chain, used, room, out>>
       ELSE /\ ~Refused /\ out' = Opened(Target, 0)
            /\ \E taken \in Stretches :
                  Created(IF entry[Target][file].rooted THEN ToSet(chain[Target][file]) ELSE {}, taken)
    /\ pc' = "fetch"
    /\ UNCHANGED <<host, names, csize, data, cmdVars, bufVars, res, errs>>

OpenSkips ==
    /\ pc = "open" /\ Reads /\ entry[0][file] = Absent
    /\ NextFile
    /\ UNCHANGED <<host, names, csize, volVars, cmd, got, lost, full, res, errs>>

(* No transfer fails, but the entry is refused or there is no cluster for  *)
(* the table to grow.                                                      *)
OpenDenied ==
    /\ pc = "open" /\ cmd # "get" /\ (Reads => entry[0][file] # Absent)
    /\ \/ Refused /\ UNCHANGED full
       \/ /\ ~Refused /\ entry[Target][file] = Absent
          /\ room[Target] = Dynamic /\ Free(Target) = {} /\ full' = TRUE
    /\ GiveUp
    /\ UNCHANGED <<host, names, csize, volVars, cmd, got, lost, errs>>

(* A transfer fails: at once, or in dir_register, whose long name entries  *)
(* and cluster stay, or when the entry has been emptied and its chain is   *)
(* not freed, or not all of it.                                            *)
OpenFails ==
    /\ pc = "open" /\ Fault
    /\ \/ UNCHANGED <<entry, chain, used, room>>
       \/ /\ cmd # "get" /\ ~Refused /\ entry[Target][file] = Absent
          /\ \E taken \in Stretches, n \in 0 .. names[file].need :
                Grown({}, taken) /\ room' = Registered(n)
          /\ UNCHANGED <<entry, chain>>
       \/ /\ cmd # "get" /\ ~Refused /\ entry[Target][file].rooted
          /\ \E n \in 0 .. Len(chain[Target][file]) - 1 :
                Created(ToSet(SubSeq(chain[Target][file], 1, n)), {})
    /\ GiveUp
    /\ UNCHANGED <<host, names, csize, data, cmd, got, lost, full>>

(* fread, or f_read of as much as the file still has.                      *)
FetchHost ==
    /\ pc = "fetch" /\ ~Reads
    /\ chunk' = SubSeq(host[file], hpos + 1, Min({hpos + BufferSize, Len(host[file])}))
    /\ hpos' = hpos + Len(chunk')
    /\ rest' = chunk' /\ pc' = "write"
    /\ UNCHANGED <<host, names, csize, volVars, filVars, cmd, file, todo, got, lost, full, res, errs>>

(* The host's file cannot be read: f_close is not called.                  *)
FetchHostFails ==
    /\ pc = "fetch" /\ ~Reads /\ Fault
    /\ GiveUp
    /\ UNCHANGED <<host, names, csize, volVars, cmd, got, lost, full>>

FetchFile ==
    /\ pc = "fetch" /\ Reads
    /\ chunk' = <<>> /\ todo' = Min({BufferSize, in.fsize - in.fptr})
    /\ pc' = "read"
    /\ UNCHANGED <<host, names, csize, volVars, filVars, cmdVars, rest, res, errs>>

-----------------------------------------------------------------------------
(* f_read.  On a cluster boundary it goes to the next cluster.             *)
AtSector(fp) == fp.fptr % SS = 0
AtCluster(fp) == AtSector(fp) /\ fp.csect >= csize[fp.vol]
Place(fp) == [cl |-> IF AtCluster(fp) THEN chain[fp.vol][file][1 + fp.fptr \div (SS * csize[fp.vol])]
                                      ELSE fp.clust,
              k |-> IF AtCluster(fp) THEN 0 ELSE fp.csect]

(* Whole sectors are transferred at once, up to the end of the cluster.    *)
WholeFirst(fp, k, bytes) == Min({bytes \div SS, csize[0] - k})
Whole(fp, k, bytes) == Min({bytes \div SS, csize[fp.vol] - k})

ReadWhole ==
    /\ pc = "read" /\ AtSector(in) /\ todo >= SS
    /\ LET at == Place(in)
           n == Whole(in, at.k, todo)
           s == Sector(in.vol, at.cl, at.k)
       IN /\ chunk' = chunk \o FlattenSeq([i \in 1 .. n |-> data[in.vol][s + i - 1]])
          /\ in' = [in EXCEPT !.clust = at.cl, !.csect = at.k + n, !.fptr = @ + n * SS]
          /\ todo' = todo - n * SS
    /\ UNCHANGED <<host, names, csize, volVars, out, cmdVars, pc, rest, res, errs>>

(* The rest of a sector comes by way of the sector buffer.                 *)
NotRefilled(fp, s) == fp.buf
Refilled(fp, s) == IF s = fp.dsect THEN fp.buf ELSE data[fp.vol][s]

ReadPart ==
    /\ pc = "read" /\ todo > 0 /\ (AtSector(in) => todo < SS)
    /\ LET at == Place(in)
           s == IF AtSector(in) THEN Sector(in.vol, at.cl, at.k) ELSE in.dsect
           buf == Refilled(in, s)
           from == in.fptr % SS
           n == Min({SS - from, todo})
       IN /\ chunk' = chunk \o SubSeq(buf, from + 1, from + n)
          /\ in' = [in EXCEPT !.clust = at.cl, !.csect = IF AtSector(in) THEN at.k + 1 ELSE @,
                              !.dsect = s, !.buf = buf, !.fptr = @ + n]
          /\ todo' = todo - n
    /\ UNCHANGED <<host, names, csize, volVars, out, cmdVars, pc, rest, res, errs>>

ReadFails ==
    /\ pc = "read" /\ todo > 0 /\ Fault
    /\ IF cmd = "rebuild" THEN pc' = "drop" /\ UNCHANGED <<file, filVars, hpos, bufVars, res>>
                          ELSE GiveUp
    /\ UNCHANGED <<host, names, csize, volVars, cmd, got, lost, full>>

ReadDone ==
    /\ pc = "read" /\ todo = 0
    /\ IF cmd = "get" THEN pc' = "next" /\ got' = got \o chunk /\ UNCHANGED rest
                      ELSE pc' = "write" /\ rest' = chunk /\ UNCHANGED got
    /\ UNCHANGED <<host, names, csize, volVars, filVars, cmd, file, hpos, lost, chunk, todo, full, res, errs>>

(* The host takes less than get gives it, or loses what it had buffered:   *)
(* get does not look at the results of fwrite and fclose.                  *)
HostTakes(bytes) == lost' = TRUE /\ \E n \in 0 .. Len(bytes) - 1 : got' = SubSeq(bytes, 1, n)

HostWriteFails ==
    /\ pc = "read" /\ todo = 0 /\ cmd = "get" /\ Fault
    /\ HostTakes(got \o chunk)
    /\ pc' = "next"
    /\ UNCHANGED <<host, names, csize, volVars, filVars, cmd, file, hpos, bufVars, full, res>>

-----------------------------------------------------------------------------
(* f_write appends to the file.  It needs another cluster when its last    *)
(* one is used up; if there is none it ends the call without an error.     *)
NotFlushed(fp) == data[fp.vol]
Flushed(fp) ==
    IF fp.dirty THEN [data[fp.vol] EXCEPT ![fp.dsect] = fp.buf] ELSE data[fp.vol]

(* Dirty data first, then whole sectors straight from the command's        *)
(* buffer.  A sector buffer that holds one of them is refreshed.           *)
WriteWhole(cl, k) ==
    LET fp == out
        n == Whole(fp, k, Len(rest))
        s == Sector(fp.vol, cl, k)
        moved == [i \in 1 .. n |-> SubSeq(rest, (i - 1) * SS + 1, i * SS)]
    IN /\ data' = [data EXCEPT ![fp.vol] = [t \in DOMAIN @ |->
                      IF t \in s .. (s + n - 1) THEN moved[t - s + 1] ELSE Flushed(fp)[t]]]
       /\ out' = [fp EXCEPT !.clust = cl, !.csect = k + n, !.fptr = @ + n * SS, !.dirty = FALSE,
                            !.buf = IF fp.dsect \in s .. (s + n - 1) THEN moved[fp.dsect - s + 1] ELSE @]
       /\ rest' = SubSeq(rest, n * SS + 1, Len(rest))

(* Less than a sector is put into the sector buffer.                       *)
WritePart(cl, k) ==
    LET fp == out
        from == fp.fptr % SS
        n == Min({SS - from, Len(rest)})
        s == IF AtSector(fp) THEN Sector(fp.vol, cl, k) ELSE fp.dsect
    IN /\ data' = [data EXCEPT ![fp.vol] = IF AtSector(fp) THEN Flushed(fp) ELSE @]
       /\ out' = [fp EXCEPT !.clust = cl, !.csect = IF AtSector(fp) THEN k + 1 ELSE @,
                            !.dsect = s, !.dirty = TRUE, !.fptr = @ + n,
                            !.buf = [b \in 1 .. SS |-> IF b \in (from + 1) .. (from + n)
                                                       THEN rest[b - from] ELSE @[b]]]
       /\ rest' = SubSeq(rest, n + 1, Len(rest))

WriteTurn(cl, k) ==
    IF AtSector(out) /\ Len(rest) >= SS THEN WriteWhole(cl, k) ELSE WritePart(cl, k)

Linked(c) ==
    /\ chain' = [chain EXCEPT ![out.vol][file] = Append(@, c)]
    /\ used' = [used EXCEPT ![out.vol] = @ \cup {c}]

Write ==
    /\ pc = "write" /\ rest # <<>>
    /\ \/ ~AtCluster(out) /\ WriteTurn(out.clust, out.csect) /\ UNCHANGED <<chain, used>>
       \/ AtCluster(out) /\ \E c \in Free(out.vol) : Linked(c) /\ WriteTurn(c, 0)
    /\ UNCHANGED <<host, names, csize, entry, room, in, cmdVars, pc, chunk, todo, res, errs>>

WriteKeepsTrying ==
    /\ pc = "write" /\ rest # <<>> /\ AtCluster(out) /\ Free(out.vol) = {}
    /\ UNCHANGED vars

WriteStops ==
    /\ pc = "write" /\ rest # <<>> /\ AtCluster(out) /\ Free(out.vol) = {}
    /\ full' = TRUE /\ rest' = <<>>
    /\ UNCHANGED <<host, names, csize, volVars, filVars, cmd, file, hpos, got, lost, pc, chunk, todo, res, errs>>

(* A failed transfer, before or after another cluster was linked and the   *)
(* sector buffer written.  The size stays what the last f_write made it.   *)
WriteFails ==
    /\ pc = "write" /\ rest # <<>> /\ Fault
    /\ \/ UNCHANGED <<chain, used>>
       \/ AtCluster(out) /\ \E c \in Free(out.vol) : Linked(c)
    /\ \/ UNCHANGED <<data, out>>
       \/ /\ AtSector(out) /\ out.dirty
          /\ data' = [data EXCEPT ![out.vol] = Flushed(out)]
          /\ out' = [out EXCEPT !.dirty = FALSE]
    /\ pc' = "drop"
    /\ UNCHANGED <<host, names, csize, entry, room, in, cmdVars, bufVars, res>>

WriteDone ==
    /\ pc = "write" /\ rest = <<>>
    /\ out' = [out EXCEPT !.fsize = out.fptr]
    /\ pc' = "next"
    /\ UNCHANGED <<host, names, csize, volVars, in, cmdVars, bufVars, res, errs>>

(* The command goes on as long as its buffer was filled.                   *)
NeverMore == FALSE
More == Len(chunk) = BufferSize

NextChunk ==
    /\ pc = "next"
    /\ pc' = IF More THEN "fetch" ELSE "close"
    /\ UNCHANGED <<host, names, csize, volVars, filVars, cmdVars, bufVars, res, errs>>

-----------------------------------------------------------------------------
(* f_close, which calls f_sync: the sector buffer goes to the image, then  *)
(* size and start cluster to the entry.  The commands ignore its result.   *)
(* It ends a file that was copied and one that is given up.                *)
SyncData == data' = [data EXCEPT ![out.vol] = Flushed(out)]
SyncEntry ==
    entry' = [entry EXCEPT ![out.vol][file] =
                 [size |-> out.fsize, rooted |-> chain[out.vol][file] # <<>>]]

(* The first transfer of f_sync fails, or a later one.                     *)
SyncFails ==
    /\ Fault
    /\ \/ UNCHANGED <<data, entry>>
       \/ SyncData /\ UNCHANGED entry
       \/ SyncData /\ SyncEntry

Close ==
    /\ pc = "close"
    /\ IF cmd = "get" THEN UNCHANGED <<data, entry>> ELSE SyncData /\ SyncEntry
    /\ NextFile
    /\ UNCHANGED <<host, names, csize, chain, used, room, cmd, got, lost, full, res, errs>>

CloseFails ==
    /\ pc = "close" /\ cmd # "get" /\ SyncFails
    /\ NextFile
    /\ UNCHANGED <<host, names, csize, chain, used, room, cmd, got, lost, full, res>>

HostCloseFails ==
    /\ pc = "close" /\ cmd = "get" /\ Fault
    /\ HostTakes(got)
    /\ NextFile
    /\ UNCHANGED <<host, names, csize, volVars, cmd, full, res>>

Drop ==
    /\ pc = "drop"
    /\ \/ SyncData /\ SyncEntry /\ UNCHANGED errs
       \/ SyncFails
    /\ GiveUp
    /\ UNCHANGED <<host, names, csize, chain, used, room, cmd, got, lost, full>>

Next ==
    \/ Put \/ PutAgain \/ Get \/ Rebuild
    \/ Open \/ OpenSkips \/ OpenDenied \/ OpenFails
    \/ FetchHost \/ FetchHostFails \/ FetchFile
    \/ ReadWhole \/ ReadPart \/ ReadFails \/ ReadDone \/ HostWriteFails
    \/ Write \/ WriteStops \/ WriteFails \/ WriteDone
    \/ NextChunk \/ Close \/ CloseFails \/ HostCloseFails \/ Drop

(* A command that runs goes on.                                            *)
Running == pc # "idle" /\ Next

Spec == Init /\ [][Next]_vars /\ WF_vars(Running)

-----------------------------------------------------------------------------
(* Whatever transfer fails, a file on an image is at every moment the      *)
(* beginning of the file it was copied from: an entry never covers bytes   *)
(* that have not been written (f_sync, ff.c:1992).                         *)
StoredIsPrefix ==
    \A v \in Volumes, f \in Files : IsPrefix(Stored(v, f), host[f])

(* When put has ended, at most one file is incomplete for each failed      *)
(* transfer: put goes on after a file it cannot copy (hdfmonkey.c:344).    *)
(* Only a full volume may cut more of them off (hdfmonkey.c:372).  Files   *)
(* that f_open refuses are not among them: those it may not write to       *)
(* (ff.c:1715) and those a static root has no entries for (ff.c:614).      *)
Excused(f) == names[f].barred \/ (entry[0][f] = Absent /\ NoRoom(0, f))
OnlyFailedMissing ==
    cmd = "put" /\ pc = "idle" /\ ~full =>
        Cardinality({f \in Files : ~Excused(f) /\ Stored(0, f) # host[f]}) <= errs

(* A get that reports success has written exactly the file, unless the     *)
(* host has taken less than it was given, which get does not notice        *)
(* (cmd_get, hdfmonkey.c:289 to 305).                                      *)
GetExact ==
    cmd = "get" /\ pc = "idle" /\ res = "ok" /\ ~lost => got = Stored(0, file)

(* A rebuild without failing transfers onto a volume that is not full has  *)
(* copied every file of the source, up to the first that a static root of  *)
(* the new volume has no entries for (copy_dir, hdfmonkey.c:784).          *)
Unfit(g) == entry[0][g] # Absent /\ entry[1][g] = Absent /\ NoRoom(1, g)
RebuildCopies ==
    cmd = "rebuild" /\ pc = "idle" /\ errs = 0 /\ ~full =>
        \A f \in Files :
            \/ Stored(1, f) = Stored(0, f)
            \/ \E g \in 1 .. f : Unfit(g)

(* Every command comes to its end, also on a full volume.                  *)
CommandsEnd == []<>(pc = "idle")
=============================================================================
