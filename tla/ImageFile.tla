----------------------------- MODULE ImageFile ------------------------------
(***************************************************************************)
(* Disk images as files (image_file.c), the driver's disk functions on top *)
(* of them (diskio.c), and the command clone.                              *)
(*                                                                         *)
(* A file is a sequence of units; a sector is two units, or one in an HDF  *)
(* image that stores only half of each sector.  The header of an HDF image *)
(* fills its first HDF_HEADER_SIZE units: the preamble that opening reads  *)
(* (bytes 0 to 10), the identity (geometry and sector count), and zeros.   *)
(* open, lseek, read and write belong to the operating system: a read or a *)
(* write transfers as many units as it likes, at least one, or fails; at   *)
(* most MaxErrors system calls fail.                                       *)
(***************************************************************************)
EXTENDS Integers, Sequences

CONSTANTS
    Files,             \* names of files
    HdfNames,          \* those that end in .hdf, for filename_is_hdf
    NoFile,            \* no file
    Values,            \* contents of sectors
    Counts,            \* sector counts asked for
    Foreign,           \* files that exist at the start, made elsewhere
    Halved,            \* values of the halved bit in the headers of Foreign
    HDF_HEADER_SIZE,   \* units of the header
    OffsetLow,         \* what the low byte of the data offset, 0x16, says alone
    CountRange,        \* sector counts that four bytes tell apart: 2^32
    IntRange,          \* units that the type int can tell apart: 2^32 bytes
    CLONE_BUFFER_SIZE, \* units of clone's buffer
    MaxHeads, MaxSectors, MaxCylinders,    \* 16, 63, 16383: largest geometry
    MaxErrors          \* bound on failing system calls

ASSUME FilesAssumption == NoFile \notin Files /\ HdfNames \subseteq Files /\ Foreign \subseteq Files
ASSUME CountsAssumption == Counts \subseteq Nat \ {0}
ASSUME HalvedAssumption == Halved \subseteq BOOLEAN
ASSUME SizesAssumption ==
    /\ {CLONE_BUFFER_SIZE, MaxHeads, MaxSectors, MaxCylinders, CountRange, IntRange} \subseteq Nat \ {0}
    /\ HDF_HEADER_SIZE \in Nat \ {0, 1} /\ OffsetLow \in 0 .. HDF_HEADER_SIZE
    /\ MaxErrors \in Nat

Drives == {0, 1}
Full == 2          \* units of a sector of 512 bytes, and of one of 256 bytes
Half == 1

(* Unit i of contents v: the two units of a sector differ.                 *)
Data(v, i) == <<"data", v, i % Full>>
Zero == <<"data", 0, 0>>
Zeros(n) == [i \in 1 .. n |-> Zero]

-----------------------------------------------------------------------------
(* hdf_write_header: the geometry for a disk of c sectors, and the header. *)
NoFactor(n, top) == top

LargestFactor(n, top) ==
    CHOOSE k \in 1 .. top : n % k = 0 /\ \A j \in (k + 1) .. top : n % j # 0

DummyGeometry == <<MaxCylinders, MaxHeads, MaxSectors>>

Geometry(c) ==
    LET heads == LargestFactor(c, MaxHeads)
        spt   == LargestFactor(c \div heads, MaxSectors)
        cyl   == (c \div heads) \div spt
    IN IF c >= MaxCylinders * MaxHeads * MaxSectors \/ cyl > MaxCylinders + 1
       THEN DummyGeometry
       ELSE <<cyl, heads, spt>>

Preamble(halved, offset) == <<"hdf", halved, offset>>

(* The sector count has four bytes in the identity.                        *)
Identity(c) == <<"id", Geometry(c), c % CountRange>>

HeaderMisplaced(c) ==
    <<Preamble(FALSE, HDF_HEADER_SIZE - 1), Identity(c)>> \o Zeros(HDF_HEADER_SIZE - 2)

Header(c) == <<Preamble(FALSE, HDF_HEADER_SIZE), Identity(c)>> \o Zeros(HDF_HEADER_SIZE - 2)

(* What the write that does not get through unit i of the header leaves of *)
(* it: a signature whose data offset is missing or half there, a geometry  *)
(* without the sector count.                                               *)
Cut(c, i) ==
    {Zero} \cup IF i = 1 THEN {Preamble(FALSE, 0), Preamble(FALSE, OffsetLow)}
               ELSE IF i = 2 THEN {<<"id", Geometry(c), 0>>} ELSE {}

(* image_file_is_hdf, hdf_image_open and raw_image_open.  A file shorter   *)
(* than its data offset lacks less than a sector of it: no sectors.        *)
IsHdf(content) == content # <<>> /\ Head(content)[1] = "hdf"

HdfVolume(f, content) ==
    LET bps    == IF Head(content)[2] THEN Half ELSE Full
        offset == Head(content)[3]
    IN [file |-> f, offset |-> offset, bps |-> bps,
        count |-> IF Len(content) < offset THEN 0 ELSE (Len(content) - offset) \div bps]

RawVolume(f, content) ==
    [file |-> f, offset |-> 0, bps |-> Full, count |-> Len(content) \div Full]

Volume(f, content) == IF IsHdf(content) THEN HdfVolume(f, content) ELSE RawVolume(f, content)

NoVolume == [file |-> NoFile, offset |-> 0, bps |-> Full, count |-> 0]

(* The volume container that hdf_image_create and raw_image_create fill in *)
CreatedAtZero(f, c) == [file |-> f, offset |-> 0, bps |-> Full, count |-> c]

Created(f, c) ==
    [file |-> f, offset |-> IF f \in HdfNames THEN HDF_HEADER_SIZE ELSE 0, bps |-> Full, count |-> c]

-----------------------------------------------------------------------------
VARIABLES
    exists,    \* the files that exist
    file,      \* their contents
    vol,       \* volume_containers: the volume of each drive
    misread,   \* history: drive 0 has an HDF image that was taken for a raw one
    damaged,   \* history: files whose header a failed call has cost, and clones of them
    pc,        \* what runs: "idle", "header", "io", or the loop of "clone"
    command,   \* whose call it is: "create", "disk" or "clone"
    io,        \* the transfer: op, drive, position, length, units done, buffer
    made,      \* units of the header written, and of which sector count
    position,  \* clone: bytes copied
    ret,       \* result of the last call: "none", "OK", "ERR"
    errs       \* failed system calls

vars == <<exists, file, vol, misread, damaged, pc, command, io, made, position, ret, errs>>

NoIo == [op |-> "none", drive |-> 0, pos |-> 0, len |-> 0, done |-> 0, buf |-> <<>>]
NotMade == [done |-> 0, count |-> 0]

(* A foreign HDF image holds its own data behind its header.               *)
ForeignImage(halved, c, v) ==
    <<Preamble(halved, HDF_HEADER_SIZE), <<"id", DummyGeometry, c % CountRange>>>>
        \o Zeros(HDF_HEADER_SIZE - 2)
        \o [i \in 1 .. (c * (IF halved THEN Half ELSE Full)) |-> Data(v, i)]

Init ==
    /\ exists = Foreign
    /\ \E h \in [Foreign -> Halved], c \in [Foreign -> Counts], v \in [Foreign -> Values] :
           file = [f \in Files |-> IF f \in Foreign THEN ForeignImage(h[f], c[f], v[f]) ELSE <<>>]
    /\ vol = [d \in Drives |-> NoVolume] /\ misread = FALSE /\ damaged = {}
    /\ pc = "idle" /\ command = "disk" /\ io = NoIo /\ made = NotMade /\ position = 0
    /\ ret = "none" /\ errs = 0

Fault == errs < MaxErrors /\ errs' = errs + 1

(* The running call ends with result r; clone closes both volumes.         *)
Finish(r) ==
    /\ pc' = "idle" /\ ret' = r /\ position' = 0
    /\ vol' = IF command = "clone" THEN [d \in Drives |-> NoVolume] ELSE vol
    /\ misread' = (misread /\ command # "clone")

-----------------------------------------------------------------------------
(* open_image.  image_file_is_hdf says no when its own open fails, or its  *)
(* read of the signature does or ends short: the image is then opened as a *)
(* raw one.                                                                *)
Openings(f) ==
    {[vol |-> Volume(f, file[f]), misread |-> FALSE, errs |-> errs]}
        \cup IF errs < MaxErrors
             THEN {[vol |-> RawVolume(f, file[f]), misread |-> IsHdf(file[f]), errs |-> errs + 1]}
             ELSE {}

OpenImage(f) ==
    /\ pc = "idle" /\ f \in exists /\ vol[0] = NoVolume
    /\ command' = "disk" /\ io' = NoIo
    /\ \/ \E o \in Openings(f) :
              vol' = [vol EXCEPT ![0] = o.vol] /\ misread' = o.misread /\ errs' = o.errs /\ ret' = "OK"
       \/ Fault /\ ret' = "ERR" /\ UNCHANGED <<vol, misread>>    \* in raw_ or hdf_image_open
    /\ UNCHANGED <<exists, file, damaged, pc, made, position>>

CloseImage ==
    /\ pc = "idle" /\ vol[0] # NoVolume
    /\ vol' = [vol EXCEPT ![0] = NoVolume] /\ misread' = FALSE
    /\ ret' = "none" /\ io' = NoIo
    /\ UNCHANGED <<exists, file, damaged, pc, command, made, position, errs>>

-----------------------------------------------------------------------------
(* raw_image_create and hdf_image_create for drive d: open with O_TRUNC,   *)
(* ftruncate to the full size, and for HDF the header.  The name decides   *)
(* which of the two it is.  source is what the call has opened before.     *)
AfterCreate(f) == IF f \in HdfNames THEN "header" ELSE IF command' = "clone" THEN "clone" ELSE "idle"

Blank(f, c) == Zeros(c * Full + (IF f \in HdfNames THEN HDF_HEADER_SIZE ELSE 0))

Clean(source) == ~source.misread /\ source.vol.file \notin damaged

CreateFile(d, f, c, source) ==
    \/ /\ exists' = exists \cup {f} /\ file' = [file EXCEPT ![f] = Blank(f, c)]
       /\ vol' = [[vol EXCEPT ![0] = source.vol] EXCEPT ![d] = Created(f, c)]
       /\ misread' = source.misread
       /\ damaged' = IF Clean(source) THEN damaged \ {f} ELSE damaged \cup {f}
       /\ made' = IF f \in HdfNames THEN [done |-> 0, count |-> c] ELSE NotMade
       /\ pc' = AfterCreate(f)
       /\ ret' = IF pc' = "idle" THEN "OK" ELSE "none"
       /\ errs' = source.errs
    \/ /\ source.errs < MaxErrors /\ errs' = source.errs + 1
       /\ \/ UNCHANGED <<exists, file, damaged>>      \* open fails
          \/ /\ exists' = exists \cup {f}            \* ftruncate fails: the file is left empty
             /\ file' = [file EXCEPT ![f] = <<>>] /\ damaged' = damaged \ {f}
       /\ pc' = "idle" /\ ret' = "ERR"
       /\ UNCHANGED <<vol, misread, made>>

(* cmd_create makes a new image.                                           *)
Create(f, c) ==
    /\ pc = "idle" /\ vol[0] = NoVolume
    /\ command' = "create"
    /\ CreateFile(0, f, c, [vol |-> NoVolume, misread |-> FALSE, errs |-> errs])
    /\ io' = NoIo
    /\ UNCHANGED position

(* The loop that writes the header: one write, or its failure.             *)
NewFile == IF command = "clone" THEN vol[1].file ELSE vol[0].file

HeaderTurn(k) ==
    /\ pc = "header"
    /\ k \in 1 .. (HDF_HEADER_SIZE - made.done)
    /\ file' = [file EXCEPT ![NewFile] =
                   [i \in DOMAIN @ |-> IF i \in (made.done + 1) .. (made.done + k)
                                       THEN Header(made.count)[i] ELSE @[i]]]
    /\ \/ /\ made.done + k < HDF_HEADER_SIZE
          /\ made' = [made EXCEPT !.done = @ + k]
          /\ UNCHANGED <<pc, ret>>
       \/ /\ made.done + k = HDF_HEADER_SIZE
          /\ made' = NotMade
          /\ \/ command = "clone" /\ pc' = "clone" /\ UNCHANGED ret
             \/ command = "create" /\ pc' = "idle" /\ ret' = "OK"
    /\ UNCHANGED <<exists, vol, misread, damaged, command, io, position, errs>>

(* A write fails, after one that may have got into the next unit.          *)
HeaderError ==
    /\ pc = "header"
    /\ Fault
    /\ \E u \in Cut(made.count, made.done + 1) :
           file' = [file EXCEPT ![NewFile] = [@ EXCEPT ![made.done + 1] = u]]
    /\ damaged' = damaged \cup {NewFile}
    /\ pc' = "idle" /\ ret' = "ERR"
    /\ vol' = [d \in Drives |-> NoVolume] /\ misread' = FALSE /\ made' = NotMade
    /\ UNCHANGED <<exists, command, io, position>>

-----------------------------------------------------------------------------
(* image_file_read and image_file_write of len units at pos of drive d.    *)
(* The result of lseek is kept in an int and taken for an error when       *)
(* negative.                                                               *)
SeekFailsHigh(p) == p % IntRange >= IntRange \div 8

SeekFails(p) == p % IntRange >= IntRange \div 2

PlainPosition(d, p) == p

FilePosition(d, p) == p + vol[d].offset

Transfer(op, d, p, len, buf) ==
    /\ io' = [op |-> op, drive |-> d, pos |-> FilePosition(d, p), len |-> len, done |-> 0, buf |-> buf]
    /\ \/ SeekFails(FilePosition(d, p)) /\ Finish("ERR")
       \/ ~SeekFails(FilePosition(d, p)) /\ pc' = "io" /\ ret' = "none"
                                        /\ UNCHANGED <<vol, misread, position>>

(* disk_read and disk_write.  The driver names sectors of the volume only  *)
(* (module Mkfs, DataInside).                                              *)
Sectors == {x \in (0 .. vol[0].count) \X (1 .. vol[0].count) : x[1] + x[2] <= vol[0].count}

DiskRead(s, n) ==
    /\ pc = "idle" /\ vol[0] # NoVolume
    /\ <<s, n>> \in Sectors
    /\ command' = "disk"
    /\ Transfer("read", 0, s * vol[0].bps, n * vol[0].bps, Zeros(n * vol[0].bps))
    /\ UNCHANGED <<exists, file, damaged, made, errs>>

DiskWrite(s, n, v) ==
    /\ pc = "idle" /\ vol[0] # NoVolume
    /\ <<s, n>> \in Sectors
    /\ command' = "disk"
    /\ Transfer("write", 0, s * vol[0].bps, n * vol[0].bps, [i \in 1 .. (n * vol[0].bps) |-> Data(v, i)])
    /\ UNCHANGED <<exists, file, damaged, made, errs>>

(* One turn of the transfer loop, in which k units move.                   *)
Target == vol[io.drive].file
Moving(k) == (io.done + 1) .. (io.done + k)

DoneAgain(k) == k

DoneAfter(k) == io.done + k

BufferFromStart(i) == io.buf[i - io.done]

BufferAt(i) == io.buf[i]

TurnRead(k) ==
    /\ pc = "io" /\ io.op = "read"
    /\ k \in 1 .. (io.len - io.done) /\ io.pos + io.done + k <= Len(file[Target])
    /\ io' = [io EXCEPT !.buf = [i \in DOMAIN @ |-> IF i \in Moving(k) THEN file[Target][io.pos + i] ELSE @[i]],
                        !.done = DoneAfter(k)]
    /\ UNCHANGED <<exists, file, vol, misread, damaged, pc, command, made, position, ret, errs>>

TurnWrite(k) ==
    /\ pc = "io" /\ io.op = "write"
    /\ k \in 1 .. (io.len - io.done)
    /\ file' = [file EXCEPT ![Target] =
                   [p \in DOMAIN @ |-> IF p - io.pos \in Moving(k) THEN BufferAt(p - io.pos) ELSE @[p]]]
    /\ damaged' = IF misread THEN damaged \cup {Target} ELSE damaged
    /\ io' = [io EXCEPT !.done = DoneAfter(k)]
    /\ UNCHANGED <<exists, vol, misread, pc, command, made, position, ret, errs>>

(* A system call fails, or read has come to the end of the file.           *)
AtEof == io.op = "read" /\ io.pos + io.done >= Len(file[Target])

TurnError ==
    /\ pc = "io" /\ io.done < io.len
    /\ AtEof \/ errs < MaxErrors
    /\ errs' = IF AtEof THEN errs ELSE errs + 1
    /\ Finish("ERR")
    /\ UNCHANGED <<exists, file, damaged, command, io, made>>

(* All is transferred; clone goes on with what it has read or written.     *)
TurnEnd ==
    /\ pc = "io" /\ io.done = io.len
    /\ \/ command = "disk" /\ Finish("OK") /\ UNCHANGED io
       \/ /\ command = "clone" /\ io.op = "read"
          /\ Transfer("write", 1, position, io.len, io.buf)
       \/ /\ command = "clone" /\ io.op = "write"
          /\ position' = position + io.len
          /\ pc' = "clone" /\ UNCHANGED <<io, vol, misread, ret>>
    /\ UNCHANGED <<exists, file, damaged, command, made, errs>>

-----------------------------------------------------------------------------
(* cmd_clone of image f to file g.  The program does not notice when both  *)
(* are one file, which O_TRUNC then empties; that use is left out.         *)
Clone(f, g) ==
    /\ pc = "idle" /\ vol[0] = NoVolume /\ f \in exists /\ g # f
    /\ command' = "clone" /\ position' = 0 /\ io' = NoIo
    /\ \/ \E source \in Openings(f) : CreateFile(1, g, source.vol.count, source)
       \/ /\ Fault /\ pc' = "idle" /\ ret' = "ERR"      \* in raw_ or hdf_image_open
          /\ UNCHANGED <<exists, file, vol, misread, damaged, made>>

TotalSectors == vol[0].count

TotalSize == vol[0].bps * vol[0].count

ChunkAlways == CLONE_BUFFER_SIZE

Chunk == IF TotalSize - position > CLONE_BUFFER_SIZE THEN CLONE_BUFFER_SIZE ELSE TotalSize - position

CloneTurn ==
    /\ pc = "clone"
    /\ \/ position < TotalSize /\ Transfer("read", 0, position, Chunk, Zeros(Chunk))
       \/ position >= TotalSize /\ Finish("OK") /\ UNCHANGED io
    /\ UNCHANGED <<exists, file, damaged, command, made, errs>>

Step ==
    \/ \E k \in 1 .. HDF_HEADER_SIZE : HeaderTurn(k)
    \/ HeaderError
    \/ \E k \in 1 .. io.len : TurnRead(k) \/ TurnWrite(k)
    \/ TurnError \/ TurnEnd
    \/ CloneTurn

Invoke ==
    \/ \E f \in Files, c \in Counts : Create(f, c)
    \/ \E f \in Files : OpenImage(f)
    \/ CloseImage
    \/ \E x \in Sectors : DiskRead(x[1], x[2]) \/ \E v \in Values : DiskWrite(x[1], x[2], v)
    \/ \E f, g \in Files : Clone(f, g)

Next == Step \/ Invoke

Spec == Init /\ [][Next]_vars

(* The loops run on; a call of the operating system returns.               *)
FairSpec == Spec /\ WF_vars(Step)

-----------------------------------------------------------------------------
Offsets == {0, OffsetLow, HDF_HEADER_SIZE}

IsUnit(u) ==
    \/ u \in {Data(v, i) : v \in Values, i \in 1 .. Full} \cup {Zero}
    \/ u[1] = "hdf" /\ u[2] \in BOOLEAN /\ u[3] \in Offsets
    \/ u[1] = "id" /\ u[3] \in 0 .. (CountRange - 1)

TypeOK ==
    /\ exists \subseteq Files /\ damaged \subseteq exists /\ misread \in BOOLEAN
    /\ \A f \in Files : \A p \in 1 .. Len(file[f]) : IsUnit(file[f][p])
    /\ \A d \in Drives : /\ vol[d].file \in exists \cup {NoFile}
                       /\ vol[d].offset \in Offsets
                       /\ vol[d].bps \in {Half, Full} /\ vol[d].count \in Nat
    /\ pc \in {"idle", "header", "io", "clone"}
    /\ command \in {"create", "disk", "clone"}
    /\ io.op \in {"none", "read", "write"} /\ io.drive \in Drives
    /\ io.done \in 0 .. io.len /\ Len(io.buf) = io.len
    /\ \A i \in 1 .. io.len : IsUnit(io.buf[i])
    /\ made.done \in 0 .. HDF_HEADER_SIZE
    /\ position \in Nat /\ ret \in {"none", "OK", "ERR"} /\ errs \in 0 .. MaxErrors

(* What no failed call has spoilt: the probe of the image has read its     *)
(* signature, and the header of its file is whole.                         *)
Sound(d) == vol[d] # NoVolume /\ ~misread /\ vol[d].file \notin damaged

(* Whatever has been written to an open image, opening its file again      *)
(* gives the same container (format, data offset, sector size and count):  *)
(* always, unless a failed call has had the image taken for a raw one or   *)
(* has kept its header from being written.                                 *)
Reopens ==
    pc # "header" =>
        \A d \in Drives : Sound(d) => Volume(vol[d].file, file[vol[d].file]) = vol[d]

(* A transfer that succeeds has moved every unit to its place, however the *)
(* operating system has cut it up.                                         *)
TransferExact ==
    pc = "idle" /\ ret = "OK" /\ command = "disk" /\ io.op # "none" =>
        \A i \in 1 .. io.len : file[Target][io.pos + i] = io.buf[i]

(* "0 indicates EOF, and it should never happen here" (image_file_read):   *)
(* no transfer goes past the end of its file.                              *)
NeverAtEof == pc = "io" => io.pos + io.len <= Len(file[Target])

(* A disk whose system calls all succeed gives and takes every sector it   *)
(* has.                                                                    *)
EverySectorReachable == errs = 0 => ret # "ERR"

(* When clone reports success the new image has the sectors of the old     *)
(* one ("Make a new image file from a disk or image, possibly in a         *)
(* different container format", help clone), unless a failed call had the  *)
(* source opened as a raw image or has cost it its header: clone reports   *)
(* success then too.                                                       *)
Contents(f) ==
    LET v == Volume(f, file[f])
    IN <<v.bps, v.count, SubSeq(file[f], v.offset + 1, v.offset + v.bps * v.count)>>

CloneFaithful ==
    pc = "clone" /\ position >= TotalSize /\ Sound(0) =>
        Contents(vol[1].file) = Contents(vol[0].file)

(* The header of an HDF image states the number of sectors as far as four  *)
(* bytes can, and a geometry of exactly that many sectors unless it is the *)
(* dummy one.  Only an image whose header is being written, or was spoilt  *)
(* by a failed call, may say something else.                               *)
GeometryExact ==
    \A f \in exists \ damaged :
        IsHdf(file[f]) /\ ~(pc = "header" /\ f = NewFile) =>
            LET chs   == file[f][2][2]
                total == file[f][2][3]
                count == Volume(f, file[f]).count
            IN /\ total = count % CountRange
               /\ chs # DummyGeometry => chs[1] * chs[2] * chs[3] = count

(* Every call comes to an end.                                             *)
CallsReturn == pc # "idle" ~> pc = "idle"
=============================================================================
