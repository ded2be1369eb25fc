-------------------------- MODULE ImageFileProofs ---------------------------
(***************************************************************************)
(* Proofs about ImageFile: what an image file looks like, whoever has made *)
(* or overwritten it, that the transfer loops move every unit to its       *)
(* place, that clone copies every sector, and the geometry of HDF headers. *)
(*                                                                         *)
(* The invariant has four parts: the layout of the files and what the open *)
(* volumes know of them, the control of the calls, the transfer that is    *)
(* under way, and how far clone has come.                                  *)
(***************************************************************************)
EXTENDS ImageFile, NaturalFacts, SequenceTheorems, TLAPS

PlainUnits == {Data(v, i) : v \in Values, i \in 1 .. Full} \cup {Zero}
Preambles == {"hdf"} \X BOOLEAN \X Offsets
Identities == {"id"} \X (Nat \X Nat \X Nat) \X (0 .. (CountRange - 1))
Units == PlainUnits \cup Preambles \cup Identities

UnitsPerSector(u) == IF u[2] THEN Half ELSE Full

(* A file that no failed call has damaged: the fields of a header are in   *)
(* its first units only, and the data follow it.                           *)
Layout(s) ==
    /\ s \in Seq(Units)
    /\ ~IsHdf(s) => \A p \in 1 .. Len(s) : s[p] \in PlainUnits
    /\ IsHdf(s) => /\ s[1][3] = HDF_HEADER_SIZE /\ HDF_HEADER_SIZE <= Len(s)
                   /\ \A p \in (HDF_HEADER_SIZE + 1) .. Len(s) : s[p] \in PlainUnits

(* A header that is complete agrees with the length of the file.           *)
Stated(s) ==
    IsHdf(s) =>
        LET count == Volume(NoFile, s).count
        IN /\ s[2][3] = count % CountRange
           /\ s[2][2] # DummyGeometry => s[2][2][1] * s[2][2][2] * s[2][2][3] = count

Volumes == [file : Files \cup {NoFile}, offset : Offsets, bps : {Half, Full}, count : Nat]

Opened(d) == vol[d] # NoVolume
NewDrive == IF command = "clone" THEN 1 ELSE 0
Finished(f) == ~(pc = "header" /\ f = NewFile)
VolumeEnd(d) == vol[d].offset + vol[d].bps * vol[d].count

(* A new HDF image: the part of its header that is written, and zeros.     *)
PartlyMade(s, c, n) ==
    /\ Len(s) = HDF_HEADER_SIZE + c * Full
    /\ \A i \in 1 .. Len(s) : s[i] = IF i <= n THEN Header(c)[i] ELSE Zero

(* Files and volumes.  A volume that a misread probe has opened, or one in *)
(* a damaged file, is only known to lie inside its file.                   *)
FilesShape ==
    /\ exists \subseteq Files /\ damaged \subseteq exists
    /\ file \in [Files -> Seq(Units)]
    /\ \A f \in Files \ damaged : Layout(file[f])
    /\ \A f \in Files \ damaged : Finished(f) => Stated(file[f])

VolumesShape ==
    /\ vol \in [Drives -> Volumes] /\ misread \in BOOLEAN
    /\ \A d \in Drives : Opened(d) =>
          /\ vol[d].file \in exists
          /\ vol[d].count # 0 => VolumeEnd(d) <= Len(file[vol[d].file])
    /\ \A d \in Drives : Sound(d) /\ ~(pc = "header" /\ d = NewDrive)
                           => Volume(vol[d].file, file[vol[d].file]) = vol[d]

HeaderShape ==
    pc = "header" =>
        /\ NewFile \in HdfNames
        /\ vol[NewDrive] = Created(NewFile, made.count)
        /\ made.done < HDF_HEADER_SIZE
        /\ PartlyMade(file[NewFile], made.count, made.done)

FileShape == FilesShape /\ VolumesShape /\ HeaderShape

CallShape ==
    /\ pc \in {"idle", "header", "io", "clone"}
    /\ command \in {"create", "disk", "clone"}
    /\ ret \in {"none", "OK", "ERR"}
    /\ errs \in 0 .. MaxErrors /\ position \in Nat
    /\ errs = 0 => damaged = {} /\ ~misread
    /\ made \in [done : 0 .. HDF_HEADER_SIZE, count : Nat]
    /\ pc = "header" => command \in {"create", "clone"}
    /\ pc = "io" => command \in {"disk", "clone"}
    /\ pc = "clone" => command = "clone"
    /\ pc # "idle" => Opened(0)
    /\ pc # "idle" /\ command = "clone" <=> Opened(1)
    /\ misread => Opened(0)

(* A transfer stays inside its volume, and what it has moved is in place.  *)
Succeeded == pc = "idle" /\ ret = "OK" /\ command = "disk" /\ io.op # "none"
Transfers == [op : {"none", "read", "write"}, drive : Drives, pos : Nat, len : Nat,
              done : Nat, buf : Seq(Units)]

IoShape ==
    /\ io \in Transfers
    /\ io.done <= io.len /\ Len(io.buf) = io.len
    /\ pc = "io" =>
          /\ io.op # "none" /\ Opened(io.drive) /\ vol[io.drive].count # 0
          /\ vol[io.drive].offset <= io.pos /\ io.pos + io.len <= VolumeEnd(io.drive)
          /\ Sound(io.drive) => io.buf \in Seq(PlainUnits)
    /\ Succeeded => io.done = io.len
    /\ pc = "io" \/ Succeeded => \A i \in 1 .. io.done : file[Target][io.pos + i] = io.buf[i]

(* clone has copied every unit before position.                            *)
Source(i) == file[vol[0].file][vol[0].offset + i]
Copy(i) == file[vol[1].file][vol[1].offset + i]

CloneShape ==
    pc # "idle" /\ command = "clone" =>
        /\ vol[0].file # vol[1].file
        /\ Sound(1) <=> Sound(0)
        /\ vol[1].bps = Full /\ vol[1].count = vol[0].count
        /\ position <= TotalSize
        /\ pc = "header" => position = 0
        /\ pc # "header" => \A i \in 1 .. position : Copy(i) = Source(i)
        /\ pc = "io" => position + io.len <= TotalSize
        /\ pc = "io" /\ io.op = "read" => io.drive = 0 /\ io.pos = position + vol[0].offset
        /\ pc = "io" /\ io.op = "write" =>
              /\ io.drive = 1 /\ io.pos = position + vol[1].offset
              /\ \A i \in 1 .. io.len : io.buf[i] = Source(position + i)

IInv == FileShape /\ CallShape /\ IoShape /\ CloneShape

-----------------------------------------------------------------------------
(* Arithmetic, and the geometry of a header.                               *)
LEMMA Division ==
    ASSUME NEW n \in Nat, NEW k \in Nat \ {0}
    PROVE  n \div k \in Nat /\ (n % k = 0 => n = (n \div k) * k)
  OBVIOUS

LEMMA Halves ==
    ASSUME NEW n \in Nat
    PROVE  /\ (2 * n) \div 2 = n /\ (n * 2) \div 2 = n /\ n \div 1 = n
           /\ n \div 2 \in Nat /\ 2 * (n \div 2) <= n
  OBVIOUS

LEMMA Below ==
    ASSUME NEW a \in Nat, NEW b \in Nat, NEW i \in 1 .. a, NEW len \in Nat, NEW done \in Nat,
           NEW n \in Nat, a + b + len <= n
    PROVE  b + i \in 1 .. n /\ b + i <= a + b + done
  OBVIOUS

LEMMA Products ==
    ASSUME NEW a \in Nat, NEW b \in Nat, NEW c \in Nat
    PROVE  (a * b) * c = a * (b * c) /\ a * b = b * a /\ a * b \in Nat
  OBVIOUS

(* The loop that looks for a factor finds one: 1 divides every number.     *)
LEMMA FactorDivides ==
    ASSUME NEW n \in Nat, NEW top \in Nat \ {0}
    PROVE  LargestFactor(n, top) \in 1 .. top /\ n % LargestFactor(n, top) = 0
<1> DEFINE P(k) == n % k = 0 /\ \A j \in (k + 1) .. top : n % j # 0
           T == {d \in Nat : d < top /\ n % (top - d) = 0}
<1>1. T \subseteq Nat /\ T # {}
  <2>1. top - 1 \in T
    <3>1. n % 1 = 0 /\ top - (top - 1) = 1
      OBVIOUS
    <3> QED
      BY <3>1
  <2> QED
    BY <2>1
<1>2. PICK m \in T : \A k \in T : m <= k
  BY <1>1, LeastNatural
<1>3. top - m \in 1 .. top
  BY <1>2
<1>4. P(top - m)
  <2> SUFFICES ASSUME NEW j \in (top - m + 1) .. top, n % j = 0 PROVE FALSE
    BY <1>2
  <2>1. top - j \in T
    <3>1. top - j \in Nat /\ top - j < top /\ top - (top - j) = j
      BY <1>2
    <3> QED
      BY <3>1
  <2> QED
    BY <1>2, <2>1
<1>5. LargestFactor(n, top) = CHOOSE k \in 1 .. top : P(k)
  BY DEF LargestFactor
<1> HIDE DEF P
<1>6. LargestFactor(n, top) \in 1 .. top /\ P(LargestFactor(n, top))
  BY <1>3, <1>4, <1>5
<1> QED
  BY <1>6 DEF P

LEMMA GeometryFacts ==
    ASSUME NEW c \in Nat
    PROVE  /\ Geometry(c) \in Nat \X Nat \X Nat
           /\ Geometry(c) # DummyGeometry
                => Geometry(c)[1] * Geometry(c)[2] * Geometry(c)[3] = c
<1> DEFINE heads == LargestFactor(c, MaxHeads)
           rest  == c \div heads
           spt   == LargestFactor(rest, MaxSectors)
           cyl   == rest \div spt
<1>1. heads \in Nat \ {0} /\ c % heads = 0
  BY FactorDivides, SizesAssumption
<1>2. rest \in Nat /\ c = rest * heads
  BY <1>1, Division
<1>3. spt \in Nat \ {0} /\ rest % spt = 0
  BY <1>2, FactorDivides, SizesAssumption
<1>4. cyl \in Nat /\ rest = cyl * spt
  BY <1>2, <1>3, Division
<1>5. DummyGeometry \in Nat \X Nat \X Nat
  BY SizesAssumption DEF DummyGeometry
<1>6. Geometry(c) = DummyGeometry \/ Geometry(c) = <<cyl, heads, spt>>
  BY DEF Geometry
<1> HIDE DEF heads, rest, spt, cyl
<1>7. cyl * heads * spt = c
  <2>1. cyl * heads * spt = cyl * (heads * spt) /\ heads * spt = spt * heads
    BY <1>1, <1>3, <1>4, Products
  <2>2. cyl * (spt * heads) = (cyl * spt) * heads
    BY <1>1, <1>3, <1>4, Products
  <2> QED
    BY <1>2, <1>4, <2>1, <2>2
<1> QED
  BY <1>1, <1>3, <1>4, <1>5, <1>6, <1>7

-----------------------------------------------------------------------------
(* Units and layouts.                                                      *)
LEMMA UnitFacts ==
    /\ \A u \in PlainUnits : u[1] = "data"
    /\ \A u \in Preambles : u[1] = "hdf" /\ u[2] \in BOOLEAN /\ u[3] \in Offsets
    /\ \A u \in Identities : u[1] = "id" /\ u[2] \in Nat \X Nat \X Nat /\ u[3] \in 0 .. (CountRange - 1)
    /\ Zero \in PlainUnits /\ PlainUnits \subseteq Units
    /\ \A v \in Values : \A i \in Int : Data(v, i) \in PlainUnits
<1>1. \A u \in PlainUnits : u[1] = "data"
  BY DEF PlainUnits, Data, Zero
<1>2. \A u \in Preambles : u[1] = "hdf" /\ u[2] \in BOOLEAN /\ u[3] \in Offsets
  BY DEF Preambles
<1>3. \A u \in Identities : u[1] = "id" /\ u[2] \in Nat \X Nat \X Nat /\ u[3] \in 0 .. (CountRange - 1)
  BY DEF Identities
<1>4. Zero \in PlainUnits /\ PlainUnits \subseteq Units
  BY DEF PlainUnits, Units
<1>5. ASSUME NEW v \in Values, NEW i \in Int PROVE Data(v, i) \in PlainUnits
  <2>1. PICK j \in 1 .. Full : j % Full = i % Full
    <3>1. i % 2 \in {0, 1} /\ 2 % 2 = 0 /\ 1 % 2 = 1
      OBVIOUS
    <3> QED
      BY <3>1 DEF Full
  <2>2. Data(v, i) = Data(v, j)
    BY <2>1 DEF Data
  <2> QED
    BY <2>2 DEF PlainUnits
<1> QED
  BY <1>1, <1>2, <1>3, <1>4, <1>5

LEMMA OffsetFacts ==
    /\ HDF_HEADER_SIZE \in Nat \ {0, 1} /\ HDF_HEADER_SIZE - 2 \in Nat
    /\ Offsets \subseteq Nat /\ \A o \in Offsets : o <= HDF_HEADER_SIZE
    /\ 0 \in Offsets /\ HDF_HEADER_SIZE \in Offsets /\ OffsetLow \in Offsets
  BY SizesAssumption DEF Offsets

LEMMA HdfFacts ==
    ASSUME NEW s \in Seq(Units)
    PROVE  /\ s = <<>> <=> Len(s) = 0
           /\ Len(s) \in Nat /\ s \in [1 .. Len(s) -> Units]
           /\ IsHdf(s) <=> s # <<>> /\ s[1] \in Preambles
           /\ IsHdf(s) <=> s # <<>> /\ s[1] \notin PlainUnits /\ s[1] \notin Identities
           /\ s # <<>> => Head(s) = s[1] /\ 1 \in 1 .. Len(s)
<1>1. Len(s) \in Nat /\ s \in [1 .. Len(s) -> Units] /\ (s = <<>> <=> Len(s) = 0)
  BY LenProperties, EmptySeq
<1>2. CASE s = <<>>
  BY <1>1, <1>2 DEF IsHdf
<1>3. CASE s # <<>>
  <2>1. Head(s) = s[1] /\ s[1] \in Units /\ 1 \in 1 .. Len(s)
    BY <1>1, <1>3
  <2>2. s[1] \in PlainUnits \/ s[1] \in Preambles \/ s[1] \in Identities
    BY <2>1 DEF Units
  <2>3. IsHdf(s) <=> s[1][1] = "hdf"
    BY <1>3, <2>1 DEF IsHdf
  <2> QED
    BY <1>1, <1>3, <2>1, <2>2, <2>3, UnitFacts
<1> QED
  BY <1>2, <1>3

(* A volume lies inside its file.                                          *)
LEMMA RawVolumeFacts ==
    ASSUME NEW f \in Files, NEW s \in Seq(Units), NEW v, v = RawVolume(f, s)
    PROVE  /\ v \in Volumes /\ v.file = f /\ v # NoVolume /\ v.offset = 0 /\ v.bps = Full
           /\ v.bps * v.count \in Nat /\ v.offset + v.bps * v.count <= Len(s)
<1> DEFINE c == Len(s) \div 2
<1>1. Len(s) \in Nat /\ f # NoFile
  BY HdfFacts, FilesAssumption
<1>2. v = [file |-> f, offset |-> 0, bps |-> 2, count |-> c]
  BY DEF RawVolume, Full
<1>3. c \in Nat /\ 2 * c <= Len(s) /\ 2 * c \in Nat
  BY <1>1, Halves
<1> HIDE DEF c
<1> QED
  BY <1>1, <1>2, <1>3, OffsetFacts DEF Volumes, NoVolume, Full

LEMMA VolumeFacts ==
    ASSUME NEW f \in Files, NEW s \in Seq(Units), NEW v, v = Volume(f, s)
    PROVE  /\ v \in Volumes /\ v.file = f /\ v # NoVolume /\ v.bps * v.count \in Nat
           /\ v.count # 0 => v.offset + v.bps * v.count <= Len(s)
           /\ IsHdf(s) => v.offset = s[1][3] /\ v.bps = UnitsPerSector(s[1])
           /\ ~IsHdf(s) => v.offset = 0 /\ v.bps = Full
<1>1. CASE ~IsHdf(s)
  BY <1>1, RawVolumeFacts DEF Volume
<1>2. CASE IsHdf(s)
  <2> DEFINE o == s[1][3]
             b == UnitsPerSector(s[1])
             c == IF Len(s) < o THEN 0 ELSE (Len(s) - o) \div b
  <2>1. /\ Len(s) \in Nat /\ f # NoFile /\ Head(s) = s[1] /\ s[1] \in Preambles
        /\ o \in Offsets /\ o \in Nat /\ b \in {1, 2}
    BY <1>2, HdfFacts, UnitFacts, OffsetFacts, FilesAssumption DEF UnitsPerSector, Half, Full
  <2>2. v = [file |-> f, offset |-> o, bps |-> b, count |-> c]
    BY <1>2, <2>1 DEF Volume, HdfVolume, UnitsPerSector
  <2>3. c \in Nat /\ b * c \in Nat /\ (c # 0 => o + b * c <= Len(s))
    <3> DEFINE n == Len(s) - o
    <3>1. CASE Len(s) < o
      BY <2>1, <3>1
    <3>2. CASE ~(Len(s) < o)
      <4>1. n \in Nat /\ c = n \div b /\ o + n = Len(s)
        BY <2>1, <3>2
      <4> HIDE DEF n, c, o
      <4>2. c \in Nat /\ b * c \in Nat /\ b * c <= n
        BY <2>1, <4>1, Halves
      <4> QED
        BY <2>1, <4>1, <4>2
    <3> QED
      BY <3>1, <3>2
  <2> HIDE DEF o, b, c
  <2> QED
    BY <1>2, <2>1, <2>2, <2>3 DEF Volumes, NoVolume, Half, Full, o, b
<1> QED
  BY <1>1, <1>2

LEMMA LayoutVolume ==
    ASSUME NEW f \in Files, NEW s, Layout(s), NEW v, v = Volume(f, s)
    PROVE  /\ IsHdf(s) => v.offset = HDF_HEADER_SIZE
           /\ v.offset = 0 => ~IsHdf(s)
           /\ v.offset + v.bps * v.count <= Len(s)
           /\ \A i \in 1 .. (v.bps * v.count) : s[v.offset + i] \in PlainUnits
<1>1. /\ v.bps * v.count \in Nat /\ (v.count # 0 => v.offset + v.bps * v.count <= Len(s))
      /\ IsHdf(s) => v.offset = s[1][3]
      /\ ~IsHdf(s) => v.offset = 0
      /\ v.bps \in {1, 2} /\ v.count \in Nat /\ Len(s) \in Nat
  BY VolumeFacts, HdfFacts DEF Layout, Volumes, Half, Full
<1>2. IsHdf(s) => v.offset = HDF_HEADER_SIZE /\ HDF_HEADER_SIZE <= Len(s)
  BY <1>1 DEF Layout
<1>3. HDF_HEADER_SIZE \in Nat \ {0, 1}
  BY OffsetFacts
<1>4. v.offset + v.bps * v.count <= Len(s) /\ v.offset \in Nat
  BY <1>1, <1>2, <1>3
<1> DEFINE n == v.bps * v.count
<1>5. ASSUME NEW i \in 1 .. n PROVE s[v.offset + i] \in PlainUnits
  <2>1. n \in Nat /\ v.offset + n <= Len(s)
    BY <1>1, <1>4
  <2> HIDE DEF n
  <2>2. v.offset + i \in 1 .. Len(s) /\ v.offset + i \in (v.offset + 1) .. Len(s)
    BY <1>1, <1>4, <2>1
  <2> QED
    BY <1>1, <1>2, <1>3, <2>2 DEF Layout
<1> QED
  BY <1>2, <1>1, <1>3, <1>4, <1>5

(* What the driver sees of a file does not depend on its name.             *)
LEMMA CountOf ==
    ASSUME NEW f, NEW s
    PROVE  Volume(f, s).count = Volume(NoFile, s).count /\ Volume(f, s).bps = Volume(NoFile, s).bps
  BY DEF Volume, HdfVolume, RawVolume

(* A file whose units are overwritten has its old length.                  *)
LEMMA Overwritten ==
    ASSUME NEW S, NEW s \in Seq(S), NEW t \in [DOMAIN s -> S]
    PROVE  t \in Seq(S) /\ Len(t) = Len(s) /\ DOMAIN t = 1 .. Len(s)
<1>1. Len(s) \in Nat /\ DOMAIN s = 1 .. Len(s)
  BY LenProperties
<1>2. t \in [1 .. Len(s) -> S]
  BY <1>1
<1>3. t \in Seq(S)
  BY <1>1, <1>2, SeqDef
<1>4. Len(t) \in Nat /\ DOMAIN t = 1 .. Len(t)
  BY <1>3, LenProperties
<1>5. 1 .. Len(t) = 1 .. Len(s)
  BY <1>2, <1>4
<1> QED
  BY <1>1, <1>2, <1>3, <1>4, <1>5

(* Overwriting data keeps the layout, and what the file is opened as.      *)
LEMMA DataKeepsLayout ==
    ASSUME NEW s, Layout(s), NEW t \in Seq(Units), Len(t) = Len(s),
           \A p \in 1 .. Len(s) :
               t[p] = s[p] \/ (t[p] \in PlainUnits /\ (IsHdf(s) => p > HDF_HEADER_SIZE))
    PROVE  Layout(t) /\ (Stated(s) => Stated(t)) /\ \A f : Volume(f, t) = Volume(f, s)
<1>1. s \in Seq(Units) /\ Len(s) \in Nat /\ (s = <<>> <=> Len(s) = 0) /\ (t = <<>> <=> Len(s) = 0)
      /\ HDF_HEADER_SIZE \in Nat \ {0, 1}
  BY HdfFacts, OffsetFacts DEF Layout
<1>2. CASE ~IsHdf(s)
  <2>1. \A p \in 1 .. Len(t) : t[p] \in PlainUnits
    BY <1>2 DEF Layout
  <2>2. ~IsHdf(t)
    BY <1>1, <2>1, HdfFacts
  <2>3. Layout(t) /\ Stated(t)
    BY <2>1, <2>2 DEF Layout, Stated
  <2>4. \A f : Volume(f, t) = Volume(f, s)
    BY <1>2, <2>2 DEF Volume, RawVolume
  <2> QED
    BY <2>3, <2>4
<1>3. CASE IsHdf(s)
  <2>1. s # <<>> /\ HDF_HEADER_SIZE <= Len(s) /\ 1 \in 1 .. Len(s) /\ 2 \in 1 .. Len(s)
    BY <1>1, <1>3 DEF Layout, IsHdf
  <2>2. t[1] = s[1] /\ t[2] = s[2]
    BY <1>1, <1>3, <2>1
  <2>3. IsHdf(t) /\ Head(t) = Head(s)
    BY <1>1, <1>3, <2>1, <2>2, HdfFacts
  <2>4. \A f : Volume(f, t) = Volume(f, s)
    BY <1>3, <2>3 DEF Volume, HdfVolume
  <2>5. \A p \in (HDF_HEADER_SIZE + 1) .. Len(t) : t[p] \in PlainUnits
    <3> SUFFICES ASSUME NEW p \in (HDF_HEADER_SIZE + 1) .. Len(t) PROVE t[p] \in PlainUnits
      OBVIOUS
    <3>1. p \in 1 .. Len(s) /\ p \in (HDF_HEADER_SIZE + 1) .. Len(s)
      BY <1>1
    <3>2. s[p] \in PlainUnits
      BY <1>3, <3>1 DEF Layout
    <3> QED
      BY <3>1, <3>2
  <2>6. Layout(t)
    BY <1>3, <2>1, <2>2, <2>3, <2>5 DEF Layout
  <2>7. Stated(s) => Stated(t)
    BY <1>3, <2>2, <2>4 DEF Stated
  <2> QED
    BY <2>4, <2>6, <2>7
<1> QED
  BY <1>2, <1>3

LEMMA PlainLayout ==
    ASSUME NEW s \in Seq(PlainUnits)
    PROVE  Layout(s) /\ ~IsHdf(s) /\ Stated(s) /\ s \in Seq(Units)
<1>1. s \in Seq(Units)
  BY SeqMonotonic, UnitFacts
<1>2. Len(s) \in Nat /\ s \in [1 .. Len(s) -> PlainUnits]
  BY LenProperties
<1>3. \A p \in 1 .. Len(s) : s[p] \in PlainUnits
  BY <1>2
<1>4. ~IsHdf(s)
  BY <1>1, <1>3, HdfFacts
<1> QED
  BY <1>1, <1>3, <1>4 DEF Layout, Stated

LEMMA ZerosFacts ==
    ASSUME NEW n \in Nat
    PROVE  /\ Zeros(n) \in Seq(PlainUnits) /\ Len(Zeros(n)) = n
           /\ \A i \in 1 .. n : Zeros(n)[i] = Zero
<1>1. Zeros(n) \in [1 .. n -> PlainUnits]
  BY UnitFacts DEF Zeros
<1>2. Zeros(n) \in Seq(PlainUnits)
  BY <1>1, SeqDef
<1>3. Len(Zeros(n)) \in Nat /\ DOMAIN Zeros(n) = 1 .. Len(Zeros(n))
  BY <1>2, LenProperties
<1>4. 1 .. Len(Zeros(n)) = 1 .. n
  BY <1>1, <1>3
<1> QED
  BY <1>2, <1>3, <1>4 DEF Zeros

(* A header: the two units with the fields, and the rest of it.            *)
Headed(first, second) == <<first, second>> \o Zeros(HDF_HEADER_SIZE - 2)

LEMMA HeaderOf ==
    ASSUME NEW first \in Units, NEW second \in Units
    PROVE  /\ Headed(first, second) \in Seq(Units) /\ Len(Headed(first, second)) = HDF_HEADER_SIZE
           /\ Headed(first, second)[1] = first /\ Headed(first, second)[2] = second
           /\ \A i \in 3 .. HDF_HEADER_SIZE : Headed(first, second)[i] = Zero
<1> DEFINE pair == <<first, second>>
           rest == Zeros(HDF_HEADER_SIZE - 2)
           s == Headed(first, second)
<1>0. s = pair \o rest
  BY DEF Headed
<1> HIDE DEF s
<1>1. HDF_HEADER_SIZE \in Nat \ {0, 1} /\ HDF_HEADER_SIZE - 2 \in Nat
  BY OffsetFacts
<1>2. pair \in Seq(Units) /\ Len(pair) = 2 /\ pair[1] = first /\ pair[2] = second
  OBVIOUS
<1>3. /\ rest \in Seq(PlainUnits) /\ Len(rest) = HDF_HEADER_SIZE - 2
      /\ \A i \in 1 .. (HDF_HEADER_SIZE - 2) : rest[i] = Zero
  BY <1>1, ZerosFacts
<1>4. rest \in Seq(Units)
  BY <1>3, PlainLayout
<1> HIDE DEF pair, rest
<1>5. /\ s \in Seq(Units) /\ Len(s) = HDF_HEADER_SIZE
      /\ \A i \in 1 .. HDF_HEADER_SIZE : s[i] = IF i <= 2 THEN pair[i] ELSE rest[i - 2]
  <2>1. /\ pair \o rest \in Seq(Units) /\ Len(pair \o rest) = Len(pair) + Len(rest)
        /\ \A i \in 1 .. (Len(pair) + Len(rest)) :
               (pair \o rest)[i] = IF i <= Len(pair) THEN pair[i] ELSE rest[i - Len(pair)]
    BY <1>2, <1>4, ConcatProperties
  <2>2. Len(pair) + Len(rest) = HDF_HEADER_SIZE
    BY <1>1, <1>2, <1>3
  <2> QED
    BY <1>0, <1>2, <2>1, <2>2
<1>6. s[1] = first /\ s[2] = second
  BY <1>1, <1>2, <1>5
<1>7. ASSUME NEW i \in 3 .. HDF_HEADER_SIZE PROVE s[i] = Zero
  <2>1. i \in 1 .. HDF_HEADER_SIZE /\ ~(i <= 2) /\ i - 2 \in 1 .. (HDF_HEADER_SIZE - 2)
    BY <1>1
  <2> QED
    BY <1>3, <1>5, <2>1
<1> QED
  BY <1>5, <1>6, <1>7 DEF s

LEMMA PreambleFields ==
    \A h : \A o : Preamble(h, o)[1] = "hdf" /\ Preamble(h, o)[2] = h /\ Preamble(h, o)[3] = o
  BY DEF Preamble

LEMMA IdentityFields ==
    \A c : Identity(c)[2] = Geometry(c) /\ Identity(c)[3] = c % CountRange
  BY DEF Identity

LEMMA FieldFacts ==
    ASSUME NEW c \in Nat, NEW halved \in BOOLEAN
    PROVE  /\ c % CountRange \in 0 .. (CountRange - 1)
           /\ Preamble(halved, HDF_HEADER_SIZE) \in Preambles
           /\ Preamble(halved, HDF_HEADER_SIZE)[2] = halved
           /\ Preamble(halved, HDF_HEADER_SIZE)[3] = HDF_HEADER_SIZE
           /\ Preamble(FALSE, 0) \in Preambles /\ Preamble(FALSE, OffsetLow) \in Preambles
           /\ Identity(c) \in Identities
           /\ Identity(c)[2] = Geometry(c) /\ Identity(c)[3] = c % CountRange
           /\ <<"id", DummyGeometry, c % CountRange>> \in Identities
           /\ <<"id", Geometry(c), 0>> \in Identities
<1>1. CountRange \in Nat \ {0}
  BY SizesAssumption
<1>2. c % CountRange \in 0 .. (CountRange - 1) /\ 0 \in 0 .. (CountRange - 1)
  BY <1>1
<1>3. Geometry(c) \in Nat \X Nat \X Nat /\ DummyGeometry \in Nat \X Nat \X Nat
  BY GeometryFacts, SizesAssumption DEF DummyGeometry
<1>4. /\ Preamble(halved, HDF_HEADER_SIZE) \in Preambles
      /\ Preamble(halved, HDF_HEADER_SIZE)[2] = halved
      /\ Preamble(halved, HDF_HEADER_SIZE)[3] = HDF_HEADER_SIZE
      /\ Preamble(FALSE, 0) \in Preambles /\ Preamble(FALSE, OffsetLow) \in Preambles
  BY OffsetFacts DEF Preamble, Preambles
<1>5. /\ Identity(c) \in Identities
      /\ Identity(c)[2] = Geometry(c) /\ Identity(c)[3] = c % CountRange
      /\ <<"id", DummyGeometry, c % CountRange>> \in Identities
      /\ <<"id", Geometry(c), 0>> \in Identities
  BY <1>2, <1>3 DEF Identity, Identities
<1> QED
  BY <1>2, <1>4, <1>5

LEMMA HeaderUnitsOf ==
    ASSUME NEW c \in Nat
    PROVE  /\ Header(c)[1] = Preamble(FALSE, HDF_HEADER_SIZE) /\ Header(c)[2] = Identity(c)
           /\ \A i \in 3 .. HDF_HEADER_SIZE : Header(c)[i] = Zero
           /\ \A i \in 1 .. HDF_HEADER_SIZE : Header(c)[i] \in Units
<1> DEFINE first == Preamble(FALSE, HDF_HEADER_SIZE)
           second == Identity(c)
<1>1. first \in Units /\ second \in Units
  BY FieldFacts DEF Units
<1>2. Header(c) = Headed(first, second)
  BY DEF Header, Headed
<1> HIDE DEF first, second
<1>3. /\ Header(c) \in Seq(Units) /\ Len(Header(c)) = HDF_HEADER_SIZE
      /\ Header(c)[1] = first /\ Header(c)[2] = second
      /\ \A i \in 3 .. HDF_HEADER_SIZE : Header(c)[i] = Zero
  BY <1>1, <1>2, HeaderOf
<1>4. \A i \in 1 .. HDF_HEADER_SIZE : Header(c)[i] \in Units
  BY <1>3, HdfFacts
<1> QED
  BY <1>3, <1>4 DEF first, second

LEMMA CutUnits ==
    ASSUME NEW c \in Nat, NEW i, NEW u \in Cut(c, i)
    PROVE  u \in Units
  BY FieldFacts, UnitFacts DEF Cut, Units

(* What a file with a whole header is opened as.                           *)
LEMMA WholeImage ==
    ASSUME NEW s \in Seq(Units), NEW halved \in BOOLEAN, NEW c \in Nat, NEW k \in {Half, Full},
           k = (IF halved THEN Half ELSE Full),
           Len(s) = HDF_HEADER_SIZE + c * k, s[1] = Preamble(halved, HDF_HEADER_SIZE)
    PROVE  /\ IsHdf(s) /\ s # <<>> /\ Head(s) = s[1]
           /\ \A f : Volume(f, s) = [file |-> f, offset |-> HDF_HEADER_SIZE, bps |-> k, count |-> c]
<1>1. HDF_HEADER_SIZE \in Nat \ {0, 1} /\ k \in {1, 2} /\ c * k \in Nat
  BY OffsetFacts DEF Half, Full
<1>2. Len(s) # 0 /\ ~(Len(s) < HDF_HEADER_SIZE) /\ Len(s) - HDF_HEADER_SIZE = c * k
  BY <1>1
<1>3. IsHdf(s) /\ s # <<>> /\ Head(s) = s[1]
  BY <1>2, HdfFacts, FieldFacts
<1>4. (c * k) \div k = c
  BY <1>1, Halves
<1>5. s[1][2] = halved /\ s[1][3] = HDF_HEADER_SIZE
  BY FieldFacts
<1>6. ASSUME NEW f
      PROVE  Volume(f, s) = [file |-> f, offset |-> HDF_HEADER_SIZE, bps |-> k, count |-> c]
  BY <1>2, <1>3, <1>4, <1>5 DEF Volume, HdfVolume
<1> QED
  BY <1>3, <1>6

(* The images that other programs have made.                               *)
LEMMA ForeignLayout ==
    ASSUME NEW halved \in BOOLEAN, NEW c \in Nat, NEW v \in Values
    PROVE  LET s == ForeignImage(halved, c, v) IN
           /\ Layout(s) /\ Stated(s)
           /\ \A f : Volume(f, s).count = c /\ (~halved => Volume(f, s).bps = Full)
<1> DEFINE first == Preamble(halved, HDF_HEADER_SIZE)
           second == <<"id", DummyGeometry, c % CountRange>>
           head == Headed(first, second)
           k == IF halved THEN Half ELSE Full
           n == c * k
           data == [i \in 1 .. n |-> Data(v, i)]
           s == ForeignImage(halved, c, v)
<1>1. HDF_HEADER_SIZE \in Nat \ {0, 1} /\ n \in Nat /\ k \in {Half, Full} /\ (~halved => k = Full)
  BY OffsetFacts DEF Half, Full
<1>2. first \in Preambles /\ second \in Identities
  BY FieldFacts
<1>3. first \in Units /\ second \in Units
  BY <1>2 DEF Units
<1>4. s = head \o data
  BY DEF ForeignImage, Headed
<1>5. /\ head \in Seq(Units) /\ Len(head) = HDF_HEADER_SIZE /\ head[1] = first /\ head[2] = second
      /\ \A i \in 3 .. HDF_HEADER_SIZE : head[i] = Zero
  BY <1>3, HeaderOf
<1>6. data \in [1 .. n -> PlainUnits]
  BY <1>1, UnitFacts
<1>7. data \in Seq(Units) /\ Len(data) = n
  <2>1. data \in Seq(PlainUnits)
    BY <1>1, <1>6, SeqDef
  <2>2. Len(data) \in Nat /\ 1 .. Len(data) = 1 .. n
    BY <1>6, <2>1, LenProperties
  <2> QED
    BY <1>1, <2>1, <2>2, PlainLayout
<1>8. \A i \in 1 .. n : data[i] \in PlainUnits
  BY <1>6
<1> HIDE DEF head, data, s, first, second, n
<1>9. /\ s \in Seq(Units) /\ Len(s) = HDF_HEADER_SIZE + n
      /\ \A i \in 1 .. (HDF_HEADER_SIZE + n) :
             s[i] = IF i <= HDF_HEADER_SIZE THEN head[i] ELSE data[i - HDF_HEADER_SIZE]
  <2>1. /\ head \o data \in Seq(Units) /\ Len(head \o data) = Len(head) + Len(data)
        /\ \A i \in 1 .. (Len(head) + Len(data)) :
               (head \o data)[i] = IF i <= Len(head) THEN head[i] ELSE data[i - Len(head)]
    BY <1>5, <1>7, ConcatProperties
  <2> QED
    BY <1>4, <1>5, <1>7, <2>1
<1>10. s[1] = first /\ s[2] = second
  BY <1>1, <1>5, <1>9
<1>11. /\ IsHdf(s)
       /\ \A f : Volume(f, s) = [file |-> f, offset |-> HDF_HEADER_SIZE, bps |-> k, count |-> c]
  BY <1>1, <1>9, <1>10, WholeImage DEF first, n
<1>12. ASSUME NEW p \in (HDF_HEADER_SIZE + 1) .. Len(s) PROVE s[p] \in PlainUnits
  <2>1. p - HDF_HEADER_SIZE \in 1 .. n /\ p \in 1 .. (HDF_HEADER_SIZE + n) /\ ~(p <= HDF_HEADER_SIZE)
    BY <1>1, <1>9
  <2> QED
    BY <1>8, <1>9, <2>1
<1>13. s[1][3] = HDF_HEADER_SIZE /\ s[2][2] = DummyGeometry /\ s[2][3] = c % CountRange
  <2>1. first[3] = HDF_HEADER_SIZE
    BY PreambleFields DEF first
  <2>2. second[2] = DummyGeometry /\ second[3] = c % CountRange
    BY DEF second
  <2> QED
    BY <1>10, <2>1, <2>2
<1>14. HDF_HEADER_SIZE <= Len(s)
  BY <1>1, <1>9
<1>15. Layout(s) /\ Stated(s)
  BY <1>9, <1>11, <1>12, <1>13, <1>14 DEF Layout, Stated
<1> QED
  BY <1>1, <1>11, <1>15 DEF s

LEMMA PartlyMadeFacts ==
    ASSUME NEW s \in Seq(Units), NEW c \in Nat, NEW n \in 0 .. HDF_HEADER_SIZE, PartlyMade(s, c, n)
    PROVE  /\ Layout(s)
           /\ n = HDF_HEADER_SIZE => Stated(s)
           /\ n > 0 => /\ IsHdf(s)
                       /\ \A f : Volume(f, s) = [file |-> f, offset |-> HDF_HEADER_SIZE,
                                                 bps |-> Full, count |-> c]
<1>1. /\ HDF_HEADER_SIZE \in Nat \ {0, 1} /\ c * 2 \in Nat /\ Len(s) = HDF_HEADER_SIZE + c * 2
      /\ Len(s) \in Nat /\ s # <<>> /\ 1 \in 1 .. Len(s) /\ 2 \in 1 .. Len(s)
      /\ \A i \in 1 .. Len(s) : s[i] = IF i <= n THEN Header(c)[i] ELSE Zero
  BY OffsetFacts, HdfFacts DEF PartlyMade, Full
<1>2. CASE n = 0
  <2>1. \A p \in 1 .. Len(s) : s[p] \in PlainUnits
    BY <1>1, <1>2, UnitFacts
  <2>2. ~IsHdf(s)
    BY <1>1, <2>1, HdfFacts
  <2> QED
    BY <1>1, <1>2, <2>1, <2>2 DEF Layout
<1>3. CASE n > 0
  <2>1. s[1] = Preamble(FALSE, HDF_HEADER_SIZE) /\ (n = HDF_HEADER_SIZE => s[2] = Identity(c))
    <3>1. 1 <= n /\ (n = HDF_HEADER_SIZE => 2 <= n)
      BY <1>1, <1>3
    <3> QED
      BY <1>1, <3>1, HeaderUnitsOf
  <2>2. /\ IsHdf(s)
        /\ \A f : Volume(f, s) = [file |-> f, offset |-> HDF_HEADER_SIZE, bps |-> Full, count |-> c]
    BY <1>1, <2>1, WholeImage DEF Full
  <2>3. \A p \in (HDF_HEADER_SIZE + 1) .. Len(s) : s[p] \in PlainUnits
    <3> SUFFICES ASSUME NEW p \in (HDF_HEADER_SIZE + 1) .. Len(s) PROVE s[p] = Zero
      BY UnitFacts
    <3> QED
      BY <1>1
  <2>4. s[1][3] = HDF_HEADER_SIZE /\ HDF_HEADER_SIZE <= Len(s)
    <3>1. s[1][3] = HDF_HEADER_SIZE
      BY <2>1 DEF Preamble
    <3>2. HDF_HEADER_SIZE <= Len(s)
      BY <1>1
    <3> QED
      BY <3>1, <3>2
  <2>5. Layout(s)
    BY <2>2, <2>3, <2>4 DEF Layout
  <2>6. ASSUME n = HDF_HEADER_SIZE PROVE Stated(s)
    <3>1. s[2][2] = Geometry(c) /\ s[2][3] = c % CountRange /\ Volume(NoFile, s).count = c
      BY <2>1, <2>2, <2>6, IdentityFields
    <3> QED
      BY <3>1, GeometryFacts DEF Stated
  <2> QED
    BY <2>2, <2>5, <2>6
<1> QED
  BY <1>2, <1>3

-----------------------------------------------------------------------------
(* Open volumes.                                                           *)
LEMMA NoVolumeIsOne == NoVolume \in Volumes
  BY OffsetFacts DEF NoVolume, Volumes

LEMMA OpenFacts ==
    ASSUME FileShape, NEW d \in Drives, Opened(d)
    PROVE  /\ vol[d] \in Volumes /\ vol[d].file \in exists /\ vol[d].file \in Files
           /\ vol[d].offset \in Nat /\ vol[d].bps * vol[d].count \in Nat
           /\ file[vol[d].file] \in Seq(Units) /\ Len(file[vol[d].file]) \in Nat
           /\ VolumeEnd(d) = vol[d].offset + vol[d].bps * vol[d].count
           /\ vol[d].count # 0 => VolumeEnd(d) <= Len(file[vol[d].file])
<1>1. vol[d] \in Volumes /\ vol[d].file \in exists /\ vol[d].file \in Files
      /\ (vol[d].count # 0 => VolumeEnd(d) <= Len(file[vol[d].file]))
  BY DEF FileShape, FilesShape, VolumesShape
<1>2. file[vol[d].file] \in Seq(Units)
  BY <1>1 DEF FileShape, FilesShape
<1>3. vol[d].bps \in {1, 2} /\ vol[d].count \in Nat /\ vol[d].offset \in Nat
  BY <1>1, OffsetFacts DEF Volumes, Half, Full
<1>4. vol[d].bps * vol[d].count \in Nat
  BY <1>3
<1> QED
  BY <1>1, <1>2, <1>3, <1>4, HdfFacts DEF VolumeEnd

(* What is known of a volume that no failed call has spoilt.               *)
LEMMA SoundFacts ==
    ASSUME FileShape, NEW d \in Drives, Sound(d), ~(pc = "header" /\ d = NewDrive)
    PROVE  /\ Opened(d) /\ vol[d].file \in Files \ damaged
           /\ Volume(vol[d].file, file[vol[d].file]) = vol[d]
           /\ Layout(file[vol[d].file])
           /\ IsHdf(file[vol[d].file]) => vol[d].offset = HDF_HEADER_SIZE
           /\ \A i \in 1 .. (vol[d].bps * vol[d].count) :
                 file[vol[d].file][vol[d].offset + i] \in PlainUnits
<1>1. Opened(d) /\ vol[d].file \notin damaged
  BY DEF Sound, Opened
<1>2. vol[d].file \in Files
  BY <1>1, OpenFacts
<1>3. Layout(file[vol[d].file]) /\ vol[d] = Volume(vol[d].file, file[vol[d].file])
  BY <1>1, <1>2 DEF FileShape, FilesShape, VolumesShape
<1> QED
  BY <1>1, <1>2, <1>3, LayoutVolume

(* Volumes are closed, or nothing happens to them.                         *)
LEMMA FilesKept ==
    ASSUME FileShape, UNCHANGED <<exists, file, damaged>>, pc # "header", pc' # "header",
           vol' \in [Drives -> Volumes], \A d \in Drives : vol'[d] \in {vol[d], NoVolume},
           misread' \in BOOLEAN, misread' = misread \/ \A d \in Drives : vol'[d] = NoVolume
    PROVE  FileShape'
<1>1. FilesShape' /\ HeaderShape'
  BY DEF FileShape, FilesShape, HeaderShape, Finished
<1>2. VolumesShape'
  <2>1. ASSUME NEW d \in Drives, Opened(d)' PROVE Opened(d) /\ vol'[d] = vol[d] /\ misread' = misread
    BY <2>1 DEF Opened
  <2>2. \A d \in Drives : Opened(d)' =>
            /\ vol'[d].file \in exists'
            /\ vol'[d].count # 0 => VolumeEnd(d)' <= Len(file'[vol'[d].file])
    BY <2>1 DEF FileShape, VolumesShape, VolumeEnd
  <2>3. \A d \in Drives : Sound(d)' => Volume(vol'[d].file, file'[vol'[d].file]) = vol'[d]
    <3> SUFFICES ASSUME NEW d \in Drives, Sound(d)'
                 PROVE  Volume(vol'[d].file, file'[vol'[d].file]) = vol'[d]
      OBVIOUS
    <3>1. Sound(d) /\ vol'[d] = vol[d]
      BY <2>1 DEF Sound, Opened
    <3> QED
      BY <3>1 DEF FileShape, VolumesShape
  <2> QED
    BY <2>2, <2>3 DEF VolumesShape
<1> QED
  BY <1>1, <1>2 DEF FileShape

LEMMA FinishFacts ==
    ASSUME FileShape, NEW r, Finish(r)
    PROVE  /\ vol' \in [Drives -> Volumes] /\ \A d \in Drives : vol'[d] \in {vol[d], NoVolume}
           /\ command = "clone" => ~Opened(1)'
           /\ pc' = "idle" /\ ret' = r /\ position' = 0
           /\ command # "clone" => vol' = vol
           /\ misread' \in BOOLEAN /\ (misread' => misread /\ vol' = vol)
           /\ misread' = misread \/ \A d \in Drives : vol'[d] = NoVolume
<1> USE DEF Finish, FileShape, VolumesShape, Opened, Drives
<1>1. CASE command = "clone"
  BY <1>1, NoVolumeIsOne
<1>2. CASE command # "clone"
  BY <1>2
<1> QED
  BY <1>1, <1>2

(* A transfer begins inside the volume, or is refused.                     *)
LEMMA TransferFacts ==
    ASSUME IInv, pc # "header", NEW op \in {"read", "write"}, NEW d \in Drives, Opened(d),
           vol[d].count # 0,
           NEW p \in Nat, NEW len \in Nat, p + len <= vol[d].bps * vol[d].count,
           NEW buf \in Seq(Units), Len(buf) = len, Sound(d) => buf \in Seq(PlainUnits),
           Transfer(op, d, p, len, buf), UNCHANGED <<exists, file, damaged, made, errs>>,
           \/ command' = "disk" /\ d = 0 /\ pc = "idle"
           \/ command' = "clone" /\ command = "clone" /\ pc # "idle"
    PROVE  /\ FileShape' /\ CallShape' /\ IoShape'
           /\ pc' = "idle" \/ (/\ pc' = "io" /\ UNCHANGED <<vol, misread, position>>
                               /\ io' = [op |-> op, drive |-> d, pos |-> p + vol[d].offset,
                                         len |-> len, done |-> 0, buf |-> buf])
<1>1. /\ vol[d] \in Volumes /\ vol[d].offset \in Nat /\ vol[d].bps * vol[d].count \in Nat
      /\ VolumeEnd(d) = vol[d].offset + vol[d].bps * vol[d].count
  BY OpenFacts DEF IInv
<1>2. io' = [op |-> op, drive |-> d, pos |-> p + vol[d].offset, len |-> len, done |-> 0, buf |-> buf]
  BY DEF Transfer, FilePosition
<1>3. io' \in Transfers
  BY <1>1, <1>2 DEF Transfers
<1>4. CASE Finish("ERR")
  <2>1. FileShape'
    BY <1>4, FinishFacts, FilesKept DEF IInv
  <2>2. ~Opened(1)' /\ (misread' => misread /\ vol' = vol)
    BY <1>4, FinishFacts DEF IInv, CallShape, Opened
  <2>3. CallShape'
    BY <1>4, <2>2, FinishFacts DEF IInv, CallShape, Opened
  <2>4. IoShape'
    BY <1>2, <1>3, <1>4, FinishFacts DEF IInv, IoShape, Succeeded
  <2> QED
    BY <1>4, <2>1, <2>3, <2>4, FinishFacts DEF IInv
<1>5. CASE pc' = "io" /\ ret' = "none" /\ UNCHANGED <<vol, misread, position>>
  <2>1. FileShape'
    BY <1>5, FilesKept DEF IInv, FileShape, VolumesShape
  <2>2. Opened(0) /\ (command' = "clone" <=> Opened(1))
    BY DEF IInv, CallShape
  <2>3. CallShape'
    BY <1>5, <2>2 DEF IInv, CallShape, Opened
  <2>4. IoShape'
    <3>1. p + vol[d].offset + len <= vol[d].offset + vol[d].bps * vol[d].count
          /\ vol[d].offset <= p + vol[d].offset
      BY <1>1
    <3>2. Sound(d)' => Sound(d)
      BY <1>5 DEF Sound
    <3>3. io'.drive = d /\ io'.buf = buf /\ io'.op = op /\ io'.len = len /\ io'.done = 0
          /\ io'.pos = p + vol[d].offset
      BY <1>2
    <3>4. VolumeEnd(d)' = VolumeEnd(d) /\ Opened(d)'
      BY <1>5 DEF VolumeEnd, Opened
    <3>5. ~Succeeded'
      BY <1>5 DEF Succeeded
    <3> QED
      BY <1>1, <1>3, <1>5, <3>1, <3>2, <3>3, <3>4, <3>5 DEF IoShape
  <2> QED
    BY <1>2, <1>5, <2>1, <2>3, <2>4
<1> QED
  BY <1>4, <1>5 DEF Transfer

-----------------------------------------------------------------------------
(* The calls of the driver and of main.                                    *)
LEMMA SectorsInside ==
    ASSUME NEW b \in {Half, Full}, NEW c \in Nat, NEW s \in Nat, NEW n \in Nat, s + n <= c
    PROVE  s * b \in Nat /\ n * b \in Nat /\ s * b + n * b <= b * c
<1>1. CASE b = 1
  BY <1>1
<1>2. CASE b = 2
  BY <1>2
<1> QED
  BY <1>1, <1>2 DEF Half, Full

LEMMA DiskStep ==
    ASSUME IInv, NEW x \in Sectors,
           DiskRead(x[1], x[2]) \/ \E v \in Values : DiskWrite(x[1], x[2], v)
    PROVE  IInv'
<1> DEFINE b == vol[0].bps
           len == x[2] * b
<1>1. /\ pc = "idle" /\ Opened(0) /\ command' = "disk" /\ 0 \in Drives
      /\ UNCHANGED <<exists, file, damaged, made, errs>>
  BY DEF DiskRead, DiskWrite, Opened, Drives
<1>2. vol[0] \in Volumes
  BY <1>1, OpenFacts DEF IInv
<1>3. /\ b \in {Half, Full} /\ vol[0].count \in Nat
      /\ x[1] \in Nat /\ x[2] \in Nat /\ x[1] + x[2] <= vol[0].count /\ vol[0].count # 0
  BY <1>2 DEF Volumes, Sectors
<1>4. x[1] * b \in Nat /\ len \in Nat /\ x[1] * b + len <= b * vol[0].count
  BY <1>3, SectorsInside
<1> HIDE DEF b, len
<1>5. CASE DiskRead(x[1], x[2])
  <2>1. Transfer("read", 0, x[1] * b, len, Zeros(len))
    BY <1>5 DEF DiskRead, b, len
  <2>2. FileShape' /\ CallShape' /\ IoShape'
    BY <1>1, <1>3, <1>4, <2>1, ZerosFacts, PlainLayout, TransferFacts DEF b
  <2> QED
    BY <1>1, <2>2 DEF IInv, CloneShape
<1>6. ASSUME NEW v \in Values, DiskWrite(x[1], x[2], v) PROVE IInv'
  <2> DEFINE buf == [i \in 1 .. len |-> Data(v, i)]
  <2>1. Transfer("write", 0, x[1] * b, len, buf)
    BY <1>6 DEF DiskWrite, b, len
  <2>2. buf \in [1 .. len -> PlainUnits]
    BY <1>4, UnitFacts
  <2>3. buf \in Seq(PlainUnits)
    BY <1>4, <2>2, SeqDef
  <2>4. Len(buf) = len
    <3>1. Len(buf) \in Nat /\ 1 .. Len(buf) = 1 .. len
      BY <2>2, <2>3, LenProperties
    <3> QED
      BY <1>4, <3>1
  <2> HIDE DEF buf
  <2>5. FileShape' /\ CallShape' /\ IoShape'
    BY <1>1, <1>3, <1>4, <2>1, <2>3, <2>4, PlainLayout, TransferFacts DEF b
  <2> QED
    BY <1>1, <2>5 DEF IInv, CloneShape
<1> QED
  BY <1>5, <1>6

(* What open_image can come back with.                                     *)
LEMMA OpeningFacts ==
    ASSUME FileShape, CallShape, NEW f \in Files, NEW o \in Openings(f)
    PROVE  /\ o.vol \in Volumes /\ o.vol.file = f /\ o.vol # NoVolume
           /\ o.vol.count \in Nat /\ o.vol.bps * o.vol.count \in Nat
           /\ o.vol.count # 0 => o.vol.offset + o.vol.bps * o.vol.count <= Len(file[f])
           /\ o.misread \in BOOLEAN /\ (~o.misread => o.vol = Volume(f, file[f]))
           /\ o.errs \in 0 .. MaxErrors /\ (o.errs = 0 => errs = 0 /\ ~o.misread)
<1>1. file[f] \in Seq(Units) /\ errs \in 0 .. MaxErrors /\ MaxErrors \in Nat
  BY SizesAssumption DEF FileShape, FilesShape, CallShape
<1>2. CASE o = [vol |-> Volume(f, file[f]), misread |-> FALSE, errs |-> errs]
  <2>1. o.vol = Volume(f, file[f]) /\ o.misread = FALSE /\ o.errs = errs
    BY <1>2
  <2>2. /\ Volume(f, file[f]) \in Volumes /\ Volume(f, file[f]).file = f
        /\ Volume(f, file[f]) # NoVolume
        /\ Volume(f, file[f]).bps * Volume(f, file[f]).count \in Nat
        /\ Volume(f, file[f]).count # 0
             => Volume(f, file[f]).offset + Volume(f, file[f]).bps * Volume(f, file[f]).count
                  <= Len(file[f])
    BY <1>1, VolumeFacts
  <2>3. Volume(f, file[f]).count \in Nat
    BY <2>2 DEF Volumes
  <2> QED
    BY <1>1, <2>1, <2>2, <2>3
<1>3. CASE /\ errs < MaxErrors
           /\ o = [vol |-> RawVolume(f, file[f]), misread |-> IsHdf(file[f]), errs |-> errs + 1]
  <2>1. o.vol = RawVolume(f, file[f]) /\ o.misread = IsHdf(file[f]) /\ o.errs = errs + 1
    BY <1>3
  <2>2. o.misread \in BOOLEAN /\ (~o.misread => o.vol = Volume(f, file[f]))
    BY <2>1 DEF IsHdf, Volume
  <2> QED
    BY <1>1, <1>3, <2>1, <2>2, RawVolumeFacts DEF Volumes
<1> QED
  BY <1>2, <1>3 DEF Openings

LEMMA OpenStep == ASSUME IInv, NEW f \in Files, OpenImage(f) PROVE IInv'
<1>1. /\ pc = "idle" /\ pc' = "idle" /\ f \in exists /\ command' = "disk" /\ io' = NoIo
      /\ ~Opened(0) /\ ~Opened(1) /\ ~misread
      /\ UNCHANGED <<exists, file, damaged, made, position>>
  BY DEF OpenImage, Opened, IInv, CallShape
<1>2. IoShape'
  BY <1>1, EmptySeq DEF IInv, IoShape, Succeeded, NoIo, Drives, Transfers
<1>3. CloneShape'
  BY <1>1 DEF CloneShape
<1>4. ASSUME NEW o \in Openings(f),
             vol' = [vol EXCEPT ![0] = o.vol] /\ misread' = o.misread /\ errs' = o.errs /\ ret' = "OK"
      PROVE  FileShape' /\ CallShape'
  <2>1. /\ o.vol \in Volumes /\ o.vol.file = f /\ o.vol # NoVolume
        /\ o.vol.count # 0 => o.vol.offset + o.vol.bps * o.vol.count <= Len(file[f])
        /\ o.misread \in BOOLEAN /\ (~o.misread => o.vol = Volume(f, file[f]))
        /\ o.errs \in 0 .. MaxErrors /\ (o.errs = 0 => errs = 0 /\ ~o.misread)
    BY OpeningFacts DEF IInv
  <2>2. vol \in [Drives -> Volumes] /\ 0 \in Drives
    BY DEF IInv, FileShape, VolumesShape, Drives
  <2>3. vol'[0] = o.vol /\ vol' \in [Drives -> Volumes] /\ ~Opened(1)' /\ Opened(0)'
    BY <1>1, <1>4, <2>1, <2>2 DEF Opened, Drives
  <2>4. FilesShape' /\ HeaderShape'
    BY <1>1 DEF IInv, FileShape, FilesShape, HeaderShape, Finished
  <2>5. \A d \in Drives : Opened(d)' =>
            /\ vol'[d].file \in exists'
            /\ vol'[d].count # 0 => VolumeEnd(d)' <= Len(file'[vol'[d].file])
    BY <1>1, <2>1, <2>3 DEF Drives, VolumeEnd
  <2>6. \A d \in Drives : Sound(d)' => Volume(vol'[d].file, file'[vol'[d].file]) = vol'[d]
    BY <1>1, <1>4, <2>1, <2>3 DEF Drives, Sound, Opened
  <2>7. VolumesShape'
    BY <1>4, <2>1, <2>3, <2>5, <2>6 DEF VolumesShape
  <2>8. CallShape'
    BY <1>1, <1>4, <2>1, <2>3 DEF IInv, CallShape
  <2> QED
    BY <2>4, <2>7, <2>8 DEF FileShape
<1>5. CASE Fault /\ ret' = "ERR" /\ UNCHANGED <<vol, misread>>
  <2>1. errs' \in 0 .. MaxErrors /\ errs' # 0
    BY <1>5, SizesAssumption DEF Fault, IInv, CallShape
  <2>2. FileShape'
    BY <1>1, <1>5, FilesKept DEF IInv, FileShape, VolumesShape
  <2>3. CallShape'
    BY <1>1, <1>5, <2>1 DEF IInv, CallShape, Opened
  <2> QED
    BY <1>2, <1>3, <2>2, <2>3 DEF IInv
<1> QED
  BY <1>2, <1>3, <1>4, <1>5 DEF IInv, OpenImage

LEMMA CloseStep == ASSUME IInv, CloseImage PROVE IInv'
<1>1. /\ pc = "idle" /\ pc' = "idle" /\ ret' = "none" /\ io' = NoIo
      /\ vol' = [vol EXCEPT ![0] = NoVolume] /\ ~Opened(1) /\ misread' = FALSE
      /\ UNCHANGED <<exists, file, damaged, command, made, position, errs>>
  BY DEF CloseImage, Opened, IInv, CallShape
<1>2. \A d \in Drives : vol'[d] = NoVolume
  BY <1>1 DEF IInv, FileShape, VolumesShape, Drives, Opened
<1>3. FileShape'
  <2>1. vol' \in [Drives -> Volumes]
    BY <1>1, NoVolumeIsOne DEF IInv, FileShape, VolumesShape, Drives
  <2> QED
    BY <1>1, <1>2, <2>1, FilesKept DEF IInv
<1>4. CallShape'
  BY <1>1, <1>2 DEF IInv, CallShape, Opened, Drives
<1>5. IoShape'
  BY <1>1, EmptySeq DEF IInv, IoShape, Succeeded, NoIo, Drives, Transfers
<1>6. CloneShape'
  BY <1>1 DEF CloneShape
<1> QED
  BY <1>3, <1>4, <1>5, <1>6 DEF IInv

-----------------------------------------------------------------------------
(* New images.                                                             *)
LEMMA BlankFacts ==
    ASSUME NEW f \in Files, NEW c \in Nat
    PROVE  /\ Blank(f, c) \in Seq(Units) /\ Layout(Blank(f, c)) /\ Stated(Blank(f, c))
           /\ Created(f, c) \in Volumes /\ Created(f, c) # NoVolume /\ Created(f, c).file = f
           /\ Created(f, c).bps = Full /\ Created(f, c).count = c
           /\ Created(f, c).offset + Full * c <= Len(Blank(f, c))
           /\ Volume(f, Blank(f, c)).bps = Full
           /\ f \in HdfNames => PartlyMade(Blank(f, c), c, 0)
           /\ f \notin HdfNames => Volume(f, Blank(f, c)) = Created(f, c)
<1> DEFINE h == IF f \in HdfNames THEN HDF_HEADER_SIZE ELSE 0
           n == c * Full + h
<1>1. n \in Nat /\ HDF_HEADER_SIZE \in Nat \ {0, 1} /\ h \in {0, HDF_HEADER_SIZE}
  BY OffsetFacts DEF Full
<1>2. /\ Blank(f, c) \in Seq(PlainUnits) /\ Len(Blank(f, c)) = n
      /\ \A i \in 1 .. n : Blank(f, c)[i] = Zero
  BY <1>1, ZerosFacts DEF Blank
<1>3. /\ Blank(f, c) \in Seq(Units) /\ Layout(Blank(f, c)) /\ ~IsHdf(Blank(f, c)) /\ Stated(Blank(f, c))
  BY <1>2, PlainLayout
<1>4. Created(f, c) = [file |-> f, offset |-> h, bps |-> Full, count |-> c]
  BY DEF Created
<1>5. /\ Created(f, c) \in Volumes /\ Created(f, c) # NoVolume /\ Created(f, c).file = f
      /\ Created(f, c).bps = Full /\ Created(f, c).count = c /\ Created(f, c).offset = h
  BY <1>1, <1>4, FilesAssumption, OffsetFacts DEF Volumes, NoVolume
<1>6. h + Full * c <= n
  BY <1>1 DEF Full
<1>7. ASSUME f \in HdfNames PROVE PartlyMade(Blank(f, c), c, 0)
  <2>1. n = HDF_HEADER_SIZE + c * Full
    BY <1>1, <1>7 DEF Full
  <2> QED
    BY <1>2, <2>1 DEF PartlyMade
<1>8. ASSUME f \notin HdfNames PROVE Volume(f, Blank(f, c)) = Created(f, c)
  <2>1. n = c * 2 /\ n \div 2 = c
    BY <1>8, Halves DEF Full
  <2> QED
    BY <1>2, <1>3, <1>8, <2>1 DEF Volume, RawVolume, Created, Full
<1>9. Volume(f, Blank(f, c)).bps = Full
  BY <1>3 DEF Volume, RawVolume
<1> QED
  BY <1>2, <1>3, <1>5, <1>6, <1>7, <1>8, <1>9

(* What create and clone have opened before they make the new file: create *)
(* nothing, clone its source, another file.                                *)
Ready(d, f, source) ==
    /\ source.vol \in Volumes /\ source.misread \in BOOLEAN
    /\ source.errs \in 0 .. MaxErrors /\ (source.errs = 0 => errs = 0 /\ ~source.misread)
    /\ \/ d = 0 /\ source.vol = NoVolume /\ ~source.misread
       \/ /\ d = 1 /\ source.vol # NoVolume
          /\ source.vol.file \in exists /\ source.vol.file # f
          /\ source.vol.count # 0 =>
                source.vol.offset + source.vol.bps * source.vol.count <= Len(file[source.vol.file])
          /\ ~source.misread => source.vol = Volume(source.vol.file, file[source.vol.file])

LEMMA CreateFileFacts ==
    ASSUME FileShape, CallShape, pc = "idle", ~Opened(0), NEW f \in Files, NEW c \in Nat,
           NEW d \in Drives, NEW source, Ready(d, f, source),
           CreateFile(d, f, c, source), command' = IF d = 0 THEN "create" ELSE "clone"
    PROVE  /\ FileShape'
           /\ errs' \in 0 .. MaxErrors /\ ret' \in {"none", "OK", "ERR"}
           /\ errs' = 0 => damaged' = {} /\ ~misread'
           /\ misread' => Opened(0)'
           /\ made' \in [done : 0 .. HDF_HEADER_SIZE, count : Nat]
           /\ \/ pc' = "idle" /\ vol' = vol
              \/ /\ vol'[d] = Created(f, c) /\ vol'[1 - d] = (IF d = 0 THEN NoVolume ELSE source.vol)
                 /\ d = 1 => (Sound(1)' <=> Sound(0)')
                 /\ pc' = IF f \in HdfNames THEN "header" ELSE IF d = 1 THEN "clone" ELSE "idle"
<1>1. /\ exists \subseteq Files /\ damaged \subseteq exists
      /\ file \in [Files -> Seq(Units)] /\ \A g \in Files \ damaged : Layout(file[g]) /\ Stated(file[g])
      /\ vol \in [Drives -> Volumes] /\ ~Opened(1) /\ errs \in 0 .. MaxErrors /\ ~misread
      /\ errs = 0 => damaged = {}
      /\ made \in [done : 0 .. HDF_HEADER_SIZE, count : Nat]
      /\ HDF_HEADER_SIZE \in Nat \ {0, 1} /\ MaxErrors \in Nat
  BY SizesAssumption DEF FileShape, FilesShape, VolumesShape, CallShape, Finished
<1>2. \A e \in Drives : vol[e] = NoVolume
  BY <1>1 DEF Opened, Drives
<1>3. CASE /\ source.errs < MaxErrors /\ errs' = source.errs + 1
           /\ \/ UNCHANGED <<exists, file, damaged>>
              \/ /\ exists' = exists \cup {f}
                 /\ file' = [file EXCEPT ![f] = <<>>] /\ damaged' = damaged \ {f}
           /\ pc' = "idle" /\ ret' = "ERR"
           /\ UNCHANGED <<vol, misread, made>>
  <2>1. <<>> \in Seq(Units) /\ Layout(<<>>) /\ Stated(<<>>)
    BY EmptySeq, PlainLayout
  <2>2. errs' \in 0 .. MaxErrors /\ errs' # 0
    BY <1>1, <1>3 DEF Ready
  <2>3. /\ exists' \subseteq Files /\ damaged' \subseteq exists' /\ file' \in [Files -> Seq(Units)]
        /\ \A g \in Files \ damaged' : Layout(file'[g]) /\ Stated(file'[g])
    BY <1>1, <1>3, <2>1
  <2>4. \A e \in Drives : ~Opened(e)' /\ ~Sound(e)'
    BY <1>2, <1>3 DEF Opened, Sound
  <2>5. FileShape'
    BY <1>1, <1>3, <2>3, <2>4 DEF FileShape, FilesShape, VolumesShape, HeaderShape
  <2> QED
    BY <1>1, <1>3, <2>2, <2>5
<1>4. CASE /\ exists' = exists \cup {f} /\ file' = [file EXCEPT ![f] = Blank(f, c)]
           /\ vol' = [[vol EXCEPT ![0] = source.vol] EXCEPT ![d] = Created(f, c)]
           /\ misread' = source.misread
           /\ damaged' = IF Clean(source) THEN damaged \ {f} ELSE damaged \cup {f}
           /\ made' = IF f \in HdfNames THEN [done |-> 0, count |-> c] ELSE NotMade
           /\ pc' = AfterCreate(f)
           /\ ret' = IF pc' = "idle" THEN "OK" ELSE "none"
           /\ errs' = source.errs
  <2>1. pc' = IF f \in HdfNames THEN "header" ELSE IF d = 1 THEN "clone" ELSE "idle"
    BY <1>4 DEF AfterCreate, Drives
  <2>2. /\ Created(f, c) \in Volumes /\ Created(f, c) # NoVolume /\ Created(f, c).file = f
        /\ Created(f, c).bps = Full /\ Created(f, c).count = c
        /\ Created(f, c).offset + Full * c <= Len(Blank(f, c))
        /\ Blank(f, c) \in Seq(Units) /\ Layout(Blank(f, c)) /\ Stated(Blank(f, c))
        /\ f \in HdfNames => PartlyMade(Blank(f, c), c, 0)
        /\ f \notin HdfNames => Volume(f, Blank(f, c)) = Created(f, c)
    BY BlankFacts
  <2>3. /\ vol' \in [Drives -> Volumes] /\ vol'[d] = Created(f, c)
        /\ vol'[1 - d] = (IF d = 0 THEN NoVolume ELSE source.vol)
    BY <1>1, <1>2, <1>4, <2>2 DEF Drives, Ready
  <2>4. /\ file' \in [Files -> Seq(Units)] /\ file'[f] = Blank(f, c)
        /\ \A g \in Files : g # f => file'[g] = file[g]
    BY <1>1, <1>4, <2>2
  <2>5. NewDrive' = d /\ NewFile' = f
    BY <2>2, <2>3 DEF NewDrive, NewFile, Drives
  <2>6. FilesShape'
    <3>1. exists' \subseteq Files /\ damaged' \subseteq exists'
      BY <1>1, <1>4
    <3>2. ASSUME NEW g \in Files \ damaged' PROVE Layout(file'[g]) /\ Stated(file'[g])
      BY <1>1, <1>4, <2>2, <2>4
    <3> QED
      BY <2>4, <3>1, <3>2 DEF FilesShape
  <2>7. ASSUME NEW e \in Drives, Opened(e)', e # d
        PROVE  /\ d = 1 /\ e = 0 /\ vol'[e] = source.vol /\ vol'[e].file \in exists
               /\ file'[vol'[e].file] = file[source.vol.file]
    <3>1. d = 1 /\ e = 0 /\ vol'[e] = source.vol
      BY <2>3, <2>7 DEF Drives, Opened
    <3> QED
      BY <1>1, <2>4, <3>1 DEF Ready
  <2>8. ASSUME NEW e \in Drives, Opened(e)'
        PROVE  /\ vol'[e].file \in exists'
               /\ vol'[e].count # 0 => VolumeEnd(e)' <= Len(file'[vol'[e].file])
    <3>1. CASE e = d
      <4>1. vol'[e].file = f /\ VolumeEnd(e)' = Created(f, c).offset + Full * c
        BY <2>2, <2>3, <3>1 DEF VolumeEnd
      <4> QED
        BY <1>4, <2>2, <2>4, <4>1
    <3>2. CASE e # d
      <4>1. /\ d = 1 /\ vol'[e] = source.vol /\ vol'[e].file \in exists
            /\ file'[vol'[e].file] = file[source.vol.file]
        BY <2>7, <2>8, <3>2
      <4>2. vol'[e].count # 0 => VolumeEnd(e)' <= Len(file'[vol'[e].file])
        BY <4>1 DEF Ready, VolumeEnd
      <4> QED
        BY <1>4, <4>1, <4>2
    <3> QED
      BY <3>1, <3>2
  <2>9. ASSUME NEW e \in Drives, Sound(e)', ~(pc' = "header" /\ e = NewDrive')
        PROVE  Volume(vol'[e].file, file'[vol'[e].file]) = vol'[e]
    <3>1. Opened(e)' /\ ~misread'
      BY <2>9 DEF Sound, Opened
    <3>2. CASE e = d
      BY <2>1, <2>2, <2>3, <2>4, <2>5, <2>9, <3>2
    <3>3. CASE e # d
      BY <1>4, <2>7, <3>1, <3>3 DEF Ready
    <3> QED
      BY <3>2, <3>3
  <2>10. VolumesShape'
    <3>1. misread' \in BOOLEAN
      BY <1>4 DEF Ready
    <3> QED
      BY <2>3, <2>8, <2>9, <3>1 DEF VolumesShape
  <2>11. HeaderShape'
    <3>1. pc' = "header" => /\ f \in HdfNames /\ made'.count = c /\ made'.done = 0
                            /\ PartlyMade(file'[f], made'.count, made'.done)
      BY <1>4, <2>1, <2>2, <2>4
    <3> QED
      BY <1>1, <2>3, <2>5, <3>1 DEF HeaderShape
  <2>12. made' \in [done : 0 .. HDF_HEADER_SIZE, count : Nat]
    BY <1>1, <1>4 DEF NotMade
  <2>13. errs' \in 0 .. MaxErrors /\ (misread' => Opened(0)')
    BY <1>4, <2>3 DEF Ready, Opened, Drives
  <2>14. errs' = 0 => damaged' = {} /\ ~misread'
    <3> SUFFICES ASSUME errs' = 0 PROVE damaged' = {} /\ ~misread'
      OBVIOUS
    <3>1. errs = 0 /\ ~source.misread
      BY <1>4 DEF Ready
    <3>2. damaged = {}
      BY <1>1, <3>1
    <3> QED
      BY <1>4, <3>1, <3>2 DEF Clean
  <2>15. d = 1 => (Sound(1)' <=> Sound(0)')
    <3> SUFFICES ASSUME d = 1 PROVE Sound(1)' <=> Sound(0)'
      OBVIOUS
    <3>1. /\ vol'[1] # NoVolume /\ vol'[1].file = f
          /\ vol'[0] = source.vol /\ source.vol # NoVolume /\ source.vol.file # f
          /\ misread' = source.misread
      BY <1>4, <2>2, <2>3 DEF Ready
    <3>2. Sound(1)' <=> ~source.misread /\ f \notin damaged'
      BY <3>1 DEF Sound
    <3>3. Sound(0)' <=> ~source.misread /\ source.vol.file \notin damaged'
      BY <3>1 DEF Sound
    <3>4. CASE Clean(source)
      BY <1>4, <3>1, <3>2, <3>3, <3>4 DEF Clean
    <3>5. CASE ~Clean(source)
      BY <1>4, <3>1, <3>2, <3>3, <3>5 DEF Clean
    <3> QED
      BY <3>4, <3>5
  <2> QED
    BY <1>4, <2>1, <2>3, <2>6, <2>10, <2>11, <2>12, <2>13, <2>14, <2>15 DEF FileShape
<1> QED
  BY <1>3, <1>4 DEF CreateFile

LEMMA CreateStep == ASSUME IInv, NEW f \in Files, NEW c \in Counts, Create(f, c) PROVE IInv'
<1> DEFINE source == [vol |-> NoVolume, misread |-> FALSE, errs |-> errs]
<1>1. /\ pc = "idle" /\ ~Opened(0) /\ ~Opened(1) /\ command' = "create" /\ io' = NoIo
      /\ UNCHANGED position /\ CreateFile(0, f, c, source) /\ c \in Nat /\ 0 \in Drives
  BY CountsAssumption DEF Create, Opened, IInv, CallShape, Drives
<1>2. Ready(0, f, source)
  BY NoVolumeIsOne DEF Ready, IInv, CallShape
<1> HIDE DEF source
<1>3. /\ FileShape'
      /\ errs' \in 0 .. MaxErrors /\ ret' \in {"none", "OK", "ERR"}
      /\ errs' = 0 => damaged' = {} /\ ~misread'
      /\ misread' => Opened(0)'
      /\ made' \in [done : 0 .. HDF_HEADER_SIZE, count : Nat]
      /\ \/ pc' = "idle" /\ vol' = vol
         \/ /\ vol'[0] = Created(f, c) /\ vol'[1] = NoVolume
            /\ pc' = IF f \in HdfNames THEN "header" ELSE "idle"
  BY <1>1, <1>2, CreateFileFacts DEF IInv
<1>4. ~Opened(1)' /\ (pc' # "idle" => Opened(0)')
  BY <1>1, <1>3, BlankFacts DEF Opened
<1>5. CallShape'
  BY <1>1, <1>3, <1>4 DEF IInv, CallShape
<1>6. IoShape'
  BY <1>1, <1>3, EmptySeq DEF IInv, IoShape, Succeeded, NoIo, Drives, Transfers
<1>7. CloneShape'
  BY <1>1 DEF CloneShape
<1> QED
  BY <1>3, <1>5, <1>6, <1>7 DEF IInv

LEMMA CloneStep == ASSUME IInv, NEW f \in Files, NEW g \in Files, Clone(f, g) PROVE IInv'
<1>1. /\ pc = "idle" /\ ~Opened(0) /\ ~Opened(1) /\ ~misread /\ command' = "clone" /\ io' = NoIo
      /\ position' = 0 /\ f \in exists /\ g # f /\ 1 \in Drives /\ 0 \in Drives
  BY DEF Clone, Opened, IInv, CallShape, Drives
<1>2. ASSUME pc' = "idle" PROVE IoShape' /\ CloneShape'
  BY <1>1, <1>2, EmptySeq DEF IInv, IoShape, CloneShape, Succeeded, NoIo, Drives, Transfers
<1>3. ASSUME NEW source \in Openings(f), CreateFile(1, g, source.vol.count, source) PROVE IInv'
  <2> DEFINE c == source.vol.count
  <2>1. /\ source.vol \in Volumes /\ source.vol.file = f /\ source.vol # NoVolume
        /\ c \in Nat /\ source.vol.bps * c \in Nat
        /\ Ready(1, g, source)
    BY <1>1, OpeningFacts DEF IInv, Ready
  <2> HIDE DEF c
  <2>2. /\ FileShape'
        /\ errs' \in 0 .. MaxErrors /\ ret' \in {"none", "OK", "ERR"}
        /\ errs' = 0 => damaged' = {} /\ ~misread'
        /\ misread' => Opened(0)'
        /\ made' \in [done : 0 .. HDF_HEADER_SIZE, count : Nat]
        /\ \/ pc' = "idle" /\ vol' = vol
           \/ /\ vol'[1] = Created(g, c) /\ vol'[0] = source.vol
              /\ Sound(1)' <=> Sound(0)'
              /\ pc' = IF g \in HdfNames THEN "header" ELSE "clone"
    <3>1. CreateFile(1, g, c, source)
      BY <1>3 DEF c
    <3> QED
      BY <1>1, <2>1, <3>1, CreateFileFacts DEF IInv
  <2>3. CASE pc' = "idle" /\ vol' = vol
    <3>1. CallShape'
      BY <1>1, <2>2, <2>3 DEF IInv, CallShape, Opened
    <3> QED
      BY <1>2, <2>2, <2>3, <3>1 DEF IInv
  <2>4. CASE /\ vol'[1] = Created(g, c) /\ vol'[0] = source.vol /\ (Sound(1)' <=> Sound(0)')
             /\ pc' \in {"header", "clone"}
    <3>1. /\ Created(g, c) # NoVolume /\ Created(g, c).file = g
          /\ Created(g, c).bps = Full /\ Created(g, c).count = c
      BY <2>1, BlankFacts
    <3>2. Opened(0)' /\ Opened(1)'
      BY <2>1, <2>4, <3>1 DEF Opened
    <3>3. CallShape'
      BY <1>1, <2>2, <2>4, <3>2 DEF IInv, CallShape
    <3>4. IoShape'
      BY <1>1, <2>4, EmptySeq DEF IInv, IoShape, Succeeded, NoIo, Drives, Transfers
    <3>5. position' <= TotalSize'
      BY <1>1, <2>1, <2>4 DEF TotalSize, c
    <3>6. CloneShape'
      BY <1>1, <2>1, <2>4, <3>1, <3>5 DEF CloneShape, c
    <3> QED
      BY <2>2, <3>3, <3>4, <3>6 DEF IInv
  <2> QED
    BY <2>2, <2>3, <2>4
<1>4. CASE /\ Fault /\ pc' = "idle" /\ ret' = "ERR"
           /\ UNCHANGED <<exists, file, vol, misread, damaged, made>>
  <2>1. errs' \in 0 .. MaxErrors /\ errs' # 0
    BY <1>4, SizesAssumption DEF Fault, IInv, CallShape
  <2>2. FileShape'
    BY <1>1, <1>4, FilesKept DEF IInv, FileShape, VolumesShape
  <2>3. CallShape'
    BY <1>1, <1>4, <2>1 DEF IInv, CallShape, Opened
  <2> QED
    BY <1>2, <1>4, <2>2, <2>3 DEF IInv
<1> QED
  BY <1>3, <1>4 DEF Clone

(* The header of a new image.                                              *)
LEMMA NewFileFacts ==
    ASSUME IInv, pc = "header"
    PROVE  /\ NewFile \in Files /\ NewFile \in HdfNames /\ NewFile \in exists /\ NewDrive \in Drives
           /\ vol[NewDrive] = Created(NewFile, made.count) /\ Opened(NewDrive)
           /\ vol[NewDrive].file = NewFile
           /\ made.count \in Nat /\ made.done \in 0 .. HDF_HEADER_SIZE /\ made.done < HDF_HEADER_SIZE
           /\ PartlyMade(file[NewFile], made.count, made.done)
           /\ file[NewFile] \in Seq(Units) /\ Len(file[NewFile]) \in Nat
           /\ DOMAIN file[NewFile] = 1 .. Len(file[NewFile])
           /\ \A d \in Drives : d # NewDrive /\ Opened(d) => vol[d].file # NewFile
<1> DEFINE g == NewFile
<1>1. /\ g \in HdfNames /\ g \in Files /\ NewDrive \in Drives
      /\ vol[NewDrive] = Created(g, made.count)
      /\ made.count \in Nat /\ made.done \in 0 .. HDF_HEADER_SIZE /\ made.done < HDF_HEADER_SIZE
      /\ PartlyMade(file[g], made.count, made.done)
  BY FilesAssumption DEF IInv, FileShape, HeaderShape, CallShape, NewDrive, Drives
<1>2. Opened(NewDrive) /\ vol[NewDrive].file = g
  <2>1. Created(g, made.count) # NoVolume /\ Created(g, made.count).file = g
    BY <1>1, BlankFacts
  <2> QED
    BY <1>1, <2>1 DEF Opened
<1>3. g \in exists /\ file[g] \in Seq(Units)
  BY <1>1, <1>2 DEF IInv, FileShape, FilesShape, VolumesShape
<1>4. Len(file[g]) \in Nat /\ DOMAIN file[g] = 1 .. Len(file[g])
  BY <1>3, LenProperties
<1>5. \A d \in Drives : d # NewDrive /\ Opened(d) => vol[d].file # g
  <2>1. command \in {"create", "clone"} /\ (command = "clone" <=> Opened(1))
    BY DEF IInv, CallShape
  <2>2. command = "clone" => vol[0].file # vol[1].file /\ g = vol[1].file
    BY DEF IInv, CloneShape, NewFile
  <2> QED
    BY <2>1, <2>2 DEF Drives, NewDrive
<1> QED
  BY <1>1, <1>2, <1>3, <1>4, <1>5

LEMMA HeaderErrorStep == ASSUME IInv, HeaderError PROVE IInv'
<1> DEFINE g == NewFile
<1>1. /\ pc = "header" /\ pc' = "idle" /\ ret' = "ERR"
      /\ vol' = [d \in Drives |-> NoVolume] /\ misread' = FALSE /\ made' = NotMade
      /\ damaged' = damaged \cup {g}
      /\ UNCHANGED <<exists, command, io, position>> /\ errs' = errs + 1 /\ errs < MaxErrors
      /\ HDF_HEADER_SIZE \in Nat \ {0, 1} /\ MaxErrors \in Nat
  BY SizesAssumption DEF HeaderError, Fault
<1>2. PICK u \in Cut(made.count, made.done + 1) :
          file' = [file EXCEPT ![g] = [@ EXCEPT ![made.done + 1] = u]]
  BY DEF HeaderError
<1>3. /\ g \in Files /\ g \in exists /\ file[g] \in Seq(Units) /\ made.count \in Nat
      /\ file \in [Files -> Seq(Units)]
  BY <1>1, NewFileFacts DEF IInv, FileShape, FilesShape
<1> DEFINE t == [file[g] EXCEPT ![made.done + 1] = u]
<1>4. t \in Seq(Units)
  <2>1. u \in Units
    BY <1>3, CutUnits
  <2>2. t \in [DOMAIN file[g] -> Units]
    BY <1>3, <2>1, LenProperties
  <2> QED
    BY <1>3, <2>2, Overwritten
<1>5. file' = [file EXCEPT ![g] = t]
  BY <1>2
<1> HIDE DEF t
<1>6. FilesShape'
  <2>1. file' \in [Files -> Seq(Units)] /\ \A f \in Files : f # g => file'[f] = file[f]
    BY <1>3, <1>4, <1>5
  <2>2. \A f \in Files \ damaged' : f # g /\ f \notin damaged /\ Finished(f)
    BY <1>1 DEF Finished
  <2>3. \A f \in Files \ damaged : Layout(file[f]) /\ (Finished(f) => Stated(file[f]))
    BY DEF IInv, FileShape, FilesShape
  <2>4. \A f \in Files \ damaged' : Layout(file'[f]) /\ Stated(file'[f])
    BY <2>1, <2>2, <2>3
  <2>5. exists' \subseteq Files /\ damaged' \subseteq exists'
    BY <1>1, <1>3 DEF IInv, FileShape, FilesShape
  <2> QED
    BY <2>1, <2>4, <2>5 DEF FilesShape
<1>7. VolumesShape' /\ HeaderShape'
  BY <1>1, NoVolumeIsOne DEF VolumesShape, HeaderShape, Opened, Sound
<1>8. CallShape'
  BY <1>1 DEF IInv, CallShape, Opened, Drives, NotMade
<1>9. IoShape'
  BY <1>1 DEF IInv, IoShape, Succeeded, Transfers
<1>10. CloneShape'
  BY <1>1 DEF CloneShape
<1> QED
  BY <1>6, <1>7, <1>8, <1>9, <1>10 DEF IInv, FileShape

LEMMA HeaderTurnStep ==
    ASSUME IInv, NEW k \in 1 .. HDF_HEADER_SIZE, HeaderTurn(k)
    PROVE  /\ IInv'
           /\ NewFile \in Files /\ \A f \in Files : f # NewFile => file'[f] = file[f]
           /\ Volume(NewFile, file'[NewFile]).bps = Full
           /\ Volume(NewFile, file'[NewFile]).count = made.count
<1> DEFINE g == NewFile
           c == made.count
           n == made.done
           t == [i \in DOMAIN file[g] |-> IF i \in (n + 1) .. (n + k) THEN Header(c)[i] ELSE file[g][i]]
<1>1. /\ pc = "header" /\ k \in 1 .. (HDF_HEADER_SIZE - n) /\ file' = [file EXCEPT ![g] = t]
      /\ UNCHANGED <<exists, vol, misread, damaged, command, io, position, errs>>
      /\ HDF_HEADER_SIZE \in Nat \ {0, 1}
      /\ file \in [Files -> Seq(Units)]
  BY OffsetFacts DEF HeaderTurn, IInv, FileShape, FilesShape
<1>2. /\ g \in Files /\ g \in HdfNames /\ vol[NewDrive] = Created(g, c) /\ NewDrive \in Drives
      /\ Opened(NewDrive) /\ vol[NewDrive].file = g
      /\ n \in 0 .. HDF_HEADER_SIZE /\ c \in Nat /\ PartlyMade(file[g], c, n)
      /\ file[g] \in Seq(Units) /\ Len(file[g]) \in Nat /\ DOMAIN file[g] = 1 .. Len(file[g])
      /\ \A d \in Drives : d # NewDrive /\ Opened(d) => vol[d].file # g
  BY <1>1, NewFileFacts
<1>3. t \in [DOMAIN file[g] -> Units]
  <2> SUFFICES ASSUME NEW i \in DOMAIN file[g]
               PROVE  (IF i \in (n + 1) .. (n + k) THEN Header(c)[i] ELSE file[g][i]) \in Units
    OBVIOUS
  <2>1. i \in (n + 1) .. (n + k) => i \in 1 .. HDF_HEADER_SIZE
    BY <1>1, <1>2
  <2>2. file[g][i] \in Units
    BY <1>2, LenProperties
  <2> QED
    BY <1>2, <2>1, <2>2, HeaderUnitsOf
<1>4. t \in Seq(Units) /\ Len(t) = Len(file[g])
  BY <1>2, <1>3, Overwritten
<1>5. PartlyMade(t, c, n + k)
  <2>1. ASSUME NEW i \in 1 .. Len(t) PROVE t[i] = IF i <= n + k THEN Header(c)[i] ELSE Zero
    <3>1. file[g][i] = IF i <= n THEN Header(c)[i] ELSE Zero
      BY <1>2, <1>4 DEF PartlyMade
    <3>2. t[i] = IF i \in (n + 1) .. (n + k) THEN Header(c)[i] ELSE file[g][i]
      BY <1>2, <1>4
    <3> QED
      BY <1>1, <1>2, <1>4, <3>1, <3>2
  <2> QED
    BY <1>2, <1>4, <2>1 DEF PartlyMade
<1> HIDE DEF t
<1>6. /\ Layout(t) /\ (n + k = HDF_HEADER_SIZE => Stated(t))
      /\ \A f : Volume(f, t) = [file |-> f, offset |-> HDF_HEADER_SIZE, bps |-> Full, count |-> c]
  <2>1. n + k \in 0 .. HDF_HEADER_SIZE /\ n + k > 0
    BY <1>1, <1>2
  <2> QED
    BY <1>2, <1>4, <1>5, <2>1, PartlyMadeFacts
<1>7. file'[g] = t /\ \A f \in Files : f # g => file'[f] = file[f]
  BY <1>1, <1>2
<1>8. \/ n + k < HDF_HEADER_SIZE /\ made' = [made EXCEPT !.done = @ + k] /\ UNCHANGED <<pc, ret>>
      \/ /\ n + k = HDF_HEADER_SIZE /\ made' = NotMade
         /\ \/ command = "clone" /\ pc' = "clone" /\ UNCHANGED ret
            \/ command = "create" /\ pc' = "idle" /\ ret' = "OK"
  BY DEF HeaderTurn
<1>9. made' \in [done : 0 .. HDF_HEADER_SIZE, count : Nat]
      /\ (pc' = "header" => made'.done = n + k /\ n + k < HDF_HEADER_SIZE /\ made'.count = c)
      /\ (pc' # "header" => n + k = HDF_HEADER_SIZE)
  <2>1. made \in [done : 0 .. HDF_HEADER_SIZE, count : Nat]
    BY DEF IInv, CallShape
  <2> QED
    BY <1>1, <1>2, <1>8, <2>1 DEF NotMade
<1>10. NewDrive' = NewDrive /\ NewFile' = g
  BY <1>1 DEF NewDrive, NewFile
<1>11. FilesShape'
  <2>1. file' \in [Files -> Seq(Units)]
    BY <1>1, <1>2, <1>4
  <2>2. \A f \in Files \ damaged : Layout(file[f]) /\ (Finished(f) => Stated(file[f]))
    BY DEF IInv, FileShape, FilesShape
  <2>3. ASSUME NEW f \in Files \ damaged PROVE Layout(file'[f])
    BY <1>6, <1>7, <2>2
  <2>4. ASSUME NEW f \in Files \ damaged, Finished(f)' PROVE Stated(file'[f])
    <3>1. CASE f = g
      BY <1>6, <1>7, <1>9, <1>10, <2>4, <3>1 DEF Finished
    <3>2. CASE f # g
      BY <1>7, <2>2, <3>2 DEF Finished
    <3> QED
      BY <3>1, <3>2
  <2>5. exists' \subseteq Files /\ damaged' \subseteq exists' /\ damaged' = damaged
    BY <1>1 DEF IInv, FileShape, FilesShape
  <2> QED
    BY <2>1, <2>3, <2>4, <2>5 DEF FilesShape
<1>12. VolumesShape'
  <2>1. vol \in [Drives -> Volumes] /\ misread \in BOOLEAN
    BY DEF IInv, FileShape, VolumesShape
  <2>2. \A f \in Files : Len(file'[f]) = Len(file[f])
    BY <1>4, <1>7
  <2>3. ASSUME NEW d \in Drives, Opened(d)'
        PROVE  /\ vol'[d].file \in exists'
               /\ vol'[d].count # 0 => VolumeEnd(d)' <= Len(file'[vol'[d].file])
    <3>1. Opened(d) /\ vol' = vol /\ exists' = exists /\ VolumeEnd(d)' = VolumeEnd(d)
      BY <1>1, <2>3 DEF Opened, VolumeEnd
    <3> QED
      BY <2>2, <3>1, OpenFacts DEF IInv
  <2>4. ASSUME NEW d \in Drives, Sound(d)', ~(pc' = "header" /\ d = NewDrive)
        PROVE  Volume(vol'[d].file, file'[vol'[d].file]) = vol'[d]
    <3>0. Sound(d) /\ Opened(d) /\ vol'[d] = vol[d]
      BY <1>1, <2>4 DEF Sound, Opened
    <3>1. CASE d = NewDrive
      <4>1. vol'[d] = [file |-> g, offset |-> HDF_HEADER_SIZE, bps |-> Full, count |-> c]
        BY <1>2, <3>0, <3>1 DEF Created
      <4>2. Volume(g, t) = [file |-> g, offset |-> HDF_HEADER_SIZE, bps |-> Full, count |-> c]
        BY <1>6
      <4> QED
        BY <1>7, <4>1, <4>2
    <3>2. CASE d # NewDrive
      <4>1. vol[d].file # g /\ vol[d].file \in Files
        BY <1>2, <3>0, <3>2, OpenFacts DEF IInv
      <4>2. Volume(vol[d].file, file[vol[d].file]) = vol[d]
        BY <3>0, <3>2 DEF IInv, FileShape, VolumesShape
      <4> QED
        BY <1>7, <3>0, <4>1, <4>2
    <3> QED
      BY <3>1, <3>2
  <2> QED
    BY <1>1, <1>10, <2>1, <2>3, <2>4 DEF VolumesShape
<1>13. HeaderShape'
  BY <1>1, <1>2, <1>5, <1>7, <1>9, <1>10 DEF HeaderShape
<1>14. CallShape'
  BY <1>1, <1>8, <1>9 DEF IInv, CallShape, Opened
<1>15. IoShape'
  BY <1>1, <1>8 DEF IInv, IoShape, CallShape, Succeeded, Transfers
<1>16. CloneShape'
  BY <1>1, <1>8 DEF IInv, CloneShape, TotalSize, Sound
<1>17. Volume(g, file'[g]).bps = Full /\ Volume(g, file'[g]).count = c
  BY <1>6, <1>7
<1> QED
  BY <1>2, <1>7, <1>11, <1>12, <1>13, <1>14, <1>15, <1>16, <1>17 DEF IInv, FileShape

-----------------------------------------------------------------------------
(* The transfer loops.                                                     *)
LEMMA TransferInside ==
    ASSUME IInv, pc = "io"
    PROVE  /\ io.drive \in Drives /\ Opened(io.drive) /\ Target \in Files
           /\ io.pos \in Nat /\ io.len \in Nat /\ io.done \in Nat /\ io.done <= io.len
           /\ io.op \in {"read", "write"}
           /\ io.buf \in Seq(Units) /\ Len(io.buf) = io.len
           /\ file[Target] \in Seq(Units) /\ Len(file[Target]) \in Nat
           /\ io.pos + io.len <= Len(file[Target])
           /\ \A i \in 1 .. io.len : /\ io.pos + i \in 1 .. Len(file[Target])
                                     /\ file[Target][io.pos + i] \in Units
<1> DEFINE v == vol[io.drive]
           s == file[Target]
           size == v.bps * v.count
<1>1. /\ io.drive \in Drives /\ Opened(io.drive)
      /\ io.pos \in Nat /\ io.len \in Nat /\ io.done \in Nat /\ io.done <= io.len
      /\ io.op \in {"read", "write"}
      /\ io.buf \in Seq(Units) /\ Len(io.buf) = io.len
      /\ v.offset <= io.pos /\ io.pos + io.len <= VolumeEnd(io.drive) /\ v.count # 0
  BY DEF IInv, IoShape, Transfers
<1>2. /\ v.file \in Files /\ size \in Nat /\ v.offset \in Nat
      /\ VolumeEnd(io.drive) = v.offset + size /\ VolumeEnd(io.drive) <= Len(s)
      /\ s \in Seq(Units) /\ Len(s) \in Nat
  BY <1>1, OpenFacts DEF IInv, Target
<1> HIDE DEF size
<1>3. io.pos + io.len <= Len(s)
  <2> DEFINE last == io.pos + io.len
             end == VolumeEnd(io.drive)
             top == Len(s)
  <2>1. last \in Nat /\ end \in Nat /\ top \in Nat
    BY <1>1, <1>2
  <2>2. last <= end /\ end <= top
    BY <1>1, <1>2
  <2> HIDE DEF last, end, top
  <2>3. last <= top
    BY <2>1, <2>2
  <2> QED
    BY <2>3 DEF last, top
<1>4. ASSUME NEW i \in 1 .. io.len PROVE io.pos + i \in 1 .. Len(s) /\ s[io.pos + i] \in Units
  <2>1. io.pos + i \in 1 .. Len(s)
    BY <1>1, <1>2, <1>3
  <2> QED
    BY <1>2, <2>1, HdfFacts
<1> QED
  BY <1>1, <1>2, <1>3, <1>4 DEF Target

(* In an image that is sound a transfer moves data, behind the header.     *)
LEMMA SoundTransfer ==
    ASSUME IInv, pc = "io", Sound(io.drive)
    PROVE  /\ io.buf \in Seq(PlainUnits) /\ Layout(file[Target]) /\ Target \in Files \ damaged
           /\ \A i \in 1 .. io.len : /\ file[Target][io.pos + i] \in PlainUnits
                                     /\ IsHdf(file[Target]) => io.pos + i > HDF_HEADER_SIZE
<1> DEFINE v == vol[io.drive]
           s == file[Target]
           size == v.bps * v.count
<1>1. /\ io.drive \in Drives /\ io.pos \in Nat /\ io.len \in Nat
      /\ io.buf \in Seq(PlainUnits)
      /\ v.offset <= io.pos /\ io.pos + io.len <= VolumeEnd(io.drive)
  BY DEF IInv, IoShape, Transfers
<1>2. size \in Nat /\ v.offset \in Nat /\ VolumeEnd(io.drive) = v.offset + size
  BY <1>1, OpenFacts DEF IInv, Sound, Opened
<1>3. /\ v.file \in Files \ damaged /\ Layout(s) /\ (IsHdf(s) => v.offset = HDF_HEADER_SIZE)
      /\ \A i \in 1 .. size : s[v.offset + i] \in PlainUnits
  BY <1>1, SoundFacts DEF IInv, Target
<1> HIDE DEF size, s
<1>4. ASSUME NEW i \in 1 .. io.len
      PROVE  s[io.pos + i] \in PlainUnits /\ (IsHdf(s) => io.pos + i > HDF_HEADER_SIZE)
  <2> DEFINE a == v.offset
             n == VolumeEnd(io.drive)
  <2>0. /\ a \in Nat /\ size \in Nat /\ n = a + size /\ io.pos \in Nat /\ io.len \in Nat
        /\ a <= io.pos /\ io.pos + io.len <= n
    BY <1>1, <1>2
  <2> HIDE DEF a, n
  <2>1. /\ io.pos - a + i \in 1 .. size /\ a + (io.pos - a + i) = io.pos + i
        /\ io.pos + i > a
    BY ONLY <2>0, i \in 1 .. io.len
  <2> QED
    BY <1>3, <2>1 DEF a
<1> QED
  BY <1>1, <1>3, <1>4 DEF s, Target

LEMMA TurnReadStep == ASSUME IInv, NEW k \in 1 .. io.len, TurnRead(k) PROVE IInv'
<1> DEFINE buf == [i \in DOMAIN io.buf |-> IF i \in Moving(k) THEN file[Target][io.pos + i] ELSE io.buf[i]]
<1>1. /\ pc = "io" /\ k \in 1 .. (io.len - io.done) /\ io.op = "read"
      /\ io' = [io EXCEPT !.buf = buf, !.done = DoneAfter(k)]
      /\ UNCHANGED <<exists, file, vol, misread, damaged, pc, command, made, position, ret, errs>>
  BY DEF TurnRead
<1>2. /\ io.pos \in Nat /\ io.len \in Nat /\ io.done \in Nat /\ io.done <= io.len
      /\ io.buf \in Seq(Units) /\ Len(io.buf) = io.len
      /\ \A i \in 1 .. io.len : file[Target][io.pos + i] \in Units
      /\ DOMAIN io.buf = 1 .. io.len
  BY <1>1, TransferInside, LenProperties
<1>3. buf \in [DOMAIN io.buf -> Units]
  BY <1>2, LenProperties
<1>4. buf \in Seq(Units) /\ Len(buf) = io.len
  BY <1>2, <1>3, Overwritten
<1>5. ASSUME Sound(io.drive) PROVE buf \in Seq(PlainUnits)
  <2>1. /\ io.buf \in Seq(PlainUnits) /\ Len(io.buf) = io.len /\ DOMAIN io.buf = 1 .. io.len
        /\ \A i \in 1 .. io.len : file[Target][io.pos + i] \in PlainUnits
    BY <1>1, <1>2, <1>5, SoundTransfer
  <2>2. buf \in [DOMAIN io.buf -> PlainUnits]
    BY <2>1, LenProperties
  <2> QED
    BY <2>1, <2>2, Overwritten
<1>6. \A i \in 1 .. (io.done + k) : file[Target][io.pos + i] = buf[i]
  <2> SUFFICES ASSUME NEW i \in 1 .. (io.done + k) PROVE file[Target][io.pos + i] = buf[i]
    OBVIOUS
  <2>1. i \in 1 .. io.len /\ (i \notin Moving(k) => i \in 1 .. io.done)
    BY <1>1, <1>2 DEF Moving
  <2>2. i \in 1 .. io.done => file[Target][io.pos + i] = io.buf[i]
    BY <1>1 DEF IInv, IoShape
  <2> QED
    BY <1>2, <2>1, <2>2
<1> HIDE DEF buf
<1>7. /\ io'.op = io.op /\ io'.drive = io.drive /\ io'.pos = io.pos /\ io'.len = io.len
      /\ io'.done = io.done + k /\ io'.buf = buf
      /\ io' \in Transfers
  <2>1. io \in Transfers
    BY DEF IInv, IoShape
  <2>2. io' = [io EXCEPT !.buf = buf, !.done = io.done + k] /\ io.done + k \in Nat
    BY <1>1, <1>2 DEF DoneAfter
  <2> QED
    BY <1>4, <2>1, <2>2 DEF Transfers
<1>8. IoShape'
  <2>1. Target' = Target /\ VolumeEnd(io.drive)' = VolumeEnd(io.drive) /\ ~Succeeded'
    BY <1>1, <1>7 DEF Target, VolumeEnd, Succeeded
  <2>2. /\ io'.op # "none" /\ Opened(io.drive)' /\ vol'[io'.drive].count # 0
        /\ vol'[io'.drive].offset <= io'.pos /\ io'.pos + io'.len <= VolumeEnd(io.drive)'
    BY <1>1, <1>7, <2>1 DEF IInv, IoShape, Opened
  <2>3. io'.done <= io'.len /\ Len(io'.buf) = io'.len
    BY <1>1, <1>2, <1>4, <1>7
  <2>4. \A i \in 1 .. io'.done : file'[Target'][io'.pos + i] = io'.buf[i]
    BY <1>1, <1>6, <1>7, <2>1
  <2>5. Sound(io.drive)' => io'.buf \in Seq(PlainUnits)
    <3>1. Sound(io.drive)' => Sound(io.drive)
      BY <1>1, <1>7 DEF Sound
    <3> QED
      BY <1>5, <1>7, <3>1
  <2> QED
    BY <1>7, <2>1, <2>2, <2>3, <2>4, <2>5 DEF IoShape, Opened, VolumeEnd, Sound
<1>9. FileShape' /\ CallShape'
  <2>1. \A d \in Drives : (Opened(d)' <=> Opened(d)) /\ (Sound(d)' <=> Sound(d))
                          /\ VolumeEnd(d)' = VolumeEnd(d)
    BY <1>1 DEF Opened, Sound, VolumeEnd
  <2>2. FileShape'
    BY <1>1, <2>1 DEF IInv, FileShape, FilesShape, VolumesShape, HeaderShape, Finished
  <2> QED
    BY <1>1, <2>2 DEF IInv, CallShape, Opened
<1>10. CloneShape'
  BY <1>1, <1>7 DEF IInv, CloneShape, TotalSize, Copy, Source, Sound
<1> QED
  BY <1>8, <1>9, <1>10 DEF IInv

(* In clone the two files differ, so that what is written is not read.     *)
LEMMA TurnWriteStep ==
    ASSUME IInv, NEW k \in 1 .. io.len, TurnWrite(k)
    PROVE  /\ IInv'
           /\ \A f \in Files \ damaged' : f \notin damaged /\ \A g : Volume(g, file'[f]) = Volume(g, file[f])
<1> DEFINE s == file[Target]
           t == [p \in DOMAIN s |-> IF p - io.pos \in Moving(k) THEN io.buf[p - io.pos] ELSE s[p]]
<1>1. /\ pc = "io" /\ k \in 1 .. (io.len - io.done) /\ io.op = "write"
      /\ file' = [file EXCEPT ![Target] = t] /\ io' = [io EXCEPT !.done = io.done + k]
      /\ UNCHANGED <<exists, vol, misread, pc, command, made, position, ret, errs>>
      /\ damaged' = IF misread THEN damaged \cup {Target} ELSE damaged
  BY DEF TurnWrite, BufferAt, DoneAfter
<1>2. /\ io.drive \in Drives /\ Opened(io.drive) /\ Target \in Files
      /\ io.pos \in Nat /\ io.len \in Nat /\ io.done \in Nat /\ io.done <= io.len
      /\ io.buf \in [1 .. io.len -> Units]
      /\ s \in Seq(Units) /\ Len(s) \in Nat /\ io.pos + io.len <= Len(s)
      /\ \A i \in 1 .. io.len : io.pos + i \in 1 .. Len(s)
      /\ DOMAIN s = 1 .. Len(s) /\ file \in [Files -> Seq(Units)]
  BY <1>1, TransferInside, LenProperties DEF IInv, FileShape, FilesShape
<1>3. \A p \in 1 .. Len(s) :
          t[p] = s[p] \/ (p - io.pos \in 1 .. io.len /\ t[p] = io.buf[p - io.pos])
  <2> SUFFICES ASSUME NEW p \in 1 .. Len(s), p - io.pos \in Moving(k)
               PROVE  p - io.pos \in 1 .. io.len /\ t[p] = io.buf[p - io.pos]
    BY <1>2
  <2> DEFINE i == p - io.pos
  <2>1. io.done \in Nat /\ io.len \in Nat /\ k \in Int /\ k <= io.len - io.done
    BY <1>1, <1>2
  <2>2. i \in (io.done + 1) .. (io.done + k)
    BY DEF Moving
  <2>3. t[p] = io.buf[i]
    BY <1>2
  <2> HIDE DEF i
  <2>4. i \in 1 .. io.len
    BY <2>1, <2>2
  <2> QED
    BY <2>3, <2>4 DEF i
<1>4. t \in [DOMAIN s -> Units]
  <2>1. \A p \in DOMAIN s : t[p] \in Units
    <3>1. \A p \in DOMAIN s : s[p] \in Units
      BY <1>2, LenProperties
    <3> HIDE DEF t
    <3> QED
      BY <1>2, <1>3, <3>1
  <2> QED
    BY <2>1
<1>5. \A i \in Moving(k) : t[io.pos + i] = io.buf[i]
  <2> SUFFICES ASSUME NEW i \in Moving(k) PROVE t[io.pos + i] = io.buf[i]
    OBVIOUS
  <2>1. i \in 1 .. io.len /\ (io.pos + i) - io.pos = i
    BY <1>1, <1>2 DEF Moving
  <2> QED
    BY <1>2, <2>1
<1>6. \A p \in 1 .. Len(s) : p <= io.pos + io.done => t[p] = s[p]
  <2> SUFFICES ASSUME NEW p \in 1 .. Len(s), p <= io.pos + io.done PROVE p - io.pos \notin Moving(k)
    BY <1>2
  <2> QED
    BY <1>1, <1>2 DEF Moving
<1> HIDE DEF t
<1>7. t \in Seq(Units) /\ Len(t) = Len(s)
  BY <1>2, <1>4, Overwritten
<1>8. file'[Target] = t /\ \A f \in Files : f # Target => file'[f] = file[f]
  BY <1>1, <1>2
<1>9. /\ damaged' \subseteq exists /\ damaged \subseteq damaged'
      /\ \A f \in Files \ damaged' : /\ f \notin damaged
                                     /\ Layout(file'[f]) /\ (Stated(file[f]) => Stated(file'[f]))
                                     /\ \A g : Volume(g, file'[f]) = Volume(g, file[f])
  <2>1. damaged \subseteq exists /\ Target \in exists
    BY <1>2, OpenFacts DEF IInv, FileShape, FilesShape, Target
  <2>2. ASSUME NEW f \in Files \ damaged', f # Target
        PROVE  Layout(file'[f]) /\ file'[f] = file[f]
    BY <1>1, <1>8, <2>2 DEF IInv, FileShape, FilesShape
  <2>3. ASSUME Target \notin damaged'
        PROVE  /\ Layout(t) /\ (Stated(s) => Stated(t))
               /\ \A g : Volume(g, t) = Volume(g, s)
    <3>1. Sound(io.drive)
      BY <1>1, <1>2, <2>3 DEF Sound, Opened, Target
    <3>2. /\ io.buf \in Seq(PlainUnits) /\ Layout(s)
          /\ \A i \in 1 .. io.len : IsHdf(s) => io.pos + i > HDF_HEADER_SIZE
      BY <1>1, <3>1, SoundTransfer
    <3>3. \A i \in 1 .. io.len : io.buf[i] \in PlainUnits
      BY <1>2, <3>2, LenProperties DEF IInv, IoShape
    <3>4. \A p \in 1 .. Len(s) :
              t[p] = s[p] \/ (t[p] \in PlainUnits /\ (IsHdf(s) => p > HDF_HEADER_SIZE))
      <4> SUFFICES ASSUME NEW p \in 1 .. Len(s), p - io.pos \in 1 .. io.len, t[p] = io.buf[p - io.pos]
                   PROVE  t[p] \in PlainUnits /\ (IsHdf(s) => p > HDF_HEADER_SIZE)
        BY <1>3
      <4>1. io.pos + (p - io.pos) = p
        BY <1>2
      <4> QED
        BY <3>2, <3>3, <4>1
    <3> HIDE DEF s
    <3> QED
      BY <1>7, <3>2, <3>4, DataKeepsLayout
  <2>4. damaged' \subseteq exists /\ damaged \subseteq damaged'
    BY <1>1, <2>1
  <2> QED
    BY <1>8, <2>2, <2>3, <2>4
<1>10. FileShape'
  <2>1. file' \in [Files -> Seq(Units)]
    BY <1>1, <1>2, <1>7
  <2>2. \A f \in Files : Len(file'[f]) = Len(file[f])
    BY <1>7, <1>8
  <2>3. \A d \in Drives : Opened(d)' =>
            /\ vol'[d].file \in exists'
            /\ vol'[d].count # 0 => VolumeEnd(d)' <= Len(file'[vol'[d].file])
    <3> SUFFICES ASSUME NEW d \in Drives, Opened(d)'
                 PROVE  /\ vol'[d].file \in exists'
                        /\ vol'[d].count # 0 => VolumeEnd(d)' <= Len(file'[vol'[d].file])
      OBVIOUS
    <3>1. Opened(d) /\ vol' = vol /\ exists' = exists /\ VolumeEnd(d)' = VolumeEnd(d)
      BY <1>1 DEF Opened, VolumeEnd
    <3> QED
      BY <2>2, <3>1, OpenFacts DEF IInv
  <2>4. \A d \in Drives : Sound(d)' => Volume(vol'[d].file, file'[vol'[d].file]) = vol'[d]
    <3> SUFFICES ASSUME NEW d \in Drives, Sound(d)'
                 PROVE  Volume(vol'[d].file, file'[vol'[d].file]) = vol'[d]
      OBVIOUS
    <3>1. Sound(d) /\ vol' = vol /\ vol[d].file \notin damaged'
      BY <1>1, <1>9 DEF Sound
    <3>2. vol[d].file \in Files /\ Volume(vol[d].file, file[vol[d].file]) = vol[d]
      BY <1>1, <3>1, SoundFacts DEF IInv
    <3> QED
      BY <1>9, <3>1, <3>2
  <2>5. VolumesShape'
    BY <1>1, <2>3, <2>4 DEF IInv, FileShape, VolumesShape
  <2>6. FilesShape'
    <3>1. \A f \in Files \ damaged : Stated(file[f])
      BY <1>1 DEF IInv, FileShape, FilesShape, Finished
    <3> QED
      BY <1>1, <1>9, <2>1, <3>1 DEF IInv, FileShape, FilesShape
  <2> QED
    BY <1>1, <2>5, <2>6 DEF FileShape, HeaderShape
<1>11. CallShape'
  <2>1. errs = 0 => damaged' = {}
    BY <1>1 DEF IInv, CallShape
  <2> QED
    BY <1>1, <2>1 DEF IInv, CallShape, Opened
<1>12. /\ io'.op = io.op /\ io'.drive = io.drive /\ io'.pos = io.pos /\ io'.len = io.len
       /\ io'.done = io.done + k /\ io'.buf = io.buf
       /\ io' \in Transfers
  <2>1. io \in Transfers
    BY DEF IInv, IoShape
  <2>2. io' = [io EXCEPT !.done = io.done + k] /\ io.done + k \in Nat
    BY <1>1, <1>2
  <2> QED
    BY <2>1, <2>2 DEF Transfers
<1>13. Target' = Target
  BY <1>1, <1>12 DEF Target
<1>14. \A i \in 1 .. (io.done + k) : t[io.pos + i] = io.buf[i]
  <2> SUFFICES ASSUME NEW i \in 1 .. (io.done + k), i \notin Moving(k)
               PROVE  t[io.pos + i] = io.buf[i]
    BY <1>5
  <2>1. i \in 1 .. io.done /\ io.pos + i \in 1 .. Len(s) /\ io.pos + i <= io.pos + io.done
    <3>1. i \in 1 .. io.done
      BY <1>1, <1>2 DEF Moving
    <3>2. i \in 1 .. io.len /\ io.pos + i <= io.pos + io.done
      BY <1>2, <3>1
    <3> QED
      BY <1>2, <3>1, <3>2
  <2>2. s[io.pos + i] = io.buf[i]
    BY <1>1, <2>1 DEF IInv, IoShape
  <2> QED
    BY <1>6, <2>1, <2>2
<1>15. IoShape'
  <2>1. VolumeEnd(io.drive)' = VolumeEnd(io.drive) /\ ~Succeeded'
    BY <1>1 DEF VolumeEnd, Succeeded
  <2>2. /\ io'.op # "none" /\ Opened(io.drive)' /\ vol'[io'.drive].count # 0
        /\ vol'[io'.drive].offset <= io'.pos /\ io'.pos + io'.len <= VolumeEnd(io.drive)'
    BY <1>1, <1>12, <2>1 DEF IInv, IoShape, Opened
  <2>3. io'.done <= io'.len /\ Len(io'.buf) = io'.len
    BY <1>1, <1>2, <1>12 DEF IInv, IoShape
  <2>4. \A i \in 1 .. io'.done : file'[Target'][io'.pos + i] = io'.buf[i]
    BY <1>8, <1>12, <1>13, <1>14
  <2>5. Sound(io.drive)' => io'.buf \in Seq(PlainUnits)
    <3>1. Sound(io.drive)' => Sound(io.drive)
      BY <1>1, <1>9 DEF Sound
    <3> QED
      BY <1>1, <1>12, <3>1 DEF IInv, IoShape
  <2> QED
    BY <1>12, <2>1, <2>2, <2>3, <2>4, <2>5 DEF IoShape, Opened, VolumeEnd, Sound
<1>16. CloneShape'
  <2> SUFFICES ASSUME command = "clone" PROVE CloneShape'
    BY <1>1 DEF CloneShape
  <2>1. /\ vol[0].file # vol[1].file /\ io.drive = 1 /\ io.pos = position + vol[1].offset
        /\ \A i \in 1 .. position : Copy(i) = Source(i)
        /\ \A i \in 1 .. io.len : io.buf[i] = Source(position + i)
        /\ position \in Nat /\ vol[1].offset \in Nat /\ vol[0].file \in Files
    <3>1. Opened(0) /\ Opened(1) /\ 0 \in Drives /\ 1 \in Drives /\ position \in Nat
      BY <1>1 DEF IInv, CallShape, Drives
    <3>2. vol[1].offset \in Nat /\ vol[0].file \in Files
      BY <3>1, OpenFacts DEF IInv
    <3> QED
      BY <1>1, <3>1, <3>2 DEF IInv, CloneShape
  <2>2. Target = vol[1].file
    BY <2>1 DEF Target
  <2>3. \A i : Source(i)' = Source(i)
    BY <1>1, <1>8, <2>1, <2>2 DEF Source
  <2>4. \A i \in 1 .. position : Copy(i)' = Copy(i)
    <3> SUFFICES ASSUME NEW i \in 1 .. position PROVE Copy(i)' = Copy(i)
      OBVIOUS
    <3>1. vol[1].offset + i \in 1 .. Len(s) /\ vol[1].offset + i <= io.pos + io.done
      <4>1. /\ io.pos \in Nat /\ io.len \in Nat /\ io.done \in Nat /\ Len(s) \in Nat
            /\ io.pos + io.len <= Len(s)
        BY <1>2
      <4>2. io.pos = position + vol[1].offset /\ position \in Nat /\ vol[1].offset \in Nat
        BY <2>1
      <4> HIDE DEF s
      <4>3. position + vol[1].offset + io.len <= Len(s)
        BY <4>1, <4>2
      <4>4. /\ vol[1].offset + i \in 1 .. Len(s)
            /\ vol[1].offset + i <= position + vol[1].offset + io.done
        BY <4>1, <4>2, <4>3, Below
      <4> QED
        BY <4>2, <4>4
    <3>2. t[vol[1].offset + i] = s[vol[1].offset + i]
      BY <1>6, <3>1
    <3> QED
      BY <1>1, <1>8, <2>2, <3>2 DEF Copy
  <2>5. TotalSize' = TotalSize
    BY <1>1 DEF TotalSize
  <2>6. Sound(1)' <=> Sound(0)'
    <3>1. Sound(1) <=> Sound(0)
      BY <1>1 DEF IInv, CloneShape
    <3>2. misread => ~Sound(1)' /\ ~Sound(0)'
      BY <1>1 DEF Sound
    <3>3. ~misread => (Sound(1)' <=> Sound(1)) /\ (Sound(0)' <=> Sound(0))
      BY <1>1 DEF Sound
    <3> QED
      BY <3>1, <3>2, <3>3
  <2> QED
    BY <1>1, <1>12, <2>1, <2>3, <2>4, <2>5, <2>6 DEF IInv, CloneShape
<1> QED
  BY <1>9, <1>10, <1>11, <1>15, <1>16 DEF IInv

LEMMA TurnErrorStep == ASSUME IInv, TurnError PROVE IInv'
<1>1. /\ pc = "io" /\ Finish("ERR") /\ UNCHANGED <<exists, file, damaged, command, io, made>>
      /\ errs' = (IF AtEof THEN errs ELSE errs + 1) /\ (AtEof \/ errs < MaxErrors)
  BY DEF TurnError
<1>2. errs' \in 0 .. MaxErrors
  BY <1>1, SizesAssumption DEF IInv, CallShape
<1>3. FileShape'
  BY <1>1, FinishFacts, FilesKept DEF IInv
<1>4. ~Opened(1)'
  BY <1>1, FinishFacts DEF IInv, CallShape, Opened
<1>5. CallShape'
  <2>1. misread' => misread /\ vol' = vol
    BY <1>1, FinishFacts DEF IInv
  <2>2. errs' = 0 => errs = 0
    BY <1>1, SizesAssumption DEF IInv, CallShape
  <2> QED
    BY <1>1, <1>2, <1>4, <2>1, <2>2, FinishFacts DEF IInv, CallShape, Opened
<1>6. IoShape'
  BY <1>1, FinishFacts DEF IInv, IoShape, Succeeded
<1>7. CloneShape'
  BY <1>1, FinishFacts DEF IInv, CloneShape
<1> QED
  BY <1>3, <1>5, <1>6, <1>7 DEF IInv

(* While clone runs, a place in the source is one in the copy.             *)
LEMMA CloneRoom ==
    ASSUME IInv, command = "clone", pc \in {"io", "clone"}
    PROVE  /\ Opened(0) /\ Opened(1) /\ 0 \in Drives /\ 1 \in Drives
           /\ position \in Nat /\ TotalSize \in Nat /\ position <= TotalSize
           /\ TotalSize = vol[0].bps * vol[0].count
           /\ vol[1].bps * vol[1].count \in Nat /\ TotalSize <= vol[1].bps * vol[1].count
<1>1. Opened(0) /\ Opened(1) /\ 0 \in Drives /\ 1 \in Drives /\ position \in Nat
  BY DEF IInv, CallShape, Drives
<1>2. /\ vol[0].bps * vol[0].count \in Nat /\ vol[1].bps * vol[1].count \in Nat
      /\ vol[0].bps \in {Half, Full} /\ vol[0].count \in Nat
  BY <1>1, OpenFacts DEF IInv, Volumes
<1>3. vol[1].bps = Full /\ vol[1].count = vol[0].count /\ position <= TotalSize
  BY DEF IInv, CloneShape
<1>4. vol[0].bps * vol[0].count <= 2 * vol[0].count
  BY <1>2 DEF Half, Full
<1> QED
  BY <1>1, <1>2, <1>3, <1>4 DEF TotalSize, Full

LEMMA TurnEndStep == ASSUME IInv, TurnEnd PROVE IInv'
<1>1. /\ pc = "io" /\ io.done = io.len /\ UNCHANGED <<exists, file, damaged, command, made, errs>>
      /\ command \in {"disk", "clone"}
  BY DEF TurnEnd, IInv, CallShape
<1>2. /\ io.drive \in Drives /\ Opened(io.drive) /\ io.len \in Nat
      /\ io.buf \in Seq(Units) /\ Len(io.buf) = io.len
      /\ \A i \in 1 .. io.len : file[Target][io.pos + i] = io.buf[i]
  BY <1>1, TransferInside DEF IInv, IoShape
<1>3. CASE command = "disk" /\ Finish("OK") /\ UNCHANGED io
  <2>1. pc' = "idle" /\ ret' = "OK" /\ position' = 0 /\ vol' = vol /\ misread' = misread
    BY <1>3 DEF Finish, IInv, FileShape, VolumesShape
  <2>2. FileShape'
    BY <1>1, <2>1, FilesKept DEF IInv, FileShape, VolumesShape
  <2>3. CallShape'
    BY <1>1, <1>3, <2>1 DEF IInv, CallShape, Opened
  <2>4. IoShape'
    BY <1>1, <1>2, <1>3, <2>1 DEF IInv, IoShape, Succeeded, Target
  <2>5. CloneShape'
    BY <2>1 DEF CloneShape
  <2> QED
    BY <2>2, <2>3, <2>4, <2>5 DEF IInv
<1>4. CASE command = "clone" /\ io.op = "read" /\ Transfer("write", 1, position, io.len, io.buf)
  <2>1. position + io.len <= TotalSize /\ io.drive = 0 /\ io.pos = position + vol[0].offset
    BY <1>1, <1>4 DEF IInv, CloneShape
  <2>2. Opened(1) /\ 1 \in Drives /\ position \in Nat /\ position + io.len <= vol[1].bps * vol[1].count
        /\ vol[0].offset \in Nat
    <3>1. /\ Opened(1) /\ 0 \in Drives /\ 1 \in Drives /\ position \in Nat
          /\ TotalSize \in Nat /\ vol[1].bps * vol[1].count \in Nat
          /\ TotalSize <= vol[1].bps * vol[1].count
      BY <1>1, <1>4, CloneRoom
    <3>2. vol[0].offset \in Nat
      BY <1>1, <1>4, <3>1, CloneRoom, OpenFacts DEF IInv
    <3> QED
      BY <1>2, <2>1, <3>1, <3>2
  <2>3. /\ FileShape' /\ CallShape' /\ IoShape'
        /\ pc' = "idle" \/ (/\ pc' = "io" /\ UNCHANGED <<vol, misread, position>>
                            /\ io' = [op |-> "write", drive |-> 1, pos |-> position + vol[1].offset,
                                      len |-> io.len, done |-> 0, buf |-> io.buf])
    <3>1. vol[1].count # 0 /\ (Sound(1) => io.buf \in Seq(PlainUnits))
      BY <1>1, <1>4, <2>1 DEF IInv, IoShape, CloneShape
    <3> QED
      BY <1>1, <1>2, <1>4, <2>2, <3>1, TransferFacts
  <2>4. \A i \in 1 .. io.len : io.buf[i] = Source(position + i)
    <3> SUFFICES ASSUME NEW i \in 1 .. io.len PROVE io.buf[i] = Source(position + i)
      OBVIOUS
    <3>1. io.pos + i = vol[0].offset + (position + i)
      BY <1>2, <2>1, <2>2
    <3>2. file[Target][io.pos + i] = io.buf[i]
      BY <1>2
    <3> QED
      BY <2>1, <3>1, <3>2 DEF Target, Source
  <2>5. CloneShape'
    <3> SUFFICES ASSUME pc' = "io" PROVE CloneShape'
      BY <2>3 DEF CloneShape
    <3>1. /\ UNCHANGED <<vol, misread, position>>
          /\ io'.op = "write" /\ io'.drive = 1 /\ io'.pos = position + vol[1].offset
          /\ io'.len = io.len /\ io'.buf = io.buf
      BY <2>3
    <3>2. /\ TotalSize' = TotalSize /\ \A i : Source(i)' = Source(i) /\ Copy(i)' = Copy(i)
          /\ \A d : Sound(d)' <=> Sound(d)
      BY <1>1, <3>1 DEF TotalSize, Source, Copy, Sound
    <3> QED
      BY <1>1, <1>4, <2>1, <2>4, <3>1, <3>2 DEF IInv, CloneShape
  <2> QED
    BY <2>3, <2>5 DEF IInv
<1>5. CASE /\ command = "clone" /\ io.op = "write"
           /\ position' = position + io.len
           /\ pc' = "clone" /\ UNCHANGED <<io, vol, misread, ret>>
  <2>1. /\ position + io.len <= TotalSize /\ io.drive = 1 /\ io.pos = position + vol[1].offset
        /\ \A i \in 1 .. position : Copy(i) = Source(i)
        /\ \A i \in 1 .. io.len : io.buf[i] = Source(position + i)
        /\ position \in Nat /\ TotalSize \in Nat /\ vol[1].offset \in Nat
    <3>1. position \in Nat /\ TotalSize \in Nat /\ vol[1].offset \in Nat
      BY <1>1, <1>5, CloneRoom, OpenFacts DEF IInv
    <3> QED
      BY <1>1, <1>5, <3>1 DEF IInv, CloneShape
  <2>2. FileShape'
    BY <1>1, <1>5, FilesKept DEF IInv, FileShape, VolumesShape
  <2>3. CallShape'
    BY <1>1, <1>2, <1>5, <2>1 DEF IInv, CallShape, Opened
  <2>4. IoShape'
    BY <1>1, <1>5 DEF IInv, IoShape, Succeeded
  <2>5. \A i \in 1 .. (position + io.len) : Copy(i) = Source(i)
    <3> SUFFICES ASSUME NEW i \in 1 .. (position + io.len), i > position PROVE Copy(i) = Source(i)
      BY <1>2, <2>1
    <3>1. i - position \in 1 .. io.len /\ position + (i - position) = i
          /\ io.pos + (i - position) = vol[1].offset + i
      BY <1>2, <2>1
    <3>2. file[Target][io.pos + (i - position)] = io.buf[i - position]
      BY <1>2, <3>1
    <3> QED
      BY <2>1, <3>1, <3>2 DEF Target, Copy
  <2>6. CloneShape'
    <3>1. /\ TotalSize' = TotalSize /\ \A i : Source(i)' = Source(i) /\ Copy(i)' = Copy(i)
          /\ \A d : Sound(d)' <=> Sound(d)
      BY <1>1, <1>5 DEF TotalSize, Source, Copy, Sound
    <3> QED
      BY <1>1, <1>5, <2>1, <2>5, <3>1 DEF IInv, CloneShape
  <2> QED
    BY <2>2, <2>3, <2>4, <2>6 DEF IInv
<1> QED
  BY <1>3, <1>4, <1>5 DEF TurnEnd

LEMMA CloneTurnStep == ASSUME IInv, CloneTurn PROVE IInv'
<1>1. pc = "clone" /\ command = "clone" /\ UNCHANGED <<exists, file, damaged, command, made, errs>>
  BY DEF CloneTurn, IInv, CallShape
<1>2. /\ Opened(0) /\ 0 \in Drives /\ position \in Nat /\ TotalSize \in Nat
      /\ TotalSize = vol[0].bps * vol[0].count
  BY <1>1, CloneRoom
<1>3. CASE position < TotalSize /\ Transfer("read", 0, position, Chunk, Zeros(Chunk))
  <2>1. Chunk \in Nat /\ position + Chunk <= TotalSize
    BY <1>2, <1>3, SizesAssumption DEF Chunk
  <2>2. Zeros(Chunk) \in Seq(PlainUnits) /\ Len(Zeros(Chunk)) = Chunk
    BY <2>1, ZerosFacts
  <2>3. /\ FileShape' /\ CallShape' /\ IoShape'
        /\ pc' = "idle" \/ (/\ pc' = "io" /\ UNCHANGED <<vol, misread, position>>
                            /\ io' = [op |-> "read", drive |-> 0, pos |-> position + vol[0].offset,
                                      len |-> Chunk, done |-> 0, buf |-> Zeros(Chunk)])
    <3>1. vol[0].count # 0
      <4>1. vol[0].bps \in {1, 2}
        BY <1>2, OpenFacts DEF IInv, Volumes, Half, Full
      <4> QED
        BY <1>2, <1>3, <4>1
    <3>2. Zeros(Chunk) \in Seq(Units)
      BY <2>2, PlainLayout
    <3> QED
      BY <1>1, <1>2, <1>3, <2>1, <2>2, <3>1, <3>2, TransferFacts
  <2>4. CloneShape'
    <3> SUFFICES ASSUME pc' = "io" PROVE CloneShape'
      BY <2>3 DEF CloneShape
    <3>1. /\ UNCHANGED <<vol, misread, position>> /\ io'.op = "read" /\ io'.drive = 0
          /\ io'.pos = position + vol[0].offset /\ io'.len = Chunk
      BY <2>3
    <3>2. /\ TotalSize' = TotalSize /\ \A i : Source(i)' = Source(i) /\ Copy(i)' = Copy(i)
          /\ \A d : Sound(d)' <=> Sound(d)
      BY <1>1, <3>1 DEF TotalSize, Source, Copy, Sound
    <3> QED
      BY <1>1, <2>1, <3>1, <3>2 DEF IInv, CloneShape
  <2> QED
    BY <2>3, <2>4 DEF IInv
<1>4. CASE Finish("OK") /\ UNCHANGED io
  <2>1. /\ vol' \in [Drives -> Volumes] /\ \A d \in Drives : vol'[d] \in {vol[d], NoVolume}
        /\ ~Opened(1)' /\ pc' = "idle" /\ ret' = "OK" /\ position' = 0
    BY <1>1, <1>4, FinishFacts DEF IInv
  <2>2. FileShape'
    BY <1>1, <1>4, <2>1, FinishFacts, FilesKept DEF IInv
  <2>3. CallShape'
    <3>1. misread' => misread /\ vol' = vol
      BY <1>4, FinishFacts DEF IInv
    <3> QED
      BY <1>1, <2>1, <3>1 DEF IInv, CallShape, Opened
  <2>4. IoShape'
    BY <1>1, <1>4, <2>1 DEF IInv, IoShape, Succeeded
  <2>5. CloneShape'
    BY <2>1 DEF CloneShape
  <2> QED
    BY <2>2, <2>3, <2>4, <2>5 DEF IInv
<1> QED
  BY <1>3, <1>4 DEF CloneTurn

LEMMA StutterStep == ASSUME IInv, UNCHANGED vars PROVE IInv'
<1>1. /\ UNCHANGED <<exists, file, vol, misread, damaged, pc, command, io, made, position, ret, errs>>
      /\ \A d : (Opened(d)' <=> Opened(d)) /\ (Sound(d)' <=> Sound(d)) /\ VolumeEnd(d)' = VolumeEnd(d)
  BY DEF vars, Opened, Sound, VolumeEnd
<1>2. FileShape' /\ CallShape'
  <2>1. NewDrive' = NewDrive /\ NewFile' = NewFile
    BY <1>1 DEF NewDrive, NewFile
  <2> QED
    BY <1>1, <2>1 DEF IInv, FileShape, FilesShape, VolumesShape, HeaderShape, Finished, CallShape
<1>3. IoShape' /\ CloneShape'
  BY <1>1 DEF IInv, IoShape, Succeeded, Target, CloneShape, TotalSize, Copy, Source
<1> QED
  BY <1>2, <1>3 DEF IInv

-----------------------------------------------------------------------------
(* The invariant holds.                                                    *)
LEMMA InitImage == Init => IInv
<1> SUFFICES ASSUME Init PROVE IInv
  OBVIOUS
<1>1. PICK h \in [Foreign -> Halved], c \in [Foreign -> Counts], v \in [Foreign -> Values] :
          file = [f \in Files |-> IF f \in Foreign THEN ForeignImage(h[f], c[f], v[f]) ELSE <<>>]
  BY DEF Init
<1>2. ASSUME NEW f \in Files PROVE file[f] \in Seq(Units) /\ Layout(file[f]) /\ Stated(file[f])
  <2>1. CASE f \in Foreign
    <3>1. h[f] \in BOOLEAN /\ c[f] \in Nat /\ v[f] \in Values
      BY <2>1, HalvedAssumption, CountsAssumption
    <3>2. Layout(ForeignImage(h[f], c[f], v[f])) /\ Stated(ForeignImage(h[f], c[f], v[f]))
      BY <3>1, ForeignLayout
    <3> QED
      BY <1>1, <2>1, <3>2 DEF Layout
  <2>2. CASE f \notin Foreign
    BY <1>1, <2>2, EmptySeq, PlainLayout
  <2> QED
    BY <2>1, <2>2
<1>3. file \in [Files -> Seq(Units)]
  <2>1. DOMAIN file = Files /\ file = [f \in Files |-> file[f]]
    BY <1>1
  <2> QED
    BY <1>2, <2>1
<1>4. /\ exists = Foreign /\ vol = [d \in Drives |-> NoVolume] /\ misread = FALSE /\ damaged = {} /\ pc = "idle" /\ command = "disk"
      /\ io = NoIo /\ made = NotMade /\ position = 0 /\ ret = "none" /\ errs = 0
      /\ HDF_HEADER_SIZE \in Nat /\ MaxErrors \in Nat /\ Foreign \subseteq Files
  BY SizesAssumption, FilesAssumption DEF Init
<1>5. FileShape
  BY <1>2, <1>3, <1>4, NoVolumeIsOne
     DEF FileShape, FilesShape, VolumesShape, HeaderShape, Opened, Sound
<1>6. CallShape
  BY <1>4 DEF CallShape, Opened, NotMade, Drives
<1>7. IoShape
  BY <1>4, EmptySeq DEF IoShape, NoIo, Succeeded, Drives, Transfers
<1>8. CloneShape
  BY <1>4 DEF CloneShape
<1> QED
  BY <1>5, <1>6, <1>7, <1>8 DEF IInv

LEMMA NextImage == IInv /\ [Next]_vars => IInv'
<1> SUFFICES ASSUME IInv, [Next]_vars PROVE IInv'
  OBVIOUS
<1>1. ASSUME NEW k \in 1 .. HDF_HEADER_SIZE, HeaderTurn(k) PROVE IInv'
  BY <1>1, HeaderTurnStep
<1>2. ASSUME NEW k \in 1 .. io.len, TurnRead(k) \/ TurnWrite(k) PROVE IInv'
  BY <1>2, TurnReadStep, TurnWriteStep
<1>3. CASE HeaderError \/ TurnError \/ TurnEnd \/ CloneTurn
  BY <1>3, HeaderErrorStep, TurnErrorStep, TurnEndStep, CloneTurnStep
<1>4. ASSUME NEW f \in Files, NEW c \in Counts, Create(f, c) PROVE IInv'
  BY <1>4, CreateStep
<1>5. ASSUME NEW f \in Files, OpenImage(f) \/ \E g \in Files : Clone(f, g) PROVE IInv'
  BY <1>5, OpenStep, CloneStep
<1>6. CASE CloseImage
  BY <1>6, CloseStep
<1>7. ASSUME NEW x \in Sectors,
             DiskRead(x[1], x[2]) \/ \E v \in Values : DiskWrite(x[1], x[2], v)
      PROVE  IInv'
  BY <1>7, DiskStep
<1>8. CASE UNCHANGED vars
  BY <1>8, StutterStep
<1> QED
  BY <1>1, <1>2, <1>3, <1>4, <1>5, <1>6, <1>7, <1>8 DEF Next, Step, Invoke

LEMMA ImageInvariant == Spec => []IInv
  BY InitImage, NextImage, PTL DEF Spec

(***************************************************************************)
(* Type correctness.                                                       *)
(***************************************************************************)
THEOREM TypesOfImages == Spec => []TypeOK
<1>1. IInv => TypeOK
  <2> SUFFICES ASSUME IInv PROVE TypeOK
    OBVIOUS
  <2> USE SizesAssumption
  <2>1. \A u \in Units : IsUnit(u)
    <3>1. \A u \in PlainUnits : IsUnit(u)
      BY DEF PlainUnits, IsUnit
    <3>2. \A u \in Preambles : IsUnit(u)
      BY UnitFacts DEF IsUnit
    <3>3. \A u \in Identities : IsUnit(u)
      BY UnitFacts DEF IsUnit
    <3> QED
      BY <3>1, <3>2, <3>3 DEF Units
  <2>2. \A f \in Files : \A p \in 1 .. Len(file[f]) : IsUnit(file[f][p])
    <3> SUFFICES ASSUME NEW f \in Files, NEW p \in 1 .. Len(file[f]) PROVE IsUnit(file[f][p])
      OBVIOUS
    <3>1. file[f] \in Seq(Units)
      BY DEF IInv, FileShape, FilesShape
    <3>2. file[f][p] \in Units
      BY <3>1, HdfFacts
    <3> QED
      BY <2>1, <3>2
  <2>3. \A d \in Drives : /\ vol[d].file \in exists \cup {NoFile}
                          /\ vol[d].offset \in Offsets
                          /\ vol[d].bps \in {Half, Full} /\ vol[d].count \in Nat
    <3> SUFFICES ASSUME NEW d \in Drives
                 PROVE  vol[d] \in Volumes /\ vol[d].file \in exists \cup {NoFile}
      BY DEF Volumes
    <3> QED
      BY DEF IInv, FileShape, VolumesShape, Opened, NoVolume
  <2>4. /\ io.op \in {"none", "read", "write"} /\ io.drive \in Drives
        /\ io.done \in 0 .. io.len /\ Len(io.buf) = io.len
        /\ io.len \in Nat /\ io.buf \in Seq(Units)
    BY DEF IInv, IoShape, Transfers
  <2>5. \A i \in 1 .. io.len : IsUnit(io.buf[i])
    <3> SUFFICES ASSUME NEW i \in 1 .. io.len PROVE IsUnit(io.buf[i])
      OBVIOUS
    <3>1. io.buf[i] \in Units
      BY <2>4, LenProperties
    <3> QED
      BY <2>1, <3>1
  <2>6. /\ made.done \in 0 .. HDF_HEADER_SIZE /\ exists \subseteq Files
        /\ damaged \subseteq exists /\ misread \in BOOLEAN
    BY DEF IInv, CallShape, FileShape, FilesShape, VolumesShape
  <2> QED
    BY <2>2, <2>3, <2>4, <2>5, <2>6 DEF TypeOK, IInv, CallShape
<1> QED
  BY <1>1, ImageInvariant, PTL

(***************************************************************************)
(* Whatever is written to an image, and however far a clone has come,      *)
(* opening its file again (hdf_image_open, raw_image_open) gives the       *)
(* container that is open: hdf_write_header states what the length of the  *)
(* file says, and no transfer reaches the header.  Excepted is only an     *)
(* image that a failed read of its signature has had opened as a raw one,  *)
(* or whose header a failed call has cost it.                              *)
(***************************************************************************)
THEOREM ImagesReopen == Spec => []Reopens
<1>1. IInv => Reopens
  <2> SUFFICES ASSUME IInv, pc # "header", NEW d \in Drives, Sound(d)
               PROVE  Volume(vol[d].file, file[vol[d].file]) = vol[d]
    BY DEF Reopens
  <2> QED
    BY SoundFacts DEF IInv
<1> QED
  BY <1>1, ImageInvariant, PTL

(***************************************************************************)
(* The loops of image_file_read and image_file_write, which advance the    *)
(* buffer and the count by whatever read and write have moved, move every  *)
(* unit to its place, in any number of pieces.                             *)
(***************************************************************************)
THEOREM TransfersAreExact == Spec => []TransferExact
<1>1. IInv => TransferExact
  BY DEF IInv, IoShape, Succeeded, TransferExact
<1> QED
  BY <1>1, ImageInvariant, PTL

(***************************************************************************)
(* "0 indicates EOF, and it should never happen here": no transfer of      *)
(* diskio or of clone goes past the end of its file.                       *)
(***************************************************************************)
THEOREM ReadsStayInFile == Spec => []NeverAtEof
<1>1. IInv => NeverAtEof
  BY TransferInside DEF NeverAtEof
<1> QED
  BY <1>1, ImageInvariant, PTL

(***************************************************************************)
(* Every HDF header that is written states the sector count that the       *)
(* length of the file gives, as far as its four bytes can, and a geometry  *)
(* of exactly that many sectors, or the dummy one: the search of           *)
(* hdf_write_header for factors loses no sector.                           *)
(***************************************************************************)
THEOREM GeometriesAreExact == Spec => []GeometryExact
<1>1. IInv => GeometryExact
  <2> SUFFICES ASSUME IInv, NEW f \in exists \ damaged, IsHdf(file[f]), Finished(f)
               PROVE  LET chs   == file[f][2][2]
                          total == file[f][2][3]
                          count == Volume(f, file[f]).count
                      IN /\ total = count % CountRange
                         /\ chs # DummyGeometry => chs[1] * chs[2] * chs[3] = count
    BY DEF GeometryExact, Finished
  <2>1. f \in Files /\ Stated(file[f])
    BY DEF IInv, FileShape, FilesShape
  <2>2. Volume(f, file[f]).count = Volume(NoFile, file[f]).count
    BY CountOf
  <2> QED
    BY <2>1, <2>2 DEF Stated
<1> QED
  BY <1>1, ImageInvariant, PTL

-----------------------------------------------------------------------------
(* What clone has made of a source with whole sectors.                     *)
LEMMA SameParts ==
    ASSUME NEW S, NEW s, NEW t, NEW a \in Nat, NEW b \in Nat, NEW n \in Nat,
           \A i \in 1 .. n : s[a + i] = t[b + i] /\ t[b + i] \in S
    PROVE  SubSeq(s, a + 1, a + n) = SubSeq(t, b + 1, b + n)
<1>1. \A i \in (a + 1) .. (a + n) : s[i] \in S
  <2> SUFFICES ASSUME NEW i \in (a + 1) .. (a + n) PROVE s[i] \in S
    OBVIOUS
  <2>1. i - a \in 1 .. n /\ a + (i - a) = i
    OBVIOUS
  <2> QED
    BY <2>1
<1>2. \A i \in (b + 1) .. (b + n) : t[i] \in S
  <2> SUFFICES ASSUME NEW i \in (b + 1) .. (b + n) PROVE t[i] \in S
    OBVIOUS
  <2>1. i - b \in 1 .. n /\ b + (i - b) = i
    OBVIOUS
  <2> QED
    BY <2>1
<1> DEFINE x == SubSeq(s, a + 1, a + n)
           y == SubSeq(t, b + 1, b + n)
<1>3. /\ a + n - (a + 1) + 1 = n /\ b + n - (b + 1) + 1 = n
      /\ (a + 1 <= a + n <=> n # 0) /\ (b + 1 <= b + n <=> n # 0)
  OBVIOUS
<1>4. x \in Seq(S) /\ Len(x) = n /\ \A i \in 1 .. n : x[i] = s[a + 1 + i - 1]
  BY <1>1, <1>3, SubSeqProperties
<1>5. y \in Seq(S) /\ Len(y) = n /\ \A i \in 1 .. n : y[i] = t[b + 1 + i - 1]
  BY <1>2, <1>3, SubSeqProperties
<1>6. \A i \in 1 .. n : x[i] = y[i]
  <2> SUFFICES ASSUME NEW i \in 1 .. n PROVE x[i] = y[i]
    OBVIOUS
  <2>1. a + 1 + i - 1 = a + i /\ b + 1 + i - 1 = b + i
    OBVIOUS
  <2> QED
    BY <1>4, <1>5, <2>1
<1> HIDE DEF x, y
<1> QED
  BY <1>4, <1>5, <1>6, SeqEqual DEF x, y

LEMMA CloneIsFaithful == IInv /\ vol[0].bps = Full => CloneFaithful
<1> SUFFICES ASSUME IInv, vol[0].bps = Full, pc = "clone", position >= TotalSize, Sound(0)
             PROVE  Contents(vol[1].file) = Contents(vol[0].file)
  BY DEF CloneFaithful
<1>1. command = "clone"
  BY DEF IInv, CallShape
<1>2. /\ Opened(0) /\ Opened(1) /\ 0 \in Drives /\ 1 \in Drives
      /\ position = TotalSize /\ TotalSize \in Nat /\ TotalSize = vol[0].bps * vol[0].count
  BY <1>1, CloneRoom
<1>3. /\ vol[1].bps = vol[0].bps /\ vol[1].count = vol[0].count
      /\ \A i \in 1 .. TotalSize : Copy(i) = Source(i)
  BY <1>1, <1>2 DEF IInv, CloneShape
<1>4. \A d \in Drives : Volume(vol[d].file, file[vol[d].file]) = vol[d]
  <2>1. Sound(1)
    BY <1>1 DEF IInv, CloneShape
  <2> QED
    BY <2>1, SoundFacts DEF IInv, Drives
<1>5. /\ vol[0].offset \in Nat /\ vol[1].offset \in Nat
      /\ \A i \in 1 .. TotalSize : Source(i) \in PlainUnits
  <2>1. vol[0].offset \in Nat /\ vol[1].offset \in Nat
    BY <1>2, OpenFacts DEF IInv
  <2>2. \A i \in 1 .. (vol[0].bps * vol[0].count) :
            file[vol[0].file][vol[0].offset + i] \in PlainUnits
    BY <1>2, SoundFacts DEF IInv
  <2> QED
    BY <1>2, <2>1, <2>2 DEF Source
<1>6. SubSeq(file[vol[1].file], vol[1].offset + 1, vol[1].offset + TotalSize)
        = SubSeq(file[vol[0].file], vol[0].offset + 1, vol[0].offset + TotalSize)
  <2>1. \A i \in 1 .. TotalSize :
            /\ file[vol[1].file][vol[1].offset + i] = file[vol[0].file][vol[0].offset + i]
            /\ file[vol[0].file][vol[0].offset + i] \in PlainUnits
    BY <1>3, <1>5 DEF Source, Copy
  <2> DEFINE s == file[vol[1].file]
             t == file[vol[0].file]
             a == vol[1].offset
             b == vol[0].offset
  <2>2. /\ \A i \in 1 .. TotalSize : s[a + i] = t[b + i] /\ t[b + i] \in PlainUnits
        /\ a \in Nat /\ b \in Nat /\ TotalSize \in Nat
    BY <1>2, <1>5, <2>1
  <2> HIDE DEF s, t, a, b
  <2>3. SubSeq(s, a + 1, a + TotalSize) = SubSeq(t, b + 1, b + TotalSize)
    BY <2>2, SameParts
  <2> QED
    BY <2>3 DEF s, t, a, b
<1> QED
  BY <1>2, <1>3, <1>4, <1>6 DEF Contents

(***************************************************************************)
(* A clone that cmd_clone reports as made has the sectors of its source,   *)
(* whatever the two formats are, whenever the source has sectors of 512    *)
(* bytes; hdf_write_header never sets the halved bit, so that a source of  *)
(* 256 bytes a sector is beyond it (finding of run Image_halved).  A       *)
(* source whose signature could not be read is excepted: clone copies its  *)
(* header as data and reports success.                                     *)
(***************************************************************************)
THEOREM ClonesOfWholeSectors == Spec => [](vol[0].bps = Full => CloneFaithful)
  BY CloneIsFaithful, ImageInvariant, PTL

-----------------------------------------------------------------------------
(* What a step does to the files.                                          *)
LEMMA NewFileOf ==
    ASSUME NEW d \in Drives, NEW f \in Files, NEW c \in Nat, NEW source,
           file \in [Files -> Seq(Units)], vol \in [Drives -> Volumes],
           CreateFile(d, f, c, source), command' = IF d = 0 THEN "create" ELSE "clone"
    PROVE  \/ /\ ret' = "ERR" /\ errs' = source.errs + 1 /\ pc' = "idle"
              /\ \A g \in Files \ damaged' :
                     \/ g \notin damaged /\ file'[g] = file[g]
                     \/ Volume(g, file'[g]).bps = Full
           \/ /\ ret' # "ERR" /\ errs' = source.errs
              /\ damaged \subseteq damaged' \cup {f} /\ exists' = exists \cup {f}
              /\ \A g \in Files : g # f => file'[g] = file[g]
              /\ Volume(f, file'[f]).bps = Full
              /\ \/ pc' = "header" /\ NewFile' = f /\ made'.count = c
                 \/ pc' # "header" /\ Volume(f, file'[f]).count = c
<1>1. CASE /\ source.errs < MaxErrors /\ errs' = source.errs + 1
           /\ \/ UNCHANGED <<exists, file, damaged>>
              \/ /\ exists' = exists \cup {f}
                 /\ file' = [file EXCEPT ![f] = <<>>] /\ damaged' = damaged \ {f}
           /\ pc' = "idle" /\ ret' = "ERR"
           /\ UNCHANGED <<vol, misread, made>>
  <2>1. Volume(f, <<>>).bps = Full
    BY DEF Volume, IsHdf, RawVolume
  <2> QED
    BY <1>1, <2>1
<1>2. CASE /\ exists' = exists \cup {f} /\ file' = [file EXCEPT ![f] = Blank(f, c)]
           /\ vol' = [[vol EXCEPT ![0] = source.vol] EXCEPT ![d] = Created(f, c)]
           /\ misread' = source.misread
           /\ damaged' = IF Clean(source) THEN damaged \ {f} ELSE damaged \cup {f}
           /\ made' = IF f \in HdfNames THEN [done |-> 0, count |-> c] ELSE NotMade
           /\ pc' = AfterCreate(f)
           /\ ret' = IF pc' = "idle" THEN "OK" ELSE "none"
           /\ errs' = source.errs
  <2>1. file'[f] = Blank(f, c) /\ \A g \in Files : g # f => file'[g] = file[g]
    BY <1>2
  <2>2. Volume(f, Blank(f, c)).bps = Full
    BY BlankFacts
  <2>3. ret' # "ERR" /\ errs' = source.errs /\ damaged \subseteq damaged' \cup {f}
    BY <1>2
  <2>4. CASE f \in HdfNames
    <3>1. vol'[d] = Created(f, c) /\ Created(f, c).file = f
      <4>1. Created(f, c).file = f
        BY BlankFacts
      <4> QED
        BY <1>2, <4>1 DEF Drives
    <3>2. NewFile' = f
      BY <3>1 DEF NewFile, Drives
    <3> QED
      BY <1>2, <2>1, <2>2, <2>3, <2>4, <3>2 DEF AfterCreate
  <2>5. CASE f \notin HdfNames
    <3>1. Volume(f, Blank(f, c)).count = c /\ pc' \in {"idle", "clone"}
      <4>1. Volume(f, Blank(f, c)) = Created(f, c) /\ Created(f, c).count = c
        BY <2>5, BlankFacts
      <4> QED
        BY <1>2, <2>5, <4>1 DEF AfterCreate
    <3> QED
      BY <1>2, <2>1, <2>2, <2>3, <3>1
  <2> QED
    BY <2>4, <2>5
<1> QED
  BY <1>1, <1>2 DEF CreateFile

-----------------------------------------------------------------------------
(* No image is halved, when none from elsewhere is.                        *)
WholeFiles == \A f \in Files \ damaged : Volume(f, file[f]).bps = Full

LEMMA WholeVolumes == IInv /\ WholeFiles /\ Sound(0) => vol[0].bps = Full
<1> SUFFICES ASSUME IInv, WholeFiles, Sound(0) PROVE vol[0].bps = Full
  OBVIOUS
<1>1. 0 \in Drives
  BY DEF Drives
<1>2. CASE pc = "header" /\ NewDrive = 0
  <2>1. vol[0] = Created(NewFile, made.count)
    BY <1>2, NewFileFacts
  <2> QED
    BY <2>1 DEF Created
<1>3. CASE ~(pc = "header" /\ NewDrive = 0)
  BY <1>1, <1>3, SoundFacts DEF IInv, WholeFiles
<1> QED
  BY <1>2, <1>3

LEMMA InitWhole == ASSUME Halved \subseteq {FALSE} PROVE Init => WholeFiles
<1> SUFFICES ASSUME Init, NEW f \in Files PROVE Volume(f, file[f]).bps = Full
  BY DEF WholeFiles
<1>1. PICK h \in [Foreign -> Halved], c \in [Foreign -> Counts], v \in [Foreign -> Values] :
          file = [g \in Files |-> IF g \in Foreign THEN ForeignImage(h[g], c[g], v[g]) ELSE <<>>]
  BY DEF Init
<1>2. CASE f \in Foreign
  <2>1. h[f] = FALSE /\ h[f] \in BOOLEAN /\ c[f] \in Nat /\ v[f] \in Values
    BY <1>2, CountsAssumption
  <2> DEFINE s == ForeignImage(h[f], c[f], v[f])
  <2>2. Volume(f, s).bps = Full
    BY <2>1, ForeignLayout
  <2> QED
    BY <1>1, <1>2, <2>2
<1>3. CASE f \notin Foreign
  <2>1. Volume(f, <<>>).bps = Full
    BY DEF Volume, IsHdf, RawVolume
  <2> QED
    BY <1>1, <1>3, <2>1
<1> QED
  BY <1>2, <1>3

LEMMA NextWhole == IInv /\ WholeFiles /\ [Next]_vars => WholeFiles'
<1> SUFFICES ASSUME IInv, WholeFiles, [Next]_vars PROVE WholeFiles'
  OBVIOUS
<1>1. CASE UNCHANGED <<file, damaged>>
  BY <1>1 DEF WholeFiles
<1>2. ASSUME NEW k \in 1 .. HDF_HEADER_SIZE, HeaderTurn(k) PROVE WholeFiles'
  <2>1. /\ NewFile \in Files /\ \A f \in Files : f # NewFile => file'[f] = file[f]
        /\ Volume(NewFile, file'[NewFile]).bps = Full
    BY <1>2, HeaderTurnStep
  <2>2. damaged' = damaged
    BY <1>2 DEF HeaderTurn
  <2> QED
    BY <2>1, <2>2 DEF WholeFiles
<1>3. ASSUME NEW k \in 1 .. io.len, TurnWrite(k) PROVE WholeFiles'
  BY <1>3, TurnWriteStep DEF WholeFiles
<1>4. CASE HeaderError
  <2>1. damaged' = damaged \cup {NewFile}
    BY <1>4 DEF HeaderError
  <2>2. \A f \in Files : f # NewFile => file'[f] = file[f]
    BY <1>4 DEF HeaderError, IInv, FileShape, FilesShape
  <2> QED
    BY <2>1, <2>2 DEF WholeFiles
<1>5. ASSUME NEW d \in Drives, NEW f \in Files, NEW c \in Nat, NEW source,
             CreateFile(d, f, c, source), command' = IF d = 0 THEN "create" ELSE "clone"
      PROVE  WholeFiles'
  <2>1. file \in [Files -> Seq(Units)] /\ vol \in [Drives -> Volumes]
    BY DEF IInv, FileShape, FilesShape, VolumesShape
  <2>2. \A g \in Files \ damaged' : \/ g \notin damaged /\ file'[g] = file[g]
                                    \/ Volume(g, file'[g]).bps = Full
    BY <1>5, <2>1, NewFileOf
  <2> QED
    BY <2>2 DEF WholeFiles
<1>6. ASSUME NEW f \in Files, NEW c \in Counts, Create(f, c) PROVE WholeFiles'
  <2>1. c \in Nat /\ 0 \in Drives
    BY CountsAssumption DEF Drives
  <2>2. /\ command' = (IF 0 = 0 THEN "create" ELSE "clone")
        /\ CreateFile(0, f, c, [vol |-> NoVolume, misread |-> FALSE, errs |-> errs])
    BY <1>6 DEF Create
  <2> QED
    BY <1>5, <2>1, <2>2
<1>7. ASSUME NEW f \in Files, NEW g \in Files, NEW source \in Openings(f), command' = "clone",
             CreateFile(1, g, source.vol.count, source) PROVE WholeFiles'
  <2>1. source.vol.count \in Nat /\ 1 \in Drives
    BY OpeningFacts DEF IInv, Drives
  <2>2. command' = (IF 1 = 0 THEN "create" ELSE "clone")
    BY <1>7
  <2> HIDE DEF WholeFiles
  <2> QED
    BY <1>5, <1>7, <2>1, <2>2
<1>8. Next => \/ UNCHANGED <<file, damaged>>
              \/ \E k \in 1 .. HDF_HEADER_SIZE : HeaderTurn(k)
              \/ \E k \in 1 .. io.len : TurnWrite(k)
              \/ HeaderError
              \/ \E f \in Files : \E c \in Counts : Create(f, c)
              \/ \E f \in Files : \E g \in Files : \E source \in Openings(f) :
                     command' = "clone" /\ CreateFile(1, g, source.vol.count, source)
  BY DEF Next, Step, Invoke, TurnRead, TurnError, TurnEnd, CloneTurn, Clone,
         OpenImage, CloseImage, DiskRead, DiskWrite
<1> QED
  BY <1>1, <1>2, <1>3, <1>4, <1>6, <1>7, <1>8 DEF vars

(***************************************************************************)
(* When no image from elsewhere is halved, every clone that cmd_clone      *)
(* reports is faithful, whatever fails after its source has been opened    *)
(* for what it is: create, clone and the driver's writes make no halved    *)
(* image.                                                                  *)
(***************************************************************************)
THEOREM ClonesAreFaithful == ASSUME Halved \subseteq {FALSE} PROVE Spec => []CloneFaithful
<1>1. Spec => []WholeFiles
  BY InitWhole, NextWhole, ImageInvariant, PTL DEF Spec
<1>2. IInv /\ WholeFiles => CloneFaithful
  BY CloneIsFaithful, WholeVolumes DEF CloneFaithful
<1> QED
  BY <1>1, <1>2, ImageInvariant, PTL

-----------------------------------------------------------------------------
(* As long as no system call has failed, every image that is finished has  *)
(* a sector count that was asked for, and no call has failed.              *)
Sizes ==
    errs = 0 =>
        /\ \A f \in exists : Finished(f) => Volume(f, file[f]).count \in Counts
        /\ pc = "header" => made.count \in Counts
        /\ ret # "ERR"

(* The type int tells every position of such an image from an error.       *)
RangeSuffices == \A c \in Counts : HDF_HEADER_SIZE + c * Full < IntRange \div 2

(* While no system call has failed nothing is spoilt.                      *)
LEMMA NothingSpoilt ==
    ASSUME IInv, errs = 0
    PROVE  damaged = {} /\ ~misread /\ \A d \in Drives : Opened(d) => Sound(d)
  BY DEF IInv, CallShape, Sound, Opened

LEMMA SeekSucceeds ==
    ASSUME RangeSuffices, IInv, Sizes, errs = 0, pc # "header", NEW d \in Drives, Opened(d),
           NEW p \in Nat, p <= vol[d].bps * vol[d].count
    PROVE  ~SeekFails(FilePosition(d, p))
<1>1. /\ vol[d] \in Volumes /\ vol[d].file \in exists
      /\ Volume(vol[d].file, file[vol[d].file]) = vol[d]
  BY NothingSpoilt, OpenFacts, SoundFacts DEF IInv
<1>2. vol[d].count \in Counts /\ vol[d].count \in Nat
  BY <1>1, CountsAssumption DEF Sizes, Finished
<1>3. vol[d].bps * vol[d].count <= vol[d].count * 2
  <2>1. vol[d].bps = 1 \/ vol[d].bps = 2
    BY <1>1 DEF Volumes, Half, Full
  <2> QED
    BY <1>2, <2>1
<1>4. /\ vol[d].offset \in Nat /\ vol[d].offset <= HDF_HEADER_SIZE
      /\ HDF_HEADER_SIZE \in Nat /\ IntRange \in Nat \ {0}
  BY <1>1, SizesAssumption, OffsetFacts DEF Volumes
<1>5. HDF_HEADER_SIZE + vol[d].count * 2 < IntRange \div 2
  BY <1>2 DEF RangeSuffices, Full
<1> DEFINE q == p + vol[d].offset
<1>6. q \in Nat /\ q < IntRange \div 2
  <2>1. vol[d].bps * vol[d].count \in Nat /\ IntRange \div 2 \in Nat
    BY <1>4, OpenFacts DEF IInv
  <2> QED
    BY <1>2, <1>3, <1>4, <1>5, <2>1
<1> HIDE DEF q
<1>7. q % IntRange = q
  BY <1>4, <1>6
<1> QED
  BY <1>4, <1>6, <1>7 DEF SeekFails, FilePosition, q

LEMMA SizesKept ==
    ASSUME IInv, Sizes, errs' = errs, exists' = exists, pc # "header", pc' # "header",
           \A f \in Files \ damaged' : Volume(f, file'[f]) = Volume(f, file[f]),
           errs = 0 => damaged' = {} /\ ret' # "ERR"
    PROVE  Sizes'
  BY DEF IInv, FileShape, FilesShape, Sizes, Finished

LEMMA SizesTransfer ==
    ASSUME RangeSuffices, IInv, Sizes, pc # "header", NEW op, NEW d \in Drives, Opened(d),
           NEW p \in Nat, NEW len, NEW buf, p <= vol[d].bps * vol[d].count,
           Transfer(op, d, p, len, buf), UNCHANGED <<exists, file, damaged, errs>>
    PROVE  Sizes'
<1>1. pc' # "header"
  BY DEF Transfer, Finish
<1>2. errs = 0 => ret' # "ERR"
  BY SeekSucceeds DEF Transfer
<1>3. errs = 0 => damaged' = {}
  BY NothingSpoilt
<1> QED
  BY <1>1, <1>2, <1>3, SizesKept

LEMMA SizesNewFile ==
    ASSUME IInv, Sizes, pc = "idle",
           NEW d \in Drives, NEW f \in Files, NEW c \in Nat, NEW source,
           source.errs \in Nat, source.errs = 0 => errs = 0 /\ c \in Counts,
           CreateFile(d, f, c, source), command' = IF d = 0 THEN "create" ELSE "clone"
    PROVE  Sizes'
<1>1. \/ ret' = "ERR" /\ errs' = source.errs + 1
      \/ /\ ret' # "ERR" /\ errs' = source.errs
         /\ exists' = exists \cup {f}
         /\ \A g \in Files : g # f => file'[g] = file[g]
         /\ \/ pc' = "header" /\ NewFile' = f /\ made'.count = c
            \/ pc' # "header" /\ Volume(f, file'[f]).count = c
  BY NewFileOf DEF IInv, FileShape, FilesShape, VolumesShape
<1>2. CASE ret' = "ERR" /\ errs' = source.errs + 1
  BY <1>2 DEF Sizes
<1>3. CASE ret' # "ERR" /\ errs' = source.errs
  <2>1. \A g \in exists : g \in Files
    BY DEF IInv, FileShape, FilesShape
  <2> QED
    BY <1>1, <1>3, <2>1 DEF Sizes, Finished
<1> QED
  BY <1>1, <1>2, <1>3

LEMMA InitSizes == Init => Sizes
<1> SUFFICES ASSUME Init, NEW f \in Foreign PROVE Volume(f, file[f]).count \in Counts
  BY DEF Init, Sizes
<1>1. PICK h \in [Foreign -> Halved], c \in [Foreign -> Counts], v \in [Foreign -> Values] :
          file = [g \in Files |-> IF g \in Foreign THEN ForeignImage(h[g], c[g], v[g]) ELSE <<>>]
  BY DEF Init
<1> DEFINE s == ForeignImage(h[f], c[f], v[f])
<1>2. f \in Files /\ h[f] \in BOOLEAN /\ c[f] \in Counts /\ c[f] \in Nat /\ v[f] \in Values
  BY FilesAssumption, HalvedAssumption, CountsAssumption
<1>3. Volume(f, s).count = c[f]
  BY <1>2, ForeignLayout
<1>4. file[f] = s
  BY <1>1, <1>2
<1> QED
  BY <1>2, <1>3, <1>4

LEMMA NextSizes == ASSUME RangeSuffices PROVE IInv /\ Sizes /\ [Next]_vars => Sizes'
<1> SUFFICES ASSUME IInv, Sizes, [Next]_vars PROVE Sizes'
  OBVIOUS
<1>0. /\ errs \in Nat /\ exists \subseteq Files /\ vol \in [Drives -> Volumes]
      /\ 0 \in Drives /\ 1 \in Drives
  BY SizesAssumption DEF IInv, CallShape, FileShape, FilesShape, VolumesShape, Drives
<1>1. ASSUME NEW k \in 1 .. HDF_HEADER_SIZE, HeaderTurn(k) PROVE Sizes'
  <2>1. /\ NewFile \in Files /\ \A f \in Files : f # NewFile => file'[f] = file[f]
        /\ Volume(NewFile, file'[NewFile]).count = made.count
    BY <1>1, HeaderTurnStep
  <2>2. /\ pc = "header" /\ NewFile' = NewFile /\ UNCHANGED <<exists, errs>>
        /\ pc' = "header" => made'.count = made.count
        /\ ret' = ret \/ ret' = "OK"
    <3>1. made \in [done : 0 .. HDF_HEADER_SIZE, count : Nat]
      BY DEF IInv, CallShape
    <3> QED
      BY <1>1, <3>1 DEF HeaderTurn, NewFile
  <2> QED
    BY <1>0, <2>1, <2>2 DEF Sizes, Finished
<1>2. ASSUME errs' = errs + 1 PROVE Sizes'
  BY <1>0, <1>2 DEF Sizes
<1>3. CASE TurnError
  <2>1. pc = "io" /\ io.done < io.len
    BY <1>3 DEF TurnError
  <2>2. ~AtEof
    <3>1. io.pos \in Nat /\ io.len \in Nat /\ io.done \in Nat
          /\ Len(file[Target]) \in Nat /\ io.pos + io.len <= Len(file[Target])
      BY <2>1, TransferInside
    <3> QED
      BY <2>1, <3>1 DEF AtEof
  <2> QED
    BY <1>2, <1>3, <2>2 DEF TurnError
<1>4. ASSUME NEW k \in 1 .. io.len, TurnWrite(k) PROVE Sizes'
  <2>1. IInv' /\ \A f \in Files \ damaged' : \A g : Volume(g, file'[f]) = Volume(g, file[f])
    BY <1>4, TurnWriteStep
  <2>2. pc = "io" /\ UNCHANGED <<exists, pc, ret, errs>>
    BY <1>4 DEF TurnWrite
  <2> QED
    <3>1. errs = 0 => damaged' = {}
      BY <2>1, <2>2 DEF IInv, CallShape
    <3> QED
      BY <2>1, <2>2, <3>1, SizesKept DEF Sizes
<1>5. ASSUME NEW f \in Files, OpenImage(f) PROVE Sizes'
  <2>1. pc = "idle" /\ UNCHANGED <<exists, file, damaged, pc>> /\ (errs = 0 => damaged = {})
    BY <1>5, NothingSpoilt DEF OpenImage
  <2>2. \/ errs' = errs + 1
        \/ errs' = errs /\ ret' # "ERR"
    BY <1>5 DEF OpenImage, Fault, Openings
  <2> QED
    BY <1>2, <2>1, <2>2, SizesKept
<1>6. CASE CloseImage \/ \E k \in 1 .. io.len : TurnRead(k)
  BY <1>6, SizesKept, NothingSpoilt DEF CloseImage, TurnRead, Sizes
<1>7. CASE TurnEnd
  <2>1. pc = "io" /\ UNCHANGED <<exists, file, damaged, errs>>
    BY <1>7 DEF TurnEnd
  <2>2. CASE Finish("OK")
    BY <2>1, <2>2, SizesKept, NothingSpoilt DEF Finish
  <2>3. CASE pc' = "clone" /\ UNCHANGED ret
    BY <2>1, <2>3, SizesKept, NothingSpoilt DEF Sizes
  <2>4. CASE command = "clone" /\ Transfer("write", 1, position, io.len, io.buf)
    <3>1. Opened(1) /\ position \in Nat /\ position <= vol[1].bps * vol[1].count
      BY <2>1, <2>4, CloneRoom
    <3> QED
      BY <1>0, <2>1, <2>4, <3>1, SizesTransfer
  <2> QED
    BY <1>7, <2>2, <2>3, <2>4 DEF TurnEnd
<1>8. CASE CloneTurn
  <2>1. pc = "clone" /\ command = "clone" /\ UNCHANGED <<exists, file, damaged, errs>>
    BY <1>8 DEF CloneTurn, IInv, CallShape
  <2>2. CASE Finish("OK")
    BY <2>1, <2>2, SizesKept, NothingSpoilt DEF Finish
  <2>3. CASE Transfer("read", 0, position, Chunk, Zeros(Chunk))
    <3>1. Opened(0) /\ position \in Nat /\ position <= vol[0].bps * vol[0].count
      BY <2>1, CloneRoom
    <3> QED
      BY <1>0, <2>1, <2>3, <3>1, SizesTransfer
  <2> QED
    BY <1>8, <2>2, <2>3 DEF CloneTurn
<1>9. ASSUME NEW x \in Sectors,
             DiskRead(x[1], x[2]) \/ \E v \in Values : DiskWrite(x[1], x[2], v)
      PROVE  Sizes'
  <2>1. pc = "idle" /\ Opened(0) /\ UNCHANGED <<exists, file, damaged, errs>>
    BY <1>9 DEF DiskRead, DiskWrite, Opened
  <2>2. /\ vol[0].bps \in {Half, Full} /\ vol[0].count \in Nat
        /\ x[1] \in Nat /\ x[2] \in Nat /\ x[1] + x[2] <= vol[0].count
    BY <1>0 DEF Volumes, Sectors
  <2>3. x[1] * vol[0].bps \in Nat /\ x[1] * vol[0].bps <= vol[0].bps * vol[0].count
    <3> DEFINE b == vol[0].bps
               c == vol[0].count
    <3>1. b \in {Half, Full} /\ c \in Nat /\ b * c \in Nat
      BY <2>2 DEF Half, Full
    <3> HIDE DEF b, c
    <3>2. x[1] * b \in Nat /\ x[2] * b \in Nat /\ x[1] * b + x[2] * b <= b * c
      BY <2>2, <3>1, SectorsInside DEF c
    <3>3. x[1] * b <= b * c
      BY <3>1, <3>2
    <3> QED
      BY <3>2, <3>3 DEF b, c
  <2>4. PICK op, len, buf : Transfer(op, 0, x[1] * vol[0].bps, len, buf)
    BY <1>9 DEF DiskRead, DiskWrite
  <2> QED
    BY <1>0, <2>1, <2>3, <2>4, SizesTransfer
<1>10. ASSUME NEW f \in Files, NEW c \in Counts, Create(f, c) PROVE Sizes'
  <2> DEFINE source == [vol |-> NoVolume, misread |-> FALSE, errs |-> errs]
  <2>1. /\ c \in Nat /\ pc = "idle" /\ CreateFile(0, f, c, source)
        /\ command' = IF 0 = 0 THEN "create" ELSE "clone"
    BY <1>10, CountsAssumption DEF Create
  <2>2. source.errs = errs
    OBVIOUS
  <2> HIDE DEF source
  <2> QED
    BY <1>0, <2>1, <2>2, SizesNewFile
<1>11. ASSUME NEW f \in Files, NEW g \in Files, Clone(f, g) PROVE Sizes'
  <2>1. /\ pc = "idle" /\ f \in exists /\ command' = "clone"
    BY <1>11 DEF Clone
  <2>2. ASSUME NEW source \in Openings(f), CreateFile(1, g, source.vol.count, source)
        PROVE  Sizes'
    <3>1. /\ source.vol.count \in Nat /\ source.errs \in Nat
          /\ source.errs = 0 => errs = 0 /\ source.vol = Volume(f, file[f])
      BY OpeningFacts, SizesAssumption DEF IInv
    <3>2. source.errs = 0 => errs = 0 /\ source.vol.count \in Counts
      BY <2>1, <3>1 DEF Sizes, Finished
    <3>3. command' = IF 1 = 0 THEN "create" ELSE "clone"
      BY <2>1
    <3> QED
      BY <1>0, <2>1, <2>2, <3>1, <3>2, <3>3, SizesNewFile
  <2>3. CASE Fault
    BY <1>2, <2>3 DEF Fault
  <2> QED
    BY <1>11, <2>2, <2>3 DEF Clone
<1>12. CASE UNCHANGED vars
  BY <1>12 DEF vars, Sizes, Finished, NewFile
<1>13. CASE HeaderError
  BY <1>2, <1>13 DEF HeaderError, Fault
<1> QED
  BY <1>1, <1>3, <1>4, <1>5, <1>6, <1>7, <1>8, <1>9, <1>10, <1>11, <1>12, <1>13
     DEF Next, Step, Invoke

(***************************************************************************)
(* When the type int tells every position of the images asked for from an  *)
(* error of lseek, every sector of a disk can be read and written as long  *)
(* as no system call fails.  Without that condition run Image_large        *)
(* refutes it.                                                             *)
(***************************************************************************)
THEOREM SectorsAreReachable == ASSUME RangeSuffices PROVE Spec => []EverySectorReachable
<1>1. Spec => []Sizes
  BY InitSizes, NextSizes, ImageInvariant, PTL DEF Spec
<1>2. Sizes => EverySectorReachable
  BY DEF Sizes, EverySectorReachable
<1> QED
  BY <1>1, <1>2, PTL
=============================================================================
