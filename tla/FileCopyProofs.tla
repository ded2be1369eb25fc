--------------------------- MODULE FileCopyProofs ---------------------------
(***************************************************************************)
(* Proofs about FileCopy: whatever transfers fail, what an image holds of  *)
(* a file is its beginning; a put loses one file for each failed transfer, *)
(* those that f_open refuses apart; a get that succeeds is exact unless    *)
(* the host took less than it was given; a rebuild without failures is     *)
(* exact up to the first file that a static root has no entries for.       *)
(*                                                                         *)
(* The invariant IInv says where the loops of f_read and f_write stand in  *)
(* the chain of a file (Placed), that the sectors of the chain, with the   *)
(* sector buffer in front of them, hold the bytes before that place        *)
(* (Held), and how far the command's buffer is ahead of them (AlignShape). *)
(*                                                                         *)
(* In this order: the invariant; FlattenSeq of blocks; where a byte is; a  *)
(* file of a volume; one lemma for each action (NameStep), the turns of    *)
(* the loops of f_write and f_read last; the theorems.                     *)
(***************************************************************************)
EXTENDS FileCopy, NaturalFacts, SequenceTheorems, FiniteSetTheorems, TLAPS

-----------------------------------------------------------------------------
(* Where a file is: file sector (i - 1) * m + k is sector k of its i-th    *)
(* cluster, for clusters of m sectors.                                     *)
Byte == Int \X Int
Sect(m, i, k) == (i - 1) * m + k
Pos(m, i, k, r) == Sect(m, i, k) * SS + r
Room(m, ch) == (Len(ch) * m) * SS
SectorAt(m, c, k) == (c - 1) * m + k

(* In the sectors d the chain ch holds the first n bytes of h.             *)
Held(h, m, ch, d, n) ==
    \A i \in DOMAIN ch, k \in 0 .. (m - 1), r \in 1 .. SS :
        Pos(m, i, k, r) <= n => d[SectorAt(m, ch[i], k)][r] = h[Pos(m, i, k, r)]

(* The sectors of a chain.                                                 *)
Own(m, ch) == {SectorAt(m, ch[x[1]], x[2]) : x \in (DOMAIN ch) \X (0 .. (m - 1))}

(* The sectors with the sector buffer of a FIL in front of them.           *)
Latest(fp, d) == IF fp.dirty THEN [d EXCEPT ![fp.dsect] = fp.buf] ELSE d

HostShape ==
    /\ host \in Seq(Seq(Byte)) /\ host # <<>>
    /\ csize \in [Volumes -> Nat \ {0}]
    /\ names \in [Files -> [need : Nat, barred : BOOLEAN]]

VolumeShape ==
    /\ data = [v \in Volumes |-> data[v]]
    /\ \A v \in Volumes : data[v] \in [SectorsOf(v) -> [1 .. SS -> Byte]]
    /\ entry \in [Volumes -> [Files -> [size : Int, rooted : BOOLEAN]]]
    /\ chain \in [Volumes -> [Files -> Seq(Clusters)]]
    /\ used \in [Volumes -> SUBSET Clusters]
    /\ room \in [Volumes -> Nat \cup {Dynamic}]

(* A cluster is in use, and in one place of one chain.                     *)
ChainShape ==
    \A v \in Volumes, f \in Files : \A i \in DOMAIN chain[v][f] :
        /\ chain[v][f][i] \in used[v]
        /\ \A g \in Files : \A j \in DOMAIN chain[v][g] :
              chain[v][f][i] = chain[v][g][j] => f = g /\ i = j

EntryOk(e, h, m, ch, d) ==
    /\ e.rooted => /\ e.size \in Nat /\ e.size <= Len(h) /\ e.size <= Room(m, ch)
                   /\ Held(h, m, ch, d, e.size)
    /\ ~e.rooted => e \in {Absent, Empty}

EntryShape ==
    \A v \in Volumes, f \in Files :
        EntryOk(entry[v][f], host[f], csize[v], chain[v][f], data[v])

Copying == pc \in {"fetch", "read", "write", "next", "close", "drop"}
Writes == cmd \in {"put", "rebuild"}

ControlShape ==
    /\ cmd \in {"none", "put", "get", "rebuild"} /\ full \in BOOLEAN /\ errs \in Nat
    /\ pc = "idle" \/ pc = "open" \/ Copying
    /\ pc # "idle" => cmd # "none"
    /\ cmd # "none" => file \in Files
    /\ pc = "read" => Reads
    /\ pc \in {"write", "drop"} => Writes
    /\ pc = "drop" => errs > 0
    /\ pc = "open" => hpos = 0

(* The FIL stands in the n-th cluster of its chain, behind sector csect-1. *)
FilType(v) ==
    [vol : {v}, fptr : Nat, fsize : Nat, csect : Nat, clust : Int, dsect : Int,
     dirty : BOOLEAN, buf : [1 .. SS -> Byte]]

Placed(fp, m, ch, n) ==
    /\ fp.csect \in 1 .. m
    /\ n = 0 => fp.csect = m
    /\ n # 0 => fp.clust = ch[n]
    /\ fp.fptr <= Pos(m, n, fp.csect, 0)
    /\ fp.fptr > Pos(m, n, fp.csect - 1, 0)

(* The file being written: what the image and the sector buffer hold.      *)
OutOk(fp, m, ch) ==
    /\ Placed(fp, m, ch, Len(ch))
    /\ ~AtSector(fp) => fp.dirty /\ fp.dsect = SectorAt(m, fp.clust, fp.csect - 1)

OutShape ==
    Copying /\ Writes =>
        /\ out \in FilType(Target)
        /\ entry[Target][file] = Empty
        /\ out.fsize <= out.fptr /\ out.fptr <= Len(host[file])
        /\ out.fptr <= Room(csize[Target], chain[Target][file])
        /\ Held(host[file], csize[Target], chain[Target][file], Latest(out, data[Target]), out.fptr)
        /\ out.dirty => out.dsect \in Own(csize[Target], chain[Target][file])
        /\ pc # "drop" => OutOk(out, csize[Target], chain[Target][file])
        /\ pc \notin {"write", "drop"} => out.fsize = out.fptr

(* The file being read.                                                    *)
InShape ==
    Copying /\ Reads =>
        /\ in \in FilType(0)
        /\ in.fsize = entry[0][file].size /\ in.fptr <= in.fsize
        /\ \E n \in 0 .. Len(chain[0][file]) : Placed(in, csize[0], chain[0][file], n)
        /\ in.dsect # NoSector => in.dsect \in SectorsOf(0) /\ in.buf = data[0][in.dsect]
        /\ ~AtSector(in) => in.dsect = SectorAt(csize[0], in.clust, in.csect - 1)

(* How far the source has been read, and how long it is.                   *)
Position == IF Reads THEN in.fptr ELSE hpos
Total == IF Reads THEN in.fsize ELSE Len(host[file])

(* s are the bytes of the source before Position.                          *)
Ends(s) ==
    /\ s \in Seq(Byte) /\ Len(s) <= Position
    /\ \A j \in 1 .. Len(s) : s[j] = host[file][Position - Len(s) + j]

ChunkShape ==
    Copying =>
        /\ hpos \in Nat /\ (~Reads => hpos <= Len(host[file]))
        /\ pc \in {"read", "write", "next"} => Ends(chunk)
        /\ pc = "read" =>
              /\ todo \in Nat /\ in.fptr + todo <= in.fsize
              /\ Len(chunk) + todo = BufferSize \/ in.fptr + todo = in.fsize
        /\ pc \in {"write", "next"} => Len(chunk) = BufferSize \/ Position = Total
        /\ pc = "write" => Ends(rest)
        /\ pc = "close" => Position = Total

Pending == IF pc = "write" THEN Len(rest) ELSE IF pc = "read" THEN Len(chunk) ELSE 0

(* What has been read is written or pending, unless the volume is full.    *)
AlignShape ==
    Copying /\ Writes /\ pc # "drop" =>
        \/ out.fptr + Pending = Position
        \/ full /\ AtCluster(out) /\ Free(Target) = {}

-----------------------------------------------------------------------------
(* The results of the commands, by the lengths of the files.               *)
LengthOf(e) == IF e.rooted THEN e.size ELSE 0
Length(v, f) == LengthOf(entry[v][f])

GetShape ==
    cmd = "get" =>
        /\ pc = "open" => got = <<>>
        /\ ~lost /\ (pc # "idle" \/ res = "ok") => got \in Seq(Byte) /\ \A j \in 1 .. Len(got) : got[j] = host[file][j]
        /\ ~lost /\ Copying => Len(got) + Pending = in.fptr
        /\ ~lost /\ pc = "idle" /\ res = "ok" => Len(got) = Length(0, file)

Cut(n) == {f \in Files : f < n /\ ~Excused(f) /\ Length(0, f) # Len(host[f])}

PutShape ==
    cmd = "put" /\ ~full =>
        IF pc = "idle" THEN Cardinality(Cut(Len(host) + 1)) <= errs
        ELSE Cardinality(Cut(file)) + (IF pc = "drop" THEN 1 ELSE 0) <= errs

RebuildShape ==
    /\ cmd = "rebuild" /\ errs = 0 /\ ~full =>
          \A f \in Files : pc = "idle" \/ f < file =>
              Length(1, f) = Length(0, f) \/ \E g \in 1 .. f : Unfit(g)
    /\ \A f \in Files :
          cmd # "rebuild" \/ (pc # "idle" /\ (f > file \/ (f = file /\ pc = "open"))) => entry[1][f] = Absent

IInv ==
    /\ HostShape /\ VolumeShape /\ ChainShape /\ EntryShape
    /\ ControlShape /\ OutShape /\ InShape /\ ChunkShape /\ AlignShape
    /\ GetShape /\ PutShape /\ RebuildShape

-----------------------------------------------------------------------------
(* FlattenSeq of blocks of one length.                                     *)
IsFlat(s, n, f) == f = [i \in 1 .. n |-> IF i = 1 THEN s[i] ELSE f[i - 1] \o s[i]]

LEMMA FlatExists ==
    ASSUME NEW s
    PROVE  \A n \in Nat : \E f : IsFlat(s, n, f)
<1> DEFINE S == {n \in Nat : \E f : IsFlat(s, n, f)}
<1>1. 0 \in S
  <2>1. IsFlat(s, 0, [i \in 1 .. 0 |-> 0])
    BY DEF IsFlat
  <2> QED
    BY <2>1
<1>2. ASSUME NEW n \in Nat, n \in S PROVE n + 1 \in S
  <2>1. PICK f : IsFlat(s, n, f)
    BY <1>2
  <2>0. \A i \in 1 .. n : f[i] = IF i = 1 THEN s[i] ELSE f[i - 1] \o s[i]
    BY <2>1 DEF IsFlat
  <2> DEFINE g == [i \in 1 .. (n + 1) |-> IF i = n + 1 THEN (IF i = 1 THEN s[i] ELSE f[i - 1] \o s[i])
                                                       ELSE f[i]]
  <2>2. \A i \in 1 .. (n + 1) : g[i] = IF i = 1 THEN s[i] ELSE g[i - 1] \o s[i]
    <3> SUFFICES ASSUME NEW i \in 1 .. (n + 1) PROVE g[i] = IF i = 1 THEN s[i] ELSE g[i - 1] \o s[i]
      OBVIOUS
    <3>1. i # 1 => i - 1 \in 1 .. n /\ g[i - 1] = f[i - 1]
      OBVIOUS
    <3>2. i # n + 1 => i \in 1 .. n /\ g[i] = f[i] /\ f[i] = (IF i = 1 THEN s[i] ELSE f[i - 1] \o s[i])
      BY <2>0
    <3>3. i = n + 1 => g[i] = (IF i = 1 THEN s[i] ELSE f[i - 1] \o s[i])
      OBVIOUS
    <3> HIDE DEF g
    <3> QED
      BY <3>1, <3>2, <3>3
  <2>3. g = [i \in 1 .. (n + 1) |-> g[i]]
    OBVIOUS
  <2> HIDE DEF g
  <2>4. IsFlat(s, n + 1, g)
    BY <2>2, <2>3 DEF IsFlat
  <2> QED
    BY <2>4
<1> HIDE DEF S
<1>3. Nat \subseteq S
  BY <1>1, <1>2, SetInduction
<1> QED
  BY <1>3 DEF S

(* g is made of the first k of the blocks s.                               *)
Blocks(X, s, len, k, g) ==
    /\ g \in Seq(X) /\ Len(g) = k * len
    /\ \A a \in 1 .. k, j \in 1 .. len : g[(a - 1) * len + j] = s[a][j]

(* Byte j of block a.                                                      *)
LEMMA InBlocks ==
    ASSUME NEW k \in Nat, NEW len \in Nat, NEW a \in 1 .. k, NEW j \in 1 .. len
    PROVE  (a - 1) * len + j \in 1 .. (k * len)
<1>1. a - 1 \in Nat /\ a \in Nat /\ a <= k
  OBVIOUS
<1>2. (a - 1) * len \in Nat /\ a * len <= k * len /\ a * len \in Nat /\ k * len \in Nat
  BY <1>1, Times
<1>3. (a - 1) * len = a * len - 1 * len
  BY <1>1, Distribute
<1> DEFINE x == (a - 1) * len
           y == a * len
           z == k * len
<1> HIDE DEF x, y, z
<1>4. x \in Nat /\ y <= z /\ y \in Nat /\ z \in Nat /\ x = y - len
  BY <1>2, <1>3 DEF x, y, z
<1>5. x + j \in 1 .. z
  BY <1>4
<1> QED
  BY <1>5 DEF x, z

(* One block more.                                                         *)
LEMMA NextBlock ==
    ASSUME NEW X, NEW s, NEW len \in Nat, NEW k \in Nat, NEW g, Blocks(X, s, len, k, g),
           s[k + 1] \in Seq(X), Len(s[k + 1]) = len
    PROVE  Blocks(X, s, len, k + 1, g \o s[k + 1])
<1> DEFINE h == s[k + 1]
           x == k * len
<1>1. g \in Seq(X) /\ h \in Seq(X) /\ Len(g) = x /\ Len(h) = len
  BY DEF Blocks
<1>2. x \in Nat /\ (k + 1) * len = x + len
  BY Times, Distribute
<1> HIDE DEF h, x
<1>3. /\ g \o h \in Seq(X) /\ Len(g \o h) = x + len
      /\ \A p \in 1 .. (x + len) : (g \o h)[p] = IF p <= x THEN g[p] ELSE h[p - x]
  <2>1. /\ g \o h \in Seq(X) /\ Len(g \o h) = Len(g) + Len(h)
        /\ \A p \in 1 .. (Len(g) + Len(h)) : (g \o h)[p] = IF p <= Len(g) THEN g[p] ELSE h[p - Len(g)]
    BY <1>1, ConcatProperties
  <2> QED
    BY <1>1, <2>1
<1>4. ASSUME NEW a \in 1 .. (k + 1), NEW j \in 1 .. len PROVE (g \o h)[(a - 1) * len + j] = s[a][j]
  <2>1. CASE a = k + 1
    <3>1. (a - 1) * len = x
      BY <2>1 DEF x
    <3>2. x + j \in 1 .. (x + len) /\ ~(x + j <= x) /\ (x + j) - x = j
      BY <1>2
    <3>3. (g \o h)[x + j] = h[j]
      BY <1>3, <3>2
    <3> QED
      BY <2>1, <3>1, <3>3 DEF h
  <2>2. CASE a \in 1 .. k
    <3> DEFINE p == (a - 1) * len + j
    <3>1. p \in 1 .. x
      BY <2>2, InBlocks DEF x
    <3>2. g[p] = s[a][j]
      BY <2>2 DEF Blocks
    <3> HIDE DEF p
    <3>3. (g \o h)[p] = g[p]
      BY <1>2, <1>3, <3>1
    <3> QED
      BY <3>2, <3>3 DEF p
  <2>3. a = k + 1 \/ a \in 1 .. k
    OBVIOUS
  <2> QED
    BY <2>1, <2>2, <2>3, Zenon
<1>5. g \o h \in Seq(X) /\ Len(g \o h) = (k + 1) * len
  BY <1>2, <1>3
<1> QED
  BY <1>4, <1>5 DEF Blocks, h

LEMMA Flat ==
    ASSUME NEW X, NEW n \in Nat, NEW len \in Nat, NEW s,
           s = [i \in 1 .. n |-> s[i]], \A i \in 1 .. n : s[i] \in Seq(X) /\ Len(s[i]) = len
    PROVE  Blocks(X, s, len, n, FlattenSeq(s))
<1>0. s \in Seq({s[i] : i \in 1 .. n}) /\ Len(s) = n
  OBVIOUS
<1>1. CASE n = 0
  <2>1. FlattenSeq(s) = s /\ s = <<>>
    BY <1>0, <1>1 DEF FlattenSeq
  <2>2. n * len = 0 /\ \A a \in 1 .. n : FALSE
    BY <1>1
  <2>3. FlattenSeq(s) \in Seq(X) /\ Len(FlattenSeq(s)) = 0
    BY <2>1
  <2> QED
    BY <2>2, <2>3 DEF Blocks
<1>2. CASE n # 0
  <2> DEFINE f == CHOOSE f : IsFlat(s, n, f)
  <2>1. FlattenSeq(s) = f[n]
    BY <1>0, <1>2 DEF FlattenSeq, IsFlat
  <2>2. IsFlat(s, n, f)
    BY FlatExists
  <2> HIDE DEF f
  <2>3. \A i \in 1 .. n : f[i] = IF i = 1 THEN s[i] ELSE f[i - 1] \o s[i]
    BY <2>2 DEF IsFlat
  <2> DEFINE S == {i \in Nat : i + 1 <= n => Blocks(X, s, len, i + 1, f[i + 1])}
  <2>4. Blocks(X, s, len, 1, f[1])
    <3>1. f[1] = s[1] /\ f[1] \in Seq(X) /\ Len(f[1]) = 1 * len
      <4>1. 1 \in 1 .. n /\ 1 * len = len
        BY <1>2
      <4>2. f[1] = s[1] /\ s[1] \in Seq(X) /\ Len(s[1]) = len
        BY <2>3, <4>1
      <4> QED
        BY ONLY <4>1, <4>2
    <3>2. \A a \in 1 .. 1, j \in 1 .. len : a = 1 /\ (a - 1) * len + j = j
      OBVIOUS
    <3> QED
      BY <3>1, <3>2 DEF Blocks
  <2>5. 0 \in S
    BY <2>4
  <2>6. ASSUME NEW i \in Nat, i \in S PROVE i + 1 \in S
    <3> SUFFICES ASSUME i + 2 <= n PROVE Blocks(X, s, len, i + 2, f[i + 2])
      OBVIOUS
    <3>1. i + 2 \in 1 .. n /\ i + 2 = (i + 1) + 1 /\ (i + 2) - 1 = i + 1 /\ i + 2 # 1 /\ i + 1 <= n
      OBVIOUS
    <3>2. f[i + 2] = f[i + 1] \o s[i + 2] /\ s[i + 2] \in Seq(X) /\ Len(s[i + 2]) = len
      BY <2>3, <3>1
    <3>3. Blocks(X, s, len, i + 1, f[i + 1])
      BY <2>6, <3>1
    <3>4. i + 1 \in Nat
      OBVIOUS
    <3>5. Blocks(X, s, len, (i + 1) + 1, f[i + 1] \o s[(i + 1) + 1])
      BY <3>1, <3>2, <3>3, <3>4, NextBlock
    <3> QED
      BY <3>1, <3>2, <3>5
  <2> HIDE DEF S
  <2>7. Nat \subseteq S
    BY <2>5, <2>6, SetInduction
  <2>8. n - 1 \in S /\ n = (n - 1) + 1
    BY <1>2, <2>7
  <2>9. Blocks(X, s, len, n, f[n])
    BY <1>2, <2>8 DEF S
  <2> QED
    BY <2>1, <2>9
<1> QED
  BY <1>1, <1>2

-----------------------------------------------------------------------------
(* Positions.                                                              *)
LEMMA SectType ==
    ASSUME NEW m \in Nat, NEW i \in Int, NEW k \in Int
    PROVE  /\ Sect(m, i, k) \in Int /\ SectorAt(m, i, k) \in Int
           /\ \A j \in Int : Sect(m, i, k + j) = Sect(m, i, k) + j
           /\ Sect(m, i, k - 1) = Sect(m, i, k) - 1
           /\ Sect(m, i + 1, 0) = Sect(m, i, m)
           /\ Sect(m, i + 1, 0) = i * m
BY DEF Sect, SectorAt

(* Bytes are in the order of clusters, sectors and bytes in a sector.      *)
LEMMA PosOrder ==
    ASSUME NEW p \in Int, NEW q \in Int, NEW r \in 1 .. SS
    PROVE  /\ p * SS \in Int /\ q * SS \in Int
           /\ p * SS + r <= q * SS <=> p < q
           /\ p * SS < q * SS <=> p < q
           /\ p * SS <= q * SS <=> p <= q
<1>0. SS \in Nat \ {0}
  BY SizesAssumption
<1>1. p < q => (p + 1) * SS <= q * SS /\ (p + 1) * SS = p * SS + 1 * SS
  BY <1>0, Times, Distribute
<1>2. q < p => (q + 1) * SS <= p * SS /\ (q + 1) * SS = q * SS + 1 * SS
  BY <1>0, Times, Distribute
<1>3. (p <= q => p * SS <= q * SS) /\ (q <= p => q * SS <= p * SS)
  BY <1>0, Times
<1> DEFINE x == p * SS
           y == q * SS
           z == (p + 1) * SS
<1>4. x \in Int /\ y \in Int /\ z \in Int /\ (p < q => z <= y /\ z = x + SS)
      /\ (q < p => y + SS <= x) /\ (p <= q => x <= y) /\ (q <= p => y <= x)
  BY <1>0, <1>1, <1>2, <1>3
<1> HIDE DEF x, y, z
<1>5. (x + r <= y <=> p < q) /\ (x < y <=> p < q) /\ (x <= y <=> p <= q)
  BY <1>0, <1>4
<1> QED
  BY <1>4, <1>5 DEF x, y

LEMMA PosType ==
    ASSUME NEW m \in Nat, NEW i \in Int, NEW k \in Int, NEW r \in Int
    PROVE  Pos(m, i, k, r) \in Int /\ Pos(m, i, k, r) = Pos(m, i, k, 0) + r
<1>0. SS \in Int
  BY SizesAssumption
<1>2. Sect(m, i, k) \in Int
  BY SectType
<1>1. Sect(m, i, k) * SS \in Int
  BY <1>0, <1>2
<1> QED
  BY <1>1 DEF Pos

(* A FIL stands at the end of a sector or inside the last one.             *)
LEMMA PlacedAt ==
    ASSUME NEW v, NEW m \in Nat \ {0}, NEW fp \in FilType(v), NEW ch, NEW n \in Nat, Placed(fp, m, ch, n)
    PROVE  /\ AtSector(fp) => fp.fptr = Pos(m, n, fp.csect, 0)
           /\ fp.fptr % SS \in 0 .. (SS - 1)
           /\ ~AtSector(fp) => fp.fptr = Pos(m, n, fp.csect - 1, 0) + (fp.fptr % SS)
<1>0. SS \in Nat \ {0} /\ fp.fptr \in Nat /\ fp.csect \in 1 .. m
  BY SizesAssumption DEF Placed, FilType
<1> DEFINE f == fp.fptr
           p == Sect(m, n, fp.csect)
           q == f \div SS
           r == f % SS
<1>1. q \in Int /\ r \in 0 .. (SS - 1) /\ f = q * SS + r /\ f \in Nat
  BY <1>0
<1>2. p \in Int /\ Sect(m, n, fp.csect - 1) = p - 1
  <2>1. fp.csect \in Int /\ m \in Nat /\ n \in Int
    BY <1>0
  <2> QED
    BY <2>1, SectType
<1>3. f <= p * SS + 0 /\ f > (p - 1) * SS + 0
  BY <1>2 DEF Placed, Pos
<1>4. p * SS \in Int /\ (p - 1) * SS \in Int /\ q * SS \in Int
  BY <1>0, <1>1, <1>2
<1> HIDE DEF f, p, q, r
<1>5. CASE r = 0
  <2>1. q * SS <= p * SS /\ (p - 1) * SS < q * SS
    BY <1>1, <1>3, <1>4, <1>5
  <2>2. q <= p /\ p - 1 < q
    BY <1>0, <1>1, <1>2, <2>1, PosOrder
  <2>3. q = p
    BY <1>1, <1>2, <2>2
  <2>4. f = p * SS + 0
    BY <1>1, <1>4, <1>5, <2>3
  <2> QED
    BY <1>1, <1>5, <2>4 DEF AtSector, Pos, f, p, r
<1>6. CASE r # 0
  <2>1. r \in 1 .. SS
    BY <1>0, <1>1, <1>6
  <2>2. q * SS + r <= p * SS
    BY <1>1, <1>3, <1>4
  <2>3. q < p
    BY <1>1, <1>2, <2>1, <2>2, PosOrder
  <2>4. ~(q < p - 1)
    <3> SUFFICES ASSUME q < p - 1 PROVE FALSE
      OBVIOUS
    <3>1. q * SS + r <= (p - 1) * SS
      BY <1>1, <1>2, <2>1, PosOrder
    <3> QED
      BY <1>1, <1>3, <1>4, <3>1
  <2>5. q = p - 1
    BY <1>1, <1>2, <2>3, <2>4
  <2>6. f = (p - 1) * SS + 0 + r
    BY <1>1, <1>4, <2>5
  <2> QED
    BY <1>1, <1>2, <1>6, <2>6 DEF AtSector, Pos, f, p, r
<1> QED
  BY <1>5, <1>6

-----------------------------------------------------------------------------
(* What a chain holds.                                                     *)
LEMMA HeldLess ==
    ASSUME NEW h, NEW m \in Nat, NEW ch, NEW d, NEW n \in Int, NEW l \in Int, l <= n,
           DOMAIN ch \subseteq Int, Held(h, m, ch, d, n)
    PROVE  Held(h, m, ch, d, l)
<1> SUFFICES ASSUME NEW i \in DOMAIN ch, NEW k \in 0 .. (m - 1), NEW r \in 1 .. SS, Pos(m, i, k, r) <= l
             PROVE  d[SectorAt(m, ch[i], k)][r] = h[Pos(m, i, k, r)]
  BY DEF Held
<1>0. i \in Int /\ k \in Int /\ r \in Int
  BY SizesAssumption
<1>1. Pos(m, i, k, r) \in Int
  BY <1>0, PosType
<1>2. Pos(m, i, k, r) <= n
  BY <1>1
<1> QED
  BY <1>2 DEF Held

(* Only the sectors of the chain matter, ...                               *)
(* ... and another cluster at its end does not.                            *)
LEMMA RoomIs ==
    ASSUME NEW m \in Nat, NEW ch, Len(ch) \in Nat
    PROVE  Room(m, ch) \in Nat /\ Room(m, ch) = Pos(m, Len(ch) + 1, 0, 0)
<1>1. SS \in Nat /\ Len(ch) * m \in Nat
  BY SizesAssumption
<1>2. Sect(m, Len(ch) + 1, 0) = Len(ch) * m
  BY DEF Sect
<1> DEFINE x == Len(ch) * m
<1>3. Room(m, ch) = x * SS /\ Pos(m, Len(ch) + 1, 0, 0) = x * SS + 0
  BY <1>2 DEF Room, Pos
<1>4. x * SS \in Nat
  BY <1>1
<1> QED
  BY <1>3, <1>4

(* A chain that gets longer holds what it held.                            *)
LEMMA HeldLonger ==
    ASSUME NEW h, NEW m \in Nat \ {0}, NEW ch \in Seq(Clusters), NEW c \in Clusters, NEW d,
           NEW n \in Nat, n <= Room(m, ch), Held(h, m, ch, d, n)
    PROVE  Held(h, m, Append(ch, c), d, n)
<1> DEFINE t == Append(ch, c)
<1>1. Len(ch) \in Nat /\ DOMAIN ch = 1 .. Len(ch) /\ DOMAIN t = 1 .. (Len(ch) + 1)
      /\ \A i \in 1 .. Len(ch) : t[i] = ch[i]
  <2>1. t \in Seq(Clusters) /\ Len(t) = Len(ch) + 1 /\ \A i \in 1 .. Len(ch) : t[i] = ch[i]
    BY AppendProperties
  <2> QED
    BY <2>1, LenProperties
<1> HIDE DEF t
<1> SUFFICES ASSUME NEW i \in DOMAIN t, NEW k \in 0 .. (m - 1), NEW r \in 1 .. SS, Pos(m, i, k, r) <= n
             PROVE  d[SectorAt(m, t[i], k)][r] = h[Pos(m, i, k, r)]
  BY DEF Held, t
<1>2. CASE i = Len(ch) + 1
  <2>1. Pos(m, i, k, r) <= Pos(m, i, 0, 0)
    <3>1. Room(m, ch) = Pos(m, i, 0, 0) /\ Room(m, ch) \in Nat
      BY <1>1, <1>2, RoomIs
    <3>2. i \in Int /\ k \in Int /\ r \in Int
      BY <1>1, SizesAssumption
    <3>3. Pos(m, i, k, r) \in Int
      BY <3>2, PosType
    <3> QED
      BY <3>1, <3>3
  <2>2. Sect(m, i, k) = Sect(m, i, 0) + k /\ Sect(m, i, 0) \in Int
    BY <1>1, SectType DEF Sect
  <2>3. Sect(m, i, 0) <= Sect(m, i, k) /\ Sect(m, i, k) \in Int
    BY <2>2
  <2>4. ~(Sect(m, i, k) * SS + r <= Sect(m, i, 0) * SS)
    BY <2>2, <2>3, PosOrder
  <2>5. Sect(m, i, 0) * SS \in Int
    BY <2>2, SizesAssumption
  <2> QED
    BY <2>1, <2>4, <2>5 DEF Pos
<1>3. CASE i \in 1 .. Len(ch)
  BY <1>1, <1>3 DEF Held
<1> QED
  BY <1>1, <1>2, <1>3

(* Different clusters have different sectors.                              *)
LEMMA SectorsApart ==
    ASSUME NEW m \in Nat \ {0}, NEW c \in Int, NEW b \in Int, NEW k \in 0 .. (m - 1), NEW l \in 0 .. (m - 1),
           SectorAt(m, c, k) = SectorAt(m, b, l)
    PROVE  c = b /\ k = l
<1>1. c - 1 = b - 1 /\ k = l
  BY Apart DEF SectorAt
<1> QED
  BY <1>1

LEMMA SectorInVolume ==
    ASSUME NEW v \in Volumes, csize[v] \in Nat \ {0}, NEW c \in Clusters, NEW k \in 0 .. (csize[v] - 1)
    PROVE  SectorAt(csize[v], c, k) \in SectorsOf(v) /\ SectorAt(csize[v], c, k) \in Nat
<1> DEFINE m == csize[v]
           x == (c - 1) * m
           y == NClust * m
<1>1. m \in Nat \ {0} /\ c \in 1 .. NClust /\ NClust \in Nat /\ BufferSize \in Nat /\ k \in 0 .. (m - 1)
  BY SizesAssumption DEF Clusters
<1> HIDE DEF m
<1>2. x \in Nat /\ y \in Nat /\ (NClust - 1) * m = y - 1 * m /\ x <= (NClust - 1) * m
  BY <1>1, Times, Distribute
<1>3. x + m <= y
  BY <1>1, <1>2
<1> HIDE DEF x, y
<1>4. x + k \in 0 .. (y + BufferSize)
  BY <1>1, <1>2, <1>3
<1> QED
  BY <1>2, <1>4 DEF SectorAt, SectorsOf, x, y, m

-----------------------------------------------------------------------------
(* The volumes.                                                            *)
LEMMA FileType ==
    ASSUME HostShape, NEW f \in Files
    PROVE  /\ host[f] \in Seq(Byte) /\ Len(host[f]) \in Nat
           /\ f \in Nat \ {0} /\ Len(host) \in Nat \ {0} /\ Files = 1 .. Len(host)
<1>1. host \in Seq(Seq(Byte)) /\ host # <<>>
  BY DEF HostShape
<1>2. Files = 1 .. Len(host) /\ Len(host) \in Nat
  BY <1>1, LenProperties DEF Files
<1>3. host[f] \in Seq(Byte)
  BY <1>1, <1>2, ElementOfSeq
<1>4. Len(host[f]) \in Nat
  BY <1>3, LenProperties
<1>5. f \in 1 .. Len(host)
  BY <1>2
<1> QED
  BY <1>2, <1>3, <1>4, <1>5

LEMMA ChainType ==
    ASSUME VolumeShape, NEW v \in Volumes, NEW f \in Files
    PROVE  /\ chain[v][f] \in Seq(Clusters) /\ Len(chain[v][f]) \in Nat
           /\ DOMAIN chain[v][f] = 1 .. Len(chain[v][f])
           /\ \A i \in DOMAIN chain[v][f] : chain[v][f][i] \in Clusters
<1>1. chain[v][f] \in Seq(Clusters)
  BY DEF VolumeShape
<1>2. Len(chain[v][f]) \in Nat /\ DOMAIN chain[v][f] = 1 .. Len(chain[v][f])
  BY <1>1, LenProperties
<1> QED
  BY <1>1, <1>2, ElementOfSeq

LEMMA VolumesKept ==
    ASSUME HostShape, VolumeShape, ChainShape, EntryShape, UNCHANGED <<host, names, csize, volVars>>
    PROVE  HostShape' /\ VolumeShape' /\ ChainShape' /\ EntryShape'
<1>1. /\ host' = host /\ names' = names /\ csize' = csize /\ data' = data /\ entry' = entry /\ chain' = chain
      /\ used' = used /\ room' = room
  BY DEF volVars
<1>2. HostShape' /\ VolumeShape'
  BY <1>1 DEF HostShape, VolumeShape, SectorsOf, Files
<1>3. ChainShape' /\ EntryShape'
  BY <1>1 DEF ChainShape, EntryShape, Files
<1> QED
  BY <1>2, <1>3

(* A sector of one file belongs to no other.                               *)
LEMMA SectorOwned ==
    ASSUME NEW m \in Nat \ {0}, NEW ch, NEW other,
           \A i \in DOMAIN ch : ch[i] \in Int, \A j \in DOMAIN other : other[j] \in Int,
           \A i \in DOMAIN ch, j \in DOMAIN other : ch[i] # other[j]
    PROVE  \A j \in DOMAIN other, k \in 0 .. (m - 1) : SectorAt(m, other[j], k) \notin Own(m, ch)
<1> SUFFICES ASSUME NEW j \in DOMAIN other, NEW k \in 0 .. (m - 1), NEW i \in DOMAIN ch, NEW l \in 0 .. (m - 1),
                    SectorAt(m, other[j], k) = SectorAt(m, ch[i], l)
             PROVE  FALSE
  BY DEF Own
<1>1. other[j] = ch[i]
  BY SectorsApart
<1> QED
  BY <1>1

(* One file of a volume changes: its entry, its chain and its sectors.     *)
LEMMA OneFile ==
    ASSUME HostShape, VolumeShape, ChainShape, EntryShape, UNCHANGED <<host, names, csize>>,
           VolumeShape', ChainShape', NEW v \in Volumes, NEW f \in Files,
           \A w \in Volumes, g \in Files : w # v \/ g # f =>
               chain'[w][g] = chain[w][g] /\ entry'[w][g] = entry[w][g],
           \A w \in Volumes : w # v => data'[w] = data[w],
           \A t \in SectorsOf(v) : t \notin Own(csize[v], chain'[v][f]) => data'[v][t] = data[v][t],
           EntryOk(entry'[v][f], host[f], csize[v], chain'[v][f], data'[v])
    PROVE  EntryShape'
<1>0. HostShape' /\ Files' = Files /\ csize' = csize /\ host' = host
  BY DEF HostShape, Files
<1> SUFFICES ASSUME NEW w \in Volumes, NEW g \in Files
             PROVE  EntryOk(entry'[w][g], host[g], csize[w], chain'[w][g], data'[w])
  BY <1>0 DEF EntryShape
<1>1. EntryOk(entry[w][g], host[g], csize[w], chain[w][g], data[w])
  BY DEF EntryShape
<1>2. CASE w # v
  BY <1>1, <1>2
<1>3. CASE w = v /\ g = f
  BY <1>3
<1>4. CASE w = v /\ g # f
  <2>1. chain'[v][g] = chain[v][g] /\ entry'[v][g] = entry[v][g]
    BY <1>4
  <2>2. ASSUME NEW i \in DOMAIN chain[v][g], NEW k \in 0 .. (csize[v] - 1)
        PROVE  data'[v][SectorAt(csize[v], chain[v][g][i], k)] = data[v][SectorAt(csize[v], chain[v][g][i], k)]
    <3> DEFINE t == SectorAt(csize[v], chain[v][g][i], k)
    <3>1. csize[v] \in Nat \ {0} /\ chain[v][g][i] \in Clusters
      BY ChainType DEF HostShape
    <3>2. t \in SectorsOf(v)
      BY <3>1, SectorInVolume
    <3>3. /\ \A a \in DOMAIN chain'[v][f] : chain'[v][f][a] \in Int
          /\ \A b \in DOMAIN chain'[v][g] : chain'[v][g][b] \in Int
      <4>1. chain' \in [Volumes -> [Files -> Seq(Clusters)]] /\ Clusters \subseteq Int
        BY <1>0, SizesAssumption DEF VolumeShape, Clusters
      <4>2. chain'[v][f] \in Seq(Clusters) /\ chain'[v][g] \in Seq(Clusters)
        BY <4>1
      <4> QED
        BY <4>1, <4>2, ElementOfSeq, LenProperties
    <3>4. \A a \in DOMAIN chain'[v][f], b \in DOMAIN chain'[v][g] : chain'[v][f][a] # chain'[v][g][b]
      BY <1>0, <1>4 DEF ChainShape
    <3>5. \A b \in DOMAIN chain'[v][g], l \in 0 .. (csize[v] - 1) :
             SectorAt(csize[v], chain'[v][g][b], l) \notin Own(csize[v], chain'[v][f])
      BY <3>1, <3>3, <3>4, SectorOwned
    <3> QED
      BY <2>1, <3>2, <3>5
  <2> DEFINE e == entry[v][g]
             ch == chain[v][g]
             d2 == data'[v]
             d == data[v]
             m == csize[v]
             h == host[g]
  <2>3. \A i \in DOMAIN ch, k \in 0 .. (m - 1) : d2[SectorAt(m, ch[i], k)] = d[SectorAt(m, ch[i], k)]
    BY <2>2
  <2>4. EntryOk(e, h, m, ch, d)
    BY <1>1, <1>4
  <2> HIDE DEF e, ch, d2, d, m, h
  <2>5. Held(h, m, ch, d, e.size) => Held(h, m, ch, d2, e.size)
    BY <2>3 DEF Held
  <2>6. EntryOk(e, h, m, ch, d2)
    BY <2>4, <2>5 DEF EntryOk
  <2> QED
    BY <1>4, <2>1, <2>6 DEF e, ch, d2, d, m, h
<1> QED
  BY <1>2, <1>3, <1>4

(* FA_CREATE_ALWAYS: an empty entry, and an empty chain.                   *)
LEMMA Emptied ==
    ASSUME HostShape, VolumeShape, ChainShape, EntryShape, UNCHANGED <<host, names, csize, data>>, file \in Files,
           NEW released, released \subseteq ToSet(chain[Target][file]), NEW taken, taken \subseteq Clusters,
           Created(released, taken), room' \in [Volumes -> Nat \cup {Dynamic}]
    PROVE  /\ VolumeShape' /\ ChainShape' /\ EntryShape'
           /\ entry'[Target][file] = Empty /\ chain'[Target][file] = <<>>
           /\ \A w \in Volumes, g \in Files : w # Target \/ g # file =>
                 chain'[w][g] = chain[w][g] /\ entry'[w][g] = entry[w][g]
<1> DEFINE v == Target
           f == file
<1>0. v \in Volumes /\ f \in Files /\ host' = host /\ csize' = csize /\ data' = data /\ Files' = Files
      /\ \A w \in Volumes : SectorsOf(w)' = SectorsOf(w)
  BY DEF Target, Volumes, Files, SectorsOf
<1>1. /\ entry' = [entry EXCEPT ![v][f] = Empty]
      /\ chain' = [chain EXCEPT ![v][f] = <<>>]
      /\ used' = [used EXCEPT ![v] = (@ \ released) \cup taken]
  BY DEF Created, Grown
<1> HIDE DEF v, f
<1>2. /\ entry \in [Volumes -> [Files -> [size : Int, rooted : BOOLEAN]]]
      /\ chain \in [Volumes -> [Files -> Seq(Clusters)]]
      /\ used \in [Volumes -> SUBSET Clusters]
  BY DEF VolumeShape
<1>3. /\ entry'[v][f] = Empty /\ chain'[v][f] = <<>>
      /\ \A w \in Volumes, g \in Files : w # v \/ g # f =>
            chain'[w][g] = chain[w][g] /\ entry'[w][g] = entry[w][g]
      /\ \A w \in Volumes : w # v => used'[w] = used[w]
      /\ used'[v] = (used[v] \ released) \cup taken
  BY <1>0, <1>1, <1>2
<1>4. VolumeShape'
  <2>1. /\ entry' \in [Volumes -> [Files -> [size : Int, rooted : BOOLEAN]]]
    BY <1>0, <1>1, <1>2 DEF Empty
  <2>2. chain' \in [Volumes -> [Files -> Seq(Clusters)]]
    BY <1>0, <1>1, <1>2, EmptySeq
  <2>3. used' \in [Volumes -> SUBSET Clusters]
    BY <1>0, <1>1, <1>2
  <2>4. data' = [w \in Volumes |-> data'[w]] /\ \A w \in Volumes : data'[w] \in [SectorsOf(w)' -> [1 .. SS -> Byte]]
    BY <1>0 DEF VolumeShape
  <2> QED
    BY <1>0, <2>1, <2>2, <2>3, <2>4 DEF VolumeShape
<1>5. ChainShape'
  <2> SUFFICES ASSUME NEW w \in Volumes, NEW g \in Files, NEW i \in DOMAIN chain'[w][g]
               PROVE  /\ chain'[w][g][i] \in used'[w]
                      /\ \A e \in Files : \A j \in DOMAIN chain'[w][e] :
                            chain'[w][g][i] = chain'[w][e][j] => g = e /\ i = j
    BY <1>0 DEF ChainShape
  <2>1. w # v \/ g # f
    BY <1>3
  <2>2. chain'[w][g] = chain[w][g]
    BY <1>3, <2>1
  <2>3. /\ chain[w][g][i] \in used[w]
        /\ \A e \in Files : \A j \in DOMAIN chain[w][e] : chain[w][g][i] = chain[w][e][j] => g = e /\ i = j
    BY <2>2 DEF ChainShape
  <2>4. ASSUME NEW e \in Files, NEW j \in DOMAIN chain'[w][e], chain'[w][g][i] = chain'[w][e][j]
        PROVE  g = e /\ i = j
    <3>1. w # v \/ e # f
      BY <1>3
    <3>2. chain'[w][e] = chain[w][e]
      BY <1>3, <3>1
    <3> QED
      BY <2>2, <2>3, <2>4, <3>2
  <2>5. w = v => chain[w][g][i] \notin released
    <3> SUFFICES ASSUME w = v, chain[w][g][i] \in released PROVE FALSE
      OBVIOUS
    <3>1. released \subseteq ToSet(chain[v][f])
      BY DEF v, f
    <3>2. PICK j \in DOMAIN chain[v][f] : chain[v][f][j] = chain[w][g][i]
      BY <3>1 DEF ToSet
    <3> QED
      BY <1>0, <2>1, <2>3, <3>2
  <2>6. chain'[w][g][i] \in used'[w]
    BY <1>3, <2>2, <2>3, <2>5
  <2> QED
    BY <2>4, <2>6
<1>6. EntryOk(entry'[v][f], host[f], csize[v], chain'[v][f], data'[v])
  BY <1>3 DEF EntryOk, Empty
<1>7. EntryShape'
  BY <1>0, <1>3, <1>4, <1>5, <1>6, OneFile
<1> QED
  BY <1>3, <1>4, <1>5, <1>7 DEF v, f

(* A name that a table has no room for never fits later.                   *)
Tightens == names' = names /\ \A v \in Volumes, f \in Files : NoRoom(v, f) => NoRoom(v, f)'

(* The names that are excused in the next state.                           *)
ExcusedThen(f) ==
    names[f].barred \/ (entry'[0][f] = Absent /\ room'[0] # Dynamic /\ room'[0] < names[f].need)
UnfitThen(f) ==
    entry'[0][f] # Absent /\ entry'[1][f] = Absent /\ room'[1] # Dynamic /\ room'[1] < names[f].need

LEMMA Then ==
    ASSUME names' = names
    PROVE  \A f : (Excused(f)' <=> ExcusedThen(f)) /\ (Unfit(f)' <=> UnfitThen(f))
BY DEF Excused, Unfit, ExcusedThen, UnfitThen, NoRoom, Absent, Dynamic

LEMMA StaysOut ==
    ASSUME Tightens, NEW f \in Files
    PROVE  /\ Excused(f) /\ entry'[0][f] = entry[0][f] => ExcusedThen(f)
           /\ Unfit(f) /\ entry'[0][f] = entry[0][f] /\ entry'[1][f] = entry[1][f] => UnfitThen(f)
BY DEF Tightens, Excused, Unfit, ExcusedThen, UnfitThen, NoRoom, Dynamic, Volumes

(* dir_register takes entries of the table of a directory.                 *)
LEMMA RoomTaken ==
    ASSUME HostShape, VolumeShape, UNCHANGED <<host, names>>, file \in Files, ~NoRoom(Target, file),
           NEW n \in 0 .. names[file].need, room' = Registered(n)
    PROVE  room' \in [Volumes -> Nat \cup {Dynamic}] /\ Tightens
<1> DEFINE t == Target
           left == IF room[t] = Dynamic THEN room[t] ELSE room[t] - n
<1>0. /\ t \in Volumes /\ room \in [Volumes -> Nat \cup {Dynamic}]
      /\ \A f \in Files : names[f].need \in Nat
      /\ Dynamic = -1 /\ Files' = Files /\ names' = names
  BY DEF Target, Volumes, HostShape, VolumeShape, Dynamic, Files
<1>1. room' = [room EXCEPT ![t] = left] /\ n \in Nat /\ n <= names[file].need
  BY <1>0 DEF Registered
<1>2. room[t] = Dynamic \/ (room[t] \in Nat /\ room[t] >= names[file].need)
  BY <1>0 DEF NoRoom
<1> HIDE DEF t
<1>3. /\ left \in Nat \cup {Dynamic} /\ (left = Dynamic <=> room[t] = Dynamic) /\ left <= room[t]
  BY <1>0, <1>1, <1>2
<1> HIDE DEF left
<1>4. room' \in [Volumes -> Nat \cup {Dynamic}] /\ room'[t] = left /\ \A v \in Volumes : v # t => room'[v] = room[v]
  BY <1>0, <1>1, <1>3
<1>5. ASSUME NEW v \in Volumes, NEW f \in Files, NoRoom(v, f) PROVE NoRoom(v, f)'
  <2>1. room[v] # Dynamic /\ room[v] < names[f].need /\ room[v] \in Int /\ names[f].need \in Int
    BY <1>0, <1>5 DEF NoRoom
  <2>2. room'[v] # Dynamic /\ room'[v] <= room[v] /\ room'[v] \in Int
    BY <1>0, <1>3, <1>4, <2>1
  <2>3. room'[v] < names[f].need
    BY <2>1, <2>2
  <2> QED
    BY <1>0, <2>2, <2>3 DEF NoRoom, Dynamic
<1> QED
  BY <1>0, <1>4, <1>5 DEF Tightens

(* Nothing is registered.                                                  *)
LEMMA RoomKept ==
    ASSUME UNCHANGED <<host, names, room>>
    PROVE  Tightens
BY DEF Tightens, NoRoom, Dynamic

(* A table that is stretched.                                              *)
LEMMA TableGrown ==
    ASSUME HostShape, VolumeShape, ChainShape, EntryShape, UNCHANGED <<host, names, csize, data, entry, chain>>,
           NEW taken, taken \subseteq Clusters, Grown({}, taken), room' \in [Volumes -> Nat \cup {Dynamic}]
    PROVE  VolumeShape' /\ ChainShape' /\ EntryShape'
<1>0. Target \in Volumes /\ Files' = Files /\ \A w \in Volumes : SectorsOf(w)' = SectorsOf(w)
  BY DEF Target, Volumes, Files, SectorsOf
<1>1. used \in [Volumes -> SUBSET Clusters] /\ used' = [used EXCEPT ![Target] = (@ \ {}) \cup taken]
  BY DEF VolumeShape, Grown
<1>2. used' \in [Volumes -> SUBSET Clusters] /\ \A w \in Volumes : used[w] \subseteq used'[w]
  BY <1>0, <1>1
<1>3. VolumeShape'
  BY <1>0, <1>2 DEF VolumeShape
<1>4. ChainShape'
  BY <1>0, <1>2 DEF ChainShape
<1>5. EntryShape'
  BY <1>0 DEF EntryShape
<1> QED
  BY <1>3, <1>4, <1>5

(* What a table may grow by.                                               *)
LEMMA Stretched ==
    ASSUME NEW taken \in Stretches
    PROVE  taken \subseteq Clusters
BY DEF Stretches, Free

(* create_chain gives a file a cluster that no file has.                   *)
LEMMA LinkedKept ==
    ASSUME HostShape, VolumeShape, ChainShape, UNCHANGED <<host, names, csize>>, NEW v \in Volumes, out.vol = v,
           file \in Files, NEW c \in Free(v), Linked(c)
    PROVE  /\ ChainShape' /\ c \in Clusters
           /\ chain' \in [Volumes -> [Files -> Seq(Clusters)]] /\ used' \in [Volumes -> SUBSET Clusters]
           /\ chain'[v][file] = Append(chain[v][file], c)
           /\ \A w \in Volumes, g \in Files : w # v \/ g # file => chain'[w][g] = chain[w][g]
<1> DEFINE f == file
<1>0. f \in Files /\ Files' = Files /\ c \in Clusters /\ c \notin used[v]
  BY DEF Files, Free
<1>1. /\ chain' = [chain EXCEPT ![v][f] = Append(@, c)]
      /\ used' = [used EXCEPT ![v] = @ \cup {c}]
  BY DEF Linked
<1> HIDE DEF f
<1>2. chain \in [Volumes -> [Files -> Seq(Clusters)]] /\ used \in [Volumes -> SUBSET Clusters]
  BY DEF VolumeShape
<1>3. /\ chain'[v][f] = Append(chain[v][f], c)
      /\ \A w \in Volumes, g \in Files : w # v \/ g # f => chain'[w][g] = chain[w][g]
      /\ \A w \in Volumes : w # v => used'[w] = used[w]
      /\ used'[v] = used[v] \cup {c}
  BY <1>0, <1>1, <1>2
<1>4. chain[v][f] \in Seq(Clusters)
  BY <1>0, <1>2
<1> DEFINE ch == chain[v][f]
           t == Append(ch, c)
<1>5. /\ t \in Seq(Clusters) /\ Len(ch) \in Nat /\ DOMAIN ch = 1 .. Len(ch) /\ DOMAIN t = 1 .. (Len(ch) + 1)
      /\ \A i \in 1 .. Len(ch) : t[i] = ch[i]
      /\ t[Len(ch) + 1] = c
  <2>1. ch \in Seq(Clusters) /\ c \in Clusters
    BY <1>0, <1>4
  <2> HIDE DEF ch
  <2>2. t \in Seq(Clusters) /\ Len(t) = Len(ch) + 1 /\ (\A i \in 1 .. Len(ch) : t[i] = ch[i]) /\ t[Len(ch) + 1] = c
    BY <2>1, AppendProperties
  <2> QED
    BY <2>1, <2>2, LenProperties
<1> HIDE DEF t, ch
<1>6. chain' \in [Volumes -> [Files -> Seq(Clusters)]] /\ used' \in [Volumes -> SUBSET Clusters]
  BY <1>0, <1>1, <1>2, <1>5 DEF t, ch
<1>7. ASSUME NEW w \in Volumes, NEW g \in Files, NEW i \in DOMAIN chain'[w][g]
      PROVE  \/ w = v /\ g = f /\ i = Len(ch) + 1 /\ chain'[w][g][i] = c
             \/ i \in DOMAIN chain[w][g] /\ chain'[w][g][i] = chain[w][g][i]
  <2>1. w = v /\ g = f => chain'[w][g] = t
    BY <1>3 DEF t, ch
  <2>2. CASE w # v \/ g # f
    <3>1. chain'[w][g] = chain[w][g]
      BY <1>3, <2>2
    <3> QED
      BY <3>1
  <2>3. CASE w = v /\ g = f
    <3>1. i \in 1 .. (Len(ch) + 1) /\ chain'[w][g][i] = t[i]
      BY <1>5, <2>1, <2>3
    <3>2. i = Len(ch) + 1 \/ i \in 1 .. Len(ch)
      BY <1>5, <3>1
    <3>3. CASE i = Len(ch) + 1
      BY <1>5, <2>3, <3>1, <3>3
    <3>4. CASE i \in 1 .. Len(ch)
      <4>1. i \in DOMAIN ch /\ chain'[w][g][i] = ch[i]
        BY <1>5, <3>1, <3>4
      <4> QED
        BY <2>3, <4>1 DEF ch
    <3> QED
      BY <3>2, <3>3, <3>4
  <2> QED
    BY <2>2, <2>3
<1>8. \A w \in Volumes, g \in Files : \A i \in DOMAIN chain[w][g] : chain[w][g][i] \in used[w]
  BY DEF ChainShape
<1>9. ChainShape'
  <2> SUFFICES ASSUME NEW w \in Volumes, NEW g \in Files, NEW i \in DOMAIN chain'[w][g]
               PROVE  /\ chain'[w][g][i] \in used'[w]
                      /\ \A e \in Files : \A j \in DOMAIN chain'[w][e] :
                            chain'[w][g][i] = chain'[w][e][j] => g = e /\ i = j
    BY <1>0 DEF ChainShape
  <2>1. chain'[w][g][i] \in used'[w]
    BY <1>3, <1>7, <1>8
  <2>2. ASSUME NEW e \in Files, NEW j \in DOMAIN chain'[w][e], chain'[w][g][i] = chain'[w][e][j]
        PROVE  g = e /\ i = j
    <3>1. \/ w = v /\ g = f /\ i = Len(ch) + 1 /\ chain'[w][g][i] = c
          \/ i \in DOMAIN chain[w][g] /\ chain'[w][g][i] = chain[w][g][i]
      BY <1>7
    <3>2. \/ w = v /\ e = f /\ j = Len(ch) + 1 /\ chain'[w][e][j] = c
          \/ j \in DOMAIN chain[w][e] /\ chain'[w][e][j] = chain[w][e][j]
      BY <1>7
    <3>3. i \in DOMAIN chain[w][g] /\ j \in DOMAIN chain[w][e] /\ chain[w][g][i] = chain[w][e][j] => g = e /\ i = j
      BY DEF ChainShape
    <3> QED
      BY <1>0, <1>8, <2>2, <3>1, <3>2, <3>3
  <2> QED
    BY <2>1, <2>2
<1> QED
  BY <1>0, <1>3, <1>6, <1>9 DEF f

-----------------------------------------------------------------------------
(* The invariant holds at the start.                                       *)
LEMMA InitInv == Init => IInv
<1> SUFFICES ASSUME Init PROVE IInv
  OBVIOUS
<1>0. cmd = "none" /\ pc = "idle" /\ full = FALSE /\ errs = 0
  BY DEF Init
<1>1. HostShape
  <2>1. PICK l \in Lengths : Len(l) = Len(names) /\ host = [f \in DOMAIN l |-> [i \in 1 .. l[f] |-> <<f, i>>]]
    BY DEF Init
  <2>2. l \in Seq(Nat) /\ l # <<>>
    BY LengthsAssumption
  <2>3. Len(l) \in Nat /\ DOMAIN l = 1 .. Len(l) /\ \A f \in DOMAIN l : l[f] \in Nat
    BY <2>2
  <2>4. Len(l) # 0
    BY <2>2, <2>3, EmptySeq
  <2>5. ASSUME NEW f \in 1 .. Len(l) PROVE host[f] \in Seq(Byte)
    <3>1. host[f] = [i \in 1 .. l[f] |-> <<f, i>>] /\ l[f] \in Nat /\ f \in Int
      BY <2>1, <2>3
    <3>2. \A i \in 1 .. l[f] : <<f, i>> \in Byte
      BY <3>1 DEF Byte
    <3> DEFINE n == l[f]
    <3>3. n \in Nat /\ host[f] = [i \in 1 .. n |-> <<f, i>>] /\ \A i \in 1 .. n : <<f, i>> \in Byte
      BY <3>1, <3>2
    <3> HIDE DEF n
    <3> QED
      BY <3>3
  <2>6. host = [f \in 1 .. Len(l) |-> host[f]]
    BY <2>1, <2>3
  <2>7. host \in Seq(Seq(Byte)) /\ Len(host) = Len(l)
    BY <2>3, <2>5, <2>6
  <2>8. host # <<>>
    BY <2>3, <2>4, <2>7, EmptySeq
  <2>9. csize \in [Volumes -> Nat \ {0}]
    BY SizesAssumption DEF Init
  <2>10. names \in [Files -> [need : Nat, barred : BOOLEAN]]
    <3>1. names \in Seq([need : Nat, barred : BOOLEAN])
      BY NamesAssumption DEF Init
    <3>2. names \in [1 .. Len(names) -> [need : Nat, barred : BOOLEAN]]
      BY <3>1, LenProperties
    <3>3. Files = 1 .. Len(names)
      BY <2>1, <2>6 DEF Files
    <3> QED
      BY <3>2, <3>3
  <2> QED
    BY <2>7, <2>8, <2>9, <2>10 DEF HostShape
<1>2. /\ \A v \in Volumes : data[v] = [s \in SectorsOf(v) |-> [b \in 1 .. SS |-> Garbage]]
      /\ \A v \in Volumes, f \in Files : entry[v][f] = Absent /\ chain[v][f] = <<>>
  BY DEF Init
<1>3. VolumeShape
  <2>1. Garbage \in Byte /\ Absent \in [size : Int, rooted : BOOLEAN] /\ <<>> \in Seq(Clusters)
    BY EmptySeq DEF Garbage, Byte, Absent
  <2>2. data = [v \in Volumes |-> data[v]]
    BY DEF Init
  <2>3. room \in [Volumes -> Nat \cup {Dynamic}]
    BY RoomsAssumption DEF Init
  <2> QED
    BY <1>2, <2>1, <2>2, <2>3 DEF VolumeShape, Init
<1>4. ChainShape /\ EntryShape
  <2>1. \A v \in Volumes, f \in Files : DOMAIN chain[v][f] = {} /\ ~entry[v][f].rooted
    BY <1>2 DEF Absent
  <2> QED
    BY <1>2, <2>1 DEF ChainShape, EntryShape, EntryOk
<1>5. ControlShape /\ OutShape /\ InShape /\ ChunkShape /\ AlignShape
  BY <1>0 DEF ControlShape, OutShape, InShape, ChunkShape, AlignShape, Copying
<1>6. GetShape /\ PutShape /\ RebuildShape
  BY <1>0, <1>2 DEF GetShape, PutShape, RebuildShape, Volumes
<1> QED
  BY <1>1, <1>3, <1>4, <1>5, <1>6 DEF IInv

-----------------------------------------------------------------------------
(* A command begins.                                                       *)
(* Between two files nothing is open.                                      *)
LEMMA Left ==
    ASSUME pc' \in {"idle", "open"}
    PROVE  OutShape' /\ InShape' /\ ChunkShape' /\ AlignShape'
BY DEF OutShape, InShape, ChunkShape, AlignShape, Copying

(* A command begins.                                                       *)
LEMMA BeginStep ==
    ASSUME IInv, NEW c \in {"put", "get", "rebuild"}, NEW f \in Files, Begin(c, f),
           c \in {"put", "rebuild"} => f = 1, cmd # "rebuild"
    PROVE  IInv'
<1> USE DEF IInv
<1>1. /\ pc = "idle" /\ cmd' = c /\ file' = f /\ pc' = "open"
      /\ hpos' = 0 /\ got' = <<>> /\ full' = FALSE
      /\ errs' = errs /\ entry' = entry /\ host' = host
      /\ UNCHANGED <<host, names, csize, volVars>>
  BY DEF Begin, volVars
<1>2. HostShape' /\ VolumeShape' /\ ChainShape' /\ EntryShape' /\ Files' = Files
  BY <1>1, VolumesKept DEF Files
<1>3. OutShape' /\ InShape' /\ ChunkShape' /\ AlignShape'
  BY <1>1, Left
<1>4. ControlShape'
  BY <1>1, <1>2 DEF ControlShape, Copying
<1>5. GetShape'
  <2>1. \A j \in 1 .. Len(got') : FALSE
    BY <1>1
  <2> QED
    BY <1>1, <2>1, EmptySeq DEF GetShape, Copying
<1>6. PutShape'
  <2>1. c = "put" => Cut(file)' = {}
    <3>1. c = "put" => \A x \in Files : ~(x < file')
      BY <1>1, FileType
    <3> QED
      BY <1>2, <3>1 DEF Cut
  <2>2. c = "put" => Cardinality(Cut(file)') = 0
    BY <2>1, FS_EmptySet
  <2>3. errs' \in Nat
    BY <1>1 DEF ControlShape
  <2> QED
    BY <1>1, <2>2, <2>3 DEF PutShape
<1>7. RebuildShape'
  <2>1. c = "rebuild" => \A x \in Files : ~(x < file')
    BY <1>1, FileType
  <2>2. \A x \in Files : entry[1][x] = Absent
    BY DEF RebuildShape
  <2> QED
    BY <1>1, <1>2, <2>1, <2>2 DEF RebuildShape
<1> QED
  BY <1>2, <1>3, <1>4, <1>5, <1>6, <1>7

-----------------------------------------------------------------------------
(* The copy of a file ends.                                                *)
LEMMA CutNext ==
    ASSUME HostShape, host' = host, Tightens, file \in Files, NEW n, n = file + 1,
           \A g \in Files : g # file => entry'[0][g] = entry[0][g]
    PROVE  /\ Cardinality(Cut(file)) \in Nat /\ Cardinality(Cut(n)') \in Nat
           /\ Cardinality(Cut(n)') <= Cardinality(Cut(file)) + 1
           /\ LengthOf(entry'[0][file]) = Len(host[file]) \/ ExcusedThen(file) =>
                 Cardinality(Cut(n)') <= Cardinality(Cut(file))
<1> DEFINE f == file
           Long(g) == ExcusedThen(g) \/ LengthOf(entry'[0][g]) = Len(host[g])
           A == Cut(f)
           B == {g \in Files : g < n /\ ~Long(g)}
<1>0. Files = 1 .. Len(host) /\ Len(host) \in Nat /\ f \in Files /\ n = f + 1 /\ Files' = Files
  BY FileType DEF Files
<1>11. \A g \in Files : Excused(g)' <=> ExcusedThen(g)
  BY Then DEF Tightens
<1>1. Cut(n)' = B
  <2>1. Cut(n)' = {g \in Files' : g < n /\ ~Excused(g)' /\ LengthOf(entry'[0][g]) # Len(host'[g])}
    BY DEF Cut, Length
  <2> QED
    BY <1>0, <1>11, <2>1
<1>2. A = {g \in Files : g < f /\ ~Excused(g) /\ Length(0, g) # Len(host[g])}
  BY DEF Cut
<1>3. \A g \in Files : g # f => (Excused(g) \/ Length(0, g) = Len(host[g]) => Long(g))
  <2> SUFFICES ASSUME NEW g \in Files, g # f, Excused(g) \/ Length(0, g) = Len(host[g]) PROVE Long(g)
    OBVIOUS
  <2>1. entry'[0][g] = entry[0][g]
    OBVIOUS
  <2>2. Excused(g) => ExcusedThen(g)
    BY <2>1, StaysOut
  <2> QED
    BY <2>1, <2>2 DEF Length
<1>4. B \subseteq A \cup {f} /\ (Long(f) => B \subseteq A)
  <2> HIDE DEF f, Long, A
  <2>1. \A g \in Files : g < n => g < f \/ g = f
    BY <1>0
  <2> QED
    BY <1>2, <1>3, <2>1
<1>5. IsFiniteSet(A)
  <2>1. IsFiniteSet(Files) /\ A \subseteq Files
    BY <1>0, <1>2, FS_Interval
  <2> QED
    BY <2>1, FS_Subset
<1>6. Cardinality(A) \in Nat /\ IsFiniteSet(A \cup {f}) /\ Cardinality(A \cup {f}) \in Nat
      /\ Cardinality(A \cup {f}) <= Cardinality(A) + 1
  <2> HIDE DEF A, f
  <2>1. /\ IsFiniteSet(A \cup {f})
        /\ Cardinality(A \cup {f}) = Cardinality(A) \/ Cardinality(A \cup {f}) = Cardinality(A) + 1
    BY <1>5, FS_AddElement
  <2> QED
    <3>1. Cardinality(A) \in Nat /\ Cardinality(A \cup {f}) \in Nat
      BY <1>5, <2>1, FS_CardinalityType
    <3> DEFINE p == Cardinality(A)
               q == Cardinality(A \cup {f})
    <3>2. p \in Nat /\ q \in Nat /\ (q = p \/ q = p + 1)
      BY <2>1, <3>1
    <3> HIDE DEF p, q
    <3>3. q <= p + 1
      BY <3>2
    <3>4. Cardinality(A \cup {f}) <= Cardinality(A) + 1
      BY <3>3 DEF p, q
    <3>5. IsFiniteSet(A \cup {f})
      BY <2>1, Zenon
    <3> QED
      BY <3>1, <3>4, <3>5, Zenon
<1> HIDE DEF A, B, f
<1>7. Cardinality(B) \in Nat /\ Cardinality(B) <= Cardinality(A \cup {f})
  BY <1>4, <1>6, FS_Subset, FS_CardinalityType
<1>8. Long(f) => Cardinality(B) <= Cardinality(A)
  BY <1>4, <1>5, FS_Subset
<1>9. Cardinality(B) <= Cardinality(A) + 1
  BY <1>6, <1>7
<1>10. LengthOf(entry'[0][f]) = Len(host[f]) \/ ExcusedThen(f) => Long(f)
  OBVIOUS
<1> QED
  BY <1>1, <1>6, <1>7, <1>8, <1>9, <1>10 DEF A, f

LEMMA CutLess ==
    ASSUME HostShape, host' = host, Cut(file)' \subseteq Cut(file)
    PROVE  /\ Cardinality(Cut(file)') \in Nat /\ Cardinality(Cut(file)) \in Nat
           /\ Cardinality(Cut(file)') <= Cardinality(Cut(file))
<1>1. Files = 1 .. Len(host) /\ Len(host) \in Nat
  BY DEF HostShape, Files
<1>2. IsFiniteSet(Files) /\ Cut(file) \subseteq Files
  BY <1>1, FS_Interval DEF Cut
<1>3. IsFiniteSet(Cut(file))
  BY <1>2, FS_Subset
<1> QED
  BY <1>3, FS_Subset, FS_CardinalityType

(* What has become of the file is accounted for.                           *)
LEMMA TurnEnds ==
    ASSUME IInv, HostShape', VolumeShape', ChainShape', EntryShape',
           UNCHANGED <<host, cmd>>, Tightens, full => full', full' \in BOOLEAN,
           ~lost' => ~lost /\ got' = got, pc # "idle", NextFile \/ End,
           errs' \in Nat, errs' >= errs,
           \A w \in Volumes, g \in Files : w # Target \/ g # file => entry'[w][g] = entry[w][g],
           cmd = "put" => NextFile,
           cmd = "put" /\ ~full' =>
               pc = "drop" \/ errs' >= errs + 1 \/ LengthOf(entry'[0][file]) = Len(host[file]) \/ ExcusedThen(file),
           cmd = "rebuild" /\ ~full' /\ errs' = 0 =>
               (NextFile /\ LengthOf(entry'[1][file]) = LengthOf(entry[0][file])) \/ UnfitThen(file),
           cmd = "get" => entry' = entry,
           cmd = "get" /\ res' = "ok" /\ ~lost' =>
               /\ got \in Seq(Byte) /\ Len(got) = Length(0, file)
               /\ \A j \in 1 .. Len(got) : got[j] = host[file][j]
    PROVE  IInv'
<1> USE DEF IInv
<1>0. /\ file \in Files /\ Files' = Files /\ host' = host /\ names' = names /\ cmd' = cmd /\ full \in BOOLEAN
      /\ cmd \in {"put", "get", "rebuild"} /\ errs \in Nat
  BY DEF ControlShape, Files, Tightens
<1>1. \/ pc' = "open" /\ file' = file + 1 /\ file + 1 \in Files /\ hpos' = 0 /\ cmd # "get"
      \/ pc' = "idle" /\ file' = file /\ (NextFile /\ cmd # "get" => file + 1 \notin Files)
  BY DEF NextFile, End, Cleared
<1>2. file \in Nat \ {0} /\ Files = 1 .. Len(host) /\ Len(host) \in Nat \ {0} /\ \A f \in Files : f \in Nat
  BY <1>0, FileType
<1>3. OutShape' /\ InShape' /\ ChunkShape' /\ AlignShape'
  BY <1>1, Left
<1>4. ControlShape'
  BY <1>0, <1>1 DEF ControlShape, Copying
<1>5. GetShape'
  BY <1>0, <1>1 DEF GetShape, Copying, Length
<1>6. PutShape'
  <2> SUFFICES ASSUME cmd = "put", ~full' PROVE PutShape'
    BY <1>0 DEF PutShape
  <2>0. ~full
    BY <1>0
  <2>1. PICK n : n = file + 1
    OBVIOUS
  <2>2. \A g \in Files : g # file => entry'[0][g] = entry[0][g]
    BY DEF Volumes
  <2>3. /\ Cardinality(Cut(file)) \in Nat /\ Cardinality(Cut(n)') \in Nat
        /\ Cardinality(Cut(n)') <= Cardinality(Cut(file)) + 1
        /\ LengthOf(entry'[0][file]) = Len(host[file]) \/ ExcusedThen(file) =>
              Cardinality(Cut(n)') <= Cardinality(Cut(file))
    BY <1>0, <2>1, <2>2, CutNext
  <2>4. Cardinality(Cut(file)) + (IF pc = "drop" THEN 1 ELSE 0) <= errs
    BY <2>0 DEF PutShape
  <2>5. Cardinality(Cut(n)') <= errs'
    <3> DEFINE p == Cardinality(Cut(file))
               q == Cardinality(Cut(n)')
    <3>1. /\ p \in Nat /\ q \in Nat /\ q <= p + 1 /\ p + (IF pc = "drop" THEN 1 ELSE 0) <= errs
          /\ LengthOf(entry'[0][file]) = Len(host[file]) \/ ExcusedThen(file) => q <= p
          /\ \/ pc = "drop" \/ errs' >= errs + 1
             \/ LengthOf(entry'[0][file]) = Len(host[file]) \/ ExcusedThen(file)
      BY <2>3, <2>4
    <3> HIDE DEF p, q
    <3>2. q <= errs'
      BY <1>0, <3>1
    <3> QED
      BY <3>2 DEF q
  <2>6. file' = n => Cut(file)' = Cut(n)'
    BY DEF Cut
  <2>7. Len(host') + 1 = n => Cut(Len(host) + 1)' = Cut(n)'
    BY DEF Cut
  <2>8. pc' = "open" => file' = n
    BY <1>1, <2>1
  <2>9. pc' = "idle" => Len(host') + 1 = n
    BY <1>0, <1>1, <1>2, <2>1
  <2> DEFINE q == Cardinality(Cut(file)')
  <2>10. CASE pc' = "open"
    <3>1. q \in Nat /\ q <= errs' /\ errs' \in Nat
      BY <2>3, <2>5, <2>6, <2>8, <2>10
    <3> HIDE DEF q
    <3>2. q + 0 <= errs'
      BY <3>1
    <3> QED
      BY <2>10, <3>2 DEF PutShape, q
  <2>11. CASE pc' = "idle"
    BY <2>5, <2>7, <2>9, <2>11 DEF PutShape
  <2> QED
    BY <1>1, <2>10, <2>11
<1>7. RebuildShape'
  <2>1. \A f \in Files : cmd # "rebuild" => entry'[1][f] = entry[1][f]
    BY <1>0 DEF Target, Volumes
  <2>2. CASE cmd # "rebuild"
    BY <1>0, <2>1, <2>2 DEF RebuildShape
  <2>3. CASE cmd = "rebuild"
    <3>1. \A f \in Files : entry'[0][f] = entry[0][f] /\ (f # file => entry'[1][f] = entry[1][f])
      BY <2>3 DEF Target, Volumes
    <3>2. \A f \in Files : f > file => entry'[1][f] = Absent
      BY <1>2, <2>3, <3>1 DEF RebuildShape
    <3>7. ASSUME NEW g \in Files, g # file, Unfit(g) PROVE UnfitThen(g)
      BY <3>1, <3>7, StaysOut
    <3>3. ASSUME errs' = 0, ~full', NEW f \in Files, pc' = "idle" \/ f < file'
          PROVE  LengthOf(entry'[1][f]) = LengthOf(entry'[0][f]) \/ \E g \in 1 .. f : UnfitThen(g)
      <4>1. errs = 0 /\ ~full
        BY <1>0, <3>3
      <4>2. CASE UnfitThen(file) /\ ~(f < file)
        <5>1. file \in 1 .. f
          BY <1>2, <4>2
        <5> QED
          BY <4>2, <5>1
      <4>3. CASE f < file
        <5>1. Length(1, f) = Length(0, f) \/ \E g \in 1 .. f : Unfit(g)
          BY <2>3, <4>1, <4>3 DEF RebuildShape
        <5>2. \A g \in 1 .. f : g \in Files /\ g # file
          BY <1>2, <4>3
        <5>3. f # file
          BY <1>2, <4>3
        <5>4. (\E g \in 1 .. f : Unfit(g)) => \E g \in 1 .. f : UnfitThen(g)
          BY <3>7, <5>2
        <5> QED
          BY <3>1, <5>1, <5>3, <5>4 DEF Length
      <4>4. CASE ~UnfitThen(file) /\ ~(f < file)
        <5>1. NextFile /\ LengthOf(entry'[1][file]) = LengthOf(entry[0][file])
          BY <2>3, <3>3, <4>4
        <5>2. f = file
          BY <1>0, <1>1, <1>2, <2>3, <3>3, <4>4, <5>1
        <5> QED
          BY <3>1, <5>1, <5>2
      <4> QED
        BY <4>2, <4>3, <4>4
    <3>4. pc' # "idle" => \A f \in Files : f > file' \/ f = file' => f > file
      BY <1>1, <1>2
    <3>5. (cmd = "rebuild" /\ errs = 0 /\ ~full =>
             \A f \in Files : pc = "idle" \/ f < file =>
                 Length(1, f) = Length(0, f) \/ \E g \in 1 .. f : Unfit(g))'
      <4>1. \A g : Unfit(g)' <=> UnfitThen(g)
        BY <1>0, Then
      <4> QED
        BY <1>0, <3>3, <4>1 DEF Length
    <3>6. (\A f \in Files : cmd # "rebuild" \/ (pc # "idle" /\ (f > file \/ (f = file /\ pc = "open")))
             => entry[1][f] = Absent)'
      BY <1>0, <2>3, <3>2, <3>4
    <3> QED
      BY <3>5, <3>6 DEF RebuildShape
  <2> QED
    BY <2>2, <2>3
<1> QED
  BY <1>3, <1>4, <1>5, <1>6, <1>7

(* A file is given up: put goes on, get fails, rebuild ends.               *)
LEMMA GivenUp ==
    ASSUME IInv, HostShape', VolumeShape', ChainShape', EntryShape',
           UNCHANGED <<host, cmd, got, lost, full>>, Tightens, pc # "idle", GiveUp,
           errs' = errs + 1 \/ (pc = "drop" /\ errs' = errs),
           \A w \in Volumes, g \in Files : w # Target \/ g # file => entry'[w][g] = entry[w][g],
           cmd = "get" => entry' = entry
    PROVE  IInv'
<1>1. errs \in Nat /\ (pc = "drop" => errs > 0) /\ full' \in BOOLEAN /\ (full => full') /\ (~lost' => ~lost /\ got' = got)
  BY DEF IInv, ControlShape
<1>2. errs' \in Nat /\ errs' >= errs /\ errs' # 0 /\ (pc = "drop" \/ errs' >= errs + 1)
  BY <1>1
<1>3. /\ NextFile \/ End
      /\ cmd = "put" => NextFile
      /\ cmd = "get" => res' # "ok"
  BY DEF GiveUp
<1> QED
  BY <1>1, <1>2, <1>3, TurnEnds

(* The entries stay as they are.                                           *)
LEMMA FrameEntry ==
    ASSUME UNCHANGED <<host, names, volVars>>
    PROVE  entry' = entry /\ chain' = chain /\ used' = used /\ data' = data /\ Tightens
           /\ \A w \in Volumes, g \in Files : w # Target \/ g # file => entry'[w][g] = entry[w][g]
BY DEF volVars, Tightens, NoRoom, Dynamic

LEMMA OpenSkipsStep == ASSUME IInv, OpenSkips PROVE IInv'
<1> USE DEF IInv
<1>1. /\ pc = "open" /\ Reads /\ entry[0][file] = Absent /\ NextFile
      /\ UNCHANGED <<host, names, csize, volVars, cmd, got, lost, full, res, errs>>
  BY DEF OpenSkips
<1>2. HostShape' /\ VolumeShape' /\ ChainShape' /\ EntryShape'
  BY <1>1, VolumesKept
<1>3. Tightens /\ entry' = entry /\ \A w \in Volumes, g \in Files : w # Target \/ g # file => entry'[w][g] = entry[w][g]
  BY <1>1, FrameEntry
<1>4. LengthOf(entry[0][file]) = 0
  BY <1>1 DEF LengthOf, Absent
<1>5. cmd = "rebuild" => LengthOf(entry[1][file]) = 0
  <2>1. cmd = "rebuild" => entry[1][file] = Absent
    BY <1>1 DEF RebuildShape, ControlShape
  <2> QED
    BY <2>1 DEF LengthOf, Absent
<1>6. cmd # "put" /\ errs' \in Nat /\ errs' >= errs
  BY <1>1 DEF Reads, ControlShape
<1>7. cmd = "get" => got = <<>>
  BY <1>1 DEF GetShape
<1>8. cmd = "get" => /\ got \in Seq(Byte) /\ Len(got) = Length(0, file)
                     /\ \A j \in 1 .. Len(got) : got[j] = host[file][j]
  <2>1. cmd = "get" => got \in Seq(Byte) /\ Len(got) = 0 /\ \A j \in 1 .. Len(got) : FALSE
    BY <1>7, EmptySeq
  <2> QED
    BY <1>4, <2>1 DEF Length
<1>9. /\ full' \in BOOLEAN /\ (full => full') /\ (~lost' => ~lost /\ got' = got)
      /\ UNCHANGED <<host, cmd>> /\ pc # "idle" /\ NextFile
  BY <1>1 DEF ControlShape
<1> QED
  BY <1>2, <1>3, <1>4, <1>5, <1>6, <1>8, <1>9, TurnEnds

LEMMA OpenFailsStep == ASSUME IInv, OpenFails PROVE IInv'
<1> USE DEF IInv
<1>1. /\ pc = "open" /\ errs' = errs + 1 /\ GiveUp
      /\ UNCHANGED <<host, names, csize, data, cmd, got, lost, full>>
  BY DEF OpenFails, Fault
<1>2. file \in Files
  BY <1>1 DEF ControlShape
<1>3. CASE UNCHANGED <<entry, chain, used, room>>
  <2>1. UNCHANGED volVars
    BY <1>1, <1>3 DEF volVars
  <2>2. HostShape' /\ VolumeShape' /\ ChainShape' /\ EntryShape'
    BY <1>1, <2>1, VolumesKept
  <2> QED
    BY <1>1, <2>1, <2>2, FrameEntry, GivenUp
<1>5. ASSUME cmd # "get", ~Refused, entry[Target][file] = Absent, NEW taken \in Stretches,
             NEW n \in 0 .. names[file].need, Grown({}, taken), room' = Registered(n), UNCHANGED <<entry, chain>>
      PROVE  IInv'
  <2>1. ~NoRoom(Target, file)
    BY <1>5 DEF Refused
  <2>2. room' \in [Volumes -> Nat \cup {Dynamic}] /\ Tightens
    BY <1>1, <1>2, <1>5, <2>1, RoomTaken
  <2>3. taken \subseteq Clusters
    BY <1>5, Stretched
  <2>4. VolumeShape' /\ ChainShape' /\ EntryShape'
    BY <1>1, <1>5, <2>2, <2>3, TableGrown
  <2>5. HostShape'
    BY <1>1 DEF HostShape, Files
  <2> QED
    BY <1>1, <1>5, <2>2, <2>4, <2>5, GivenUp
<1>4. ASSUME cmd # "get", entry[Target][file].rooted,
             NEW n \in 0 .. Len(chain[Target][file]) - 1, Created(ToSet(SubSeq(chain[Target][file], 1, n)), {})
      PROVE  IInv'
  <2> DEFINE ch == chain[Target][file]
             rel == ToSet(SubSeq(ch, 1, n))
  <2>1. rel \subseteq ToSet(ch)
    <3>1. Target \in Volumes
      BY DEF Target, Volumes
    <3>2. ch \in Seq(Clusters) /\ Len(ch) \in Nat /\ DOMAIN ch = 1 .. Len(ch)
      BY <1>2, <3>1, ChainType
    <3> HIDE DEF ch
    <3>3. n \in Nat /\ n <= Len(ch)
      BY <1>4, <3>2 DEF ch
    <3>4. SubSeq(ch, 1, n) = [i \in 1 .. n |-> ch[i]]
      BY <3>2, <3>3
    <3> QED
      BY <3>2, <3>3, <3>4 DEF ToSet
  <2>2. Created(rel, {})
    BY <1>4
  <2>5. room' = room
    <3>1. entry[Target][file] # Absent
      BY <1>4 DEF Absent
    <3> QED
      BY <1>4, <3>1 DEF Created
  <2>6. Tightens /\ room' \in [Volumes -> Nat \cup {Dynamic}]
    BY <1>1, <2>5, RoomKept DEF VolumeShape
  <2> HIDE DEF rel
  <2>3. /\ VolumeShape' /\ ChainShape' /\ EntryShape'
        /\ \A w \in Volumes, g \in Files : w # Target \/ g # file => entry'[w][g] = entry[w][g]
    BY <1>1, <1>2, <2>1, <2>2, <2>6, Emptied
  <2>4. HostShape'
    BY <1>1 DEF HostShape, Files
  <2> QED
    BY <1>1, <1>4, <2>3, <2>4, <2>6, GivenUp
<1> QED
  BY <1>3, <1>4, <1>5 DEF OpenFails

LEMMA OpenDeniedStep == ASSUME IInv, OpenDenied PROVE IInv'
<1> USE DEF IInv
<1>1. /\ pc = "open" /\ cmd # "get" /\ (Reads => entry[0][file] # Absent) /\ GiveUp
      /\ UNCHANGED <<host, names, csize, volVars, cmd, got, lost, errs>>
  BY DEF OpenDenied
<1>2. HostShape' /\ VolumeShape' /\ ChainShape' /\ EntryShape'
  BY <1>1, VolumesKept
<1>3. /\ entry' = entry /\ Tightens
      /\ \A w \in Volumes, g \in Files : w # Target \/ g # file => entry'[w][g] = entry[w][g]
  BY <1>1, FrameEntry
<1>4. file \in Files /\ errs' = errs /\ errs \in Nat /\ full \in BOOLEAN /\ cmd \in {"put", "get", "rebuild"}
  BY <1>1 DEF ControlShape
<1>5. (Refused /\ full' = full) \/ full' = TRUE
  BY DEF OpenDenied
<1>6. cmd = "put" /\ ~full' => ExcusedThen(file)
  <2> SUFFICES ASSUME cmd = "put", ~full' PROVE ExcusedThen(file)
    OBVIOUS
  <2>1. names[file].barred \/ (entry[0][file] = Absent /\ NoRoom(0, file))
    BY <1>5 DEF Refused, Target
  <2> QED
    BY <1>3, <1>4, <2>1, StaysOut DEF Excused
<1>7. cmd = "rebuild" /\ ~full' => UnfitThen(file)
  <2> SUFFICES ASSUME cmd = "rebuild", ~full' PROVE UnfitThen(file)
    OBVIOUS
  <2>1. entry[0][file] # Absent /\ entry[1][file] = Absent /\ NoRoom(1, file)
    BY <1>1, <1>5 DEF Refused, Target, Reads
  <2> QED
    BY <1>3, <1>4, <2>1, StaysOut DEF Unfit
<1>8. (NextFile \/ End) /\ (cmd = "put" => NextFile)
  BY <1>1 DEF GiveUp
<1>9. /\ full' \in BOOLEAN /\ (full => full') /\ UNCHANGED <<host, cmd>> /\ (~lost' => ~lost /\ got' = got)
      /\ errs' \in Nat /\ errs' >= errs /\ pc # "idle"
  <2>1. full' \in BOOLEAN /\ (full => full')
    BY <1>4, <1>5
  <2>2. UNCHANGED <<host, cmd>> /\ (~lost' => ~lost /\ got' = got) /\ pc # "idle"
    BY <1>1
  <2>3. errs' \in Nat /\ errs' >= errs
    BY <1>4
  <2> QED
    BY <2>1, <2>2, <2>3
<1> QED
  BY <1>1, <1>2, <1>3, <1>6, <1>7, <1>8, <1>9, TurnEnds

LEMMA FetchHostFailsStep == ASSUME IInv, FetchHostFails PROVE IInv'
<1> USE DEF IInv
<1>1. /\ pc = "fetch" /\ errs' = errs + 1 /\ GiveUp
      /\ UNCHANGED <<host, names, csize, volVars, cmd, got, lost, full>>
  BY DEF FetchHostFails, Fault
<1>2. HostShape' /\ VolumeShape' /\ ChainShape' /\ EntryShape'
  BY <1>1, VolumesKept
<1> QED
  BY <1>1, <1>2, FrameEntry, GivenUp

(* f_sync: a file never has more in its entry than it has on the image.    *)
LEMMA Synced ==
    ASSUME IInv, Copying, Writes, UNCHANGED <<host, names, csize, chain, used, room>>,
           UNCHANGED <<data, entry>> \/ (SyncData /\ (UNCHANGED entry \/ SyncEntry))
    PROVE  /\ HostShape' /\ VolumeShape' /\ ChainShape' /\ EntryShape'
           /\ \A w \in Volumes, g \in Files : w # Target \/ g # file => entry'[w][g] = entry[w][g]
           /\ SyncData /\ SyncEntry => LengthOf(entry'[Target][file]) = out.fsize
           /\ Tightens
<1> USE DEF IInv
<1> DEFINE v == Target
           f == file
           m == csize[v]
           ch == chain[v][f]
           b == ch # <<>>
           e == [size |-> out.fsize, rooted |-> b]
           d == Latest(out, data[v])
<1>0. /\ v \in Volumes /\ f \in Files /\ Files' = Files /\ m \in Nat \ {0}
      /\ \A w \in Volumes : SectorsOf(w)' = SectorsOf(w)
  BY DEF Copying, ControlShape, Target, Volumes, Files, SectorsOf, HostShape
<1>1. /\ out \in FilType(v) /\ entry[v][f] = Empty /\ out.fsize <= out.fptr /\ out.fptr <= Len(host[f])
      /\ out.fptr <= Room(m, ch) /\ Held(host[f], m, ch, d, out.fptr)
      /\ out.dirty => out.dsect \in Own(m, ch)
  BY DEF OutShape
<1>2. out.vol = v /\ out.fptr \in Nat /\ out.fsize \in Nat /\ out.dirty \in BOOLEAN /\ out.buf \in [1 .. SS -> Byte]
  BY <1>1, Zenon DEF FilType
<1>3. ch \in Seq(Clusters) /\ Len(ch) \in Nat /\ DOMAIN ch = 1 .. Len(ch)
  BY <1>0, ChainType
<1>4. /\ data = [w \in Volumes |-> data[w]]
      /\ \A w \in Volumes : data[w] \in [SectorsOf(w) -> [1 .. SS -> Byte]]
      /\ entry \in [Volumes -> [Files -> [size : Int, rooted : BOOLEAN]]]
  BY DEF VolumeShape
<1>5. Flushed(out) = d
  BY <1>2 DEF Flushed, Latest
<1>6. SyncData => data' = [data EXCEPT ![v] = d]
  BY <1>2, <1>5 DEF SyncData
<1>7. SyncEntry => entry' = [entry EXCEPT ![v][f] = e]
  BY <1>2 DEF SyncEntry
<1>8. b \in BOOLEAN /\ (b <=> ch # <<>>)
  OBVIOUS
<1> HIDE DEF v, f, m, ch, b, d
<1>18. e \in [size : Int, rooted : BOOLEAN] /\ e.size = out.fsize /\ e.rooted = b
  BY <1>2, <1>8
<1> HIDE DEF e
<1>9. d \in [SectorsOf(v) -> [1 .. SS -> Byte]] /\ \A t \in SectorsOf(v) : t \notin Own(m, ch) => d[t] = data[v][t]
  <2>1. data[v] \in [SectorsOf(v) -> [1 .. SS -> Byte]]
    BY <1>0, <1>4
  <2> QED
    BY <1>1, <1>2, <2>1 DEF d, Latest
<1>10. /\ EntryOk(e, host[f], m, ch, d) /\ EntryOk(Empty, host[f], m, ch, data[v]) /\ EntryOk(Empty, host[f], m, ch, d)
       /\ LengthOf(e) = out.fsize
  <2>1. Len(host[f]) \in Nat
    BY <1>0, FileType
  <2>2. Room(m, ch) \in Nat
    BY <1>0, <1>3, RoomIs
  <2>3. Held(host[f], m, ch, d, out.fsize)
    BY <1>0, <1>1, <1>2, <1>3, HeldLess
  <2>4. ch = <<>> => out.fsize = 0
    <3>1. ch = <<>> => Len(ch) = 0
      BY EmptySeq
    <3>2. Len(ch) = 0 => Room(m, ch) = 0
      BY <1>0, SizesAssumption DEF Room
    <3> QED
      BY <1>1, <1>2, <3>1, <3>2
  <2>5. ch = <<>> => e = Empty
    BY <1>8, <2>4 DEF e, Empty
  <2>6. e.rooted => e.size \in Nat /\ e.size <= Len(host[f]) /\ e.size <= Room(m, ch) /\ Held(host[f], m, ch, d, e.size)
    BY <1>1, <1>2, <1>18, <2>1, <2>2, <2>3
  <2>7. EntryOk(e, host[f], m, ch, d)
    BY <1>8, <1>18, <2>5, <2>6 DEF EntryOk
  <2> QED
    BY <1>8, <1>18, <2>4, <2>7 DEF EntryOk, Empty, LengthOf
<1>11. /\ data' = [w \in Volumes |-> data'[w]]
       /\ \A w \in Volumes : w # v => data'[w] = data[w]
       /\ data'[v] = data[v] \/ data'[v] = d
  BY <1>0, <1>4, <1>6
<1>12. /\ entry' \in [Volumes -> [Files -> [size : Int, rooted : BOOLEAN]]]
       /\ \A w \in Volumes, g \in Files : w # v \/ g # f => entry'[w][g] = entry[w][g]
       /\ entry'[v][f] = Empty \/ (entry'[v][f] = e /\ SyncData)
       /\ SyncEntry => entry'[v][f] = e
  <2>1. CASE SyncEntry /\ SyncData
    <3>1. entry' = [entry EXCEPT ![v][f] = e]
      BY <1>7, <2>1
    <3>2. entry' \in [Volumes -> [Files -> [size : Int, rooted : BOOLEAN]]]
      BY <1>0, <1>4, <1>18, <3>1
    <3>3. entry'[v][f] = e
      BY <1>0, <1>4, <3>1
    <3>4. \A w \in Volumes, g \in Files : w # v \/ g # f => entry'[w][g] = entry[w][g]
      BY <1>0, <1>4, <3>1
    <3> QED
      BY <2>1, <3>2, <3>3, <3>4, Zenon
  <2>2. CASE entry' = entry
    <3>1. SyncEntry => entry'[v][f] = e
      BY <1>0, <1>4, <1>7
    <3> QED
      BY <1>0, <1>1, <1>4, <2>2, <3>1
  <2> QED
    BY <2>1, <2>2
<1>13. SyncData => data'[v] = d
  BY <1>0, <1>4, <1>6
<1>14. HostShape' /\ VolumeShape'
  BY <1>0, <1>4, <1>9, <1>11, <1>12 DEF HostShape, VolumeShape
<1>15. ChainShape'
  BY <1>0 DEF ChainShape
<1>16. EntryOk(entry'[v][f], host[f], m, ch, data'[v])
  BY <1>10, <1>11, <1>12, <1>13
<1>17. EntryShape'
  <2>1. \A t \in SectorsOf(v) : t \notin Own(csize[v], chain'[v][f]) => data'[v][t] = data[v][t]
    BY <1>9, <1>11 DEF m, ch
  <2>2. EntryOk(entry'[v][f], host[f], csize[v], chain'[v][f], data'[v])
    BY <1>16 DEF m, ch
  <2>3. \A w \in Volumes, g \in Files : w # v \/ g # f => chain'[w][g] = chain[w][g] /\ entry'[w][g] = entry[w][g]
    BY <1>12
  <2> QED
    BY <1>0, <1>11, <1>14, <1>15, <2>1, <2>2, <2>3, OneFile
<1> QED
  BY <1>10, <1>12, <1>14, <1>15, <1>17, RoomKept DEF v, f

(* The size of a file that is read.                                        *)
LEMMA ReadLength ==
    ASSUME IInv, Copying, Reads
    PROVE  in.fptr \in Nat /\ in.fsize \in Nat /\ in.fptr <= in.fsize /\ LengthOf(entry[0][file]) = in.fsize
<1>1. in.fptr \in Nat /\ in.fsize \in Nat /\ in.fptr <= in.fsize /\ in.fsize = entry[0][file].size
  BY DEF IInv, InShape, FilType
<1>2. file \in Files
  BY DEF IInv, ControlShape, Copying
<1>3. ~entry[0][file].rooted => entry[0][file] \in {Absent, Empty}
  BY <1>2 DEF IInv, EntryShape, EntryOk, Volumes
<1>4. Absent.size = -1 /\ Empty.size = 0
  BY DEF Absent, Empty
<1> QED
  BY <1>1, <1>3, <1>4 DEF LengthOf

LEMMA CloseStep == ASSUME IInv, Close PROVE IInv'
<1> USE DEF IInv
<1>1. /\ pc = "close" /\ NextFile /\ Copying /\ file \in Files
      /\ IF cmd = "get" THEN UNCHANGED <<data, entry>> ELSE SyncData /\ SyncEntry
      /\ UNCHANGED <<host, names, csize, chain, used, room, cmd, got, lost, full, res, errs>>
      /\ cmd \in {"put", "get", "rebuild"} /\ errs \in Nat /\ full' \in BOOLEAN
  BY DEF Close, Copying, ControlShape
<1>2. CASE cmd = "get"
  <2>1. UNCHANGED volVars
    BY <1>1, <1>2 DEF volVars
  <2>2. HostShape' /\ VolumeShape' /\ ChainShape' /\ EntryShape'
    BY <1>1, <2>1, VolumesKept
  <2>3. ~lost => got \in Seq(Byte) /\ Len(got) = Length(0, file)
                 /\ \A j \in 1 .. Len(got) : got[j] = host[file][j]
    <3> SUFFICES ASSUME ~lost
                 PROVE  got \in Seq(Byte) /\ Len(got) = Length(0, file) /\ \A j \in 1 .. Len(got) : got[j] = host[file][j]
      OBVIOUS
    <3>1. got \in Seq(Byte) /\ Len(got) + Pending = in.fptr /\ \A j \in 1 .. Len(got) : got[j] = host[file][j]
      BY <1>1, <1>2 DEF GetShape
    <3>2. Pending = 0 /\ Reads
      BY <1>1, <1>2 DEF Pending, Reads
    <3>3. in.fptr = in.fsize
      BY <1>1, <3>2 DEF ChunkShape, Position, Total
    <3>4. Len(got) \in Nat
      BY <3>1, LenProperties
    <3>5. LengthOf(entry[0][file]) = in.fsize
      BY <1>1, <3>2, ReadLength
    <3> QED
      BY <3>1, <3>2, <3>3, <3>4, <3>5 DEF Length
  <2> QED
    BY <1>1, <1>2, <2>1, <2>2, <2>3, FrameEntry, TurnEnds
<1>3. CASE cmd # "get"
  <2>1. Writes /\ SyncData /\ SyncEntry
    BY <1>1, <1>3 DEF Writes
  <2>2. /\ HostShape' /\ VolumeShape' /\ ChainShape' /\ EntryShape'
        /\ \A w \in Volumes, g \in Files : w # Target \/ g # file => entry'[w][g] = entry[w][g]
        /\ LengthOf(entry'[Target][file]) = out.fsize /\ Tightens
    BY <1>1, <2>1, Synced
  <2>3. out.fsize = out.fptr /\ out.fptr \in Nat
    BY <1>1, <2>1 DEF OutShape, FilType
  <2>4. ~full => out.fptr = Position
    <3>1. ~full => out.fptr + Pending = Position
      BY <1>1, <2>1 DEF AlignShape
    <3> QED
      BY <1>1, <2>3, <3>1 DEF Pending
  <2>5. ~full => out.fsize = Total
    BY <1>1, <2>3, <2>4 DEF ChunkShape
  <2>6. cmd = "put" /\ ~full => LengthOf(entry'[0][file]) = Len(host[file])
    BY <2>2, <2>5 DEF Target, Total, Reads
  <2>7. cmd = "rebuild" /\ ~full => LengthOf(entry'[1][file]) = LengthOf(entry[0][file])
    <3>1. cmd = "rebuild" => LengthOf(entry[0][file]) = in.fsize
      BY <1>1, ReadLength DEF Reads
    <3> QED
      BY <2>2, <2>5, <3>1 DEF Target, Total, Reads
  <2> QED
    BY <1>1, <1>3, <2>2, <2>6, <2>7, TurnEnds
<1> QED
  BY <1>2, <1>3

(* What a failed f_sync may have done.                                     *)
LEMMA SyncFailed ==
    ASSUME SyncFails
    PROVE  errs' = errs + 1 /\ (UNCHANGED <<data, entry>> \/ (SyncData /\ (UNCHANGED entry \/ SyncEntry)))
BY DEF SyncFails, Fault

LEMMA CloseFailsStep == ASSUME IInv, CloseFails PROVE IInv'
<1> USE DEF IInv
<1>1. /\ pc = "close" /\ NextFile /\ Copying /\ cmd # "get" /\ SyncFails
      /\ UNCHANGED <<host, names, csize, chain, used, room, cmd, got, lost, full, res>>
      /\ cmd \in {"put", "get", "rebuild"} /\ errs \in Nat /\ full' \in BOOLEAN
  BY DEF CloseFails, Copying, ControlShape
<1>2. errs' = errs + 1 /\ (UNCHANGED <<data, entry>> \/ (SyncData /\ (UNCHANGED entry \/ SyncEntry)))
  BY <1>1, SyncFailed
<1>3. /\ HostShape' /\ VolumeShape' /\ ChainShape' /\ EntryShape'
      /\ \A w \in Volumes, g \in Files : w # Target \/ g # file => entry'[w][g] = entry[w][g]
      /\ Tightens
  BY <1>1, <1>2, Synced DEF Writes
<1>4. errs' \in Nat /\ errs' >= errs /\ errs' # 0 /\ errs' >= errs + 1
  BY <1>1, <1>2
<1> QED
  BY <1>1, <1>3, <1>4, TurnEnds

LEMMA HostCloseFailsStep == ASSUME IInv, HostCloseFails PROVE IInv'
<1> USE DEF IInv
<1>1. /\ pc = "close" /\ NextFile /\ cmd = "get" /\ errs' = errs + 1 /\ lost' = TRUE
      /\ UNCHANGED <<host, names, csize, volVars, cmd, full, res>>
      /\ errs \in Nat /\ full' \in BOOLEAN
  BY DEF HostCloseFails, HostTakes, Fault, ControlShape
<1>2. HostShape' /\ VolumeShape' /\ ChainShape' /\ EntryShape'
  BY <1>1, VolumesKept
<1>3. errs' \in Nat /\ errs' >= errs
  BY <1>1
<1> QED
  BY <1>1, <1>2, <1>3, FrameEntry, TurnEnds

LEMMA DropStep == ASSUME IInv, Drop PROVE IInv'
<1> USE DEF IInv
<1>1. /\ pc = "drop" /\ GiveUp /\ Copying /\ Writes
      /\ UNCHANGED <<host, names, csize, chain, used, room, cmd, got, lost, full>>
  BY DEF Drop, Copying, ControlShape
<1>2. /\ errs' = errs + 1 \/ errs' = errs
      /\ UNCHANGED <<data, entry>> \/ (SyncData /\ (UNCHANGED entry \/ SyncEntry))
  BY SyncFailed DEF Drop
<1>3. /\ HostShape' /\ VolumeShape' /\ ChainShape' /\ EntryShape'
      /\ \A w \in Volumes, g \in Files : w # Target \/ g # file => entry'[w][g] = entry[w][g]
      /\ Tightens
  BY <1>1, <1>2, Synced
<1>4. cmd # "get"
  BY <1>1 DEF Writes
<1> QED
  BY <1>1, <1>2, <1>3, <1>4, GivenUp

-----------------------------------------------------------------------------
(* The copy of a file begins.                                              *)
LEMMA OpenedAt ==
    ASSUME HostShape, NEW v \in Volumes, NEW size \in Nat, NEW fp, fp = Opened(v, size)
    PROVE  /\ fp \in FilType(v) /\ fp.vol = v /\ fp.fptr = 0 /\ fp.fsize = size /\ fp.csect = csize[v]
           /\ fp.dsect = NoSector /\ fp.dirty = FALSE /\ AtSector(fp)
           /\ \A ch : Placed(fp, csize[v], ch, 0)
<1> DEFINE m == csize[v]
<1>0. m \in Nat \ {0} /\ SS \in Nat \ {0}
  BY SizesAssumption DEF HostShape
<1>1. Garbage \in Byte
  BY DEF Garbage, Byte
<1>2. /\ fp.vol = v /\ fp.fptr = 0 /\ fp.fsize = size /\ fp.csect = m /\ fp.clust = 0
      /\ fp.dsect = NoSector /\ fp.dirty = FALSE /\ fp.buf = [b \in 1 .. SS |-> Garbage]
      /\ fp = [vol |-> v, fptr |-> 0, fsize |-> size, csect |-> m, clust |-> 0,
               dsect |-> NoSector, dirty |-> FALSE, buf |-> [b \in 1 .. SS |-> Garbage]]
  BY DEF Opened, Closed
<1>3. fp \in FilType(v)
  BY <1>0, <1>1, <1>2 DEF FilType, NoSector
<1>4. AtSector(fp)
  BY <1>0, <1>2 DEF AtSector
<1> HIDE DEF m
<1>5. Sect(m, 0, m) = 0 /\ Sect(m, 0, m - 1) = -1
  BY <1>0 DEF Sect
<1>6. Pos(m, 0, m, 0) = 0 /\ Pos(m, 0, m - 1, 0) = -SS
  BY <1>0, <1>5 DEF Pos
<1>7. \A ch : Placed(fp, m, ch, 0)
  BY <1>0, <1>2, <1>6 DEF Placed
<1> QED
  BY <1>2, <1>3, <1>4, <1>7 DEF m

LEMMA OpenStep == ASSUME IInv, Open PROVE IInv'
<1> USE DEF IInv
<1>0. /\ pc = "open" /\ file \in Files /\ cmd \in {"put", "get", "rebuild"} /\ hpos = 0
      /\ pc' = "fetch" /\ UNCHANGED <<host, names, csize, data, cmdVars, bufVars, res, errs>>
      /\ cmd' = cmd /\ file' = file /\ hpos' = 0 /\ got' = got /\ lost' = lost /\ full' = full
      /\ Files' = Files /\ host' = host /\ csize' = csize /\ Target \in Volumes /\ Copying'
  BY DEF Open, ControlShape, cmdVars, Files, Target, Volumes, Copying
<1>1. /\ Reads => entry[0][file] # Absent
      /\ in' = IF Reads THEN Opened(0, entry[0][file].size) ELSE Closed
      /\ cmd = "get" => UNCHANGED <<entry, chain, used, room, out>>
      /\ cmd # "get" => /\ ~Refused /\ out' = Opened(Target, 0)
                        /\ \E taken \in Stretches :
                              Created(IF entry[Target][file].rooted THEN ToSet(chain[Target][file]) ELSE {}, taken)
  BY DEF Open
<1>2. /\ HostShape' /\ VolumeShape' /\ ChainShape' /\ EntryShape'
      /\ \A w \in Volumes, g \in Files : w # Target \/ g # file =>
             chain'[w][g] = chain[w][g] /\ entry'[w][g] = entry[w][g]
      /\ cmd # "get" => entry'[Target][file] = Empty /\ chain'[Target][file] = <<>>
      /\ cmd = "get" => entry' = entry /\ chain' = chain
      /\ Tightens
  <2>1. CASE cmd = "get"
    <3>1. UNCHANGED volVars
      BY <1>0, <1>1, <2>1 DEF volVars
    <3> QED
      BY <1>0, <2>1, <3>1, VolumesKept, FrameEntry
  <2>2. CASE cmd # "get"
    <3> DEFINE rel == IF entry[Target][file].rooted THEN ToSet(chain[Target][file]) ELSE {}
    <3>1. PICK taken \in Stretches : Created(rel, taken)
      BY <1>1, <2>2
    <3>3. rel \subseteq ToSet(chain[Target][file]) /\ taken \subseteq Clusters
      BY Stretched
    <3> HIDE DEF rel
    <3>4. room' \in [Volumes -> Nat \cup {Dynamic}] /\ Tightens
      <4>1. CASE entry[Target][file] = Absent
        <5>1. ~NoRoom(Target, file)
          BY <1>1, <2>2, <4>1 DEF Refused
        <5>2. names[file].need \in 0 .. names[file].need /\ room' = Registered(names[file].need)
          BY <1>0, <3>1, <4>1 DEF HostShape, Created
        <5> QED
          BY <1>0, <5>1, <5>2, RoomTaken
      <4>2. CASE entry[Target][file] # Absent
        <5>1. room' = room
          BY <3>1, <4>2 DEF Created
        <5> QED
          BY <1>0, <5>1, RoomKept DEF VolumeShape
      <4> QED
        BY <4>1, <4>2
    <3>2. HostShape'
      BY <1>0 DEF HostShape, Files
    <3> QED
      BY <1>0, <2>2, <3>1, <3>2, <3>3, <3>4, Emptied
  <2> QED
    BY <2>1, <2>2
<1>3. ControlShape'
  BY <1>0 DEF ControlShape
<1>4. Reads => /\ entry'[0][file] = entry[0][file] /\ chain'[0][file] = chain[0][file]
               /\ entry[0][file].size \in Nat
  <2>1. Reads => entry'[0][file] = entry[0][file] /\ chain'[0][file] = chain[0][file]
    BY <1>0, <1>2 DEF Reads, Target, Volumes
  <2>2. Reads => entry[0][file].size \in Nat
    <3>1. EntryOk(entry[0][file], host[file], csize[0], chain[0][file], data[0])
      BY <1>0 DEF EntryShape, Volumes
    <3>2. Reads => entry[0][file].rooted \/ entry[0][file] = Empty
      BY <1>1, <3>1 DEF EntryOk
    <3> QED
      BY <3>1, <3>2 DEF EntryOk, Empty
  <2> QED
    BY <2>1, <2>2
<1>5. Reads => /\ in' \in FilType(0) /\ in'.fptr = 0 /\ in'.fsize = entry[0][file].size
               /\ in'.dsect = NoSector /\ AtSector(in') /\ \A ch : Placed(in', csize[0], ch, 0)
  BY <1>1, <1>4, OpenedAt DEF Volumes
<1>6. cmd # "get" => /\ out' \in FilType(Target) /\ out'.fptr = 0 /\ out'.fsize = 0 /\ out'.dirty = FALSE
                     /\ AtSector(out') /\ \A ch : Placed(out', csize[Target], ch, 0)
  <2> SUFFICES ASSUME cmd # "get" PROVE out' \in FilType(Target) /\ out'.fptr = 0 /\ out'.fsize = 0 /\ out'.dirty = FALSE
                     /\ AtSector(out') /\ \A ch : Placed(out', csize[Target], ch, 0)
    OBVIOUS
  <2> DEFINE v == Target
             fp == out'
  <2>1. v \in Volumes /\ fp = Opened(v, 0) /\ 0 \in Nat
    BY <1>0, <1>1
  <2> HIDE DEF v, fp
  <2>2. /\ fp \in FilType(v) /\ fp.fptr = 0 /\ fp.fsize = 0 /\ fp.dirty = FALSE
        /\ AtSector(fp) /\ \A ch : Placed(fp, csize[v], ch, 0)
    <3>1. HostShape
      OBVIOUS
    <3>2. fp \in FilType(v)
      BY <2>1, <3>1, OpenedAt
    <3>3. fp.fptr = 0 /\ fp.fsize = 0 /\ fp.dirty = FALSE
      BY <2>1 DEF Opened, Closed
    <3>4. AtSector(fp)
      BY <2>1, <3>1, OpenedAt
    <3>5. \A ch : Placed(fp, csize[v], ch, 0)
      BY <2>1, <3>1, OpenedAt
    <3> QED
      BY <3>2, <3>3, <3>4, <3>5
  <2> QED
    BY <2>2 DEF v, fp
<1>7. OutShape'
  <2> SUFFICES ASSUME cmd # "get" PROVE OutShape'
    BY <1>0 DEF OutShape, Writes
  <2> DEFINE v == Target
             ch == chain'[v][file]
             m == csize[v]
             h == host[file]
  <2>1. Target' = v /\ v \in Volumes /\ m \in Nat /\ ch = <<>>
    BY <1>0, <1>2 DEF Target, HostShape
  <2>2. Len(ch) = 0 /\ DOMAIN ch = {}
    BY <2>1, EmptySeq
  <2> HIDE DEF v, ch, m, h
  <2>3. Len(h) \in Nat
    BY <1>0, FileType DEF h
  <2>4. Room(m, ch) = 0
    BY <2>1, <2>2, SizesAssumption DEF Room
  <2>5. \A d : Held(h, m, ch, d, 0)
    BY <2>2 DEF Held
  <2>6. OutOk(out', m, ch)
    BY <1>6, <2>2 DEF OutOk, m, v
  <2>7. /\ out' \in FilType(v)
        /\ entry'[v][file] = Empty
        /\ out'.fsize <= out'.fptr /\ out'.fptr <= Len(h) /\ out'.fptr <= Room(m, ch)
        /\ Held(h, m, ch, Latest(out', data[v]), out'.fptr)
        /\ ~out'.dirty /\ out'.fsize = out'.fptr
    BY <1>2, <1>6, <2>3, <2>4, <2>5 DEF v
  <2> QED
    BY <1>0, <2>1, <2>6, <2>7 DEF OutShape, v, m, h, ch
<1>8. InShape'
  <2> SUFFICES ASSUME Reads PROVE InShape'
    BY <1>0 DEF InShape, Reads
  <2>1. Len(chain[0][file]) \in Nat
    BY <1>0, ChainType DEF Volumes
  <2>2. 0 \in 0 .. Len(chain'[0][file])
    BY <1>4, <2>1
  <2> QED
    BY <1>0, <1>4, <1>5, <2>2 DEF InShape
<1>9. Position' = 0 /\ Len(host[file]) \in Nat
  <2>1. Reads' = Reads
    BY <1>0 DEF Reads
  <2> QED
    BY <1>0, <1>5, <2>1, FileType DEF Position
<1>10. ChunkShape'
  BY <1>0, <1>9 DEF ChunkShape
<1>11. AlignShape'
  <2>1. Pending' = 0
    BY <1>0 DEF Pending
  <2> QED
    BY <1>0, <1>6, <1>9, <2>1 DEF AlignShape, Writes
<1>12. GetShape'
  <2> SUFFICES ASSUME cmd = "get" PROVE GetShape'
    BY <1>0 DEF GetShape
  <2>1. got = <<>>
    BY <1>0 DEF GetShape
  <2>2. got' \in Seq(Byte) /\ Len(got') = 0 /\ \A j \in 1 .. Len(got') : FALSE
    BY <1>0, <2>1, EmptySeq
  <2>3. Pending' = 0 /\ in'.fptr = 0
    BY <1>0, <1>5 DEF Pending, Reads
  <2> QED
    BY <1>0, <2>2, <2>3 DEF GetShape
<1>13. PutShape'
  <2> SUFFICES ASSUME cmd = "put", ~full PROVE PutShape'
    BY <1>0 DEF PutShape
  <2>1. Cut(file)' \subseteq Cut(file)
    <3>1. \A g \in Files : g < file => entry'[0][g] = entry[0][g]
      BY <1>0, <1>2, FileType DEF Volumes
    <3>2. \A g \in Files : g < file /\ Excused(g) => ExcusedThen(g)
      BY <1>2, <3>1, StaysOut
    <3>3. \A g : Excused(g)' <=> ExcusedThen(g)
      BY <1>2, Then DEF Tightens
    <3> QED
      BY <1>0, <3>1, <3>2, <3>3 DEF Cut, Length
  <2>2. Cardinality(Cut(file)') \in Nat /\ Cardinality(Cut(file)) \in Nat
        /\ Cardinality(Cut(file)') <= Cardinality(Cut(file))
    BY <1>0, <2>1, CutLess
  <2>3. Cardinality(Cut(file)) <= errs
    <3>1. Cardinality(Cut(file)) + 0 <= errs
      BY <1>0 DEF PutShape
    <3> QED
      BY <2>2, <3>1
  <2>4. Cardinality(Cut(file)') <= errs' /\ Cardinality(Cut(file)') + 0 <= errs'
    BY <1>0, <2>2, <2>3 DEF ControlShape
  <2> QED
    BY <1>0, <2>4 DEF PutShape
<1>14. RebuildShape'
  <2>1. \A g \in Files : g < file \/ g > file =>
            entry'[0][g] = entry[0][g] /\ entry'[1][g] = entry[1][g]
    BY <1>0, <1>2, FileType DEF Volumes
  <2>2. cmd # "rebuild" => \A g \in Files : entry'[1][g] = entry[1][g]
    BY <1>0, <1>2 DEF Target, Volumes
  <2>3. \A f \in Files : f < file => \A g \in 1 .. f : g \in Files /\ g < file
    BY <1>0, FileType
  <2>4. ASSUME NEW f \in Files, f < file, NEW g \in 1 .. f, Unfit(g) PROVE UnfitThen(g)
    <3>1. g \in Files /\ entry'[0][g] = entry[0][g] /\ entry'[1][g] = entry[1][g]
      BY <2>1, <2>3, <2>4
    <3> QED
      BY <1>2, <2>4, <3>1, StaysOut
  <2>5. (cmd = "rebuild" /\ errs = 0 /\ ~full =>
             \A f \in Files : pc = "idle" \/ f < file =>
                 Length(1, f) = Length(0, f) \/ \E g \in 1 .. f : Unfit(g))'
    <3> SUFFICES ASSUME cmd = "rebuild", errs = 0, ~full, NEW f \in Files, f < file
                 PROVE  (Length(1, f) = Length(0, f) \/ \E g \in 1 .. f : Unfit(g))'
      BY <1>0
    <3>1. Length(1, f) = Length(0, f) \/ \E g \in 1 .. f : Unfit(g)
      BY DEF RebuildShape
    <3>2. (\E g \in 1 .. f : Unfit(g)) => \E g \in 1 .. f : UnfitThen(g)
      BY <2>4
    <3>3. \A g : Unfit(g)' <=> UnfitThen(g)
      BY <1>2, Then DEF Tightens
    <3> QED
      BY <2>1, <3>1, <3>2, <3>3 DEF Length
  <2>6. (\A f \in Files : cmd # "rebuild" \/ (pc # "idle" /\ (f > file \/ (f = file /\ pc = "open")))
             => entry[1][f] = Absent)'
    BY <1>0, <2>1, <2>2 DEF RebuildShape
  <2> QED
    BY <2>5, <2>6 DEF RebuildShape
<1> QED
  BY <1>2, <1>3, <1>7, <1>8, <1>10, <1>11, <1>12, <1>13, <1>14

-----------------------------------------------------------------------------
(* The copy of a file goes on.                                             *)
LEMMA OutKept ==
    ASSUME IInv, Copying, Writes => pc # "drop", UNCHANGED <<host, names, csize, volVars, cmd, file, out>>,
           Writes /\ pc' \notin {"write", "drop"} => out.fsize = out.fptr
    PROVE  OutShape'
<1>1. /\ host' = host /\ csize' = csize /\ data' = data /\ entry' = entry /\ chain' = chain
      /\ cmd' = cmd /\ file' = file /\ out' = out
  BY DEF volVars
<1>2. /\ Target' = Target /\ Writes' = Writes /\ OutOk(out', csize'[Target'], chain'[Target'][file']) =
            OutOk(out, csize[Target], chain[Target][file])
  BY <1>1 DEF Target, Writes
<1> QED
  BY <1>1, <1>2 DEF IInv, OutShape

LEMMA InKept ==
    ASSUME IInv, Copying, UNCHANGED <<host, names, csize, volVars, cmd, file, in>>
    PROVE  InShape' /\ Total' = Total
<1>1. /\ host' = host /\ csize' = csize /\ data' = data /\ entry' = entry /\ chain' = chain
      /\ cmd' = cmd /\ file' = file /\ in' = in
  BY DEF volVars
<1>2. Reads' = Reads
  BY <1>1 DEF Reads
<1> QED
  BY <1>1, <1>2 DEF IInv, InShape, Total, SectorsOf

(* The files before the one being copied stay as they are.                 *)
LEMMA Counted ==
    ASSUME IInv, Copying, Copying', UNCHANGED <<host, names, cmd, file, entry, room>>, full => full',
           errs' \in Nat, errs' >= errs, pc' = "drop" => errs' >= errs + 1 \/ pc = "drop"
    PROVE  PutShape' /\ RebuildShape'
<1> USE DEF IInv
<1>1. /\ pc # "idle" /\ pc # "open" /\ pc' # "idle" /\ pc' # "open"
      /\ file \in Files /\ Files' = Files /\ errs \in Nat /\ full \in BOOLEAN
  BY DEF Copying, ControlShape, Files
<1>2. Cut(file)' = Cut(file) /\ Cardinality(Cut(file)) \in Nat
  <2>1. Cut(file)' = Cut(file)
    BY <1>1 DEF Cut, Length, Excused, NoRoom, Absent, Dynamic
  <2>2. Files = 1 .. Len(host) /\ Len(host) \in Nat
    BY <1>1, FileType
  <2>3. IsFiniteSet(Files) /\ Cut(file) \subseteq Files
    BY <2>2, FS_Interval DEF Cut
  <2>4. IsFiniteSet(Cut(file))
    BY <2>3, FS_Subset
  <2> QED
    BY <2>1, <2>4, FS_CardinalityType
<1>3. PutShape'
  <2> DEFINE p == Cardinality(Cut(file))
             q == Cardinality(Cut(file)')
  <2> SUFFICES ASSUME cmd = "put", ~full PROVE q + (IF pc' = "drop" THEN 1 ELSE 0) <= errs'
    BY <1>1 DEF PutShape
  <2>1. p \in Nat /\ q = p
    BY <1>2
  <2>2. p + (IF pc = "drop" THEN 1 ELSE 0) <= errs
    BY <1>1 DEF PutShape
  <2> HIDE DEF p, q
  <2> QED
    BY <1>1, <2>1, <2>2
<1>4. RebuildShape'
  BY <1>1 DEF RebuildShape, Length, Unfit, NoRoom, Absent, Dynamic
<1> QED
  BY <1>3, <1>4

LEMMA MinTwo ==
    ASSUME NEW a \in Int, NEW b \in Int
    PROVE  Min({a, b}) = IF a <= b THEN a ELSE b
<1>1. \E x \in {a, b} : \A y \in {a, b} : x <= y
  OBVIOUS
<1>2. Min({a, b}) \in {a, b} /\ \A y \in {a, b} : Min({a, b}) <= y
  BY <1>1 DEF Min
<1> QED
  BY <1>2

LEMMA NextChunkStep == ASSUME IInv, NextChunk PROVE IInv'
<1> USE DEF IInv
<1>1. /\ pc = "next" /\ pc' = (IF More THEN "fetch" ELSE "close") /\ Copying /\ Copying'
      /\ UNCHANGED <<host, names, csize, volVars, filVars, cmdVars, bufVars, res, errs>>
      /\ UNCHANGED <<in, out, cmd, file, hpos, got, lost, full, chunk, rest, entry, used, room>>
  BY DEF NextChunk, Copying, filVars, cmdVars, bufVars, volVars
<1>2. HostShape' /\ VolumeShape' /\ ChainShape' /\ EntryShape'
  BY <1>1, VolumesKept
<1>3. OutShape' /\ InShape' /\ Total' = Total
  BY <1>1, OutKept, InKept DEF OutShape
<1>4. PutShape' /\ RebuildShape'
  BY <1>1, Counted DEF ControlShape
<1>5. ControlShape'
  BY <1>1 DEF ControlShape, Copying, Files, Reads
<1>6. Position' = Position /\ Pending' = 0 /\ Pending = 0
  BY <1>1 DEF Position, Pending, Reads
<1>7. ChunkShape'
  BY <1>1, <1>3, <1>6 DEF ChunkShape, More, Reads
<1>8. AlignShape'
  BY <1>1, <1>6 DEF AlignShape, AtCluster, AtSector, Free, Target, Writes
<1>9. GetShape'
  BY <1>1, <1>6 DEF GetShape
<1> QED
  BY <1>2, <1>3, <1>4, <1>5, <1>7, <1>8, <1>9

LEMMA FetchHostStep == ASSUME IInv, FetchHost PROVE IInv'
<1> USE DEF IInv
<1>1. /\ pc = "fetch" /\ ~Reads /\ pc' = "write" /\ Copying /\ Copying' /\ file \in Files
      /\ chunk' = SubSeq(host[file], hpos + 1, Min({hpos + BufferSize, Len(host[file])}))
      /\ hpos' = hpos + Len(chunk') /\ rest' = chunk'
      /\ UNCHANGED <<host, names, csize, volVars, filVars, cmd, file, todo, got, lost, full, res, errs>>
      /\ UNCHANGED <<in, out, entry, used, room>>
      /\ cmd = "put"
  BY DEF FetchHost, Copying, filVars, volVars, ControlShape, Reads
<1>2. HostShape' /\ VolumeShape' /\ ChainShape' /\ EntryShape'
  BY <1>1, VolumesKept
<1>3. OutShape' /\ InShape' /\ Total' = Total
  BY <1>1, OutKept, InKept
<1>4. PutShape' /\ RebuildShape'
  BY <1>1, Counted DEF ControlShape
<1>5. ControlShape'
  BY <1>1 DEF ControlShape, Copying, Files, Writes
<1> DEFINE h == host[file]
           l == Len(h)
           to == Min({hpos + BufferSize, l})
           c == SubSeq(h, hpos + 1, to)
<1>6. h \in Seq(Byte) /\ l \in Nat /\ hpos \in Nat /\ hpos <= l /\ BufferSize \in Nat
  BY <1>1, FileType, SizesAssumption DEF ChunkShape
<1>7. to \in Nat /\ to >= hpos /\ to <= l /\ (to = hpos + BufferSize \/ to = l)
  <2>1. to = IF hpos + BufferSize <= l THEN hpos + BufferSize ELSE l
    <3>1. hpos + BufferSize \in Int /\ l \in Int
      BY <1>6
    <3> QED
      BY <3>1, MinTwo
  <2> HIDE DEF to, h, l
  <2> QED
    BY <1>6, <2>1
<1>8. c \in Seq(Byte) /\ Len(c) = to - hpos /\ \A j \in 1 .. (to - hpos) : c[j] = h[hpos + j]
  <2> HIDE DEF to, h
  <2>1. \A i \in (hpos + 1) .. to : h[i] \in Byte
    <3>1. \A i \in 1 .. l : h[i] \in Byte
      BY <1>6, ElementOfSeq
    <3> HIDE DEF l
    <3> QED
      BY <1>6, <1>7, <3>1
  <2>2. hpos + 1 \in Int /\ to \in Int
    BY <1>6, <1>7
  <2>3. /\ c \in Seq(Byte)
        /\ Len(c) = IF hpos + 1 <= to THEN to - (hpos + 1) + 1 ELSE 0
        /\ \A j \in 1 .. (to - (hpos + 1) + 1) : c[j] = h[(hpos + 1) + j - 1]
    BY <2>1, <2>2, SubSeqProperties
  <2>4. to - (hpos + 1) + 1 = to - hpos /\ (~(hpos + 1 <= to) => to - hpos = 0)
        /\ \A j \in 1 .. (to - hpos) : (hpos + 1) + j - 1 = hpos + j
    BY <1>6, <1>7
  <2> HIDE DEF c
  <2> QED
    BY <2>3, <2>4
<1>9. chunk' = c /\ rest' = c /\ hpos' = to
  <2>1. chunk' = c /\ rest' = c
    BY <1>1
  <2>2. hpos' = hpos + Len(chunk')
    BY <1>1
  <2> HIDE DEF to, c, h, l
  <2>3. hpos' = hpos + (to - hpos)
    BY <1>8, <2>1, <2>2
  <2>4. hpos' = to
    BY <1>6, <1>7, <2>3
  <2> QED
    BY <2>1, <2>4
<1> HIDE DEF to, c
<1>10. Position' = to /\ Position = hpos /\ Total' = l /\ Pending' = to - hpos /\ Pending = 0 /\ host'[file'] = h
  BY <1>1, <1>8, <1>9 DEF Position, Total, Pending, Reads
<1>11. Ends(chunk)' /\ Ends(rest)'
  <2>1. to - Len(c) = hpos
    BY <1>6, <1>7, <1>8
  <2> HIDE DEF h, l
  <2>2. c \in Seq(Byte) /\ Len(c) <= to /\ \A j \in 1 .. Len(c) : c[j] = h[to - Len(c) + j]
    BY <1>6, <1>7, <1>8, <2>1
  <2> QED
    BY <1>9, <1>10, <2>2 DEF Ends
<1>12. Len(chunk') = BufferSize \/ Position' = Total'
  <2> HIDE DEF h, l
  <2> QED
    BY <1>6, <1>7, <1>8, <1>9, <1>10
<1>13. ChunkShape'
  BY <1>1, <1>6, <1>7, <1>9, <1>10, <1>11, <1>12 DEF ChunkShape, Reads
<1>14. AlignShape'
  <2>1. out.fptr \in Nat /\ Target' = Target /\ Free(Target)' = Free(Target) /\ Writes
    BY <1>1 DEF OutShape, FilType, Target, Writes, Free
  <2>2. out.fptr + 0 = hpos \/ (full /\ AtCluster(out) /\ Free(Target) = {})
    BY <1>1, <1>10, <2>1 DEF AlignShape
  <2>3. AtCluster(out)' = AtCluster(out)
    BY <1>1 DEF AtCluster, AtSector
  <2> HIDE DEF h, l
  <2>4. out.fptr + 0 = hpos => out.fptr + (to - hpos) = to
    BY <1>6, <1>7, <2>1
  <2> QED
    BY <1>1, <1>10, <2>1, <2>2, <2>3, <2>4 DEF AlignShape
<1>15. GetShape'
  BY <1>1 DEF GetShape
<1> QED
  BY <1>2, <1>3, <1>4, <1>5, <1>13, <1>14, <1>15

LEMMA FetchFileStep == ASSUME IInv, FetchFile PROVE IInv'
<1> USE DEF IInv
<1>1. /\ pc = "fetch" /\ Reads /\ pc' = "read" /\ Copying /\ Copying' /\ file \in Files
      /\ chunk' = <<>> /\ todo' = Min({BufferSize, in.fsize - in.fptr})
      /\ UNCHANGED <<host, names, csize, volVars, filVars, cmdVars, rest, res, errs>>
      /\ UNCHANGED <<in, out, entry, used, room, cmd, file, hpos, got, lost, full>>
  BY DEF FetchFile, Copying, filVars, volVars, cmdVars, ControlShape
<1>2. HostShape' /\ VolumeShape' /\ ChainShape' /\ EntryShape'
  BY <1>1, VolumesKept
<1>3. OutShape' /\ InShape' /\ Total' = Total
  BY <1>1, OutKept, InKept DEF OutShape
<1>4. PutShape' /\ RebuildShape'
  BY <1>1, Counted DEF ControlShape
<1>5. ControlShape'
  BY <1>1 DEF ControlShape, Copying, Files, Reads
<1>6. in.fptr \in Nat /\ in.fsize \in Nat /\ in.fptr <= in.fsize /\ BufferSize \in Nat
  BY <1>1, ReadLength, SizesAssumption
<1>7. todo' = IF BufferSize <= in.fsize - in.fptr THEN BufferSize ELSE in.fsize - in.fptr
  BY <1>1, <1>6, MinTwo
<1>8. Position' = in.fptr /\ Position = in.fptr /\ Pending = 0 /\ Reads'
  BY <1>1 DEF Position, Pending, Reads
<1>9. Len(chunk') = 0 /\ Pending' = 0
  BY <1>1, EmptySeq DEF Pending
<1>10. Ends(chunk)'
  <2>1. chunk' \in Seq(Byte) /\ \A j \in 1 .. Len(chunk') : FALSE
    BY <1>1, <1>9, EmptySeq
  <2> QED
    BY <1>6, <1>8, <1>9, <2>1 DEF Ends
<1>11. todo' \in Nat /\ in.fptr + todo' <= in.fsize /\ (0 + todo' = BufferSize \/ in.fptr + todo' = in.fsize)
  BY <1>6, <1>7
<1>12. ChunkShape'
  BY <1>1, <1>8, <1>9, <1>10, <1>11 DEF ChunkShape
<1>13. AlignShape'
  BY <1>1, <1>8, <1>9 DEF AlignShape, AtCluster, AtSector, Free, Target, Writes
<1>14. GetShape'
  BY <1>1, <1>8, <1>9 DEF GetShape
<1> QED
  BY <1>2, <1>3, <1>4, <1>5, <1>12, <1>13, <1>14

LEMMA ReadFailsStep == ASSUME IInv, ReadFails PROVE IInv'
<1> USE DEF IInv
<1>1. /\ pc = "read" /\ Copying /\ file \in Files /\ Reads /\ errs' = errs + 1 /\ errs \in Nat
      /\ UNCHANGED <<host, names, csize, volVars, cmd, got, lost, full>>
  BY DEF ReadFails, Copying, ControlShape, Fault
<1>2. HostShape' /\ VolumeShape' /\ ChainShape' /\ EntryShape'
  BY <1>1, VolumesKept
<1>3. CASE cmd = "rebuild"
  <2>1. /\ pc' = "drop" /\ Copying' /\ UNCHANGED <<in, out, file, hpos, entry, room>>
    BY <1>1, <1>3 DEF ReadFails, Copying, filVars, volVars
  <2>2. OutShape' /\ InShape'
    BY <1>1, <2>1, OutKept, InKept
  <2>3. errs' \in Nat /\ errs' >= errs + 1 /\ errs' >= errs /\ errs' > 0
    BY <1>1
  <2>4. PutShape' /\ RebuildShape'
    BY <1>1, <2>1, <2>3, Counted
  <2>5. ControlShape'
    BY <1>1, <1>3, <2>1, <2>3 DEF ControlShape, Files, Writes, Reads, Copying
  <2>6. ChunkShape' /\ AlignShape' /\ GetShape'
    BY <1>1, <1>3, <2>1 DEF ChunkShape, AlignShape, GetShape, Reads
  <2> QED
    BY <1>2, <2>2, <2>4, <2>5, <2>6
<1>4. CASE cmd # "rebuild"
  <2>1. GiveUp
    BY <1>4 DEF ReadFails
  <2> QED
    BY <1>1, <1>2, <2>1, FrameEntry, GivenUp
<1> QED
  BY <1>3, <1>4

(* f_read has done what it was asked for.                                  *)
LEMMA ReadEnds ==
    ASSUME IInv, pc = "read", todo = 0, cmd = "get" => pc' = "next" /\ UNCHANGED rest,
           cmd # "get" => pc' = "write" /\ rest' = chunk,
           UNCHANGED <<host, names, csize, volVars, filVars, cmd, file, hpos, chunk, todo, full>>,
           errs' \in Nat, errs' >= errs
    PROVE  /\ HostShape' /\ VolumeShape' /\ ChainShape' /\ EntryShape'
           /\ ControlShape' /\ OutShape' /\ InShape' /\ ChunkShape' /\ AlignShape'
           /\ PutShape' /\ RebuildShape'
           /\ Reads /\ in.fptr \in Nat /\ Pending = Len(chunk)
           /\ Len(chunk) \in Nat /\ Len(chunk) <= in.fptr /\ chunk \in Seq(Byte)
           /\ \A j \in 1 .. Len(chunk) : chunk[j] = host[file][in.fptr - Len(chunk) + j]
<1> USE DEF IInv
<1>1. /\ pc = "read" /\ todo = 0 /\ Reads /\ Copying /\ Copying' /\ file \in Files
      /\ cmd = "get" => pc' = "next" /\ UNCHANGED rest
      /\ cmd # "get" => pc' = "write" /\ rest' = chunk
      /\ UNCHANGED <<host, names, csize, volVars, filVars, cmd, file, hpos, chunk, todo, full>>
      /\ UNCHANGED <<in, out, entry, used, room>>
  BY DEF Copying, filVars, volVars, ControlShape
<1>2. HostShape' /\ VolumeShape' /\ ChainShape' /\ EntryShape'
  BY <1>1, VolumesKept
<1>3. OutShape' /\ InShape' /\ Total' = Total
  BY <1>1, OutKept, InKept DEF OutShape
<1>4. PutShape' /\ RebuildShape'
  BY <1>1, Counted DEF ControlShape
<1>5. ControlShape'
  BY <1>1 DEF ControlShape, Copying, Files, Reads, Writes
<1>6. /\ in.fptr \in Nat /\ in.fsize \in Nat /\ Ends(chunk)
      /\ Len(chunk) + todo = BufferSize \/ in.fptr + todo = in.fsize
  BY <1>1, ReadLength DEF ChunkShape
<1>7. Position' = in.fptr /\ Position = in.fptr /\ Total = in.fsize /\ Pending = Len(chunk) /\ Reads'
  BY <1>1 DEF Position, Pending, Reads, Total
<1>8. Len(chunk) \in Nat /\ Len(chunk) <= in.fptr /\ chunk \in Seq(Byte)
      /\ \A j \in 1 .. Len(chunk) : chunk[j] = host[file][in.fptr - Len(chunk) + j]
  <2>1. chunk \in Seq(Byte)
    BY <1>6 DEF Ends
  <2>2. Len(chunk) \in Nat
    BY <2>1, LenProperties
  <2> QED
    BY <1>6, <1>7, <2>1, <2>2 DEF Ends
<1>9. Ends(chunk)' /\ (pc' = "write" => Ends(rest)')
  BY <1>1, <1>6, <1>7 DEF Ends
<1>10. Len(chunk') = BufferSize \/ Position' = Total'
  BY <1>1, <1>3, <1>6, <1>7, <1>8
<1>11. ChunkShape'
  BY <1>1, <1>7, <1>9, <1>10 DEF ChunkShape
<1>12. AlignShape'
  <2>1. pc' = "write" => Pending' = Len(chunk)
    BY <1>1 DEF Pending
  <2> QED
    BY <1>1, <1>7, <2>1 DEF AlignShape, AtCluster, AtSector, Free, Target, Writes
<1> QED
  BY <1>1, <1>2, <1>3, <1>4, <1>5, <1>6, <1>7, <1>8, <1>11, <1>12

LEMMA ReadDoneStep == ASSUME IInv, ReadDone PROVE IInv'
<1> USE DEF IInv
<1>1. /\ pc = "read" /\ todo = 0 /\ Copying /\ Copying'
      /\ cmd = "get" => pc' = "next" /\ got' = got \o chunk /\ UNCHANGED rest
      /\ cmd # "get" => pc' = "write" /\ rest' = chunk /\ UNCHANGED got
      /\ UNCHANGED <<host, names, csize, volVars, filVars, cmd, file, hpos, lost, chunk, todo, full, res, errs>>
      /\ UNCHANGED <<in, out>> /\ errs' \in Nat /\ errs' >= errs
  BY DEF ReadDone, Copying, filVars, ControlShape
<1>2. /\ HostShape' /\ VolumeShape' /\ ChainShape' /\ EntryShape'
      /\ ControlShape' /\ OutShape' /\ InShape' /\ ChunkShape' /\ AlignShape'
      /\ PutShape' /\ RebuildShape'
      /\ Reads /\ in.fptr \in Nat /\ Pending = Len(chunk)
      /\ Len(chunk) \in Nat /\ Len(chunk) <= in.fptr /\ chunk \in Seq(Byte)
      /\ \A j \in 1 .. Len(chunk) : chunk[j] = host[file][in.fptr - Len(chunk) + j]
  BY <1>1, ReadEnds
<1>3. GetShape'
  <2> SUFFICES ASSUME cmd = "get", ~lost PROVE GetShape'
    BY <1>1 DEF GetShape
  <2>1. /\ got \in Seq(Byte) /\ Len(got) + Len(chunk) = in.fptr
        /\ \A j \in 1 .. Len(got) : got[j] = host[file][j]
    BY <1>1, <1>2 DEF GetShape
  <2>2. Len(got) \in Nat
    BY <2>1, LenProperties
  <2>3. /\ got \o chunk \in Seq(Byte) /\ Len(got \o chunk) = Len(got) + Len(chunk)
        /\ \A j \in 1 .. (Len(got) + Len(chunk)) :
              (got \o chunk)[j] = IF j <= Len(got) THEN got[j] ELSE chunk[j - Len(got)]
    BY <1>2, <2>1, ConcatProperties
  <2> DEFINE g2 == got \o chunk
             lg == Len(got)
             lc == Len(chunk)
             h == host[file]
  <2>4. /\ g2 \in Seq(Byte) /\ Len(g2) = lg + lc /\ lg \in Nat /\ lc \in Nat /\ lg + lc = in.fptr
        /\ \A j \in 1 .. (lg + lc) : g2[j] = IF j <= lg THEN got[j] ELSE chunk[j - lg]
        /\ \A j \in 1 .. lg : got[j] = h[j]
        /\ \A j \in 1 .. lc : chunk[j] = h[in.fptr - lc + j]
    BY <1>2, <2>1, <2>2, <2>3
  <2> HIDE DEF g2, lg, lc, h
  <2>5. ASSUME NEW j \in 1 .. Len(g2) PROVE g2[j] = h[j]
    <3>1. CASE j <= lg
      BY <2>4, <2>5, <3>1
    <3>2. CASE ~(j <= lg)
      <4>1. j - lg \in 1 .. lc /\ in.fptr - lc + (j - lg) = j
        BY <1>2, <2>4, <2>5, <3>2
      <4>2. g2[j] = chunk[j - lg]
        BY <2>4, <2>5, <3>2
      <4>3. chunk[j - lg] = h[in.fptr - lc + (j - lg)]
        BY <2>4, <4>1
      <4> QED
        BY <4>1, <4>2, <4>3
    <3> QED
      BY <3>1, <3>2
  <2>6. got' = g2 /\ Pending' = 0 /\ in' = in /\ pc' = "next" /\ host'[file'] = h
    BY <1>1 DEF Pending, g2, h
  <2> QED
    BY <1>2, <2>4, <2>5, <2>6 DEF GetShape
<1> QED
  BY <1>2, <1>3

LEMMA HostWriteFailsStep == ASSUME IInv, HostWriteFails PROVE IInv'
<1> USE DEF IInv
<1>1. /\ pc = "read" /\ todo = 0 /\ cmd = "get" /\ pc' = "next" /\ lost' = TRUE
      /\ UNCHANGED <<host, names, csize, volVars, filVars, cmd, file, hpos, chunk, todo, rest, full>>
      /\ errs' \in Nat /\ errs' >= errs
  BY DEF HostWriteFails, HostTakes, Fault, ControlShape, bufVars
<1>2. /\ HostShape' /\ VolumeShape' /\ ChainShape' /\ EntryShape'
      /\ ControlShape' /\ OutShape' /\ InShape' /\ ChunkShape' /\ AlignShape'
      /\ PutShape' /\ RebuildShape'
  BY <1>1, ReadEnds
<1>3. GetShape'
  BY <1>1 DEF GetShape
<1> QED
  BY <1>2, <1>3

LEMMA WriteStopsStep == ASSUME IInv, WriteStops PROVE IInv'
<1> USE DEF IInv
<1>1. /\ pc = "write" /\ AtCluster(out) /\ Free(out.vol) = {} /\ Copying /\ Copying' /\ file \in Files /\ Writes
      /\ full' = TRUE /\ rest' = <<>> /\ pc' = "write"
      /\ UNCHANGED <<host, names, csize, volVars, filVars, cmd, file, hpos, got, lost, pc, chunk, todo, res, errs>>
      /\ UNCHANGED <<in, out, entry, used, room>>
  BY DEF WriteStops, Copying, filVars, volVars, ControlShape
<1>2. HostShape' /\ VolumeShape' /\ ChainShape' /\ EntryShape'
  BY <1>1, VolumesKept
<1>3. OutShape' /\ InShape' /\ Total' = Total
  BY <1>1, OutKept, InKept DEF OutShape
<1>4. PutShape' /\ RebuildShape'
  BY <1>1, Counted DEF ControlShape
<1>5. ControlShape'
  BY <1>1 DEF ControlShape, Copying, Files, Reads, Writes
<1>6. Position' = Position /\ Position \in Nat
  <2>1. Reads => in.fptr \in Nat
    BY <1>1, ReadLength
  <2> QED
    BY <1>1, <2>1 DEF Position, Reads, ChunkShape
<1>7. Ends(rest)' /\ Ends(chunk)'
  <2>1. rest' \in Seq(Byte) /\ Len(rest') = 0
    BY <1>1, EmptySeq
  <2>2. Ends(rest)'
    BY <1>6, <2>1 DEF Ends
  <2> QED
    BY <1>1, <1>6, <2>2 DEF Ends, ChunkShape
<1>8. ChunkShape'
  BY <1>1, <1>3, <1>6, <1>7 DEF ChunkShape, Reads
<1>9. AlignShape'
  <2>1. out.vol = Target /\ Target' = Target
    BY <1>1 DEF OutShape, FilType, Target
  <2> QED
    BY <1>1, <2>1 DEF AlignShape, AtCluster, AtSector, Free
<1>10. GetShape'
  BY <1>1 DEF GetShape, Writes
<1> QED
  BY <1>2, <1>3, <1>4, <1>5, <1>8, <1>9, <1>10

LEMMA WriteDoneStep == ASSUME IInv, WriteDone PROVE IInv'
<1> USE DEF IInv
<1>1. /\ pc = "write" /\ rest = <<>> /\ pc' = "next" /\ Copying /\ Copying' /\ file \in Files /\ Writes /\ Writes'
      /\ out' = [out EXCEPT !.fsize = out.fptr] /\ Target' = Target /\ Target \in Volumes
      /\ UNCHANGED <<host, names, csize, volVars, in, cmdVars, bufVars, res, errs>>
      /\ UNCHANGED <<cmd, file, hpos, got, lost, full, chunk, todo, rest, data, entry, chain, used, room>>
  BY DEF WriteDone, Copying, volVars, cmdVars, bufVars, ControlShape, Target, Volumes, Writes
<1>2. HostShape' /\ VolumeShape' /\ ChainShape' /\ EntryShape'
  BY <1>1, VolumesKept
<1>3. InShape' /\ Total' = Total
  BY <1>1, InKept
<1>4. PutShape' /\ RebuildShape'
  BY <1>1, Counted DEF ControlShape
<1>5. ControlShape'
  BY <1>1 DEF ControlShape, Copying, Files, Reads, Writes
<1> DEFINE m == csize[Target]
           ch == chain[Target][file]
           h == host[file]
           d == data[Target]
<1>6. /\ out \in FilType(Target) /\ entry[Target][file] = Empty /\ out.fsize <= out.fptr
      /\ out.fptr <= Len(h) /\ out.fptr <= Room(m, ch)
      /\ Held(h, m, ch, Latest(out, d), out.fptr)
      /\ out.dirty => out.dsect \in Own(m, ch)
      /\ OutOk(out, m, ch)
  BY <1>1 DEF OutShape
<1>7. /\ out' \in FilType(Target) /\ out'.fsize = out.fptr /\ out'.fptr = out.fptr /\ out'.fptr \in Nat
      /\ out'.dirty = out.dirty /\ out'.dsect = out.dsect /\ out'.buf = out.buf /\ out'.csect = out.csect
      /\ out'.clust = out.clust /\ out'.vol = out.vol
  BY <1>1, <1>6 DEF FilType
<1>8. Latest(out', d) = Latest(out, d)
  BY <1>7, Zenon DEF Latest
<1>9. OutOk(out', m, ch)
  BY <1>6, <1>7 DEF OutOk, Placed, AtSector
<1>10. OutShape'
  <2>1. /\ out' \in FilType(Target') /\ entry'[Target'][file'] = Empty /\ out'.fsize <= out'.fptr
        /\ out'.fptr <= Len(h') /\ out'.fptr <= Room(m', ch')
        /\ Held(h', m', ch', Latest(out', d'), out'.fptr)
        /\ out'.dirty => out'.dsect \in Own(m', ch')
        /\ OutOk(out', m', ch')
    BY <1>1, <1>6, <1>7, <1>8, <1>9
  <2> QED
    BY <1>7, <2>1 DEF OutShape
<1>11. Position' = Position /\ Pending' = 0 /\ Pending = 0
  BY <1>1, EmptySeq DEF Position, Pending, Reads
<1>12. ChunkShape'
  BY <1>1, <1>3, <1>11 DEF ChunkShape, Reads, Ends
<1>13. AlignShape'
  BY <1>1, <1>7, <1>11 DEF AlignShape, AtCluster, AtSector, Free
<1>14. GetShape'
  BY <1>1 DEF GetShape, Writes
<1> QED
  BY <1>2, <1>3, <1>4, <1>5, <1>10, <1>12, <1>13, <1>14

-----------------------------------------------------------------------------
(* Where a FIL goes on.                                                    *)
LEMMA PosLater ==
    ASSUME NEW m \in Nat, NEW i \in Int, NEW k \in Int, NEW j \in Int, NEW r \in Int
    PROVE  /\ Pos(m, i, k, 0) \in Int /\ j * SS \in Int
           /\ Pos(m, i, k + j, r) = (Pos(m, i, k, 0) + j * SS) + r
           /\ Pos(m, i, k + 1, 0) = Pos(m, i, k, 0) + SS
           /\ Pos(m, i, k - 1, 0) = Pos(m, i, k, 0) - SS
           /\ Pos(m, i + 1, 0, 0) = Pos(m, i, m, 0)
<1> DEFINE x == Sect(m, i, k)
<1>0. SS \in Int
  BY SizesAssumption
<1>1. x \in Int /\ SS \in Int
  BY <1>0, SectType
<1>2. /\ Sect(m, i, k + j) = x + j /\ Sect(m, i, k + 1) = x + 1 /\ Sect(m, i, k - 1) = x - 1
      /\ Sect(m, i + 1, 0) = Sect(m, i, m)
  <2>1. \A q \in Int : Sect(m, i, k + q) = Sect(m, i, k) + q
    BY ONLY m \in Nat, i \in Int, k \in Int, SectType
  <2>2. Sect(m, i, k - 1) = Sect(m, i, k) - 1 /\ Sect(m, i + 1, 0) = Sect(m, i, m)
    BY ONLY m \in Nat, i \in Int, k \in Int, SectType
  <2> QED
    BY <2>1, <2>2
<1> HIDE DEF x
<1>3. (x + j) * SS = x * SS + j * SS /\ (x + 1) * SS = x * SS + 1 * SS /\ (x - 1) * SS = x * SS - 1 * SS
  BY <1>1, Distribute
<1>4. x * SS \in Int /\ j * SS \in Int
  BY <1>1
<1> DEFINE y == x * SS
           z == j * SS
<1>5. /\ Pos(m, i, k, 0) = y + 0 /\ Pos(m, i, k + j, r) = (y + z) + r
      /\ Pos(m, i, k + 1, 0) = (y + SS) + 0 /\ Pos(m, i, k - 1, 0) = (y - SS) + 0
      /\ y \in Int /\ z \in Int
  BY <1>1, <1>2, <1>3, <1>4 DEF Pos, x
<1>6. Pos(m, i + 1, 0, 0) = Pos(m, i, m, 0)
  BY <1>2 DEF Pos
<1>7. Pos(m, i, k, 0) = y /\ y \in Int /\ z \in Int /\ Pos(m, i, k + j, r) = (y + z) + r
      /\ Pos(m, i, k + 1, 0) = y + SS /\ Pos(m, i, k - 1, 0) = y - SS
  <2> HIDE DEF y, z
  <2> QED
    BY <1>1, <1>5
<1> QED
  BY <1>6, <1>7, Zenon DEF z

(* Where a FIL stands, by whether it is inside a sector, or at its end.    *)
LEMMA Stands ==
    ASSUME NEW v, NEW m \in Nat \ {0}, NEW fp \in FilType(v), NEW ch, NEW n \in Nat, Placed(fp, m, ch, n)
    PROVE  /\ AtSector(fp) /\ fp.csect < m => n # 0 /\ fp.fptr = Pos(m, n, fp.csect, 0)
           /\ AtSector(fp) /\ ~(fp.csect < m) => fp.csect = m /\ fp.fptr = Pos(m, n + 1, 0, 0)
           /\ ~AtSector(fp) => /\ n # 0 /\ fp.fptr % SS \in 1 .. (SS - 1)
                               /\ fp.fptr = Pos(m, n, fp.csect - 1, 0) + (fp.fptr % SS)
           /\ fp.csect \in 1 .. m /\ fp.fptr \in Nat
<1>0. SS \in Nat \ {0} /\ fp.fptr \in Nat /\ fp.csect \in 1 .. m
  BY SizesAssumption DEF Placed, FilType
<1>1. /\ AtSector(fp) => fp.fptr = Pos(m, n, fp.csect, 0)
      /\ fp.fptr % SS \in 0 .. (SS - 1)
      /\ ~AtSector(fp) => fp.fptr = Pos(m, n, fp.csect - 1, 0) + (fp.fptr % SS)
  BY PlacedAt
<1>2. n = 0 => fp.csect = m
  BY DEF Placed
<1>3. n = 0 => AtSector(fp)
  <2> SUFFICES ASSUME n = 0 PROVE AtSector(fp)
    OBVIOUS
  <2>1. Sect(m, 0, m) = 0
    BY DEF Sect
  <2>2. Pos(m, 0, m, 0) = 0
    BY <1>0, <2>1 DEF Pos
  <2>3. fp.fptr <= 0
    BY <1>2, <2>2 DEF Placed
  <2>4. fp.fptr = 0
    BY <1>0, <2>3
  <2> QED
    BY <1>0, <2>4 DEF AtSector
<1>4. Pos(m, n + 1, 0, 0) = Pos(m, n, m, 0)
  <2>1. n \in Int /\ m \in Nat /\ 0 \in Int
    OBVIOUS
  <2> QED
    BY <2>1, PosLater
<1>5. ~AtSector(fp) => fp.fptr % SS # 0
  BY DEF AtSector
<1>6. ~AtSector(fp) => fp.fptr % SS \in 1 .. (SS - 1)
  BY <1>0, <1>1, <1>5
<1>7. ~(fp.csect < m) => fp.csect = m
  BY <1>0
<1> QED
  BY <1>0, <1>1, <1>2, <1>3, <1>4, <1>6, <1>7

LEMMA InRoom ==
    ASSUME NEW m \in Nat \ {0}, NEW ch \in Seq(Clusters), NEW n \in 1 .. Len(ch), NEW k \in 0 .. m
    PROVE  Pos(m, n, k, 0) \in Int /\ Pos(m, n, k, 0) <= Room(m, ch)
<1>1. Len(ch) \in Nat /\ n \in Int /\ k \in Int /\ m \in Nat /\ SS \in Nat \ {0}
  BY LenProperties, SizesAssumption
<1>2. Room(m, ch) = Sect(m, Len(ch) + 1, 0) * SS + 0
  BY <1>1, RoomIs DEF Pos
<1>3. Sect(m, n, k) \in Int /\ Sect(m, n, m) \in Int /\ Sect(m, n + 1, 0) = Sect(m, n, m)
      /\ Sect(m, Len(ch) + 1, 0) \in Int
  <2> HIDE DEF Sect
  <2>1. \A i \in Int, q \in Int : Sect(m, i, q) \in Int /\ Sect(m, i + 1, 0) = Sect(m, i, m)
    BY <1>1, SectType
  <2> QED
    BY <1>1, <2>1
<1>4. Sect(m, n, k) <= Sect(m, n, m)
  <2>1. (n - 1) * m \in Int
    BY <1>1
  <2> QED
    BY <1>1, <2>1 DEF Sect
<1>5. Sect(m, n + 1, 0) <= Sect(m, Len(ch) + 1, 0)
  <2>1. (n + 1) - 1 = n /\ (Len(ch) + 1) - 1 = Len(ch)
    BY <1>1
  <2>2. n * m <= Len(ch) * m /\ n * m \in Int /\ Len(ch) * m \in Int
    BY <1>1, Times
  <2> QED
    BY <2>1, <2>2 DEF Sect
<1>6. Sect(m, n, k) <= Sect(m, Len(ch) + 1, 0)
  BY <1>3, <1>4, <1>5
<1>7. Sect(m, n, k) * SS <= Sect(m, Len(ch) + 1, 0) * SS /\ Sect(m, n, k) * SS \in Int
      /\ Sect(m, Len(ch) + 1, 0) * SS \in Int
  BY <1>1, <1>3, <1>6, Times
<1> QED
  BY <1>2, <1>7 DEF Pos

(* The clusters of a chain differ.                                         *)
Distinct(ch, a) ==
    /\ DOMAIN ch = 1 .. a
    /\ \A i \in 1 .. a : ch[i] \in Int
    /\ \A i, j \in 1 .. a : ch[i] = ch[j] => i = j

(* e has d's sectors but for the n sectors from sector k of cluster a on,  *)
(* which hold the bytes of h up to hi.                                     *)
Renewed(h, m, ch, a, k, n, d, e, hi) ==
    /\ \A i \in DOMAIN ch, l \in 0 .. (m - 1) :
          (\A j \in 0 .. (n - 1) : SectorAt(m, ch[i], l) # SectorAt(m, ch[a], k + j))
              => e[SectorAt(m, ch[i], l)] = d[SectorAt(m, ch[i], l)]
    /\ \A j \in 0 .. (n - 1), r \in 1 .. SS :
          Pos(m, a, k + j, r) <= hi => e[SectorAt(m, ch[a], k + j)][r] = h[Pos(m, a, k + j, r)]

(* Bytes that were written behind the others.                              *)
LEMMA HeldMore ==
    ASSUME NEW m \in Nat \ {0}, NEW ch, NEW a \in Nat \ {0}, Distinct(ch, a),
           NEW k \in 0 .. (m - 1), NEW n \in 1 .. (m - k),
           NEW lo \in Int, NEW hi \in Int, Pos(m, a, k, 0) <= lo, hi <= Pos(m, a, k + n, 0),
           NEW h, NEW d, NEW e, Held(h, m, ch, d, lo), Renewed(h, m, ch, a, k, n, d, e, hi)
    PROVE  Held(h, m, ch, e, hi)
<1> SUFFICES ASSUME NEW i \in DOMAIN ch, NEW l \in 0 .. (m - 1), NEW r \in 1 .. SS, Pos(m, i, l, r) <= hi
             PROVE  e[SectorAt(m, ch[i], l)][r] = h[Pos(m, i, l, r)]
  BY DEF Held
<1> DEFINE x == Sect(m, i, l)
           y == Sect(m, a, k)
<1>6. SS \in Nat \ {0}
  BY SizesAssumption
<1>0. i \in Int /\ l \in Int /\ k \in Int /\ n \in Int /\ a \in DOMAIN ch /\ a \in Int /\ m \in Nat /\ SS \in Nat \ {0}
      /\ ch[a] \in Int /\ ch[i] \in Int /\ r \in Int /\ (ch[a] = ch[i] => a = i)
  BY <1>6 DEF Distinct
<1>1. x \in Int /\ y \in Int /\ \A j \in Int : Sect(m, a, k + j) = y + j
  <2>1. x \in Int /\ y \in Int
    BY <1>0, SectType
  <2>2. \A j \in Int : Sect(m, a, k + j) = Sect(m, a, k) + j
    <3> DEFINE z == (a - 1) * m
    <3>1. z \in Int
      BY <1>0
    <3> HIDE DEF z
    <3>2. \A j \in Int : z + (k + j) = (z + k) + j
      BY <1>0, <3>1
    <3> QED
      BY <3>2 DEF Sect, z
  <2> QED
    BY <2>1, <2>2
<1>3. x < y + n
  <2>1. Sect(m, a, k + n) = y + n /\ y + n \in Int
    BY <1>0, <1>1
  <2> HIDE DEF x, y
  <2>2. x * SS + r <= hi /\ hi <= (y + n) * SS + 0
    BY <2>1 DEF Pos, x
  <2>3. x * SS \in Int /\ (y + n) * SS \in Int
    BY <1>0, <1>1, <2>1
  <2>4. x * SS + r <= (y + n) * SS
    BY <1>0, <2>2, <2>3
  <2> QED
    BY <1>1, <2>1, <2>4, PosOrder
<1>4. CASE y <= x
  <2> DEFINE j == x - y
  <2>1. j \in 0 .. (n - 1) /\ k + j \in 0 .. (m - 1) /\ j \in Int
    <3> HIDE DEF x, y
    <3> QED
      BY <1>0, <1>1, <1>3, <1>4
  <2>2. Sect(m, a, k + j) = x
    <3>1. Sect(m, a, k + j) = y + j
      BY <1>1, <2>1
    <3> HIDE DEF x, y
    <3> QED
      BY <1>1, <3>1
  <2> HIDE DEF j
  <2>3. (a - 1) * m + (k + j) = (i - 1) * m + l
    BY <2>2 DEF x, Sect
  <2>4. a - 1 = i - 1 /\ k + j = l
    <3>1. a - 1 \in Int /\ i - 1 \in Int /\ k + j \in 0 .. (m - 1)
      BY <1>0, <2>1
    <3> DEFINE p == k + j
    <3>2. p \in 0 .. (m - 1) /\ (a - 1) * m + p = (i - 1) * m + l
      BY <2>3, <3>1
    <3> HIDE DEF p
    <3>3. a - 1 = i - 1 /\ p = l
      BY <3>1, <3>2, Apart
    <3> QED
      BY <3>3 DEF p
  <2>5. a = i
    BY <1>0, <2>4
  <2>6. e[SectorAt(m, ch[a], k + j)][r] = h[Pos(m, a, k + j, r)]
    BY <2>1, <2>4, <2>5 DEF Renewed
  <2> QED
    BY <2>4, <2>5, <2>6
<1>5. CASE x < y
  <2>1. Pos(m, i, l, r) <= lo
    <3> HIDE DEF x, y
    <3>1. x * SS + r <= y * SS
      BY <1>1, <1>5, PosOrder
    <3>2. x * SS \in Int /\ y * SS \in Int
      BY <1>0, <1>1
    <3>3. y * SS + 0 <= lo /\ Pos(m, i, l, r) = x * SS + r
      BY DEF Pos, x, y
    <3> QED
      BY <1>0, <3>1, <3>2, <3>3
  <2>2. d[SectorAt(m, ch[i], l)][r] = h[Pos(m, i, l, r)]
    BY <2>1 DEF Held
  <2>3. ASSUME NEW j \in 0 .. (n - 1), SectorAt(m, ch[i], l) = SectorAt(m, ch[a], k + j) PROVE FALSE
    <3>2. k + j \in 0 .. (m - 1) /\ j \in Int
      BY <1>0
    <3>4. ch[a] = ch[i] /\ k + j = l
      BY <1>0, <2>3, <3>2, SectorsApart
    <3>6. x = y + j
      BY <1>0, <1>1, <3>2, <3>4
    <3> HIDE DEF x, y
    <3> QED
      BY <1>1, <1>5, <2>3, <3>6
  <2> QED
    BY <2>2, <2>3 DEF Renewed
<1> QED
  BY <1>1, <1>4, <1>5

(* A FIL goes on at sector k of cluster a, which is cl; the code has kc    *)
(* for the sector behind it if it stands inside of one.                    *)
Stand(fp, m, ch, a, cl, k, kc) ==
    /\ a \in Nat \ {0} /\ cl = ch[a] /\ k \in 0 .. (m - 1)
    /\ AtSector(fp) => kc = k /\ fp.fptr = Pos(m, a, k, 0)
    /\ ~AtSector(fp) => /\ kc = k + 1 /\ fp.csect = k + 1 /\ fp.fptr % SS \in 1 .. (SS - 1)
                        /\ fp.fptr = Pos(m, a, k, 0) + (fp.fptr % SS)

(* f_read and f_write go on in the cluster they are in...                  *)
LEMMA StandsHere ==
    ASSUME NEW v, NEW m \in Nat \ {0}, NEW fp \in FilType(v), NEW ch, NEW n \in Nat, Placed(fp, m, ch, n),
           ~(AtSector(fp) /\ fp.csect >= m)
    PROVE  Stand(fp, m, ch, n, fp.clust, IF AtSector(fp) THEN fp.csect ELSE fp.csect - 1, fp.csect)
<1>1. /\ AtSector(fp) /\ fp.csect < m => n # 0 /\ fp.fptr = Pos(m, n, fp.csect, 0)
      /\ ~AtSector(fp) => /\ n # 0 /\ fp.fptr % SS \in 1 .. (SS - 1)
                          /\ fp.fptr = Pos(m, n, fp.csect - 1, 0) + (fp.fptr % SS)
      /\ fp.csect \in 1 .. m /\ fp.fptr \in Nat
  BY Stands
<1>2. n # 0 => fp.clust = ch[n]
  BY DEF Placed
<1>3. CASE AtSector(fp)
  <2>1. fp.csect < m /\ fp.csect \in 0 .. (m - 1)
    BY <1>1, <1>3
  <2> QED
    BY <1>1, <1>2, <1>3, <2>1 DEF Stand
<1>4. CASE ~AtSector(fp)
  <2>1. fp.csect - 1 \in 0 .. (m - 1) /\ (fp.csect - 1) + 1 = fp.csect
    BY <1>1
  <2> QED
    BY <1>1, <1>2, <1>4, <2>1 DEF Stand
<1> QED
  BY <1>3, <1>4

(* ... or in the next one.                                                 *)
LEMMA StandsNext ==
    ASSUME NEW v, NEW m \in Nat \ {0}, NEW fp \in FilType(v), NEW ch, NEW n \in Nat, Placed(fp, m, ch, n),
           AtSector(fp), fp.csect >= m, NEW other, NEW cl, cl = other[n + 1]
    PROVE  Stand(fp, m, other, n + 1, cl, 0, 0)
<1>1. fp.csect \in 1 .. m
  BY Stands
<1>2. fp.fptr = Pos(m, n + 1, 0, 0)
  <2>1. ~(fp.csect < m)
    BY <1>1
  <2> QED
    BY <2>1, Stands
<1>3. n + 1 \in Nat \ {0} /\ 0 \in 0 .. (m - 1)
  OBVIOUS
<1> QED
  BY <1>2, <1>3 DEF Stand

LEMMA LatestType ==
    ASSUME NEW S, NEW d \in [S -> [1 .. SS -> Byte]], NEW v, NEW fp \in FilType(v)
    PROVE  /\ Latest(fp, d) \in [S -> [1 .. SS -> Byte]]
           /\ \A t \in S : t # fp.dsect => Latest(fp, d)[t] = d[t]
           /\ fp.dirty /\ fp.dsect \in S => Latest(fp, d)[fp.dsect] = fp.buf
<1>1. fp.buf \in [1 .. SS -> Byte] /\ fp.dirty \in BOOLEAN
  BY Zenon DEF FilType
<1> QED
  BY <1>1 DEF Latest

(* The bytes w are those of h behind position p.                           *)
Follows(h, p, w) == w \in Seq(Byte) /\ \A j \in 1 .. Len(w) : w[j] = h[p + j]

Within(m, ch, a, S) == \A i \in 1 .. a, l \in 0 .. (m - 1) : SectorAt(m, ch[i], l) \in S

PartBuf(buf, w, from, n) ==
    [b \in 1 .. SS |-> IF b \in (from + 1) .. (from + n) THEN w[b - from] ELSE buf[b]]

PartFil(fp, s, cl, k, w, from, n) ==
    [fp EXCEPT !.clust = cl, !.csect = k + 1, !.dsect = s, !.dirty = TRUE, !.fptr = @ + n,
               !.buf = PartBuf(@, w, from, n)]

SameBut(S, s, e, d) == \A t \in S : t # s => e[t] = d[t]

(* Less than a sector has been put into the sector buffer.                 *)
PartHyp(v, m, S, d, fp, ch, a, k, from, s, h, w, n, fp2, d2) ==
    /\ m \in Nat \ {0} /\ d \in [S -> [1 .. SS -> Byte]] /\ fp \in FilType(v)
    /\ ch \in Seq(Clusters) /\ a \in Nat \ {0} /\ a = Len(ch) /\ Distinct(ch, a) /\ Within(m, ch, a, S)
    /\ k \in 0 .. (m - 1) /\ from \in 0 .. (SS - 1) /\ s = SectorAt(m, ch[a], k)
    /\ fp.fptr = Pos(m, a, k, 0) + from /\ (from > 0 => fp.dirty /\ fp.dsect = s)
    /\ Held(h, m, ch, Latest(fp, d), fp.fptr)
    /\ Follows(h, fp.fptr, w) /\ n \in Nat \ {0} /\ n <= Len(w) /\ from + n <= SS
    /\ fp2 = PartFil(fp, s, ch[a], k, w, from, n)
    /\ d2 \in [S -> [1 .. SS -> Byte]] /\ SameBut(S, s, d2, Latest(fp, d))

(* Less than a sector goes to the sector buffer.                           *)
LEMMA PartWritten ==
    ASSUME NEW v, NEW m, NEW S, NEW d, NEW fp, NEW ch, NEW a, NEW k, NEW from, NEW s, NEW h, NEW w, NEW n,
           NEW fp2, NEW d2, PartHyp(v, m, S, d, fp, ch, a, k, from, s, h, w, n, fp2, d2)
    PROVE  /\ fp2 \in FilType(v) /\ fp2.fptr = fp.fptr + n /\ fp2.fsize = fp.fsize
           /\ OutOk(fp2, m, ch) /\ fp2.dirty /\ fp2.dsect = s
           /\ fp2.fptr <= Room(m, ch)
           /\ Held(h, m, ch, Latest(fp2, d2), fp2.fptr)
<1>hyp. /\ m \in Nat \ {0} /\ d \in [S -> [1 .. SS -> Byte]] /\ fp \in FilType(v)
      /\ ch \in Seq(Clusters) /\ a \in Nat \ {0} /\ a = Len(ch) /\ Distinct(ch, a) /\ Within(m, ch, a, S)
      /\ k \in 0 .. (m - 1) /\ from \in 0 .. (SS - 1) /\ s = SectorAt(m, ch[a], k)
      /\ fp.fptr = Pos(m, a, k, 0) + from /\ (from > 0 => fp.dirty /\ fp.dsect = s)
      /\ Held(h, m, ch, Latest(fp, d), fp.fptr)
      /\ Follows(h, fp.fptr, w) /\ n \in Nat \ {0} /\ n <= Len(w) /\ from + n <= SS
      /\ fp2 = PartFil(fp, s, ch[a], k, w, from, n)
      /\ d2 \in [S -> [1 .. SS -> Byte]] /\ SameBut(S, s, d2, Latest(fp, d))
  BY DEF PartHyp
<1> USE <1>hyp
<1> DEFINE f == fp.fptr
           cl == ch[a]
           p == Pos(m, a, k, 0)
           g == f + n
           buf2 == PartBuf(fp.buf, w, from, n)
<1>0. /\ SS \in Nat \ {0} /\ f \in Nat /\ m \in Nat
      /\ fp.buf \in [1 .. SS -> Byte] /\ cl \in Int /\ p \in Int /\ k \in Int /\ a \in Int
  <2>2. cl \in Int
    BY DEF Distinct
  <2>3. a \in Int /\ k \in Int /\ m \in Nat /\ 0 \in Int
    OBVIOUS
  <2>4. p \in Int
    BY <2>3, PosType
  <2>5. SS \in Nat \ {0}
    BY SizesAssumption
  <2> QED
    BY <2>2, <2>3, <2>4, <2>5 DEF FilType
<1>1. f = p + from /\ from \in Nat
  BY <1>0
<1>2. w \in Seq(Byte) /\ Len(w) \in Nat
  BY LenProperties DEF Follows
<1>4. /\ fp2 = [fp EXCEPT !.clust = cl, !.csect = k + 1, !.dsect = s, !.dirty = TRUE, !.fptr = g, !.buf = buf2]
  BY DEF PartFil
<1> HIDE DEF buf2, cl
<1>5. buf2 \in [1 .. SS -> Byte]
  <2>1. \A j \in 1 .. Len(w) : w[j] \in Byte
    BY <1>2, ElementOfSeq
  <2>2. \A b \in 1 .. SS : b \in (from + 1) .. (from + n) => b - from \in 1 .. Len(w)
    BY <1>0, <1>1, <1>2
  <2> QED
    BY <1>0, <2>1, <2>2 DEF buf2, PartBuf
<1>6. s \in Int /\ g \in Nat
  <2>1. s \in Int
    BY <1>0, SectType DEF cl
  <2>2. g \in Nat
    BY <1>0
  <2> QED
    BY <2>1, <2>2
<1> HIDE DEF g
<1>7. /\ fp2 \in FilType(v) /\ fp2.fptr = g /\ fp2.fsize = fp.fsize /\ fp2.clust = cl /\ fp2.csect = k + 1
      /\ fp2.dsect = s /\ fp2.dirty = TRUE /\ fp2.buf = buf2
  <2> DEFINE kk == k + 1
  <2>1. kk \in Nat /\ cl \in Int /\ s \in Int /\ g \in Nat
    BY <1>0, <1>6
  <2>2. fp2 = [fp EXCEPT !.clust = cl, !.csect = kk, !.dsect = s, !.dirty = TRUE, !.fptr = g, !.buf = buf2]
    BY <1>4
  <2> HIDE DEF kk
  <2>3. fp2 \in FilType(v)
    BY <1>5, <2>1, <2>2 DEF FilType
  <2>4. /\ fp2.fptr = g /\ fp2.fsize = fp.fsize /\ fp2.clust = cl /\ fp2.csect = kk
        /\ fp2.dsect = s /\ fp2.dirty = TRUE /\ fp2.buf = buf2
    BY <2>2 DEF FilType
  <2> QED
    BY <2>3, <2>4 DEF kk
<1>8. Pos(m, a, k + 1, 0) = p + SS /\ Pos(m, a, (k + 1) - 1, 0) = p
  <2>1. (k + 1) - 1 = k
    BY <1>0
  <2>2. a \in Int /\ k \in Int /\ m \in Nat /\ 0 \in Int
    BY <1>0
  <2>3. Pos(m, a, k + 1, 0) = Pos(m, a, k, 0) + SS
    BY ONLY <2>2, PosLater
  <2>4. Pos(m, a, (k + 1) - 1, 0) = Pos(m, a, k, 0)
    BY ONLY <2>1
  <2> QED
    BY ONLY <2>3, <2>4 DEF p
<1>9. OutOk(fp2, m, ch)
  <2>1. k + 1 \in 1 .. m /\ (k + 1) - 1 = k
    <3>1. m \in Nat /\ k \in 0 .. (m - 1)
      BY <1>0, Zenon
    <3> QED
      BY ONLY <3>1
  <2>2. g <= p + SS /\ g > p
    BY <1>0, <1>1 DEF g
  <2>3. Placed(fp2, m, ch, a)
    BY <1>0, <1>7, <1>8, <2>1, <2>2 DEF Placed, cl
  <2> QED
    BY <1>7, <2>1, <2>3 DEF OutOk, cl
<1>10. g <= Room(m, ch)
  <2>1. k + 1 \in 0 .. m /\ a \in 1 .. Len(ch)
    BY <1>0
  <2>2. Pos(m, a, k + 1, 0) <= Room(m, ch)
    BY <2>1, InRoom
  <2>3. Room(m, ch) \in Nat
    BY <1>0, RoomIs
  <2>4. g <= p + SS /\ g \in Int /\ p \in Int /\ SS \in Int
    BY <1>0, <1>1 DEF g
  <2> HIDE DEF g, p
  <2> QED
    BY ONLY <1>8, <2>2, <2>3, <2>4
<1> DEFINE L == Latest(fp, d)
           e == Latest(fp2, d2)
<1>11. /\ L \in [S -> [1 .. SS -> Byte]]
       /\ \A t \in S : t # fp.dsect => L[t] = d[t]
       /\ fp.dirty /\ fp.dsect \in S => L[fp.dsect] = fp.buf
  BY LatestType
<1>13. s \in S
  BY <1>0 DEF Within
<1>14. (\A t \in S : t # s => e[t] = d2[t]) /\ e[s] = buf2
  BY <1>7, <1>13, LatestType
<1>15. \A t \in S : t # s => d2[t] = L[t]
  BY DEF SameBut
<1>16. from > 0 => fp.buf = L[s]
  BY <1>0, <1>1, <1>11, <1>13
<1> HIDE DEF L, e, p
<1>17. ASSUME NEW r \in 1 .. SS, Pos(m, a, k, r) <= g PROVE e[s][r] = h[Pos(m, a, k, r)]
  <2>1. Pos(m, a, k, r) = p + r /\ r \in Int
    <3>1. a \in Int /\ k \in Int /\ r \in Int /\ m \in Nat
      BY <1>0
    <3> DEFINE x == Sect(m, a, k) * SS
    <3>2. p = x + 0 /\ Pos(m, a, k, r) = x + r
      BY DEF p, Pos
    <3>3. x \in Int
      <4>1. Sect(m, a, k) \in Int
        BY <3>1, SectType
      <4> QED
        BY <1>0, <4>1
    <3> HIDE DEF x
    <3> QED
      BY ONLY <3>1, <3>2, <3>3
  <2>2. r <= from + n
    <3>1. p + r <= f + n /\ f = p + from /\ p \in Int /\ n \in Nat /\ from \in Nat /\ r \in Int
      BY <1>0, <1>1, <2>1, <1>17 DEF g
    <3> HIDE DEF f
    <3> QED
      BY ONLY <3>1
  <2>3. CASE r <= from
    <3>1. from > 0 /\ ~(r \in (from + 1) .. (from + n)) /\ Pos(m, a, k, r) <= f
      BY <1>0, <1>1, <2>1, <2>3
    <3>2. L[s][r] = h[Pos(m, a, k, r)]
      <4>1. a \in DOMAIN ch
        BY <1>0, LenProperties
      <4> QED
        BY <1>0, <3>1, <4>1 DEF Held, L
    <3>3. buf2[r] = fp.buf[r]
      BY <3>1 DEF buf2, PartBuf
    <3> QED
      BY <1>14, <1>16, <3>1, <3>2, <3>3
  <2>4. CASE r > from
    <3>1. r \in (from + 1) .. (from + n) /\ r - from \in 1 .. Len(w) /\ f + (r - from) = p + r
      BY <1>0, <1>1, <1>2, <2>1, <2>2, <2>4
    <3>2. buf2[r] = w[r - from]
      BY <3>1 DEF buf2, PartBuf
    <3>3. w[r - from] = h[f + (r - from)]
      BY <3>1 DEF Follows
    <3> QED
      BY <1>14, <2>1, <3>1, <3>2, <3>3
  <2> QED
    BY <1>1, <2>1, <2>3, <2>4
<1>18. Renewed(h, m, ch, a, k, 1, L, e, g)
  <2>1. SectorAt(m, ch[a], k + 0) = s /\ k + 0 = k /\ 0 .. (1 - 1) = {0}
    BY <1>0
  <2>2. DOMAIN ch = 1 .. a
    BY DEF Distinct
  <2>3. ASSUME NEW i \in DOMAIN ch, NEW l \in 0 .. (m - 1), SectorAt(m, ch[i], l) # s
        PROVE  e[SectorAt(m, ch[i], l)] = L[SectorAt(m, ch[i], l)]
    BY <1>14, <1>15, <2>2, <2>3 DEF Within
  <2>4. ASSUME NEW j \in 0 .. (1 - 1), NEW r \in 1 .. SS, Pos(m, a, k + j, r) <= g
        PROVE  e[SectorAt(m, ch[a], k + j)][r] = h[Pos(m, a, k + j, r)]
    <3>1. j = 0 /\ k + j = k
      BY <1>0
    <3>2. SectorAt(m, ch[a], k + j) = s
      BY <1>0, <3>1
    <3> QED
      BY <1>17, <2>4, <3>1, <3>2
  <2> QED
    BY <2>1, <2>3, <2>4 DEF Renewed
<1>19. Held(h, m, ch, e, g)
  <2>1. 1 \in 1 .. (m - k) /\ f \in Int /\ g \in Int
    BY <1>0, <1>6
  <2>2. Pos(m, a, k, 0) <= f /\ g <= Pos(m, a, k + 1, 0)
    BY <1>0, <1>1, <1>8 DEF p, g
  <2>3. Held(h, m, ch, L, f)
    BY DEF L
  <2> HIDE DEF f
  <2> QED
    BY <1>0, <1>18, <2>1, <2>2, <2>3, HeldMore
<1> QED
  BY <1>7, <1>9, <1>10, <1>19 DEF e, g

(* Whole sectors have been written from the command's buffer.              *)
Moved(w, n) == [i \in 1 .. n |-> SubSeq(w, (i - 1) * SS + 1, i * SS)]

WholeFil(fp, s, cl, k, n, moved) ==
    [fp EXCEPT !.clust = cl, !.csect = k + n, !.fptr = @ + n * SS, !.dirty = FALSE,
               !.buf = IF fp.dsect \in s .. (s + n - 1) THEN moved[fp.dsect - s + 1] ELSE @]

WholeData(S, d, s, n, moved) == [t \in S |-> IF t \in s .. (s + n - 1) THEN moved[t - s + 1] ELSE d[t]]

(* The sectors that are written at once.                                   *)
LEMMA MovedType ==
    ASSUME NEW w \in Seq(Byte), NEW n \in Nat, n * SS <= Len(w), NEW i \in 1 .. n
    PROVE  /\ Moved(w, n)[i] \in [1 .. SS -> Byte]
           /\ \A r \in 1 .. SS : Moved(w, n)[i][r] = w[(i - 1) * SS + r] /\ (i - 1) * SS + r \in 1 .. Len(w)
<1> DEFINE x == (i - 1) * SS
           y == i * SS
           z == SubSeq(w, x + 1, y)
<1>0. SS \in Nat \ {0} /\ Len(w) \in Nat /\ DOMAIN w = 1 .. Len(w) /\ SS \in Nat
  BY SizesAssumption, LenProperties
<1>1. \A r \in 1 .. SS : x + r \in 1 .. (n * SS)
  BY <1>0, InBlocks
<1>2. n * SS \in Int /\ x \in Int /\ y \in Int /\ i * SS = (i - 1) * SS + 1 * SS
  <2>1. i - 1 \in Int /\ i \in Int /\ SS \in Int /\ n \in Int /\ i = (i - 1) + 1
    BY <1>0
  <2>2. ((i - 1) + 1) * SS = (i - 1) * SS + 1 * SS
    BY <2>1, Distribute
  <2> QED
    BY <2>1, <2>2
<1>3. Moved(w, n)[i] = z
  BY DEF Moved
<1>4. y = x + SS /\ x \in Int /\ y \in Int /\ \A r \in 1 .. SS : x + r \in 1 .. Len(w)
  <2> DEFINE q == n * SS
  <2>1. q \in Int /\ q <= Len(w) /\ \A r \in 1 .. SS : x + r \in 1 .. q
    BY <1>1, <1>2
  <2>2. x \in Int /\ y = x + SS
    BY <1>0, <1>2
  <2>3. Len(w) \in Int /\ SS \in Int
    BY <1>0, LenProperties
  <2> HIDE DEF q, x, y
  <2>4. \A r \in 1 .. SS : x + r \in 1 .. Len(w)
    BY ONLY <2>1, <2>2, <2>3
  <2> QED
    BY ONLY <2>2, <2>4
<1> HIDE DEF x, y
<1>5. \A j \in (x + 1) .. y : w[j] \in Byte
  <2> SUFFICES ASSUME NEW j \in (x + 1) .. y PROVE w[j] \in Byte
    OBVIOUS
  <2>1. j - x \in 1 .. SS /\ x + (j - x) = j
    BY <1>0, <1>4
  <2>2. j \in 1 .. Len(w)
    BY <1>4, <2>1
  <2> QED
    BY <2>2, ElementOfSeq
<1>6. /\ z \in Seq(Byte)
      /\ Len(z) = IF x + 1 <= y THEN y - (x + 1) + 1 ELSE 0
      /\ \A j \in 1 .. (y - (x + 1) + 1) : z[j] = w[(x + 1) + j - 1]
  <2>1. x + 1 \in Int
    BY <1>4
  <2> QED
    BY <1>4, <1>5, <2>1, SubSeqProperties
<1> HIDE DEF z
<1>7. Len(z) = SS /\ \A r \in 1 .. SS : z[r] = w[x + r]
  <2>1. y - (x + 1) + 1 = SS /\ x + 1 <= y /\ \A r \in 1 .. SS : (x + 1) + r - 1 = x + r
    BY <1>0, <1>4
  <2> QED
    BY <1>6, <2>1
<1>8. z \in [1 .. SS -> Byte]
  <2>1. DOMAIN z = 1 .. SS /\ \A r \in 1 .. SS : z[r] \in Byte
    BY <1>6, <1>7, LenProperties, ElementOfSeq
  <2>2. z = [r \in DOMAIN z |-> z[r]]
    BY <1>6
  <2> QED
    BY <2>1, <2>2
<1> QED
  BY <1>3, <1>4, <1>7, <1>8 DEF x

LEMMA Offset ==
    ASSUME NEW s \in Int, NEW n \in Nat
    PROVE  /\ \A t \in s .. (s + n - 1) : t - s \in 0 .. (n - 1) /\ t - s + 1 \in 1 .. n /\ s + (t - s) = t
           /\ \A j \in 0 .. (n - 1) : /\ s + j \in s .. (s + n - 1) /\ (s + j) - s + 1 = j + 1
                                     /\ j + 1 \in 1 .. n /\ (j + 1) - 1 = j
OBVIOUS

LEMMA OffsetIn ==
    ASSUME NEW k \in Nat, NEW m \in Nat, NEW n \in 1 .. (m - k)
    PROVE  /\ k + n \in Nat /\ k + n \in 1 .. m /\ n \in Nat /\ k + n \in 0 .. m
           /\ \A j \in 0 .. (n - 1) : k + j \in 0 .. (m - 1) /\ k + j \in Int /\ j \in Int
OBVIOUS

(* n sectors and r bytes further on.                                       *)
Moves(m, a, k) ==
    \A n \in Int, r \in Int : Pos(m, a, k + n, r) = Pos(m, a, k, 0) + (n * SS + r)

LEMMA PosMoved ==
    ASSUME NEW m \in Nat, NEW a \in Int, NEW k \in Int
    PROVE  Moves(m, a, k)
<1> SUFFICES ASSUME NEW n \in Int, NEW r \in Int
             PROVE  Pos(m, a, k + n, r) = Pos(m, a, k, 0) + (n * SS + r)
  BY DEF Moves
<1> DEFINE x == Sect(m, a, k)
<1>0. SS \in Int
  BY SizesAssumption
<1>1. x \in Int /\ Sect(m, a, k + n) = x + n
  <2>1. Sect(m, a, k) \in Int /\ \A j \in Int : Sect(m, a, k + j) = Sect(m, a, k) + j
    BY ONLY m \in Nat, a \in Int, k \in Int, SectType
  <2> QED
    BY <2>1
<1> HIDE DEF x
<1>2. (x + n) * SS = x * SS + n * SS /\ x * SS \in Int /\ n * SS \in Int
  BY <1>0, <1>1, Distribute
<1> DEFINE y == x * SS
           z == n * SS
<1>3. y \in Int /\ z \in Int /\ Pos(m, a, k, 0) = y + 0 /\ Pos(m, a, k + n, r) = (y + z) + r
  BY <1>1, <1>2 DEF Pos, x
<1> HIDE DEF y, z
<1>4. Pos(m, a, k, 0) = y /\ (y + z) + r = y + (z + r)
  BY <1>3
<1> QED
  BY <1>3, <1>4 DEF z

WholeHyp(v, m, S, d, fp, ch, a, k, s, h, w, n, fp2, d2) ==
    /\ m \in Nat \ {0} /\ d \in [S -> [1 .. SS -> Byte]] /\ fp \in FilType(v)
    /\ ch \in Seq(Clusters) /\ a \in Nat \ {0} /\ a = Len(ch) /\ Distinct(ch, a) /\ Within(m, ch, a, S)
    /\ k \in 0 .. (m - 1) /\ s = SectorAt(m, ch[a], k) /\ fp.fptr = Pos(m, a, k, 0)
    /\ Held(h, m, ch, Latest(fp, d), fp.fptr)
    /\ Follows(h, fp.fptr, w) /\ n \in 1 .. (m - k) /\ n * SS <= Len(w)
    /\ fp2 = WholeFil(fp, s, ch[a], k, n, Moved(w, n))
    /\ d2 = WholeData(S, Latest(fp, d), s, n, Moved(w, n))

(* Whole sectors go straight to the image.                                 *)
LEMMA WholeWritten ==
    ASSUME NEW v, NEW m, NEW S, NEW d, NEW fp, NEW ch, NEW a, NEW k, NEW s, NEW h, NEW w, NEW n,
           NEW fp2, NEW d2, WholeHyp(v, m, S, d, fp, ch, a, k, s, h, w, n, fp2, d2)
    PROVE  /\ fp2 \in FilType(v) /\ fp2.fptr = fp.fptr + n * SS /\ fp2.fsize = fp.fsize
           /\ OutOk(fp2, m, ch) /\ ~fp2.dirty
           /\ fp2.fptr <= Room(m, ch)
           /\ d2 \in [S -> [1 .. SS -> Byte]]
           /\ \A t \in S : t \notin Own(m, ch) => d2[t] = Latest(fp, d)[t]
           /\ Held(h, m, ch, Latest(fp2, d2), fp2.fptr)
<1>hyp. /\ m \in Nat \ {0} /\ d \in [S -> [1 .. SS -> Byte]] /\ fp \in FilType(v)
      /\ ch \in Seq(Clusters) /\ a \in Nat \ {0} /\ a = Len(ch) /\ Distinct(ch, a) /\ Within(m, ch, a, S)
      /\ k \in 0 .. (m - 1) /\ s = SectorAt(m, ch[a], k) /\ fp.fptr = Pos(m, a, k, 0)
      /\ Held(h, m, ch, Latest(fp, d), fp.fptr)
      /\ Follows(h, fp.fptr, w) /\ n \in 1 .. (m - k) /\ n * SS <= Len(w)
      /\ fp2 = WholeFil(fp, s, ch[a], k, n, Moved(w, n))
      /\ d2 = WholeData(S, Latest(fp, d), s, n, Moved(w, n))
  BY DEF WholeHyp
<1> USE <1>hyp
<1> DEFINE f == fp.fptr
           cl == ch[a]
           p == Pos(m, a, k, 0)
           x == n * SS
           g == f + x
           moved == Moved(w, n)
           L == Latest(fp, d)
           buf2 == IF fp.dsect \in s .. (s + n - 1) THEN moved[fp.dsect - s + 1] ELSE fp.buf
<1>0. /\ SS \in Nat \ {0} /\ f \in Nat /\ m \in Nat /\ n \in Nat
      /\ fp.buf \in [1 .. SS -> Byte] /\ cl \in Int /\ p \in Int /\ k \in Int /\ a \in Int /\ fp.dsect \in Int
  <2>2. cl \in Int
    BY DEF Distinct
  <2>3. a \in Int /\ k \in Int /\ m \in Nat /\ 0 \in Int /\ n \in Nat
    OBVIOUS
  <2>4. p \in Int
    BY <2>3, PosType
  <2>5. SS \in Nat \ {0}
    BY SizesAssumption
  <2> QED
    BY <2>2, <2>3, <2>4, <2>5 DEF FilType
<1>1. f = p
  OBVIOUS
<1>2. w \in Seq(Byte) /\ Len(w) \in Nat
  BY LenProperties DEF Follows
<1>3. x \in Nat /\ x <= Len(w)
  BY <1>0
<1>4. \A i \in 1 .. n : /\ moved[i] \in [1 .. SS -> Byte]
                        /\ \A r \in 1 .. SS : moved[i][r] = w[(i - 1) * SS + r] /\ (i - 1) * SS + r \in 1 .. Len(w)
  BY <1>0, <1>2, MovedType
<1>5. s \in Int /\ \A j \in Int : SectorAt(m, cl, k + j) = s + j
  <2> DEFINE z == (cl - 1) * m
  <2>1. z \in Int
    BY <1>0
  <2>2. s = z + k
    BY DEF SectorAt
  <2> HIDE DEF z
  <2>3. s \in Int /\ \A j \in Int : z + (k + j) = s + j
    BY <1>0, <2>1, <2>2
  <2> QED
    BY <2>3 DEF SectorAt, z
<1>6. L \in [S -> [1 .. SS -> Byte]]
  BY LatestType
<1> HIDE DEF moved, L
<1>60. s \in Int /\ n \in Nat
  BY <1>0, <1>5
<1>61. /\ \A t \in s .. (s + n - 1) : t - s \in 0 .. (n - 1) /\ t - s + 1 \in 1 .. n /\ s + (t - s) = t
       /\ \A j \in 0 .. (n - 1) : /\ s + j \in s .. (s + n - 1) /\ (s + j) - s + 1 = j + 1
                                 /\ j + 1 \in 1 .. n /\ (j + 1) - 1 = j
  BY ONLY <1>60, Offset
<1>62. /\ k + n \in Nat /\ k + n \in 1 .. m /\ n \in Nat /\ k + n \in 0 .. m
       /\ \A j \in 0 .. (n - 1) : k + j \in 0 .. (m - 1) /\ k + j \in Int /\ j \in Int
  <2>1. k \in Nat /\ m \in Nat
    BY <1>0
  <2> QED
    BY <2>1, OffsetIn
<1>7. buf2 \in [1 .. SS -> Byte]
  <2>1. fp.dsect \in s .. (s + n - 1) => fp.dsect - s + 1 \in 1 .. n
    BY <1>61, Zenon
  <2> QED
    BY <1>0, <1>4, <2>1
<1>8. d2 \in [S -> [1 .. SS -> Byte]] /\ d2 = [t \in S |-> IF t \in s .. (s + n - 1) THEN moved[t - s + 1] ELSE L[t]]
  <2>1. \A t \in s .. (s + n - 1) : t - s + 1 \in 1 .. n
    BY <1>61, Zenon
  <2>2. d2 = [t \in S |-> IF t \in s .. (s + n - 1) THEN moved[t - s + 1] ELSE L[t]]
    BY DEF WholeData, moved, L
  <2> QED
    BY <1>4, <1>6, <2>1, <2>2
<1>9. fp2 = [fp EXCEPT !.clust = cl, !.csect = k + n, !.fptr = g, !.dirty = FALSE, !.buf = buf2]
  BY DEF WholeFil, moved
<1>10. g \in Nat /\ k + n \in Nat /\ k + n \in 1 .. m
  <2>1. k + n \in Nat /\ k + n \in 1 .. m
    BY ONLY <1>62, Zenon
  <2>2. f \in Nat /\ x \in Nat
    BY <1>0, <1>3
  <2> HIDE DEF f, x
  <2>3. f + x \in Nat
    BY ONLY <2>2
  <2> QED
    BY <2>1, <2>3
<1> HIDE DEF buf2, g, x, cl
<1>11. /\ fp2 \in FilType(v) /\ fp2.fptr = g /\ fp2.fsize = fp.fsize /\ fp2.clust = cl /\ fp2.csect = k + n
       /\ fp2.dirty = FALSE
  <2> DEFINE kk == k + n
  <2>1. kk \in Nat
    BY <1>10
  <2>2. fp2 = [fp EXCEPT !.clust = cl, !.csect = kk, !.fptr = g, !.dirty = FALSE, !.buf = buf2]
    BY <1>9
  <2> HIDE DEF kk
  <2>3. fp2 \in FilType(v)
    BY <1>0, <1>7, <1>10, <2>1, <2>2 DEF FilType
  <2>4. fp2.fptr = g /\ fp2.fsize = fp.fsize /\ fp2.clust = cl /\ fp2.csect = kk /\ fp2.dirty = FALSE
    BY <2>2 DEF FilType
  <2> QED
    BY <2>3, <2>4 DEF kk
<1>12. Pos(m, a, k + n, 0) = g /\ Pos(m, a, (k + n) - 1, 0) = g - SS
  <2>1. m \in Nat /\ a \in Int /\ k \in Int /\ n \in Int /\ 0 \in Int /\ k + n \in Int
    BY <1>0
  <2>2. Pos(m, a, k + n, 0) = p + (n * SS + 0)
    <3>1. \A q \in Int, b \in Int : Pos(m, a, k + q, b) = Pos(m, a, k, 0) + (q * SS + b)
      <4>1. m \in Nat /\ a \in Int /\ k \in Int
        BY <2>1
      <4>2. Moves(m, a, k)
        BY ONLY <4>1, PosMoved
      <4> QED
        BY ONLY <4>2 DEF Moves
    <3> QED
      BY <2>1, <3>1
  <2>3. Pos(m, a, (k + n) - 1, 0) = Pos(m, a, k + n, 0) - SS
    BY <2>1, PosLater, Zenon
  <2>4. p + (x + 0) = g
    BY <1>0, <1>1, <1>3 DEF g
  <2> QED
    BY <2>2, <2>3, <2>4 DEF x
<1>13. AtSector(fp2)
  <2> DEFINE q == Sect(m, a, k + n)
  <2>1. k + n \in Int /\ m \in Nat /\ a \in Int
    BY <1>0
  <2>2. q \in Int
    BY <2>1, SectType
  <2>3. g = q * SS + 0
    BY <1>12 DEF Pos
  <2> HIDE DEF q
  <2>4. (q * SS + 0) % SS = 0
    <3>1. 0 \in 0 .. (SS - 1)
      BY <1>0
    <3> QED
      BY <1>0, <2>2, <3>1, Divide
  <2> QED
    BY <1>11, <2>3, <2>4 DEF AtSector
<1>14. OutOk(fp2, m, ch)
  <2>1. g <= Pos(m, a, k + n, 0) /\ g > Pos(m, a, (k + n) - 1, 0)
    BY <1>0, <1>10, <1>12
  <2>2. Placed(fp2, m, ch, a)
    BY <1>0, <1>10, <1>11, <2>1 DEF Placed, cl
  <2> QED
    BY <1>13, <2>2 DEF OutOk
<1>15. g <= Room(m, ch)
  <2>1. k + n \in 0 .. m /\ a \in 1 .. Len(ch)
    BY <1>0, <1>10
  <2> QED
    BY <1>12, <2>1, InRoom
<1>16. \A j \in 0 .. (n - 1) : /\ s + j \in S /\ s + j \in Own(m, ch) /\ s + j = SectorAt(m, ch[a], k + j)
                               /\ d2[s + j] = moved[j + 1] /\ j + 1 \in 1 .. n
  <2> SUFFICES ASSUME NEW j \in 0 .. (n - 1)
               PROVE  /\ s + j \in S /\ s + j \in Own(m, ch) /\ s + j = SectorAt(m, ch[a], k + j)
                      /\ d2[s + j] = moved[j + 1] /\ j + 1 \in 1 .. n
    OBVIOUS
  <2>1. k + j \in 0 .. (m - 1) /\ a \in 1 .. a /\ a \in DOMAIN ch /\ j + 1 \in 1 .. n
        /\ s + j \in s .. (s + n - 1) /\ (s + j) - s + 1 = j + 1
    <3>1. a \in 1 .. a /\ DOMAIN ch = 1 .. a
      BY LenProperties DEF Distinct
    <3> QED
      BY <1>61, <1>62, <3>1, Zenon
  <2>2. s + j = SectorAt(m, ch[a], k + j)
    <3>1. j \in Int
      BY <1>62, Zenon
    <3> QED
      BY ONLY <1>5, <3>1 DEF cl
  <2>3. s + j \in S
    BY <2>1, <2>2 DEF Within
  <2>4. s + j \in Own(m, ch)
    <3>1. <<a, k + j>> \in (DOMAIN ch) \X (0 .. (m - 1))
      BY <2>1
    <3> QED
      BY <2>2, <3>1 DEF Own
  <2> QED
    BY <1>8, <2>1, <2>2, <2>3, <2>4
<1>17. \A t \in S : t \notin Own(m, ch) => d2[t] = L[t]
  <2>1. \A t \in s .. (s + n - 1) : t - s \in 0 .. (n - 1) /\ s + (t - s) = t
    BY <1>61, Zenon
  <2>2. \A t \in s .. (s + n - 1) : t \in Own(m, ch)
    BY <1>16, <2>1
  <2> QED
    BY <1>8, <2>2
<1> DEFINE e == Latest(fp2, d2)
<1>18. e = d2
  BY <1>11 DEF Latest
<1> HIDE DEF e, p
<1>19. ASSUME NEW j \in 0 .. (n - 1), NEW r \in 1 .. SS PROVE d2[SectorAt(m, ch[a], k + j)][r] = h[Pos(m, a, k + j, r)]
  <2>1. d2[SectorAt(m, ch[a], k + j)] = moved[j + 1] /\ j + 1 \in 1 .. n /\ (j + 1) - 1 = j
    BY <1>16, <1>61, Zenon
  <2>2. moved[j + 1][r] = w[j * SS + r] /\ j * SS + r \in 1 .. Len(w)
    BY <1>4, <2>1
  <2>3. w[j * SS + r] = h[f + (j * SS + r)]
    BY <2>2 DEF Follows
  <2>4. Pos(m, a, k + j, r) = f + (j * SS + r)
    <3>1. m \in Nat /\ a \in Int /\ k \in Int /\ j \in Int /\ r \in Int
      BY <1>0
    <3>2. \A q \in Int, b \in Int : Pos(m, a, k + q, b) = Pos(m, a, k, 0) + (q * SS + b)
      <4>1. m \in Nat /\ a \in Int /\ k \in Int
        BY <3>1
      <4>2. Moves(m, a, k)
        BY ONLY <4>1, PosMoved
      <4> QED
        BY ONLY <4>2 DEF Moves
    <3> QED
      BY <1>1, <3>1, <3>2 DEF p
  <2> QED
    BY <2>1, <2>2, <2>3, <2>4
<1>20. Renewed(h, m, ch, a, k, n, L, d2, g)
  <2>1. DOMAIN ch = 1 .. a
    BY DEF Distinct
  <2>2. ASSUME NEW i \in DOMAIN ch, NEW l \in 0 .. (m - 1),
               \A j \in 0 .. (n - 1) : SectorAt(m, ch[i], l) # SectorAt(m, ch[a], k + j)
        PROVE  d2[SectorAt(m, ch[i], l)] = L[SectorAt(m, ch[i], l)]
    <3> DEFINE t == SectorAt(m, ch[i], l)
    <3>1. t \in S
      BY <2>1 DEF Within
    <3>2. t \notin s .. (s + n - 1)
      <4> SUFFICES ASSUME t \in s .. (s + n - 1) PROVE FALSE
        OBVIOUS
      <4> HIDE DEF t
      <4>1. t - s \in 0 .. (n - 1) /\ s + (t - s) = t
        BY <1>61, Zenon
      <4>2. t = SectorAt(m, ch[a], k + (t - s))
        BY <1>16, <4>1
      <4> QED
        BY <2>2, <4>1, <4>2 DEF t
    <3> QED
      BY <1>8, <3>1, <3>2
  <2> QED
    BY ONLY <1>19, <2>2 DEF Renewed
<1>21. Held(h, m, ch, d2, g)
  <2>1. f \in Int /\ g \in Int /\ Held(h, m, ch, L, f)
    BY <1>0, <1>10 DEF L
  <2>2. Pos(m, a, k, 0) <= f /\ g <= Pos(m, a, k + n, 0)
    BY <1>0, <1>1, <1>10, <1>12 DEF p
  <2> HIDE DEF f
  <2> QED
    BY <1>20, <2>1, <2>2, HeldMore
<1> QED
  BY <1>8, <1>11, <1>14, <1>15, <1>17, <1>18, <1>21 DEF e, g, x, L

(* A turn of the loop of f_write has stored q bytes of w behind the file.  *)
StoredMore(v, m, S, d, fp, ch, h, w, fp2, d2, q) ==
    /\ q \in 1 .. Len(w)
    /\ fp2 \in FilType(v) /\ fp2.fptr = fp.fptr + q /\ fp2.fsize = fp.fsize
    /\ OutOk(fp2, m, ch) /\ (fp2.dirty => fp2.dsect \in Own(m, ch))
    /\ fp2.fptr <= Room(m, ch)
    /\ d2 \in [S -> [1 .. SS -> Byte]]
    /\ \A t \in S : t \notin Own(m, ch) => d2[t] = d[t]
    /\ Held(h, m, ch, Latest(fp2, d2), fp2.fptr)

(* The volume of the file, the FIL and what is to be written.              *)
Writing(v, m, S, d, fp, ch, a, h, w) ==
    /\ m \in Nat \ {0} /\ d \in [S -> [1 .. SS -> Byte]] /\ fp \in FilType(v)
    /\ ch \in Seq(Clusters) /\ a \in Nat \ {0} /\ a = Len(ch) /\ Distinct(ch, a) /\ Within(m, ch, a, S)
    /\ (fp.dirty => fp.dsect \in Own(m, ch))
    /\ Held(h, m, ch, Latest(fp, d), fp.fptr)
    /\ Follows(h, fp.fptr, w) /\ w # <<>>

LEMMA DivFacts ==
    ASSUME NEW b \in Nat, NEW q \in Nat \ {0}
    PROVE  /\ b \div q \in Nat /\ (b \div q) * q <= b /\ (b >= q => b \div q >= 1)
           /\ \A n \in Nat : n <= b \div q => n * q \in Nat /\ n * q <= b
<1> DEFINE x == b \div q
           r == b % q
           y == x * q
<1>1. x \in Int /\ r \in 0 .. (q - 1) /\ b = y + r /\ y \in Int
  OBVIOUS
<1> HIDE DEF x, r
<1>2. y <= b /\ (b >= q => y >= 1)
  <2> HIDE DEF y
  <2> QED
    BY <1>1
<1>3. x >= 0
  <2> SUFFICES ASSUME x <= -1 PROVE FALSE
    BY <1>1
  <2>1. x * q <= (-1) * q
    BY <1>1, Times
  <2>2. y <= -q
    BY <2>1
  <2> HIDE DEF y
  <2> QED
    BY <1>1, <2>2
<1>4. b >= q => x >= 1
  <2> SUFFICES ASSUME b >= q, x = 0 PROVE FALSE
    BY <1>1, <1>3
  <2>1. y = 0
    OBVIOUS
  <2> QED
    BY <1>2, <2>1
<1>5. \A n \in Nat : n <= x => n * q \in Nat /\ n * q <= b
  <2> SUFFICES ASSUME NEW n \in Nat, n <= x PROVE n * q \in Nat /\ n * q <= b
    OBVIOUS
  <2>1. n * q <= y /\ n * q \in Nat
    BY <1>1, Times
  <2> DEFINE z == n * q
  <2>2. z <= y /\ z \in Nat
    BY <2>1
  <2> HIDE DEF y, z
  <2>3. z <= b
    BY <1>1, <1>2, <2>2
  <2> QED
    BY <2>2, <2>3 DEF z
<1> QED
  BY <1>1, <1>2, <1>3, <1>4, <1>5 DEF x

(* Both kinds of a turn of f_write store part of the rest.                 *)
LEMMA WholeDone ==
    ASSUME NEW v, NEW m, NEW S, NEW d, NEW fp, NEW ch, NEW a, NEW h, NEW w,
           Writing(v, m, S, d, fp, ch, a, h, w),
           NEW cl, NEW k, Stand(fp, m, ch, a, cl, k, k), AtSector(fp), Len(w) >= SS,
           NEW n, n = Min({Len(w) \div SS, m - k}), NEW s, s = SectorAt(m, cl, k),
           NEW fp2, fp2 = WholeFil(fp, s, cl, k, n, Moved(w, n)),
           NEW d2, d2 = WholeData(S, Latest(fp, d), s, n, Moved(w, n))
    PROVE  StoredMore(v, m, S, d, fp, ch, h, w, fp2, d2, n * SS)
<1>1. /\ m \in Nat \ {0} /\ d \in [S -> [1 .. SS -> Byte]] /\ fp \in FilType(v)
      /\ ch \in Seq(Clusters) /\ a \in Nat \ {0} /\ a = Len(ch) /\ Distinct(ch, a) /\ Within(m, ch, a, S)
      /\ (fp.dirty => fp.dsect \in Own(m, ch))
      /\ Held(h, m, ch, Latest(fp, d), fp.fptr)
      /\ Follows(h, fp.fptr, w)
  BY DEF Writing
<1>2. cl = ch[a] /\ k \in 0 .. (m - 1) /\ fp.fptr = Pos(m, a, k, 0)
  BY DEF Stand
<1>3. SS \in Nat \ {0} /\ Len(w) \in Nat
  BY <1>1, SizesAssumption, LenProperties DEF Follows
<1>4. n \in 1 .. (m - k) /\ n * SS <= Len(w) /\ n * SS \in Nat /\ n * SS >= 1
  <2> DEFINE b == Len(w) \div SS
  <2>1. b \in Nat /\ b >= 1 /\ \A q \in Nat : q <= b => q * SS \in Nat /\ q * SS <= Len(w)
    BY <1>3, DivFacts
  <2> HIDE DEF b
  <2>2. m - k \in Nat /\ m - k >= 1
    BY <1>1, <1>2
  <2>3. n = IF b <= m - k THEN b ELSE m - k
    <3>1. b \in Int /\ m - k \in Int /\ n = Min({b, m - k})
      BY <2>1, <2>2 DEF b
    <3> QED
      BY ONLY <3>1, MinTwo
  <2>4. n \in 1 .. (m - k) /\ n <= b /\ n \in Nat
    BY ONLY <2>1, <2>2, <2>3
  <2> DEFINE z == n * SS
  <2>5. SS <= z
    <3>1. 1 \in Int /\ n \in Int /\ SS \in Nat /\ 1 <= n /\ 1 * SS = SS
      BY ONLY <1>3, <2>4
    <3>2. 1 * SS <= n * SS
      BY ONLY <3>1, Times
    <3> QED
      BY ONLY <3>1, <3>2
  <2>6. z \in Nat /\ z <= Len(w)
    BY ONLY <2>1, <2>4
  <2> HIDE DEF z
  <2>7. z \in Nat /\ z <= Len(w) /\ z >= 1
    BY ONLY <1>3, <2>5, <2>6
  <2> QED
    BY <2>4, <2>7 DEF z
<1>5. /\ fp2 \in FilType(v) /\ fp2.fptr = fp.fptr + n * SS /\ fp2.fsize = fp.fsize
      /\ OutOk(fp2, m, ch) /\ ~fp2.dirty
      /\ fp2.fptr <= Room(m, ch)
      /\ d2 \in [S -> [1 .. SS -> Byte]]
      /\ \A t \in S : t \notin Own(m, ch) => d2[t] = Latest(fp, d)[t]
      /\ Held(h, m, ch, Latest(fp2, d2), fp2.fptr)
  <2>1. fp2 = WholeFil(fp, s, ch[a], k, n, Moved(w, n)) /\ s = SectorAt(m, ch[a], k)
        /\ d2 = WholeData(S, Latest(fp, d), s, n, Moved(w, n))
    BY <1>2
  <2>2. WholeHyp(v, m, S, d, fp, ch, a, k, s, h, w, n, fp2, d2)
    BY ONLY <1>1, <1>2, <1>4, <2>1, Zenon DEF WholeHyp
  <2> QED
    BY ONLY <2>2, WholeWritten, Zenon
<1>6. \A t \in S : t \notin Own(m, ch) => d2[t] = d[t]
  <2> DEFINE O == Own(m, ch)
  <2>1. fp.dirty => fp.dsect \in O
    BY <1>1
  <2> HIDE DEF O
  <2>2. \A t \in S : t \notin O => Latest(fp, d)[t] = d[t]
    <3>1. d \in [S -> [1 .. SS -> Byte]] /\ fp \in FilType(v)
      BY <1>1
    <3>2. \A t \in S : t # fp.dsect => Latest(fp, d)[t] = d[t]
      BY ONLY <3>1, LatestType
    <3>3. ~fp.dirty => Latest(fp, d) = d
      BY DEF Latest
    <3> QED
      BY ONLY <2>1, <3>2, <3>3
  <2> QED
    BY ONLY <1>5, <2>2 DEF O
<1>7. n * SS \in 1 .. Len(w)
  BY ONLY <1>3, <1>4
<1> QED
  BY ONLY <1>5, <1>6, <1>7, Zenon DEF StoredMore

LEMMA PartDone ==
    ASSUME NEW v, NEW m, NEW S, NEW d, NEW fp, NEW ch, NEW a, NEW h, NEW w,
           Writing(v, m, S, d, fp, ch, a, h, w),
           NEW cl, NEW k, NEW kc, Stand(fp, m, ch, a, cl, k, kc),
           ~AtSector(fp) => fp.dirty /\ fp.dsect = SectorAt(m, cl, k),
           NEW from, from = fp.fptr % SS, NEW n, n = Min({SS - from, Len(w)}),
           NEW s, s = (IF AtSector(fp) THEN SectorAt(m, cl, kc) ELSE fp.dsect),
           NEW fp2, fp2 = PartFil(fp, s, cl, k, w, from, n),
           NEW d2, d2 = (IF AtSector(fp) THEN Latest(fp, d) ELSE d)
    PROVE  StoredMore(v, m, S, d, fp, ch, h, w, fp2, d2, n)
<1>1. /\ m \in Nat \ {0} /\ d \in [S -> [1 .. SS -> Byte]] /\ fp \in FilType(v)
      /\ ch \in Seq(Clusters) /\ a \in Nat \ {0} /\ a = Len(ch) /\ Distinct(ch, a) /\ Within(m, ch, a, S)
      /\ (fp.dirty => fp.dsect \in Own(m, ch))
      /\ Held(h, m, ch, Latest(fp, d), fp.fptr)
      /\ Follows(h, fp.fptr, w) /\ w # <<>>
  BY DEF Writing
<1>2. /\ cl = ch[a] /\ k \in 0 .. (m - 1)
      /\ AtSector(fp) => kc = k /\ fp.fptr = Pos(m, a, k, 0)
      /\ ~AtSector(fp) => from \in 1 .. (SS - 1) /\ fp.fptr = Pos(m, a, k, 0) + from
  BY DEF Stand
<1>3. SS \in Nat \ {0} /\ Len(w) \in Nat /\ Len(w) # 0 /\ fp.fptr \in Nat
  BY <1>1, SizesAssumption, LenProperties, EmptySeq DEF Follows, FilType
<1>4. from \in 0 .. (SS - 1) /\ (AtSector(fp) => from = 0) /\ (~AtSector(fp) => from > 0)
  BY <1>2, <1>3 DEF AtSector
<1>5. n \in Nat \ {0} /\ n <= Len(w) /\ from + n <= SS /\ n \in 1 .. Len(w)
  <2>1. SS - from \in Nat /\ SS - from >= 1 /\ Len(w) \in Nat
    BY ONLY <1>3, <1>4
  <2>2. n = IF SS - from <= Len(w) THEN SS - from ELSE Len(w)
    <3>1. SS - from \in Int /\ Len(w) \in Int /\ n = Min({SS - from, Len(w)})
      BY <2>1
    <3> QED
      BY ONLY <3>1, MinTwo
  <2> QED
    BY ONLY <1>3, <1>4, <2>1, <2>2
<1>6. s = SectorAt(m, ch[a], k)
  BY <1>2
<1>7. fp.fptr = Pos(m, a, k, 0) + from
  <2>1. Pos(m, a, k, 0) \in Int
    <3>1. m \in Nat /\ a \in Int /\ k \in Int /\ 0 \in Int
      BY <1>1, <1>2
    <3> QED
      BY ONLY <3>1, PosType
  <2> QED
    BY ONLY <1>2, <1>4, <2>1
<1>8. from > 0 => fp.dirty /\ fp.dsect = s
  BY <1>2, <1>4, <1>6
<1>9. d2 \in [S -> [1 .. SS -> Byte]] /\ SameBut(S, s, d2, Latest(fp, d))
  <2>1. Latest(fp, d) \in [S -> [1 .. SS -> Byte]] /\ \A t \in S : t # fp.dsect => Latest(fp, d)[t] = d[t]
    BY <1>1, LatestType
  <2>2. ~AtSector(fp) => fp.dsect = s
    BY <1>6, <1>2
  <2> QED
    BY <1>1, <2>1, <2>2 DEF SameBut
<1>10. /\ fp2 \in FilType(v) /\ fp2.fptr = fp.fptr + n /\ fp2.fsize = fp.fsize
       /\ OutOk(fp2, m, ch) /\ fp2.dirty /\ fp2.dsect = s
       /\ fp2.fptr <= Room(m, ch)
       /\ Held(h, m, ch, Latest(fp2, d2), fp2.fptr)
  <2>1. fp2 = PartFil(fp, s, ch[a], k, w, from, n)
    BY <1>2
  <2>2. PartHyp(v, m, S, d, fp, ch, a, k, from, s, h, w, n, fp2, d2)
    BY ONLY <1>1, <1>2, <1>4, <1>5, <1>6, <1>7, <1>8, <1>9, <2>1, Zenon DEF PartHyp
  <2> QED
    BY ONLY <2>2, PartWritten, Zenon
<1>11. s \in Own(m, ch)
  <2>1. <<a, k>> \in (DOMAIN ch) \X (0 .. (m - 1))
    <3>1. a \in 1 .. a /\ DOMAIN ch = 1 .. a
      BY <1>1 DEF Distinct
    <3> QED
      BY <1>2, <3>1
  <2> QED
    BY <1>6, <2>1 DEF Own
<1>12. \A t \in S : t \notin Own(m, ch) => d2[t] = d[t]
  <2> DEFINE O == Own(m, ch)
  <2>1. fp.dirty => fp.dsect \in O
    BY <1>1
  <2> HIDE DEF O
  <2>2. \A t \in S : t \notin O => Latest(fp, d)[t] = d[t]
    <3>1. d \in [S -> [1 .. SS -> Byte]] /\ fp \in FilType(v)
      BY <1>1
    <3>2. \A t \in S : t # fp.dsect => Latest(fp, d)[t] = d[t]
      BY ONLY <3>1, LatestType
    <3>3. ~fp.dirty => Latest(fp, d) = d
      BY DEF Latest
    <3> QED
      BY ONLY <2>1, <3>2, <3>3
  <2>3. d2 = Latest(fp, d) \/ d2 = d
    OBVIOUS
  <2> QED
    BY ONLY <2>2, <2>3 DEF O
<1> QED
  BY ONLY <1>5, <1>9, <1>10, <1>11, <1>12, Zenon DEF StoredMore

-----------------------------------------------------------------------------
(* f_write goes on.                                                        *)
EndsAt(h, pos, s) ==
    /\ s \in Seq(Byte) /\ Len(s) <= pos
    /\ \A j \in 1 .. Len(s) : s[j] = h[pos - Len(s) + j]

LEMMA PositionInHost ==
    ASSUME IInv, Copying
    PROVE  Position \in Nat /\ Len(host[file]) \in Nat /\ Position <= Len(host[file])
<1>1. file \in Files /\ Volumes = {0, 1}
  BY DEF IInv, ControlShape, Copying, Volumes
<1>2. Len(host[file]) \in Nat
  BY <1>1, FileType DEF IInv
<1>3. CASE ~Reads
  BY <1>2, <1>3 DEF IInv, ChunkShape, Position
<1>4. CASE Reads
  <2>1. in.fptr \in Nat /\ in.fsize \in Nat /\ in.fptr <= in.fsize /\ LengthOf(entry[0][file]) = in.fsize
    BY <1>4, ReadLength
  <2>2. entry[0][file].rooted => entry[0][file].size <= Len(host[file])
    BY <1>1 DEF IInv, EntryShape, EntryOk
  <2>3. in.fsize <= Len(host[file])
    BY <1>2, <2>1, <2>2 DEF LengthOf
  <2>4. Position = in.fptr
    BY <1>4 DEF Position
  <2> QED
    BY ONLY <1>2, <2>1, <2>3, <2>4
<1> QED
  BY <1>3, <1>4

(* The first q bytes of what is left have been stored.                     *)
LEMMA RestTail ==
    ASSUME NEW h, NEW pos \in Nat, NEW w, EndsAt(h, pos, w), NEW q \in 1 .. Len(w)
    PROVE  /\ EndsAt(h, pos, SubSeq(w, q + 1, Len(w))) /\ Len(SubSeq(w, q + 1, Len(w))) \in Nat
           /\ Len(SubSeq(w, q + 1, Len(w))) = Len(w) - q
<1> DEFINE l == Len(w)
           t == SubSeq(w, q + 1, l)
<1>1. w \in Seq(Byte) /\ l <= pos /\ \A j \in 1 .. l : w[j] = h[pos - l + j]
  BY DEF EndsAt
<1>2. l \in Nat /\ \A j \in 1 .. l : w[j] \in Byte
  BY <1>1, LenProperties, ElementOfSeq
<1>3. t = SubSeq(w, q + 1, l) /\ q \in 1 .. l
  OBVIOUS
<1> HIDE DEF l, t
<1>4. q \in Nat /\ q <= l /\ q + 1 \in Int /\ l \in Int
  BY ONLY <1>2, <1>3
<1>5. \A j \in (q + 1) .. l : w[j] \in Byte
  BY ONLY <1>2, <1>4
<1>6. /\ t \in Seq(Byte)
      /\ Len(t) = IF q + 1 <= l THEN l - (q + 1) + 1 ELSE 0
      /\ \A j \in 1 .. (l - (q + 1) + 1) : t[j] = w[(q + 1) + j - 1]
  BY ONLY <1>3, <1>4, <1>5, SubSeqProperties
<1>7. Len(t) = l - q /\ Len(t) \in Nat
  BY ONLY <1>4, <1>6, <1>2
<1>8. \A j \in 1 .. Len(t) : t[j] = h[pos - Len(t) + j]
  <2> SUFFICES ASSUME NEW j \in 1 .. Len(t) PROVE t[j] = h[pos - Len(t) + j]
    OBVIOUS
  <2>1. j \in 1 .. (l - (q + 1) + 1) /\ (q + 1) + j - 1 = q + j /\ q + j \in 1 .. l
    BY ONLY <1>2, <1>4, <1>7, j \in 1 .. Len(t)
  <2>2. t[j] = w[q + j]
    BY ONLY <1>6, <2>1
  <2>3. pos - l + (q + j) = pos - Len(t) + j
    BY ONLY <1>2, <1>4, <1>7, <2>1, pos \in Nat, j \in 1 .. Len(t)
  <2>4. w[q + j] = h[pos - l + (q + j)]
    BY ONLY <1>1, <2>1
  <2> QED
    BY ONLY <2>2, <2>3, <2>4
<1>9. Len(t) <= pos
  BY ONLY <1>1, <1>2, <1>4, <1>7, pos \in Nat
<1> QED
  BY ONLY <1>6, <1>7, <1>8, <1>9 DEF EndsAt, l, t

LEMMA RestFollows ==
    ASSUME NEW h, NEW pos \in Nat, NEW w, EndsAt(h, pos, w), NEW p \in Nat, p + Len(w) = pos
    PROVE  Follows(h, p, w)
<1>1. w \in Seq(Byte) /\ Len(w) \in Nat /\ \A j \in 1 .. Len(w) : w[j] = h[pos - Len(w) + j]
  BY LenProperties DEF EndsAt
<1>2. \A j \in 1 .. Len(w) : pos - Len(w) + j = p + j
  BY <1>1
<1> QED
  BY <1>1, <1>2 DEF Follows

(* What f_write finds.                                                     *)
LEMMA WriteReady ==
    ASSUME IInv, pc = "write", rest # <<>>, ~AtCluster(out) \/ Free(Target) # {}
    PROVE  /\ Copying /\ Writes /\ file \in Files /\ Target \in Volumes /\ out.vol = Target
           /\ out \in FilType(Target) /\ csize[Target] \in Nat \ {0}
           /\ data[Target] \in [SectorsOf(Target) -> [1 .. SS -> Byte]]
           /\ Placed(out, csize[Target], chain[Target][file], Len(chain[Target][file]))
           /\ ~AtSector(out) => out.dirty /\ out.dsect = SectorAt(csize[Target], out.clust, out.csect - 1)
           /\ out.dirty => out.dsect \in Own(csize[Target], chain[Target][file])
           /\ Held(host[file], csize[Target], chain[Target][file], Latest(out, data[Target]), out.fptr)
           /\ out.fptr \in Nat /\ out.fptr <= Room(csize[Target], chain[Target][file])
           /\ out.fptr + Len(rest) = Position /\ Follows(host[file], out.fptr, rest)
           /\ EndsAt(host[file], Position, rest) /\ Len(rest) \in Nat
           /\ Position \in Nat /\ Len(host[file]) \in Nat /\ Position <= Len(host[file])
<1> USE DEF IInv
<1>1. Copying /\ Writes /\ file \in Files /\ Target \in Volumes
  BY DEF Copying, ControlShape, Target, Volumes
<1>2. csize[Target] \in Nat \ {0} /\ data[Target] \in [SectorsOf(Target) -> [1 .. SS -> Byte]]
  BY <1>1 DEF HostShape, VolumeShape
<1>3. /\ out \in FilType(Target)
      /\ OutOk(out, csize[Target], chain[Target][file])
      /\ out.dirty => out.dsect \in Own(csize[Target], chain[Target][file])
      /\ Held(host[file], csize[Target], chain[Target][file], Latest(out, data[Target]), out.fptr)
      /\ out.fptr <= Room(csize[Target], chain[Target][file])
  BY <1>1 DEF OutShape
<1>4. out.fptr \in Nat /\ out.vol = Target
  BY <1>3 DEF FilType
<1>5. Position \in Nat /\ Len(host[file]) \in Nat /\ Position <= Len(host[file])
  BY <1>1, PositionInHost
<1>6. EndsAt(host[file], Position, rest) /\ Len(rest) \in Nat
  <2>1. Ends(rest)
    BY <1>1 DEF ChunkShape
  <2> QED
    BY <2>1, LenProperties DEF Ends, EndsAt
<1>7. out.fptr + Len(rest) = Position
  BY <1>1 DEF AlignShape, Pending
<1>8. Follows(host[file], out.fptr, rest)
  BY ONLY <1>4, <1>5, <1>6, <1>7, RestFollows
<1> QED
  BY <1>1, <1>2, <1>3, <1>4, <1>5, <1>6, <1>7, <1>8 DEF OutOk

LEMMA OwnMore ==
    ASSUME NEW m, NEW ch \in Seq(Clusters), NEW c \in Clusters
    PROVE  Own(m, ch) \subseteq Own(m, Append(ch, c))
<1> DEFINE t == Append(ch, c)
<1>1. DOMAIN ch = 1 .. Len(ch) /\ DOMAIN t = 1 .. (Len(ch) + 1) /\ Len(ch) \in Nat /\ \A i \in 1 .. Len(ch) : t[i] = ch[i]
  <2>1. t \in Seq(Clusters) /\ Len(t) = Len(ch) + 1 /\ \A i \in 1 .. Len(ch) : t[i] = ch[i]
    BY AppendProperties
  <2> QED
    BY <2>1, LenProperties
<1> HIDE DEF t
<1>2. \A x \in (DOMAIN ch) \X (0 .. (m - 1)) : x \in (DOMAIN t) \X (0 .. (m - 1)) /\ t[x[1]] = ch[x[1]]
  BY <1>1
<1> QED
  BY <1>2 DEF Own, t

(* The sector at which it goes on, with the cluster that it has linked.    *)
LEMMA WriteAt ==
    ASSUME IInv, Write
    PROVE  \E cl, k, kc :
              /\ WriteTurn(cl, kc)
              /\ Stand(out, csize[Target], chain'[Target][file], Len(chain'[Target][file]), cl, k, kc)
              /\ ~AtSector(out) => out.dirty /\ out.dsect = SectorAt(csize[Target], cl, k)
              /\ chain' \in [Volumes -> [Files -> Seq(Clusters)]] /\ used' \in [Volumes -> SUBSET Clusters]
              /\ ChainShape'
              /\ \A w \in Volumes, g \in Files : w # Target \/ g # file => chain'[w][g] = chain[w][g]
              /\ Own(csize[Target], chain[Target][file]) \subseteq Own(csize[Target], chain'[Target][file])
              /\ Held(host[file], csize[Target], chain'[Target][file], Latest(out, data[Target]), out.fptr)
<1> DEFINE v == Target
           m == csize[v]
           ch == chain[v][file]
<1>1. pc = "write" /\ rest # <<>> /\ UNCHANGED <<host, names, csize>>
      /\ \/ ~AtCluster(out) /\ WriteTurn(out.clust, out.csect) /\ UNCHANGED <<chain, used>>
         \/ AtCluster(out) /\ \E c \in Free(out.vol) : Linked(c) /\ WriteTurn(c, 0)
  BY DEF Write
<1>2. ~AtCluster(out) \/ Free(Target) # {}
  <2>1. AtCluster(out) => Free(out.vol) # {}
    BY <1>1
  <2>2. out.vol = Target
    <3>1. Copying /\ Writes
      BY <1>1 DEF Copying, IInv, ControlShape
    <3>2. out \in FilType(Target)
      BY <3>1 DEF IInv, OutShape
    <3> QED
      BY <3>2 DEF FilType
  <2> QED
    BY <2>1, <2>2
<1>3. /\ file \in Files /\ v \in Volumes /\ out.vol = v /\ out \in FilType(v) /\ m \in Nat \ {0}
      /\ Placed(out, m, ch, Len(ch))
      /\ ~AtSector(out) => out.dirty /\ out.dsect = SectorAt(m, out.clust, out.csect - 1)
      /\ Held(host[file], m, ch, Latest(out, data[v]), out.fptr)
      /\ out.fptr \in Nat /\ out.fptr <= Room(m, ch)
  BY <1>1, <1>2, WriteReady
<1>4. ch \in Seq(Clusters) /\ Len(ch) \in Nat
  BY <1>3, ChainType DEF IInv
<1>5. CASE ~AtCluster(out)
  <2> DEFINE k == IF AtSector(out) THEN out.csect ELSE out.csect - 1
  <2>1. WriteTurn(out.clust, out.csect) /\ chain' = chain /\ used' = used
    BY <1>1, <1>5
  <2>2. Stand(out, m, ch, Len(ch), out.clust, k, out.csect)
    <3>1. ~(AtSector(out) /\ out.csect >= m)
      BY <1>3, <1>5 DEF AtCluster
    <3> HIDE DEF m, ch, v
    <3> QED
      BY ONLY <1>3, <1>4, <3>1, StandsHere
  <2>3. ~AtSector(out) => out.dirty /\ out.dsect = SectorAt(m, out.clust, k)
    BY <1>3
  <2>4. /\ chain' \in [Volumes -> [Files -> Seq(Clusters)]] /\ used' \in [Volumes -> SUBSET Clusters]
        /\ ChainShape'
    <3>1. Files' = Files
      BY <1>1 DEF Files
    <3> QED
      BY <2>1, <3>1 DEF IInv, VolumeShape, ChainShape
  <2> HIDE DEF k
  <2> QED
    BY <1>3, <2>1, <2>2, <2>3, <2>4
<1>6. CASE AtCluster(out)
  <2>1. PICK c \in Free(v) : Linked(c) /\ WriteTurn(c, 0)
    BY <1>1, <1>3, <1>6
  <2>2. /\ ChainShape' /\ c \in Clusters
        /\ chain' \in [Volumes -> [Files -> Seq(Clusters)]] /\ used' \in [Volumes -> SUBSET Clusters]
        /\ chain'[v][file] = Append(ch, c)
        /\ \A w \in Volumes, g \in Files : w # v \/ g # file => chain'[w][g] = chain[w][g]
    BY <1>1, <1>3, <2>1, LinkedKept DEF IInv
  <2> DEFINE t == Append(ch, c)
  <2>3. Len(t) = Len(ch) + 1 /\ t[Len(ch) + 1] = c
    BY <1>4, <2>2, AppendProperties
  <2>4. AtSector(out) /\ out.csect >= m
    BY <1>3, <1>6 DEF AtCluster
  <2>5. Own(m, ch) \subseteq Own(m, t)
    BY <1>4, <2>2, OwnMore
  <2>6. Held(host[file], m, t, Latest(out, data[v]), out.fptr)
    BY <1>3, <1>4, <2>2, HeldLonger
  <2>7. Stand(out, m, t, Len(ch) + 1, c, 0, 0)
    <3> HIDE DEF t, m, ch, v
    <3> QED
      BY ONLY <1>3, <1>4, <2>3, <2>4, StandsNext
  <2> HIDE DEF t
  <2>8. chain'[v][file] = t
    BY <2>2 DEF t
  <2> QED
    BY <2>1, <2>2, <2>3, <2>4, <2>5, <2>6, <2>7, <2>8
<1> QED
  BY <1>5, <1>6

LEMMA ChainApart ==
    ASSUME NEW cs \in [Volumes -> [Files -> Seq(Clusters)]], NEW v \in Volumes, NEW f \in Files, csize[v] \in Nat \ {0},
           \A i, j \in DOMAIN cs[v][f] : cs[v][f][i] = cs[v][f][j] => i = j
    PROVE  /\ cs[v][f] \in Seq(Clusters) /\ Len(cs[v][f]) \in Nat
           /\ Distinct(cs[v][f], Len(cs[v][f]))
           /\ Within(csize[v], cs[v][f], Len(cs[v][f]), SectorsOf(v))
<1> DEFINE ch == cs[v][f]
<1>1. ch \in Seq(Clusters)
  OBVIOUS
<1>2. \A i, j \in DOMAIN ch : ch[i] = ch[j] => i = j
  OBVIOUS
<1> HIDE DEF ch
<1>3. Len(ch) \in Nat /\ DOMAIN ch = 1 .. Len(ch) /\ \A i \in 1 .. Len(ch) : ch[i] \in Clusters
  BY ONLY <1>1, LenProperties, ElementOfSeq
<1>4. Clusters \subseteq Int
  BY SizesAssumption DEF Clusters
<1>5. Distinct(ch, Len(ch))
  BY ONLY <1>2, <1>3, <1>4 DEF Distinct
<1>6. Within(csize[v], ch, Len(ch), SectorsOf(v))
  BY <1>3, SectorInVolume DEF Within
<1> QED
  BY <1>1, <1>3, <1>5, <1>6 DEF ch

WholeTurned(v, cl, k, n, s) ==
    /\ n = Min({Len(rest) \div SS, csize[v] - k}) /\ s = SectorAt(csize[v], cl, k)
    /\ out' = WholeFil(out, s, cl, k, n, Moved(rest, n))
    /\ data'[v] = WholeData(SectorsOf(v), Latest(out, data[v]), s, n, Moved(rest, n))
    /\ rest' = SubSeq(rest, n * SS + 1, Len(rest))
    /\ data' = [data EXCEPT ![v] = data'[v]]

(* The turns of f_write, in the variables.                                 *)
LEMMA WholeTurn ==
    ASSUME NEW v \in Volumes, VolumeShape, out.vol = v,
           NEW cl, NEW k, WriteWhole(cl, k)
    PROVE  \E n, s : WholeTurned(v, cl, k, n, s)
<1>0. data = [w \in Volumes |-> data[w]] /\ DOMAIN data[v] = SectorsOf(v)
  <2>1. data = [w \in Volumes |-> data[w]] /\ data[v] \in [SectorsOf(v) -> [1 .. SS -> Byte]]
    BY DEF VolumeShape
  <2> QED
    BY <2>1
<1> DEFINE n == Whole(out, k, Len(rest))
           s == Sector(out.vol, cl, k)
           moved == Moved(rest, n)
           F == Flushed(out)
           e == [t \in DOMAIN data[out.vol] |-> IF t \in s .. (s + n - 1) THEN moved[t - s + 1] ELSE F[t]]
<1>1. n = Min({Len(rest) \div SS, csize[v] - k}) /\ s = SectorAt(csize[v], cl, k) /\ F = Latest(out, data[v])
  BY DEF Whole, Sector, SectorAt, Flushed, Latest
<1>2. data' = [data EXCEPT ![out.vol] = e]
  BY DEF WriteWhole, Moved
<1>3. out' = WholeFil(out, s, cl, k, n, moved) /\ rest' = SubSeq(rest, n * SS + 1, Len(rest))
  BY DEF WriteWhole, Moved, WholeFil
<1> HIDE DEF n, s, F
<1>4. e = WholeData(SectorsOf(v), Latest(out, data[v]), s, n, Moved(rest, n))
  BY ONLY <1>0, <1>1, out.vol = v DEF WholeData
<1> HIDE DEF e
<1>5. data'[v] = e /\ data' = [data EXCEPT ![v] = e]
  BY ONLY <1>2, <1>0, v \in Volumes, out.vol = v
<1> QED
  BY ONLY <1>1, <1>3, <1>4, <1>5, Zenon DEF WholeTurned

PartTurned(v, m, cl, k, kc, from, n, s) ==
    /\ from = out.fptr % SS /\ n = Min({SS - from, Len(rest)})
    /\ s = (IF AtSector(out) THEN SectorAt(m, cl, kc) ELSE out.dsect)
    /\ out' = PartFil(out, s, cl, k, rest, from, n)
    /\ data'[v] = (IF AtSector(out) THEN Latest(out, data[v]) ELSE data[v])
    /\ rest' = SubSeq(rest, n + 1, Len(rest))
    /\ data' = [data EXCEPT ![v] = data'[v]]

LEMMA PartTurn ==
    ASSUME NEW v \in Volumes, VolumeShape, out.vol = v, NEW m, m = csize[v],
           out \in FilType(v),
           NEW cl, NEW k, NEW kc, WritePart(cl, kc), AtSector(out) => kc = k, ~AtSector(out) => out.csect = k + 1
    PROVE  \E from, n, s : PartTurned(v, m, cl, k, kc, from, n, s)
<1>0. data = [w \in Volumes |-> data[w]] /\ DOMAIN data[v] = SectorsOf(v)
  <2>1. data = [w \in Volumes |-> data[w]] /\ data[v] \in [SectorsOf(v) -> [1 .. SS -> Byte]]
    BY DEF VolumeShape
  <2> QED
    BY <2>1
<1> DEFINE from == out.fptr % SS
           n == Min({SS - from, Len(rest)})
           s == IF AtSector(out) THEN SectorAt(m, cl, kc) ELSE out.dsect
           e == IF AtSector(out) THEN Latest(out, data[v]) ELSE data[v]
<1>1. Sector(out.vol, cl, kc) = SectorAt(m, cl, kc) /\ Flushed(out) = Latest(out, data[v])
  BY DEF Sector, SectorAt, Flushed, Latest
<1>2. (IF AtSector(out) THEN kc + 1 ELSE out.csect) = k + 1
  OBVIOUS
<1>3. /\ data' = [data EXCEPT ![v] = IF AtSector(out) THEN Latest(out, data[v]) ELSE @]
      /\ rest' = SubSeq(rest, n + 1, Len(rest))
  BY <1>1, Zenon DEF WritePart
<1>4. out' = [out EXCEPT !.clust = cl, !.csect = IF AtSector(out) THEN kc + 1 ELSE @,
                         !.dsect = s, !.dirty = TRUE, !.fptr = @ + n,
                         !.buf = [b \in 1 .. SS |-> IF b \in (from + 1) .. (from + n)
                                                       THEN rest[b - from] ELSE @[b]]]
  BY <1>1, Zenon DEF WritePart
<1>5. out' = PartFil(out, s, cl, k, rest, from, n)
  BY <1>2, <1>4, Zenon DEF PartFil, PartBuf
<1> HIDE DEF from, n, s
<1>6. data'[v] = e
  BY ONLY <1>3, <1>0, v \in Volumes
<1>7. data' = [data EXCEPT ![v] = e]
  BY ONLY <1>3, <1>0, v \in Volumes
<1> HIDE DEF e
<1> QED
  BY ONLY <1>3, <1>5, <1>6, <1>7, Zenon DEF from, n, s, e, PartTurned

LEMMA WriteTurned ==
    ASSUME IInv, Write
    PROVE  \E q \in 1 .. Len(rest) :
              /\ StoredMore(Target, csize[Target], SectorsOf(Target), data[Target], out, chain'[Target][file],
                            host[file], rest, out', data'[Target], q)
              /\ rest' = SubSeq(rest, q + 1, Len(rest))
              /\ data' = [data EXCEPT ![Target] = data'[Target]]
              /\ chain' \in [Volumes -> [Files -> Seq(Clusters)]] /\ used' \in [Volumes -> SUBSET Clusters]
              /\ ChainShape'
              /\ \A w \in Volumes, g \in Files : w # Target \/ g # file => chain'[w][g] = chain[w][g]
<1> DEFINE v == Target
           m == csize[v]
           ch == chain'[v][file]
           a == Len(ch)
           S == SectorsOf(v)
           d == data[v]
           h == host[file]
<1>1. pc = "write" /\ rest # <<>> /\ host' = host /\ csize' = csize
  BY DEF Write
<1>2. PICK cl, k, kc :
              /\ WriteTurn(cl, kc)
              /\ Stand(out, m, ch, a, cl, k, kc)
              /\ ~AtSector(out) => out.dirty /\ out.dsect = SectorAt(m, cl, k)
              /\ chain' \in [Volumes -> [Files -> Seq(Clusters)]] /\ used' \in [Volumes -> SUBSET Clusters]
              /\ ChainShape'
              /\ \A w \in Volumes, g \in Files : w # Target \/ g # file => chain'[w][g] = chain[w][g]
              /\ Own(m, chain[v][file]) \subseteq Own(m, ch)
              /\ Held(h, m, ch, Latest(out, d), out.fptr)
  BY WriteAt
<1>3. ~AtCluster(out) \/ Free(Target) # {}
  <2>1. AtCluster(out) => Free(out.vol) # {}
    BY DEF Write
  <2>2. out.vol = Target
    <3>1. Copying /\ Writes
      BY <1>1 DEF Copying, IInv, ControlShape
    <3>2. out \in FilType(Target)
      BY <3>1 DEF IInv, OutShape
    <3> QED
      BY <3>2 DEF FilType
  <2> QED
    BY <2>1, <2>2
<1>4. /\ file \in Files /\ v \in Volumes /\ out.vol = v /\ out \in FilType(v) /\ m \in Nat \ {0}
      /\ d \in [S -> [1 .. SS -> Byte]]
      /\ out.dirty => out.dsect \in Own(m, chain[v][file])
      /\ Follows(h, out.fptr, rest) /\ Len(rest) \in Nat
  BY <1>1, <1>3, WriteReady
<1>5. ch \in Seq(Clusters) /\ Len(ch) \in Nat /\ Distinct(ch, a) /\ Within(m, ch, a, S)
  <2>1. \A i, j \in DOMAIN chain'[v][file] : chain'[v][file][i] = chain'[v][file][j] => i = j
    <3>1. file \in Files'
      BY <1>1, <1>4 DEF Files
    <3> QED
      BY <1>2, <1>4, <3>1 DEF ChainShape
  <2>2. chain' \in [Volumes -> [Files -> Seq(Clusters)]]
    BY <1>2
  <2> QED
    BY ONLY <1>4, <2>1, <2>2, ChainApart
<1>6. a \in Nat \ {0}
  BY <1>2 DEF Stand
<1>7. Writing(v, m, S, d, out, ch, a, h, rest)
  <2>1. out.dirty => out.dsect \in Own(m, ch)
    BY <1>2, <1>4
  <2> HIDE DEF v, m, ch, S, d, h
  <2> QED
    BY ONLY <1>1, <1>2, <1>4, <1>5, <1>6, <2>1, Zenon DEF Writing
<1>8. VolumeShape
  BY DEF IInv
<1>81. m = csize[v] /\ d = data[v] /\ S = SectorsOf(v)
  OBVIOUS
<1> HIDE DEF ch, h
<1>9. \E q : /\ StoredMore(v, m, S, d, out, ch, h, rest, out', data'[v], q)
             /\ rest' = SubSeq(rest, q + 1, Len(rest))
             /\ data' = [data EXCEPT ![v] = data'[v]]
  <2>1. CASE AtSector(out) /\ Len(rest) >= SS
    <3>1. WriteWhole(cl, kc) /\ kc = k
      BY <1>2, <2>1 DEF WriteTurn, Stand
    <3>2. WriteWhole(cl, k)
      BY <3>1
    <3>3. PICK n, s : /\ n = Min({Len(rest) \div SS, m - k}) /\ s = SectorAt(m, cl, k)
                     /\ out' = WholeFil(out, s, cl, k, n, Moved(rest, n))
                     /\ data'[v] = WholeData(S, Latest(out, d), s, n, Moved(rest, n))
                     /\ rest' = SubSeq(rest, n * SS + 1, Len(rest))
                     /\ data' = [data EXCEPT ![v] = data'[v]]
      <4> HIDE DEF v, m, S, d, a
      <4>1. v \in Volumes /\ VolumeShape /\ out.vol = v
        BY ONLY <1>4, <1>8, <1>81
      <4>3. \E n, s : WholeTurned(v, cl, k, n, s)
        BY ONLY <4>1, <3>2, WholeTurn
      <4> QED
        BY ONLY <1>81, <4>3, Zenon DEF WholeTurned
    <3>4. Stand(out, m, ch, a, cl, k, k)
      BY <1>2, <3>1
    <3> HIDE DEF v, m, S, d, a
    <3>5. StoredMore(v, m, S, d, out, ch, h, rest, out', data'[v], n * SS)
      BY ONLY <1>7, <2>1, <3>3, <3>4, WholeDone
    <3> QED
      BY ONLY <3>3, <3>5, Zenon
  <2>2. CASE ~(AtSector(out) /\ Len(rest) >= SS)
    <3>1. WritePart(cl, kc) /\ (AtSector(out) => kc = k) /\ (~AtSector(out) => out.csect = k + 1)
      BY <1>2, <2>2 DEF WriteTurn, Stand
    <3>2. PICK from, n, s :
              /\ from = out.fptr % SS /\ n = Min({SS - from, Len(rest)})
              /\ s = (IF AtSector(out) THEN SectorAt(m, cl, kc) ELSE out.dsect)
              /\ out' = PartFil(out, s, cl, k, rest, from, n)
              /\ data'[v] = (IF AtSector(out) THEN Latest(out, d) ELSE d)
              /\ rest' = SubSeq(rest, n + 1, Len(rest))
              /\ data' = [data EXCEPT ![v] = data'[v]]
      <4> HIDE DEF v, m, S, d, a
      <4>1. v \in Volumes /\ VolumeShape /\ out.vol = v /\ out \in FilType(v) /\ m = csize[v]
        BY ONLY <1>4, <1>8, <1>81
      <4>3. \E from, n, s : PartTurned(v, m, cl, k, kc, from, n, s)
        BY ONLY <4>1, <3>1, PartTurn
      <4> QED
        BY ONLY <1>81, <4>3, Zenon DEF PartTurned
    <3>3. Stand(out, m, ch, a, cl, k, kc) /\ (~AtSector(out) => out.dirty /\ out.dsect = SectorAt(m, cl, k))
      BY <1>2
    <3> HIDE DEF v, m, S, d, a
    <3>4. StoredMore(v, m, S, d, out, ch, h, rest, out', data'[v], n)
      BY ONLY <1>7, <3>2, <3>3, PartDone
    <3> QED
      BY ONLY <3>2, <3>4, Zenon
  <2> QED
    BY ONLY <2>1, <2>2
<1>10. PICK q : /\ StoredMore(v, m, S, d, out, ch, h, rest, out', data'[v], q)
                /\ rest' = SubSeq(rest, q + 1, Len(rest))
                /\ data' = [data EXCEPT ![v] = data'[v]]
  BY <1>9
<1>11. q \in 1 .. Len(rest)
  BY <1>10, Zenon DEF StoredMore
<1> QED
  BY <1>2, <1>10, <1>11, Zenon DEF ch, h

(* What is read does not change when a sector of the target is written.    *)
LEMMA SourceKept ==
    ASSUME IInv, Copying, UNCHANGED <<host, names, csize, cmd, file, in, entry>>,
           Reads => data'[0] = data[0] /\ chain'[0][file] = chain[0][file]
    PROVE  InShape' /\ Total' = Total
<1>1. /\ host' = host /\ csize' = csize /\ entry' = entry /\ cmd' = cmd /\ file' = file /\ in' = in
      /\ Reads' = Reads /\ SectorsOf(0)' = SectorsOf(0) /\ FilType(0)' = FilType(0)
  BY DEF Reads, SectorsOf
<1>2. Total' = Total
  BY <1>1 DEF Total
<1>3. InShape'
  <2> SUFFICES ASSUME Reads
               PROVE  /\ in \in FilType(0)
                      /\ in.fsize = entry[0][file].size /\ in.fptr <= in.fsize
                      /\ \E n \in 0 .. Len(chain'[0][file]) : Placed(in, csize[0], chain'[0][file], n)
                      /\ in.dsect # NoSector => in.dsect \in SectorsOf(0) /\ in.buf = data'[0][in.dsect]
                      /\ ~AtSector(in) => in.dsect = SectorAt(csize[0], in.clust, in.csect - 1)
    BY <1>1 DEF InShape
  <2>1. data'[0] = data[0] /\ chain'[0][file] = chain[0][file]
    OBVIOUS
  <2>2. InShape
    BY DEF IInv
  <2> QED
    BY <2>1, <2>2 DEF InShape
<1> QED
  BY <1>2, <1>3

LEMMA WriteStep == ASSUME IInv, Write PROVE IInv'
<1> USE DEF IInv
<1> DEFINE v == Target
           m == csize[v]
           ch == chain'[v][file]
           S == SectorsOf(v)
           h == host[file]
<1>1. /\ pc = "write" /\ pc' = "write" /\ rest # <<>>
      /\ UNCHANGED <<host, names, csize, entry, room, in, cmdVars, pc, chunk, todo, res, errs>>
      /\ UNCHANGED <<cmd, file, hpos, got, lost, full>>
  BY DEF Write, cmdVars
<1>2. /\ Copying /\ Copying' /\ Writes /\ Writes' /\ Target' = Target /\ Files' = Files /\ Reads' = Reads
      /\ \A w \in Volumes : SectorsOf(w)' = SectorsOf(w)
  BY <1>1 DEF Copying, ControlShape, Writes, Reads, Target, Files, SectorsOf
<1>3. ~AtCluster(out) \/ Free(Target) # {}
  <2>1. AtCluster(out) => Free(out.vol) # {}
    BY DEF Write
  <2>2. out \in FilType(Target)
    BY <1>2 DEF OutShape
  <2>3. out.vol = Target
    BY <2>2 DEF FilType
  <2> QED
    BY <2>1, <2>3
<1>4. /\ file \in Files /\ v \in Volumes /\ out.fptr \in Nat /\ out.fptr + Len(rest) = Position
      /\ EndsAt(h, Position, rest) /\ Len(rest) \in Nat
      /\ Position \in Nat /\ Len(h) \in Nat /\ Position <= Len(h)
  BY <1>1, <1>3, WriteReady
<1>5. PICK q \in 1 .. Len(rest) :
              /\ StoredMore(v, m, S, data[v], out, ch, h, rest, out', data'[v], q)
              /\ rest' = SubSeq(rest, q + 1, Len(rest))
              /\ data' = [data EXCEPT ![v] = data'[v]]
              /\ chain' \in [Volumes -> [Files -> Seq(Clusters)]] /\ used' \in [Volumes -> SUBSET Clusters]
              /\ ChainShape'
              /\ \A w \in Volumes, g \in Files : w # v \/ g # file => chain'[w][g] = chain[w][g]
  BY WriteTurned
<1>6. /\ out' \in FilType(v) /\ out'.fptr = out.fptr + q /\ out'.fsize = out.fsize
      /\ OutOk(out', m, ch) /\ (out'.dirty => out'.dsect \in Own(m, ch))
      /\ out'.fptr <= Room(m, ch)
      /\ data'[v] \in [S -> [1 .. SS -> Byte]]
      /\ \A t \in S : t \notin Own(m, ch) => data'[v][t] = data[v][t]
      /\ Held(h, m, ch, Latest(out', data'[v]), out'.fptr)
  BY <1>5, Zenon DEF StoredMore
<1>7. EndsAt(h, Position, rest') /\ Len(rest') \in Nat /\ Len(rest') = Len(rest) - q
  <2>1. Position \in Nat /\ EndsAt(h, Position, rest) /\ q \in 1 .. Len(rest) /\ rest' = SubSeq(rest, q + 1, Len(rest))
    BY <1>4, <1>5
  <2> HIDE DEF h
  <2> QED
    BY ONLY <2>1, RestTail
<1>8. /\ \A w \in Volumes : w # v => data'[w] = data[w]
      /\ data' = [w \in Volumes |-> data'[w]]
  <2>1. data = [w \in Volumes |-> data[w]]
    BY DEF VolumeShape
  <2> HIDE DEF v
  <2> QED
    BY ONLY <1>5, <1>4, <2>1
<1>9. HostShape'
  BY <1>1, <1>2 DEF HostShape, Files
<1>10. VolumeShape'
  <2>1. \A w \in Volumes : data'[w] \in [SectorsOf(w) -> [1 .. SS -> Byte]]
    BY <1>6, <1>8 DEF VolumeShape
  <2>2. entry' \in [Volumes -> [Files -> [size : Int, rooted : BOOLEAN]]] /\ room' \in [Volumes -> Nat \cup {Dynamic}]
    BY <1>1 DEF VolumeShape
  <2> QED
    BY <1>2, <1>5, <1>8, <2>1, <2>2 DEF VolumeShape
<1>11. EntryShape'
  <2>1. entry' = entry /\ entry'[v][file] = Empty
    BY <1>1, <1>2 DEF OutShape
  <2>2. EntryOk(entry'[v][file], h, m, ch, data'[v])
    BY <2>1 DEF EntryOk, Empty
  <2>3. /\ \A w \in Volumes, g \in Files : w # v \/ g # file =>
               chain'[w][g] = chain[w][g] /\ entry'[w][g] = entry[w][g]
        /\ \A t \in SectorsOf(v) : t \notin Own(m, ch) => data'[v][t] = data[v][t]
    BY <1>5, <1>6, <2>1
  <2>4. HostShape /\ VolumeShape /\ ChainShape /\ EntryShape /\ UNCHANGED <<host, names, csize>>
    BY <1>1
  <2>5. /\ \A t \in SectorsOf(v) : t \notin Own(csize[v], chain'[v][file]) => data'[v][t] = data[v][t]
        /\ EntryOk(entry'[v][file], host[file], csize[v], chain'[v][file], data'[v])
        /\ \A w \in Volumes, g \in Files : w # v \/ g # file =>
               chain'[w][g] = chain[w][g] /\ entry'[w][g] = entry[w][g]
    BY <2>2, <2>3
  <2>6. /\ v \in Volumes /\ file \in Files /\ ChainShape' /\ VolumeShape'
        /\ \A w \in Volumes : w # v => data'[w] = data[w]
    BY <1>4, <1>5, <1>8, <1>10
  <2> HIDE DEF v
  <2> QED
    BY ONLY <2>4, <2>5, <2>6, OneFile
<1>12. out'.fptr \in Nat /\ out'.fptr + Len(rest') = Position /\ out'.fptr <= Len(h) /\ out'.fsize <= out'.fptr
  <2>1. out.fsize <= out.fptr /\ out.fsize \in Nat
    BY <1>2 DEF OutShape, FilType
  <2> DEFINE x == Len(rest)
             y == Len(h)
  <2>2. q \in 1 .. x /\ x \in Nat /\ y \in Nat /\ Position <= y /\ Position \in Nat
    BY <1>4
  <2>3. out.fptr \in Nat /\ out.fptr + x = Position /\ Len(rest') = x - q
    BY <1>4, <1>7
  <2>4. out'.fptr = out.fptr + q /\ out'.fsize = out.fsize
    BY <1>6
  <2> HIDE DEF h, v, x, y
  <2>5. out'.fptr \in Nat /\ out'.fptr + Len(rest') = Position /\ out'.fptr <= y /\ out'.fsize <= out'.fptr
    BY ONLY <2>1, <2>2, <2>3, <2>4
  <2> QED
    BY ONLY <2>5 DEF y
<1>13. OutShape'
  <2>1. /\ out' \in FilType(Target') /\ entry'[Target'][file'] = Empty /\ out'.fsize <= out'.fptr
        /\ out'.fptr <= Len(host'[file']) /\ out'.fptr <= Room(csize'[Target'], chain'[Target'][file'])
        /\ Held(host'[file'], csize'[Target'], chain'[Target'][file'], Latest(out', data'[Target']), out'.fptr)
        /\ out'.dirty => out'.dsect \in Own(csize'[Target'], chain'[Target'][file'])
        /\ OutOk(out', csize'[Target'], chain'[Target'][file'])
    <3>1. entry[Target][file] = Empty
      BY <1>2 DEF OutShape
    <3> QED
      BY <1>1, <1>2, <1>6, <1>12, <3>1
  <2> QED
    BY <1>1, <2>1 DEF OutShape
<1>14. InShape' /\ Total' = Total
  <2>1. Reads => v = 1
    BY <1>2 DEF Reads, Writes, Target
  <2>2. Reads => data'[0] = data[0] /\ chain'[0][file] = chain[0][file]
    BY <1>4, <1>5, <1>8, <2>1 DEF Volumes
  <2> QED
    BY <1>1, <1>2, <2>2, SourceKept
<1>15. Position' = Position /\ Pending' = Len(rest') /\ host'[file'] = h
  BY <1>1, <1>2 DEF Position, Pending
<1>16. Ends(rest)' /\ Ends(chunk)'
  <2>1. Ends(rest)'
    BY ONLY <1>7, <1>15 DEF Ends, EndsAt
  <2>2. Ends(chunk)
    BY <1>1, <1>2 DEF ChunkShape
  <2> QED
    BY <1>1, <1>15, <2>1, <2>2 DEF Ends
<1>17. ChunkShape'
  BY <1>1, <1>2, <1>14, <1>15, <1>16 DEF ChunkShape
<1>18. AlignShape'
  BY <1>1, <1>2, <1>12, <1>15 DEF AlignShape
<1>19. GetShape'
  BY <1>1, <1>2 DEF GetShape, Writes
<1>20. PutShape' /\ RebuildShape'
  BY <1>1, <1>2, Counted DEF ControlShape
<1>21. ControlShape'
  BY <1>1, <1>2 DEF ControlShape
<1> QED
  BY <1>5, <1>9, <1>10, <1>11, <1>13, <1>14, <1>17, <1>18, <1>19, <1>20, <1>21

(* f_write fails: the file may have got a cluster more, and what was in    *)
(* the sector buffer may be in its sector.                                 *)
LEMMA RoomMore ==
    ASSUME NEW m \in Nat, NEW ch \in Seq(Clusters), NEW c \in Clusters
    PROVE  Room(m, ch) \in Nat /\ Room(m, Append(ch, c)) \in Nat /\ Room(m, ch) <= Room(m, Append(ch, c))
<1> DEFINE l == Len(ch)
           n == Len(Append(ch, c))
<1>1. l \in Nat /\ n = l + 1 /\ SS \in Nat
  BY LenProperties, AppendProperties, SizesAssumption
<1> HIDE DEF l, n
<1>2. l * m <= n * m /\ l * m \in Nat /\ n * m \in Nat
  BY ONLY <1>1, m \in Nat, Times
<1> DEFINE x == l * m
           y == n * m
<1>3. x <= y /\ x \in Nat /\ y \in Nat
  BY <1>2
<1> HIDE DEF x, y
<1>4. x * SS <= y * SS /\ x * SS \in Nat /\ y * SS \in Nat
  BY ONLY <1>1, <1>3, Times
<1>5. Room(m, ch) = x * SS /\ Room(m, Append(ch, c)) = y * SS
  BY DEF Room, x, y, l, n
<1> QED
  BY ONLY <1>4, <1>5

(* f_write fails when a cluster has been linked...                         *)
LEMMA FailLinks ==
    ASSUME IInv, pc = "write", UNCHANGED <<host, names, csize>>, out.vol = Target,
           \/ UNCHANGED <<chain, used>>
           \/ \E c \in Free(out.vol) : Linked(c)
    PROVE  /\ chain' \in [Volumes -> [Files -> Seq(Clusters)]] /\ used' \in [Volumes -> SUBSET Clusters]
           /\ ChainShape'
           /\ \A w \in Volumes, g \in Files : w # Target \/ g # file => chain'[w][g] = chain[w][g]
           /\ Own(csize[Target], chain[Target][file]) \subseteq Own(csize[Target], chain'[Target][file])
           /\ Held(host[file], csize[Target], chain'[Target][file], Latest(out, data[Target]), out.fptr)
           /\ out.fptr <= Room(csize[Target], chain'[Target][file])
<1> DEFINE v == Target
           m == csize[v]
           ch == chain[v][file]
           h == host[file]
<1>1. /\ file \in Files /\ v \in Volumes /\ Copying /\ Writes /\ m \in Nat \ {0}
  BY DEF IInv, ControlShape, Copying, Target, Volumes, HostShape
<1>2. /\ Held(h, m, ch, Latest(out, data[v]), out.fptr)
      /\ out.fptr \in Nat /\ out.fptr <= Room(m, ch)
  BY <1>1 DEF IInv, OutShape, FilType
<1>3. ch \in Seq(Clusters) /\ Len(ch) \in Nat
  BY <1>1, ChainType DEF IInv
<1>4. CASE UNCHANGED <<chain, used>>
  <2>1. chain' = chain /\ used' = used /\ Files' = Files
    BY <1>4 DEF Files
  <2>2. chain' \in [Volumes -> [Files -> Seq(Clusters)]] /\ used' \in [Volumes -> SUBSET Clusters] /\ ChainShape'
    BY <2>1 DEF IInv, VolumeShape, ChainShape
  <2> QED
    BY <1>2, <2>1, <2>2
<1>5. CASE \E c \in Free(out.vol) : Linked(c)
  <2>1. PICK c \in Free(v) : Linked(c)
    BY <1>5
  <2>2. /\ ChainShape' /\ c \in Clusters
        /\ chain' \in [Volumes -> [Files -> Seq(Clusters)]] /\ used' \in [Volumes -> SUBSET Clusters]
        /\ chain'[v][file] = Append(ch, c)
        /\ \A w \in Volumes, g \in Files : w # v \/ g # file => chain'[w][g] = chain[w][g]
    BY <1>1, <2>1, LinkedKept DEF IInv
  <2> DEFINE t == Append(ch, c)
  <2> HIDE DEF v, m, ch, h
  <2>3. Own(m, ch) \subseteq Own(m, t)
    BY ONLY <1>3, <2>2, OwnMore
  <2>4. Held(h, m, t, Latest(out, data[v]), out.fptr)
    BY ONLY <1>1, <1>2, <1>3, <2>2, HeldLonger
  <2>5. out.fptr <= Room(m, t)
    <3>1. Room(m, ch) \in Nat /\ Room(m, t) \in Nat /\ Room(m, ch) <= Room(m, t)
      BY ONLY <1>1, <1>3, <2>2, RoomMore
    <3> QED
      BY ONLY <1>2, <3>1
  <2> HIDE DEF t
  <2>6. chain'[v][file] = t
    BY <2>2 DEF t
  <2> QED
    BY ONLY <2>2, <2>3, <2>4, <2>5, <2>6 DEF v, m, ch, h
<1> QED
  BY <1>4, <1>5

(* ... or the sector buffer written.                                       *)
LEMMA FailFlushes ==
    ASSUME IInv, NEW v \in Volumes, out \in FilType(v),
           \/ UNCHANGED <<data, out>>
           \/ /\ AtSector(out) /\ out.dirty
              /\ data' = [data EXCEPT ![out.vol] = Flushed(out)]
              /\ out' = [out EXCEPT !.dirty = FALSE],
           out.dirty => out.dsect \in Own(csize[v], chain[v][file])
    PROVE  /\ out' \in FilType(v) /\ out'.fptr = out.fptr /\ out'.fsize = out.fsize
           /\ (out'.dirty => out.dirty) /\ out'.dsect = out.dsect
           /\ Latest(out', data'[v]) = Latest(out, data[v])
           /\ data'[v] \in [SectorsOf(v) -> [1 .. SS -> Byte]]
           /\ \A w \in Volumes : w # v => data'[w] = data[w]
           /\ data' = [w \in Volumes |-> data'[w]]
           /\ \A t \in SectorsOf(v) : t \notin Own(csize[v], chain[v][file]) => data'[v][t] = data[v][t]
<1>0. data = [w \in Volumes |-> data[w]] /\ data[v] \in [SectorsOf(v) -> [1 .. SS -> Byte]]
  BY DEF IInv, VolumeShape
<1>1. CASE UNCHANGED <<data, out>>
  BY <1>0, <1>1
<1>2. CASE /\ AtSector(out) /\ out.dirty
           /\ data' = [data EXCEPT ![out.vol] = Flushed(out)]
           /\ out' = [out EXCEPT !.dirty = FALSE]
  <2> DEFINE e == Latest(out, data[v])
  <2>1. out.vol = v
    BY DEF FilType
  <2>2. Flushed(out) = e
    BY <2>1 DEF Flushed, Latest
  <2>3. /\ e \in [SectorsOf(v) -> [1 .. SS -> Byte]]
        /\ \A t \in SectorsOf(v) : t # out.dsect => e[t] = data[v][t]
    BY <1>0, LatestType
  <2> HIDE DEF e
  <2>4. data' = [data EXCEPT ![v] = e]
    BY <1>2, <2>1, <2>2
  <2>5. data'[v] = e /\ (\A w \in Volumes : w # v => data'[w] = data[w]) /\ data' = [w \in Volumes |-> data'[w]]
    BY ONLY <1>0, <2>4, v \in Volumes
  <2>6. /\ out' \in FilType(v) /\ out'.fptr = out.fptr /\ out'.fsize = out.fsize /\ out'.dirty = FALSE
        /\ out'.dsect = out.dsect
    BY <1>2 DEF FilType
  <2>7. Latest(out', data'[v]) = e
    BY <2>5, <2>6 DEF Latest
  <2>8. \A t \in SectorsOf(v) : t \notin Own(csize[v], chain[v][file]) => data'[v][t] = data[v][t]
    BY <1>2, <2>3, <2>5
  <2> QED
    BY <1>2, <2>3, <2>5, <2>6, <2>7, <2>8, Zenon DEF e
<1> QED
  BY <1>1, <1>2

LEMMA WriteFailsStep == ASSUME IInv, WriteFails PROVE IInv'
<1> USE DEF IInv
<1> DEFINE v == Target
           m == csize[v]
           ch == chain'[v][file]
           S == SectorsOf(v)
           h == host[file]
<1>1. /\ pc = "write" /\ pc' = "drop" /\ errs' = errs + 1
      /\ UNCHANGED <<host, names, csize, entry, room, in, cmdVars, bufVars, res>>
      /\ UNCHANGED <<cmd, file, hpos, got, lost, full, chunk, todo, rest>>
  BY DEF WriteFails, cmdVars, bufVars, Fault
<1>2. /\ Copying /\ Copying' /\ Writes /\ Writes' /\ Target' = Target /\ Files' = Files /\ Reads' = Reads
      /\ file \in Files /\ v \in Volumes /\ errs \in Nat
      /\ \A w \in Volumes : SectorsOf(w)' = SectorsOf(w)
  BY <1>1 DEF Copying, ControlShape, Writes, Reads, Target, Files, SectorsOf, Volumes
<1>3. /\ out \in FilType(v) /\ entry[v][file] = Empty /\ out.fsize <= out.fptr /\ out.fptr <= Len(h)
      /\ out.dirty => out.dsect \in Own(m, chain[v][file])
  BY <1>2 DEF OutShape
<1>4. /\ chain' \in [Volumes -> [Files -> Seq(Clusters)]] /\ used' \in [Volumes -> SUBSET Clusters]
      /\ ChainShape'
      /\ \A w \in Volumes, g \in Files : w # v \/ g # file => chain'[w][g] = chain[w][g]
      /\ Own(m, chain[v][file]) \subseteq Own(m, ch)
      /\ Held(h, m, ch, Latest(out, data[v]), out.fptr)
      /\ out.fptr <= Room(m, ch)
  <2>1. out.vol = Target
    BY <1>3 DEF FilType
  <2>2. UNCHANGED <<chain, used>> \/ \E c \in Free(out.vol) : Linked(c)
    BY DEF WriteFails
  <2>3. host' = host /\ csize' = csize
    BY <1>1
  <2> QED
    BY <1>1, <2>1, <2>2, <2>3, FailLinks
<1>5. /\ out' \in FilType(v) /\ out'.fptr = out.fptr /\ out'.fsize = out.fsize
      /\ (out'.dirty => out.dirty) /\ out'.dsect = out.dsect
      /\ Latest(out', data'[v]) = Latest(out, data[v])
      /\ data'[v] \in [SectorsOf(v) -> [1 .. SS -> Byte]]
      /\ \A w \in Volumes : w # v => data'[w] = data[w]
      /\ data' = [w \in Volumes |-> data'[w]]
      /\ \A t \in SectorsOf(v) : t \notin Own(m, chain[v][file]) => data'[v][t] = data[v][t]
  <2>1. \/ UNCHANGED <<data, out>>
        \/ /\ AtSector(out) /\ out.dirty
           /\ data' = [data EXCEPT ![out.vol] = Flushed(out)]
           /\ out' = [out EXCEPT !.dirty = FALSE]
    BY DEF WriteFails
  <2> QED
    BY <1>2, <1>3, <2>1, FailFlushes
<1>6. HostShape'
  BY <1>1, <1>2 DEF HostShape, Files
<1>7. VolumeShape'
  <2>1. \A w \in Volumes : data'[w] \in [SectorsOf(w) -> [1 .. SS -> Byte]]
    BY <1>5 DEF VolumeShape
  <2>2. entry' \in [Volumes -> [Files -> [size : Int, rooted : BOOLEAN]]] /\ room' \in [Volumes -> Nat \cup {Dynamic}]
    BY <1>1 DEF VolumeShape
  <2> QED
    BY <1>2, <1>4, <1>5, <2>1, <2>2 DEF VolumeShape
<1>8. EntryShape'
  <2>1. entry' = entry /\ entry'[v][file] = Empty
    BY <1>1, <1>3
  <2>2. EntryOk(entry'[v][file], h, m, ch, data'[v])
    BY <2>1 DEF EntryOk, Empty
  <2>3. /\ \A w \in Volumes, g \in Files : w # v \/ g # file =>
               chain'[w][g] = chain[w][g] /\ entry'[w][g] = entry[w][g]
        /\ \A t \in SectorsOf(v) : t \notin Own(m, ch) => data'[v][t] = data[v][t]
    BY <1>4, <1>5, <2>1
  <2> HIDE DEF v
  <2> QED
    BY <1>1, <1>2, <1>4, <1>5, <1>7, <2>2, <2>3, OneFile
<1>9. OutShape'
  <2>1. /\ out' \in FilType(Target') /\ entry'[Target'][file'] = Empty /\ out'.fsize <= out'.fptr
        /\ out'.fptr <= Len(host'[file']) /\ out'.fptr <= Room(csize'[Target'], chain'[Target'][file'])
        /\ Held(host'[file'], csize'[Target'], chain'[Target'][file'], Latest(out', data'[Target']), out'.fptr)
        /\ out'.dirty => out'.dsect \in Own(csize'[Target'], chain'[Target'][file'])
    BY <1>1, <1>2, <1>3, <1>4, <1>5
  <2> QED
    BY <1>1, <2>1 DEF OutShape
<1>10. InShape' /\ Total' = Total
  <2>1. Reads => v = 1
    BY <1>2 DEF Reads, Writes, Target
  <2>2. Reads => data'[0] = data[0] /\ chain'[0][file] = chain[0][file]
    BY <1>2, <1>4, <1>5, <2>1 DEF Volumes
  <2> QED
    BY <1>1, <1>2, <2>2, SourceKept
<1>11. ChunkShape'
  BY <1>1, <1>2 DEF ChunkShape
<1>12. AlignShape'
  BY <1>1 DEF AlignShape
<1>13. GetShape'
  BY <1>1, <1>2 DEF GetShape, Writes
<1>14. PutShape' /\ RebuildShape'
  BY <1>1, <1>2, Counted
<1>15. ControlShape'
  BY <1>1, <1>2 DEF ControlShape
<1> QED
  BY <1>4, <1>6, <1>7, <1>8, <1>9, <1>10, <1>11, <1>12, <1>13, <1>14, <1>15

-----------------------------------------------------------------------------
(* f_read goes on.                                                         *)
LEMMA BlockOf ==
    ASSUME NEW len \in Nat \ {0}, NEW n \in Nat, NEW p \in 1 .. (n * len)
    PROVE  \E i \in 1 .. n, j \in 1 .. len : p = (i - 1) * len + j
<1> DEFINE q == (p - 1) \div len
           r == (p - 1) % len
           x == q * len
           y == n * len
<1>1. q \in Int /\ r \in 0 .. (len - 1) /\ p - 1 = x + r /\ x \in Int /\ y \in Int /\ p \in 1 .. y
  <2>1. p - 1 \in Int
    OBVIOUS
  <2> QED
    BY <2>1
<1> HIDE DEF q, r
<1>2. q >= 0
  <2> SUFFICES ASSUME q <= -1 PROVE FALSE
    BY <1>1
  <2>1. x <= -len
    <3>1. x <= (-1) * len
      BY <1>1, Times
    <3> QED
      BY <3>1
  <2> HIDE DEF x, y
  <2> QED
    BY ONLY <1>1, <2>1, len \in Nat \ {0}
<1>3. q < n
  <2> SUFFICES ASSUME n <= q PROVE FALSE
    BY <1>1
  <2>1. y <= x
    BY <1>1, Times
  <2> HIDE DEF x, y
  <2> QED
    BY ONLY <1>1, <2>1, len \in Nat \ {0}
<1>4. q + 1 \in 1 .. n /\ r + 1 \in 1 .. len /\ (q + 1) - 1 = q
  BY ONLY <1>1, <1>2, <1>3, n \in Nat, len \in Nat \ {0}
<1>5. p = x + (r + 1)
  <2> HIDE DEF x, y
  <2> QED
    BY ONLY <1>1
<1>6. p = ((q + 1) - 1) * len + (r + 1)
  BY ONLY <1>4, <1>5
<1> QED
  BY ONLY <1>4, <1>6, Zenon

(* Bytes that were read behind the others.                                 *)
LEMMA EndsMore ==
    ASSUME NEW h, NEW pos \in Nat, NEW s, NEW c, EndsAt(h, pos, s), Follows(h, pos, c)
    PROVE  /\ EndsAt(h, pos + Len(c), s \o c) /\ Len(c) \in Nat /\ Len(s) \in Nat
           /\ Len(s \o c) = Len(s) + Len(c)
<1> DEFINE a == Len(s)
           b == Len(c)
           t == s \o c
<1>1. /\ s \in Seq(Byte) /\ a <= pos /\ \A j \in 1 .. a : s[j] = h[pos - a + j]
      /\ c \in Seq(Byte) /\ \A j \in 1 .. b : c[j] = h[pos + j]
  BY DEF EndsAt, Follows
<1>2. a \in Nat /\ b \in Nat
  BY <1>1, LenProperties
<1>3. t \in Seq(Byte) /\ Len(t) = a + b /\ \A j \in 1 .. (a + b) : t[j] = IF j <= a THEN s[j] ELSE c[j - a]
  BY <1>1, ConcatProperties
<1> HIDE DEF a, b, t
<1>4. \A j \in 1 .. (a + b) : t[j] = h[(pos + b) - (a + b) + j]
  <2> SUFFICES ASSUME NEW j \in 1 .. (a + b) PROVE t[j] = h[(pos + b) - (a + b) + j]
    OBVIOUS
  <2>1. CASE j <= a
    <3>1. j \in 1 .. a /\ (pos + b) - (a + b) + j = pos - a + j
      BY ONLY <1>2, <2>1, pos \in Nat, j \in 1 .. (a + b)
    <3> QED
      BY <1>1, <1>3, <2>1, <3>1
  <2>2. CASE ~(j <= a)
    <3>1. j - a \in 1 .. b /\ (pos + b) - (a + b) + j = pos + (j - a)
      BY ONLY <1>2, <2>2, pos \in Nat, j \in 1 .. (a + b)
    <3> QED
      BY <1>1, <1>3, <2>2, <3>1
  <2> QED
    BY <2>1, <2>2
<1>5. a + b <= pos + b
  BY ONLY <1>1, <1>2, pos \in Nat
<1>6. EndsAt(h, pos + b, t)
  BY ONLY <1>3, <1>4, <1>5 DEF EndsAt
<1> QED
  BY <1>2, <1>3, <1>6 DEF a, b, t

(* The volume of the file, the FIL and how much is to be read.             *)
Reading(m, S, d, fp, ch, a, h, t) ==
    /\ m \in Nat \ {0} /\ d \in [S -> [1 .. SS -> Byte]] /\ fp \in FilType(0)
    /\ ch \in Seq(Clusters) /\ a \in 1 .. Len(ch) /\ Within(m, ch, Len(ch), S)
    /\ Held(h, m, ch, d, fp.fsize)
    /\ t \in Nat \ {0} /\ fp.fptr + t <= fp.fsize
    /\ (fp.dsect # NoSector => fp.dsect \in S /\ fp.buf = d[fp.dsect])

(* A turn of the loop of f_read has read c.                                *)
ReadMore(m, S, d, fp, ch, h, t, fp2, c) ==
    /\ fp2 \in FilType(0) /\ fp2.fptr = fp.fptr + Len(c) /\ fp2.fsize = fp.fsize
    /\ \E n \in 0 .. Len(ch) : Placed(fp2, m, ch, n)
    /\ (fp2.dsect # NoSector => fp2.dsect \in S /\ fp2.buf = d[fp2.dsect])
    /\ (~AtSector(fp2) => fp2.dsect = SectorAt(m, fp2.clust, fp2.csect - 1))
    /\ Follows(h, fp.fptr, c) /\ Len(c) \in Nat /\ Len(c) <= t

ReadFil(fp, cl, k, n) == [fp EXCEPT !.clust = cl, !.csect = k + n, !.fptr = @ + n * SS]

WholeReadHyp(m, S, d, fp, ch, a, h, t, cl, k, n, s, fp2, c) ==
    /\ Reading(m, S, d, fp, ch, a, h, t) /\ Stand(fp, m, ch, a, cl, k, k) /\ AtSector(fp) /\ t >= SS
    /\ n = Min({t \div SS, m - k}) /\ s = SectorAt(m, cl, k) /\ fp2 = ReadFil(fp, cl, k, n)
    /\ c = FlattenSeq([i \in 1 .. n |-> d[s + i - 1]])

(* Whole sectors are read straight from the image.                         *)
LEMMA WholeRead ==
    ASSUME NEW m, NEW S, NEW d, NEW fp, NEW ch, NEW a, NEW h, NEW t, NEW cl, NEW k, NEW n, NEW s, NEW fp2, NEW c,
           WholeReadHyp(m, S, d, fp, ch, a, h, t, cl, k, n, s, fp2, c)
    PROVE  ReadMore(m, S, d, fp, ch, h, t, fp2, c) /\ Len(c) = n * SS
<1>0. /\ Reading(m, S, d, fp, ch, a, h, t) /\ Stand(fp, m, ch, a, cl, k, k) /\ AtSector(fp) /\ t >= SS
      /\ n = Min({t \div SS, m - k}) /\ s = SectorAt(m, cl, k) /\ fp2 = ReadFil(fp, cl, k, n)
      /\ c = FlattenSeq([i \in 1 .. n |-> d[s + i - 1]])
  BY DEF WholeReadHyp
<1> USE <1>0
<1>1. /\ m \in Nat \ {0} /\ d \in [S -> [1 .. SS -> Byte]] /\ fp \in FilType(0)
      /\ ch \in Seq(Clusters) /\ a \in 1 .. Len(ch) /\ Within(m, ch, Len(ch), S)
      /\ Held(h, m, ch, d, fp.fsize)
      /\ t \in Nat \ {0} /\ fp.fptr + t <= fp.fsize
      /\ (fp.dsect # NoSector => fp.dsect \in S /\ fp.buf = d[fp.dsect])
  BY DEF Reading
<1>2. cl = ch[a] /\ k \in 0 .. (m - 1) /\ fp.fptr = Pos(m, a, k, 0)
  BY DEF Stand
<1>3. SS \in Nat \ {0} /\ fp.fptr \in Nat /\ fp.fsize \in Nat /\ k \in Int /\ a \in Int /\ m \in Nat
      /\ DOMAIN ch = 1 .. Len(ch) /\ Len(ch) \in Nat /\ cl \in Int
  <2>1. SS \in Nat \ {0} /\ Clusters \subseteq Int
    BY SizesAssumption DEF Clusters
  <2>2. DOMAIN ch = 1 .. Len(ch) /\ Len(ch) \in Nat /\ ch[a] \in Clusters
    BY ONLY <1>1, LenProperties, ElementOfSeq
  <2>3. fp.fptr \in Nat /\ fp.fsize \in Nat
    BY <1>1 DEF FilType
  <2>4. m \in Nat \ {0} /\ k \in 0 .. (m - 1) /\ a \in 1 .. Len(ch) /\ cl = ch[a]
    BY <1>1, <1>2
  <2>5. m \in Nat /\ k \in Int /\ a \in Int
    BY ONLY <2>2, <2>4
  <2>6. cl \in Int
    BY ONLY <2>1, <2>2, <2>4
  <2> QED
    BY ONLY <2>1, <2>2, <2>3, <2>5, <2>6
<1>4. n \in 1 .. (m - k) /\ n * SS <= t /\ n * SS \in Nat /\ n * SS >= 1 /\ n \in Nat
  <2> DEFINE b == t \div SS
  <2>1. b \in Nat /\ b >= 1 /\ \A q \in Nat : q <= b => q * SS \in Nat /\ q * SS <= t
    BY <1>1, <1>3, DivFacts
  <2> HIDE DEF b
  <2>2. m - k \in Nat /\ m - k >= 1
    BY <1>1, <1>2
  <2>3. n = IF b <= m - k THEN b ELSE m - k
    <3>1. b \in Int /\ m - k \in Int /\ n = Min({b, m - k})
      BY <2>1, <2>2 DEF b
    <3> QED
      BY ONLY <3>1, MinTwo
  <2>4. n \in 1 .. (m - k) /\ n <= b /\ n \in Nat
    BY ONLY <2>1, <2>2, <2>3
  <2> DEFINE x == n * SS
  <2>5. x \in Nat /\ x <= t
    BY ONLY <2>1, <2>4
  <2>6. x >= 1
    <3>1. 1 * SS <= x
      BY <1>3, <2>4, Times
    <3>2. SS <= x
      BY ONLY <3>1, <1>3
    <3> HIDE DEF x
    <3> QED
      BY ONLY <1>3, <2>5, <3>2
  <2> QED
    BY ONLY <2>4, <2>5, <2>6
<1>5. /\ k + n \in Nat /\ k + n \in 1 .. m /\ k + n \in 0 .. m
      /\ \A j \in 0 .. (n - 1) : k + j \in 0 .. (m - 1) /\ k + j \in Int /\ j \in Int
  <2>1. k \in Nat /\ m \in Nat /\ n \in 1 .. (m - k)
    BY ONLY <1>2, <1>3, <1>4
  <2> QED
    BY ONLY <2>1, OffsetIn
<1>6. /\ s \in Int /\ s = SectorAt(m, ch[a], k)
      /\ \A j \in Int : SectorAt(m, ch[a], k + j) = s + j
  <2> DEFINE z == (cl - 1) * m
  <2>1. z \in Int
    BY ONLY <1>3
  <2>2. s = z + k /\ cl = ch[a]
    BY <1>2 DEF SectorAt
  <2> HIDE DEF z
  <2>3. s \in Int /\ \A j \in Int : z + (k + j) = s + j
    BY ONLY <1>3, <2>1, <2>2
  <2> QED
    BY <2>2, <2>3 DEF SectorAt, z
<1>7. ASSUME NEW i \in 1 .. n
      PROVE  /\ s + i - 1 = SectorAt(m, ch[a], k + (i - 1)) /\ s + i - 1 \in S
             /\ k + (i - 1) \in 0 .. (m - 1) /\ i - 1 \in Int
  <2>1. i - 1 \in 0 .. (n - 1) /\ i - 1 \in Int /\ s + (i - 1) = s + i - 1
    BY ONLY <1>4, <1>6, i \in 1 .. n
  <2>2. k + (i - 1) \in 0 .. (m - 1)
    BY ONLY <1>5, <2>1
  <2>3. SectorAt(m, ch[a], k + (i - 1)) = s + i - 1
    BY ONLY <1>6, <2>1
  <2>4. SectorAt(m, ch[a], k + (i - 1)) \in S
    BY ONLY <1>1, <2>2 DEF Within
  <2> QED
    BY ONLY <2>1, <2>2, <2>3, <2>4
<1> DEFINE sq == [i \in 1 .. n |-> d[s + i - 1]]
<1>8. Blocks(Byte, sq, SS, n, c)
  <2>1. \A i \in 1 .. n : sq[i] \in Seq(Byte) /\ Len(sq[i]) = SS
    <3> SUFFICES ASSUME NEW i \in 1 .. n PROVE sq[i] \in Seq(Byte) /\ Len(sq[i]) = SS
      OBVIOUS
    <3>1. sq[i] \in [1 .. SS -> Byte]
      BY <1>1, <1>7
    <3> HIDE DEF sq
    <3> QED
      BY ONLY <1>3, <3>1
  <2>2. sq = [i \in 1 .. n |-> sq[i]] /\ c = FlattenSeq(sq)
    OBVIOUS
  <2> HIDE DEF sq
  <2> QED
    BY ONLY <1>3, <1>4, <2>1, <2>2, Flat
<1>9. c \in Seq(Byte) /\ Len(c) = n * SS /\ \A i \in 1 .. n, j \in 1 .. SS : c[(i - 1) * SS + j] = d[s + i - 1][j]
  BY <1>8 DEF Blocks
<1> HIDE DEF sq
<1>10. ASSUME NEW p \in 1 .. Len(c) PROVE c[p] = h[fp.fptr + p]
  <2>1. PICK i \in 1 .. n, j \in 1 .. SS : p = (i - 1) * SS + j
    <3>1. SS \in Nat \ {0} /\ n \in Nat /\ p \in 1 .. (n * SS)
      BY <1>3, <1>4, <1>9
    <3> QED
      BY ONLY <3>1, BlockOf
  <2>2. c[p] = d[SectorAt(m, ch[a], k + (i - 1))][j]
    BY <1>7, <1>9, <2>1
  <2>3. Pos(m, a, k + (i - 1), j) = fp.fptr + p
    <3>1. m \in Nat /\ a \in Int /\ k \in Int
      BY <1>3
    <3>2. \A q \in Int, r \in Int : Pos(m, a, k + q, r) = Pos(m, a, k, 0) + (q * SS + r)
      <4>1. Moves(m, a, k)
        BY ONLY <3>1, PosMoved
      <4> QED
        BY ONLY <4>1 DEF Moves
    <3>3. i - 1 \in Int /\ j \in Int
      BY <1>3, <1>7
    <3>4. Pos(m, a, k + (i - 1), j) = Pos(m, a, k, 0) + ((i - 1) * SS + j)
      BY ONLY <3>2, <3>3
    <3> QED
      BY ONLY <1>2, <2>1, <3>4
  <2>4. fp.fptr + p <= fp.fsize
    <3> DEFINE x == n * SS
    <3>1. x \in Nat /\ x <= t /\ p \in 1 .. x
      BY ONLY <1>4, <1>9, p \in 1 .. Len(c)
    <3>2. t \in Nat /\ fp.fptr \in Nat /\ fp.fsize \in Nat /\ fp.fptr + t <= fp.fsize
      BY <1>1, <1>3
    <3> HIDE DEF x
    <3> QED
      BY ONLY <3>1, <3>2
  <2>5. a \in DOMAIN ch /\ k + (i - 1) \in 0 .. (m - 1)
    BY <1>1, <1>3, <1>7
  <2>6. d[SectorAt(m, ch[a], k + (i - 1))][j] = h[Pos(m, a, k + (i - 1), j)]
    BY ONLY <1>1, <2>3, <2>4, <2>5, j \in 1 .. SS DEF Held
  <2> QED
    BY ONLY <2>2, <2>3, <2>6
<1>11. Follows(h, fp.fptr, c)
  BY ONLY <1>9, <1>10 DEF Follows
<1> DEFINE x == n * SS
           g == fp.fptr + x
           kk == k + n
<1>12. x \in Nat /\ x >= 1 /\ x <= t /\ g \in Nat /\ kk \in Nat /\ kk \in 1 .. m
  BY ONLY <1>3, <1>4, <1>5
<1>13. fp2 = [fp EXCEPT !.clust = cl, !.csect = kk, !.fptr = g]
  BY DEF ReadFil
<1>14. Pos(m, a, kk, 0) = g /\ Pos(m, a, kk - 1, 0) = g - SS
  <2>1. m \in Nat /\ a \in Int /\ k \in Int /\ kk \in Int /\ 0 \in Int /\ n \in Int
    BY ONLY <1>3, <1>4, <1>12
  <2>2. \A q \in Int, r \in Int : Pos(m, a, k + q, r) = Pos(m, a, k, 0) + (q * SS + r)
    <3>1. m \in Nat /\ a \in Int /\ k \in Int
      BY ONLY <2>1
    <3>2. Moves(m, a, k)
      BY ONLY <3>1, PosMoved
    <3> QED
      BY ONLY <3>2 DEF Moves
  <2>3. Pos(m, a, kk, 0) = Pos(m, a, k, 0) + (x + 0)
    BY ONLY <2>1, <2>2
  <2> HIDE DEF x, kk
  <2>4. Pos(m, a, kk - 1, 0) = Pos(m, a, kk, 0) - SS
    BY ONLY <2>1, PosLater
  <2>5. g = fp.fptr + x
    OBVIOUS
  <2> HIDE DEF g
  <2>6. Pos(m, a, kk, 0) = g
    BY ONLY <1>2, <1>3, <1>12, <2>3, <2>5
  <2> QED
    BY ONLY <2>4, <2>6
<1> HIDE DEF g, kk
<1>15. /\ fp2 \in FilType(0) /\ fp2.fptr = g /\ fp2.fsize = fp.fsize /\ fp2.clust = cl /\ fp2.csect = kk
       /\ fp2.dsect = fp.dsect /\ fp2.buf = fp.buf
  BY ONLY <1>1, <1>3, <1>12, <1>13 DEF FilType
<1>16. AtSector(fp2)
  <2> DEFINE q == Sect(m, a, kk)
  <2>1. q \in Int
    <3>1. m \in Nat /\ a \in Int /\ kk \in Int
      BY ONLY <1>3, <1>12
    <3> QED
      BY ONLY <3>1, SectType
  <2>2. g = q * SS + 0
    BY ONLY <1>14 DEF Pos
  <2> HIDE DEF q
  <2>3. (q * SS + 0) % SS = 0
    <3>1. 0 \in 0 .. (SS - 1)
      BY ONLY <1>3
    <3> QED
      BY ONLY <1>3, <2>1, <3>1, Divide
  <2> QED
    BY ONLY <1>15, <2>2, <2>3 DEF AtSector
<1>17. Placed(fp2, m, ch, a) /\ a \in 0 .. Len(ch)
  <2>1. g <= Pos(m, a, kk, 0) /\ g > Pos(m, a, kk - 1, 0)
    BY ONLY <1>3, <1>12, <1>14
  <2>2. a # 0 /\ a \in 0 .. Len(ch)
    BY ONLY <1>1, <1>3
  <2> QED
    BY ONLY <1>2, <1>12, <1>15, <2>1, <2>2 DEF Placed
<1>18. fp2.fptr = fp.fptr + Len(c) /\ Len(c) \in Nat /\ Len(c) <= t
  BY ONLY <1>4, <1>9, <1>15 DEF g, x
<1>19. fp2.dsect # NoSector => fp2.dsect \in S /\ fp2.buf = d[fp2.dsect]
  BY ONLY <1>1, <1>15
<1> QED
  BY ONLY <1>9, <1>11, <1>15, <1>16, <1>17, <1>18, <1>19, Zenon DEF ReadMore

PartReadFil(fp, cl, k, s, buf, n) ==
    [fp EXCEPT !.clust = cl, !.csect = k + 1, !.dsect = s, !.buf = buf, !.fptr = @ + n]

PartReadHyp(m, S, d, fp, ch, a, h, t, cl, k, kc, s, buf, from, n, fp2, c) ==
    /\ Reading(m, S, d, fp, ch, a, h, t) /\ Stand(fp, m, ch, a, cl, k, kc)
    /\ ~AtSector(fp) => fp.dsect = SectorAt(m, cl, k)
    /\ s = (IF AtSector(fp) THEN SectorAt(m, cl, kc) ELSE fp.dsect)
    /\ buf = (IF s = fp.dsect THEN fp.buf ELSE d[s])
    /\ from = fp.fptr % SS /\ n = Min({SS - from, t})
    /\ fp2 = PartReadFil(fp, cl, k, s, buf, n) /\ c = SubSeq(buf, from + 1, from + n)

(* Less than a sector comes from the sector buffer.                        *)
LEMMA PartRead ==
    ASSUME NEW m, NEW S, NEW d, NEW fp, NEW ch, NEW a, NEW h, NEW t, NEW cl, NEW k, NEW kc,
           NEW s, NEW buf, NEW from, NEW n, NEW fp2, NEW c,
           PartReadHyp(m, S, d, fp, ch, a, h, t, cl, k, kc, s, buf, from, n, fp2, c)
    PROVE  ReadMore(m, S, d, fp, ch, h, t, fp2, c) /\ Len(c) = n
<1>0. /\ Reading(m, S, d, fp, ch, a, h, t) /\ Stand(fp, m, ch, a, cl, k, kc)
      /\ ~AtSector(fp) => fp.dsect = SectorAt(m, cl, k)
      /\ s = (IF AtSector(fp) THEN SectorAt(m, cl, kc) ELSE fp.dsect)
      /\ buf = (IF s = fp.dsect THEN fp.buf ELSE d[s])
      /\ from = fp.fptr % SS /\ n = Min({SS - from, t})
      /\ fp2 = PartReadFil(fp, cl, k, s, buf, n) /\ c = SubSeq(buf, from + 1, from + n)
  BY DEF PartReadHyp
<1> USE <1>0
<1>1. /\ m \in Nat \ {0} /\ d \in [S -> [1 .. SS -> Byte]] /\ fp \in FilType(0)
      /\ ch \in Seq(Clusters) /\ a \in 1 .. Len(ch) /\ Within(m, ch, Len(ch), S)
      /\ Held(h, m, ch, d, fp.fsize)
      /\ t \in Nat \ {0} /\ fp.fptr + t <= fp.fsize
      /\ (fp.dsect # NoSector => fp.dsect \in S /\ fp.buf = d[fp.dsect])
  BY DEF Reading
<1>2. /\ cl = ch[a] /\ k \in 0 .. (m - 1)
      /\ AtSector(fp) => kc = k /\ fp.fptr = Pos(m, a, k, 0)
      /\ ~AtSector(fp) => from \in 1 .. (SS - 1) /\ fp.fptr = Pos(m, a, k, 0) + from
  BY DEF Stand
<1>3. SS \in Nat \ {0} /\ fp.fptr \in Nat /\ fp.fsize \in Nat /\ k \in Int /\ a \in Int /\ m \in Nat
      /\ DOMAIN ch = 1 .. Len(ch) /\ Len(ch) \in Nat /\ cl \in Clusters /\ Clusters \subseteq Nat \ {0}
  <2>1. SS \in Nat \ {0} /\ Clusters \subseteq Nat \ {0}
    BY SizesAssumption DEF Clusters
  <2>2. DOMAIN ch = 1 .. Len(ch) /\ Len(ch) \in Nat /\ ch[a] \in Clusters
    BY ONLY <1>1, LenProperties, ElementOfSeq
  <2>3. fp.fptr \in Nat /\ fp.fsize \in Nat
    BY <1>1 DEF FilType
  <2>4. m \in Nat \ {0} /\ k \in 0 .. (m - 1) /\ a \in 1 .. Len(ch) /\ cl = ch[a]
    BY <1>1, <1>2
  <2>5. m \in Nat /\ k \in Int /\ a \in Int
    BY ONLY <2>2, <2>4
  <2>6. cl \in Clusters
    BY ONLY <2>2, <2>4
  <2> QED
    BY ONLY <2>1, <2>2, <2>3, <2>5, <2>6, Zenon
<1>4. from \in 0 .. (SS - 1) /\ (AtSector(fp) => from = 0)
  BY <1>2, <1>3 DEF AtSector
<1>5. n \in Nat \ {0} /\ n <= t /\ from + n <= SS /\ from \in Nat
  <2>1. SS - from \in Nat /\ SS - from >= 1 /\ t \in Nat \ {0}
    BY ONLY <1>1, <1>3, <1>4
  <2>2. n = IF SS - from <= t THEN SS - from ELSE t
    <3>1. SS - from \in Int /\ t \in Int /\ n = Min({SS - from, t})
      BY <2>1
    <3> QED
      BY ONLY <3>1, MinTwo
  <2> QED
    BY ONLY <1>3, <1>4, <2>1, <2>2
<1>6. s = SectorAt(m, ch[a], k)
  BY <1>2
<1>7. s \in S /\ s \in Nat
  <2>1. s \in S
    <3>1. a \in 1 .. Len(ch) /\ k \in 0 .. (m - 1)
      BY <1>1, <1>2
    <3> QED
      BY ONLY <1>1, <1>6, <3>1 DEF Within
  <2>2. s \in Nat
    <3> DEFINE z == (cl - 1) * m
    <3>1. cl - 1 \in Nat /\ m \in Nat /\ k \in Nat
      BY <1>1, <1>2, <1>3
    <3>2. z \in Nat
      BY ONLY <3>1
    <3>3. s = z + k
      BY ONLY <1>2, <1>6 DEF SectorAt
    <3> HIDE DEF z
    <3> QED
      BY ONLY <3>1, <3>2, <3>3
  <2> QED
    BY <2>1, <2>2
<1>8. buf = d[s] /\ buf \in [1 .. SS -> Byte]
  <2>1. s = fp.dsect => fp.dsect # NoSector
    BY ONLY <1>7 DEF NoSector
  <2>2. buf = d[s]
    BY <1>1, <2>1
  <2> QED
    BY ONLY <1>1, <1>7, <2>2
<1>9. fp.fptr = Pos(m, a, k, 0) + from /\ Pos(m, a, k, 0) \in Int
  <2>1. Pos(m, a, k, 0) \in Int
    <3>1. m \in Nat /\ a \in Int /\ k \in Int /\ 0 \in Int
      BY ONLY <1>3
    <3> QED
      BY ONLY <3>1, PosType
  <2> QED
    BY ONLY <1>2, <1>4, <2>1
<1>10. c \in Seq(Byte) /\ Len(c) = n /\ \A j \in 1 .. n : c[j] = buf[from + j]
  <2>1. \A i \in (from + 1) .. (from + n) : buf[i] \in Byte
    <3>1. SS \in Nat /\ from \in Nat /\ n \in Nat /\ from + n <= SS
      BY ONLY <1>3, <1>5
    <3>2. \A i \in (from + 1) .. (from + n) : i \in 1 .. SS
      BY ONLY <3>1
    <3>3. buf \in [1 .. SS -> Byte]
      BY ONLY <1>8
    <3>4. \A i \in 1 .. SS : buf[i] \in Byte
      BY ONLY <3>3
    <3> QED
      BY ONLY <3>2, <3>4, Zenon
  <2>2. from + 1 \in Int /\ from + n \in Int /\ c = SubSeq(buf, from + 1, from + n)
    <3>1. from + 1 \in Int /\ from + n \in Int
      BY ONLY <1>5
    <3>2. c = SubSeq(buf, from + 1, from + n)
      OBVIOUS
    <3> QED
      BY ONLY <3>1, <3>2, Zenon
  <2>3. /\ c \in Seq(Byte)
        /\ Len(c) = IF from + 1 <= from + n THEN (from + n) - (from + 1) + 1 ELSE 0
        /\ \A j \in 1 .. ((from + n) - (from + 1) + 1) : c[j] = buf[(from + 1) + j - 1]
    BY ONLY <2>1, <2>2, SubSeqProperties
  <2>4. from + 1 <= from + n /\ (from + n) - (from + 1) + 1 = n /\ \A j \in 1 .. n : (from + 1) + j - 1 = from + j
    BY ONLY <1>5
  <2> QED
    BY ONLY <2>3, <2>4
<1>11. ASSUME NEW j \in 1 .. n PROVE c[j] = h[fp.fptr + j]
  <2>1. c[j] = buf[from + j] /\ from + j \in 1 .. SS /\ j \in Int /\ j <= t
    <3>1. SS \in Nat /\ from \in Nat /\ n \in Nat /\ from + n <= SS /\ n <= t /\ t \in Nat
      BY ONLY <1>1, <1>3, <1>5
    <3>2. from + j \in 1 .. SS /\ j \in Int /\ j <= t
      BY ONLY <3>1, j \in 1 .. n
    <3> QED
      BY ONLY <1>10, <3>2, j \in 1 .. n
  <2>2. Pos(m, a, k, from + j) = fp.fptr + j
    <3> DEFINE r == from + j
    <3>1. m \in Nat /\ a \in Int /\ k \in Int /\ r \in Int
      BY ONLY <1>3, <2>1
    <3> HIDE DEF r
    <3>2. Pos(m, a, k, r) = Pos(m, a, k, 0) + r
      BY ONLY <3>1, PosType
    <3>3. Pos(m, a, k, 0) + r = fp.fptr + j
      BY ONLY <1>5, <1>9, <2>1 DEF r
    <3> QED
      BY ONLY <3>2, <3>3 DEF r
  <2>3. fp.fptr + j <= fp.fsize
    BY ONLY <1>1, <1>3, <2>1
  <2>4. a \in DOMAIN ch /\ k \in 0 .. (m - 1)
    BY <1>1, <1>2, <1>3
  <2>5. d[SectorAt(m, ch[a], k)][from + j] = h[Pos(m, a, k, from + j)]
    BY ONLY <1>1, <2>1, <2>2, <2>3, <2>4 DEF Held
  <2> QED
    BY ONLY <1>6, <1>8, <2>1, <2>2, <2>5
<1>12. Follows(h, fp.fptr, c)
  BY ONLY <1>10, <1>11 DEF Follows
<1> DEFINE g == fp.fptr + n
           kk == k + 1
<1>13. g \in Nat /\ kk \in Nat /\ kk \in 1 .. m /\ kk - 1 = k
  <2>1. fp.fptr \in Nat /\ n \in Nat /\ m \in Nat /\ k \in 0 .. (m - 1)
    BY <1>1, <1>2, <1>3, <1>5
  <2>2. kk \in Nat /\ kk \in 1 .. m /\ kk - 1 = k
    BY ONLY <2>1
  <2>3. g \in Nat
    BY ONLY <2>1
  <2> QED
    BY ONLY <2>2, <2>3, Zenon
<1>14. fp2 = [fp EXCEPT !.clust = cl, !.csect = kk, !.dsect = s, !.buf = buf, !.fptr = g]
  BY DEF PartReadFil
<1>15. Pos(m, a, kk, 0) = Pos(m, a, k, 0) + SS
  <2>1. m \in Nat /\ a \in Int /\ k \in Int /\ 0 \in Int
    BY ONLY <1>3
  <2> QED
    BY ONLY <2>1, PosLater
<1>16. g <= Pos(m, a, kk, 0) /\ g > Pos(m, a, kk - 1, 0)
  <2> DEFINE p == Pos(m, a, k, 0)
  <2>1. fp.fptr = p + from /\ p \in Int /\ n \in Nat \ {0} /\ from + n <= SS /\ from \in Nat /\ SS \in Nat
    BY ONLY <1>3, <1>5, <1>9
  <2>2. Pos(m, a, kk, 0) = p + SS /\ Pos(m, a, kk - 1, 0) = p
    BY ONLY <1>13, <1>15
  <2> HIDE DEF kk, p
  <2>3. g <= p + SS /\ g > p
    BY ONLY <2>1 DEF g
  <2> QED
    BY ONLY <2>2, <2>3
<1> HIDE DEF g, kk
<1>17. /\ fp2 \in FilType(0) /\ fp2.fptr = g /\ fp2.fsize = fp.fsize /\ fp2.clust = cl /\ fp2.csect = kk
       /\ fp2.dsect = s /\ fp2.buf = buf
  <2>1. cl \in Int /\ s \in Int
    BY ONLY <1>3, <1>7
  <2> QED
    BY ONLY <1>1, <1>8, <1>13, <1>14, <2>1 DEF FilType
<1>18. Placed(fp2, m, ch, a) /\ a \in 0 .. Len(ch)
  <2>1. a # 0 /\ a \in 0 .. Len(ch)
    BY ONLY <1>1, <1>3
  <2> QED
    BY ONLY <1>2, <1>13, <1>16, <1>17, <2>1 DEF Placed
<1>19. fp2.dsect = SectorAt(m, fp2.clust, fp2.csect - 1)
  BY ONLY <1>2, <1>6, <1>13, <1>17
<1>20. fp2.fptr = fp.fptr + Len(c) /\ Len(c) \in Nat /\ Len(c) <= t
  BY ONLY <1>5, <1>10, <1>17 DEF g
<1>21. fp2.dsect \in S /\ fp2.buf = d[fp2.dsect]
  BY ONLY <1>7, <1>8, <1>17
<1> QED
  BY ONLY <1>10, <1>12, <1>17, <1>18, <1>19, <1>20, <1>21, Zenon DEF ReadMore

(* Where f_read goes on: in its cluster, or in the next one of the chain.  *)
ReadPlace(fp, m, ch, cl, k) ==
    IF AtSector(fp) /\ fp.csect >= m THEN cl = ch[1 + fp.fptr \div (SS * m)] /\ k = 0
                                     ELSE cl = fp.clust /\ k = fp.csect

LEMMA ReadAt ==
    ASSUME NEW m \in Nat \ {0}, NEW fp \in FilType(0), NEW ch \in Seq(Clusters),
           NEW n \in 0 .. Len(ch), Placed(fp, m, ch, n),
           NEW size \in Nat, fp.fptr < size, size <= Room(m, ch),
           NEW cl, NEW k, ReadPlace(fp, m, ch, cl, k)
    PROVE  \E a \in 1 .. Len(ch) : Stand(fp, m, ch, a, cl, IF AtSector(fp) THEN k ELSE k - 1, k)
<1>1. SS \in Nat \ {0} /\ fp.fptr \in Nat /\ Len(ch) \in Nat
  BY SizesAssumption, LenProperties DEF FilType
<1>2. n \in Nat /\ n <= Len(ch)
  BY ONLY <1>1, n \in 0 .. Len(ch)
<1>3. CASE AtSector(fp) /\ fp.csect >= m
  <2>1. fp.fptr = Pos(m, n + 1, 0, 0)
    <3>1. fp.csect \in 1 .. m /\ (AtSector(fp) /\ ~(fp.csect < m) => fp.fptr = Pos(m, n + 1, 0, 0))
      BY <1>2, Stands
    <3>2. m \in Nat \ {0}
      OBVIOUS
    <3>3. ~(fp.csect < m)
      BY ONLY <1>3, <3>1, <3>2
    <3> QED
      BY ONLY <1>3, <3>1, <3>3
  <2> DEFINE x == n * m
             y == SS * m
  <2>2. fp.fptr = x * SS
    <3>1. (n + 1) - 1 = n /\ x \in Int
      BY <1>2
    <3>2. Sect(m, n + 1, 0) = x
      BY ONLY <3>1 DEF Sect
    <3> HIDE DEF x
    <3>3. x * SS \in Int
      BY ONLY <1>1, <3>1
    <3> QED
      BY ONLY <2>1, <3>2, <3>3 DEF Pos
  <2>3. n # Len(ch)
    <3> SUFFICES ASSUME n = Len(ch) PROVE FALSE
      OBVIOUS
    <3>1. Room(m, ch) = x * SS
      BY DEF Room
    <3> HIDE DEF x
    <3>2. size <= fp.fptr /\ fp.fptr < size /\ size \in Nat
      BY <2>2, <3>1
    <3> QED
      BY ONLY <1>1, <3>2
  <2>4. y \in Nat \ {0} /\ fp.fptr = n * y + 0
    <3>1. m \in Nat \ {0}
      OBVIOUS
    <3>2. y \in Nat /\ y >= 1
      <4>1. 1 * m <= SS * m /\ SS * m \in Int /\ 1 * m = m
        <5>1. 1 \in Int /\ SS \in Int /\ m \in Nat /\ 1 <= SS /\ 1 * m = m
          BY ONLY <1>1, <3>1
        <5> QED
          BY ONLY <5>1, Times
      <4>2. y \in Int /\ m <= y
        BY ONLY <4>1
      <4> HIDE DEF y
      <4> QED
        BY ONLY <3>1, <4>2
    <3>3. x * SS = n * y /\ n * y \in Int
      BY ONLY <1>1, <1>2, <3>1
    <3> HIDE DEF x, y
    <3>4. fp.fptr = n * y + 0
      BY ONLY <2>2, <3>3
    <3> QED
      BY ONLY <3>2, <3>4
  <2> HIDE DEF x, y
  <2>5. fp.fptr \div y = n
    <3>1. n \in Int /\ y \in Nat \ {0} /\ 0 \in 0 .. (y - 1)
      BY ONLY <1>2, <2>4
    <3>2. (n * y + 0) \div y = n
      BY ONLY <3>1, Divide
    <3> QED
      BY ONLY <2>4, <3>2
  <2>6. cl = ch[n + 1] /\ k = 0
    <3>1. cl = ch[1 + fp.fptr \div y] /\ k = 0
      BY <1>3 DEF ReadPlace, y
    <3>2. 1 + n = n + 1
      BY ONLY <1>2
    <3> QED
      BY ONLY <2>5, <3>1, <3>2
  <2>7. n + 1 \in 1 .. Len(ch)
    BY ONLY <1>1, <1>2, <2>3
  <2>8. Stand(fp, m, ch, n + 1, cl, 0, 0)
    BY <1>2, <1>3, <2>6, StandsNext
  <2>9. Stand(fp, m, ch, n + 1, cl, IF AtSector(fp) THEN k ELSE k - 1, k)
    BY ONLY <1>3, <2>6, <2>8
  <2> QED
    BY ONLY <2>7, <2>9, Zenon
<1>4. CASE ~(AtSector(fp) /\ fp.csect >= m)
  <2>1. cl = fp.clust /\ k = fp.csect
    BY <1>4 DEF ReadPlace
  <2>2. Stand(fp, m, ch, n, fp.clust, IF AtSector(fp) THEN fp.csect ELSE fp.csect - 1, fp.csect)
    BY <1>2, <1>4, StandsHere
  <2>3. Stand(fp, m, ch, n, cl, IF AtSector(fp) THEN k ELSE k - 1, k)
    BY ONLY <2>1, <2>2
  <2>4. n \in Nat \ {0}
    BY ONLY <2>2 DEF Stand
  <2>5. n \in 1 .. Len(ch)
    BY ONLY <1>1, <1>2, <2>4
  <2> QED
    BY ONLY <2>3, <2>5, Zenon
<1> QED
  BY <1>3, <1>4

(* A turn of f_read that has something to read.                            *)
LEMMA ReadReady ==
    ASSUME IInv, pc = "read", todo > 0
    PROVE  /\ file \in Files /\ 0 \in Volumes /\ in.vol = 0 /\ Copying /\ Reads /\ in.fptr \in Nat
           /\ \E a \in 1 .. Len(chain[0][file]) :
                 /\ Reading(csize[0], SectorsOf(0), data[0], in, chain[0][file], a, host[file], todo)
                 /\ Stand(in, csize[0], chain[0][file], a, Place(in).cl,
                          IF AtSector(in) THEN Place(in).k ELSE Place(in).k - 1, Place(in).k)
<1> USE DEF IInv
<1> DEFINE m == csize[0]
           ch == chain[0][file]
           S == SectorsOf(0)
           h == host[file]
           e == entry[0][file]
<1>1. Copying /\ Reads /\ file \in Files /\ 0 \in Volumes
  BY DEF ControlShape, Copying, Volumes
<1>2. /\ in \in FilType(0) /\ in.fsize = e.size /\ in.fptr <= in.fsize
      /\ \E n \in 0 .. Len(ch) : Placed(in, m, ch, n)
      /\ in.dsect # NoSector => in.dsect \in S /\ in.buf = data[0][in.dsect]
  BY <1>1 DEF InShape
<1>3. in.vol = 0 /\ in.fptr \in Nat /\ in.fsize \in Nat
  BY <1>2 DEF FilType
<1>4. todo \in Nat \ {0} /\ in.fptr + todo <= in.fsize
  BY <1>1 DEF ChunkShape
<1>5. in.fptr < in.fsize /\ in.fsize # 0
  BY ONLY <1>3, <1>4
<1>6. e.rooted
  <2>1. EntryOk(e, h, m, ch, data[0])
    BY <1>1 DEF EntryShape
  <2>2. e.size \notin {-1, 0}
    BY ONLY <1>2, <1>3, <1>5
  <2>3. ~e.rooted => e.size \in {-1, 0}
    BY ONLY <2>1 DEF EntryOk, Absent, Empty
  <2> QED
    BY ONLY <2>2, <2>3
<1>7. in.fsize <= Room(m, ch) /\ Held(h, m, ch, data[0], in.fsize)
  BY <1>1, <1>2, <1>6 DEF EntryShape, EntryOk
<1>8. /\ m \in Nat \ {0} /\ data[0] \in [S -> [1 .. SS -> Byte]]
      /\ chain \in [Volumes -> [Files -> Seq(Clusters)]]
  BY <1>1 DEF HostShape, VolumeShape
<1>9. ch \in Seq(Clusters) /\ Len(ch) \in Nat /\ Within(m, ch, Len(ch), S)
  <2>1. \A i, j \in DOMAIN ch : ch[i] = ch[j] => i = j
    BY <1>1 DEF ChainShape
  <2> QED
    BY <1>1, <1>8, <2>1, ChainApart
<1>10. PICK a \in 1 .. Len(ch) :
           Stand(in, m, ch, a, Place(in).cl, IF AtSector(in) THEN Place(in).k ELSE Place(in).k - 1, Place(in).k)
  <2>1. PICK n \in 0 .. Len(ch) : Placed(in, m, ch, n)
    BY <1>2
  <2>2. ReadPlace(in, m, ch, Place(in).cl, Place(in).k)
    BY <1>3 DEF ReadPlace, Place, AtCluster
  <2> DEFINE cl == Place(in).cl
             k == Place(in).k
  <2> HIDE DEF cl, k, m, ch, e, h, S
  <2>3. ReadPlace(in, m, ch, cl, k)
    BY <2>2 DEF cl, k
  <2>4. \E a \in 1 .. Len(ch) : Stand(in, m, ch, a, cl, IF AtSector(in) THEN k ELSE k - 1, k)
    BY ONLY <1>2, <1>3, <1>5, <1>7, <1>8, <1>9, <2>1, <2>3, n \in 0 .. Len(ch), ReadAt
  <2> QED
    BY <2>4 DEF cl, k
<1> HIDE DEF m, ch, S, h, e
<1>11. Reading(m, S, data[0], in, ch, a, h, todo)
  BY ONLY <1>2, <1>4, <1>7, <1>8, <1>9, a \in 1 .. Len(ch) DEF Reading
<1>12. \E b \in 1 .. Len(ch) :
          /\ Reading(m, S, data[0], in, ch, b, h, todo)
          /\ Stand(in, m, ch, b, Place(in).cl, IF AtSector(in) THEN Place(in).k ELSE Place(in).k - 1, Place(in).k)
  BY ONLY <1>10, <1>11, Zenon
<1> QED
  BY ONLY <1>1, <1>3, <1>12 DEF m, ch, S, h
(* A turn of the loop of f_read.                                           *)
LEMMA ReadGoes ==
    ASSUME IInv, pc = "read", todo > 0, NEW c,
           ReadMore(csize[0], SectorsOf(0), data[0], in, chain[0][file], host[file], todo, in', c),
           chunk' = chunk \o c, todo' = todo - Len(c),
           UNCHANGED <<host, names, csize, volVars, out, cmdVars, pc, rest, res, errs>>
    PROVE  IInv'
<1> USE DEF IInv
<1> DEFINE m == csize[0]
           ch == chain[0][file]
           S == SectorsOf(0)
           h == host[file]
<1>1. /\ UNCHANGED <<host, names, csize, volVars, out, cmd, file, hpos, got, lost, full, pc, rest, res, errs>>
      /\ UNCHANGED <<data, entry, chain, used, room>>
  BY DEF cmdVars, volVars
<1>2. /\ Copying /\ Copying' /\ Reads /\ Reads' /\ Files' = Files /\ SectorsOf(0)' = SectorsOf(0)
      /\ file \in Files /\ 0 \in Volumes
  BY <1>1 DEF Copying, ControlShape, Reads, Files, SectorsOf, Volumes
<1>3. /\ in \in FilType(0) /\ in.fsize = entry[0][file].size /\ in.fptr <= in.fsize
  BY <1>2 DEF InShape
<1>4. in.fptr \in Nat /\ in.fsize \in Nat /\ Position = in.fptr /\ Total = in.fsize
  BY <1>2, <1>3 DEF FilType, Position, Total
<1>5. /\ todo \in Nat \ {0} /\ in.fptr + todo <= in.fsize
      /\ Len(chunk) + todo = BufferSize \/ in.fptr + todo = in.fsize
      /\ EndsAt(h, in.fptr, chunk)
  <2>1. Ends(chunk)
    BY <1>2 DEF ChunkShape
  <2>2. EndsAt(h, in.fptr, chunk)
    BY ONLY <1>4, <2>1 DEF Ends, EndsAt
  <2> QED
    BY <1>2, <2>2 DEF ChunkShape
<1>6. /\ in' \in FilType(0) /\ in'.fptr = in.fptr + Len(c) /\ in'.fsize = in.fsize
      /\ \E n \in 0 .. Len(ch) : Placed(in', m, ch, n)
      /\ (in'.dsect # NoSector => in'.dsect \in S /\ in'.buf = data[0][in'.dsect])
      /\ (~AtSector(in') => in'.dsect = SectorAt(m, in'.clust, in'.csect - 1))
      /\ Follows(h, in.fptr, c) /\ Len(c) \in Nat /\ Len(c) <= todo
  BY Zenon DEF ReadMore
<1>7. /\ EndsAt(h, in.fptr + Len(c), chunk \o c) /\ Len(chunk) \in Nat
      /\ Len(chunk \o c) = Len(chunk) + Len(c)
  <2> DEFINE p == in.fptr
  <2>1. p \in Nat /\ EndsAt(h, p, chunk) /\ Follows(h, p, c)
    BY <1>4, <1>5, <1>6
  <2> HIDE DEF h, p
  <2>2. /\ EndsAt(h, p + Len(c), chunk \o c) /\ Len(chunk) \in Nat
        /\ Len(chunk \o c) = Len(chunk) + Len(c)
    BY ONLY <2>1, EndsMore
  <2> QED
    BY <2>2 DEF p
<1>8. /\ Position' = in.fptr + Len(c) /\ Total' = Total /\ h' = h
  BY <1>1, <1>2, <1>4, <1>6 DEF Position, Total
<1>9. Ends(chunk)'
  BY ONLY <1>7, <1>8, chunk' = chunk \o c DEF Ends, EndsAt
<1>10. HostShape' /\ VolumeShape' /\ ChainShape' /\ EntryShape'
  BY <1>1, VolumesKept
<1>11. OutShape'
  BY <1>1, <1>2, OutKept DEF ControlShape, OutShape
<1>12. in'.fptr <= in'.fsize /\ todo' \in Nat /\ in'.fptr + todo' <= in'.fsize
       /\ (Len(chunk') + todo' = BufferSize \/ in'.fptr + todo' = in'.fsize)
  <2> HIDE DEF h
  <2> QED
    BY ONLY <1>4, <1>5, <1>6, <1>7, chunk' = chunk \o c, todo' = todo - Len(c)
<1>13. InShape'
  BY <1>1, <1>2, <1>3, <1>6, <1>12 DEF InShape
<1>14. ChunkShape'
  <2>1. hpos' \in Nat /\ (~Reads' => FALSE)
    BY <1>1, <1>2 DEF ChunkShape
  <2> QED
    BY <1>1, <1>2, <1>9, <1>12, <2>1 DEF ChunkShape
<1>15. Pending = Len(chunk) /\ Pending' = Len(chunk) + Len(c)
  BY <1>1, <1>7 DEF Pending
<1>16. AlignShape'
  <2>1. Target' = Target /\ Writes' = Writes /\ Free(Target)' = Free(Target) /\ AtCluster(out)' = AtCluster(out)
    BY <1>1 DEF Target, Writes, Free, AtCluster, AtSector
  <2> SUFFICES ASSUME Writes PROVE out'.fptr + Pending' = Position' \/ (full' /\ AtCluster(out)' /\ (Free(Target) = {})')
    BY <1>1, <2>1 DEF AlignShape
  <2>2. out.fptr + Pending = Position \/ (full /\ AtCluster(out) /\ Free(Target) = {})
    BY <1>2 DEF AlignShape
  <2>3. out.fptr \in Nat
    BY <1>2 DEF OutShape, FilType
  <2>4. out.fptr + Pending = Position => out'.fptr + Pending' = Position'
    <3> DEFINE o == out.fptr
               p == in.fptr
               x == Len(chunk)
               y == Len(c)
    <3>1. out'.fptr = o /\ out.fptr = o /\ Position = p /\ Position' = p + y /\ Pending = x /\ Pending' = x + y
      BY <1>1, <1>4, <1>8, <1>15
    <3>2. o \in Nat /\ p \in Nat /\ x \in Nat /\ y \in Nat
      BY <1>4, <1>6, <1>7, <2>3
    <3> HIDE DEF o, p, x, y
    <3> QED
      BY ONLY <3>1, <3>2
  <2> QED
    BY <1>1, <2>1, <2>2, <2>4
<1>17. GetShape'
  <2> SUFFICES ASSUME cmd = "get", ~lost
               PROVE  /\ got' \in Seq(Byte) /\ \A j \in 1 .. Len(got') : got'[j] = host'[file'][j]
                      /\ Len(got') + Pending' = in'.fptr
    BY <1>1, <1>2 DEF GetShape
  <2>1. got \in Seq(Byte) /\ (\A j \in 1 .. Len(got) : got[j] = h[j]) /\ Len(got) + Pending = in.fptr
    BY <1>2 DEF GetShape
  <2>2. Len(got) \in Nat
    BY ONLY <2>1, LenProperties
  <2>3. got' = got /\ host' = host /\ file' = file
    BY <1>1
  <2>4. Len(got') + Pending' = in'.fptr
    BY ONLY <1>4, <1>6, <1>7, <1>15, <2>1, <2>2, <2>3
  <2> QED
    BY <2>1, <2>3, <2>4
<1>18. PutShape' /\ RebuildShape'
  BY <1>1, <1>2, Counted DEF ControlShape
<1>19. ControlShape'
  BY <1>1, <1>2 DEF ControlShape
<1> QED
  BY <1>9, <1>10, <1>11, <1>13, <1>14, <1>16, <1>17, <1>18, <1>19
LEMMA ReadWholeStep == ASSUME IInv, ReadWhole PROVE IInv'
<1> DEFINE m == csize[0]
           S == SectorsOf(0)
           d == data[0]
           ch == chain[0][file]
           h == host[file]
           cl == Place(in).cl
           k == Place(in).k
           n == Min({todo \div SS, m - k})
           s == SectorAt(m, cl, k)
           c == FlattenSeq([i \in 1 .. n |-> d[s + i - 1]])
<1>1. /\ pc = "read" /\ AtSector(in) /\ todo >= SS
      /\ UNCHANGED <<host, names, csize, volVars, out, cmdVars, pc, rest, res, errs>>
  BY DEF ReadWhole
<1>2. todo > 0 /\ todo \in Int
  <2>1. todo \in Nat /\ SS \in Nat \ {0}
    BY <1>1, SizesAssumption DEF IInv, ChunkShape, Copying
  <2> QED
    BY ONLY <1>1, <2>1
<1>3. in.vol = 0
  BY <1>1, <1>2, ReadReady
<1>4. PICK a \in 1 .. Len(ch) : Reading(m, S, d, in, ch, a, h, todo) /\ Stand(in, m, ch, a, cl, k, k)
  BY <1>1, <1>2, ReadReady
<1>5. in' = ReadFil(in, cl, k, n) /\ chunk' = chunk \o c /\ todo' = todo - n * SS
  BY <1>3 DEF ReadWhole, Whole, Sector, SectorAt, ReadFil
<1>6. ReadMore(m, S, d, in, ch, h, todo, in', c) /\ Len(c) = n * SS
  <2> DEFINE f2 == in'
             t == todo
  <2>1. f2 = ReadFil(in, cl, k, n)
    BY <1>5
  <2>2. Reading(m, S, d, in, ch, a, h, t) /\ Stand(in, m, ch, a, cl, k, k) /\ AtSector(in) /\ t >= SS
    BY <1>1, <1>4
  <2>3. n = Min({t \div SS, m - k}) /\ s = SectorAt(m, cl, k) /\ c = FlattenSeq([i \in 1 .. n |-> d[s + i - 1]])
    OBVIOUS
  <2> HIDE DEF m, S, d, ch, h, cl, k, n, s, c, f2, t
  <2>4. WholeReadHyp(m, S, d, in, ch, a, h, t, cl, k, n, s, f2, c)
    BY ONLY <2>1, <2>2, <2>3, Zenon DEF WholeReadHyp
  <2>5. ReadMore(m, S, d, in, ch, h, t, f2, c) /\ Len(c) = n * SS
    BY ONLY <2>4, WholeRead
  <2> QED
    BY <2>5 DEF f2, t
<1>7. todo' = todo - Len(c)
  BY <1>5, <1>6
<1>8. chunk' = chunk \o c
  BY <1>5
<1> HIDE DEF n, s, c, cl, k
<1> QED
  BY <1>1, <1>2, <1>6, <1>7, <1>8, ReadGoes

LEMMA ReadPartStep == ASSUME IInv, ReadPart PROVE IInv'
<1> DEFINE m == csize[0]
           S == SectorsOf(0)
           d == data[0]
           ch == chain[0][file]
           h == host[file]
           cl == Place(in).cl
           kc == Place(in).k
           k == IF AtSector(in) THEN kc ELSE kc - 1
           s == IF AtSector(in) THEN SectorAt(m, cl, kc) ELSE in.dsect
           buf == IF s = in.dsect THEN in.buf ELSE d[s]
           from == in.fptr % SS
           n == Min({SS - from, todo})
           c == SubSeq(buf, from + 1, from + n)
<1>1. /\ pc = "read" /\ todo > 0
      /\ UNCHANGED <<host, names, csize, volVars, out, cmdVars, pc, rest, res, errs>>
  BY DEF ReadPart
<1>2. in.vol = 0 /\ file \in Files /\ Copying /\ Reads
  BY <1>1, ReadReady
<1>3. PICK a \in 1 .. Len(ch) : Reading(m, S, d, in, ch, a, h, todo) /\ Stand(in, m, ch, a, cl, k, kc)
  BY <1>1, ReadReady
<1>4. ~AtSector(in) => in.dsect = SectorAt(m, cl, k) /\ k + 1 = in.csect
  <2>1. ~AtSector(in) => in.dsect = SectorAt(m, in.clust, in.csect - 1)
    BY <1>2 DEF IInv, InShape
  <2>2. ~AtSector(in) => cl = in.clust /\ kc = in.csect /\ k = in.csect - 1
    BY DEF Place, AtCluster
  <2>3. in.csect \in Nat
    BY <1>2 DEF IInv, InShape, FilType
  <2> QED
    BY <2>1, <2>2, <2>3
<1>5. in' = PartReadFil(in, cl, k, s, buf, n) /\ chunk' = chunk \o c /\ todo' = todo - n
  <2>1. /\ chunk' = chunk \o c /\ todo' = todo - n
        /\ in' = [in EXCEPT !.clust = cl, !.csect = IF AtSector(in) THEN kc + 1 ELSE @,
                            !.dsect = s, !.buf = buf, !.fptr = @ + n]
    BY <1>2 DEF ReadPart, Refilled, Sector, SectorAt
  <2> HIDE DEF s, buf, n, c, cl, kc
  <2>2. (IF AtSector(in) THEN kc + 1 ELSE in.csect) = k + 1
    BY <1>4
  <2> HIDE DEF k
  <2> QED
    BY ONLY <2>1, <2>2 DEF PartReadFil
<1>6. ReadMore(m, S, d, in, ch, h, todo, in', c) /\ Len(c) = n
  <2> DEFINE f2 == in'
             t == todo
  <2>1. f2 = PartReadFil(in, cl, k, s, buf, n)
    BY <1>5
  <2>2. /\ Reading(m, S, d, in, ch, a, h, t) /\ Stand(in, m, ch, a, cl, k, kc)
        /\ ~AtSector(in) => in.dsect = SectorAt(m, cl, k)
    BY <1>3, <1>4
  <2>3. /\ s = (IF AtSector(in) THEN SectorAt(m, cl, kc) ELSE in.dsect)
        /\ buf = (IF s = in.dsect THEN in.buf ELSE d[s])
        /\ from = in.fptr % SS /\ n = Min({SS - from, t})
        /\ c = SubSeq(buf, from + 1, from + n)
    OBVIOUS
  <2> HIDE DEF m, S, d, ch, h, cl, k, kc, s, buf, from, n, c, f2, t
  <2>4. PartReadHyp(m, S, d, in, ch, a, h, t, cl, k, kc, s, buf, from, n, f2, c)
    BY ONLY <2>1, <2>2, <2>3, Zenon DEF PartReadHyp
  <2>5. ReadMore(m, S, d, in, ch, h, t, f2, c) /\ Len(c) = n
    BY ONLY <2>4, PartRead
  <2> QED
    BY <2>5 DEF f2, t
<1>7. todo' = todo - Len(c)
  BY <1>5, <1>6
<1>8. chunk' = chunk \o c
  BY <1>5
<1> HIDE DEF n, s, c, cl, k, kc, buf, from
<1> QED
  BY <1>1, <1>6, <1>7, <1>8, ReadGoes
LEMMA StutterStep == ASSUME IInv, UNCHANGED vars PROVE IInv'
<1>1. /\ UNCHANGED <<host, names, csize, data, entry, chain, used, room, in, out, cmd, file, hpos, got, lost, full>>
      /\ UNCHANGED <<pc, chunk, todo, rest, res, errs>>
  BY DEF vars, volVars, filVars, cmdVars, bufVars
<1>2. HostShape' /\ VolumeShape' /\ ChainShape' /\ EntryShape'
  BY <1>1, VolumesKept DEF IInv, volVars
<1>3. ControlShape' /\ OutShape' /\ InShape'
  BY <1>1 DEF IInv, ControlShape, OutShape, InShape, Copying, Writes, Reads, Target, Files, OutOk, SectorsOf
<1>4. ChunkShape' /\ AlignShape'
  BY <1>1 DEF IInv, ChunkShape, AlignShape, Copying, Writes, Reads, Target, Ends, Position, Total,
              Pending, AtCluster, AtSector, Free
<1>5. GetShape' /\ PutShape' /\ RebuildShape'
  BY <1>1 DEF IInv, GetShape, PutShape, RebuildShape, Copying, Length, Cut, Files, Pending, Excused, Unfit,
              NoRoom, Absent, Dynamic
<1> QED
  BY <1>2, <1>3, <1>4, <1>5 DEF IInv

LEMMA NextStep == ASSUME IInv, Next PROVE IInv'
<1>1. 1 \in Files
  <2>1. host \in Seq(Seq(Byte)) /\ host # <<>>
    BY DEF IInv, HostShape
  <2>2. Len(host) \in Nat /\ DOMAIN host = 1 .. Len(host) /\ Len(host) # 0
    BY ONLY <2>1, LenProperties, EmptySeq
  <2> QED
    BY ONLY <2>2 DEF Files
<1>2. CASE Put \/ PutAgain
  BY <1>1, <1>2, BeginStep DEF Put, PutAgain
<1>3. CASE Get
  BY <1>3, BeginStep DEF Get
<1>4. CASE Rebuild
  BY <1>1, <1>4, BeginStep DEF Rebuild
<1>5. CASE Open \/ OpenSkips \/ OpenDenied \/ OpenFails
  BY <1>5, OpenStep, OpenSkipsStep, OpenDeniedStep, OpenFailsStep
<1>6. CASE FetchHost \/ FetchHostFails \/ FetchFile
  BY <1>6, FetchHostStep, FetchHostFailsStep, FetchFileStep
<1>7. CASE ReadWhole \/ ReadPart \/ ReadFails \/ ReadDone \/ HostWriteFails
  BY <1>7, ReadWholeStep, ReadPartStep, ReadFailsStep, ReadDoneStep, HostWriteFailsStep
<1>8. CASE Write \/ WriteStops \/ WriteFails \/ WriteDone
  BY <1>8, WriteStep, WriteStopsStep, WriteFailsStep, WriteDoneStep
<1>9. CASE NextChunk \/ Close \/ CloseFails \/ HostCloseFails \/ Drop
  BY <1>9, NextChunkStep, CloseStep, CloseFailsStep, HostCloseFailsStep, DropStep
<1> QED
  BY <1>2, <1>3, <1>4, <1>5, <1>6, <1>7, <1>8, <1>9 DEF Next

(* IInv holds in every state: the commands begin with it, and no step of   *)
(* them breaks it.                                                         *)
THEOREM Inductive == Spec => []IInv
<1>1. IInv /\ [Next]_vars => IInv'
  BY NextStep, StutterStep
<1> QED
  BY <1>1, InitInv, PTL DEF Spec

-----------------------------------------------------------------------------
(* What a file holds, by the length in its entry.                          *)
LEMMA StoredType ==
    ASSUME IInv, NEW v \in Volumes, NEW f \in Files
    PROVE  /\ Stored(v, f) \in Seq(Byte) /\ Length(v, f) \in Nat /\ Length(v, f) <= Len(host[f])
           /\ Len(Stored(v, f)) = Length(v, f)
           /\ \A j \in 1 .. Length(v, f) : Stored(v, f)[j] = host[f][j]
<1> USE DEF IInv
<1> DEFINE m == csize[v]
           ch == chain[v][f]
           d == data[v]
           S == SectorsOf(v)
           h == host[f]
           e == entry[v][f]
           w == m * SS
           b == [i \in DOMAIN ch |-> Bytes(v, ch[i])]
           all == FlattenSeq(b)
<1>1. /\ m \in Nat \ {0} /\ d \in [S -> [1 .. SS -> Byte]] /\ SS \in Nat \ {0}
      /\ ch \in Seq(Clusters) /\ Len(ch) \in Nat /\ DOMAIN ch = 1 .. Len(ch)
      /\ h \in Seq(Byte) /\ Len(h) \in Nat
  BY ChainType, FileType, SizesAssumption DEF HostShape, VolumeShape
<1>2. EntryOk(e, h, m, ch, d)
  BY DEF EntryShape
<1>3. CASE ~e.rooted
  <2>1. Stored(v, f) = <<>> /\ Length(v, f) = 0
    BY <1>3 DEF Stored, Length, LengthOf
  <2> HIDE DEF m, ch, d, S, h, e, b, all, w
  <2>2. <<>> \in Seq(Byte) /\ Len(<<>>) = 0
    OBVIOUS
  <2>3. Len(host[f]) \in Nat
    BY <1>1 DEF h
  <2> QED
    BY ONLY <2>1, <2>2, <2>3
<1>4. CASE e.rooted
  <2> DEFINE size == e.size
  <2>1. size \in Nat /\ size <= Len(h) /\ size <= Room(m, ch) /\ Held(h, m, ch, d, size)
    BY <1>2, <1>4 DEF EntryOk
  <2>2. \A i \in 1 .. Len(ch) : Blocks(Byte, [k \in 1 .. m |-> d[SectorAt(m, ch[i], k - 1)]], SS, m, b[i])
    <3> SUFFICES ASSUME NEW i \in 1 .. Len(ch)
                 PROVE  Blocks(Byte, [k \in 1 .. m |-> d[SectorAt(m, ch[i], k - 1)]], SS, m, b[i])
      OBVIOUS
    <3> DEFINE t == [k \in 1 .. m |-> d[SectorAt(m, ch[i], k - 1)]]
    <3>1. b[i] = FlattenSeq(t)
      BY <1>1 DEF Bytes, Sector, SectorAt
    <3>2. \A k \in 1 .. m : t[k] \in Seq(Byte) /\ Len(t[k]) = SS
      <4> SUFFICES ASSUME NEW k \in 1 .. m PROVE t[k] \in Seq(Byte) /\ Len(t[k]) = SS
        OBVIOUS
      <4>1. ch[i] \in Clusters /\ k - 1 \in 0 .. (m - 1)
        BY <1>1
      <4>2. SectorAt(m, ch[i], k - 1) \in S
        BY <1>1, <4>1, SectorInVolume
      <4>3. t[k] \in [1 .. SS -> Byte]
        BY <1>1, <4>2
      <4> HIDE DEF t
      <4> QED
        BY ONLY <1>1, <4>3
    <3>3. t = [k \in 1 .. m |-> t[k]] /\ m \in Nat /\ SS \in Nat
      BY <1>1
    <3> HIDE DEF t, m, ch, d, S, h, e, b
    <3>4. Blocks(Byte, t, SS, m, FlattenSeq(t))
      BY ONLY <3>2, <3>3, Flat
    <3> QED
      BY <3>1, <3>4 DEF t
  <2>3. Blocks(Byte, b, w, Len(ch), all)
    <3>1. b = [i \in 1 .. Len(ch) |-> b[i]]
      BY <1>1
    <3>2. \A i \in 1 .. Len(ch) : b[i] \in Seq(Byte) /\ Len(b[i]) = w
      BY <2>2 DEF Blocks
    <3>3. w \in Nat /\ Len(ch) \in Nat
      BY <1>1
    <3> HIDE DEF m, ch, d, S, h, e, b, w
    <3> QED
      BY ONLY <3>1, <3>2, <3>3, Flat
  <2>4. all \in Seq(Byte) /\ Len(all) = Room(m, ch)
    <3>1. all \in Seq(Byte) /\ Len(all) = Len(ch) * w
      BY <2>3 DEF Blocks
    <3> HIDE DEF ch, all, m
    <3>2. Len(ch) * (m * SS) = (Len(ch) * m) * SS
      BY ONLY <1>1
    <3> QED
      BY <3>1, <3>2 DEF Room
  <2>5. ASSUME NEW p \in 1 .. size PROVE all[p] = h[p]
    <3>1. p \in 1 .. (Len(ch) * w) /\ w \in Nat \ {0} /\ p <= size /\ p \in Nat
      <4>1. Len(all) = Len(ch) * w
        BY <2>3 DEF Blocks
      <4>2. w \in Nat /\ w >= 1
        <5>1. 1 * SS <= m * SS /\ m * SS \in Int
          BY <1>1, Times
        <5>2. SS <= w /\ w \in Int
          BY <1>1, <5>1
        <5> HIDE DEF w
        <5> QED
          BY ONLY <1>1, <5>2
      <4> HIDE DEF w, all, ch, m, size, h, d
      <4> QED
        BY ONLY <1>1, <2>1, <2>4, <4>1, <4>2, p \in 1 .. size
    <3>2. PICK i \in 1 .. Len(ch), j \in 1 .. w : p = (i - 1) * w + j
      <4> HIDE DEF w, ch
      <4> QED
        BY ONLY <1>1, <3>1, BlockOf
    <3>3. all[p] = b[i][j]
      BY ONLY <2>3, <3>2 DEF Blocks
    <3>4. PICK k \in 1 .. m, r \in 1 .. SS : j = (k - 1) * SS + r
      <4>1. m \in Nat /\ SS \in Nat \ {0} /\ j \in 1 .. (m * SS)
        BY <1>1
      <4> HIDE DEF m, ch
      <4> QED
        BY ONLY <4>1, BlockOf
    <3>5. b[i][j] = d[SectorAt(m, ch[i], k - 1)][r]
      <4>1. Blocks(Byte, [q \in 1 .. m |-> d[SectorAt(m, ch[i], q - 1)]], SS, m, b[i])
        BY <2>2
      <4> DEFINE t == [q \in 1 .. m |-> d[SectorAt(m, ch[i], q - 1)]]
      <4>2. t[k] = d[SectorAt(m, ch[i], k - 1)]
        OBVIOUS
      <4>3. Blocks(Byte, t, SS, m, b[i])
        BY <4>1
      <4> HIDE DEF t, m, ch, d, S, h, e, b, w, all
      <4>4. b[i][j] = t[k][r]
        BY ONLY <4>3, <3>4 DEF Blocks
      <4> QED
        BY ONLY <4>2, <4>4
    <3>6. Pos(m, i, k - 1, r) = p
      <4> DEFINE x == (i - 1) * m
                 y == x * SS
                 z == (k - 1) * SS
                 u == (i - 1) * w
      <4>1. i - 1 \in Int /\ k - 1 \in Int /\ r \in Int /\ x \in Int /\ SS \in Int /\ m \in Int
        BY <1>1
      <4>2. u = y /\ y \in Int /\ z \in Int
        <5>1. u = y /\ y \in Int
          <6> DEFINE i0 == i - 1
          <6>1. i0 \in Int
            BY ONLY <4>1
          <6> HIDE DEF i0
          <6>2. (i0 * m) * SS = i0 * (m * SS) /\ (i0 * m) * SS \in Int
            BY ONLY <4>1, <6>1, Reorder
          <6> QED
            BY ONLY <6>2 DEF i0
        <5>2. z \in Int
          BY ONLY <4>1
        <5> QED
          BY ONLY <5>1, <5>2, Zenon
      <4>3. (x + (k - 1)) * SS = y + z
        <5> HIDE DEF x
        <5> QED
          BY ONLY <4>1, Distribute
      <4>4. Pos(m, i, k - 1, r) = (y + z) + r
        BY ONLY <4>3 DEF Pos, Sect
      <4>5. p = u + (z + r)
        BY ONLY <3>2, <3>4
      <4> HIDE DEF y, z, u
      <4> QED
        BY ONLY <4>1, <4>2, <4>4, <4>5
    <3>7. i \in DOMAIN ch /\ k - 1 \in 0 .. (m - 1)
      BY <1>1
    <3>8. d[SectorAt(m, ch[i], k - 1)][r] = h[p]
      <4> HIDE DEF d, ch, m, h, size, w, all, b
      <4> QED
        BY ONLY <2>1, <3>1, <3>6, <3>7, r \in 1 .. SS DEF Held
    <3> QED
      BY ONLY <3>3, <3>5, <3>8
  <2>6. Stored(v, f) = SubSeq(all, 1, size)
    <3>1. Stored(v, f) = SubSeq(all, 1, Min({size, Len(all)}))
      BY <1>4 DEF Stored
    <3>2. size \in Int /\ Len(all) \in Int /\ size <= Len(all)
      <4> HIDE DEF all, size, ch, m
      <4> QED
        BY ONLY <2>1, <2>4, LenProperties
    <3> HIDE DEF all, size
    <3>3. Min({size, Len(all)}) = size
      BY ONLY <3>2, MinTwo
    <3> QED
      BY ONLY <3>1, <3>3
  <2>7. Length(v, f) = size
    BY <1>4 DEF Length, LengthOf
  <2> HIDE DEF all, size, ch, m, d, h, e, b, w, S
  <2>8. /\ SubSeq(all, 1, size) \in Seq(Byte) /\ Len(SubSeq(all, 1, size)) = size
        /\ \A j \in 1 .. size : SubSeq(all, 1, size)[j] = all[j]
    <3>1. \A i \in 1 .. size : all[i] \in Byte
      <4>1. Len(all) \in Nat /\ \A i \in 1 .. Len(all) : all[i] \in Byte
        BY ONLY <2>4, LenProperties, ElementOfSeq
      <4>2. \A i \in 1 .. size : i \in 1 .. Len(all)
        BY ONLY <2>1, <2>4, <4>1
      <4> QED
        BY ONLY <4>1, <4>2
    <3>2. 1 \in Int /\ size \in Int
      BY ONLY <2>1
    <3>3. /\ SubSeq(all, 1, size) \in Seq(Byte)
          /\ Len(SubSeq(all, 1, size)) = IF 1 <= size THEN size - 1 + 1 ELSE 0
          /\ \A j \in 1 .. (size - 1 + 1) : SubSeq(all, 1, size)[j] = all[1 + j - 1]
      BY ONLY <3>1, <3>2, SubSeqProperties
    <3>4. size - 1 + 1 = size /\ \A j \in 1 .. size : 1 + j - 1 = j
      BY ONLY <2>1
    <3> QED
      BY ONLY <2>1, <3>3, <3>4
  <2> QED
    BY <2>1, <2>5, <2>6, <2>7, <2>8 DEF h
<1> QED
  BY <1>3, <1>4
(* Files that hold the same bytes, as far as both go, and the same number. *)
LEMMA SameBytes ==
    ASSUME NEW s \in Seq(Byte), NEW t \in Seq(Byte), Len(s) = Len(t), \A j \in 1 .. Len(s) : s[j] = t[j]
    PROVE  s = t
BY SeqEqual

(* A file is whole if it has the length of its source.                     *)
LEMMA StoredWhole ==
    ASSUME IInv, NEW f \in Files, NEW v \in Volumes
    PROVE  Stored(v, f) = host[f] <=> Length(v, f) = Len(host[f])
<1> DEFINE s == Stored(v, f)
           h == host[f]
           n == Length(v, f)
<1>1. s \in Seq(Byte) /\ Len(s) = n /\ \A j \in 1 .. n : s[j] = h[j]
  BY StoredType
<1>2. h \in Seq(Byte)
  BY FileType DEF IInv
<1> HIDE DEF s, h, n
<1>3. n = Len(h) => s = h
  BY ONLY <1>1, <1>2, SameBytes
<1>4. s = h => n = Len(h)
  BY ONLY <1>1
<1> QED
  BY <1>3, <1>4 DEF s, h, n

(* For all files, cluster sizes, volumes, buffers and numbers of failed    *)
(* transfers: a file on an image is at every moment the beginning of the   *)
(* file it was copied from (f_sync, ff.c:1992).  An entry covers only what *)
(* f_write stored before, and f_sync writes the sector buffer before the   *)
(* entry.                                                                  *)
THEOREM StoredFilesArePrefixes == Spec => []StoredIsPrefix
<1>1. IInv => StoredIsPrefix
  <2> SUFFICES ASSUME IInv, NEW v \in Volumes, NEW f \in Files PROVE IsPrefix(Stored(v, f), host[f])
    BY DEF StoredIsPrefix
  <2> DEFINE s == Stored(v, f)
             h == host[f]
             n == Length(v, f)
  <2>1. s \in Seq(Byte) /\ n \in Nat /\ n <= Len(h) /\ Len(s) = n /\ \A j \in 1 .. n : s[j] = h[j]
    BY StoredType
  <2>2. h \in Seq(Byte) /\ Len(h) \in Nat
    BY FileType DEF IInv
  <2> HIDE DEF s, h, n
  <2>3. SubSeq(h, 1, n) \in Seq(Byte) /\ Len(SubSeq(h, 1, n)) = n /\ \A j \in 1 .. n : SubSeq(h, 1, n)[j] = h[j]
    BY ONLY <2>1, <2>2
  <2>4. s = SubSeq(h, 1, n)
    BY ONLY <2>1, <2>3, SameBytes
  <2> QED
    BY <2>1, <2>2, <2>4 DEF IsPrefix, s, h
<1> QED
  BY <1>1, Inductive, PTL

(* A put onto a volume that has room leaves at most one file incomplete    *)
(* for each failed transfer (the loop of cmd_put, hdfmonkey.c:344): a file *)
(* that was read to its end has been written to its end.  Apart from those *)
(* are the files that f_open refuses without a failed transfer: it may not *)
(* write to them, or a static root has no entries for them (ff.c:614), and *)
(* the entries a root still takes never grow, so these stay excused.       *)
THEOREM OnlyFaultsCutFilesOff == Spec => []OnlyFailedMissing
<1>1. IInv => OnlyFailedMissing
  <2> SUFFICES ASSUME IInv, cmd = "put", pc = "idle", ~full
               PROVE  Cardinality({f \in Files : ~Excused(f) /\ Stored(0, f) # host[f]}) <= errs
    BY DEF OnlyFailedMissing
  <2>1. Cardinality(Cut(Len(host) + 1)) <= errs
    BY DEF IInv, PutShape
  <2>2. \A f \in Files : f < Len(host) + 1
    <3> SUFFICES ASSUME NEW f \in Files PROVE f < Len(host) + 1
      OBVIOUS
    <3>1. Files = 1 .. Len(host) /\ Len(host) \in Nat
      BY FileType DEF IInv
    <3> QED
      BY <3>1
  <2>3. \A f \in Files : Stored(0, f) = host[f] <=> Length(0, f) = Len(host[f])
    BY StoredWhole DEF Volumes
  <2>4. {f \in Files : ~Excused(f) /\ Stored(0, f) # host[f]} = Cut(Len(host) + 1)
    BY ONLY <2>2, <2>3 DEF Cut
  <2> QED
    BY <2>1, <2>4
<1> QED
  BY <1>1, Inductive, PTL

(* A get that reports success has written exactly the file of the image,   *)
(* if the host took all that fwrite and fclose gave it: cmd_get does not   *)
(* look at their results (hdfmonkey.c:300), and reports success also where *)
(* the host's disk is full.                                                *)
THEOREM GetGivesTheFile == Spec => []GetExact
<1>1. IInv => GetExact
  <2> SUFFICES ASSUME IInv, cmd = "get", pc = "idle", res = "ok", ~lost PROVE got = Stored(0, file)
    BY DEF GetExact
  <2> DEFINE s == Stored(0, file)
             h == host[file]
             n == Length(0, file)
  <2>1. got \in Seq(Byte) /\ (\A j \in 1 .. Len(got) : got[j] = h[j]) /\ Len(got) = n
    BY DEF IInv, GetShape
  <2>2. file \in Files /\ 0 \in Volumes
    BY DEF IInv, ControlShape, Volumes
  <2>3. s \in Seq(Byte) /\ Len(s) = n /\ \A j \in 1 .. n : s[j] = h[j]
    BY <2>2, StoredType
  <2> HIDE DEF s, h, n
  <2>4. got = s
    <3>1. Len(got) = Len(s) /\ \A j \in 1 .. Len(got) : got[j] = s[j]
      BY ONLY <2>1, <2>3
    <3> QED
      BY ONLY <2>1, <2>3, <3>1, SameBytes
  <2> QED
    BY <2>4 DEF s
<1> QED
  BY <1>1, Inductive, PTL

(* A rebuild that met neither a failed transfer nor a full volume has      *)
(* copied every file of the source, byte by byte (copy_dir,                *)
(* hdfmonkey.c:784), up to the first file for which the new volume's       *)
(* static root has no entries: there copy_dir ends (hdfmonkey.c:787) and   *)
(* rebuild reports success all the same.                                   *)
THEOREM RebuildCopiesAll == Spec => []RebuildCopies
<1>1. IInv => RebuildCopies
  <2> SUFFICES ASSUME IInv, cmd = "rebuild", pc = "idle", errs = 0, ~full, NEW f \in Files,
                      ~\E g \in 1 .. f : Unfit(g)
               PROVE  Stored(1, f) = Stored(0, f)
    BY DEF RebuildCopies
  <2> DEFINE s == Stored(1, f)
             t == Stored(0, f)
             h == host[f]
             n == Length(0, f)
  <2>1. Length(1, f) = n
    BY DEF IInv, RebuildShape
  <2>2. 0 \in Volumes /\ 1 \in Volumes
    BY DEF Volumes
  <2>3. t \in Seq(Byte) /\ Len(t) = n /\ \A j \in 1 .. n : t[j] = h[j]
    BY <2>2, StoredType
  <2>4. s \in Seq(Byte) /\ Len(s) = n /\ \A j \in 1 .. n : s[j] = h[j]
    BY <2>1, <2>2, StoredType
  <2> HIDE DEF s, t, h, n
  <2>5. s = t
    BY ONLY <2>3, <2>4, SameBytes
  <2> QED
    BY <2>5 DEF s, t
<1> QED
  BY <1>1, Inductive, PTL

=============================================================================
