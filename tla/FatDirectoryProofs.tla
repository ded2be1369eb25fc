------------------------- MODULE FatDirectoryProofs --------------------------
(***************************************************************************)
(* Proofs about FatDirectory: no two objects have one short name, no call  *)
(* touches the entries of another object, no entry of a long name is left  *)
(* over, and every object is found again.  What is said of names holds     *)
(* while the table has no cluster that was not cleared (torn).             *)
(***************************************************************************)
EXTENDS FatDirectory, NaturalFacts, FiniteSetTheorems, SequenceTheorems, TLAPS

(* A table is in use up to the first entry that is the end; it goes on     *)
(* behind it if a cluster was not cleared.                                 *)
Ended == \A i, j \in DOMAIN table : i <= j /\ table[i].kind = "end" => table[j].kind = "end"

TableShape ==
    /\ Size(table) \in Nat /\ DOMAIN table = 0 .. (Size(table) - 1)
    /\ table = [i \in DOMAIN table |-> table[i]]
    /\ \A i \in DOMAIN table : IsEntry(table[i])
    /\ ~torn => Ended

Registering == pc \in {"reserve", "lfn", "sfn"}
Writing == pc \in {"lfn", "sfn"}

(* dir_register: blank entries ahead, and the segments already written     *)
(* behind.                                                                 *)
RegisterShape ==
    /\ Registering => /\ name \in Name /\ sfn \in ShortNames
                      /\ ~torn => \A i \in Live(table) : table[i].sfn # sfn
    /\ pc = "lfn" => name \in WithLfn /\ ord \in 1 .. Len(Text[name])
    /\ pc # "lfn" => ord = 0
    /\ Writing =>
          /\ idx \in Nat /\ idx + ord < Size(table)
          /\ \A j \in idx .. (idx + ord) : Blank(table, j)
          /\ ~torn => \A j \in 0 .. (idx - 1) : table[j].kind # "end"
    /\ Writing /\ name \in WithLfn =>
          /\ idx + ord >= Len(Text[name])
          /\ \A k \in (ord + 1) .. Len(Text[name]) : table[idx + ord - k] = Lfn(name, k, Sum[sfn])

(* dir_remove: one object, and no other between idx and it.                *)
RemoveShape ==
    pc = "delete" =>
        /\ idx \in Nat /\ last \in DOMAIN table /\ idx <= last
        /\ table[last].kind = "sfn"
        /\ \A j \in idx .. (last - 1) : table[j].kind # "sfn"

ControlShape ==
    /\ pc \in {"idle", "reserve", "lfn", "sfn", "delete"}
    /\ errs \in 0 .. MaxErrors /\ aliased \in BOOLEAN
    /\ torn \in BOOLEAN /\ (torn => errs # 0)

(* The entries of long names belong to an object, or to the call.          *)
Owner(i, j) == table[i].own = table[j].own /\ i = j + table[j].ord /\ Whole(table, i)

OwnerShape ==
    errs = 0 /\ ~aliased =>
        \A j \in LfnSlots(table) :
            \/ \E i \in Live(table) : Owner(i, j) /\ ~(pc = "delete" /\ i = last)
            \/ Writing /\ name \in WithLfn /\ j \in (idx + ord - Len(Text[name])) .. (idx - 1)
            \/ pc = "delete" /\ j \in idx .. (last - 1)

IInv ==
    TableShape /\ RegisterShape /\ RemoveShape /\ ControlShape /\ OwnerShape /\ ShortNamesDiffer

-----------------------------------------------------------------------------
(* The segments of a name.                                                 *)
LEMMA TextFacts ==
    \A n \in Name : /\ Len(Text[n]) \in Nat \ {0}
                    /\ Text[n] = [k \in 1 .. Len(Text[n]) |-> Text[n][k]]
<1> SUFFICES ASSUME NEW n \in Name
             PROVE  /\ Len(Text[n]) \in Nat \ {0}
                    /\ Text[n] = [k \in 1 .. Len(Text[n]) |-> Text[n][k]]
  OBVIOUS
<1> DEFINE S == {Text[n][k] : k \in DOMAIN Text[n]}
<1>1. Text[n] \in Seq(S) /\ Text[n] # <<>>
  BY TextAssumption
<1> HIDE DEF S
<1> QED
  BY <1>1

LEMMA TextLengths == \A n \in Name : Len(Text[n]) \in Nat \ {0}
BY TextFacts

(* How many numbers there are below n.                                     *)
LEMMA Interval == ASSUME NEW n \in Nat PROVE Cardinality(0 .. (n - 1)) = n
<1>1. Cardinality(0 .. (n - 1)) = IF 0 > n - 1 THEN 0 ELSE n - 1 - 0 + 1
  BY FS_Interval
<1> QED
  BY <1>1

-----------------------------------------------------------------------------
(* The loop of dir_find: st[i] is its state after the entries below i.     *)
Scan(q, w, st, i) ==
    IF i = 0 THEN Start
    ELSE LET before == st[i - 1]
         IN IF before.found # NoSlot THEN before ELSE Turn(q, w, before, table[i - 1], i - 1)

IsScan(q, w, m, st) == st = [i \in 0 .. m |-> Scan(q, w, st, i)]

LEMMA ScanExists ==
    ASSUME NEW q, NEW w
    PROVE  \A n \in Nat : \E st : st = [i \in 0 .. n |-> Scan(q, w, st, i)]
<1> DEFINE S == {n \in Nat : \E st : st = [i \in 0 .. n |-> Scan(q, w, st, i)]}
<1>1. 0 \in S
  <2>1. [i \in 0 .. 0 |-> Start] = [i \in 0 .. 0 |-> Scan(q, w, [j \in 0 .. 0 |-> Start], i)]
    BY DEF Scan
  <2> QED
    BY <2>1
<1>2. ASSUME NEW n \in Nat, n \in S PROVE n + 1 \in S
  <2>1. PICK st : st = [i \in 0 .. n |-> Scan(q, w, st, i)]
    BY <1>2
  <2> DEFINE g == [i \in 0 .. (n + 1) |-> IF i = n + 1 THEN Scan(q, w, st, n + 1) ELSE st[i]]
  <2>2. \A i \in 0 .. (n + 1) : g[i] = Scan(q, w, g, i)
    <3> SUFFICES ASSUME NEW i \in 0 .. (n + 1) PROVE g[i] = Scan(q, w, g, i)
      OBVIOUS
    <3>1. i # 0 => i - 1 \in 0 .. n /\ g[i - 1] = st[i - 1]
      OBVIOUS
    <3>2. i # n + 1 => i \in 0 .. n /\ g[i] = st[i] /\ st[i] = Scan(q, w, st, i)
      BY <2>1
    <3>3. i = n + 1 => g[i] = Scan(q, w, st, i)
      OBVIOUS
    <3>4. Scan(q, w, g, i) = Scan(q, w, st, i)
      BY <3>1 DEF Scan
    <3> QED
      BY <3>2, <3>3, <3>4
  <2>3. g = [i \in 0 .. (n + 1) |-> Scan(q, w, g, i)]
    <3>1. g = [i \in 0 .. (n + 1) |-> g[i]]
      OBVIOUS
    <3> HIDE DEF g
    <3> QED
      BY <2>2, <3>1
  <2> HIDE DEF g
  <2> QED
    BY <2>3
<1> HIDE DEF S
<1>3. Nat \subseteq S
  BY <1>1, <1>2, SetInduction
<1> QED
  BY <1>3 DEF S

(* The entries in use are those below some m.                              *)
Used(m) ==
    /\ m \in 0 .. Size(table)
    /\ \A i \in 0 .. (m - 1) : table[i].kind # "end"
    /\ ~torn => \A i \in DOMAIN table : i >= m => table[i].kind = "end"

LEMMA UsedExists ==
    ASSUME TableShape
    PROVE  \E m \in Nat :
              Used(m) /\ {i \in DOMAIN table : \A j \in 0 .. i : table[j].kind # "end"} = 0 .. (m - 1)
<1> DEFINE ends == {i \in DOMAIN table : table[i].kind = "end"}
           n == Size(table)
<1>1. n \in Nat /\ DOMAIN table = 0 .. (n - 1)
      /\ (~torn => Ended)
  BY DEF TableShape
<1> HIDE DEF n
<1>2. CASE ends = {}
  <2>1. Used(n)
    BY <1>1, <1>2 DEF Used, n
  <2>2. {i \in DOMAIN table : \A j \in 0 .. i : table[j].kind # "end"} = 0 .. (n - 1)
    BY <1>1, <1>2
  <2> QED
    BY <1>1, <2>1, <2>2
<1>3. CASE ends # {}
  <2>1. PICK m \in ends : \A k \in ends : m <= k
    <3>1. ends \subseteq Nat
      BY <1>1
    <3> HIDE DEF ends
    <3> QED
      BY <1>3, <3>1, LeastNatural
  <2>2. m \in Nat /\ m \in 0 .. n /\ \A i \in 0 .. (m - 1) : table[i].kind # "end"
    BY <1>1, <2>1
  <2>3. ~torn => \A i \in DOMAIN table : i >= m => table[i].kind = "end"
    BY <1>1, <2>1 DEF Ended
  <2>4. {i \in DOMAIN table : \A j \in 0 .. i : table[j].kind # "end"} = 0 .. (m - 1)
    BY <1>1, <2>1, <2>2, <2>3
  <2> QED
    BY <2>2, <2>3, <2>4 DEF Used, n
<1> QED
  BY <1>2, <1>3

LEMMA FindScans ==
    ASSUME TableShape, NEW q, NEW w
    PROVE  \E m \in Nat : \E st :
              /\ Used(m) /\ IsScan(q, w, m, st)
              /\ Find(table, q, w) = st[m]
<1>1. PICK m \in Nat :
          Used(m) /\ {i \in DOMAIN table : \A j \in 0 .. i : table[j].kind # "end"} = 0 .. (m - 1)
  BY UsedExists
<1>2. Cardinality({i \in DOMAIN table : \A j \in 0 .. i : table[j].kind # "end"}) = m
  BY <1>1, Interval
<1> DEFINE st == CHOOSE st : st = [i \in 0 .. m |-> Scan(q, w, st, i)]
<1>3. Find(table, q, w) = st[m]
  BY <1>2 DEF Find, Scan
<1>4. \E s : s = [i \in 0 .. m |-> Scan(q, w, s, i)]
  BY ScanExists
<1>5. st = [i \in 0 .. m |-> Scan(q, w, st, i)]
  BY <1>4
<1> HIDE DEF st
<1>6. IsScan(q, w, m, st)
  BY <1>5 DEF IsScan
<1> QED
  BY <1>1, <1>3, <1>6

-----------------------------------------------------------------------------
(* Entries, and one turn of the loop.                                      *)
LEMMA EntryFacts ==
    ASSUME NEW e, IsEntry(e)
    PROVE  /\ e.kind \in {"end", "deleted", "other", "lfn", "sfn"}
           /\ e.kind = "lfn" => /\ IsLfn(e) /\ e.own \in WithLfn /\ e.own \in Name
                                /\ Len(Text[e.own]) \in Nat /\ e.ord \in 1 .. Len(Text[e.own])
                                /\ e.last = (e.ord = Len(Text[e.own]))
                                /\ e.seg = Text[e.own][e.ord] /\ e.full = (e.own \in MaxLength)
           /\ e.kind = "sfn" => e.own \in Name /\ e.sfn \in ShortNames /\ IsShort(e)
           /\ e.kind \notin {"lfn", "sfn"} => e \in {End, Deleted, Other}
<1>1. CASE e \in {End, Deleted, Other}
  BY <1>1 DEF End, Deleted, Other
<1>2. CASE IsLfn(e)
  <2>1. PICK n \in WithLfn : \E k \in 1 .. Len(Text[n]) : \E s \in ShortNames : e = Lfn(n, k, Sum[s])
    BY <1>2 DEF IsLfn
  <2>2. PICK k \in 1 .. Len(Text[n]) : \E s \in ShortNames : e = Lfn(n, k, Sum[s])
    BY <2>1
  <2>3. n \in Name /\ Len(Text[n]) \in Nat
    BY NamesAssumption, TextLengths
  <2>4. PICK s \in ShortNames : e = Lfn(n, k, Sum[s])
    BY <2>2
  <2>5. /\ e.kind = "lfn" /\ e.own = n /\ e.ord = k /\ e.last = (k = Len(Text[n]))
        /\ e.seg = Text[n][k] /\ e.full = (n \in MaxLength)
    BY <2>4 DEF Lfn
  <2> QED
    BY <1>2, <2>3, <2>5
<1>3. CASE IsShort(e)
  <2>1. PICK n \in Name, s \in ShortNames : e = Short(n, s)
    BY <1>3 DEF IsShort
  <2>2. e.kind = "sfn" /\ e.own = n /\ e.sfn = s
    BY <2>1 DEF Short
  <2> QED
    BY <1>3, <2>2
<1> QED
  BY <1>1, <1>2, <1>3 DEF IsEntry

LEMMA EntrySum ==
    ASSUME NEW e, IsLfn(e)
    PROVE  \E s \in ShortNames : e.sum = Sum[s] /\ e = Lfn(e.own, e.ord, e.sum)
<1>1. PICK n \in WithLfn : \E k \in 1 .. Len(Text[n]) : \E s \in ShortNames : e = Lfn(n, k, Sum[s])
  BY DEF IsLfn
<1>2. PICK k \in 1 .. Len(Text[n]) : \E s \in ShortNames : e = Lfn(n, k, Sum[s])
  BY <1>1
<1>3. PICK s \in ShortNames : e = Lfn(n, k, Sum[s])
  BY <1>2
<1>4. e.sum = Sum[s] /\ e.own = n /\ e.ord = k
  BY <1>3 DEF Lfn
<1> QED
  BY <1>3, <1>4

Sums == {NoSum} \cup {Sum[s] : s \in ShortNames}
States == [ord : Int, sum : Sums, lfn : Int, found : Int]

(* The entry e at i is a long name entry.                                  *)
LfnTurned(q, s, e, i, r) ==
    /\ r.found = NoSlot
    /\ e.last => r.lfn = i
    /\ ~e.last => r.lfn = s.lfn
    /\ r.sum = IF e.last THEN e.sum ELSE s.sum
    /\ r.ord = IF (e.last \/ (e.ord = s.ord /\ e.sum = s.sum)) /\ CmpLfn(q, e) THEN e.ord - 1 ELSE NoOrd

LEMMA TurnFacts ==
    ASSUME NEW e, IsEntry(e), e.kind # "end", NEW s \in States, s.found = NoSlot, NEW i \in Nat,
           NEW q, NEW w \in BOOLEAN, NEW r, r = Turn(q, w, s, e, i)
    PROVE  /\ r \in States
           /\ e.kind \in {"deleted", "other"} => /\ r.ord = NoOrd /\ r.sum = s.sum
                                                 /\ r.lfn = s.lfn /\ r.found = NoSlot
           /\ e.kind = "lfn" /\ ~w => r = s
           /\ e.kind = "lfn" /\ w => LfnTurned(q, s, e, i, r)
           /\ e.kind = "sfn" =>
                 IF s.ord = 0 /\ s.sum = Sum[e.sfn]
                 THEN r = [s EXCEPT !.found = i]
                 ELSE /\ r.ord = NoOrd /\ r.sum = s.sum /\ r.lfn = NoSlot
                      /\ r.found = IF ~q.loss /\ e.sfn = q.sfn THEN i ELSE NoSlot
<1>1. CASE e.kind \in {"deleted", "other"}
  <2>1. r = [s EXCEPT !.ord = NoOrd]
    BY <1>1 DEF Turn
  <2> QED
    BY <1>1, <2>1 DEF States, NoOrd
<1>2. CASE e.kind = "lfn" /\ ~w
  BY <1>2 DEF Turn
<1>3. CASE e.kind = "lfn" /\ w
  <2> DEFINE begun == IF e.last THEN [s EXCEPT !.ord = e.ord, !.sum = e.sum, !.lfn = i] ELSE s
             fits == e.ord = begun.ord /\ e.sum = begun.sum /\ CmpLfn(q, e)
  <2>1. r = [begun EXCEPT !.ord = IF fits THEN e.ord - 1 ELSE NoOrd]
    BY <1>3 DEF Turn
  <2>2. e.ord \in Nat /\ e.sum \in Sums
    BY <1>3, EntryFacts, EntrySum DEF Sums
  <2>3. /\ begun \in States /\ begun.found = NoSlot
        /\ begun.lfn = (IF e.last THEN i ELSE s.lfn)
        /\ begun.sum = (IF e.last THEN e.sum ELSE s.sum)
        /\ begun.ord = (IF e.last THEN e.ord ELSE s.ord)
    <3>1. CASE e.last
      <4>1. begun = [s EXCEPT !.ord = e.ord, !.sum = e.sum, !.lfn = i]
        BY <3>1
      <4> HIDE DEF begun
      <4>2. begun = [ord |-> e.ord, sum |-> e.sum, lfn |-> i, found |-> s.found]
        BY <4>1 DEF States
      <4>3. /\ begun \in States /\ begun.found = NoSlot /\ begun.lfn = i
            /\ begun.sum = e.sum /\ begun.ord = e.ord
        BY <2>2, <4>2 DEF States
      <4> QED
        BY <3>1, <4>3
    <3>2. CASE ~e.last
      <4>1. begun = s
        BY <3>2
      <4> HIDE DEF begun
      <4> QED
        BY <3>2, <4>1 DEF States
    <3> QED
      BY <3>1, <3>2
  <2>4. fits <=> (e.last \/ (e.ord = s.ord /\ e.sum = s.sum)) /\ CmpLfn(q, e)
    BY <2>3
  <2> HIDE DEF begun, fits
  <2>5. /\ r \in States /\ r.found = begun.found /\ r.lfn = begun.lfn /\ r.sum = begun.sum
        /\ r.ord = IF fits THEN e.ord - 1 ELSE NoOrd
    BY <2>1, <2>2, <2>3 DEF States, NoOrd
  <2>6. r.ord = IF (e.last \/ (e.ord = s.ord /\ e.sum = s.sum)) /\ CmpLfn(q, e) THEN e.ord - 1 ELSE NoOrd
    BY <2>4, <2>5
  <2>7. LfnTurned(q, s, e, i, r)
    BY <1>3, <2>3, <2>5, <2>6 DEF LfnTurned
  <2> QED
    BY <1>3, <2>5, <2>7
<1>4. CASE e.kind = "sfn" /\ s.ord = 0 /\ s.sum = Sum[e.sfn]
  <2>1. r = [s EXCEPT !.found = i]
    BY <1>4 DEF Turn
  <2> QED
    BY <1>4, <2>1 DEF States
<1>5. CASE e.kind = "sfn" /\ ~(s.ord = 0 /\ s.sum = Sum[e.sfn])
  <2>1. r = [s EXCEPT !.ord = NoOrd, !.lfn = NoSlot,
                      !.found = IF ~q.loss /\ e.sfn = q.sfn THEN i ELSE NoSlot]
    BY <1>5 DEF Turn
  <2> DEFINE found == IF ~q.loss /\ e.sfn = q.sfn THEN i ELSE NoSlot
  <2>2. found \in Int /\ r = [s EXCEPT !.ord = NoOrd, !.lfn = NoSlot, !.found = found]
    BY <2>1 DEF NoSlot
  <2> HIDE DEF found
  <2>3. /\ r \in States /\ r.ord = NoOrd /\ r.sum = s.sum /\ r.lfn = NoSlot
        /\ r.found = found
    BY <2>2 DEF States, NoOrd, NoSlot
  <2> QED
    BY <1>5, <2>3 DEF found
<1> QED
  BY <1>1, <1>2, <1>3, <1>4, <1>5, EntryFacts

-----------------------------------------------------------------------------
(* What dir_find returns.                                                  *)
Steps(q, w, m, st) ==
    /\ st[0] = Start
    /\ \A i \in 0 .. m : st[i] \in States
    /\ \A i \in 0 .. (m - 1) :
          /\ IsEntry(table[i]) /\ table[i].kind # "end"
          /\ st[i + 1] = IF st[i].found # NoSlot THEN st[i] ELSE Turn(q, w, st[i], table[i], i)

LEMMA ScanTypes ==
    ASSUME TableShape, NEW q, NEW w \in BOOLEAN, NEW m \in Nat, Used(m),
           NEW st, IsScan(q, w, m, st)
    PROVE  Steps(q, w, m, st)
<1>0. st = [i \in 0 .. m |-> Scan(q, w, st, i)]
  BY DEF IsScan
<1>1. st[0] = Start
  BY <1>0 DEF Scan
<1>2. ASSUME NEW i \in 0 .. (m - 1)
      PROVE  /\ IsEntry(table[i]) /\ table[i].kind # "end" /\ i + 1 \in 0 .. m /\ i \in 0 .. m
             /\ st[i + 1] = IF st[i].found # NoSlot THEN st[i] ELSE Turn(q, w, st[i], table[i], i)
  <2>1. i \in DOMAIN table /\ i + 1 \in 0 .. m /\ i + 1 # 0 /\ (i + 1) - 1 = i /\ i \in 0 .. m
    BY DEF TableShape, Used
  <2>2. st[i + 1] = Scan(q, w, st, i + 1)
    BY <1>0, <2>1
  <2>3. st[i + 1] = IF st[i].found # NoSlot THEN st[i] ELSE Turn(q, w, st[i], table[i], i)
    BY <2>1, <2>2 DEF Scan
  <2> QED
    BY <2>1, <2>3 DEF TableShape, Used
<1> DEFINE S == {n \in Nat : n <= m => st[n] \in States}
<1>3. 0 \in S
  BY <1>1 DEF Start, States, Sums, NoOrd, NoSlot
<1>4. ASSUME NEW n \in Nat, n \in S PROVE n + 1 \in S
  <2> SUFFICES ASSUME n + 1 <= m PROVE st[n + 1] \in States
    OBVIOUS
  <2>1. n \in 0 .. (m - 1) /\ st[n] \in States
    BY <1>4
  <2>2. CASE st[n].found # NoSlot
    BY <1>2, <2>1, <2>2
  <2>3. CASE st[n].found = NoSlot
    <3>1. Turn(q, w, st[n], table[n], n) \in States
      BY <1>2, <2>1, <2>3, TurnFacts
    <3> QED
      BY <1>2, <2>1, <2>3, <3>1
  <2> QED
    BY <2>2, <2>3
<1> HIDE DEF S
<1>5. Nat \subseteq S
  BY <1>3, <1>4, SetInduction
<1>6. \A i \in 0 .. m : st[i] \in States
  BY <1>5 DEF S
<1> QED
  BY <1>1, <1>2, <1>6 DEF Steps

(* While nothing is found, no entry so far has the short name looked for.  *)
Unmatched(q, s, i) ==
    s.found = NoSlot /\ ~q.loss => \A j \in 0 .. (i - 1) : table[j].kind = "sfn" => table[j].sfn # q.sfn

NoShort(a, b) == \A j \in a .. (b - 1) : table[j].kind # "sfn"

(* From the last segment remembered there are no short names up to here.   *)
Begun(s, i) ==
    s.lfn # NoSlot =>
        /\ s.lfn \in 0 .. (i - 1)
        /\ table[s.lfn].kind = "lfn" /\ table[s.lfn].ord = Len(Text[table[s.lfn].own])
        /\ s.found = NoSlot => NoShort(s.lfn, i)

Met(s, i) ==
    s.found # NoSlot =>
        /\ s.found \in 0 .. (i - 1) /\ table[s.found].kind = "sfn"
        /\ s.lfn # NoSlot => s.lfn < s.found /\ NoShort(s.lfn, s.found)

SoFar(q, s, i) == Unmatched(q, s, i) /\ Begun(s, i) /\ Met(s, i)

LEMMA NoShortFacts ==
    ASSUME NEW a \in Nat, NEW n \in Nat, a <= n, table[n].kind # "sfn"
    PROVE  /\ NoShort(n, n + 1)
           /\ a < n /\ NoShort(a, n) => NoShort(a, n + 1)
<1>1. \A j \in a .. ((n + 1) - 1) : j \in a .. (n - 1) \/ j = n
  OBVIOUS
<1>2. \A j \in n .. ((n + 1) - 1) : j = n
  OBVIOUS
<1> QED
  BY <1>1, <1>2 DEF NoShort

LEMMA UnmatchedFacts ==
    ASSUME NEW n \in Nat, NEW q, NEW s, NEW r, Unmatched(q, s, n),
           s.found = NoSlot, r.found = NoSlot,
           table[n].kind = "sfn" /\ ~q.loss => table[n].sfn # q.sfn
    PROVE  Unmatched(q, r, n + 1)
<1>1. \A j \in 0 .. ((n + 1) - 1) : j \in 0 .. (n - 1) \/ j = n
  OBVIOUS
<1> QED
  BY <1>1 DEF Unmatched

LEMMA SoFarTurn ==
    ASSUME NEW q, NEW w \in BOOLEAN, NEW n \in Nat, IsEntry(table[n]), table[n].kind # "end",
           NEW s \in States, SoFar(q, s, n),
           NEW r, r = IF s.found # NoSlot THEN s ELSE Turn(q, w, s, table[n], n)
    PROVE  SoFar(q, r, n + 1)
<1> DEFINE e == table[n]
<1>1. s.found \in Int /\ s.lfn \in Int /\ n # NoSlot
  BY DEF States, NoSlot
<1>2. CASE s.found # NoSlot
  <2>1. r = s
    BY <1>2
  <2>2. \A x \in 0 .. (n - 1) : x \in 0 .. ((n + 1) - 1)
    OBVIOUS
  <2> QED
    BY <1>2, <2>1, <2>2 DEF SoFar, Unmatched, Begun, Met
<1>3. CASE s.found = NoSlot
  <2>1. r = Turn(q, w, s, e, n)
    BY <1>3
  <2>2. r.found = NoSlot => Met(r, n + 1)
    BY DEF Met
  <2>3. s.lfn # NoSlot => s.lfn \in 0 .. (n - 1) /\ s.lfn \in 0 .. ((n + 1) - 1) /\ s.lfn < n
    BY <1>1 DEF SoFar, Begun
  <2>4. CASE e.kind \in {"deleted", "other"}
    <3>1. r.lfn = s.lfn /\ r.found = NoSlot
      BY <1>3, <2>1, <2>4, TurnFacts
    <3>2. Unmatched(q, r, n + 1)
      BY <1>3, <2>4, <3>1, UnmatchedFacts DEF SoFar
    <3>3. Begun(r, n + 1)
      BY <1>3, <2>3, <2>4, <3>1, NoShortFacts DEF SoFar, Begun
    <3> QED
      BY <2>2, <3>1, <3>2, <3>3 DEF SoFar
  <2>5. CASE e.kind = "lfn" /\ ~w
    <3>1. r = s
      BY <1>3, <2>1, <2>5, TurnFacts
    <3>2. Unmatched(q, r, n + 1)
      BY <1>3, <2>5, <3>1, UnmatchedFacts DEF SoFar
    <3>3. Begun(r, n + 1)
      BY <1>3, <2>3, <2>5, <3>1, NoShortFacts DEF SoFar, Begun
    <3> QED
      BY <1>3, <2>2, <3>1, <3>2, <3>3 DEF SoFar
  <2>6. CASE e.kind = "lfn" /\ w
    <3>1. r.found = NoSlot /\ (e.last => r.lfn = n) /\ (~e.last => r.lfn = s.lfn)
      <4>1. IsEntry(e) /\ e.kind # "end" /\ e.kind = "lfn"
        BY <2>6
      <4> HIDE DEF e
      <4>2. LfnTurned(q, s, e, n, r)
        BY <1>3, <2>1, <2>6, <4>1, TurnFacts
      <4> QED
        BY <4>2 DEF LfnTurned
    <3>2. Unmatched(q, r, n + 1)
      BY <1>3, <2>6, <3>1, UnmatchedFacts DEF SoFar
    <3>3. CASE r.lfn = n /\ e.last
      <4>1. e.ord = Len(Text[e.own])
        BY <2>6, <3>3, EntryFacts
      <4>2. NoShort(n, n + 1) /\ n \in 0 .. ((n + 1) - 1)
        BY <2>6, NoShortFacts
      <4>3. Begun(r, n + 1)
        BY <2>6, <3>3, <4>1, <4>2 DEF Begun
      <4> QED
        BY <2>2, <3>1, <3>2, <4>3 DEF SoFar
    <3>4. CASE r.lfn = s.lfn
      <4>1. s.lfn # NoSlot => NoShort(s.lfn, n + 1)
        <5> SUFFICES ASSUME s.lfn # NoSlot PROVE NoShort(s.lfn, n + 1)
          OBVIOUS
        <5>1. s.lfn \in Nat /\ s.lfn < n /\ NoShort(s.lfn, n)
          BY <1>3, <2>3 DEF SoFar, Begun
        <5> QED
          BY <2>6, <5>1, NoShortFacts
      <4>2. Begun(r, n + 1)
        BY <1>3, <2>3, <3>4, <4>1 DEF SoFar, Begun
      <4> QED
        BY <2>2, <3>1, <3>2, <4>2 DEF SoFar
    <3> QED
      BY <3>1, <3>3, <3>4
  <2>7. CASE e.kind = "sfn" /\ s.ord = 0 /\ s.sum = Sum[e.sfn]
    <3>1. r = [s EXCEPT !.found = n]
      BY <1>3, <2>1, <2>7, TurnFacts
    <3>2. r.found = n /\ r.lfn = s.lfn
      BY <3>1 DEF States
    <3>3. n \in 0 .. ((n + 1) - 1)
      OBVIOUS
    <3> QED
      BY <1>1, <1>3, <2>3, <2>7, <3>2, <3>3 DEF SoFar, Unmatched, Begun, Met
  <2>8. CASE e.kind = "sfn" /\ ~(s.ord = 0 /\ s.sum = Sum[e.sfn])
    <3>1. r.lfn = NoSlot /\ r.found = IF ~q.loss /\ e.sfn = q.sfn THEN n ELSE NoSlot
      BY <1>3, <2>1, <2>8, TurnFacts
    <3>2. Begun(r, n + 1)
      BY <3>1 DEF Begun
    <3>3. CASE r.found = NoSlot /\ ~(~q.loss /\ e.sfn = q.sfn)
      BY <1>3, <2>2, <3>2, <3>3, UnmatchedFacts DEF SoFar
    <3>4. CASE r.found = n
      <4>1. n \in 0 .. ((n + 1) - 1)
        OBVIOUS
      <4> QED
        BY <1>1, <2>8, <3>1, <3>2, <3>4, <4>1 DEF SoFar, Unmatched, Met
    <3> QED
      BY <1>1, <3>1, <3>3, <3>4
  <2> QED
    BY <2>4, <2>5, <2>6, <2>7, <2>8, EntryFacts
<1> QED
  BY <1>2, <1>3

LEMMA ScanSoFar ==
    ASSUME TableShape, NEW q, NEW w \in BOOLEAN, NEW m \in Nat, Used(m),
           NEW st, IsScan(q, w, m, st)
    PROVE  \A i \in 0 .. m : SoFar(q, st[i], i)
<1>0. /\ st[0] = Start
      /\ \A i \in 0 .. m : st[i] \in States
      /\ \A i \in 0 .. (m - 1) :
            /\ IsEntry(table[i]) /\ table[i].kind # "end"
            /\ st[i + 1] = IF st[i].found # NoSlot THEN st[i] ELSE Turn(q, w, st[i], table[i], i)
  <2>1. Steps(q, w, m, st)
    BY ScanTypes
  <2> QED
    BY <2>1 DEF Steps
<1> DEFINE S == {n \in Nat : n <= m => SoFar(q, st[n], n)}
<1>1. 0 \in S
  <2>1. SoFar(q, Start, 0)
    BY DEF SoFar, Unmatched, Begun, Met, Start, NoSlot
  <2> QED
    BY <1>0, <2>1
<1>2. ASSUME NEW n \in Nat, n \in S PROVE n + 1 \in S
  <2> SUFFICES ASSUME n + 1 <= m PROVE SoFar(q, st[n + 1], n + 1)
    OBVIOUS
  <2>1. n \in 0 .. (m - 1) /\ n \in 0 .. m /\ SoFar(q, st[n], n)
    BY <1>2
  <2> QED
    BY <1>0, <2>1, SoFarTurn
<1> HIDE DEF S
<1>3. Nat \subseteq S
  BY <1>1, <1>2, SetInduction
<1> QED
  BY <1>3 DEF S

LEMMA FindFacts ==
    ASSUME TableShape, NEW q, NEW w \in BOOLEAN, NEW r, r = Find(table, q, w)
    PROVE  /\ r.found = NoSlot /\ ~q.loss /\ ~torn => \A i \in Live(table) : table[i].sfn # q.sfn
           /\ r.found # NoSlot => r.found \in DOMAIN table /\ table[r.found].kind = "sfn"
           /\ r.found # NoSlot /\ r.lfn # NoSlot =>
                 /\ r.lfn \in DOMAIN table /\ r.lfn < r.found /\ NoShort(r.lfn, r.found)
                 /\ table[r.lfn].kind = "lfn" /\ table[r.lfn].ord = Len(Text[table[r.lfn].own])
<1>1. PICK m \in Nat : \E st : Used(m) /\ IsScan(q, w, m, st) /\ Find(table, q, w) = st[m]
  BY FindScans
<1>2. PICK st : Used(m) /\ IsScan(q, w, m, st) /\ Find(table, q, w) = st[m]
  BY <1>1
<1>3. SoFar(q, r, m)
  <2>1. \A i \in 0 .. m : SoFar(q, st[i], i)
    BY <1>2, ScanSoFar
  <2> QED
    BY <1>2, <2>1
<1>4. /\ Size(table) \in Nat /\ DOMAIN table = 0 .. (Size(table) - 1)
      /\ \A i \in 0 .. (m - 1) : i \in DOMAIN table
      /\ ~torn => \A i \in DOMAIN table : table[i].kind # "end" => i \in 0 .. (m - 1)
  BY <1>2 DEF TableShape, Used
<1>5. r.found = NoSlot /\ ~q.loss /\ ~torn => \A i \in Live(table) : table[i].sfn # q.sfn
  BY <1>3, <1>4 DEF SoFar, Unmatched, Live
<1>6. r.found # NoSlot => r.found \in DOMAIN table /\ table[r.found].kind = "sfn"
  BY <1>3, <1>4 DEF SoFar, Met
<1>7. ASSUME r.found # NoSlot, r.lfn # NoSlot
      PROVE  /\ r.lfn \in DOMAIN table /\ r.lfn < r.found /\ NoShort(r.lfn, r.found)
             /\ table[r.lfn].kind = "lfn" /\ table[r.lfn].ord = Len(Text[table[r.lfn].own])
  BY <1>3, <1>4, <1>7 DEF SoFar, Begun, Met
<1> QED
  BY <1>5, <1>6, <1>7

-----------------------------------------------------------------------------
(* An object and its entries.                                              *)
LEMMA NameFacts ==
    ASSUME NEW n \in WithLfn
    PROVE  n \in Name /\ Len(Text[n]) \in Nat \ {0}
BY NamesAssumption, TextLengths

LEMMA RunEntries ==
    ASSUME TableShape, NEW i \in Live(table), Whole(table, i), table[i].own \in WithLfn
    PROVE  \A j \in (i - Len(Text[table[i].own])) .. (i - 1) :
              j \in DOMAIN table /\ table[j].kind = "lfn"
<1> DEFINE n == table[i].own
           len == Len(Text[n])
<1>1. len \in Nat
  BY NameFacts
<1>2. i >= len /\ \A k \in 1 .. len : table[i - k] = Lfn(n, k, Sum[table[i].sfn])
  BY DEF Whole, RunOf
<1>3. i \in DOMAIN table /\ Size(table) \in Nat /\ DOMAIN table = 0 .. (Size(table) - 1)
  BY DEF TableShape, Live
<1> HIDE DEF n, len
<1> SUFFICES ASSUME NEW j \in (i - len) .. (i - 1) PROVE j \in DOMAIN table /\ table[j].kind = "lfn"
  BY DEF n, len
<1>4. j \in DOMAIN table /\ i - j \in 1 .. len /\ i - (i - j) = j
  BY <1>1, <1>2, <1>3
<1>5. table[j] = Lfn(n, i - j, Sum[table[i].sfn])
  BY <1>2, <1>4
<1> QED
  BY <1>4, <1>5 DEF Lfn

LEMMA Kept ==
    ASSUME TableShape, NEW x,
           \A j \in DOMAIN table : j \in DOMAIN table' /\ (j # x => table'[j] = table[j]),
           NEW i \in Live(table), Whole(table, i), x # i,
           table[i].own \in WithLfn => x \notin (i - Len(Text[table[i].own])) .. (i - 1)
    PROVE  i \in Live(table') /\ i \in DOMAIN table' /\ table'[i] = table[i] /\ Whole(table', i)
<1>1. i \in DOMAIN table /\ i \in Live(table') /\ i \in DOMAIN table' /\ table'[i] = table[i]
  BY DEF Live
<1>2. ASSUME table[i].own \in WithLfn PROVE RunOf(table', i, table[i].own)
  <2> DEFINE n == table[i].own
             len == Len(Text[n])
  <2>1. len \in Nat
    BY <1>2, NameFacts
  <2>2. i >= len /\ \A k \in 1 .. len : table[i - k] = Lfn(n, k, Sum[table[i].sfn])
    BY <1>2 DEF Whole, RunOf
  <2>3. \A j \in (i - len) .. (i - 1) : j \in DOMAIN table /\ j # x
    BY <1>2, RunEntries
  <2>4. i \in Int
    BY <1>1 DEF TableShape
  <2>5. \A k \in 1 .. len : i - k \in (i - len) .. (i - 1)
    BY <2>1, <2>4
  <2>6. \A k \in 1 .. len : table'[i - k] = Lfn(n, k, Sum[table[i].sfn])
    BY <2>2, <2>3, <2>5
  <2> QED
    BY <1>1, <2>2, <2>6 DEF RunOf
<1> QED
  BY <1>1, <1>2 DEF Whole

(* Writing one entry.                                                      *)
LEMMA Written ==
    ASSUME TableShape, NEW x \in DOMAIN table, NEW e, IsEntry(e), e.kind # "end",
           ~torn => \A j \in 0 .. (x - 1) : table[j].kind # "end",
           table' = [table EXCEPT ![x] = e], torn' = torn
    PROVE  /\ TableShape'
           /\ DOMAIN table' = DOMAIN table /\ Size(table') = Size(table)
           /\ table'[x] = e /\ \A j \in DOMAIN table : j # x => table'[j] = table[j]
<1>1. /\ DOMAIN table' = DOMAIN table /\ Size(table') = Size(table)
      /\ table'[x] = e /\ \A j \in DOMAIN table : j # x => table'[j] = table[j]
  BY DEF TableShape, Size
<1>2. table' = [i \in DOMAIN table' |-> table'[i]]
  OBVIOUS
<1>3. (~torn => Ended)'
  <2> SUFFICES ASSUME ~torn, NEW i \in DOMAIN table, NEW j \in DOMAIN table, i <= j, table'[i].kind = "end"
               PROVE  table'[j].kind = "end"
    BY <1>1 DEF Ended
  <2>1. i # x /\ table[i].kind = "end"
    BY <1>1
  <2>2. i \in Nat /\ x \in Nat /\ ~(i < x)
    BY <2>1 DEF TableShape
  <2>3. j # x
    BY <2>1, <2>2
  <2> QED
    BY <1>1, <2>1, <2>3 DEF TableShape, Ended
<1>4. \A i \in DOMAIN table' : IsEntry(table'[i])
  BY <1>1 DEF TableShape
<1> QED
  BY <1>1, <1>2, <1>3, <1>4 DEF TableShape

-----------------------------------------------------------------------------
(* Steps that leave the table alone.                                       *)
Untouched ==
    \A i \in Live(table) :
        Whole(table, i) /\ ~(pc = "delete" /\ i = last)
            => i \in DOMAIN table' /\ table'[i] = table[i] /\ Whole(table', i)

LEMMA SameTable ==
    ASSUME IInv, UNCHANGED <<table, torn>>
    PROVE  TableShape' /\ ShortNamesDiffer' /\ Untouched
<1>1. TableShape'
  BY DEF IInv, TableShape, Ended, Size
<1>2. ShortNamesDiffer'
  BY DEF IInv, ShortNamesDiffer
<1>3. Untouched
  BY DEF Untouched, Live
<1> QED
  BY <1>1, <1>2, <1>3

LEMMA SameOwners ==
    ASSUME OwnerShape, UNCHANGED <<table, aliased, errs>>,
           pc \notin {"lfn", "sfn", "delete"}, pc' # "delete"
    PROVE  OwnerShape'
BY DEF OwnerShape, Owner, Writing

LEMMA InitIInv == Init => IInv
<1> SUFFICES ASSUME Init PROVE IInv
  OBVIOUS
<1>0. FirstSlots \in Nat \ {0}
  BY SlotsAssumption
<1>1. /\ table = [i \in 0 .. (FirstSlots - 1) |-> IF i = 0 THEN Other ELSE End]
      /\ DOMAIN table = 0 .. (FirstSlots - 1) /\ Size(table) = FirstSlots
  BY <1>0, Interval DEF Init, Size
<1>2. \A i \in DOMAIN table : table[i] \in {Other, End} /\ table[i].kind \notin {"lfn", "sfn"}
                              /\ (table[i].kind = "end" <=> i # 0)
  BY <1>1 DEF Other, End
<1>3. TableShape
  <2>1. \A i \in DOMAIN table : IsEntry(table[i])
    BY <1>2 DEF IsEntry
  <2>2. Ended
    BY <1>0, <1>1, <1>2 DEF Ended
  <2>3. table = [i \in DOMAIN table |-> table[i]]
    BY <1>1
  <2> QED
    BY <1>0, <1>1, <2>1, <2>2, <2>3 DEF TableShape
<1>4. Live(table) = {} /\ LfnSlots(table) = {}
  BY <1>2 DEF Live, LfnSlots
<1>5. pc = "idle" /\ ord = 0 /\ errs = 0 /\ aliased = FALSE /\ torn = FALSE
  BY DEF Init
<1>6. RegisterShape /\ RemoveShape
  BY <1>5 DEF RegisterShape, RemoveShape, Registering, Writing
<1>7. ControlShape
  <2>1. aliased \in BOOLEAN /\ torn \in BOOLEAN
    BY <1>5, Zenon
  <2>2. errs \in 0 .. MaxErrors
    BY <1>5, ErrorsAssumption
  <2> QED
    BY <1>5, <2>1, <2>2 DEF ControlShape
<1>8. OwnerShape /\ ShortNamesDiffer
  BY <1>4 DEF OwnerShape, ShortNamesDiffer
<1> QED
  BY <1>3, <1>6, <1>7, <1>8 DEF IInv

LEMMA StutterStep == ASSUME IInv, UNCHANGED vars PROVE IInv' /\ Untouched
<1>1. TableShape' /\ ShortNamesDiffer' /\ Untouched
  BY SameTable DEF vars
<1>2. RegisterShape'
  BY DEF IInv, vars, RegisterShape, Registering, Writing, Size, Live
<1>3. RemoveShape' /\ ControlShape'
  BY DEF IInv, vars, RemoveShape, ControlShape
<1>4. OwnerShape'
  BY DEF IInv, vars, OwnerShape, Owner, Writing
<1> QED
  BY <1>1, <1>2, <1>3, <1>4 DEF IInv

LEMMA CreateStep == ASSUME IInv, Create PROVE IInv' /\ Untouched
<1>1. PICK n \in Name : Lookup(table, n).found = NoSlot /\ sfn' \in FreeShortNames(n) /\ name' = n
  BY DEF Create
<1>2. /\ pc = "idle" /\ pc' = "reserve" /\ UNCHANGED <<table, idx, last, ord, aliased, torn, errs>>
  BY DEF Create
<1>3. TableShape' /\ ShortNamesDiffer' /\ Untouched
  BY <1>2, SameTable
<1>4. sfn' \in ShortNames /\ (~torn => \A i \in Live(table) : table[i].sfn # sfn')
  <2>1. CASE n \notin Loss
    <3>1. sfn' = Sfn[n] /\ Query(n).sfn = Sfn[n] /\ ~Query(n).loss
      BY <1>1, <2>1 DEF FreeShortNames, Query
    <3>2. Find(table, Query(n), TRUE).found = NoSlot
      BY <1>1 DEF Lookup
    <3>3. ~torn => \A i \in Live(table) : table[i].sfn # Query(n).sfn
      BY <3>1, <3>2, FindFacts DEF IInv
    <3> QED
      BY <2>1, <3>1, <3>3 DEF ShortNames
  <2>2. CASE n \in Loss
    <3>1. PICK k \in DOMAIN Numbered[n] : ~Taken(table, Numbered[n][k]) /\ sfn' = Numbered[n][k]
      BY <1>1, <2>2 DEF FreeShortNames
    <3>2. Find(table, Alias(sfn'), FALSE).found = NoSlot /\ Alias(sfn').sfn = sfn' /\ ~Alias(sfn').loss
      BY <3>1 DEF Taken, Alias
    <3>3. ~torn => \A i \in Live(table) : table[i].sfn # Alias(sfn').sfn
      BY <3>2, FindFacts DEF IInv
    <3> QED
      BY <2>2, <3>1, <3>2, <3>3 DEF ShortNames
  <2> QED
    BY <2>1, <2>2
<1>5. RegisterShape'
  BY <1>1, <1>2, <1>4 DEF IInv, RegisterShape, Registering, Writing
<1>6. RemoveShape' /\ ControlShape'
  BY <1>2 DEF IInv, RemoveShape, ControlShape
<1>7. OwnerShape'
  BY <1>2, SameOwners DEF IInv
<1> QED
  BY <1>3, <1>5, <1>6, <1>7 DEF IInv

LEMMA ReserveStep == ASSUME IInv, Reserve PROVE IInv' /\ Untouched
<1>1. PICK i \in DOMAIN table : RunAt(i) /\ (\A j \in 0 .. (i - 1) : ~RunAt(j)) /\ idx' = i
  BY DEF Reserve
<1>2. /\ pc = "reserve" /\ UNCHANGED <<table, name, sfn, last, aliased, torn, errs>>
      /\ IF Need > 1 THEN pc' = "lfn" /\ ord' = Need - 1 ELSE pc' = "sfn" /\ ord' = ord
  BY DEF Reserve
<1>3. TableShape' /\ ShortNamesDiffer' /\ Untouched
  BY <1>2, SameTable
<1>4. name \in Name /\ ord = 0 /\ sfn \in ShortNames /\ (~torn => \A j \in Live(table) : table[j].sfn # sfn)
  BY <1>2 DEF IInv, RegisterShape, Registering
<1>5. Len(Text[name]) \in Nat \ {0} /\ Need \in Nat
  BY <1>4, TextLengths DEF Need
<1>6. /\ name \in WithLfn => pc' = "lfn" /\ ord' = Len(Text[name])
      /\ name \notin WithLfn => pc' = "sfn" /\ ord' = 0
      /\ ord' = Need - 1
  BY <1>2, <1>4, <1>5 DEF Need
<1>7. /\ i \in Nat /\ Size(table) \in Nat /\ DOMAIN table = 0 .. (Size(table) - 1)
      /\ i + Need <= Size(table) /\ \A j \in i .. (i + Need - 1) : Blank(table, j)
  BY <1>1 DEF IInv, TableShape, RunAt
<1>8. ~torn => \A j \in 0 .. (i - 1) : table[j].kind # "end"
  <2> SUFFICES ASSUME ~torn, NEW j \in 0 .. (i - 1), table[j].kind = "end" PROVE FALSE
    OBVIOUS
  <2>1. j + Need <= Size(table) /\ j \in DOMAIN table
    BY <1>5, <1>7
  <2>2. \A k \in j .. (j + Need - 1) : k \in DOMAIN table /\ j <= k
    BY <1>5, <1>7, <2>1
  <2>3. \A k \in j .. (j + Need - 1) : table[k].kind = "end"
    BY <2>1, <2>2 DEF IInv, TableShape, Ended
  <2>4. RunAt(j)
    BY <2>1, <2>3 DEF RunAt, Blank
  <2> QED
    BY <1>1, <2>4
<1>9. RegisterShape'
  <2>1. /\ idx' \in Nat /\ idx' + ord' < Size(table') /\ idx' + ord' = i + Need - 1
        /\ \A j \in idx' .. (idx' + ord') : Blank(table', j)
        /\ ~torn' => \A j \in 0 .. (idx' - 1) : table'[j].kind # "end"
    <3>1. idx' = i /\ idx' + ord' = i + Need - 1 /\ table' = table
      BY <1>1, <1>2, <1>5, <1>6, <1>7
    <3>2. i + Need - 1 < Size(table) /\ Size(table') = Size(table)
      BY <1>5, <1>7, <3>1
    <3>3. \A j \in i .. (i + Need - 1) : Blank(table', j)
      BY <1>7, <3>1
    <3> QED
      BY <1>2, <1>7, <1>8, <3>1, <3>2, <3>3
  <2>2. pc' \in {"lfn", "sfn"} /\ (pc' = "lfn" <=> name \in WithLfn)
    BY <1>6
  <2>3. (Registering => /\ name \in Name /\ sfn \in ShortNames
                        /\ ~torn => \A j \in Live(table) : table[j].sfn # sfn)'
    BY <1>2, <1>4
  <2>4. pc' = "lfn" => name' \in WithLfn /\ ord' \in 1 .. Len(Text[name'])
    BY <1>2, <1>5, <1>6, <2>2
  <2>5. pc' # "lfn" => ord' = 0
    BY <1>6
  <2>6. name' \in WithLfn =>
            /\ idx' + ord' >= Len(Text[name'])
            /\ \A k \in (ord' + 1) .. Len(Text[name']) :
                  table'[idx' + ord' - k] = Lfn(name', k, Sum[sfn'])
    BY <1>1, <1>2, <1>5, <1>6, <1>7
  <2> QED
    BY <2>1, <2>3, <2>4, <2>5, <2>6 DEF RegisterShape
<1>10. RemoveShape' /\ ControlShape'
  BY <1>2, <1>6 DEF IInv, RemoveShape, ControlShape
<1>11. OwnerShape'
  BY <1>2, <1>6, SameOwners DEF IInv
<1> QED
  BY <1>3, <1>9, <1>10, <1>11 DEF IInv

LEMMA TableFullStep == ASSUME IInv, TableFull PROVE IInv' /\ Untouched
<1>1. /\ pc = "reserve" /\ pc' = "idle" /\ ord' = 0 /\ UNCHANGED <<table, aliased, torn, errs>>
  BY DEF TableFull, Return
<1>2. TableShape' /\ ShortNamesDiffer' /\ Untouched
  BY <1>1, SameTable
<1>3. RegisterShape' /\ RemoveShape'
  BY <1>1 DEF RegisterShape, RemoveShape, Registering, Writing
<1>4. ControlShape'
  BY <1>1 DEF IInv, ControlShape
<1>5. OwnerShape'
  BY <1>1, SameOwners DEF IInv
<1> QED
  BY <1>2, <1>3, <1>4, <1>5 DEF IInv

LEMMA FailsStep == ASSUME IInv, Fails PROVE IInv' /\ Untouched
<1>1. /\ pc' = "idle" /\ ord' = 0 /\ UNCHANGED <<table, aliased, torn>>
      /\ errs < MaxErrors /\ errs' = errs + 1
  BY DEF Fails, Fault, Return
<1>2. TableShape' /\ ShortNamesDiffer' /\ Untouched
  BY <1>1, SameTable
<1>3. RegisterShape' /\ RemoveShape'
  BY <1>1 DEF RegisterShape, RemoveShape, Registering, Writing
<1>4. errs' \in 0 .. MaxErrors /\ errs' # 0
  BY <1>1, ErrorsAssumption DEF IInv, ControlShape
<1>5. ControlShape'
  BY <1>1, <1>4 DEF IInv, ControlShape
<1>6. OwnerShape'
  BY <1>4 DEF OwnerShape
<1> QED
  BY <1>2, <1>3, <1>5, <1>6 DEF IInv

(* The table with the entries of one more cluster.                         *)
LEMMA Lengthened ==
    ASSUME TableShape, NEW new, \A k \in 1 .. Growth : IsEntry(new[k]), table' = Longer(new)
    PROVE  /\ Size(table') \in Nat /\ DOMAIN table' = 0 .. (Size(table') - 1)
           /\ table' = [i \in DOMAIN table' |-> table'[i]]
           /\ \A i \in DOMAIN table' : IsEntry(table'[i])
           /\ \A i \in DOMAIN table : i \in DOMAIN table' /\ table'[i] = table[i]
           /\ \A i \in DOMAIN table' : i \notin DOMAIN table => i >= Size(table) /\ \E k \in 1 .. Growth : table'[i] = new[k]
           /\ \A i \in Live(table) : Whole(table, i) => Whole(table', i)
<1> DEFINE n == Size(table)
<1>1. table' = [i \in 0 .. (n + Growth - 1) |-> IF i \in DOMAIN table THEN table[i] ELSE new[i - n + 1]]
  BY DEF Longer
<1>2. n \in Nat /\ DOMAIN table = 0 .. (n - 1) /\ Growth \in Nat
  BY SlotsAssumption DEF TableShape
<1>3. DOMAIN table' = 0 .. (n + Growth - 1) /\ Size(table') = n + Growth
  <2>1. DOMAIN table' = 0 .. (n + Growth - 1)
    BY <1>1
  <2> HIDE DEF n
  <2> QED
    BY <1>2, <2>1, Interval DEF Size
<1>4. /\ \A i \in DOMAIN table : i \in DOMAIN table' /\ table'[i] = table[i]
      /\ \A i \in DOMAIN table' : i \notin DOMAIN table => i >= n /\ i - n + 1 \in 1 .. Growth /\ table'[i] = new[i - n + 1]
  <2> HIDE DEF n
  <2> QED
    BY <1>1, <1>2, <1>3
<1>5. Size(table') \in Nat /\ DOMAIN table' = 0 .. (Size(table') - 1)
  <2> HIDE DEF n
  <2> QED
    BY <1>2, <1>3
<1>6. table' = [i \in DOMAIN table' |-> table'[i]]
  BY <1>1
<1>7. \A i \in DOMAIN table' : IsEntry(table'[i])
  BY <1>4 DEF TableShape
<1>8. \A i \in Live(table) : Whole(table, i) => Whole(table', i)
  <2>1. \A j \in DOMAIN table : j \in DOMAIN table' /\ (j # NoSlot => table'[j] = table[j])
    BY <1>4
  <2>2. \A i \in DOMAIN table : NoSlot # i
    BY <1>2 DEF NoSlot
  <2> SUFFICES ASSUME NEW i \in Live(table), Whole(table, i) PROVE Whole(table', i)
    OBVIOUS
  <2>3. i \in DOMAIN table /\ NoSlot # i
    BY <2>2 DEF Live
  <2>4. ASSUME table[i].own \in WithLfn
        PROVE  NoSlot \notin (i - Len(Text[table[i].own])) .. (i - 1)
    <3>1. \A j \in (i - Len(Text[table[i].own])) .. (i - 1) : j \in DOMAIN table
      BY <2>4, RunEntries
    <3> QED
      BY <2>2, <3>1
  <2> QED
    BY <2>1, <2>3, <2>4, Kept
<1> QED
  BY <1>4, <1>5, <1>6, <1>7, <1>8

LEMMA StretchStep == ASSUME IInv, Stretch PROVE IInv' /\ Untouched
<1> DEFINE blank == [k \in 1 .. Growth |-> End]
<1>1. /\ pc = "reserve" /\ table' = Longer(blank)
      /\ UNCHANGED <<pc, name, sfn, idx, last, ord, aliased, torn, errs>>
  BY DEF Stretch, Stretchable
<1>2. End.kind = "end" /\ IsEntry(End) /\ \A k \in 1 .. Growth : blank[k] = End
  BY DEF End, IsEntry
<1> HIDE DEF blank
<1>3. TableShape /\ Size(table) \in Nat /\ DOMAIN table = 0 .. (Size(table) - 1)
  BY DEF IInv, TableShape
<1>4. /\ Size(table') \in Nat /\ DOMAIN table' = 0 .. (Size(table') - 1)
      /\ table' = [i \in DOMAIN table' |-> table'[i]]
      /\ \A i \in DOMAIN table' : IsEntry(table'[i])
      /\ \A i \in DOMAIN table : i \in DOMAIN table' /\ table'[i] = table[i]
      /\ \A i \in DOMAIN table' : i \notin DOMAIN table => i >= Size(table) /\ \E k \in 1 .. Growth : table'[i] = blank[k]
      /\ \A i \in Live(table) : Whole(table, i) => Whole(table', i)
  <2>1. \A k \in 1 .. Growth : IsEntry(blank[k])
    BY <1>2
  <2> QED
    BY <1>1, <1>3, <2>1, Lengthened
<1>5. \A i \in DOMAIN table' : i \notin DOMAIN table => i >= Size(table) /\ table'[i] = End
  BY <1>2, <1>4
<1>6. TableShape'
  <2>1. (~torn => Ended)'
    <3> SUFFICES ASSUME ~torn, NEW i \in DOMAIN table', NEW j \in DOMAIN table', i <= j, table'[i].kind = "end"
                 PROVE  table'[j].kind = "end"
      BY <1>1 DEF Ended
    <3>1. CASE j \in DOMAIN table
      <4>1. i \in DOMAIN table
        BY <1>3, <1>4, <3>1
      <4> QED
        BY <1>4, <3>1, <4>1 DEF IInv, TableShape, Ended
    <3>2. CASE j \notin DOMAIN table
      BY <1>2, <1>5, <3>2
    <3> QED
      BY <3>1, <3>2
  <2> QED
    BY <1>4, <2>1 DEF TableShape
<1>7. Live(table') = Live(table) /\ LfnSlots(table') = LfnSlots(table)
  BY <1>2, <1>4, <1>5 DEF Live, LfnSlots
<1>9. Untouched
  BY <1>4 DEF Untouched, Live
<1>10. ShortNamesDiffer'
  BY <1>1, <1>4, <1>7 DEF IInv, ShortNamesDiffer, Live
<1>11. RegisterShape'
  BY <1>1, <1>4, <1>7 DEF IInv, RegisterShape, Registering, Writing, Live
<1>12. RemoveShape' /\ ControlShape'
  BY <1>1 DEF IInv, RemoveShape, ControlShape
<1>13. OwnerShape'
  <2> SUFFICES ASSUME errs = 0, ~aliased, NEW j \in LfnSlots(table)
               PROVE  \E i \in Live(table') : Owner(i, j)'
    BY <1>1, <1>7 DEF OwnerShape
  <2>1. PICK i \in Live(table) : Owner(i, j)
    BY <1>1 DEF IInv, OwnerShape, Writing
  <2>2. i \in DOMAIN table /\ j \in DOMAIN table
    BY DEF Live, LfnSlots
  <2>3. Owner(i, j)'
    BY <1>4, <2>1, <2>2 DEF Owner
  <2> QED
    BY <1>7, <2>3
<1> QED
  BY <1>6, <1>9, <1>10, <1>11, <1>12, <1>13 DEF IInv

(* The old entries of the cluster come behind those of the objects.        *)
LEMMA StretchFailsStep == ASSUME IInv, StretchFails PROVE IInv' /\ Untouched
<1>1. /\ pc' = "idle" /\ ord' = 0 /\ torn' = TRUE /\ aliased' = aliased
      /\ errs < MaxErrors /\ errs' = errs + 1
  BY DEF StretchFails, Fault, Return
<1>2. PICK old \in Leftovers, n \in 0 .. (Growth - 1) : table' = Longer(PartlyCleared(old, n))
  BY DEF StretchFails
<1>3. \A k \in 1 .. Growth : IsEntry(PartlyCleared(old, n)[k])
  BY LeftoversAssumption DEF PartlyCleared, IsEntry
<1>4. /\ Size(table') \in Nat /\ DOMAIN table' = 0 .. (Size(table') - 1)
      /\ table' = [i \in DOMAIN table' |-> table'[i]]
      /\ \A i \in DOMAIN table' : IsEntry(table'[i])
      /\ \A i \in DOMAIN table : i \in DOMAIN table' /\ table'[i] = table[i]
      /\ \A i \in Live(table) : Whole(table, i) => Whole(table', i)
  BY <1>2, <1>3, Lengthened DEF IInv
<1>5. TableShape' /\ ShortNamesDiffer'
  BY <1>1, <1>4 DEF TableShape, ShortNamesDiffer
<1>6. Untouched
  BY <1>4 DEF Untouched, Live
<1>7. RegisterShape' /\ RemoveShape'
  BY <1>1 DEF RegisterShape, RemoveShape, Registering, Writing
<1>8. errs' \in 0 .. MaxErrors /\ errs' # 0
  BY <1>1, ErrorsAssumption DEF IInv, ControlShape
<1>9. ControlShape' /\ OwnerShape'
  BY <1>1, <1>8 DEF IInv, ControlShape, OwnerShape
<1> QED
  BY <1>5, <1>6, <1>7, <1>9 DEF IInv

-----------------------------------------------------------------------------
(* Steps that write an entry.                                              *)
LEMMA BlankKept ==
    ASSUME TableShape, NEW x \in DOMAIN table, Blank(table, x),
           DOMAIN table' = DOMAIN table, \A j \in DOMAIN table : j # x => table'[j] = table[j]
    PROVE  \A i \in Live(table) :
              i # x /\ i \in DOMAIN table' /\ table'[i] = table[i] /\ (Whole(table, i) => Whole(table', i))
<1> SUFFICES ASSUME NEW i \in Live(table)
             PROVE  i # x /\ i \in DOMAIN table' /\ table'[i] = table[i] /\ (Whole(table, i) => Whole(table', i))
  OBVIOUS
<1>1. i \in DOMAIN table /\ x # i
  BY DEF Live, Blank
<1>2. ASSUME Whole(table, i) PROVE Whole(table', i)
  <2>1. ASSUME table[i].own \in WithLfn
        PROVE  x \notin (i - Len(Text[table[i].own])) .. (i - 1)
    <3>1. \A j \in (i - Len(Text[table[i].own])) .. (i - 1) : table[j].kind = "lfn"
      BY <1>2, <2>1, RunEntries
    <3> QED
      BY <3>1 DEF Blank
  <2>2. \A j \in DOMAIN table : j \in DOMAIN table' /\ (j # x => table'[j] = table[j])
    OBVIOUS
  <2> QED
    BY <1>1, <1>2, <2>1, <2>2, Kept
<1> QED
  BY <1>1, <1>2

LEMMA RegisterLfnStep == ASSUME IInv, RegisterLfn PROVE IInv' /\ Untouched
<1> DEFINE e == Lfn(name, ord, Sum[sfn])
           len == Len(Text[name])
<1>1. /\ pc = "lfn" /\ table' = [table EXCEPT ![idx] = e]
      /\ idx' = idx + 1 /\ ord' = ord - 1 /\ pc' = (IF ord = 1 THEN "sfn" ELSE "lfn")
      /\ UNCHANGED <<name, sfn, last, aliased, torn, errs>>
  BY DEF RegisterLfn
<1>2. /\ name \in WithLfn /\ name \in Name /\ sfn \in ShortNames /\ len \in Nat /\ ord \in 1 .. len
      /\ ~torn => \A i \in Live(table) : table[i].sfn # sfn
  BY <1>1, NameFacts DEF IInv, RegisterShape, Registering
<1>3. /\ idx \in Nat /\ idx + ord < Size(table)
      /\ \A j \in idx .. (idx + ord) : Blank(table, j)
      /\ ~torn => \A j \in 0 .. (idx - 1) : table[j].kind # "end"
      /\ idx + ord >= len
      /\ \A k \in (ord + 1) .. len : table[idx + ord - k] = Lfn(name, k, Sum[sfn])
  BY <1>1, <1>2 DEF IInv, RegisterShape, Writing
<1>4. /\ IsEntry(e) /\ e.kind = "lfn" /\ e.own = name /\ e.ord = ord
  BY <1>2 DEF IsEntry, IsLfn, Lfn
<1> HIDE DEF e, len
<1>5. /\ Size(table) \in Nat /\ DOMAIN table = 0 .. (Size(table) - 1)
      /\ idx \in DOMAIN table /\ Blank(table, idx)
  BY <1>2, <1>3 DEF IInv, TableShape
<1>6. /\ TableShape' /\ DOMAIN table' = DOMAIN table /\ Size(table') = Size(table)
      /\ table'[idx] = e /\ \A j \in DOMAIN table : j # idx => table'[j] = table[j]
  BY <1>1, <1>3, <1>4, <1>5, Written DEF IInv
<1>7. \A i \in Live(table) :
          i # idx /\ i \in DOMAIN table' /\ table'[i] = table[i] /\ (Whole(table, i) => Whole(table', i))
  BY <1>5, <1>6, BlankKept DEF IInv
<1>8. Live(table') = Live(table)
  BY <1>4, <1>6, <1>7 DEF Live
<1>9. Untouched
  BY <1>7 DEF Untouched
<1>10. ShortNamesDiffer'
  BY <1>1, <1>7, <1>8 DEF IInv, ShortNamesDiffer
<1>11. idx' + ord' = idx + ord /\ ord' \in 0 .. (len - 1) /\ idx' \in Nat
       /\ (pc' = "lfn" => ord' \in 1 .. len) /\ (pc' # "lfn" => ord' = 0)
       /\ pc' \in {"lfn", "sfn"}
  BY <1>1, <1>2, <1>3
<1>12. RegisterShape'
  <2>1. \A j \in idx' .. (idx' + ord') : Blank(table', j)
    <3> SUFFICES ASSUME NEW j \in idx' .. (idx' + ord') PROVE Blank(table', j)
      OBVIOUS
    <3>1. j \in idx .. (idx + ord) /\ j # idx /\ j \in DOMAIN table
      BY <1>1, <1>2, <1>3, <1>5, <1>11
    <3> QED
      BY <1>3, <1>6, <3>1 DEF Blank
  <2>2. ~torn' => \A j \in 0 .. (idx' - 1) : table'[j].kind # "end"
    <3> SUFFICES ASSUME ~torn', NEW j \in 0 .. (idx' - 1) PROVE table'[j].kind # "end"
      OBVIOUS
    <3>1. j = idx \/ (j \in 0 .. (idx - 1) /\ j # idx /\ j \in DOMAIN table)
      BY <1>1, <1>3, <1>5
    <3> QED
      BY <1>1, <1>3, <1>4, <1>6, <3>1
  <2>3. \A k \in (ord' + 1) .. len : table'[idx' + ord' - k] = Lfn(name, k, Sum[sfn])
    <3> SUFFICES ASSUME NEW k \in (ord' + 1) .. len
                 PROVE  table'[idx' + ord' - k] = Lfn(name, k, Sum[sfn])
      OBVIOUS
    <3>0. idx' + ord' - k = idx + ord - k /\ k \in ord .. len
      BY <1>1, <1>2, <1>3
    <3>1. CASE k = ord
      <4>1. idx + ord - k = idx
        BY <1>2, <1>3, <3>1
      <4> QED
        BY <1>6, <3>0, <3>1, <4>1 DEF e
    <3>2. CASE k # ord
      <4>1. k \in (ord + 1) .. len /\ idx + ord - k \in DOMAIN table /\ idx + ord - k # idx
        BY <1>2, <1>3, <1>5, <3>0, <3>2
      <4>2. table'[idx + ord - k] = Lfn(name, k, Sum[sfn])
        BY <1>3, <1>6, <4>1
      <4> QED
        BY <3>0, <4>2
    <3> QED
      BY <3>1, <3>2
  <2>4. (Registering => /\ name \in Name /\ sfn \in ShortNames
                        /\ ~torn => \A j \in Live(table) : table[j].sfn # sfn)'
    BY <1>1, <1>2, <1>7, <1>8
  <2>5. pc' = "lfn" => name' \in WithLfn /\ ord' \in 1 .. Len(Text[name'])
    BY <1>1, <1>2, <1>11 DEF len
  <2>6. /\ idx' \in Nat /\ idx' + ord' < Size(table') /\ idx' + ord' >= Len(Text[name'])
        /\ \A k \in (ord' + 1) .. Len(Text[name']) :
              table'[idx' + ord' - k] = Lfn(name', k, Sum[sfn'])
    BY <1>1, <1>3, <1>6, <1>11, <2>3 DEF len
  <2> QED
    BY <1>11, <2>1, <2>2, <2>4, <2>5, <2>6 DEF RegisterShape
<1>13. RemoveShape' /\ ControlShape'
  BY <1>1, <1>11 DEF IInv, RemoveShape, ControlShape
<1>14. OwnerShape'
  <2>0. /\ pc' # "delete" /\ Writing' /\ name' \in WithLfn
        /\ idx' + ord' - Len(Text[name']) = idx + ord - len /\ idx' - 1 = idx
        /\ errs' = errs /\ aliased' = aliased
    BY <1>1, <1>2, <1>3, <1>11 DEF Writing, len
  <2> SUFFICES ASSUME errs = 0, ~aliased, NEW j \in LfnSlots(table')
               PROVE  \/ \E i \in Live(table') : Owner(i, j)'
                      \/ j \in (idx + ord - len) .. idx
    BY <2>0 DEF OwnerShape
  <2>1. CASE j = idx
    BY <1>2, <1>3, <2>1
  <2>2. CASE j # idx
    <3>1. j \in DOMAIN table /\ table'[j] = table[j] /\ j \in LfnSlots(table)
      BY <1>6, <2>2 DEF LfnSlots
    <3>2. CASE \E i \in Live(table) : Owner(i, j)
      <4>1. PICK i \in Live(table) : Owner(i, j)
        BY <3>2
      <4>2. Owner(i, j)'
        BY <1>7, <3>1, <4>1 DEF Owner
      <4> QED
        BY <1>8, <4>2
    <3>3. CASE j \in (idx + ord - len) .. (idx - 1)
      BY <1>3, <3>3
    <3> QED
      BY <1>1, <3>1, <3>2, <3>3 DEF IInv, OwnerShape, len
  <2> QED
    BY <2>1, <2>2
<1> QED
  BY <1>6, <1>9, <1>10, <1>12, <1>13, <1>14 DEF IInv

LEMMA RegisterSfnStep == ASSUME IInv, RegisterSfn PROVE IInv' /\ Untouched
<1> DEFINE e == Short(name, sfn)
           len == Len(Text[name])
<1>1. /\ pc = "sfn" /\ table' = [table EXCEPT ![idx] = e] /\ pc' = "idle" /\ ord' = 0
      /\ UNCHANGED <<aliased, torn, errs>>
  BY DEF RegisterSfn, Return
<1>2. /\ name \in Name /\ sfn \in ShortNames /\ ord = 0
      /\ ~torn => \A i \in Live(table) : table[i].sfn # sfn
  BY <1>1 DEF IInv, RegisterShape, Registering
<1>3. /\ idx \in Nat /\ idx < Size(table) /\ Blank(table, idx)
      /\ ~torn => \A j \in 0 .. (idx - 1) : table[j].kind # "end"
  BY <1>1, <1>2 DEF IInv, RegisterShape, Writing
<1>4. name \in WithLfn =>
          len \in Nat /\ idx >= len /\ \A k \in 1 .. len : table[idx - k] = Lfn(name, k, Sum[sfn])
  <2> SUFFICES ASSUME name \in WithLfn
               PROVE  len \in Nat /\ idx >= len /\ \A k \in 1 .. len : table[idx - k] = Lfn(name, k, Sum[sfn])
    OBVIOUS
  <2>1. /\ idx + ord >= len
        /\ \A k \in (ord + 1) .. len : table[idx + ord - k] = Lfn(name, k, Sum[sfn])
    BY <1>1 DEF IInv, RegisterShape, Writing
  <2> QED
    BY <1>2, <1>3, <2>1, NameFacts
<1>5. IsEntry(e) /\ e.kind = "sfn" /\ e.own = name /\ e.sfn = sfn
  BY <1>2 DEF IsEntry, IsShort, Short
<1> HIDE DEF e, len
<1>6. Size(table) \in Nat /\ DOMAIN table = 0 .. (Size(table) - 1) /\ idx \in DOMAIN table
  BY <1>3 DEF IInv, TableShape
<1>7. /\ TableShape' /\ DOMAIN table' = DOMAIN table /\ Size(table') = Size(table)
      /\ table'[idx] = e /\ \A j \in DOMAIN table : j # idx => table'[j] = table[j]
  BY <1>1, <1>3, <1>5, <1>6, Written DEF IInv
<1>8. \A i \in Live(table) :
          i # idx /\ i \in DOMAIN table' /\ table'[i] = table[i] /\ (Whole(table, i) => Whole(table', i))
  BY <1>3, <1>6, <1>7, BlankKept DEF IInv
<1>9. Live(table') = Live(table) \cup {idx}
  BY <1>5, <1>6, <1>7, <1>8 DEF Live
<1>10. Untouched
  BY <1>8 DEF Untouched
<1>11. ShortNamesDiffer'
  <2> SUFFICES ASSUME ~torn, NEW i \in Live(table) \cup {idx}, NEW j \in Live(table) \cup {idx}, i # j
               PROVE  table'[i].sfn # table'[j].sfn
    BY <1>1, <1>9 DEF ShortNamesDiffer
  <2>1. table'[idx].sfn = sfn /\ \A k \in Live(table) : table'[k] = table[k] /\ table[k].sfn # sfn
    BY <1>2, <1>5, <1>7, <1>8
  <2> QED
    BY <2>1 DEF IInv, ShortNamesDiffer
<1>12. RegisterShape' /\ RemoveShape'
  BY <1>1 DEF RegisterShape, RemoveShape, Registering, Writing
<1>13. ControlShape'
  BY <1>1 DEF IInv, ControlShape
<1>14. ASSUME name \in WithLfn, NEW x, x = idx
       PROVE  \A j \in (idx - len) .. (idx - 1) : Owner(x, j)'
  <2>1. \A k \in 1 .. len : x - k \in DOMAIN table /\ x - k # x
    BY <1>3, <1>4, <1>6, <1>14
  <2>2. \A k \in 1 .. len : table'[x - k] = Lfn(name, k, Sum[sfn])
    BY <1>4, <1>7, <1>14, <2>1
  <2>3. Whole(table', x)
    BY <1>4, <1>5, <1>7, <1>14, <2>2 DEF Whole, RunOf, len
  <2> SUFFICES ASSUME NEW j \in (idx - len) .. (idx - 1) PROVE Owner(x, j)'
    OBVIOUS
  <2>4. x - j \in 1 .. len /\ x - (x - j) = j
    BY <1>3, <1>4, <1>14
  <2>5. table'[j] = Lfn(name, x - j, Sum[sfn])
    BY <2>2, <2>4
  <2>6. table'[j].own = name /\ table'[j].ord = x - j
    BY <2>5 DEF Lfn
  <2>7. table'[x].own = table'[j].own /\ x = j + table'[j].ord
    BY <1>3, <1>5, <1>7, <1>14, <2>6
  <2> QED
    BY <2>3, <2>7 DEF Owner
<1>15. OwnerShape'
  <2> SUFFICES ASSUME errs = 0, ~aliased, NEW j \in LfnSlots(table')
               PROVE  \E i \in Live(table') : Owner(i, j)'
    BY <1>1 DEF OwnerShape
  <2>1. j \in DOMAIN table /\ j # idx /\ table'[j] = table[j] /\ j \in LfnSlots(table)
    BY <1>5, <1>7 DEF LfnSlots
  <2>2. CASE \E i \in Live(table) : Owner(i, j)
    <3>1. PICK i \in Live(table) : Owner(i, j)
      BY <2>2
    <3>2. Owner(i, j)'
      BY <1>8, <2>1, <3>1 DEF Owner
    <3> QED
      BY <1>9, <3>2
  <2>3. CASE name \in WithLfn /\ j \in (idx - len) .. (idx - 1)
    <3>1. PICK x : x = idx
      OBVIOUS
    <3>2. Owner(x, j)' /\ x \in Live(table')
      BY <1>9, <1>14, <2>3, <3>1
    <3> QED
      BY <3>2
  <2>4. name \in WithLfn => idx + ord - Len(Text[name]) = idx - len
    BY <1>2, <1>3, <1>4 DEF len
  <2> QED
    BY <1>1, <2>1, <2>2, <2>3, <2>4 DEF IInv, OwnerShape
<1> QED
  BY <1>7, <1>10, <1>11, <1>12, <1>13, <1>15 DEF IInv

LEMMA UnlinkStep == ASSUME IInv, Unlink PROVE IInv' /\ Untouched
<1>1. /\ pc = "idle" /\ pc' = "delete" /\ UNCHANGED <<table, name, sfn, ord, torn, errs>>
  BY DEF Unlink
<1>2. PICK n \in Name :
          LET r == Lookup(table, n)
          IN /\ r.found # NoSlot
             /\ idx' = FromStart(r) /\ last' = r.found
             /\ aliased' = (aliased \/ (r.lfn = NoSlot /\ table[r.found].own \in WithLfn))
  BY DEF Unlink
<1> DEFINE r == Find(table, Query(n), TRUE)
<1>3. /\ r.found # NoSlot
      /\ idx' = (IF r.lfn = NoSlot THEN r.found ELSE r.lfn) /\ last' = r.found
      /\ aliased' = (aliased \/ (r.lfn = NoSlot /\ table[r.found].own \in WithLfn))
  BY <1>2 DEF Lookup, FromStart
<1>4. /\ r.found \in DOMAIN table /\ table[r.found].kind = "sfn"
      /\ r.lfn # NoSlot =>
            /\ r.lfn \in DOMAIN table /\ r.lfn < r.found /\ NoShort(r.lfn, r.found)
            /\ table[r.lfn].kind = "lfn" /\ table[r.lfn].ord = Len(Text[table[r.lfn].own])
  BY <1>3, FindFacts DEF IInv
<1> HIDE DEF r
<1>5. TableShape' /\ ShortNamesDiffer' /\ Untouched
  BY <1>1, SameTable
<1>6. RegisterShape'
  BY <1>1 DEF IInv, RegisterShape, Registering, Writing
<1>7. RemoveShape'
  <2>1. r.found \in Nat
    BY <1>4 DEF IInv, TableShape
  <2>2. CASE r.lfn = NoSlot
    BY <1>1, <1>3, <1>4, <2>1, <2>2 DEF RemoveShape
  <2>3. CASE r.lfn # NoSlot
    <3>1. r.lfn \in Nat
      BY <1>4, <2>3 DEF IInv, TableShape
    <3> QED
      BY <1>1, <1>3, <1>4, <2>1, <2>3, <3>1 DEF RemoveShape, NoShort
  <2> QED
    BY <2>2, <2>3
<1>8. ControlShape'
  <2>1. aliased' \in BOOLEAN
    BY <1>3, Zenon
  <2> QED
    BY <1>1, <2>1 DEF IInv, ControlShape
<1>9. OwnerShape'
  <2> SUFFICES ASSUME errs = 0, ~aliased', NEW j \in LfnSlots(table)
               PROVE  \/ \E i \in Live(table) : Owner(i, j) /\ i # last'
                      \/ j \in idx' .. (last' - 1)
    BY <1>1 DEF OwnerShape, Owner
  <2>1. ~aliased /\ (r.lfn = NoSlot => table[r.found].own \notin WithLfn)
    BY <1>3
  <2>2. \A x \in LfnSlots(table) : \E i \in Live(table) : Owner(i, x)
    BY <1>1, <2>1 DEF IInv, OwnerShape, Writing
  <2>3. PICK i \in Live(table) : Owner(i, j)
    BY <2>2
  <2>4. CASE i = r.found
    <3>1. j \in DOMAIN table /\ IsEntry(table[j]) /\ table[j].kind = "lfn"
      BY DEF IInv, TableShape, LfnSlots
    <3>2. /\ table[j].own \in WithLfn /\ table[j].own = table[r.found].own
          /\ Len(Text[table[j].own]) \in Nat /\ table[j].ord \in 1 .. Len(Text[table[j].own])
          /\ r.found = j + table[j].ord
      BY <2>3, <2>4, <3>1, EntryFacts DEF Owner
    <3>3. r.lfn # NoSlot
      BY <2>1, <3>2
    <3>4. r.lfn \in LfnSlots(table)
      BY <1>4, <3>3 DEF LfnSlots
    <3>5. PICK k \in Live(table) : Owner(k, r.lfn)
      BY <2>2, <3>4
    <3>6. /\ table[r.lfn].own \in WithLfn /\ table[k].own = table[r.lfn].own
          /\ Len(Text[table[r.lfn].own]) \in Nat
          /\ k = r.lfn + Len(Text[table[r.lfn].own]) /\ Whole(table, k)
      BY <1>4, <3>3, <3>4, <3>5, EntryFacts DEF IInv, TableShape, LfnSlots, Owner
    <3>7. /\ Size(table) \in Nat /\ DOMAIN table = 0 .. (Size(table) - 1)
          /\ k \in DOMAIN table /\ table[k].kind = "sfn"
      BY DEF Live, IInv, TableShape
    <3>8. ~(k < r.found)
      BY <1>4, <3>3, <3>6, <3>7 DEF NoShort
    <3>9. ~(k > r.found)
      <4> SUFFICES ASSUME k > r.found PROVE FALSE
        OBVIOUS
      <4>1. r.found \in (k - Len(Text[table[k].own])) .. (k - 1)
        BY <1>4, <3>3, <3>6, <3>7
      <4>2. table[r.found].kind = "lfn"
        BY <3>6, <4>1, RunEntries DEF IInv
      <4> QED
        BY <1>4, <4>2
    <3>10. k = r.found
      BY <1>4, <3>7, <3>8, <3>9
    <3>11. r.lfn <= j /\ j <= r.found - 1 /\ j \in Int
      BY <1>4, <3>1, <3>2, <3>3, <3>6, <3>7, <3>10
    <3> QED
      BY <1>3, <1>4, <3>3, <3>7, <3>11
  <2>5. CASE i # r.found
    BY <1>3, <2>3, <2>5
  <2> QED
    BY <2>4, <2>5
<1> QED
  BY <1>5, <1>6, <1>7, <1>8, <1>9 DEF IInv

LEMMA RemoveStep == ASSUME IInv, Remove PROVE IInv' /\ Untouched
<1>1. /\ pc = "delete" /\ table' = [table EXCEPT ![idx] = Deleted] /\ UNCHANGED <<aliased, torn, errs>>
      /\ idx >= last => pc' = "idle" /\ ord' = 0
      /\ ~(idx >= last) => idx' = idx + 1 /\ UNCHANGED <<pc, name, sfn, last, ord>>
  BY DEF Remove, Return
<1>2. /\ idx \in Nat /\ last \in DOMAIN table /\ idx <= last /\ table[last].kind = "sfn"
      /\ \A j \in idx .. (last - 1) : table[j].kind # "sfn"
  BY <1>1 DEF IInv, RemoveShape
<1>3. /\ Size(table) \in Nat /\ DOMAIN table = 0 .. (Size(table) - 1)
      /\ idx \in DOMAIN table /\ last \in Nat
  BY <1>2 DEF IInv, TableShape
<1>4. ~torn => \A j \in 0 .. (idx - 1) : table[j].kind # "end"
  <2> SUFFICES ASSUME ~torn, NEW j \in 0 .. (idx - 1), table[j].kind = "end" PROVE FALSE
    OBVIOUS
  <2>1. j \in DOMAIN table /\ j <= last
    BY <1>2, <1>3
  <2> QED
    BY <1>2, <2>1 DEF IInv, TableShape, Ended
<1>5. IsEntry(Deleted) /\ Deleted.kind = "deleted"
  BY DEF IsEntry, Deleted
<1>6. /\ TableShape' /\ DOMAIN table' = DOMAIN table /\ Size(table') = Size(table)
      /\ table'[idx] = Deleted /\ \A j \in DOMAIN table : j # idx => table'[j] = table[j]
  BY <1>1, <1>3, <1>4, <1>5, Written DEF IInv
<1>7. \A i \in Live(table') : i \in Live(table) /\ i # idx /\ table'[i] = table[i]
  BY <1>5, <1>6 DEF Live
<1>8. ShortNamesDiffer'
  BY <1>1, <1>7 DEF IInv, ShortNamesDiffer
<1>9. ASSUME NEW i \in Live(table), Whole(table, i), i # last
      PROVE  i \in Live(table') /\ i \in DOMAIN table' /\ table'[i] = table[i] /\ Whole(table', i)
  <2>1. i \in DOMAIN table /\ table[i].kind = "sfn" /\ i \in Nat
    BY <1>3 DEF Live
  <2>2. idx # i
    BY <1>2, <1>3, <1>9, <2>1
  <2>3. ASSUME table[i].own \in WithLfn
        PROVE  idx \notin (i - Len(Text[table[i].own])) .. (i - 1)
    <3> SUFFICES ASSUME idx \in (i - Len(Text[table[i].own])) .. (i - 1) PROVE FALSE
      OBVIOUS
    <3>1. Len(Text[table[i].own]) \in Nat
      BY <2>3, NameFacts
    <3>2. CASE i < last
      BY <1>2, <1>3, <2>1, <3>1, <3>2
    <3>3. CASE i > last
      <4>1. last \in (i - Len(Text[table[i].own])) .. (i - 1)
        BY <1>2, <1>3, <2>1, <3>1, <3>3
      <4>2. table[last].kind = "lfn"
        BY <1>9, <2>3, <4>1, RunEntries DEF IInv
      <4> QED
        BY <1>2, <4>2
    <3> QED
      BY <1>3, <1>9, <2>1, <3>2, <3>3
  <2>4. \A j \in DOMAIN table : j \in DOMAIN table' /\ (j # idx => table'[j] = table[j])
    BY <1>6
  <2> QED
    BY <1>9, <2>2, <2>3, <2>4, Kept DEF IInv
<1>10. Untouched
  BY <1>1, <1>9 DEF Untouched
<1>11. RegisterShape'
  BY <1>1 DEF IInv, RegisterShape, Registering, Writing
<1>12. RemoveShape'
  <2> SUFFICES ASSUME ~(idx >= last) PROVE RemoveShape'
    BY <1>1 DEF RemoveShape
  <2>1. idx' \in Nat /\ idx' <= last /\ last \in DOMAIN table' /\ last # idx
    BY <1>1, <1>2, <1>3, <1>6
  <2>2. \A j \in idx' .. (last - 1) : j \in idx .. (last - 1) /\ j # idx /\ j \in DOMAIN table
    BY <1>1, <1>2, <1>3
  <2> QED
    BY <1>1, <1>2, <1>6, <2>1, <2>2 DEF RemoveShape
<1>13. ControlShape'
  BY <1>1 DEF IInv, ControlShape
<1>14. OwnerShape'
  <2>0. /\ pc' \in {"idle", "delete"} /\ (pc' = "delete" <=> ~(idx >= last))
        /\ (pc' = "delete" => idx' = idx + 1 /\ last' = last)
    BY <1>1
  <2> SUFFICES ASSUME errs = 0, ~aliased, NEW j \in LfnSlots(table')
               PROVE  \/ \E i \in Live(table') : Owner(i, j)' /\ ~(pc' = "delete" /\ i = last')
                      \/ pc' = "delete" /\ j \in idx' .. (last' - 1)
    BY <1>1 DEF OwnerShape
  <2>1. j \in DOMAIN table /\ j # idx /\ table'[j] = table[j] /\ j \in LfnSlots(table)
    BY <1>5, <1>6 DEF LfnSlots
  <2>2. CASE \E i \in Live(table) : Owner(i, j) /\ i # last
    <3>1. PICK i \in Live(table) : Owner(i, j) /\ i # last
      BY <2>2
    <3>2. i \in Live(table') /\ table'[i] = table[i] /\ Whole(table', i)
      BY <1>9, <3>1 DEF Owner
    <3>3. Owner(i, j)'
      BY <2>1, <3>1, <3>2 DEF Owner
    <3> QED
      BY <2>0, <3>1, <3>2, <3>3
  <2>3. CASE j \in idx .. (last - 1)
    <3>1. j \in (idx + 1) .. (last - 1) /\ ~(idx >= last)
      BY <1>2, <1>3, <2>1, <2>3
    <3> QED
      BY <2>0, <3>1
  <2> QED
    BY <1>1, <2>1, <2>2, <2>3 DEF IInv, OwnerShape, Writing
<1> QED
  BY <1>6, <1>8, <1>10, <1>11, <1>12, <1>13, <1>14 DEF IInv

-----------------------------------------------------------------------------
LEMMA StepIInv == ASSUME IInv, [Next]_vars PROVE IInv' /\ Untouched
BY CreateStep, ReserveStep, StretchStep, StretchFailsStep, TableFullStep, RegisterLfnStep, RegisterSfnStep,
   UnlinkStep, RemoveStep, FailsStep, StutterStep DEF Next

LEMMA InvariantHolds == Spec => []IInv
<1>1. IInv /\ [Next]_vars => IInv'
  BY StepIInv
<1> QED
  BY InitIInv, <1>1, PTL DEF Spec

(***************************************************************************)
(* In a directory of any size, with any names, no two objects have one     *)
(* short name as long as the table has no cluster that was not cleared,    *)
(* whose old entries may repeat one (dir_next, ff.c:632 to 642): a short   *)
(* name is registered only when dir_find has       *)
(* passed every entry in use without it (dir_register, ff.c:976), and      *)
(* nothing is registered in between.                                       *)
(***************************************************************************)
THEOREM NoTwoObjectsShareAShortName == Spec => []ShortNamesDiffer
<1>1. IInv => ShortNamesDiffer
  BY DEF IInv
<1> QED
  BY InvariantHolds, <1>1, PTL

(***************************************************************************)
(* Of an object that is whole no entry is changed by the calls about other *)
(* objects: dir_register (ff.c:957) writes blank entries only, and         *)
(* dir_remove (ff.c:1062) starts where the run of its own object starts or *)
(* later, so that no other object's run or short name lies on its way.     *)
(* This holds whatever transfer fails, and also for the old entries that a *)
(* cluster brings into the table when it is linked and not cleared.        *)
(***************************************************************************)
THEOREM ObjectsKeepTheirEntries == Spec => OthersKept
<1>1. IInv /\ [Next]_vars =>
          [\A i \in Live(table) :
              Whole(table, i) /\ ~(pc = "delete" /\ i = last)
                  => i \in DOMAIN table' /\ table'[i] = table[i] /\ Whole(table', i)]_vars
  BY StepIInv DEF Untouched
<1> QED
  BY InvariantHolds, <1>1, PTL DEF Spec, OthersKept

(***************************************************************************)
(* As long as no transfer fails and no object with a long name is removed  *)
(* under its short name, no call leaves an entry of a long name without    *)
(* its object: dir_remove takes all of them from the first on              *)
(* (ff.c:1084), since the last segment dir_find has remembered in lfn_idx  *)
(* (ff.c:872) is one of the object it has found.                           *)
(***************************************************************************)
THEOREM NoNamesAreLeftBehind == Spec => []NoOrphans
<1>1. IInv => NoOrphans
  <2> SUFFICES ASSUME IInv, pc = "idle", errs = 0, ~aliased PROVE Orphans(table) = {}
    BY ErrorsAssumption DEF NoOrphans, IInv, ControlShape
  <2>1. \A j \in LfnSlots(table) : \E i \in Live(table) : Owner(i, j)
    BY DEF IInv, OwnerShape, Writing
  <2> QED
    BY <2>1 DEF Orphans, Owner
<1> QED
  BY InvariantHolds, <1>1, PTL

-----------------------------------------------------------------------------
(* The entry at x is segment k of what is looked for, and the last one if  *)
(* k is the last.                                                          *)
IsSegment(q, x, k) ==
    /\ table[x].kind = "lfn" /\ table[x].ord = k /\ table[x].seg = q.text[k]
    /\ table[x].last <=> k = Len(q.text)

SegmentsFrom(q, a, b) == \A x \in a .. (b - 1) : IsSegment(q, x, Len(q.text) - (x - a))

(* While ord is a number, the entries since lfn_idx spell what is looked   *)
(* for.                                                                    *)
Spelling(q, s, i) ==
    s.ord # NoOrd =>
        /\ ~q.full /\ s.lfn \in 0 .. (i - 1)
        /\ s.ord \in Nat /\ s.ord = Len(q.text) - (i - s.lfn)
        /\ SegmentsFrom(q, s.lfn, i)

(* What was found has the long name or the short name looked for.          *)
ByLong(q, j, a) == ~q.full /\ a \in Nat /\ j = a + Len(q.text) /\ SegmentsFrom(q, a, j)
ByShort(q, j, a) == ~q.loss /\ table[j].sfn = q.sfn /\ a = NoSlot

Reason(q, s) == s.found # NoSlot => ByLong(q, s.found, s.lfn) \/ ByShort(q, s.found, s.lfn)

SpelledSoFar(q, w, s, i) ==
    /\ s.found = NoSlot => Spelling(q, s, i) /\ (~w => s.ord = NoOrd)
    /\ Reason(q, s)

LEMMA OneMoreSegment ==
    ASSUME NEW q, Len(q.text) \in Nat, NEW a \in Nat, NEW n \in Nat, a <= n,
           SegmentsFrom(q, a, n), IsSegment(q, n, Len(q.text) - (n - a))
    PROVE  SegmentsFrom(q, a, n + 1)
<1>1. \A x \in a .. ((n + 1) - 1) : x \in a .. (n - 1) \/ x = n
  OBVIOUS
<1> QED
  BY <1>1 DEF SegmentsFrom

LEMMA Counted ==
    ASSUME NEW len \in Nat, NEW n \in Nat, NEW a \in 0 .. n, NEW o \in Nat \ {0}, o = len - (n - a)
    PROVE  a \in 0 .. ((n + 1) - 1) /\ o - 1 \in Nat /\ o - 1 = len - ((n + 1) - a)
OBVIOUS

LEMMA CountedOn ==
    ASSUME NEW len \in Nat, NEW n \in Nat, NEW a \in 0 .. (n - 1), NEW o, o = len - (n - a)
    PROVE  a \in 0 .. n /\ o # len
OBVIOUS

LEMMA SpelledTurn ==
    ASSUME NEW q, Len(q.text) \in Nat, NEW n \in Nat, IsEntry(table[n]), table[n].kind # "end",
           NEW s \in States, NEW w \in BOOLEAN, SpelledSoFar(q, w, s, n),
           NEW r, r = IF s.found # NoSlot THEN s ELSE Turn(q, w, s, table[n], n)
    PROVE  SpelledSoFar(q, w, r, n + 1)
<1> DEFINE e == table[n]
           len == Len(q.text)
<1>1. CASE s.found # NoSlot
  BY <1>1 DEF SpelledSoFar
<1>2. CASE s.found = NoSlot
  <2>1. r = Turn(q, w, s, e, n) /\ Spelling(q, s, n)
    BY <1>2 DEF SpelledSoFar
  <2>2. ASSUME r.ord = NoOrd, r.found = NoSlot PROVE SpelledSoFar(q, w, r, n + 1)
    BY <2>2 DEF SpelledSoFar, Spelling, Reason
  <2>3. CASE e.kind \in {"deleted", "other"}
    <3>1. r.ord = NoOrd /\ r.found = NoSlot
      BY <1>2, <2>1, <2>3, TurnFacts
    <3> QED
      BY <2>2, <3>1
  <2>7. CASE e.kind = "lfn" /\ ~w
    <3>1. r = s
      BY <1>2, <2>1, <2>7, TurnFacts
    <3>2. r.ord = NoOrd
      BY <1>2, <2>7, <3>1 DEF SpelledSoFar
    <3> QED
      BY <1>2, <2>2, <3>1, <3>2
  <2>4. CASE e.kind = "lfn" /\ w
    <3>1. LfnTurned(q, s, e, n, r)
      <4>1. IsEntry(e) /\ e.kind # "end" /\ e.kind = "lfn" /\ w
        BY <2>4
      <4> HIDE DEF e
      <4> QED
        BY <1>2, <2>1, <4>1, TurnFacts
    <3>2. CASE ~((e.last \/ (e.ord = s.ord /\ e.sum = s.sum)) /\ CmpLfn(q, e))
      BY <2>2, <3>1, <3>2 DEF LfnTurned
    <3>3. CASE (e.last \/ (e.ord = s.ord /\ e.sum = s.sum)) /\ CmpLfn(q, e)
      <4>0. e.kind = "lfn" => Len(Text[e.own]) \in Nat /\ e.ord \in 1 .. Len(Text[e.own])
        BY EntryFacts
      <4>1. r.ord = e.ord - 1 /\ e.ord \in Nat \ {0} /\ e.ord # NoOrd
        <5> HIDE DEF e
        <5>1. r.ord = e.ord - 1
          BY <3>1, <3>3 DEF LfnTurned
        <5>2. e.ord \in Nat \ {0}
          BY <2>4, <4>0
        <5> QED
          BY <5>1, <5>2 DEF NoOrd
      <4>2. e.ord <= len /\ e.seg = q.text[e.ord] /\ (e.last => e.ord = len /\ ~q.full)
        BY <3>3 DEF CmpLfn, CmpSegment
      <4>3. ASSUME ~q.full, r.lfn \in 0 .. n, e.ord = len - (n - r.lfn), SegmentsFrom(q, r.lfn, n), e.last <=> e.ord = len
            PROVE  SpelledSoFar(q, w, r, n + 1)
        <5>1. IsSegment(q, n, len - (n - r.lfn))
          BY <2>4, <4>2, <4>3 DEF IsSegment
        <5>2. SegmentsFrom(q, r.lfn, n + 1)
          BY ONLY <4>3, <5>1, OneMoreSegment, Len(q.text) \in Nat, n \in Nat
        <5>3. r.lfn \in 0 .. ((n + 1) - 1) /\ r.ord \in Nat /\ r.ord = len - ((n + 1) - r.lfn)
          BY ONLY <4>1, <4>3, Counted, Len(q.text) \in Nat, n \in Nat
        <5> QED
          BY <2>4, <3>1, <4>3, <5>2, <5>3 DEF LfnTurned, SpelledSoFar, Spelling, Reason
      <4>4. CASE e.last
        <5>1. SegmentsFrom(q, n, n)
          BY DEF SegmentsFrom
        <5>2. r.lfn = n /\ ~q.full /\ e.ord = len
          BY <3>1, <4>2, <4>4 DEF LfnTurned
        <5>3. e.last <=> e.ord = len
          BY <4>4, <5>2
        <5>4. n \in 0 .. n /\ len \in Nat
          OBVIOUS
        <5> HIDE DEF e, len
        <5>5. r.lfn \in 0 .. n /\ e.ord = len - (n - r.lfn) /\ SegmentsFrom(q, r.lfn, n)
          BY ONLY <5>1, <5>2, <5>4, n \in Nat
        <5> QED
          BY <4>3, <5>2, <5>3, <5>5
      <4>5. CASE ~e.last
        <5>1. r.lfn = s.lfn /\ s.ord # NoOrd /\ e.ord = s.ord
          BY <3>1, <3>3, <4>1, <4>5 DEF LfnTurned
        <5>2. /\ ~q.full /\ s.lfn \in 0 .. (n - 1)
              /\ s.ord = len - (n - s.lfn) /\ SegmentsFrom(q, s.lfn, n)
          BY <2>1, <5>1 DEF Spelling
        <5>3. e.ord # len /\ s.lfn \in 0 .. n
          BY ONLY <5>1, <5>2, CountedOn, Len(q.text) \in Nat, n \in Nat
        <5>4. r.lfn \in 0 .. n /\ e.ord = len - (n - r.lfn) /\ SegmentsFrom(q, r.lfn, n)
          BY <5>1, <5>2, <5>3
        <5>5. e.last <=> e.ord = len
          BY <4>5, <5>3
        <5> HIDE DEF e, len
        <5> QED
          BY <4>3, <5>2, <5>4, <5>5
      <4> QED
        BY <4>4, <4>5
    <3> QED
      BY <3>2, <3>3
  <2>5. CASE e.kind = "sfn" /\ s.ord = 0 /\ s.sum = Sum[e.sfn]
    <3>1. r = [s EXCEPT !.found = n]
      BY <1>2, <2>1, <2>5, TurnFacts
    <3>2. r.found = n /\ r.lfn = s.lfn
      BY <3>1 DEF States
    <3>3. /\ ~q.full /\ s.lfn \in 0 .. (n - 1)
          /\ 0 = Len(q.text) - (n - s.lfn) /\ SegmentsFrom(q, s.lfn, n)
      BY <2>1, <2>5 DEF Spelling, NoOrd
    <3>4. ByLong(q, n, s.lfn)
      BY <3>3 DEF ByLong
    <3>5. r.found # NoSlot /\ ByLong(q, r.found, r.lfn)
      BY ONLY <3>2, <3>4, n \in Nat DEF NoSlot
    <3> QED
      BY ONLY <3>5 DEF SpelledSoFar, Reason
  <2>6. CASE e.kind = "sfn" /\ ~(s.ord = 0 /\ s.sum = Sum[e.sfn])
    <3>1. r.ord = NoOrd /\ r.lfn = NoSlot /\ r.found = IF ~q.loss /\ e.sfn = q.sfn THEN n ELSE NoSlot
      BY <1>2, <2>1, <2>6, TurnFacts
    <3>2. CASE r.found = NoSlot
      <4>1. r.ord = NoOrd /\ r.found = NoSlot
        BY <3>1, <3>2
      <4> QED
        BY <2>2, <4>1
    <3>3. CASE r.found # NoSlot
      <4>1. r.found = n /\ ~q.loss /\ e.sfn = q.sfn
        BY <3>1, <3>3
      <4>2. ByShort(q, r.found, r.lfn)
        BY <3>1, <4>1 DEF ByShort
      <4> QED
        BY ONLY <3>3, <4>2 DEF SpelledSoFar, Reason
    <3> QED
      BY <3>2, <3>3
  <2> QED
    BY <2>3, <2>4, <2>5, <2>6, <2>7, EntryFacts
<1> QED
  BY <1>1, <1>2

LEMMA ScanSpells ==
    ASSUME TableShape, NEW q, Len(q.text) \in Nat, NEW m \in Nat, Used(m),
           NEW w \in BOOLEAN, NEW st, IsScan(q, w, m, st)
    PROVE  \A i \in 0 .. m : SpelledSoFar(q, w, st[i], i)
<1>1. Steps(q, w, m, st)
  BY ScanTypes
<1> DEFINE S == {n \in Nat : n <= m => SpelledSoFar(q, w, st[n], n)}
<1>2. 0 \in S
  <2>1. SpelledSoFar(q, w, Start, 0)
    BY DEF SpelledSoFar, Spelling, Reason, Start, NoSlot, NoOrd
  <2> QED
    BY <1>1, <2>1 DEF Steps
<1>3. ASSUME NEW n \in Nat, n \in S PROVE n + 1 \in S
  <2> SUFFICES ASSUME n + 1 <= m PROVE SpelledSoFar(q, w, st[n + 1], n + 1)
    OBVIOUS
  <2>1. n \in 0 .. (m - 1) /\ n \in 0 .. m /\ SpelledSoFar(q, w, st[n], n)
    BY <1>3
  <2>2. /\ IsEntry(table[n]) /\ table[n].kind # "end" /\ st[n] \in States
        /\ st[n + 1] = IF st[n].found # NoSlot THEN st[n] ELSE Turn(q, w, st[n], table[n], n)
    BY <1>1, <2>1 DEF Steps
  <2> QED
    BY <2>1, <2>2, SpelledTurn
<1> HIDE DEF S
<1>4. Nat \subseteq S
  BY <1>2, <1>3, SetInduction
<1> QED
  BY <1>4 DEF S

(* What is found has the long or the short name looked for.                *)
LEMMA FindReason ==
    ASSUME TableShape, NEW q, Len(q.text) \in Nat, NEW w \in BOOLEAN,
           NEW r, r = Find(table, q, w), r.found # NoSlot
    PROVE  r.found \in Live(table) /\ (ByLong(q, r.found, r.lfn) \/ ByShort(q, r.found, r.lfn))
<1>1. PICK m \in Nat : \E st : Used(m) /\ IsScan(q, w, m, st) /\ Find(table, q, w) = st[m]
  BY FindScans
<1>2. PICK st : Used(m) /\ IsScan(q, w, m, st) /\ Find(table, q, w) = st[m]
  BY <1>1
<1>3. SpelledSoFar(q, w, st[m], m)
  <2>1. \A i \in 0 .. m : SpelledSoFar(q, w, st[i], i)
    BY <1>2, ScanSpells
  <2> QED
    BY <2>1
<1>4. r.found \in DOMAIN table /\ table[r.found].kind = "sfn"
  BY FindFacts
<1>5. Reason(q, r)
  BY <1>2, <1>3 DEF SpelledSoFar
<1> QED
  BY <1>4, <1>5 DEF Live, Reason

-----------------------------------------------------------------------------
(* Once something is found the search is over.                             *)
LEMMA FoundStays ==
    ASSUME NEW q, NEW w \in BOOLEAN, NEW m \in Nat, NEW st, Steps(q, w, m, st),
           NEW k \in 0 .. m, st[k].found # NoSlot
    PROVE  st[m] = st[k]
<1> DEFINE S == {d \in Nat : k + d <= m => st[k + d] = st[k]}
<1>1. 0 \in S
  OBVIOUS
<1>2. ASSUME NEW d \in Nat, d \in S PROVE d + 1 \in S
  <2> SUFFICES ASSUME k + (d + 1) <= m PROVE st[k + (d + 1)] = st[k]
    OBVIOUS
  <2>1. k + d \in 0 .. (m - 1) /\ (k + d) + 1 = k + (d + 1) /\ k + d <= m
    OBVIOUS
  <2>2. st[k + d] = st[k]
    BY <1>2, <2>1
  <2>3. st[(k + d) + 1] = IF st[k + d].found # NoSlot THEN st[k + d] ELSE Turn(q, w, st[k + d], table[k + d], k + d)
    BY <2>1 DEF Steps
  <2> QED
    BY <2>1, <2>2, <2>3
<1> HIDE DEF S
<1>3. Nat \subseteq S
  BY <1>1, <1>2, SetInduction
<1>4. m - k \in Nat /\ k + (m - k) = m
  OBVIOUS
<1> QED
  BY <1>3, <1>4 DEF S

Expects(s, k, c, a) == s.ord = k /\ s.sum = c /\ s.lfn = a

(* dir_find reads segment k of name n, after those behind it.              *)
LEMMA SegmentTurn ==
    ASSUME NEW q, NEW w \in BOOLEAN, NEW n \in WithLfn, q.text = Text[n], ~q.full,
           NEW k \in 1 .. Len(Text[n]), NEW c, NEW e, e = Lfn(n, k, c), IsEntry(e),
           NEW s \in States, s.found = NoSlot, k = Len(Text[n]) \/ (s.ord = k /\ s.sum = c),
           NEW x \in Nat, NEW r, r = Turn(q, w, s, e, x)
    PROVE  w => Expects(r, k - 1, c, IF k = Len(Text[n]) THEN x ELSE s.lfn)
<1> SUFFICES ASSUME w PROVE Expects(r, k - 1, c, IF k = Len(Text[n]) THEN x ELSE s.lfn)
  OBVIOUS
<1>1. /\ e.kind = "lfn" /\ e.ord = k /\ (e.last <=> k = Len(Text[n]))
      /\ e.seg = Text[n][k] /\ e.sum = c /\ e.kind # "end"
  BY DEF Lfn
<1>2. LfnTurned(q, s, e, x, r)
  <2>1. r = Turn(q, w, s, e, x) /\ e.kind = "lfn" /\ w /\ e.kind # "end" /\ IsEntry(e) /\ s.found = NoSlot
    BY <1>1
  <2> QED
    BY ONLY <2>1, TurnFacts, w \in BOOLEAN, s \in States, x \in Nat
<1>3. Len(Text[n]) \in Nat
  BY NameFacts
<1>4. CmpLfn(q, e)
  BY <1>1, <1>3 DEF CmpLfn, CmpSegment
<1> QED
  BY <1>1, <1>2, <1>4 DEF LfnTurned, Expects

(* When dir_find comes to an object behind the entries of the long name it *)
(* looks for, it has recognised that name.                                 *)
LEMMA RunScanned ==
    ASSUME TableShape, NEW q, NEW w \in BOOLEAN, NEW m \in Nat, Used(m), NEW st, Steps(q, w, m, st),
           NEW n \in WithLfn, q.text = Text[n], ~q.full,
           NEW i \in 0 .. (m - 1), RunOf(table, i, n), st[i].found = NoSlot
    PROVE  w => Expects(st[i], 0, Sum[table[i].sfn], i - Len(Text[n]))
<1> SUFFICES ASSUME w PROVE Expects(st[i], 0, Sum[table[i].sfn], i - Len(Text[n]))
  OBVIOUS
<1> DEFINE len == Len(Text[n])
           c == Sum[table[i].sfn]
           a == i - len
           Passed(d) == st[a + d].found = NoSlot => Expects(st[a + d], len - d, c, a)
           S == {d \in Nat : d + 1 <= len => Passed(d + 1)}
<1>1. len \in Nat \ {0}
  BY NameFacts
<1>2. i >= len /\ \A k \in 1 .. len : table[i - k] = Lfn(n, k, c)
  BY DEF RunOf
<1> HIDE DEF len, c
<1>3. a \in Nat /\ a + len = i
  BY <1>1, <1>2
<1> HIDE DEF a
<1>4. ASSUME NEW d \in 0 .. (len - 1)
      PROVE  /\ a + d \in 0 .. (m - 1) /\ a + d \in Nat /\ len - d \in 1 .. len
             /\ table[a + d] = Lfn(n, len - d, c)
             /\ st[a + d] \in States /\ IsEntry(table[a + d])
             /\ st[a + (d + 1)] = IF st[a + d].found # NoSlot THEN st[a + d]
                                  ELSE Turn(q, w, st[a + d], table[a + d], a + d)
  <2>1. /\ a + d \in 0 .. (m - 1) /\ a + d \in Nat /\ a + d \in 0 .. m /\ len - d \in 1 .. len
        /\ i - (len - d) = a + d /\ (a + d) + 1 = a + (d + 1)
    BY <1>1, <1>2, <1>3
  <2>2. table[a + d] = Lfn(n, len - d, c)
    BY <1>2, <2>1
  <2>3. /\ st[a + d] \in States /\ IsEntry(table[a + d])
        /\ st[(a + d) + 1] = IF st[a + d].found # NoSlot THEN st[a + d]
                             ELSE Turn(q, w, st[a + d], table[a + d], a + d)
    BY <2>1 DEF Steps
  <2> QED
    BY <2>1, <2>2, <2>3
<1>5. ASSUME NEW d \in 0 .. (len - 1), d # 0 => Passed(d), st[a + (d + 1)].found = NoSlot
      PROVE  Expects(st[a + (d + 1)], len - (d + 1), c, a)
  <2> DEFINE s == st[a + d]
             r == st[a + (d + 1)]
             k == len - d
             e == table[a + d]
  <2>1. /\ k \in 1 .. Len(Text[n]) /\ e = Lfn(n, k, c) /\ IsEntry(e) /\ s \in States /\ a + d \in Nat
        /\ r = IF s.found # NoSlot THEN s ELSE Turn(q, w, s, e, a + d)
    BY <1>4 DEF len
  <2>2. k - 1 = len - (d + 1) /\ (d = 0 <=> k = len) /\ (d = 0 => a + d = a)
    BY <1>1, <1>3
  <2>3. d # 0 /\ s.found = NoSlot => s.ord = k /\ s.sum = c /\ s.lfn = a
    BY <1>5 DEF Expects
  <2> HIDE DEF s, r, k, e
  <2>4. s.found = NoSlot /\ r = Turn(q, w, s, e, a + d)
    <3>1. r.found = NoSlot
      BY <1>5 DEF r
    <3> QED
      BY <2>1, <3>1
  <2>5. k = Len(Text[n]) \/ (s.ord = k /\ s.sum = c)
    BY <2>2, <2>3, <2>4 DEF len
  <2>6. Expects(r, k - 1, c, IF k = Len(Text[n]) THEN a + d ELSE s.lfn)
    BY ONLY <2>1, <2>4, <2>5, SegmentTurn, n \in WithLfn, q.text = Text[n], ~q.full, w \in BOOLEAN, w
  <2> QED
    BY <2>2, <2>3, <2>4, <2>6 DEF r, len, Expects
<1>6. 0 \in S
  BY <1>1, <1>5
<1>7. ASSUME NEW d \in Nat, d \in S PROVE d + 1 \in S
  <2> SUFFICES ASSUME (d + 1) + 1 <= len PROVE Passed((d + 1) + 1)
    OBVIOUS
  <2>1. d + 1 \in 0 .. (len - 1) /\ d + 1 # 0 /\ Passed(d + 1)
    BY <1>1, <1>7
  <2> QED
    BY <1>5, <2>1
<1> HIDE DEF S
<1>8. Nat \subseteq S
  BY <1>6, <1>7, SetInduction
<1>9. len - 1 \in Nat /\ (len - 1) + 1 = len
  BY <1>1
<1>10. Passed(len)
  BY <1>8, <1>9 DEF S
<1> QED
  BY <1>1, <1>3, <1>10 DEF len, c, a, Expects

LEMMA FindRun ==
    ASSUME TableShape, ~torn, NEW q, NEW w \in BOOLEAN, w,
           NEW n \in WithLfn, q.text = Text[n], ~q.full,
           NEW i \in Live(table), RunOf(table, i, n),
           NEW r, r = Find(table, q, w)
    PROVE  r.found # NoSlot /\ (r.found = i => r.lfn = i - Len(Text[n]))
<1>1. PICK m \in Nat : \E st : Used(m) /\ IsScan(q, w, m, st) /\ Find(table, q, w) = st[m]
  BY FindScans
<1>2. PICK st : Used(m) /\ IsScan(q, w, m, st) /\ Find(table, q, w) = st[m]
  BY <1>1
<1>3. Steps(q, w, m, st)
  BY <1>2, ScanTypes
<1>8. \A x \in 0 .. m : SoFar(q, st[x], x)
  BY <1>2, ScanSoFar
<1>4. i \in 0 .. (m - 1) /\ table[i].kind = "sfn"
  BY <1>2 DEF TableShape, Used, Live
<1>5. /\ i \in 0 .. m /\ i + 1 \in 0 .. m /\ i \in Nat /\ i # NoSlot /\ i \notin 0 .. (i - 1)
  BY <1>4 DEF NoSlot
<1>6. CASE st[i].found # NoSlot
  <2>1. r = st[i]
    <3>1. st[m] = st[i]
      BY ONLY <1>3, <1>5, <1>6, FoundStays, w \in BOOLEAN, m \in Nat
    <3> QED
      BY <1>2, <3>1
  <2>2. r.found \in 0 .. (i - 1)
    BY <1>5, <1>6, <1>8, <2>1 DEF SoFar, Met
  <2> QED
    BY <1>5, <1>6, <2>1, <2>2
<1>7. CASE st[i].found = NoSlot
  <2>1. Expects(st[i], 0, Sum[table[i].sfn], i - Len(Text[n]))
    <3>1. Used(m)
      BY <1>2
    <3> QED
      BY ONLY <1>3, <1>4, <1>7, <3>1, RunScanned, TableShape, w \in BOOLEAN, w, m \in Nat, n \in WithLfn,
         q.text = Text[n], ~q.full, RunOf(table, i, n)
  <2>2. st[i] \in States /\ IsEntry(table[i]) /\ table[i].kind # "end" /\ st[i + 1] = Turn(q, w, st[i], table[i], i)
    BY <1>3, <1>4, <1>5, <1>7 DEF Steps
  <2>3. st[i + 1] = [st[i] EXCEPT !.found = i]
    BY ONLY <1>4, <1>5, <1>7, <2>1, <2>2, TurnFacts, w \in BOOLEAN DEF Expects
  <2>4. st[i + 1].found = i /\ st[i + 1].lfn = i - Len(Text[n])
    BY <2>1, <2>2, <2>3 DEF States, Expects
  <2>5. r = st[i + 1]
    <3>1. st[i + 1].found # NoSlot
      BY <1>5, <2>4
    <3>2. st[m] = st[i + 1]
      BY ONLY <1>3, <1>5, <3>1, FoundStays, w \in BOOLEAN, m \in Nat
    <3> QED
      BY <1>2, <3>2
  <2> QED
    BY <1>5, <2>4, <2>5
<1> QED
  BY <1>6, <1>7

-----------------------------------------------------------------------------
(* Without orphans the entries before an object that spell a name are the  *)
(* object's own.                                                           *)
LongName(j, n) == n \in WithLfn /\ table[j].own = n /\ RunOf(table, j, n)

LEMMA OwnersWhole ==
    ASSUME TableShape, Orphans(table) = {}, NEW j \in LfnSlots(table)
    PROVE  LET i == j + table[j].ord
           IN i \in Live(table) /\ LongName(i, table[j].own)
<1>1. PICK i \in Live(table) : table[i].own = table[j].own /\ i = j + table[j].ord /\ Whole(table, i)
  BY DEF Orphans
<1>2. table[j].own \in WithLfn
  BY EntryFacts DEF TableShape, LfnSlots
<1> QED
  BY <1>1, <1>2 DEF Whole, LongName

LEMMA LongNameFound ==
    ASSUME TableShape, Orphans(table) = {}, NEW q, Len(q.text) \in Nat \ {0},
           q.text = [k \in 1 .. Len(q.text) |-> q.text[k]],
           NEW j \in Live(table), NEW a, ByLong(q, j, a)
    PROVE  LongName(j, table[j].own) /\ Text[table[j].own] = q.text /\ a = j - Len(q.text)
<1> DEFINE len == Len(q.text)
           n == table[j].own
           size == Len(Text[n])
<1>1. a \in Nat /\ j = a + len /\ \A x \in a .. (j - 1) : IsSegment(q, x, len - (x - a))
  BY DEF ByLong, SegmentsFrom
<1> HIDE DEF len
<1>2. len \in Nat \ {0}
  BY DEF len
<1>3. \A k \in 1 .. len : IsSegment(q, j - k, k)
  <2> SUFFICES ASSUME NEW k \in 1 .. len PROVE IsSegment(q, j - k, k)
    OBVIOUS
  <2>1. j - k \in a .. (j - 1) /\ len - ((j - k) - a) = k
    BY <1>1, <1>2
  <2> QED
    BY <1>1, <2>1
<1>4. j - 1 \in LfnSlots(table) /\ table[j - 1].ord = 1 /\ (j - 1) + 1 = j
  <2>1. 1 \in 1 .. len /\ j - 1 \in Nat /\ j \in DOMAIN table
    BY <1>1, <1>2 DEF Live
  <2>2. IsSegment(q, j - 1, 1)
    BY <1>3, <2>1
  <2>3. j - 1 \in DOMAIN table /\ (j - 1) + 1 = j
    BY <2>1 DEF TableShape
  <2> QED
    BY <2>2, <2>3 DEF LfnSlots, IsSegment
<1>5. LongName(j, n)
  <2>1. LongName(j, table[j - 1].own)
    BY <1>4, OwnersWhole
  <2> QED
    BY <2>1 DEF LongName
<1>6. n \in WithLfn /\ size \in Nat \ {0} /\ \A k \in 1 .. size : table[j - k] = Lfn(n, k, Sum[table[j].sfn])
  BY <1>5, NameFacts DEF LongName, RunOf
<1> HIDE DEF n, size
<1>7. \A k \in 1 .. size : /\ table[j - k].seg = Text[n][k]
                           /\ table[j - k].last <=> k = size
  <2> SUFFICES ASSUME NEW k \in 1 .. size
               PROVE  table[j - k].seg = Text[n][k] /\ (table[j - k].last <=> k = size)
    OBVIOUS
  <2>1. table[j - k] = Lfn(n, k, Sum[table[j].sfn])
    BY <1>6
  <2>2. \A c : Lfn(n, k, c).seg = Text[n][k] /\ Lfn(n, k, c).last = (k = size)
    BY DEF Lfn, size
  <2> QED
    BY ONLY <2>1, <2>2
<1>8. \A k \in 1 .. len : /\ table[j - k].seg = q.text[k]
                          /\ table[j - k].last <=> k = len
  BY <1>3 DEF IsSegment, len
<1>9. size = len
  <2>1. ~(size < len)
    <3> SUFFICES ASSUME size < len PROVE FALSE
      OBVIOUS
    <3>1. size \in 1 .. len /\ size \in 1 .. size /\ size # len
      BY <1>2, <1>6
    <3> QED
      BY <1>7, <1>8, <3>1
  <2>2. ~(len < size)
    <3> SUFFICES ASSUME len < size PROVE FALSE
      OBVIOUS
    <3>1. len \in 1 .. len /\ len \in 1 .. size /\ size # len
      BY <1>2, <1>6
    <3> QED
      BY <1>7, <1>8, <3>1
  <2> QED
    BY <1>2, <1>6, <2>1, <2>2
<1>10. \A k \in 1 .. len : Text[n][k] = q.text[k]
  BY <1>7, <1>8, <1>9
<1>11. Text[n] = [k \in 1 .. len |-> Text[n][k]]
  <2>1. Text[n] = [k \in 1 .. Len(Text[n]) |-> Text[n][k]]
    BY <1>6, TextFacts, NamesAssumption
  <2> QED
    BY <1>9, <2>1 DEF size
<1>12. q.text = [k \in 1 .. len |-> q.text[k]]
  BY DEF len
<1>13. Text[n] = q.text
  BY <1>10, <1>11, <1>12
<1>14. a = j - len
  BY <1>1, <1>2
<1> QED
  BY <1>5, <1>13, <1>14 DEF n, len

-----------------------------------------------------------------------------
(* No two objects have names that cmp_lfn takes for equal, nor has one the *)
(* name that is being registered.                                          *)
Named(t) == {i \in Live(t) : Whole(t, i) /\ t[i].own \notin MaxLength}

NoTwins == \A i, j \in Named(table) : Text[table[i].own] = Text[table[j].own] => i = j

NoRival ==
    Registering /\ name \notin MaxLength => \A i \in Named(table) : Text[table[i].own] # Text[name]

(* A name that fits a short name has that one.                             *)
NamesKept ==
    /\ \A i \in Live(table) : table[i].own \notin Loss => table[i].sfn = Sfn[table[i].own]
    /\ Registering /\ name \notin Loss => sfn = Sfn[name]

NInv == NoTwins /\ NoRival /\ NamesKept

LEMMA QueryFacts ==
    ASSUME NEW n \in Name
    PROVE  LET q == Query(n)
           IN /\ q.text = Text[n] /\ q.sfn = Sfn[n] /\ q.loss = (n \in Loss) /\ q.full = (n \in MaxLength)
              /\ Len(q.text) \in Nat \ {0} /\ q.text = [k \in 1 .. Len(q.text) |-> q.text[k]]
BY TextFacts DEF Query

(* An object is found by every name that is equal to its own.              *)
LEMMA NamedFound ==
    ASSUME TableShape, ~torn, NamesKept, NEW i \in Named(table), NEW n \in Name, Text[table[i].own] = Text[n]
    PROVE  /\ Lookup(table, n).found # NoSlot
           /\ table[i].own \in WithLfn /\ Lookup(table, n).found = i => Lookup(table, n).lfn = i - Len(Text[n])
<1> DEFINE m == table[i].own
           q == Query(n)
           r == Lookup(table, n)
<1>1. i \in Live(table) /\ Whole(table, i) /\ m \notin MaxLength
  BY DEF Named
<1>2. m \in Name
  BY <1>1, EntryFacts DEF TableShape, Live
<1>3. n \notin MaxLength /\ (m \notin WithLfn => n \notin Loss /\ Sfn[n] = Sfn[m])
  BY <1>1, <1>2, CaseAssumption
<1>4. q.text = Text[n] /\ q.sfn = Sfn[n] /\ q.loss = (n \in Loss) /\ q.full = (n \in MaxLength)
  BY QueryFacts
<1>5. r = Find(table, q, TRUE)
  BY DEF Lookup
<1> HIDE DEF q, r
<1>6. CASE m \in WithLfn
  <2>1. RunOf(table, i, m) /\ q.text = Text[m] /\ ~q.full
    BY <1>1, <1>3, <1>4, <1>6 DEF Whole
  <2> HIDE DEF m
  <2>2. r.found # NoSlot /\ (r.found = i => r.lfn = i - Len(Text[m]))
    BY ONLY <1>1, <1>5, <1>6, <2>1, FindRun, TableShape, ~torn
  <2> QED
    BY <2>2 DEF m, r
<1>7. CASE m \notin WithLfn
  <2>1. table[i].sfn = q.sfn /\ ~q.loss
    BY <1>1, <1>3, <1>4, <1>7, NamesAssumption DEF NamesKept
  <2>2. r.found = NoSlot /\ ~q.loss => \A x \in Live(table) : table[x].sfn # q.sfn
    BY <1>5, FindFacts
  <2> QED
    BY <1>1, <1>7, <2>1, <2>2 DEF r
<1> QED
  BY <1>6, <1>7

-----------------------------------------------------------------------------
(* No step but the last of dir_register makes an object whole.             *)
LEMMA StillWhole ==
    ASSUME TableShape, NEW x, \A j \in DOMAIN table : j # x => table'[j] = table[j],
           NEW i \in Live(table), i # x, Whole(table', i),
           \A k \in 1 .. i : i - k = x => table'[x] # Lfn(table[i].own, k, Sum[table[i].sfn])
    PROVE  Whole(table, i)
<1>1. i \in DOMAIN table /\ table'[i] = table[i] /\ i \in Nat
  BY DEF Live, TableShape
<1> SUFFICES ASSUME table[i].own \in WithLfn PROVE RunOf(table, i, table[i].own)
  BY DEF Whole
<1> DEFINE n == table[i].own
           c == Sum[table[i].sfn]
<1>2. Len(Text[n]) \in Nat
  BY NameFacts
<1>3. i >= Len(Text[n]) /\ \A k \in 1 .. Len(Text[n]) : table'[i - k] = Lfn(n, k, c)
  BY <1>1 DEF Whole, RunOf
<1>4. ASSUME NEW k \in 1 .. Len(Text[n]) PROVE table[i - k] = Lfn(n, k, c)
  <2>1. k \in 1 .. i /\ i - k \in DOMAIN table
    BY <1>1, <1>2, <1>3 DEF TableShape
  <2>2. i - k # x
    BY <1>3, <2>1
  <2> QED
    BY <1>3, <2>1, <2>2
<1> QED
  BY <1>3, <1>4 DEF RunOf

Fewer == /\ \A i \in Live(table') : i \in Live(table) /\ table'[i] = table[i]
         /\ \A i \in Live(table') : Whole(table', i) => Whole(table, i)

LEMMA NamesStay ==
    ASSUME NInv, Fewer, Registering' => Registering /\ UNCHANGED <<name, sfn>>
    PROVE  NInv'
<1>1. \A i \in Named(table') : i \in Named(table) /\ table'[i] = table[i]
  BY DEF Named, Fewer
<1>2. NoTwins'
  BY <1>1 DEF NInv, NoTwins
<1>3. NoRival'
  BY <1>1 DEF NInv, NoRival
<1>4. NamesKept'
  BY DEF NInv, NamesKept, Fewer
<1> QED
  BY <1>2, <1>3, <1>4 DEF NInv

LEMMA SameNames ==
    ASSUME NInv, UNCHANGED table, Registering' => Registering /\ UNCHANGED <<name, sfn>>
    PROVE  NInv'
<1>1. Fewer
  BY DEF Fewer, Live
<1> QED
  BY <1>1, NamesStay

LEMMA InitNames == Init => NInv
<1> SUFFICES ASSUME Init PROVE NInv
  OBVIOUS
<1>1. Live(table) = {}
  BY DEF Init, Live, Other, End
<1>2. ~Registering
  BY DEF Init, Registering
<1> QED
  BY <1>1, <1>2 DEF NInv, NoTwins, NoRival, NamesKept, Named

LEMMA CreateNames == ASSUME IInv, ~torn, NInv, Create PROVE NInv'
<1>1. PICK n \in Name : Lookup(table, n).found = NoSlot /\ sfn' \in FreeShortNames(n) /\ name' = n
  BY DEF Create
<1>2. UNCHANGED table
  BY DEF Create
<1>3. TableShape /\ NoTwins /\ NamesKept
  BY DEF IInv, NInv
<1>4. \A i \in Named(table) : Text[table[i].own] # Text[n]
  BY <1>1, <1>3, NamedFound
<1>5. n \notin Loss => sfn' = Sfn[n]
  BY <1>1 DEF FreeShortNames
<1>6. Live(table') = Live(table) /\ Named(table') = Named(table)
  BY <1>2
<1>7. NoTwins' /\ NoRival'
  BY <1>1, <1>2, <1>3, <1>4, <1>6 DEF NoTwins, NoRival
<1>8. NamesKept'
  BY <1>1, <1>2, <1>3, <1>5, <1>6 DEF NamesKept
<1> QED
  BY <1>7, <1>8 DEF NInv

LEMMA StretchNames == ASSUME IInv, NInv, Stretch PROVE NInv'
<1> DEFINE blank == [k \in 1 .. Growth |-> End]
<1>1. /\ table' = Longer(blank)
      /\ UNCHANGED <<pc, name, sfn>> /\ TableShape
  BY DEF Stretch, IInv
<1>2. /\ \A i \in DOMAIN table : i \in DOMAIN table' /\ table'[i] = table[i]
      /\ \A i \in DOMAIN table' : i \notin DOMAIN table => table'[i] = End
  <2>1. \A k \in 1 .. Growth : blank[k] = End /\ IsEntry(blank[k])
    BY DEF IsEntry
  <2> HIDE DEF blank
  <2>2. \A i \in DOMAIN table : i \in DOMAIN table' /\ table'[i] = table[i]
    BY <1>1, <2>1, Lengthened
  <2>3. \A i \in DOMAIN table' : i \notin DOMAIN table => \E k \in 1 .. Growth : table'[i] = blank[k]
    BY <1>1, <2>1, Lengthened
  <2> QED
    BY <2>1, <2>2, <2>3
<1> HIDE DEF blank
<1>3. \A i \in Live(table') : i \in Live(table) /\ table'[i] = table[i]
  BY <1>2 DEF Live, End
<1>4. ASSUME NEW i \in Live(table'), Whole(table', i) PROVE Whole(table, i)
  <2>1. i \in Live(table) /\ i \in Nat /\ \A k \in 1 .. i : i - k # -1
    BY <1>1, <1>3 DEF TableShape, Live
  <2>2. i # -1 /\ \A k \in 1 .. i : i - k = -1 => table'[-1] # Lfn(table[i].own, k, Sum[table[i].sfn])
    BY <2>1
  <2> QED
    BY <1>1, <1>2, <1>4, <2>1, <2>2, StillWhole
<1> QED
  BY <1>1, <1>3, <1>4, NamesStay DEF Fewer, Registering

LEMMA RegisterLfnNames == ASSUME IInv, NInv, RegisterLfn PROVE NInv'
<1> DEFINE e == Lfn(name, ord, Sum[sfn])
<1>1. pc = "lfn" /\ table' = [table EXCEPT ![idx] = e] /\ UNCHANGED <<name, sfn>> /\ TableShape
  BY DEF RegisterLfn, IInv
<1>2. e.kind = "lfn" /\ e.ord = ord /\ ord \in Nat /\ idx \in Nat /\ Blank(table, idx + ord)
  <2>1. name \in WithLfn /\ ord \in 1 .. Len(Text[name]) /\ idx \in Nat
        /\ \A j \in idx .. (idx + ord) : Blank(table, j)
    BY <1>1 DEF IInv, RegisterShape, Writing
  <2>2. ord \in Nat
    BY <2>1
  <2> QED
    BY <2>1, <2>2 DEF Lfn
<1> HIDE DEF e
<1>3. \A j \in DOMAIN table : j # idx => table'[j] = table[j]
  BY <1>1
<1>4. \A i \in Live(table') : i # idx /\ i \in Live(table) /\ table'[i] = table[i]
  BY <1>1, <1>2 DEF Live
<1>5. ASSUME NEW i \in Live(table'), Whole(table', i) PROVE Whole(table, i)
  <2>1. i \in Live(table) /\ i # idx /\ i \in Nat
    BY <1>1, <1>4 DEF TableShape, Live
  <2>2. ASSUME NEW k \in 1 .. i, i - k = idx, table'[idx] = Lfn(table[i].own, k, Sum[table[i].sfn])
        PROVE  FALSE
    <3>1. table'[idx] = e
      BY <1>1, <2>1, <2>2 DEF TableShape, Live
    <3>2. ord = k
      BY <1>2, <2>2, <3>1 DEF Lfn
    <3>3. i = idx + ord
      BY <2>1, <2>2, <3>2
    <3> QED
      BY <1>2, <2>1, <3>3 DEF Live, Blank
  <2>3. \A k \in 1 .. i : i - k = idx => table'[idx] # Lfn(table[i].own, k, Sum[table[i].sfn])
    BY <2>2
  <2> QED
    BY <1>1, <1>3, <1>5, <2>1, <2>3, StillWhole
<1> QED
  BY <1>1, <1>4, <1>5, NamesStay DEF Fewer, Registering

(* The entry written at x is not one of a long name.                       *)
LEMMA WholeBehind ==
    ASSUME TableShape, NEW x \in DOMAIN table, NEW e, e.kind # "lfn", table' = [table EXCEPT ![x] = e]
    PROVE  \A i \in Live(table') \ {x} :
              i \in Live(table) /\ table'[i] = table[i] /\ (Whole(table', i) => Whole(table, i))
<1> SUFFICES ASSUME NEW i \in Live(table'), i # x
             PROVE  i \in Live(table) /\ table'[i] = table[i] /\ (Whole(table', i) => Whole(table, i))
  OBVIOUS
<1>1. i \in Live(table) /\ table'[i] = table[i] /\ table'[x] = e
  BY DEF Live
<1>2. \A j \in DOMAIN table : j # x => table'[j] = table[j]
  OBVIOUS
<1>3. \A k \in 1 .. i : i - k = x => table'[x] # Lfn(table[i].own, k, Sum[table[i].sfn])
  BY <1>1 DEF Lfn
<1> QED
  BY <1>1, <1>2, <1>3, StillWhole

LEMMA RegisterSfnNames == ASSUME IInv, NInv, RegisterSfn PROVE NInv'
<1> DEFINE e == Short(name, sfn)
<1>1. pc = "sfn" /\ table' = [table EXCEPT ![idx] = e] /\ pc' = "idle" /\ TableShape
  BY DEF RegisterSfn, Return, IInv
<1>2. idx \in DOMAIN table
  BY <1>1 DEF IInv, RegisterShape, Writing, TableShape
<1>3. e.kind # "lfn" /\ e.own = name /\ e.sfn = sfn /\ table'[idx] = e
  BY <1>1, <1>2 DEF Short
<1> HIDE DEF e
<1>4. \A i \in Live(table') \ {idx} :
          i \in Live(table) /\ table'[i] = table[i] /\ (Whole(table', i) => Whole(table, i))
  BY <1>1, <1>2, <1>3, WholeBehind
<1>5. Registering /\ ~Registering'
  BY <1>1 DEF Registering
<1>6. \A i \in Named(table') \ {idx} : i \in Named(table) /\ table'[i] = table[i]
  BY <1>4 DEF Named
<1>7. NoTwins'
  <2> SUFFICES ASSUME NEW i \in Named(table'), NEW j \in Named(table'), Text[table'[i].own] = Text[table'[j].own]
               PROVE  i = j
    BY DEF NoTwins
  <2>1. idx \in Named(table') => name \notin MaxLength
    BY <1>3 DEF Named
  <2>2. CASE i # idx /\ j # idx
    BY <1>6, <2>2 DEF NInv, NoTwins
  <2>3. CASE i = idx /\ j # idx
    BY <1>3, <1>5, <1>6, <2>1, <2>3 DEF NInv, NoRival
  <2>4. CASE i # idx /\ j = idx
    BY <1>3, <1>5, <1>6, <2>1, <2>4 DEF NInv, NoRival
  <2> QED
    BY <2>2, <2>3, <2>4
<1>8. NoRival'
  BY <1>5 DEF NoRival
<1>9. NamesKept'
  <2>1. ASSUME NEW i \in Live(table'), table'[i].own \notin Loss PROVE table'[i].sfn = Sfn[table'[i].own]
    <3>1. CASE i = idx
      BY <1>3, <1>5, <2>1, <3>1 DEF NInv, NamesKept
    <3>2. CASE i # idx
      BY <1>4, <2>1, <3>2 DEF NInv, NamesKept
    <3> QED
      BY <3>1, <3>2
  <2> QED
    BY <1>5, <2>1 DEF NamesKept
<1> QED
  BY <1>7, <1>8, <1>9 DEF NInv

LEMMA RemoveNames == ASSUME IInv, NInv, Remove PROVE NInv'
<1>1. pc = "delete" /\ table' = [table EXCEPT ![idx] = Deleted] /\ TableShape /\ pc' \in {"idle", "delete"}
  BY DEF Remove, Return, IInv
<1>2. idx \in DOMAIN table
  BY <1>1 DEF IInv, RemoveShape, TableShape
<1>3. Deleted.kind = "deleted" /\ table'[idx] = Deleted
  BY <1>1, <1>2 DEF Deleted
<1>4. \A i \in Live(table') \ {idx} :
          i \in Live(table) /\ table'[i] = table[i] /\ (Whole(table', i) => Whole(table, i))
  BY <1>1, <1>2, <1>3, WholeBehind
<1>5. idx \notin Live(table')
  BY <1>3 DEF Live
<1>6. Fewer
  BY <1>4, <1>5 DEF Fewer
<1> QED
  BY <1>1, <1>6, NamesStay DEF Registering

(* Once a cluster was not cleared, no more is said of the names.           *)
LEMMA TornStays == ASSUME [Next]_vars, torn PROVE torn'
<1>1. CASE Create \/ Reserve \/ Stretch \/ TableFull
  BY <1>1 DEF Create, Reserve, Stretch, TableFull
<1>2. CASE RegisterLfn \/ RegisterSfn \/ Unlink \/ Remove
  BY <1>2 DEF RegisterLfn, RegisterSfn, Unlink, Remove
<1>3. CASE StretchFails \/ Fails
  BY <1>3 DEF StretchFails, Fails
<1>4. CASE UNCHANGED vars
  BY <1>4 DEF vars
<1> QED
  BY <1>1, <1>2, <1>3, <1>4 DEF Next

LEMMA StepNames == ASSUME IInv, NInv, [Next]_vars, ~torn' PROVE NInv'
<1>0. ~torn
  BY TornStays
<1>1. CASE Create
  BY <1>0, <1>1, CreateNames
<1>2. CASE Reserve
  BY <1>2, SameNames DEF Reserve, Registering
<1>3. CASE Stretch
  BY <1>3, StretchNames
<1>4. CASE TableFull
  BY <1>4, SameNames DEF TableFull, Return, Registering
<1>5. CASE RegisterLfn
  BY <1>5, RegisterLfnNames
<1>6. CASE RegisterSfn
  BY <1>6, RegisterSfnNames
<1>7. CASE Unlink
  BY <1>7, SameNames DEF Unlink, Registering
<1>8. CASE Remove
  BY <1>8, RemoveNames
<1>9. CASE Fails
  BY <1>9, SameNames DEF Fails, Return, Registering
<1>10. CASE UNCHANGED vars
  BY <1>10, SameNames DEF vars, Registering
<1>11. ~StretchFails
  BY DEF StretchFails
<1> QED
  BY <1>1, <1>2, <1>3, <1>4, <1>5, <1>6, <1>7, <1>8, <1>9, <1>10, <1>11 DEF Next

LEMMA NamesHold == Spec => [](IInv /\ (torn \/ NInv))
<1>1. Init => IInv /\ (torn \/ NInv)
  BY InitIInv, InitNames
<1>2. IInv /\ (torn \/ NInv) /\ [Next]_vars => IInv' /\ (torn' \/ NInv')
  BY StepIInv, StepNames, TornStays
<1> QED
  BY <1>1, <1>2, PTL DEF Spec

-----------------------------------------------------------------------------
(* The loop of dir_read: st[k] is its state after the entries below k.     *)
ReadScan(st, k) ==
    IF k = 0 THEN [ord |-> NoOrd, sum |-> NoSum, text |-> <<>>] ELSE ReadTurn(st[k - 1], table[k - 1])

LEMMA ReadExists == \A n \in Nat : \E st : st = [k \in 0 .. n |-> ReadScan(st, k)]
<1> DEFINE S == {n \in Nat : \E st : st = [k \in 0 .. n |-> ReadScan(st, k)]}
<1>1. 0 \in S
  <2> DEFINE z == [k \in 0 .. 0 |-> [ord |-> NoOrd, sum |-> NoSum, text |-> <<>>]]
  <2>1. z = [k \in 0 .. 0 |-> ReadScan(z, k)]
    BY DEF ReadScan
  <2> QED
    BY <2>1
<1>2. ASSUME NEW n \in Nat, n \in S PROVE n + 1 \in S
  <2>1. PICK st : st = [k \in 0 .. n |-> ReadScan(st, k)]
    BY <1>2
  <2> DEFINE g == [k \in 0 .. (n + 1) |-> IF k = n + 1 THEN ReadScan(st, n + 1) ELSE st[k]]
  <2>2. \A k \in 0 .. (n + 1) : g[k] = ReadScan(g, k)
    <3> SUFFICES ASSUME NEW k \in 0 .. (n + 1) PROVE g[k] = ReadScan(g, k)
      OBVIOUS
    <3>1. k # 0 => k - 1 \in 0 .. n /\ g[k - 1] = st[k - 1]
      OBVIOUS
    <3>2. k # n + 1 => k \in 0 .. n /\ g[k] = st[k] /\ st[k] = ReadScan(st, k)
      BY <2>1
    <3>3. k = n + 1 => g[k] = ReadScan(st, k)
      OBVIOUS
    <3>4. ReadScan(g, k) = ReadScan(st, k)
      BY <3>1 DEF ReadScan
    <3> QED
      BY <3>2, <3>3, <3>4
  <2>3. g = [k \in 0 .. (n + 1) |-> ReadScan(g, k)]
    <3>1. g = [k \in 0 .. (n + 1) |-> g[k]]
      OBVIOUS
    <3> HIDE DEF g
    <3> QED
      BY <2>2, <3>1
  <2> HIDE DEF g
  <2> QED
    BY <2>3
<1> HIDE DEF S
<1>3. Nat \subseteq S
  BY <1>1, <1>2, SetInduction
<1> QED
  BY <1>3 DEF S

IsReading(s) == s = [ord |-> s.ord, sum |-> s.sum, text |-> s.text]

ReadSteps(n, st) ==
    /\ st[0] = [ord |-> NoOrd, sum |-> NoSum, text |-> <<>>]
    /\ \A k \in 0 .. n : IsReading(st[k])
    /\ \A k \in 0 .. (n - 1) : st[k + 1] = ReadTurn(st[k], table[k])

LEMMA Rewritten ==
    ASSUME NEW s, IsReading(s), NEW x, NEW y
    PROVE  [s EXCEPT !.ord = x, !.text = y] = [ord |-> x, sum |-> s.sum, text |-> y]
<1> DEFINE R == [ord : {s.ord, x}, sum : {s.sum}, text : {s.text, y}]
           r == [s EXCEPT !.ord = x, !.text = y]
<1>1. s \in R
  BY DEF IsReading
<1>2. r \in R /\ r.ord = x /\ r.text = y
  BY <1>1
<1> HIDE DEF r
<1>3. r.sum = s.sum /\ r = [ord |-> r.ord, sum |-> r.sum, text |-> r.text]
  BY <1>2
<1> QED
  BY <1>2, <1>3 DEF r

LEMMA ReadForm ==
    ASSUME NEW s, IsReading(s), NEW e PROVE IsReading(ReadTurn(s, e))
<1> DEFINE begun == IF e.last THEN [s EXCEPT !.ord = e.ord, !.sum = e.sum, !.text = <<>>] ELSE s
           o == IF e.ord = begun.ord /\ e.sum = begun.sum /\ PickLfn(e) THEN e.ord - 1 ELSE NoOrd
<1>1. IsReading(begun)
  BY DEF IsReading
<1>2. ReadTurn(s, e) = IF e.kind = "lfn" THEN [begun EXCEPT !.ord = o, !.text = <<e.seg>> \o @]
                                         ELSE [s EXCEPT !.ord = NoOrd]
  BY DEF ReadTurn
<1> HIDE DEF begun, o
<1>3. IsReading([begun EXCEPT !.ord = o, !.text = <<e.seg>> \o @])
  <2>1. ASSUME NEW x, NEW y PROVE IsReading([begun EXCEPT !.ord = x, !.text = y])
    <3>1. [begun EXCEPT !.ord = x, !.text = y] = [ord |-> x, sum |-> begun.sum, text |-> y]
      BY <1>1, Rewritten
    <3> QED
      BY <3>1 DEF IsReading
  <2> QED
    BY <2>1
<1>4. IsReading([s EXCEPT !.ord = NoOrd])
  BY DEF IsReading
<1> QED
  BY <1>2, <1>3, <1>4

(* What dir_read shows depends on the state it is in at the object.        *)
LEMMA ShownScans ==
    ASSUME NEW i \in Nat
    PROVE  \E st : /\ ReadSteps(i, st)
                   /\ Shown(table, i) = IF st[i].ord = 0 /\ st[i].sum = Sum[table[i].sfn]
                                        THEN [text |-> st[i].text, short |-> FALSE]
                                        ELSE [text |-> <<table[i].sfn>>, short |-> TRUE]
<1> DEFINE st == CHOOSE st : st = [k \in 0 .. i |-> ReadScan(st, k)]
<1>1. Shown(table, i) = IF st[i].ord = 0 /\ st[i].sum = Sum[table[i].sfn]
                        THEN [text |-> st[i].text, short |-> FALSE]
                        ELSE [text |-> <<table[i].sfn>>, short |-> TRUE]
  BY DEF Shown, ReadScan
<1>2. \E s : s = [k \in 0 .. i |-> ReadScan(s, k)]
  BY ReadExists
<1>3. st = [k \in 0 .. i |-> ReadScan(st, k)]
  BY <1>2
<1> HIDE DEF st
<1>4. st[0] = [ord |-> NoOrd, sum |-> NoSum, text |-> <<>>]
  BY <1>3 DEF ReadScan
<1>5. ASSUME NEW k \in 0 .. (i - 1) PROVE st[k + 1] = ReadTurn(st[k], table[k])
  <2>1. k + 1 \in 0 .. i /\ k + 1 # 0 /\ (k + 1) - 1 = k
    OBVIOUS
  <2>2. st[k + 1] = ReadScan(st, k + 1)
    BY <1>3, <2>1
  <2> QED
    BY <2>1, <2>2 DEF ReadScan
<1> DEFINE S == {n \in Nat : n <= i => IsReading(st[n])}
<1>6. 0 \in S
  BY <1>4 DEF IsReading
<1>7. ASSUME NEW n \in Nat, n \in S PROVE n + 1 \in S
  <2> SUFFICES ASSUME n + 1 <= i PROVE IsReading(st[n + 1])
    OBVIOUS
  <2>1. n \in 0 .. (i - 1) /\ IsReading(st[n])
    BY <1>7
  <2> QED
    BY <1>5, <2>1, ReadForm
<1> HIDE DEF S
<1>8. Nat \subseteq S
  BY <1>6, <1>7, SetInduction
<1>9. \A k \in 0 .. i : IsReading(st[k])
  BY <1>8 DEF S
<1>10. ReadSteps(i, st)
  BY <1>4, <1>5, <1>9 DEF ReadSteps
<1> QED
  BY <1>1, <1>10

(* The segments of a name behind segment k.                                *)
Behind(n, k) == [x \in 1 .. (Len(Text[n]) - k) |-> Text[n][k + x]]

LEMMA Concatenated ==
    ASSUME NEW V, NEW s \in Seq(V), NEW t \in Seq(V)
    PROVE  s \o t = [x \in 1 .. (Len(s) + Len(t)) |-> IF x <= Len(s) THEN s[x] ELSE t[x - Len(s)]]
<1>1. /\ s \o t \in Seq(V) /\ Len(s \o t) = Len(s) + Len(t)
      /\ \A x \in 1 .. (Len(s) + Len(t)) : (s \o t)[x] = IF x <= Len(s) THEN s[x] ELSE t[x - Len(s)]
  BY ConcatProperties
<1> DEFINE u == s \o t
<1> HIDE DEF u
<1>2. u = [x \in 1 .. Len(u) |-> u[x]]
  <2>1. u \in Seq(V)
    BY <1>1 DEF u
  <2> QED
    BY <2>1
<1>3. Len(u) = Len(s) + Len(t) /\ \A x \in 1 .. (Len(s) + Len(t)) : u[x] = IF x <= Len(s) THEN s[x] ELSE t[x - Len(s)]
  BY <1>1 DEF u
<1>4. u = [x \in 1 .. (Len(s) + Len(t)) |-> IF x <= Len(s) THEN s[x] ELSE t[x - Len(s)]]
  BY <1>2, <1>3
<1> QED
  BY <1>4 DEF u

LEMMA BehindFacts ==
    ASSUME NEW n \in Name
    PROVE  /\ Behind(n, 0) = Text[n]
           /\ Behind(n, Len(Text[n])) = <<>>
           /\ \A k \in 1 .. Len(Text[n]) : <<Text[n][k]>> \o Behind(n, k) = Behind(n, k - 1)
<1> DEFINE len == Len(Text[n])
<1>1. len \in Nat \ {0} /\ Text[n] = [k \in 1 .. len |-> Text[n][k]]
  BY TextFacts
<1>2. Behind(n, 0) = Text[n]
  BY <1>1 DEF Behind
<1>3. Behind(n, len) = <<>>
  BY <1>1 DEF Behind
<1>4. ASSUME NEW k \in 1 .. len PROVE <<Text[n][k]>> \o Behind(n, k) = Behind(n, k - 1)
  <2> DEFINE V == {Text[n][x] : x \in 1 .. len}
             s == <<Text[n][k]>>
             t == Behind(n, k)
  <2>1. s \in Seq(V) /\ Len(s) = 1 /\ s[1] = Text[n][k]
    BY <1>1
  <2>2. t \in Seq(V) /\ Len(t) = len - k /\ \A x \in 1 .. (len - k) : t[x] = Text[n][k + x]
    <3>1. len - k \in Nat /\ t = [x \in 1 .. (len - k) |-> Text[n][k + x]]
      BY <1>1 DEF Behind
    <3>2. \A x \in 1 .. (len - k) : Text[n][k + x] \in V
      BY <1>1
    <3> HIDE DEF t, V
    <3> QED
      BY <3>1, <3>2
  <2> HIDE DEF s, t, V
  <2>3. s \o t = [x \in 1 .. (1 + (len - k)) |-> IF x <= 1 THEN s[x] ELSE t[x - 1]]
    <3>1. s \o t = [x \in 1 .. (Len(s) + Len(t)) |-> IF x <= Len(s) THEN s[x] ELSE t[x - Len(s)]]
      BY <2>1, <2>2, Concatenated
    <3> QED
      BY ONLY <2>1, <2>2, <3>1
  <2>4. Behind(n, k - 1) = [x \in 1 .. (1 + (len - k)) |-> Text[n][(k - 1) + x]]
    BY <1>1 DEF Behind
  <2>5. \A x \in 1 .. (1 + (len - k)) : (IF x <= 1 THEN s[x] ELSE t[x - 1]) = Text[n][(k - 1) + x]
    BY <1>1, <2>1, <2>2
  <2> QED
    BY <2>3, <2>4, <2>5 DEF s, t
<1> QED
  BY <1>2, <1>3, <1>4

LEMMA Rewritten3 ==
    ASSUME NEW s, IsReading(s), NEW x, NEW y, NEW z
    PROVE  [s EXCEPT !.ord = x, !.sum = y, !.text = z] = [ord |-> x, sum |-> y, text |-> z]
<1> DEFINE R == [ord : {s.ord, x}, sum : {s.sum, y}, text : {s.text, z}]
           r == [s EXCEPT !.ord = x, !.sum = y, !.text = z]
<1>1. s \in R
  BY DEF IsReading
<1>2. r \in R /\ r.ord = x /\ r.sum = y /\ r.text = z
  BY <1>1
<1> HIDE DEF r
<1>3. r = [ord |-> r.ord, sum |-> r.sum, text |-> r.text]
  BY <1>2
<1> QED
  BY <1>2, <1>3 DEF r

(* One turn of the loop of dir_read.                                       *)
LfnRead(s, e, r) ==
    /\ e.last => /\ r.sum = e.sum /\ r.text = <<e.seg>> \o <<>>
                 /\ r.ord = IF PickLfn(e) THEN e.ord - 1 ELSE NoOrd
    /\ ~e.last => /\ r.sum = s.sum /\ r.text = <<e.seg>> \o s.text
                  /\ r.ord = IF e.ord = s.ord /\ e.sum = s.sum /\ PickLfn(e) THEN e.ord - 1 ELSE NoOrd

LEMMA ReadFacts ==
    ASSUME NEW s, IsReading(s), NEW e, NEW r, r = ReadTurn(s, e)
    PROVE  /\ e.kind = "lfn" => LfnRead(s, e, r)
           /\ e.kind # "lfn" => r.ord = NoOrd
<1>1. CASE e.kind # "lfn"
  <2>1. r = [s EXCEPT !.ord = NoOrd]
    BY <1>1 DEF ReadTurn
  <2> QED
    BY <1>1, <2>1 DEF IsReading
<1>2. CASE e.kind = "lfn" /\ e.last
  <2> DEFINE begun == [s EXCEPT !.ord = e.ord, !.sum = e.sum, !.text = <<>>]
  <2>1. begun = [ord |-> e.ord, sum |-> e.sum, text |-> <<>>]
    BY Rewritten3
  <2>2. IsReading(begun) /\ begun.ord = e.ord /\ begun.sum = e.sum /\ begun.text = <<>>
    BY <2>1 DEF IsReading
  <2>3. r = [begun EXCEPT !.ord = IF e.ord = begun.ord /\ e.sum = begun.sum /\ PickLfn(e) THEN e.ord - 1 ELSE NoOrd,
                          !.text = <<e.seg>> \o begun.text]
    BY <1>2 DEF ReadTurn
  <2> HIDE DEF begun
  <2>4. r = [ord |-> IF e.ord = begun.ord /\ e.sum = begun.sum /\ PickLfn(e) THEN e.ord - 1 ELSE NoOrd,
             sum |-> begun.sum, text |-> <<e.seg>> \o begun.text]
    BY <2>2, <2>3, Rewritten
  <2> QED
    BY <1>2, <2>2, <2>4 DEF LfnRead
<1>3. CASE e.kind = "lfn" /\ ~e.last
  <2>1. r = [s EXCEPT !.ord = IF e.ord = s.ord /\ e.sum = s.sum /\ PickLfn(e) THEN e.ord - 1 ELSE NoOrd,
                      !.text = <<e.seg>> \o s.text]
    BY <1>3 DEF ReadTurn
  <2>2. r = [ord |-> IF e.ord = s.ord /\ e.sum = s.sum /\ PickLfn(e) THEN e.ord - 1 ELSE NoOrd,
             sum |-> s.sum, text |-> <<e.seg>> \o s.text]
    BY <2>1, Rewritten
  <2> QED
    BY <1>3, <2>2 DEF LfnRead
<1> QED
  BY <1>1, <1>2, <1>3

(* dir_read has read the segments of n behind segment k; a name of 255     *)
(* characters fails at its last one.                                       *)
HasRead(s, n, k, c) ==
    IF n \in MaxLength THEN s.ord = NoOrd ELSE s.ord = k /\ s.sum = c /\ s.text = Behind(n, k)

LEMMA SegmentRead ==
    ASSUME NEW n \in WithLfn, NEW k \in 1 .. Len(Text[n]), NEW c, NEW s, IsReading(s),
           k = Len(Text[n]) \/ HasRead(s, n, k, c),
           NEW r, r = ReadTurn(s, Lfn(n, k, c))
    PROVE  HasRead(r, n, k - 1, c)
<1> DEFINE e == Lfn(n, k, c)
<1>1. n \in Name /\ Len(Text[n]) \in Nat \ {0} /\ k \in Nat \ {0}
  BY NameFacts
<1>2. /\ e.kind = "lfn" /\ e.ord = k /\ e.last = (k = Len(Text[n])) /\ e.seg = Text[n][k]
      /\ e.full = (n \in MaxLength) /\ e.sum = c
  BY DEF Lfn
<1>3. r = ReadTurn(s, e)
  OBVIOUS
<1> HIDE DEF e
<1>4. LfnRead(s, e, r)
  BY <1>2, <1>3, ReadFacts
<1>5. <<Text[n][k]>> \o Behind(n, k) = Behind(n, k - 1) /\ Behind(n, Len(Text[n])) = <<>>
  BY <1>1, BehindFacts
<1>6. CASE k = Len(Text[n])
  <2>1. r.sum = c /\ r.text = <<Text[n][k]>> \o <<>> /\ r.ord = IF n \in MaxLength THEN NoOrd ELSE k - 1
    BY <1>2, <1>4, <1>6 DEF LfnRead, PickLfn
  <2>2. <<Text[n][k]>> \o <<>> = Behind(n, k - 1)
    BY <1>5, <1>6
  <2> QED
    BY <2>1, <2>2 DEF HasRead
<1>7. CASE k # Len(Text[n]) /\ n \in MaxLength
  <2>1. s.ord = NoOrd /\ k # NoOrd
    BY <1>1, <1>7 DEF HasRead, NoOrd
  <2>2. r.ord = NoOrd
    BY <1>2, <1>4, <1>7, <2>1 DEF LfnRead
  <2> QED
    BY <1>7, <2>2 DEF HasRead
<1>8. CASE k # Len(Text[n]) /\ n \notin MaxLength
  <2>1. s.ord = k /\ s.sum = c /\ s.text = Behind(n, k)
    BY <1>8 DEF HasRead
  <2>2. r.sum = c /\ r.text = <<Text[n][k]>> \o Behind(n, k) /\ r.ord = k - 1
    BY <1>2, <1>4, <1>8, <2>1 DEF LfnRead, PickLfn
  <2> QED
    BY <1>5, <1>8, <2>2 DEF HasRead
<1> QED
  BY <1>6, <1>7, <1>8

(* At an object dir_read has read the segments before it.                  *)
LEMMA RunRead ==
    ASSUME TableShape, NEW i \in Live(table), NEW n \in WithLfn, RunOf(table, i, n),
           NEW st, ReadSteps(i, st)
    PROVE  HasRead(st[i], n, 0, Sum[table[i].sfn])
<1> DEFINE len == Len(Text[n])
           c == Sum[table[i].sfn]
           a == i - len
           S == {d \in Nat : d + 1 <= len => HasRead(st[a + (d + 1)], n, len - (d + 1), c)}
<1>1. len \in Nat \ {0}
  BY NameFacts
<1>2. i \in Nat /\ i >= len /\ \A k \in 1 .. len : table[i - k] = Lfn(n, k, c)
  BY DEF RunOf, Live, TableShape
<1>3. a \in Nat /\ a + len = i
  BY <1>1, <1>2
<1>4. ASSUME NEW d \in 0 .. (len - 1), d = 0 \/ HasRead(st[a + d], n, len - d, c)
      PROVE  HasRead(st[a + (d + 1)], n, len - (d + 1), c)
  <2>1. /\ a + d \in 0 .. (i - 1) /\ a + d \in 0 .. i /\ len - d \in 1 .. len
        /\ i - (len - d) = a + d /\ (a + d) + 1 = a + (d + 1) /\ (len - d) - 1 = len - (d + 1)
        /\ (d = 0 => len - d = len)
    BY <1>1, <1>2, <1>3
  <2>2. table[a + d] = Lfn(n, len - d, c)
    BY <1>2, <2>1
  <2>3. IsReading(st[a + d]) /\ st[a + (d + 1)] = ReadTurn(st[a + d], table[a + d])
    <3>1. st[(a + d) + 1] = ReadTurn(st[a + d], table[a + d]) /\ IsReading(st[a + d])
      BY <2>1 DEF ReadSteps
    <3> QED
      BY <2>1, <3>1
  <2> DEFINE s == st[a + d]
             r == st[a + (d + 1)]
             k == len - d
  <2>4. k \in 1 .. Len(Text[n]) /\ (k = Len(Text[n]) \/ HasRead(s, n, k, c))
    BY <1>4, <2>1
  <2>5. r = ReadTurn(s, Lfn(n, k, c)) /\ IsReading(s)
    BY <2>2, <2>3
  <2> HIDE DEF s, r, k, c
  <2>6. HasRead(r, n, k - 1, c)
    BY <2>4, <2>5, SegmentRead
  <2> QED
    BY <2>1, <2>6 DEF r, k
<1> HIDE DEF c, a, len
<1>5. 0 \in S
  <2>1. 0 \in 0 .. (len - 1)
    BY <1>1
  <2> QED
    BY <1>4, <2>1
<1>6. ASSUME NEW d \in Nat, d \in S PROVE d + 1 \in S
  <2> SUFFICES ASSUME (d + 1) + 1 <= len
               PROVE  HasRead(st[a + ((d + 1) + 1)], n, len - ((d + 1) + 1), c)
    OBVIOUS
  <2>1. d + 1 \in 0 .. (len - 1) /\ d + 1 <= len
    BY <1>1
  <2>2. HasRead(st[a + (d + 1)], n, len - (d + 1), c)
    BY <1>6, <2>1
  <2> QED
    BY <1>4, <2>1, <2>2
<1> HIDE DEF S
<1>7. Nat \subseteq S
  BY <1>5, <1>6, SetInduction
<1>8. len - 1 \in Nat /\ (len - 1) + 1 = len /\ len - len = 0
  BY <1>1
<1>9. len - 1 \in S
  BY <1>7, <1>8
<1>10. HasRead(st[a + len], n, len - len, c)
  BY <1>8, <1>9 DEF S
<1> QED
  BY <1>3, <1>8, <1>10 DEF c

(* A long name is shown for objects that are whole only, and is theirs.    *)
LEMMA ShownFacts ==
    ASSUME TableShape, Orphans(table) = {}, NEW i \in Live(table)
    PROVE  LET s == Shown(table, i)
           IN ~s.short => /\ LongName(i, table[i].own) /\ table[i].own \notin MaxLength
                          /\ s.text = Text[table[i].own]
<1>1. i \in Nat /\ i \in DOMAIN table /\ DOMAIN table = 0 .. (Size(table) - 1) /\ Size(table) \in Nat
  BY DEF Live, TableShape
<1>2. PICK st : /\ ReadSteps(i, st)
                /\ Shown(table, i) = IF st[i].ord = 0 /\ st[i].sum = Sum[table[i].sfn]
                                     THEN [text |-> st[i].text, short |-> FALSE]
                                     ELSE [text |-> <<table[i].sfn>>, short |-> TRUE]
  BY <1>1, ShownScans
<1> SUFFICES ASSUME st[i].ord = 0 /\ st[i].sum = Sum[table[i].sfn]
             PROVE  /\ LongName(i, table[i].own) /\ table[i].own \notin MaxLength
                    /\ st[i].text = Text[table[i].own]
  BY <1>2
<1> DEFINE j == i - 1
           e == table[j]
<1>3. i # 0
  BY <1>2 DEF ReadSteps, NoOrd
<1>4. j \in 0 .. (i - 1) /\ j \in 0 .. i /\ j \in DOMAIN table /\ j + 1 = i
  BY <1>1, <1>3
<1>5. IsReading(st[j]) /\ st[i] = ReadTurn(st[j], e) /\ IsEntry(e)
  BY <1>2, <1>4 DEF ReadSteps, TableShape
<1>6. e.kind = "lfn" /\ LfnRead(st[j], e, st[i])
  BY <1>5, ReadFacts DEF NoOrd
<1>7. e.ord = 1
  <2>1. e.ord \in Nat
    BY <1>5, <1>6, EntryFacts
  <2>2. e.ord - 1 = 0
    BY <1>6, <2>1 DEF LfnRead, NoOrd
  <2> QED
    BY <2>1, <2>2
<1> HIDE DEF j
<1>8. LongName(i, e.own)
  <2>1. j \in LfnSlots(table) /\ j + table[j].ord = i
    BY <1>4, <1>6, <1>7 DEF LfnSlots
  <2> QED
    BY <2>1, OwnersWhole
<1> DEFINE n == table[i].own
<1>9. LongName(i, n)
  BY <1>8 DEF LongName
<1> HIDE DEF n
<1>10. HasRead(st[i], n, 0, Sum[table[i].sfn]) /\ n \in WithLfn
  BY <1>2, <1>9, RunRead DEF LongName
<1>11. n \notin MaxLength /\ st[i].text = Behind(n, 0)
  BY <1>10 DEF HasRead, NoOrd
<1>12. Behind(n, 0) = Text[n]
  BY <1>10, NameFacts, BehindFacts
<1> QED
  BY <1>9, <1>11, <1>12 DEF n

-----------------------------------------------------------------------------
(* Two objects with one long name are the same.                            *)
LEMMA LongNameDiffers ==
    ASSUME TableShape, NoTwins, NEW i \in Live(table), Whole(table, i), table[i].own \notin MaxLength,
           NEW j \in Live(table), LongName(j, table[j].own), Text[table[j].own] = Text[table[i].own]
    PROVE  j = i
<1>1. table[i].own \in Name /\ table[j].own \in Name
  BY EntryFacts DEF TableShape, Live
<1>2. table[j].own \notin MaxLength
  BY <1>1, CaseAssumption
<1>3. Whole(table, j)
  BY DEF LongName, Whole
<1> QED
  BY <1>2, <1>3 DEF NoTwins, Named

LEMMA FoundByName ==
    ASSUME IInv, ~torn, NInv, Orphans(table) = {}, NEW i \in Live(table), Whole(table, i), table[i].own \notin MaxLength,
           NEW r, r = Lookup(table, table[i].own)
    PROVE  r.found = i /\ (table[i].own \in WithLfn => r.lfn = i - Len(Text[table[i].own]))
<1> DEFINE m == table[i].own
           q == Query(m)
<1>1. TableShape /\ NoTwins /\ NamesKept /\ ShortNamesDiffer
  BY DEF IInv, NInv
<1>2. m \in Name /\ i \in Named(table)
  BY <1>1, EntryFacts DEF TableShape, Live, Named
<1>3. r.found # NoSlot /\ (m \in WithLfn /\ r.found = i => r.lfn = i - Len(Text[m]))
  BY <1>1, <1>2, NamedFound
<1>4. r = Find(table, q, TRUE)
  BY DEF Lookup
<1>5. /\ q.text = Text[m] /\ q.sfn = Sfn[m] /\ q.loss = (m \in Loss)
      /\ Len(q.text) \in Nat \ {0} /\ q.text = [k \in 1 .. Len(q.text) |-> q.text[k]]
  BY <1>2, QueryFacts
<1> HIDE DEF q
<1>6. r.found \in Live(table) /\ (ByLong(q, r.found, r.lfn) \/ ByShort(q, r.found, r.lfn))
  BY <1>1, <1>3, <1>4, <1>5, FindReason
<1>7. CASE ByLong(q, r.found, r.lfn)
  <2>1. LongName(r.found, table[r.found].own) /\ Text[table[r.found].own] = q.text
    BY <1>1, <1>5, <1>6, <1>7, LongNameFound
  <2>2. r.found = i
    BY <1>1, <1>5, <1>6, <2>1, LongNameDiffers
  <2> QED
    BY <1>3, <2>2
<1>8. CASE ByShort(q, r.found, r.lfn)
  <2>1. table[r.found].sfn = Sfn[m] /\ m \notin Loss
    BY <1>5, <1>8 DEF ByShort
  <2>2. r.found = i
    BY <1>1, <1>6, <2>1 DEF NamesKept, ShortNamesDiffer
  <2> QED
    BY <1>3, <2>2
<1> QED
  BY <1>6, <1>7, <1>8

LEMMA FoundAsShown ==
    ASSUME IInv, ~torn, NInv, Orphans(table) = {}, NEW i \in Live(table),
           NEW r, r = Find(table, ShownQuery(table, i), TRUE)
    PROVE  r.found = i
<1> DEFINE n == table[i].own
           s == Shown(table, i)
           q == ShownQuery(table, i)
<1>1. TableShape /\ NoTwins /\ NamesKept /\ ShortNamesDiffer
  BY DEF IInv, NInv
<1>2. n \in Name /\ table[i].sfn \in ShortNames
  BY <1>1, EntryFacts DEF TableShape, Live
<1>3. ~s.short => LongName(i, n) /\ n \notin MaxLength /\ s.text = Text[n]
  BY <1>1, ShownFacts
<1>4. q = IF s.short THEN Alias(table[i].sfn) ELSE [text |-> s.text, sfn |-> Sfn[n], loss |-> TRUE, full |-> FALSE]
  BY DEF ShownQuery
<1>5. r = Find(table, q, TRUE)
  OBVIOUS
<1> HIDE DEF q, s
<1>6. CASE ~s.short
  <2>1. /\ n \in WithLfn /\ RunOf(table, i, n) /\ Whole(table, i) /\ n \notin MaxLength
        /\ q.text = Text[n] /\ q.loss /\ ~q.full
    BY <1>3, <1>4, <1>6 DEF LongName, Whole
  <2>2. Len(q.text) \in Nat \ {0} /\ q.text = [k \in 1 .. Len(q.text) |-> q.text[k]]
    BY <1>2, <2>1, TextFacts
  <2> HIDE DEF n
  <2>3. r.found # NoSlot
    BY ONLY <1>1, <1>5, <2>1, FindRun, i \in Live(table), ~torn
  <2>4. r.found \in Live(table) /\ (ByLong(q, r.found, r.lfn) \/ ByShort(q, r.found, r.lfn))
    BY <1>1, <1>5, <2>2, <2>3, FindReason
  <2>5. ByLong(q, r.found, r.lfn)
    BY <2>1, <2>4 DEF ByShort
  <2>6. LongName(r.found, table[r.found].own) /\ Text[table[r.found].own] = q.text
    BY <1>1, <2>2, <2>4, <2>5, LongNameFound
  <2> QED
    BY <1>1, <2>1, <2>4, <2>6, LongNameDiffers DEF n
<1>7. CASE s.short
  <2> DEFINE c == table[i].sfn
  <2>1. q.text = <<c>> /\ q.sfn = c /\ ~q.loss
    BY <1>4, <1>7 DEF Alias
  <2>2. Len(q.text) \in Nat \ {0} /\ q.text = [k \in 1 .. Len(q.text) |-> q.text[k]]
    BY <2>1
  <2>3. r.found # NoSlot
    <3>1. r.found = NoSlot /\ ~q.loss => \A x \in Live(table) : table[x].sfn # q.sfn
      BY <1>1, <1>5, FindFacts
    <3> QED
      BY <2>1, <3>1
  <2>4. r.found \in Live(table) /\ (ByLong(q, r.found, r.lfn) \/ ByShort(q, r.found, r.lfn))
    BY <1>1, <1>5, <2>2, <2>3, FindReason
  <2> DEFINE j == r.found
             m == table[j].own
  <2>5. table[j].sfn = c
    <3>1. CASE ByLong(q, j, r.lfn)
      <4>1. Text[m] = <<c>> /\ m \in Name
        BY <1>1, <2>1, <2>2, <2>4, <3>1, LongNameFound, EntryFacts DEF TableShape, Live
      <4>2. m \notin Loss /\ Sfn[m] = c
        BY <1>2, <4>1, SpellingAssumption
      <4> QED
        BY <1>1, <2>4, <4>2 DEF NamesKept
    <3>2. CASE ByShort(q, j, r.lfn)
      BY <2>1, <3>2 DEF ByShort
    <3> QED
      BY <2>4, <3>1, <3>2
  <2> QED
    BY <1>1, <2>4, <2>5 DEF ShortNamesDiffer
<1> QED
  BY <1>6, <1>7

(***************************************************************************)
(* In a directory without orphans, and without a cluster that was not      *)
(* cleared (dir_next, ff.c:642), every object that is whole is found       *)
(* under its own name, with all its entries, and every object is found     *)
(* under the name dir_read shows: the entries that cmp_lfn has compared    *)
(* are the object's own (dir_find, ff.c:840), no two objects have names    *)
(* that cmp_lfn takes for equal, and a short name belongs to one object.   *)
(***************************************************************************)
THEOREM ObjectsAreFoundAgain == Spec => []FoundAgain
<1>1. IInv /\ (torn \/ NInv) => FoundAgain
  BY FoundByName, FoundAsShown DEF FoundAgain
<1> QED
  BY <1>1, NamesHold, PTL
=============================================================================
