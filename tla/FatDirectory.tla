---------------------------- MODULE FatDirectory ----------------------------
(***************************************************************************)
(* The entries of one directory table (ff.c: dir_find, dir_read,           *)
(* dir_register, dir_remove and the helpers for long names), used by       *)
(* f_open, f_mkdir, f_unlink and f_readdir.                                *)
(*                                                                         *)
(* An object has an entry with its short name, which may follow a run of   *)
(* entries with the segments of its long name, last segment first, tied to *)
(* it by a checksum.  What create_name and gen_numname make of a name is   *)
(* given by constants; letter case, which no comparison sees, is left out. *)
(* A call that changes the table runs one entry at a time, and may fail    *)
(* between two of them.                                                    *)
(***************************************************************************)
EXTENDS Integers, Sequences, FiniteSets

CONSTANTS
    Name,        \* the names callers use
    Text,        \* name -> its long name in segments of 13 characters
    Sfn,         \* name -> the short name create_name makes of it
    Loss,        \* names that do not fit a short name (NS_LOSS)
    WithLfn,     \* names that need long name entries (NS_LFN)
    MaxLength,   \* names of 255 characters
    Numbered,    \* lossy name -> the numbered short names gen_numname makes, in order
    Sum,         \* short name -> its checksum (sum_sfn)
    FirstSlots,  \* entries of the table as it is created
    Growth,      \* entries of a cluster, or 0 for the static root directory
    MaxSlots,    \* the volume has no cluster left to stretch the table beyond this
    Leftovers,   \* the entries of removed tables that a new cluster may still hold
    MaxErrors    \* bound on the failed transfers

ASSUME NamesAssumption ==
    /\ Loss \subseteq WithLfn /\ WithLfn \subseteq Name /\ MaxLength \subseteq Loss
    /\ DOMAIN Text = Name /\ DOMAIN Sfn = Name /\ DOMAIN Numbered = Loss

(* The short names that come about.                                        *)
ShortNames ==
    {Sfn[n] : n \in Name \ Loss} \cup UNION {{Numbered[n][k] : k \in DOMAIN Numbered[n]} : n \in Loss}

ASSUME TextAssumption ==
    \A n \in Name : Text[n] \in Seq({Text[n][k] : k \in DOMAIN Text[n]}) \ {<<>>}

(* What create_name makes of names that cmp_lfn takes for equal, being     *)
(* equal but for letter case, and of a name that is spelled like a short   *)
(* name.                                                                   *)
ASSUME CaseAssumption ==
    \A m, n \in Name : Text[m] = Text[n] =>
        /\ m \in MaxLength <=> n \in MaxLength
        /\ m \notin WithLfn => n \notin Loss /\ Sfn[n] = Sfn[m]
ASSUME SpellingAssumption ==
    \A n \in Name, s \in ShortNames : Text[n] = <<s>> => n \notin Loss /\ Sfn[n] = s

ASSUME SlotsAssumption ==
    FirstSlots \in Nat \ {0} /\ Growth \in Nat /\ MaxSlots \in Nat /\ FirstSlots <= MaxSlots
ASSUME ErrorsAssumption == MaxErrors \in Nat

Nobody == "nobody"
NoSlot == -1                \* 0xFFFF as dj->lfn_idx
NoOrd == -1                 \* 0xFF as ord
NoSum == -1                 \* 0xFF as sum before any long name entry

(* The entries.  full: the segments reach to the 255th character.  own is  *)
(* the name for which an entry was written; the code does not know it.     *)
End == [kind |-> "end"]                 \* first byte 0: end of table
Deleted == [kind |-> "deleted"]         \* first byte 0xE5
Other == [kind |-> "other"]             \* volume label, "." or ".."
Lfn(n, ord, sum) ==
    [kind |-> "lfn", ord |-> ord, last |-> ord = Len(Text[n]), seg |-> Text[n][ord],
     full |-> n \in MaxLength, sum |-> sum, own |-> n]
Short(n, sfn) == [kind |-> "sfn", sfn |-> sfn, own |-> n]

IsLfn(e) == \E n \in WithLfn : \E k \in 1 .. Len(Text[n]) : \E s \in ShortNames : e = Lfn(n, k, Sum[s])
IsShort(e) == \E n \in Name : \E s \in ShortNames : e = Short(n, s)
IsEntry(e) == e \in {End, Deleted, Other} \/ IsLfn(e) \/ IsShort(e)

ASSUME LeftoversAssumption ==
    \A l \in Leftovers : DOMAIN l = 1 .. Growth /\ \A k \in 1 .. Growth : IsEntry(l[k])

VARIABLES
    table,      \* index -> entry
    pc,         \* idle, reserve, lfn, sfn or delete
    name, sfn,  \* what is being registered, and under which short name
    idx, last,  \* dj->index, and the entry dir_remove stops at
    ord,        \* dir_register: the segment to be written next
    aliased,    \* an object with a long name was removed under its short name
    torn,       \* a cluster that was not cleared has become part of the table
    errs        \* failed transfers so far

vars == <<table, pc, name, sfn, idx, last, ord, aliased, torn, errs>>

Init ==
    /\ table = [i \in 0 .. (FirstSlots - 1) |-> IF i = 0 THEN Other ELSE End]
    /\ pc = "idle" /\ name = Nobody /\ sfn = Nobody
    /\ idx = 0 /\ last = 0 /\ ord = 0
    /\ aliased = FALSE /\ torn = FALSE /\ errs = 0

Size(t) == Cardinality(DOMAIN t)
Live(t) == {i \in DOMAIN t : t[i].kind = "sfn"}
LfnSlots(t) == {i \in DOMAIN t : t[i].kind = "lfn"}
Blank(t, i) == t[i].kind \in {"end", "deleted"}

-----------------------------------------------------------------------------
(* What a caller looks for: the long name in dj->lfn, the short name in    *)
(* dj->fn, and whether that is only an approximation.                      *)
Query(n) == [text |-> Text[n], sfn |-> Sfn[n], loss |-> n \in Loss, full |-> n \in MaxLength]
Alias(s) == [text |-> <<s>>, sfn |-> s, loss |-> FALSE, full |-> FALSE]

(* cmp_lfn.  A name of 255 characters never matches in its last segment,   *)
(* where the terminator lies outside of the buffer.                        *)
CmpSegment(q, e) == e.ord <= Len(q.text) /\ e.seg = q.text[e.ord]

CmpLfn(q, e) ==
    /\ CmpSegment(q, e)
    /\ e.last => e.ord = Len(q.text) /\ ~q.full

(* One turn of dir_find's loop on entry e at index i: st holds ord, sum    *)
(* and lfn_idx, and the index of the entry once it is found.               *)
Turn(q, withLfn, st, e, i) ==
    LET begun == IF e.last THEN [st EXCEPT !.ord = e.ord, !.sum = e.sum, !.lfn = i] ELSE st
        fits == e.ord = begun.ord /\ e.sum = begun.sum /\ CmpLfn(q, e)
    IN CASE e.kind \in {"deleted", "other"} -> [st EXCEPT !.ord = NoOrd]
         [] e.kind = "lfn" /\ ~withLfn -> st
         [] e.kind = "lfn" /\ withLfn -> [begun EXCEPT !.ord = IF fits THEN e.ord - 1 ELSE NoOrd]
         [] e.kind = "sfn" /\ st.ord = 0 /\ st.sum = Sum[e.sfn] -> [st EXCEPT !.found = i]
         [] OTHER -> [st EXCEPT !.ord = NoOrd, !.lfn = NoSlot,
                                !.found = IF ~q.loss /\ e.sfn = q.sfn THEN i ELSE NoSlot]

(* dir_find: the state after the entries below i; it stops at the entry    *)
(* found and at the end of the table.                                      *)
Start == [ord |-> NoOrd, sum |-> NoSum, lfn |-> NoSlot, found |-> NoSlot]

Find(t, q, withLfn) ==
    LET InUse == {i \in DOMAIN t : \A j \in 0 .. i : t[j].kind # "end"}
        st[i \in 0 .. Cardinality(InUse)] ==
          IF i = 0 THEN Start
          ELSE LET before == st[i - 1]
               IN IF before.found # NoSlot THEN before ELSE Turn(q, withLfn, before, t[i - 1], i - 1)
    IN st[Cardinality(InUse)]

Lookup(t, n) == Find(t, Query(n), TRUE)

(* A short name is looked for without the long name, and no longer as an   *)
(* approximation.                                                          *)
TakenLossy(t, s) == Find(t, [Alias(s) EXCEPT !.loss = TRUE], FALSE).found # NoSlot
Taken(t, s) == Find(t, Alias(s), FALSE).found # NoSlot

(* What dir_read and get_fileinfo show for the entry at i: pick_lfn        *)
(* collects the segments of the run before it, and fails on the last one   *)
(* of a name of 255 characters.                                            *)
PickLfn(e) == ~(e.last /\ e.full)

ReadTurn(st, e) ==
    LET begun == IF e.last THEN [st EXCEPT !.ord = e.ord, !.sum = e.sum, !.text = <<>>] ELSE st
        fits == e.ord = begun.ord /\ e.sum = begun.sum /\ PickLfn(e)
    IN CASE e.kind = "lfn" -> [begun EXCEPT !.ord = IF fits THEN e.ord - 1 ELSE NoOrd,
                                            !.text = <<e.seg>> \o @]
         [] OTHER -> [st EXCEPT !.ord = NoOrd]

Shown(t, i) ==
    LET st[k \in 0 .. i] ==
          IF k = 0 THEN [ord |-> NoOrd, sum |-> NoSum, text |-> <<>>] ELSE ReadTurn(st[k - 1], t[k - 1])
        here == st[i]
    IN IF here.ord = 0 /\ here.sum = Sum[t[i].sfn]
       THEN [text |-> here.text, short |-> FALSE]
       ELSE [text |-> <<t[i].sfn>>, short |-> TRUE]

-----------------------------------------------------------------------------
(* The call returns; its registers are dead.                               *)
Return ==
    /\ pc' = "idle" /\ name' = Nobody /\ sfn' = Nobody
    /\ idx' = 0 /\ last' = 0 /\ ord' = 0

(* f_mkdir, or f_open with FA_CREATE_ALWAYS, of name n.  If the object is  *)
(* there, or no numbered short name is free, the table stays as it is.     *)
(* Otherwise dir_register has a short name nobody has.                     *)
FreeShortNames(n) ==
    IF n \notin Loss THEN {Sfn[n]}
    ELSE LET free == {k \in DOMAIN Numbered[n] : ~Taken(table, Numbered[n][k])}
         IN {Numbered[n][k] : k \in {j \in free : \A l \in free : j <= l}}

Create ==
    /\ pc = "idle"
    /\ \E n \in Name :
          /\ Lookup(table, n).found = NoSlot
          /\ sfn' \in FreeShortNames(n)
          /\ name' = n
    /\ pc' = "reserve"
    /\ UNCHANGED <<table, idx, last, ord, aliased, torn, errs>>

(* The first run of blank entries that is long enough, ...                 *)
Need == IF name \in WithLfn THEN Len(Text[name]) + 1 ELSE 1

BlankFrom(i) ==
    Blank(table, i) /\ Cardinality({j \in DOMAIN table : j >= i /\ Blank(table, j)}) >= Need

RunAt(i) == i + Need <= Size(table) /\ \A j \in i .. (i + Need - 1) : Blank(table, j)

Reserve ==
    /\ pc = "reserve"
    /\ \E i \in DOMAIN table :
          /\ RunAt(i) /\ \A j \in 0 .. (i - 1) : ~RunAt(j)
          /\ idx' = i
    /\ IF Need > 1 THEN pc' = "lfn" /\ ord' = Need - 1
                   ELSE pc' = "sfn" /\ UNCHANGED ord
    /\ UNCHANGED <<table, name, sfn, last, aliased, torn, errs>>

(* ... for which the table may have to be stretched by a cleared cluster,  *)
(* or which is not to be had.  A blank entry behind the end of the table   *)
(* is as good as any.                                                      *)
NoRun == \A i \in DOMAIN table : ~RunAt(i)

Stretchable == pc = "reserve" /\ NoRun /\ Growth > 0 /\ Size(table) + Growth <= MaxSlots
Longer(new) ==
    [i \in 0 .. (Size(table) + Growth - 1) |->
        IF i \in DOMAIN table THEN table[i] ELSE new[i - Size(table) + 1]]
PartlyCleared(old, n) == [k \in 1 .. Growth |-> IF k <= n THEN End ELSE old[k]]

Stretch ==
    /\ Stretchable
    /\ table' = Longer([k \in 1 .. Growth |-> End])
    /\ UNCHANGED <<pc, name, sfn, idx, last, ord, aliased, torn, errs>>

TableFull ==
    /\ pc = "reserve" /\ NoRun
    /\ Growth = 0 \/ Size(table) + Growth > MaxSlots
    /\ Return
    /\ UNCHANGED <<table, aliased, torn, errs>>

(* The segments of the long name, last one first, then the short name.     *)
RegisterLfn ==
    /\ pc = "lfn"
    /\ table' = [table EXCEPT ![idx] = Lfn(name, ord, Sum[sfn])]
    /\ idx' = idx + 1 /\ ord' = ord - 1
    /\ pc' = IF ord = 1 THEN "sfn" ELSE "lfn"
    /\ UNCHANGED <<name, sfn, last, aliased, torn, errs>>

RegisterSfn ==
    /\ pc = "sfn"
    /\ table' = [table EXCEPT ![idx] = Short(name, sfn)]
    /\ Return
    /\ UNCHANGED <<aliased, torn, errs>>

(* f_unlink of the object found as n: its entries are marked deleted, from *)
(* the start of the long name dir_find has matched, or from the short name *)
(* when it was found by that.                                              *)
FromShort(r) == r.found
FromStart(r) == IF r.lfn = NoSlot THEN r.found ELSE r.lfn

Unlink ==
    /\ pc = "idle"
    /\ \E n \in Name :
          LET r == Lookup(table, n)
          IN /\ r.found # NoSlot
             /\ idx' = FromStart(r) /\ last' = r.found
             /\ aliased' = (aliased \/ (r.lfn = NoSlot /\ table[r.found].own \in WithLfn))
    /\ pc' = "delete"
    /\ UNCHANGED <<table, name, sfn, ord, torn, errs>>

Remove ==
    /\ pc = "delete"
    /\ table' = [table EXCEPT ![idx] = Deleted]
    /\ IF idx >= last THEN Return
                      ELSE idx' = idx + 1 /\ UNCHANGED <<pc, name, sfn, last, ord>>
    /\ UNCHANGED <<aliased, torn, errs>>

Fault == errs < MaxErrors /\ errs' = errs + 1

(* The cluster is linked, but cannot be cleared, or not all of it: what is *)
(* left of it shows through.                                               *)
StretchFails ==
    /\ Stretchable /\ Fault
    /\ \E old \in Leftovers, n \in 0 .. (Growth - 1) : table' = Longer(PartlyCleared(old, n))
    /\ torn' = TRUE
    /\ Return
    /\ UNCHANGED aliased

(* A sector of the table, or of the FAT before the cluster is linked,      *)
(* cannot be read or written: the call returns.                            *)
Fails ==
    /\ pc # "idle" /\ Fault
    /\ Return
    /\ UNCHANGED <<table, aliased, torn>>

Next ==
    \/ Create \/ Reserve \/ Stretch \/ TableFull
    \/ RegisterLfn \/ RegisterSfn
    \/ Unlink \/ Remove
    \/ StretchFails \/ Fails

Spec == Init /\ [][Next]_vars

-----------------------------------------------------------------------------
(* The run of long name entries of n, complete and with the checksum of    *)
(* the short name at i, stands right before i.                             *)
RunOf(t, i, n) ==
    LET len == Len(Text[n])
    IN /\ i >= len
       /\ \A k \in 1 .. len : t[i - k] = Lfn(n, k, Sum[t[i].sfn])

Whole(t, i) == t[i].own \in WithLfn => RunOf(t, i, t[i].own)

(* Long name entries that belong to no object.                             *)
Orphans(t) ==
    {j \in LfnSlots(t) : ~\E i \in Live(t) :
        /\ t[i].own = t[j].own /\ i = j + t[j].ord
        /\ Whole(t, i)}

(* No two objects of a directory have the same short name, whatever fails  *)
(* and whatever was removed in between (dir_register, ff.c:976), unless    *)
(* the table has taken in a cluster that was not cleared (dir_next,        *)
(* ff.c:637 to 642): its old entries may have any name.                    *)
ShortNamesDiffer ==
    ~torn => \A i, j \in Live(table) : i # j => table[i].sfn # table[j].sfn

(* dir_register and dir_remove (ff.c:957, 1062) leave the entries of every *)
(* object alone but the one they register or remove: of the objects that   *)
(* are whole at most the one being removed stops being so.  This includes  *)
(* the old entries of a cluster that was not cleared.                      *)
OthersKept ==
    [][\A i \in Live(table) :
          Whole(table, i) /\ ~(pc = "delete" /\ i = last)
              => i \in DOMAIN table' /\ table'[i] = table[i] /\ Whole(table', i)]_vars

(* dir_register leaves no part of a name behind and dir_remove takes all   *)
(* entries of an object (ff.c:1084), unless a transfer failed or an object *)
(* was removed under its short name (ff.c:879).                            *)
NoOrphans ==
    pc = "idle" => Orphans(table) = {} \/ errs > 0 \/ aliased

(* What a caller looks for who uses the name dir_read has shown.           *)
ShownQuery(t, i) ==
    LET s == Shown(t, i)
    IN IF s.short THEN Alias(t[i].sfn)
       ELSE [text |-> s.text, sfn |-> Sfn[t[i].own], loss |-> TRUE, full |-> FALSE]

(* Every object is found under the name it was registered for, with all    *)
(* its entries, and is shown by dir_read under a name that finds it again: *)
(* rebuild opens files by the names it was shown.  Excepted are names of   *)
(* 255 characters (ff.c:689), directories with orphans, which may give     *)
(* their name to another object, and tables with a cluster that was not    *)
(* cleared (ff.c:642): an old entry may come before an object or repeat    *)
(* its name, and what follows a cleared sector is not seen.                *)
FoundAgain ==
    pc = "idle" /\ ~torn /\ Orphans(table) = {} =>
        \A i \in Live(table) :
            /\ Whole(table, i) /\ table[i].own \notin MaxLength =>
                  LET r == Lookup(table, table[i].own)
                  IN /\ r.found = i
                     /\ table[i].own \in WithLfn => r.lfn = i - Len(Text[table[i].own])
            /\ Find(table, ShownQuery(table, i), TRUE).found = i
=============================================================================
