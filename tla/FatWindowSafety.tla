-------------------------- MODULE FatWindowSafety --------------------------
(***************************************************************************)
(* Proofs of the properties of FatWindow that say what an image is like on *)
(* which the program has stopped: CrashSafe, TablesCleared, MirrorsAgree.  *)
(*                                                                         *)
(* The argument compares two volumes: the one on the image and the one the *)
(* calls have made so far, Latest, which differs from it in the dirty      *)
(* window only.  Both are sound at every moment.  A call keeps Latest      *)
(* sound by the order of its modifications, and the image becomes Latest   *)
(* whenever the window is written.                                         *)
(***************************************************************************)
EXTENDS FatWindowProofs, FiniteSetTheorems

(* The volume with every modification made so far, and without what a      *)
(* failed read has left in the window.                                     *)
Latest == [s \in Sectors |-> IF wflag /\ s = winsect THEN win ELSE image[s]]

(* u is v with x in the sector s.                                          *)
IsWith(u, v, s, x) == v \in [Sectors -> Contents] /\ u = [v EXCEPT ![s] = x]

(* What is named is allocated, and named once.                             *)
Allocated(v) == Named(v) \subseteq Used(v)

NamedOnce(v) ==
    /\ \A c \in Clusters : \A s, t \in Sectors : c \in NameIn(v, s) /\ c \in NameIn(v, t) => s = t
    /\ \A c \in Clusters : \A s \in Sectors \ FatSecs : ~(c \in v[s] /\ -c \in v[s])

(* The table of a directory, and a table that has grown, hold no file      *)
(* data; the second does so only if it is not in the set e of excuses.     *)
HasEntry(v, c) == \E s \in Sectors \ FatSecs : -c \in v[s]
IsLinked(v, c) == \E s \in FatSecs : -c \in v[s]
Clear(v, c) == \A s \in SectorsOf(c) : Junk \notin v[s]

EntriesClear(v) == \A c \in Clusters : HasEntry(v, c) => Clear(v, c)
LinksClear(v, e) == \A c \in Clusters \ e : IsLinked(v, c) => Clear(v, c)

Sound(v, e) == Allocated(v) /\ NamedOnce(v) /\ EntriesClear(v) /\ LinksClear(v, e)

(* The cluster by which a table grows is linked before it is cleared, and  *)
(* may stay so when the call does not come to its end.                     *)
Excused ==
    {c \in Clusters : stops + errs > 0 \/ (call = "grow" /\ c = clst /\ pc \in {"flush", "fill"})}

(* Links are never taken back.                                             *)
LinksKept == \A c \in Clusters : IsLinked(image, c) => IsLinked(Latest, c)

(* What the registers of a call hold.                                      *)
Allocating == pc \in {"link", "flush", "fill", "direct"} \/ (pc = "entry" /\ clst # 0)
Unlinked == \/ pc \in {"link", "direct", "give"}
            \/ pc \in {"flush", "fill"} /\ call = "mkdir"
            \/ pc = "entry" /\ clst # 0

Registers ==
    /\ Allocating => clst \in Used(Latest)
    /\ Unlinked => clst \notin Named(Latest)
    /\ pc = "fill" => \A k \in 0 .. fill : Junk \notin Latest[<<clst, k>>]
    /\ pc = "entry" /\ call = "mkdir" => Clear(Latest, clst)
    /\ pc = "unname" => clst \in NameIn(Latest, want) \/ (stale /\ winsect = want)

(* The control of a call, whatever has been lost.                          *)
StepShape ==
    /\ errs \in Nat
    /\ wflag => ~stale
    /\ mw \in {"mirror", "read"} => winsect # want
    /\ mw = "failed" => errs > 0
    /\ pc \in {"flush", "fill"} => call \in {"mkdir", "grow"}
    /\ pc = "link" => call = "grow"
    /\ pc = "direct" => call = "write"
    /\ pc \in {"take", "link", "flush", "fill", "direct", "entry"} => tab \notin FatSecs
    /\ pc \in {"entry", "unname"} => want \notin FatSecs
    /\ pc \in {"idle", "look", "take"} => clst = 0
    /\ pc = "link" => want \in FatSecs
    /\ pc = "fill" => win \subseteq {Dots} /\ winsect = <<clst, fill>>
    /\ pc = "give" => want = FatOf(clst)

SoundVolumes == Sound(Latest, Excused) /\ Sound(image, Excused) /\ LinksKept

CrashInv == StepShape /\ (lost \/ (SoundVolumes /\ Registers))

-----------------------------------------------------------------------------
(* Marks and sectors.                                                      *)
LEMMA MarkFacts ==
    ASSUME NEW c \in Clusters, NEW d \in Clusters
    PROVE  /\ c \in Nat /\ -c \in Int /\ c # -d
           /\ -c = -d => c = d
           /\ c # Dots /\ -c # Dots /\ c # Junk /\ -c # Junk
  BY SizesAssumption DEF Clusters, Dots, Junk

LEMMA NameFacts ==
    ASSUME NEW v, NEW c \in Clusters
    PROVE  /\ \A s : c \in NameIn(v, s) <=> -c \in v[s] \/ (s \notin FatSecs /\ c \in v[s])
           /\ c \in Named(v) <=> \E s \in Sectors : c \in NameIn(v, s)
           /\ c \in Used(v) <=> c \in v[FatOf(c)]
  BY DEF NameIn, Named, Used

LEMMA UsedKept ==
    ASSUME NEW v, NEW u, \A t \in FatSecs : u[t] = v[t]
    PROVE  \A d \in Clusters : d \in Used(u) <=> d \in Used(v)
  BY FatSectors DEF Used

LEMMA SectorsOfCluster ==
    ASSUME NEW c \in Clusters, NEW s \in SectorsOf(c)
    PROVE  /\ s \in Sectors \ FatSecs
           /\ \A d \in Clusters : s \in SectorsOf(d) => d = c
           /\ \E k \in 0 .. (CSize - 1) : s = <<c, k>>
<1>1. PICK k \in 0 .. (CSize - 1) : s = <<c, k>>
  BY DEF SectorsOf
<1>2. s \in Sectors \ FatSecs
  BY <1>1, ClusterSectors, SizesAssumption
<1>3. ASSUME NEW d \in Clusters, s \in SectorsOf(d) PROVE d = c
  BY <1>1, <1>3 DEF SectorsOf
<1> QED
  BY <1>1, <1>2, <1>3

-----------------------------------------------------------------------------
(* What the modifications of the calls do to a sound volume.               *)
LEMMA SoundWithMoreExcuses ==
    ASSUME NEW v, NEW e, NEW f, Sound(v, e), \A c \in Clusters : c \in e => c \in f
    PROVE  Sound(v, f)
  BY DEF Sound, LinksClear

LEMMA SoundWhenCleared ==
    ASSUME NEW v, NEW e, NEW f, NEW c, Sound(v, e), Clear(v, c),
           \A d \in Clusters : d \in e => d \in f \/ d = c
    PROVE  Sound(v, f)
  BY DEF Sound, LinksClear

LEMMA TakeIsSound ==
    ASSUME NEW v, NEW e, Sound(v, e),
           NEW c \in Clusters, c \notin v[FatOf(c)],
           NEW u, IsWith(u, v, FatOf(c), v[FatOf(c)] \cup {c})
    PROVE  Sound(u, e) /\ c \in Used(u) /\ c \notin Named(u)
           /\ \A d \in Clusters : IsLinked(v, d) => IsLinked(u, d)
<1> USE DEF IsWith
<1>1. FatOf(c) \in FatSecs /\ FatOf(c) \in Sectors
  BY FatSectors
<1>2. \A s \in Sectors : u[s] = IF s = FatOf(c) THEN v[s] \cup {c} ELSE v[s]
  BY <1>1
<1>3. \A d \in Clusters : \A s \in Sectors : d \in NameIn(u, s) <=> d \in NameIn(v, s)
  <2> SUFFICES ASSUME NEW d \in Clusters, NEW s \in Sectors
               PROVE  d \in NameIn(u, s) <=> d \in NameIn(v, s)
    OBVIOUS
  <2>1. d \in NameIn(u, s) <=> -d \in u[s] \/ (s \notin FatSecs /\ d \in u[s])
    BY NameFacts
  <2>2. d \in NameIn(v, s) <=> -d \in v[s] \/ (s \notin FatSecs /\ d \in v[s])
    BY NameFacts
  <2> QED
    BY <1>1, <1>2, <2>1, <2>2, MarkFacts
<1>4. \A d \in Clusters : d \in Named(u) <=> d \in Named(v)
  BY <1>3, NameFacts
<1>5. \A d \in Clusters : d \in Used(v) => d \in Used(u)
  BY <1>2, NameFacts, FatSectors
<1>6. c \in Used(u) /\ c \notin Named(v)
  BY <1>1, <1>2, NameFacts DEF Sound, Allocated
<1>7. \A d \in Clusters : \A s \in Sectors \ FatSecs : u[s] = v[s]
  BY <1>1, <1>2
<1>8. \A d \in Clusters : IsLinked(u, d) <=> IsLinked(v, d)
  BY <1>2, MarkFacts, FatSectorsAreSectors DEF IsLinked
<1>9. \A d \in Clusters : Clear(u, d) <=> Clear(v, d)
  BY <1>7, SectorsOfCluster DEF Clear
<1>10. Allocated(u)
  BY <1>4, <1>5 DEF Sound, Allocated, Named, NameIn
<1>11. NamedOnce(u)
  BY <1>3, <1>7 DEF Sound, NamedOnce
<1>12. EntriesClear(u) /\ LinksClear(u, e)
  BY <1>7, <1>8, <1>9 DEF Sound, EntriesClear, LinksClear, HasEntry
<1> QED
  BY <1>4, <1>6, <1>8, <1>10, <1>11, <1>12 DEF Sound

(* A cluster that nothing names gets a name: a link, or an entry.          *)
LEMMA NamingKeepsAllocated ==
    ASSUME NEW v, NEW e, Sound(v, e),
           NEW c \in Clusters, c \in Used(v), c \notin Named(v),
           NEW s \in Sectors, NEW m \in {c, -c}, s \in FatSecs => m = -c,
           NEW u, IsWith(u, v, s, v[s] \cup {m})
    PROVE  Allocated(u) /\ NamedOnce(u)
<1> USE DEF IsWith
<1>1. \A t \in Sectors : u[t] = IF t = s THEN v[t] \cup {m} ELSE v[t]
  OBVIOUS
<1>2. \A d \in Clusters : \A t \in Sectors :
          d \in NameIn(u, t) => d \in NameIn(v, t) \/ (d = c /\ t = s)
  <2> SUFFICES ASSUME NEW d \in Clusters, NEW t \in Sectors, d \in NameIn(u, t)
               PROVE  d \in NameIn(v, t) \/ (d = c /\ t = s)
    OBVIOUS
  <2>1. -d \in u[t] \/ (t \notin FatSecs /\ d \in u[t])
    BY NameFacts
  <2> QED
    BY <1>1, <2>1, MarkFacts, NameFacts
<1>3. \A d \in Clusters : d \in Used(v) => d \in Used(u)
  BY <1>1, NameFacts, FatSectors
<1>4. Allocated(u)
  <2> SUFFICES ASSUME NEW d \in Clusters, d \in Named(u) PROVE d \in Used(u)
    BY DEF Allocated, Named, NameIn
  <2>1. PICK t \in Sectors : d \in NameIn(u, t)
    BY NameFacts
  <2>2. d \in Named(v) \/ d = c
    BY <1>2, <2>1, NameFacts
  <2> QED
    BY <1>3, <2>2 DEF Sound, Allocated
<1>5. NamedOnce(u)
  <2>1. ASSUME NEW d \in Clusters, NEW t \in Sectors, NEW r \in Sectors,
               d \in NameIn(u, t), d \in NameIn(u, r)
        PROVE  t = r
    <3>1. CASE d = c
      <4>1. \A q \in Sectors : c \notin NameIn(v, q)
        BY NameFacts
      <4> QED
        BY <1>2, <2>1, <3>1, <4>1
    <3>2. CASE d # c
      BY <1>2, <2>1, <3>2 DEF Sound, NamedOnce
    <3> QED
      BY <3>1, <3>2
  <2>2. ASSUME NEW d \in Clusters, NEW t \in Sectors \ FatSecs, d \in u[t], -d \in u[t]
        PROVE  FALSE
    <3>1. CASE d = c /\ t = s
      <4>1. c \notin v[s] /\ -c \notin v[s]
        BY <2>2, <3>1, NameFacts
      <4> QED
        BY <1>1, <2>2, <3>1, <4>1, MarkFacts
    <3>2. CASE ~(d = c /\ t = s)
      <4>1. d \in v[t] /\ -d \in v[t]
        BY <1>1, <2>2, <3>2, MarkFacts
      <4> QED
        BY <4>1 DEF Sound, NamedOnce
    <3> QED
      BY <3>1, <3>2
  <2> QED
    BY <2>1, <2>2 DEF NamedOnce
<1> QED
  BY <1>4, <1>5

LEMMA LinkIsSound ==
    ASSUME NEW v, NEW e, Sound(v, e),
           NEW c \in Clusters, c \in Used(v), c \notin Named(v),
           NEW s \in FatSecs, NEW f, \A d \in Clusters : d \in e \/ d = c => d \in f,
           NEW u, IsWith(u, v, s, v[s] \cup {-c})
    PROVE  Sound(u, f) /\ c \in Used(u)
           /\ \A d \in Clusters : IsLinked(v, d) => IsLinked(u, d)
<1> USE DEF IsWith
<1>1. s \in Sectors
  BY FatSectorsAreSectors
<1>2. \A t \in Sectors : u[t] = IF t = s THEN v[t] \cup {-c} ELSE v[t]
  BY <1>1
<1>3. Allocated(u) /\ NamedOnce(u)
  BY <1>1, NamingKeepsAllocated
<1>4. \A t \in Sectors \ FatSecs : u[t] = v[t]
  BY <1>2
<1>5. \A d \in Clusters : Clear(u, d) <=> Clear(v, d)
  BY <1>4, SectorsOfCluster DEF Clear
<1>6. EntriesClear(u)
  BY <1>4, <1>5 DEF Sound, EntriesClear, HasEntry
<1>7. \A d \in Clusters : d # c => (IsLinked(u, d) => IsLinked(v, d))
  BY <1>2, MarkFacts, FatSectorsAreSectors DEF IsLinked
<1>8. LinksClear(u, f)
  BY <1>5, <1>7 DEF Sound, LinksClear
<1>9. c \in Used(u)
  BY <1>2, NameFacts, FatSectors
<1>10. \A d \in Clusters : IsLinked(v, d) => IsLinked(u, d)
  BY <1>2, FatSectorsAreSectors DEF IsLinked
<1> QED
  BY <1>3, <1>6, <1>8, <1>9, <1>10 DEF Sound

LEMMA EntryIsSound ==
    ASSUME NEW v, NEW e, Sound(v, e),
           NEW c \in Clusters, c \in Used(v), c \notin Named(v),
           NEW s \in Sectors \ FatSecs, NEW m \in {c, -c}, m = -c => Clear(v, c),
           NEW u, IsWith(u, v, s, v[s] \cup {m})
    PROVE  Sound(u, e) /\ \A d \in Clusters : IsLinked(v, d) => IsLinked(u, d)
<1> USE DEF IsWith
<1>1. \A t \in Sectors : u[t] = IF t = s THEN v[t] \cup {m} ELSE v[t]
  OBVIOUS
<1>2. Allocated(u) /\ NamedOnce(u)
  BY NamingKeepsAllocated
<1>3. \A d \in Clusters : Clear(u, d) <=> Clear(v, d)
  <2>1. \A t \in Sectors : Junk \in u[t] <=> Junk \in v[t]
    BY <1>1, MarkFacts
  <2> QED
    BY <2>1, SectorsOfCluster DEF Clear
<1>4. \A d \in Clusters : HasEntry(u, d) => HasEntry(v, d) \/ (d = c /\ m = -c)
  BY <1>1, MarkFacts DEF HasEntry
<1>5. EntriesClear(u)
  BY <1>3, <1>4 DEF Sound, EntriesClear
<1>6. \A d \in Clusters : IsLinked(u, d) <=> IsLinked(v, d)
  BY <1>1, FatSectorsAreSectors DEF IsLinked
<1>7. LinksClear(u, e)
  BY <1>3, <1>6 DEF Sound, LinksClear
<1> QED
  BY <1>2, <1>5, <1>6, <1>7 DEF Sound

(* Names and uses only become fewer, and no file data comes in.            *)
LEMMA RemovalIsSound ==
    ASSUME NEW v, NEW e, Sound(v, e), NEW u,
           \A d \in Clusters : d \in Named(u) => d \in Used(u),
           \A d \in Clusters : \A t \in Sectors :
               /\ d \in u[t] => d \in v[t]
               /\ -d \in u[t] => -d \in v[t],
           \A t \in Sectors : Junk \in u[t] => Junk \in v[t]
    PROVE  Sound(u, e)
<1>1. \A d \in Clusters : \A t \in Sectors : d \in NameIn(u, t) => d \in NameIn(v, t)
  BY NameFacts
<1>2. Allocated(u)
  BY DEF Allocated, Named, NameIn
<1>3. NamedOnce(u)
  BY <1>1 DEF Sound, NamedOnce
<1>4. \A d \in Clusters : Clear(v, d) => Clear(u, d)
  BY SectorsOfCluster DEF Clear
<1>5. EntriesClear(u)
  BY <1>4 DEF Sound, EntriesClear, HasEntry
<1>6. LinksClear(u, e)
  BY <1>4, FatSectorsAreSectors DEF Sound, LinksClear, IsLinked
<1> QED
  BY <1>2, <1>3, <1>5, <1>6 DEF Sound

LEMMA UnnameIsSound ==
    ASSUME NEW v, NEW e, Sound(v, e),
           NEW s \in Sectors \ FatSecs, NEW c \in Clusters, c \in NameIn(v, s),
           NEW u, IsWith(u, v, s, v[s] \ {c, -c})
    PROVE  Sound(u, e) /\ c \notin Named(u)
           /\ \A d \in Clusters : IsLinked(v, d) => IsLinked(u, d)
<1> USE DEF IsWith
<1>1. \A t \in Sectors : u[t] = IF t = s THEN v[t] \ {c, -c} ELSE v[t]
  OBVIOUS
<1>2. \A d \in Clusters : \A t \in Sectors : d \in NameIn(u, t) => d \in NameIn(v, t)
  BY <1>1, NameFacts
<1>3. \A d \in Clusters : d \in Used(u) <=> d \in Used(v)
  <2>1. \A t \in FatSecs : u[t] = v[t]
    BY <1>1, FatSectorsAreSectors
  <2> QED
    BY <2>1, UsedKept
<1>4. \A d \in Clusters : d \in Named(u) => d \in Used(u)
  <2> SUFFICES ASSUME NEW d \in Clusters, d \in Named(u) PROVE d \in Used(u)
    OBVIOUS
  <2>1. d \in Named(v)
    BY <1>2, NameFacts
  <2> QED
    BY <1>3, <2>1 DEF Sound, Allocated
<1>5. Sound(u, e)
  BY <1>1, <1>4, RemovalIsSound
<1>6. c \notin Named(u)
  <2> SUFFICES ASSUME NEW t \in Sectors, c \in NameIn(u, t) PROVE FALSE
    BY NameFacts
  <2>1. t = s
    BY <1>2 DEF Sound, NamedOnce
  <2> QED
    BY <1>1, <2>1, NameFacts
<1>7. \A d \in Clusters : IsLinked(v, d) => IsLinked(u, d)
  BY <1>1, FatSectorsAreSectors DEF IsLinked
<1> QED
  BY <1>5, <1>6, <1>7

LEMMA ReleaseIsSound ==
    ASSUME NEW v, NEW e, Sound(v, e),
           NEW c \in Clusters, c \notin Named(v),
           NEW u, IsWith(u, v, FatOf(c), v[FatOf(c)] \ {c})
    PROVE  Sound(u, e) /\ \A d \in Clusters : IsLinked(v, d) => IsLinked(u, d)
<1> USE DEF IsWith
<1>1. FatOf(c) \in FatSecs /\ FatOf(c) \in Sectors
  BY FatSectors
<1>2. \A t \in Sectors : u[t] = IF t = FatOf(c) THEN v[t] \ {c} ELSE v[t]
  BY <1>1
<1>3. \A d \in Clusters : \A t \in Sectors : d \in NameIn(u, t) => d \in NameIn(v, t)
  BY <1>2, NameFacts
<1>4. \A d \in Clusters : d # c => (d \in Used(v) => d \in Used(u))
  BY <1>2, NameFacts, FatSectors
<1>5. \A d \in Clusters : d \in Named(u) => d \in Used(u)
  <2> SUFFICES ASSUME NEW d \in Clusters, d \in Named(u) PROVE d \in Used(u)
    OBVIOUS
  <2>1. d \in Named(v)
    BY <1>3, NameFacts
  <2> QED
    BY <1>4, <2>1 DEF Sound, Allocated
<1>6. Sound(u, e)
  BY <1>2, <1>5, RemovalIsSound
<1>7. \A d \in Clusters : IsLinked(v, d) => IsLinked(u, d)
  BY <1>2, MarkFacts, FatSectorsAreSectors DEF IsLinked
<1> QED
  BY <1>6, <1>7

(* A sector of a cluster is filled, with no names in it.                   *)
LEMMA NoNamesInFill ==
    ASSUME NEW v, NEW e, Sound(v, e),
           NEW s \in Sectors \ FatSecs, NEW x, x \subseteq {Dots, Junk},
           NEW u, IsWith(u, v, s, x)
    PROVE  /\ \A d \in Clusters : d \in Named(u) => d \in Named(v) /\ d \in Used(u)
           /\ \A d \in Clusters : \A t \in Sectors :
                 /\ d \in u[t] => d \in v[t]
                 /\ -d \in u[t] => -d \in v[t]
           /\ \A d \in Clusters : d \in Used(u) <=> d \in Used(v)
           /\ \A d \in Clusters : IsLinked(v, d) => IsLinked(u, d)
<1> USE DEF IsWith
<1>1. \A t \in Sectors : u[t] = IF t = s THEN x ELSE v[t]
  OBVIOUS
<1>2. \A d \in Clusters : d \notin x /\ -d \notin x
  BY MarkFacts
<1>3. \A d \in Clusters : \A t \in Sectors :
          /\ d \in u[t] => d \in v[t]
          /\ -d \in u[t] => -d \in v[t]
  BY <1>1, <1>2
<1>4. \A d \in Clusters : d \in Used(u) <=> d \in Used(v)
  <2>1. \A t \in FatSecs : u[t] = v[t]
    BY <1>1, FatSectorsAreSectors
  <2> QED
    BY <2>1, UsedKept
<1>5. \A d \in Clusters : d \in Named(u) => d \in Named(v)
  BY <1>3, NameFacts
<1>6. \A d \in Clusters : IsLinked(v, d) => IsLinked(u, d)
  BY <1>1, FatSectorsAreSectors DEF IsLinked
<1> QED
  BY <1>3, <1>4, <1>5, <1>6 DEF Sound, Allocated

LEMMA FillIsSound ==
    ASSUME NEW v, NEW e, Sound(v, e),
           NEW s \in Sectors \ FatSecs, NEW x, x \subseteq {Dots},
           NEW u, IsWith(u, v, s, x)
    PROVE  Sound(u, e)
<1> USE DEF IsWith
<1>1. \A t \in Sectors : Junk \in u[t] => Junk \in v[t]
  BY DEF Dots, Junk
<1> QED
  BY <1>1, NoNamesInFill, RemovalIsSound

LEMMA FileDataIsSound ==
    ASSUME NEW v, NEW e, Sound(v, e),
           NEW c \in Clusters, ~IsLinked(v, c), ~HasEntry(v, c), NEW s \in SectorsOf(c),
           NEW u, IsWith(u, v, s, {Junk})
    PROVE  Sound(u, e)
<1> USE DEF IsWith
<1>1. s \in Sectors \ FatSecs
  BY SectorsOfCluster
<1>2. \A d \in Clusters : d \in Named(u) => d \in Used(u)
  BY <1>1, NoNamesInFill
<1>3. \A d \in Clusters : \A t \in Sectors : d \in NameIn(u, t) => d \in NameIn(v, t)
  BY <1>1, NoNamesInFill, NameFacts
<1>4. \A d \in Clusters : d # c => (Clear(v, d) => Clear(u, d))
  <2> SUFFICES ASSUME NEW d \in Clusters, d # c, NEW t \in SectorsOf(d)
               PROVE  u[t] = v[t]
    BY DEF Clear
  <2>1. t # s /\ t \in Sectors
    BY SectorsOfCluster
  <2> QED
    BY <2>1
<1>5. \A d \in Clusters : (HasEntry(u, d) => HasEntry(v, d)) /\ (IsLinked(u, d) => IsLinked(v, d))
  BY <1>1, NoNamesInFill, FatSectorsAreSectors DEF HasEntry, IsLinked
<1>6. Allocated(u)
  BY <1>2 DEF Allocated, Named, NameIn
<1>7. NamedOnce(u)
  BY <1>1, <1>3, NoNamesInFill DEF Sound, NamedOnce
<1>8. EntriesClear(u) /\ LinksClear(u, e)
  BY <1>4, <1>5 DEF Sound, EntriesClear, LinksClear
<1> QED
  BY <1>6, <1>7, <1>8 DEF Sound

-----------------------------------------------------------------------------
(* Latest.                                                                 *)
LEMMA LatestFacts ==
    ASSUME IInv
    PROVE  /\ Latest \in [Sectors -> Contents]
           /\ \A s \in Sectors : Latest[s] = IF wflag /\ s = winsect THEN win ELSE image[s]
           /\ ~wflag => Latest = image
  BY DEF Latest, IInv, TypeOK

LEMMA LatestNext ==
    /\ \A s \in Sectors : Latest'[s] = IF wflag' /\ s = winsect' THEN win' ELSE image'[s]
    /\ DOMAIN Latest' = Sectors /\ Latest' = [s \in Sectors |-> Latest'[s]]
  BY DEF Latest

LEMMA ModifiedLatest ==
    ASSUME IInv, StepShape, NEW p, At(p), want \in Sectors, NEW x \in Contents, Modify(x),
           image' = image, ~lost'
    PROVE  /\ ~lost /\ ~stale /\ winsect = want /\ Latest[want] = win
           /\ IsWith(Latest', Latest, want, x)
<1>1. ~lost /\ ~stale
  BY DEF Modify
<1>2. winsect = want
  BY NoSecIsNoSector DEF At, IInv, MoveShape
<1>3. Latest[want] = win
  BY <1>1, <1>2, LatestFacts DEF IInv, WindowShape
<1>4. \A s \in Sectors : Latest'[s] = IF s = want THEN x ELSE Latest[s]
  BY <1>2, LatestFacts, LatestNext DEF Modify
<1>5. IsWith(Latest', Latest, want, x)
  BY <1>4, LatestFacts, LatestNext DEF IsWith
<1> QED
  BY <1>1, <1>2, <1>3, <1>5

LEMMA UnchangedLatest ==
    ASSUME UNCHANGED <<image, winsect, win, wflag>> PROVE Latest' = Latest
  BY DEF Latest

LEMMA ExcusesGrow ==
    ASSUME NEW a \in Nat, NEW b \in Nat, NEW d \in Nat, d >= b, a + b > 0 \/ d > 0
    PROVE  a + d > 0
  OBVIOUS

LEMMA ExcusedFacts ==
    /\ \A c \in Clusters : c \in Excused <=>
           stops + errs > 0 \/ (call = "grow" /\ c = clst /\ pc \in {"flush", "fill"})
    /\ \A c \in Clusters : c \in Excused' <=>
           stops' + errs' > 0 \/ (call' = "grow" /\ c = clst' /\ pc' \in {"flush", "fill"})
  BY DEF Excused

(* Nothing happens to the volumes, or the image becomes the latest one.    *)
LEMMA VolumesKept ==
    ASSUME SoundVolumes, Latest' = Latest, image' = image \/ image' = Latest,
           \A c \in Clusters : c \in Excused => c \in Excused'
    PROVE  SoundVolumes'
<1>1. Sound(Latest, Excused') /\ Sound(image, Excused')
  BY SoundWithMoreExcuses DEF SoundVolumes
<1>2. LinksKept'
  BY DEF SoundVolumes, LinksKept
<1> QED
  BY <1>1, <1>2 DEF SoundVolumes

-----------------------------------------------------------------------------
(* move_window changes neither the latest volume nor the call.             *)
LEMMA MoveKeeps ==
    ASSUME IInv, CrashInv, ~lost, Latest' = Latest, image' = image \/ image' = Latest,
           UNCHANGED <<callVars, pc, want, stops>>, errs' \in Nat, errs' >= errs,
           pc = "unname" => \/ clst \in NameIn(Latest, want)
                            \/ UNCHANGED <<stale, winsect>>
    PROVE  SoundVolumes' /\ Registers'
<1> USE DEF callVars
<1>1. SoundVolumes /\ Registers /\ errs \in Nat /\ stops \in Nat
  BY DEF CrashInv, StepShape, IInv, TypeOK
<1>2. \A c \in Clusters : c \in Excused => c \in Excused'
  <2> SUFFICES ASSUME NEW c \in Clusters, c \in Excused PROVE c \in Excused'
    OBVIOUS
  <2>1. CASE stops + errs > 0
    <3>1. stops' = stops /\ errs' \in Nat /\ errs' >= errs
      OBVIOUS
    <3>2. stops' + errs' > 0
      BY <1>1, <2>1, <3>1, ExcusesGrow
    <3> QED
      BY <3>2, ExcusedFacts
  <2>2. CASE call = "grow" /\ c = clst /\ pc \in {"flush", "fill"}
    BY <2>2, ExcusedFacts
  <2> QED
    BY <2>1, <2>2, ExcusedFacts
<1>3. SoundVolumes'
  BY <1>1, <1>2, VolumesKept
<1>4. Registers'
  BY <1>1 DEF Registers, Allocating, Unlinked
<1> QED
  BY <1>3, <1>4

LEMMA MoveWindowSafe == ASSUME IInv, CrashInv, MoveWindow PROVE CrashInv'
<1> USE DEF CrashInv, imgVars, winVars, cntVars, callVars, NeedsWriting
<1>1. errs \in Nat /\ winsect \in Sectors \cup {NoSec} /\ wflag \in BOOLEAN
  BY DEF StepShape, IInv, TypeOK
<1>2. CASE Hit
  <2>1. Latest' = Latest
    BY <1>2, UnchangedLatest DEF Hit
  <2>2. StepShape'
    BY <1>2 DEF Hit, StepShape
  <2>3. ~lost => SoundVolumes' /\ Registers'
    BY <1>1, <1>2, <2>1, MoveKeeps DEF Hit
  <2> QED
    BY <1>2, <2>2, <2>3 DEF Hit
<1>3. CASE WriteBack
  <2>1. winsect \in Sectors /\ ~stale
    BY <1>3 DEF WriteBack, IInv, WindowShape, StepShape
  <2>2. Latest' = Latest /\ image' = Latest
    <3>1. \A s \in Sectors : Latest'[s] = Latest[s] /\ image'[s] = Latest[s]
      BY <1>3, <2>1, LatestFacts, LatestNext DEF WriteBack, IInv, TypeOK
    <3>2. image' \in [Sectors -> Contents]
      BY <1>3, <2>1 DEF WriteBack, IInv, TypeOK
    <3> QED
      BY <3>1, <3>2, LatestFacts, LatestNext
  <2>3. StepShape'
    BY <1>3, <2>1 DEF WriteBack, StepShape
  <2>4. ~lost => SoundVolumes' /\ Registers'
    <3>1. pc = "unname" /\ ~lost => clst \in NameIn(Latest, want)
      BY <2>1 DEF Registers
    <3> QED
      BY <1>1, <1>3, <2>2, <3>1, MoveKeeps DEF WriteBack
  <2> QED
    BY <1>3, <2>3, <2>4 DEF WriteBack
<1>4. CASE WriteBackFails
  <2>1. winsect \in Sectors /\ ~stale
    BY <1>4 DEF WriteBackFails, IInv, WindowShape, StepShape
  <2>2. PICK x : /\ image' = [image EXCEPT ![winsect] = x]
                 /\ lost' = (lost \/ x \notin {image[winsect], win})
    BY <1>4 DEF WriteBackFails
  <2>3. errs' \in Nat /\ errs' > errs
    BY <1>1, <1>4 DEF WriteBackFails, Fault
  <2>4. Latest' = Latest
    <3>1. \A s \in Sectors : Latest'[s] = Latest[s]
      BY <1>4, <2>1, <2>2, LatestFacts, LatestNext DEF WriteBackFails, IInv, TypeOK
    <3> QED
      BY <3>1, LatestFacts, LatestNext
  <2>5. StepShape'
    BY <1>4, <2>1, <2>3 DEF WriteBackFails, StepShape
  <2>6. ~lost' => SoundVolumes' /\ Registers'
    <3> SUFFICES ASSUME ~lost' PROVE SoundVolumes' /\ Registers'
      OBVIOUS
    <3>1. image' = image \/ image' = Latest
      <4>1. CASE x = image[winsect]
        BY <2>1, <2>2, <4>1 DEF IInv, TypeOK
      <4>2. CASE x = win
        <5>1. \A s \in Sectors : image'[s] = Latest[s]
          BY <1>4, <2>1, <2>2, <4>2, LatestFacts DEF WriteBackFails, IInv, TypeOK
        <5>2. image' \in [Sectors -> Contents]
          BY <2>1, <2>2, <4>2 DEF IInv, TypeOK
        <5> QED
          BY <5>1, <5>2, LatestFacts
      <4> QED
        BY <2>2, <4>1, <4>2
    <3>2. ~lost
      BY <2>2
    <3>3. pc = "unname" => clst \in NameIn(Latest, want)
      BY <2>1, <3>2 DEF Registers
    <3>4. UNCHANGED <<callVars, pc, want, stops>> /\ errs' >= errs
      BY <1>1, <1>4, <2>3 DEF WriteBackFails
    <3> QED
      BY <2>3, <2>4, <3>1, <3>2, <3>3, <3>4, MoveKeeps
  <2> QED
    BY <2>5, <2>6
<1>5. CASE Mirror
  <2>1. errs' \in Nat /\ errs' >= errs
    BY <1>1, <1>5 DEF Mirror, Fault
  <2>2. UNCHANGED <<image, fsinfo, winVars, cntVars, callVars, pc, want, stops>> /\ mw' = "read" /\ mw = "mirror"
    BY <1>5 DEF Mirror
  <2>3. Latest' = Latest
    BY <2>2, UnchangedLatest
  <2>4. StepShape'
    BY <2>1, <2>2 DEF StepShape
  <2>5. ~lost => SoundVolumes' /\ Registers'
    BY <1>1, <2>1, <2>2, <2>3, MoveKeeps
  <2> QED
    BY <2>2, <2>4, <2>5
<1>6. CASE Read
  <2>1. ~wflag /\ winsect # want
    BY <1>6 DEF Read, Reading, IInv, MoveShape, StepShape
  <2>2. UNCHANGED <<image, wflag, lost, callVars, pc, want, stops, errs>>
    BY <1>6 DEF Read
  <2>3. Latest' = Latest
    BY <2>1, <2>2 DEF Latest
  <2>4. StepShape'
    <3>1. pc = "fill" => want = NoSec
      BY DEF IInv, CallShape
    <3> QED
      BY <1>6, <2>1, <3>1 DEF Read, StepShape
  <2>5. ~lost => SoundVolumes' /\ Registers'
    <3>1. pc = "unname" /\ ~lost => clst \in NameIn(Latest, want)
      BY <2>1 DEF Registers
    <3> QED
      BY <1>1, <2>2, <2>3, <3>1, MoveKeeps
  <2> QED
    BY <2>2, <2>4, <2>5
<1>7. CASE ReadFails
  <2>1. ~wflag /\ winsect # want
    BY <1>7 DEF ReadFails, Reading, IInv, MoveShape, StepShape
  <2>2. UNCHANGED <<image, winsect, wflag, lost, callVars, pc, want, stops>> /\ mw' = "failed"
    BY <1>7 DEF ReadFails
  <2>3. Latest' = Latest
    BY <2>1, <2>2 DEF Latest
  <2>4. errs' \in Nat /\ errs' > errs
    BY <1>1, <1>7 DEF ReadFails, Fault
  <2>5. StepShape'
    <3>1. pc # "fill"
      BY <1>7 DEF ReadFails, IInv, CallShape
    <3> QED
      BY <1>1, <2>1, <2>2, <2>4, <3>1 DEF StepShape
  <2>6. ~lost => SoundVolumes' /\ Registers'
    <3>1. pc = "unname" /\ ~lost => clst \in NameIn(Latest, want)
      BY <2>1 DEF Registers
    <3> QED
      BY <1>1, <2>2, <2>3, <2>4, <3>1, MoveKeeps
  <2> QED
    BY <2>2, <2>5, <2>6
<1> QED
  BY <1>2, <1>3, <1>4, <1>5, <1>6, <1>7 DEF MoveWindow

-----------------------------------------------------------------------------
(* The calls begin and return.                                             *)
LEMMA TablesAreNoFat == ASSUME NEW t \in Tables(View) PROVE t \in Sectors \ FatSecs
<1>1. CASE t = Root
  <2>1. \A c \in Clusters : FatOf(c) # Root
    BY DEF FatOf, Root
  <2> QED
    BY <1>1, <2>1, FatSectorsAreSectors DEF FatSecs
<1>2. CASE t # Root
  <2>1. PICK c \in Clusters : t \in SectorsOf(c)
    BY <1>2 DEF Tables
  <2> QED
    BY <2>1, SectorsOfCluster
<1> QED
  BY <1>1, <1>2

(* What a caller sees is the latest volume, unless a read has failed.      *)
LEMMA SeenIsLatest ==
    ASSUME IInv, NEW s \in Sectors
    PROVE  NameIn(View, s) = NameIn(Latest, s) \/ (stale /\ winsect = s)
<1>1. View[s] = Latest[s] \/ (stale /\ winsect = s)
  BY ViewOfSector, LatestFacts DEF IInv, TypeOK, WindowShape
<1> QED
  BY <1>1 DEF NameIn

(* What is excused stays so, unless a table has grown.                     *)
LEMMA ExcusedKept ==
    ASSUME stops \in Nat, errs \in Nat, errs' \in Nat, errs' >= errs, stops' = stops,
           \/ pc \notin {"flush", "fill"}
           \/ errs' > 0
           \/ UNCHANGED <<call, clst>> /\ pc' \in {"flush", "fill"}
    PROVE  \A c \in Clusters : c \in Excused => c \in Excused'
<1> SUFFICES ASSUME NEW c \in Clusters, c \in Excused PROVE c \in Excused'
  OBVIOUS
<1>1. CASE stops + errs > 0
  <2>1. stops' + errs' > 0
    BY <1>1, ExcusesGrow
  <2> QED
    BY <2>1, ExcusedFacts
<1>2. CASE call = "grow" /\ c = clst /\ pc \in {"flush", "fill"}
  <2>1. CASE errs' > 0
    <3>1. stops' + errs' > 0
      BY <2>1, ExcusesGrow
    <3> QED
      BY <3>1, ExcusedFacts
  <2> QED
    BY <1>2, <2>1, ExcusedFacts
<1> QED
  BY <1>1, <1>2, ExcusedFacts

LEMMA BeginSafe ==
    ASSUME IInv, CrashInv, NEW f, NEW t, NEW p \in {"look", "take", "unname"}, NEW s,
           Begin(f, t, p, s), p # "unname" => UNCHANGED clst, p = "take" => t \notin FatSecs,
           p = "unname" => s \in Sectors \ FatSecs /\ clst' \in NameIn(View, s)
    PROVE  CrashInv'
<1> USE DEF Begin, Moving, imgVars, winVars
<1>1. errs \in Nat /\ stops \in Nat
  BY DEF CrashInv, StepShape, IInv, TypeOK
<1>2. Latest' = Latest
  BY UnchangedLatest
<1>3. StepShape'
  BY DEF CrashInv, StepShape
<1>4. ASSUME ~lost PROVE SoundVolumes' /\ Registers'
  <2>1. SoundVolumes'
    BY <1>1, <1>2, <1>4, ExcusedKept, VolumesKept DEF CrashInv
  <2>2. pc' = "unname" => clst' \in NameIn(Latest, s) \/ (stale /\ winsect = s)
    BY SeenIsLatest
  <2>3. Registers'
    BY <1>2, <2>2 DEF Registers, Allocating, Unlinked
  <2> QED
    BY <2>1, <2>3
<1> QED
  BY <1>3, <1>4 DEF CrashInv

LEMMA StartSafe == ASSUME IInv, CrashInv, Start PROVE CrashInv'
<1>1. CASE Look
  BY <1>1, BeginSafe DEF Look
<1>2. CASE MkdirOrWrite
  <2>1. PICK t \in Tables(View), f \in FatSecs, g \in {"mkdir", "write"} :
            Begin(g, t, "take", f) /\ UNCHANGED clst
    BY <1>2 DEF MkdirOrWrite
  <2> QED
    BY <2>1, TablesAreNoFat, BeginSafe
<1>3. CASE Grow
  <2>1. PICK t \in Tables(View) \ {Root}, f \in FatSecs :
            Begin("grow", t, "take", f) /\ UNCHANGED clst
    BY <1>3 DEF Grow
  <2> QED
    BY <2>1, TablesAreNoFat, BeginSafe
<1>4. CASE Unlink
  <2>1. PICK t \in Tables(View), c \in Clusters :
            c \in NameIn(View, t) /\ Begin("unlink", t, "unname", t) /\ clst' = c
    BY <1>4 DEF Unlink
  <2> QED
    BY <2>1, TablesAreNoFat, BeginSafe
<1> QED
  BY <1>1, <1>2, <1>3, <1>4 DEF Start

LEMMA ReturnRegisters ==
    ASSUME Return, errs' \in Nat, wflag' => ~stale' PROVE StepShape' /\ Registers'
<1>1. StepShape'
  BY DEF Return, StepShape
<1>2. Registers'
  BY DEF Return, Registers, Allocating, Unlinked
<1> QED
  BY <1>1, <1>2

LEMMA ReturnSafe ==
    ASSUME IInv, CrashInv, Return, UNCHANGED <<imgVars, winVars, stops>>,
           errs' \in Nat, errs' >= errs, pc \notin {"flush", "fill"} \/ errs' > 0
    PROVE  CrashInv'
<1> USE DEF imgVars, winVars
<1>1. errs \in Nat /\ stops \in Nat
  BY DEF CrashInv, StepShape, IInv, TypeOK
<1>2. Latest' = Latest
  BY UnchangedLatest
<1>3. StepShape' /\ Registers'
  BY ReturnRegisters DEF CrashInv, StepShape
<1>4. ~lost => SoundVolumes'
  BY <1>1, <1>2, ExcusedKept, VolumesKept DEF CrashInv
<1> QED
  BY <1>3, <1>4 DEF CrashInv

(* A call goes on without touching the window: to the entry of a file, or  *)
(* to give the cluster of a directory back.                                *)
LEMMA MovingSafe ==
    ASSUME IInv, CrashInv, NEW p, NEW s, Moving(p, s),
           UNCHANGED <<imgVars, winVars, callVars, stops>>, errs' \in Nat, errs' >= errs,
           \/ pc \in {"take", "direct"} /\ call = "write" /\ p = "entry" /\ s = tab
           \/ pc = "entry" /\ call = "mkdir" /\ p = "give" /\ s = FatOf(clst)
    PROVE  CrashInv'
<1> USE DEF Moving, imgVars, winVars, callVars
<1>1. errs \in Nat /\ stops \in Nat
  BY DEF CrashInv, StepShape, IInv, TypeOK
<1>2. Latest' = Latest
  BY UnchangedLatest
<1>3. StepShape'
  BY DEF CrashInv, StepShape
<1>4. ASSUME ~lost PROVE SoundVolumes' /\ Registers'
  <2>1. SoundVolumes'
    BY <1>1, <1>2, <1>4, ExcusedKept, VolumesKept DEF CrashInv
  <2>2. pc = "take" => clst = 0
    BY DEF CrashInv, StepShape
  <2>3. pc = "entry" /\ call = "mkdir" => clst # 0
    BY SizesAssumption DEF IInv, CallShape, Clusters
  <2>4. Registers'
    BY <1>2, <1>4, <2>2, <2>3 DEF CrashInv, Registers, Allocating, Unlinked
  <2> QED
    BY <2>1, <2>4
<1> QED
  BY <1>3, <1>4 DEF CrashInv

LEMMA QuietSteps ==
    ASSUME IInv, CrashInv, Looked \/ TakeNone \/ DirectDone \/ DirectFails \/ Failed
    PROVE  CrashInv'
<1>1. errs \in Nat /\ errs >= errs
  BY DEF CrashInv, StepShape
<1>2. CASE Looked
  BY <1>1, <1>2, ReturnSafe DEF Looked, At
<1>3. CASE TakeNone
  <2>1. UNCHANGED <<imgVars, winVars, stops, errs>> /\ pc = "take"
    BY <1>3 DEF TakeNone, At
  <2>2. CASE call = "write"
    BY <1>1, <1>3, <2>1, <2>2, MovingSafe DEF TakeNone
  <2>3. CASE call # "write"
    BY <1>1, <1>3, <2>1, <2>3, ReturnSafe DEF TakeNone
  <2> QED
    BY <2>2, <2>3
<1>4. CASE DirectDone
  <2>1. pc = "direct" /\ call = "write"
    BY <1>4 DEF DirectDone, CrashInv, StepShape
  <2> QED
    BY <1>1, <1>4, <2>1, MovingSafe DEF DirectDone
<1>5. CASE DirectFails
  <2>1. pc = "direct" /\ call = "write"
    BY <1>5 DEF DirectFails, CrashInv, StepShape
  <2>2. errs' \in Nat /\ errs' >= errs
    BY <1>1, <1>5 DEF DirectFails, Fault
  <2>3. UNCHANGED <<imgVars, winVars, stops>>
    BY <1>5 DEF DirectFails
  <2>4. CASE Return
    BY <2>1, <2>2, <2>3, <2>4, ReturnSafe
  <2>5. CASE Moving("entry", tab) /\ UNCHANGED callVars
    BY <2>1, <2>2, <2>3, <2>5, MovingSafe
  <2> QED
    BY <1>5, <2>4, <2>5 DEF DirectFails
<1>6. CASE Failed
  <2>1. errs > 0 /\ UNCHANGED <<imgVars, winVars, stops, errs>>
    BY <1>6 DEF Failed, CrashInv, StepShape
  <2>2. CASE Return
    BY <1>1, <2>1, <2>2, ReturnSafe
  <2>3. CASE pc = "entry" /\ call = "mkdir" /\ Moving("give", FatOf(clst)) /\ UNCHANGED callVars
    BY <1>1, <2>1, <2>3, MovingSafe
  <2>4. CASE pc = "take" /\ call = "write" /\ Moving("entry", tab) /\ UNCHANGED callVars
    BY <1>1, <2>1, <2>4, MovingSafe
  <2> QED
    BY <1>6, <2>2, <2>3, <2>4 DEF Failed
<1> QED
  BY <1>2, <1>3, <1>4, <1>5, <1>6

-----------------------------------------------------------------------------
(* The calls modify the volume.                                            *)
LEMMA ModifiedVolumes ==
    ASSUME SoundVolumes, image' = image, Sound(Latest', Excused'),
           \A c \in Clusters : c \in Excused => c \in Excused',
           \A c \in Clusters : IsLinked(Latest, c) => IsLinked(Latest', c)
    PROVE  SoundVolumes'
<1>1. Sound(image, Excused')
  BY SoundWithMoreExcuses DEF SoundVolumes
<1>2. LinksKept'
  BY DEF SoundVolumes, LinksKept
<1> QED
  BY <1>1, <1>2 DEF SoundVolumes

LEMMA TakeSafe == ASSUME IInv, CrashInv, Take PROVE CrashInv'
<1> USE DEF imgVars
<1>1. PICK c \in Clusters : FatOf(c) = want /\ c \notin win /\ clst' = c /\ Modify(win \cup {c})
  BY DEF Take
<1>2. /\ pc = "take" /\ mw = "ok" /\ image' = image /\ UNCHANGED <<call, tab, stops, errs>>
      /\ tab \notin FatSecs /\ errs \in Nat /\ stops \in Nat
      /\ want \in FatSecs /\ want \in Sectors
  BY FatSectorsAreSectors DEF Take, At, CrashInv, StepShape, IInv, TypeOK, CallShape
<1>3. \/ call = "mkdir" /\ Moving("flush", NoSec)
      \/ call = "grow" /\ Moving("link", FatOf(tab[1]))
      \/ call = "write" /\ pc' = "direct" /\ want' = NoSec /\ mw' = "out"
  BY DEF Take
<1>4. call = "grow" => FatOf(tab[1]) \in FatSecs
  BY <1>2, FatSectors DEF IInv, CallShape
<1>5. wflag' => ~stale'
  BY <1>1 DEF Modify
<1>6. StepShape'
  BY <1>2, <1>3, <1>4, <1>5 DEF Moving, StepShape
<1>7. ASSUME ~lost' PROVE SoundVolumes' /\ Registers'
  <2>1. win \cup {c} \in Contents
    BY MarkedContents DEF IInv, TypeOK
  <2>2. ~lost /\ Latest[want] = win /\ IsWith(Latest', Latest, want, win \cup {c})
    BY <1>1, <1>2, <1>7, <2>1, ModifiedLatest DEF At, CrashInv
  <2>3. /\ c \notin Latest[FatOf(c)]
        /\ IsWith(Latest', Latest, FatOf(c), Latest[FatOf(c)] \cup {c})
    BY <1>1, <2>2
  <2>4. Sound(Latest, Excused) /\ SoundVolumes
    BY <2>2 DEF CrashInv, SoundVolumes
  <2>5. /\ Sound(Latest', Excused) /\ c \in Used(Latest') /\ c \notin Named(Latest')
        /\ \A d \in Clusters : IsLinked(Latest, d) => IsLinked(Latest', d)
    BY <2>3, <2>4, TakeIsSound
  <2>6. \A d \in Clusters : d \in Excused => d \in Excused'
    BY <1>2, ExcusedKept
  <2>7. SoundVolumes'
    BY <1>2, <2>4, <2>5, <2>6, SoundWithMoreExcuses, ModifiedVolumes
  <2>8. Registers'
    BY <1>1, <1>3, <2>5 DEF Moving, Registers, Allocating, Unlinked
  <2> QED
    BY <2>7, <2>8
<1> QED
  BY <1>6, <1>7 DEF CrashInv

LEMMA LinkSafe == ASSUME IInv, CrashInv, Link PROVE CrashInv'
<1> USE DEF Moving, imgVars, callVars
<1>1. /\ pc = "link" /\ mw = "ok" /\ image' = image /\ UNCHANGED <<call, clst, tab, stops, errs>>
      /\ call = "grow" /\ tab \notin FatSecs /\ errs \in Nat /\ stops \in Nat
      /\ want \in FatSecs /\ want \in Sectors /\ clst \in Clusters
      /\ pc' = "flush" /\ want' = NoSec /\ mw' = "start" /\ Modify(win \cup {-clst})
  BY FatSectorsAreSectors DEF Link, At, CrashInv, StepShape, IInv, TypeOK, CallShape
<1>2. StepShape'
  BY <1>1 DEF Modify, StepShape
<1>3. ASSUME ~lost' PROVE SoundVolumes' /\ Registers'
  <2>1. win \cup {-clst} \in Contents
    BY <1>1, MarkedContents DEF IInv, TypeOK
  <2>2. ~lost /\ Latest[want] = win /\ IsWith(Latest', Latest, want, win \cup {-clst})
    BY <1>1, <1>3, <2>1, ModifiedLatest DEF At, CrashInv
  <2>3. IsWith(Latest', Latest, want, Latest[want] \cup {-clst})
    BY <2>2
  <2>4. Sound(Latest, Excused) /\ SoundVolumes /\ clst \in Used(Latest) /\ clst \notin Named(Latest)
    BY <1>1, <2>2 DEF CrashInv, SoundVolumes, Registers, Allocating, Unlinked
  <2>5. \A d \in Clusters : d \in Excused => d \in Excused'
    BY <1>1, ExcusedKept
  <2>6. \A d \in Clusters : d \in Excused \/ d = clst => d \in Excused'
    BY <1>1, <2>5, ExcusedFacts
  <2>7. /\ Sound(Latest', Excused') /\ clst \in Used(Latest')
        /\ \A d \in Clusters : IsLinked(Latest, d) => IsLinked(Latest', d)
    BY <1>1, <2>3, <2>4, <2>6, LinkIsSound
  <2>8. SoundVolumes'
    BY <1>1, <2>4, <2>5, <2>7, ModifiedVolumes
  <2>9. Registers'
    BY <1>1, <2>7 DEF Registers, Allocating, Unlinked
  <2> QED
    BY <2>8, <2>9
<1> QED
  BY <1>2, <1>3 DEF CrashInv

LEMMA EntrySafe == ASSUME IInv, CrashInv, Entry PROVE CrashInv'
<1> USE DEF Moving, imgVars, callVars
<1> DEFINE m == IF call = "mkdir" THEN -clst ELSE clst
<1>1. /\ pc = "entry" /\ mw = "ok" /\ image' = image /\ UNCHANGED <<call, clst, tab, stops, errs>>
      /\ errs \in Nat /\ stops \in Nat
      /\ want \in Sectors \ FatSecs /\ clst \in Clusters \cup {0}
      /\ pc' = "sync" /\ want' = NoSec /\ mw' = "start"
      /\ Modify(win \cup (IF clst = 0 THEN {} ELSE {m}))
  BY DEF Entry, At, CrashInv, StepShape, IInv, TypeOK, CallShape
<1>2. StepShape'
  BY <1>1 DEF Modify, StepShape
<1>3. ASSUME ~lost' PROVE SoundVolumes' /\ Registers'
  <2>1. Registers'
    BY <1>1 DEF Registers, Allocating, Unlinked
  <2>2. \A d \in Clusters : d \in Excused => d \in Excused'
    BY <1>1, ExcusedKept
  <2>3. CASE clst = 0
    <3>1. win \cup {} \in Contents /\ win \cup {} = win
      BY DEF IInv, TypeOK
    <3>2. ~lost /\ Latest[want] = win /\ IsWith(Latest', Latest, want, win)
      BY <1>1, <1>3, <2>3, <3>1, ModifiedLatest DEF At, CrashInv
    <3>3. Latest' = Latest
      BY <3>2, LatestFacts, LatestNext DEF IsWith
    <3> QED
      BY <1>1, <2>1, <2>2, <3>2, <3>3, VolumesKept DEF CrashInv
  <2>4. CASE clst # 0
    <3>1. clst \in Clusters /\ m \in {clst, -clst}
      BY <1>1, <2>4
    <3>2. win \cup {m} \in Contents
      BY <3>1, MarkedContents DEF IInv, TypeOK
    <3>3. Modify(win \cup {m})
      BY <1>1, <2>4
    <3> HIDE DEF m
    <3>4. ~lost /\ Latest[want] = win /\ IsWith(Latest', Latest, want, win \cup {m})
      BY <1>1, <1>3, <3>2, <3>3, ModifiedLatest DEF At, CrashInv
    <3>5. IsWith(Latest', Latest, want, Latest[want] \cup {m})
      BY <3>4
    <3>6. Sound(Latest, Excused) /\ SoundVolumes /\ clst \in Used(Latest) /\ clst \notin Named(Latest)
      BY <1>1, <2>4, <3>4 DEF CrashInv, SoundVolumes, Registers, Allocating, Unlinked
    <3>7. m = -clst => Clear(Latest, clst)
      <4>1. m = -clst => call = "mkdir"
        BY <3>1, MarkFacts DEF m
      <4> QED
        BY <1>1, <3>4, <4>1 DEF CrashInv, Registers
    <3>8. Sound(Latest', Excused) /\ \A d \in Clusters : IsLinked(Latest, d) => IsLinked(Latest', d)
      BY <1>1, <3>1, <3>5, <3>6, <3>7, EntryIsSound
    <3>9. SoundVolumes'
      BY <1>1, <2>2, <3>6, <3>8, SoundWithMoreExcuses, ModifiedVolumes
    <3> QED
      BY <2>1, <3>9
  <2> QED
    BY <1>1, <2>3, <2>4
<1> QED
  BY <1>2, <1>3 DEF CrashInv

LEMMA UnnameSafe == ASSUME IInv, CrashInv, Unname PROVE CrashInv'
<1> USE DEF Moving, imgVars, callVars
<1>1. /\ pc = "unname" /\ mw = "ok" /\ image' = image /\ UNCHANGED <<call, clst, tab, stops, errs>>
      /\ errs \in Nat /\ stops \in Nat
      /\ want \in Sectors \ FatSecs /\ clst \in Clusters
      /\ pc' = "give" /\ want' = FatOf(clst) /\ mw' = "start"
      /\ Modify(win \ {clst, -clst})
  BY DEF Unname, At, CrashInv, StepShape, IInv, TypeOK, CallShape
<1>2. StepShape'
  BY <1>1 DEF Modify, StepShape
<1>3. ASSUME ~lost' PROVE SoundVolumes' /\ Registers'
  <2>1. win \ {clst, -clst} \in Contents
    BY DEF IInv, TypeOK, Contents
  <2>2. ~lost /\ ~stale /\ Latest[want] = win /\ IsWith(Latest', Latest, want, win \ {clst, -clst})
    BY <1>1, <1>3, <2>1, ModifiedLatest DEF At, CrashInv
  <2>3. IsWith(Latest', Latest, want, Latest[want] \ {clst, -clst})
    BY <2>2
  <2>4. Sound(Latest, Excused) /\ SoundVolumes /\ clst \in NameIn(Latest, want)
    BY <1>1, <2>2 DEF CrashInv, SoundVolumes, Registers
  <2>5. /\ Sound(Latest', Excused) /\ clst \notin Named(Latest')
        /\ \A d \in Clusters : IsLinked(Latest, d) => IsLinked(Latest', d)
    BY <1>1, <2>3, <2>4, UnnameIsSound
  <2>6. \A d \in Clusters : d \in Excused => d \in Excused'
    BY <1>1, ExcusedKept
  <2>7. SoundVolumes'
    BY <1>1, <2>4, <2>5, <2>6, SoundWithMoreExcuses, ModifiedVolumes
  <2>8. Registers'
    BY <1>1, <2>5 DEF Registers, Allocating, Unlinked
  <2> QED
    BY <2>7, <2>8
<1> QED
  BY <1>2, <1>3 DEF CrashInv

LEMMA ReleaseSafe == ASSUME IInv, CrashInv, Release PROVE CrashInv'
<1> USE DEF Moving, imgVars, callVars
<1>1. /\ pc = "give" /\ mw = "ok" /\ image' = image /\ UNCHANGED <<stops, errs>>
      /\ errs \in Nat /\ stops \in Nat
      /\ want \in Sectors /\ clst \in Clusters /\ want = FatOf(clst)
      /\ Modify(win \ {clst})
  BY DEF Release, At, CrashInv, StepShape, IInv, TypeOK, CallShape
<1>2. (pc' = "sync" /\ want' = NoSec /\ mw' = "start" /\ UNCHANGED callVars) \/ Return
  BY DEF Release
<1>3. errs' \in Nat /\ (wflag' => ~stale')
  BY <1>1 DEF Modify
<1>4. StepShape' /\ Registers'
  <2>1. CASE Return
    BY <1>3, <2>1, ReturnRegisters
  <2>2. CASE pc' = "sync" /\ want' = NoSec /\ mw' = "start" /\ UNCHANGED callVars
    <3>1. StepShape'
      BY <1>3, <2>2 DEF StepShape
    <3>2. Registers'
      BY <2>2 DEF Registers, Allocating, Unlinked
    <3> QED
      BY <3>1, <3>2
  <2> QED
    BY <1>2, <2>1, <2>2
<1>5. ASSUME ~lost' PROVE SoundVolumes'
  <2>1. win \ {clst} \in Contents
    BY DEF IInv, TypeOK, Contents
  <2>2. ~lost /\ Latest[want] = win /\ IsWith(Latest', Latest, want, win \ {clst})
    BY <1>1, <1>5, <2>1, ModifiedLatest DEF At, CrashInv
  <2>3. IsWith(Latest', Latest, FatOf(clst), Latest[FatOf(clst)] \ {clst})
    BY <1>1, <2>2
  <2>4. Sound(Latest, Excused) /\ SoundVolumes /\ clst \notin Named(Latest)
    BY <1>1, <2>2 DEF CrashInv, SoundVolumes, Registers, Unlinked
  <2>5. /\ Sound(Latest', Excused)
        /\ \A d \in Clusters : IsLinked(Latest, d) => IsLinked(Latest', d)
    BY <1>1, <2>3, <2>4, ReleaseIsSound
  <2>6. \A d \in Clusters : d \in Excused => d \in Excused'
    BY <1>1, ExcusedKept
  <2> QED
    BY <1>1, <2>4, <2>5, <2>6, SoundWithMoreExcuses, ModifiedVolumes
<1> QED
  BY <1>4, <1>5 DEF CrashInv

-----------------------------------------------------------------------------
(* The new cluster is cleared.                                             *)
LEMMA PlaceSafe ==
    ASSUME IInv, CrashInv, mw = "ok", NEW k \in Nat, k < CSize, NEW x \in Contents,
           x \subseteq {Dots}, Place(k, x), UNCHANGED <<imgVars, call, clst, tab, stops, errs>>,
           (pc = "flush" /\ k = 0) \/ (pc = "fill" /\ k = fill + 1)
    PROVE  CrashInv'
<1> USE DEF Place, Moving, imgVars
<1>1. /\ ~wflag /\ ~stale /\ clst \in Clusters /\ fill \in Nat
      /\ errs \in Nat /\ stops \in Nat /\ pc' = "fill" /\ fill' = k /\ image' = image
  BY DEF CrashInv, StepShape, IInv, TypeOK, MoveShape, CallShape
<1> DEFINE s == <<clst, k>>
<1>2. s \in Sectors \ FatSecs
  BY <1>1, ClusterSectors
<1>3. StepShape'
  BY <1>1 DEF CrashInv, StepShape
<1>4. ASSUME ~lost PROVE SoundVolumes' /\ Registers'
  <2>1. SoundVolumes /\ Registers /\ Sound(Latest, Excused)
    BY <1>4 DEF CrashInv, SoundVolumes
  <2>2. \A t \in Sectors : Latest'[t] = IF t = s THEN x ELSE Latest[t]
    BY <1>1, LatestFacts, LatestNext
  <2> HIDE DEF s
  <2>3. IsWith(Latest', Latest, s, x)
    BY <1>2, <2>2, LatestFacts, LatestNext DEF IsWith
  <2>4. Sound(Latest', Excused)
    BY <1>2, <2>1, <2>3, FillIsSound
  <2>5. x \subseteq {Dots, Junk}
    OBVIOUS
  <2>6. /\ \A d \in Clusters : d \in Named(Latest') => d \in Named(Latest)
        /\ \A d \in Clusters : d \in Used(Latest') <=> d \in Used(Latest)
        /\ \A d \in Clusters : IsLinked(Latest, d) => IsLinked(Latest', d)
    BY <1>2, <2>1, <2>3, <2>5, NoNamesInFill
  <2>7. \A d \in Clusters : d \in Excused => d \in Excused'
    BY <1>1, ExcusedKept
  <2>8. SoundVolumes'
    BY <1>1, <2>1, <2>4, <2>6, <2>7, SoundWithMoreExcuses, ModifiedVolumes
  <2>9. ASSUME NEW j \in 0 .. k PROVE Junk \notin Latest'[<<clst, j>>]
    <3>1. <<clst, j>> \in Sectors
      <4>1. j \in Nat /\ j < CSize
        BY SizesAssumption
      <4> QED
        BY <1>1, <4>1, ClusterSectors
    <3>2. CASE j = k
      BY <2>2, <3>1, <3>2 DEF s, Dots, Junk
    <3>3. CASE j # k
      <4>1. pc = "fill" /\ j \in 0 .. fill
        BY <1>1, <3>3
      <4>2. Junk \notin Latest[<<clst, j>>]
        BY <2>1, <4>1 DEF Registers
      <4>3. <<clst, j>> # s
        BY <3>3 DEF s
      <4> QED
        BY <2>2, <3>1, <4>2, <4>3
    <3> QED
      BY <3>2, <3>3
  <2>10. Registers'
    BY <1>1, <2>1, <2>6, <2>9 DEF Registers, Allocating, Unlinked
  <2> QED
    BY <2>8, <2>10
<1> QED
  BY <1>3, <1>4 DEF CrashInv

LEMMA FillSafe == ASSUME IInv, CrashInv, Flushed \/ FillNext PROVE CrashInv'
<1>1. 0 \in Nat /\ 0 < CSize
  BY SizesAssumption
<1>2. CASE Flushed
  <2> DEFINE x == IF call = "mkdir" THEN {Dots} ELSE {}
  <2>1. x \in Contents /\ x \subseteq {Dots}
    BY MarkedContents
  <2>2. /\ mw = "ok" /\ pc = "flush" /\ Place(0, x)
        /\ UNCHANGED <<imgVars, call, clst, tab, stops, errs>>
    BY <1>2 DEF Flushed, At
  <2> HIDE DEF x
  <2> QED
    BY <1>1, <2>1, <2>2, PlaceSafe
<1>3. CASE FillNext
  <2>1. fill + 1 \in Nat /\ fill + 1 < CSize
    BY <1>3 DEF FillNext, SectorsToFill, IInv, TypeOK
  <2>2. {} \in Contents /\ {} \subseteq {Dots}
    BY MarkedContents
  <2>3. /\ mw = "ok" /\ pc = "fill" /\ Place(fill + 1, {})
        /\ UNCHANGED <<imgVars, call, clst, tab, stops, errs>>
    BY <1>3 DEF FillNext, At
  <2> QED
    BY <2>1, <2>2, <2>3, PlaceSafe
<1> QED
  BY <1>2, <1>3

LEMMA FillDoneSafe == ASSUME IInv, CrashInv, FillDone PROVE CrashInv'
<1> USE DEF Moving, imgVars, callVars
<1>1. /\ pc = "fill" /\ mw = "ok" /\ image' = image /\ UNCHANGED <<stops, errs, lost>>
      /\ errs \in Nat /\ stops \in Nat /\ fill \in Nat /\ fill + 1 = CSize
      /\ ~wflag /\ ~stale /\ clst \in Clusters /\ tab \in Sectors \ FatSecs /\ win \subseteq {Dots}
  BY DEF FillDone, SectorsToFill, At, CrashInv, StepShape, IInv, TypeOK, MoveShape, CallShape
<1>2. Latest = image
  BY <1>1, LatestFacts
<1>3. ~lost => Clear(Latest, clst)
  <2> SUFFICES ASSUME ~lost, NEW t \in SectorsOf(clst) PROVE Junk \notin Latest[t]
    BY DEF Clear
  <2>1. PICK k \in 0 .. (CSize - 1) : t = <<clst, k>>
    BY <1>1, SectorsOfCluster
  <2>2. k \in 0 .. fill
    BY <1>1, SizesAssumption
  <2> QED
    BY <1>1, <2>1, <2>2 DEF CrashInv, Registers
<1>4. CASE /\ call = "mkdir" /\ win' = {} /\ stale' = (win # {}) /\ Moving("entry", tab)
           /\ UNCHANGED <<winsect, wflag, lost, callVars>>
  <2>1. StepShape'
    BY <1>1, <1>4 DEF CrashInv, StepShape
  <2>2. Latest' = Latest
    BY <1>1, <1>4 DEF Latest
  <2>3. ASSUME NEW c \in Clusters, c \in Excused PROVE c \in Excused'
    BY <1>1, <1>4, <2>3, ExcusedFacts
  <2>4. ~lost => SoundVolumes'
    BY <1>1, <2>2, <2>3, VolumesKept DEF CrashInv
  <2>5. ~lost => Registers'
    BY <1>1, <1>3, <1>4, <2>2 DEF CrashInv, Registers, Allocating, Unlinked
  <2> QED
    BY <1>1, <2>1, <2>4, <2>5 DEF CrashInv
<1>5. CASE /\ call = "grow" /\ winsect' = <<clst, 0>> /\ wflag' = TRUE
           /\ Return /\ UNCHANGED <<win, stale, lost>>
  <2> DEFINE s == <<clst, 0>>
  <2>1. s \in Sectors \ FatSecs
    BY <1>1, ClusterSectors, SizesAssumption
  <2>2. StepShape' /\ Registers'
    BY <1>1, <1>5, ReturnRegisters
  <2>3. ASSUME ~lost PROVE SoundVolumes'
    <3>1. SoundVolumes /\ Sound(Latest, Excused)
      BY <2>3 DEF CrashInv, SoundVolumes
    <3>2. \A d \in Clusters : d \in Excused => d \in Excused' \/ d = clst
      BY <1>1, <1>5, ExcusedFacts
    <3>3. Sound(Latest, Excused')
      BY <1>3, <2>3, <3>1, <3>2, SoundWhenCleared
    <3>4. \A t \in Sectors : Latest'[t] = IF t = s THEN win ELSE Latest[t]
      BY <1>1, <1>5, LatestFacts, LatestNext
    <3> HIDE DEF s
    <3>5. IsWith(Latest', Latest, s, win)
      BY <2>1, <3>4, LatestFacts, LatestNext DEF IsWith
    <3>6. Sound(Latest', Excused')
      BY <1>1, <2>1, <3>3, <3>5, FillIsSound
    <3>7. win \subseteq {Dots, Junk}
      BY <1>1
    <3>8. \A d \in Clusters : IsLinked(Latest, d) => IsLinked(Latest', d)
      BY <2>1, <3>1, <3>5, <3>7, NoNamesInFill
    <3>9. LinksKept'
      BY <1>1, <3>1, <3>8 DEF SoundVolumes, LinksKept
    <3> QED
      BY <1>1, <1>2, <3>3, <3>6, <3>9 DEF SoundVolumes
  <2> QED
    BY <1>1, <2>2, <2>3 DEF CrashInv
<1> QED
  BY <1>1, <1>4, <1>5 DEF FillDone

(* File data is written to a cluster that nothing names yet.               *)
LEMMA DirectSafe == ASSUME IInv, CrashInv, Direct PROVE CrashInv'
<1> USE DEF winVars, mwVars
<1> DEFINE s == <<clst, fill>>
<1>1. /\ pc = "direct" /\ fill < CSize /\ image' = [image EXCEPT ![s] = {Junk}]
      /\ UNCHANGED <<winVars, call, clst, tab, mwVars, stops, errs>>
      /\ errs \in Nat /\ stops \in Nat /\ fill \in Nat /\ clst \in Clusters
      /\ winsect \in FatSecs /\ image \in [Sectors -> Contents]
  BY DEF Direct, CrashInv, StepShape, IInv, TypeOK, CallShape
<1>2. s \in SectorsOf(clst) /\ s \in Sectors \ FatSecs
  BY <1>1, ClusterSectors, SizesAssumption DEF SectorsOf
<1>3. StepShape'
  BY <1>1 DEF CrashInv, StepShape
<1> HIDE DEF s
<1>4. IsWith(image', image, s, {Junk}) /\ IsWith(Latest', Latest, s, {Junk})
  <2>1. \A t \in Sectors : Latest'[t] = IF t = s THEN {Junk} ELSE Latest[t]
    BY <1>1, <1>2, LatestFacts, LatestNext
  <2> QED
    BY <1>1, <1>2, <2>1, LatestFacts, LatestNext DEF IsWith
<1>5. ASSUME ~lost PROVE SoundVolumes' /\ Registers'
  <2>1. /\ Sound(Latest, Excused) /\ Sound(image, Excused) /\ LinksKept
        /\ clst \in Used(Latest) /\ clst \notin Named(Latest)
    BY <1>1, <1>5 DEF CrashInv, SoundVolumes, Registers, Allocating, Unlinked
  <2>2. ~IsLinked(Latest, clst) /\ ~HasEntry(Latest, clst)
    BY <1>1, <2>1, NameFacts, FatSectorsAreSectors DEF IsLinked, HasEntry
  <2>3. ~IsLinked(image, clst) /\ ~HasEntry(image, clst)
    <3>1. \A t \in Sectors \ FatSecs : image[t] = Latest[t]
      BY <1>1, LatestFacts
    <3> QED
      BY <1>1, <2>1, <2>2, <3>1 DEF LinksKept, HasEntry
  <2>4. Sound(Latest', Excused) /\ Sound(image', Excused)
    BY <1>1, <1>2, <1>4, <2>1, <2>2, <2>3, FileDataIsSound
  <2>5. /\ \A d \in Clusters : d \in Named(Latest') => d \in Named(Latest)
        /\ \A d \in Clusters : d \in Used(Latest') <=> d \in Used(Latest)
        /\ \A d \in Clusters : IsLinked(Latest, d) => IsLinked(Latest', d)
    BY <1>2, <1>4, <2>1, NoNamesInFill
  <2>6. \A d \in Clusters : IsLinked(image', d) => IsLinked(image, d)
    BY <1>1, <1>2, FatSectorsAreSectors DEF IsLinked
  <2>7. \A d \in Clusters : d \in Excused => d \in Excused'
    BY <1>1, ExcusedKept
  <2>8. SoundVolumes'
    BY <2>1, <2>4, <2>5, <2>6, <2>7, SoundWithMoreExcuses DEF SoundVolumes, LinksKept
  <2>9. Registers'
    BY <1>1, <2>1, <2>5 DEF Registers, Allocating, Unlinked
  <2> QED
    BY <2>8, <2>9
<1> QED
  BY <1>1, <1>3, <1>5 DEF CrashInv

LEMMA SyncedSafe == ASSUME IInv, CrashInv, Synced PROVE CrashInv'
<1>1. /\ ~wflag /\ Return /\ pc = "sync" /\ UNCHANGED <<image, wflag, lost, stops>>
      /\ errs \in Nat /\ stops \in Nat
  BY DEF Synced, At, CrashInv, StepShape, IInv, TypeOK, MoveShape, CallShape
<1>2. errs' \in Nat /\ errs' >= errs
  BY <1>1 DEF Synced, Fault
<1>3. StepShape' /\ Registers'
  BY <1>1, <1>2, ReturnRegisters
<1>4. Latest' = Latest
  BY <1>1 DEF Latest
<1>5. ~lost => SoundVolumes'
  BY <1>1, <1>2, <1>4, ExcusedKept, VolumesKept DEF CrashInv
<1> QED
  BY <1>1, <1>3, <1>5 DEF CrashInv

(* The program stops: what it had made last is forgotten.                  *)
LEMMA StopSafe == ASSUME IInv, CrashInv, Stop PROVE CrashInv'
<1>1. /\ Return /\ ~wflag' /\ image' = image /\ UNCHANGED <<lost, errs>>
      /\ errs \in Nat /\ stops \in Nat /\ stops' = stops + 1 /\ image \in [Sectors -> Contents]
  BY DEF Stop, imgVars, CrashInv, StepShape, IInv, TypeOK
<1>2. StepShape' /\ Registers'
  BY <1>1, ReturnRegisters
<1>3. Latest' = image
  BY <1>1 DEF Latest
<1>4. \A c \in Clusters : c \in Excused'
  <2>1. stops' + errs' > 0
    BY <1>1
  <2> QED
    BY <2>1, ExcusedFacts
<1>5. ~lost => SoundVolumes'
  <2> SUFFICES ASSUME ~lost PROVE SoundVolumes'
    OBVIOUS
  <2>1. Sound(image, Excused')
    BY <1>4, SoundWithMoreExcuses DEF CrashInv, SoundVolumes
  <2> QED
    BY <1>1, <1>3, <2>1 DEF SoundVolumes, LinksKept
<1> QED
  BY <1>1, <1>2, <1>5 DEF CrashInv

LEMMA UnchangedSafe == ASSUME IInv, CrashInv, UNCHANGED vars PROVE CrashInv'
<1> USE DEF vars, imgVars, winVars, callVars, mwVars
<1>1. errs \in Nat /\ stops \in Nat
  BY DEF CrashInv, StepShape, IInv, TypeOK
<1>2. Latest' = Latest
  BY UnchangedLatest
<1>3. StepShape'
  BY DEF CrashInv, StepShape
<1>4. ~lost => SoundVolumes'
  BY <1>1, <1>2, ExcusedKept, VolumesKept DEF CrashInv
<1>5. ~lost => Registers'
  BY <1>2 DEF CrashInv, Registers, Allocating, Unlinked
<1> QED
  BY <1>3, <1>4, <1>5 DEF CrashInv

LEMMA CrashStep == IInv /\ CrashInv /\ [Next]_vars => CrashInv'
<1> SUFFICES ASSUME IInv, CrashInv, [Next]_vars PROVE CrashInv'
  OBVIOUS
<1>1. CASE MoveWindow
  BY <1>1, MoveWindowSafe
<1>2. CASE Start
  BY <1>2, StartSafe
<1>3. CASE Step
  BY <1>3, QuietSteps, TakeSafe, LinkSafe, FillSafe, FillDoneSafe, DirectSafe, EntrySafe,
     UnnameSafe, ReleaseSafe, SyncedSafe DEF Step
<1>4. CASE Stop
  BY <1>4, StopSafe
<1>5. CASE UNCHANGED vars
  BY <1>5, UnchangedSafe
<1> QED
  BY <1>1, <1>2, <1>3, <1>4, <1>5 DEF Next

LEMMA InitSafe == Init => CrashInv
<1> SUFFICES ASSUME Init PROVE CrashInv
  OBVIOUS
<1>1. Latest = image
  <2>1. image \in [Sectors -> Contents] /\ ~wflag
    BY MarkedContents DEF Init
  <2> QED
    BY <2>1 DEF Latest
<1>2. StepShape
  BY DEF Init, StepShape
<1>3. Registers
  BY DEF Init, Registers, Allocating, Unlinked
<1>4. \A s \in Sectors : \A c \in Clusters : c \notin image[s] /\ -c \notin image[s]
  BY MarkFacts DEF Init
<1>5. \A s \in Sectors : \A c \in Clusters : c \notin NameIn(image, s)
  BY <1>4, NameFacts
<1>6. Allocated(image)
  <2>1. \A c \in Clusters : c \notin Named(image)
    BY <1>5, NameFacts
  <2> QED
    BY <2>1 DEF Allocated, Named, NameIn
<1>7. NamedOnce(image)
  BY <1>4, <1>5 DEF NamedOnce
<1>8. EntriesClear(image) /\ LinksClear(image, Excused)
  BY <1>4, FatSectorsAreSectors DEF EntriesClear, LinksClear, HasEntry, IsLinked
<1> QED
  BY <1>1, <1>2, <1>3, <1>6, <1>7, <1>8 DEF CrashInv, SoundVolumes, Sound, LinksKept

LEMMA CrashInvariant == Spec => [](IInv /\ CrashInv)
<1>1. Init => IInv /\ CrashInv
  BY InitShape, InitSafe
<1>2. (IInv /\ CrashInv) /\ [Next]_vars => (IInv /\ CrashInv)'
  BY StepOfStore, CrashStep
<1> QED
  BY <1>1, <1>2, PTL DEF Spec

(* Wherever the program stops, whatever entries and links on the image     *)
(* name is allocated there and is named once (f_mkdir, f_write with        *)
(* f_close, f_unlink: ff.c:2475, 2511, 2015): for every size of the        *)
(* volume, and any number of stops and of failed transfers that were not   *)
(* cut off inside a sector.                                                *)
THEOREM ImageIsCrashSafe == Spec => []CrashSafe
<1>1. CrashInv => CrashSafe
  <2> SUFFICES ASSUME CrashInv, ~lost
               PROVE  /\ Named(image) \subseteq Used(image)
                      /\ \A c \in Clusters :
                            /\ Cardinality({s \in Sectors : c \in NameIn(image, s)}) <= 1
                            /\ \A s \in Sectors \ FatSecs : ~({c, -c} \subseteq image[s])
    BY DEF CrashSafe
  <2>1. Allocated(image) /\ NamedOnce(image)
    BY DEF CrashInv, SoundVolumes, Sound
  <2>2. ASSUME NEW c \in Clusters
        PROVE  Cardinality({s \in Sectors : c \in NameIn(image, s)}) <= 1
    <3> DEFINE S == {s \in Sectors : c \in NameIn(image, s)}
    <3>1. CASE S = {}
      BY <3>1, FS_EmptySet
    <3>2. CASE S # {}
      <4>1. PICK x \in S : TRUE
        BY <3>2
      <4>2. S = {x}
        BY <2>1, <4>1 DEF NamedOnce
      <4>3. Cardinality({x}) = 1
        BY FS_Singleton
      <4> QED
        BY <4>2, <4>3
    <3> QED
      BY <3>1, <3>2
  <2>3. \A c \in Clusters : \A s \in Sectors \ FatSecs : ~({c, -c} \subseteq image[s])
    BY <2>1 DEF NamedOnce
  <2> QED
    BY <2>1, <2>2, <2>3 DEF Allocated
<1> QED
  BY <1>1, CrashInvariant, PTL

(* A directory whose entry is on the image has a cleared table there       *)
(* (ff.c:2541); so has a table that has grown (ff.c:637), unless the       *)
(* program stopped or a transfer failed between the two writes: for every  *)
(* size of the volume.                                                     *)
THEOREM NamedTablesAreCleared == Spec => []TablesCleared
<1>1. CrashInv => TablesCleared
  <2> SUFFICES ASSUME CrashInv, ~lost, NEW c \in Clusters, IsTable(image, c),
                      ~Clear(image, c)
               PROVE  IsLinked(image, c) /\ (call = "grow" \/ stops + errs > 0)
    BY DEF TablesCleared, Clear, IsLinked
  <2>1. EntriesClear(image) /\ LinksClear(image, Excused)
    BY DEF CrashInv, SoundVolumes, Sound
  <2>2. IsLinked(image, c)
    BY <2>1 DEF EntriesClear, HasEntry, IsTable, IsLinked
  <2>3. c \in Excused
    BY <2>1, <2>2 DEF LinksClear
  <2> QED
    BY <2>2, <2>3 DEF Excused
<1> QED
  BY <1>1, CrashInvariant, PTL

-----------------------------------------------------------------------------
(* The copies of the FAT.  A copy differs from the image in the sector     *)
(* that is about to be copied, and in one more for each time the program   *)
(* stopped there.                                                          *)
Differing(n) ==
    {s \in FatSecs : mirror[n][s] # image[s]} \ (IF mw = "mirror" THEN {winsect} ELSE {})

MirrorInv ==
    /\ mirror \in [Copies -> [FatSecs -> Contents]]
    /\ errs \in Nat
    /\ pc = "idle" => mw = "out"
    /\ mw = "mirror" => winsect \in FatSecs /\ win = image[winsect]
    /\ errs = 0 => \A n \in Copies : Cardinality(Differing(n)) <= stops

LEMMA FatSectorsFinite == IsFiniteSet(FatSecs)
<1> DEFINE f == [c \in Clusters |-> FatOf(c)]
<1>1. IsFiniteSet(Clusters)
  BY FS_Interval, SizesAssumption DEF Clusters
<1>2. f \in Surjection(Clusters, FatSecs)
  BY DEF FatSecs, Surjection
<1> QED
  BY <1>1, <1>2, FS_Surjection

LEMMA FewerDiffer ==
    ASSUME MirrorInv, stops \in Nat, NEW n \in Copies, NEW D, D \subseteq Differing(n), errs = 0
    PROVE  Cardinality(D) <= stops
<1>1. IsFiniteSet(Differing(n)) /\ Differing(n) \subseteq FatSecs
  BY FatSectorsFinite, FS_Subset DEF Differing
<1>2. Cardinality(D) <= Cardinality(Differing(n)) /\ Cardinality(D) \in Nat
      /\ Cardinality(Differing(n)) \in Nat
  BY <1>1, FS_Subset, FS_CardinalityType
<1>3. Cardinality(Differing(n)) <= stops
  BY DEF MirrorInv
<1> QED
  BY <1>2, <1>3

LEMMA DifferingNext ==
    ASSUME NEW n \in Copies
    PROVE  Differing(n)' = {s \in FatSecs : mirror'[n][s] # image'[s]}
                               \ (IF mw' = "mirror" THEN {winsect'} ELSE {})
  BY DEF Differing

(* The FAT stays as it is.                                                 *)
LEMMA MirrorsKept ==
    ASSUME MirrorInv, stops \in Nat, mirror' = mirror, \A s \in FatSecs : image'[s] = image[s],
           mw # "mirror", mw' # "mirror", pc' = "idle" => mw' = "out", stops' = stops,
           errs' \in Nat, errs' >= errs
    PROVE  MirrorInv'
<1>1. ASSUME errs' = 0, NEW n \in Copies PROVE Cardinality(Differing(n)') <= stops'
  <2>1. errs = 0
    BY <1>1 DEF MirrorInv
  <2>2. Differing(n)' \subseteq Differing(n)
    BY DifferingNext DEF Differing
  <2> QED
    BY <2>1, <2>2, FewerDiffer
<1> QED
  BY <1>1 DEF MirrorInv

LEMMA MirrorFault ==
    ASSUME MirrorInv, Fault, mirror' \in [Copies -> [FatSecs -> Contents]],
           mw' # "mirror", pc' # "idle"
    PROVE  MirrorInv'
<1>1. errs' \in Nat /\ errs' # 0
  BY DEF MirrorInv, Fault
<1> QED
  BY <1>1 DEF MirrorInv

LEMMA MirrorStarts ==
    ASSUME IInv, MirrorInv, WriteBack, winsect \in FatSecs PROVE MirrorInv'
<1>1. /\ image' = [image EXCEPT ![winsect] = win] /\ mw' = "mirror" /\ winsect \in Sectors
      /\ UNCHANGED <<mirror, winsect, win, pc, stops, errs>> /\ mw = "start" /\ stops \in Nat
      /\ image \in [Sectors -> Contents]
  BY FatSectorsAreSectors DEF WriteBack, IsFat, IInv, TypeOK
<1>2. ASSUME errs' = 0, NEW n \in Copies PROVE Cardinality(Differing(n)') <= stops'
  <2>1. \A s \in Sectors : s # winsect => image'[s] = image[s]
    BY <1>1
  <2>2. Differing(n)' \subseteq Differing(n)
    BY <1>1, <2>1, DifferingNext, FatSectorsAreSectors DEF Differing
  <2> QED
    BY <1>1, <1>2, <2>2, FewerDiffer
<1>3. win' = image'[winsect']
  BY <1>1
<1> QED
  BY <1>1, <1>2, <1>3 DEF MirrorInv

LEMMA MirrorEnds == ASSUME IInv, MirrorInv, Mirror PROVE MirrorInv'
<1>1. PICK bad \in SUBSET Copies :
          /\ IF bad = {} THEN errs' = errs ELSE Fault
          /\ mirror' = [n \in Copies |-> IF n \in bad THEN mirror[n]
                                                      ELSE [mirror[n] EXCEPT ![winsect] = win]]
  BY DEF Mirror
<1>2. /\ mw = "mirror" /\ mw' = "read" /\ UNCHANGED <<image, pc, stops>> /\ stops \in Nat
      /\ winsect \in FatSecs /\ win = image[winsect] /\ win \in Contents /\ pc' # "idle"
  BY DEF Mirror, MirrorInv, IInv, TypeOK
<1>3. mirror' \in [Copies -> [FatSecs -> Contents]]
  BY <1>1, <1>2 DEF MirrorInv
<1>4. CASE bad # {}
  BY <1>1, <1>2, <1>3, <1>4, MirrorFault
<1>5. CASE bad = {}
  <2>1. ASSUME errs' = 0, NEW n \in Copies PROVE Cardinality(Differing(n)') <= stops'
    <3>1. mirror'[n] = [mirror[n] EXCEPT ![winsect] = win] /\ errs = 0
      BY <1>1, <1>5, <2>1
    <3>2. \A s \in FatSecs : mirror'[n][s] = IF s = winsect THEN image[s] ELSE mirror[n][s]
      BY <1>2, <3>1 DEF MirrorInv
    <3>3. Differing(n)' \subseteq Differing(n)
      BY <1>2, <3>2, DifferingNext DEF Differing
    <3> QED
      BY <1>2, <3>1, <3>3, FewerDiffer
  <2>2. errs' \in Nat
    BY <1>1, <1>5 DEF MirrorInv
  <2> QED
    BY <1>2, <1>3, <2>1, <2>2 DEF MirrorInv
<1> QED
  BY <1>4, <1>5

LEMMA MirrorStops == ASSUME IInv, MirrorInv, Stop PROVE MirrorInv'
<1>1. /\ UNCHANGED <<image, mirror, errs>> /\ stops' = stops + 1 /\ stops \in Nat /\ mw' = "out"
  BY DEF Stop, Return, imgVars, IInv, TypeOK
<1>2. ASSUME errs' = 0, NEW n \in Copies PROVE Cardinality(Differing(n)') <= stops'
  <2>1. errs = 0
    BY <1>1, <1>2
  <2>2. IsFiniteSet(Differing(n)) /\ Cardinality(Differing(n)) <= stops
    BY <1>1, <2>1, FatSectorsFinite, FS_Subset, FewerDiffer DEF Differing
  <2>3. Differing(n)' \subseteq Differing(n) \cup {winsect}
    BY <1>1, DifferingNext DEF Differing
  <2>4. /\ IsFiniteSet(Differing(n) \cup {winsect})
        /\ Cardinality(Differing(n) \cup {winsect}) <= stops + 1
        /\ Cardinality(Differing(n) \cup {winsect}) \in Nat
    <3>1. /\ IsFiniteSet(Differing(n) \cup {winsect})
          /\ \/ Cardinality(Differing(n) \cup {winsect}) = Cardinality(Differing(n))
             \/ Cardinality(Differing(n) \cup {winsect}) = Cardinality(Differing(n)) + 1
      BY <2>2, FS_AddElement
    <3>2. Cardinality(Differing(n)) \in Nat
      BY <2>2, FS_CardinalityType
    <3> QED
      BY <1>1, <2>2, <3>1, <3>2
  <2>5. /\ Cardinality(Differing(n)') <= Cardinality(Differing(n) \cup {winsect})
        /\ Cardinality(Differing(n)') \in Nat
    BY <2>3, <2>4, FS_Subset, FS_CardinalityType
  <2> QED
    BY <1>1, <2>4, <2>5
<1> QED
  BY <1>1, <1>2 DEF MirrorInv

LEMMA EveryStepKeepsMirrors == IInv /\ MirrorInv /\ [Next]_vars => MirrorInv'
<1> SUFFICES ASSUME IInv, MirrorInv, [Next]_vars PROVE MirrorInv'
  OBVIOUS
<1> USE DEF imgVars, winVars, cntVars, callVars
<1>1. stops \in Nat /\ errs \in Nat /\ errs >= errs
  BY DEF IInv, TypeOK, MirrorInv
<1>2. CASE Hit
  BY <1>1, <1>2, MirrorsKept DEF Hit, MirrorInv
<1>3. CASE WriteBack
  <2>1. CASE winsect \in FatSecs
    BY <1>3, <2>1, MirrorStarts
  <2>2. CASE winsect \notin FatSecs
    <3>1. \A s \in FatSecs : image'[s] = image[s]
      BY <1>3, <2>2, FatSectorsAreSectors DEF WriteBack, IInv, TypeOK
    <3>2. mw # "mirror" /\ mw' = "read" /\ pc' # "idle" /\ UNCHANGED <<mirror, stops, errs>>
      BY <1>3, <2>2 DEF WriteBack, IsFat, MirrorInv
    <3> QED
      BY <1>1, <3>1, <3>2, MirrorsKept
  <2> QED
    BY <2>1, <2>2
<1>4. CASE WriteBackFails \/ ReadFails
  <2>1. Fault /\ mirror' = mirror /\ mw' = "failed" /\ pc' = pc /\ mw # "out"
    BY <1>4 DEF WriteBackFails, ReadFails, Reading
  <2> QED
    BY <2>1, MirrorFault DEF MirrorInv
<1>5. CASE Mirror
  BY <1>5, MirrorEnds
<1>6. CASE Read
  BY <1>1, <1>6, MirrorsKept DEF Read, Reading, MirrorInv
<1>7. CASE Start
  <2>1. /\ mw = "out" /\ mw' = "start" /\ pc' # "idle"
        /\ UNCHANGED <<image, mirror, stops, errs>>
    BY <1>7 DEF Start, Look, MkdirOrWrite, Grow, Unlink, Begin, Moving, MirrorInv
  <2> QED
    BY <1>1, <2>1, MirrorsKept
<1>8. CASE Looked \/ TakeNone \/ Release \/ Failed
  <2>1. /\ mw # "mirror" /\ mw' # "mirror" /\ (pc' = "idle" => mw' = "out")
        /\ UNCHANGED <<image, mirror, stops, errs>>
    BY <1>8 DEF Looked, TakeNone, Release, Failed, At, Return, Moving
  <2> QED
    BY <1>1, <2>1, MirrorsKept
<1>9. CASE Take \/ Link \/ Flushed \/ FillNext \/ Entry \/ Unname
  <2>1. mw = "ok" /\ UNCHANGED <<image, mirror, stops, errs>>
    BY <1>9 DEF Take, Link, Flushed, FillNext, Entry, Unname, At
  <2>2. mw' # "mirror" /\ pc' # "idle"
    BY <1>9 DEF Take, Link, Flushed, FillNext, Entry, Unname, Place, Moving
  <2> QED
    BY <1>1, <2>1, <2>2, MirrorsKept
<1>10. CASE FillDone
  <2>1. /\ mw = "ok" /\ mw' # "mirror" /\ (pc' = "idle" => mw' = "out")
        /\ UNCHANGED <<image, mirror, stops, errs>>
    BY <1>10 DEF FillDone, At, Return, Moving
  <2> QED
    BY <1>1, <2>1, MirrorsKept
<1>11. CASE Direct
  <2>1. /\ mw = "out" /\ pc = "direct" /\ UNCHANGED <<mirror, pc, mw, stops, errs>>
        /\ fill < CSize /\ fill \in Nat /\ clst \in Clusters
    BY <1>11 DEF Direct, mwVars, IInv, TypeOK, CallShape
  <2>2. \A s \in FatSecs : image'[s] = image[s]
    BY <1>11, <2>1, ClusterSectors, FatSectorsAreSectors DEF Direct, IInv, TypeOK
  <2> QED
    BY <1>1, <2>1, <2>2, MirrorsKept
<1>12. CASE DirectDone
  <2>1. mw = "out" /\ mw' = "start" /\ pc' # "idle" /\ UNCHANGED <<image, mirror, stops, errs>>
    BY <1>12 DEF DirectDone, Moving, IInv, CallShape
  <2> QED
    BY <1>1, <2>1, MirrorsKept
<1>13. CASE DirectFails
  <2>1. /\ mw = "out" /\ mw' # "mirror" /\ (pc' = "idle" => mw' = "out")
        /\ UNCHANGED <<image, mirror, stops>>
    BY <1>13 DEF DirectFails, Moving, Return, IInv, CallShape
  <2>2. errs' \in Nat /\ errs' >= errs
    BY <1>1, <1>13 DEF DirectFails, Fault
  <2> QED
    BY <1>1, <2>1, <2>2, MirrorsKept
<1>14. CASE Synced
  <2>1. mw = "ok" /\ mw' = "out" /\ UNCHANGED <<image, mirror, stops>>
    BY <1>14 DEF Synced, At, Return
  <2>2. errs' \in Nat /\ errs' >= errs
    BY <1>1, <1>14 DEF Synced, Fault
  <2> QED
    BY <1>1, <2>1, <2>2, MirrorsKept
<1>15. CASE Stop
  BY <1>15, MirrorStops
<1>16. CASE UNCHANGED vars
  <2>1. \A n \in Copies : Differing(n)' = Differing(n)
    BY <1>16 DEF vars, mwVars, Differing
  <2> QED
    BY <1>16, <2>1 DEF vars, mwVars, MirrorInv
<1> QED
  BY <1>2, <1>3, <1>4, <1>5, <1>6, <1>7, <1>8, <1>9, <1>10, <1>11, <1>12, <1>13, <1>14,
     <1>15, <1>16 DEF Next, MoveWindow, Step

LEMMA MirrorInit == Init => MirrorInv
<1> SUFFICES ASSUME Init PROVE MirrorInv
  OBVIOUS
<1>1. mirror = [n \in Copies |-> [s \in FatSecs |-> {}]]
  BY DEF Init
<1>2. mirror \in [Copies -> [FatSecs -> Contents]]
  BY <1>1, MarkedContents
<1>3. ASSUME NEW n \in Copies PROVE Cardinality(Differing(n)) <= stops
  <2>1. \A s \in FatSecs : mirror[n][s] = {} /\ image[s] = {}
    BY FatSectorsAreSectors DEF Init
  <2>2. Differing(n) = {}
    BY <2>1 DEF Differing
  <2> QED
    BY <2>2, FS_EmptySet DEF Init
<1> QED
  BY <1>2, <1>3 DEF Init, MirrorInv

(* Without failing transfers each stop of the program leaves a copy of the *)
(* FAT different from the first in one more sector at most (ff.c:268): for *)
(* every size of the volume and any number of copies and stops.            *)
THEOREM CopiesOfTheFat == Spec => []MirrorsAgree
<1>1. Init => IInv /\ MirrorInv
  BY InitShape, MirrorInit
<1>2. (IInv /\ MirrorInv) /\ [Next]_vars => (IInv /\ MirrorInv)'
  BY StepOfStore, EveryStepKeepsMirrors
<1>3. IInv /\ MirrorInv => MirrorsAgree
  <2> SUFFICES ASSUME IInv, MirrorInv, errs = 0, NEW n \in Copies
               PROVE  Cardinality({s \in FatSecs : mirror[n][s] # image[s]})
                          <= stops + (IF mw = "mirror" THEN 1 ELSE 0)
    BY DEF MirrorsAgree
  <2> DEFINE D == {s \in FatSecs : mirror[n][s] # image[s]}
  <2>1. /\ stops \in Nat /\ Cardinality(Differing(n)) <= stops
        /\ IsFiniteSet(Differing(n)) /\ Cardinality(Differing(n)) \in Nat
    BY FatSectorsFinite, FS_Subset, FS_CardinalityType, FewerDiffer
       DEF IInv, TypeOK, Differing
  <2>2. IsFiniteSet(D) /\ Cardinality(D) \in Nat
    BY FatSectorsFinite, FS_Subset, FS_CardinalityType
  <2>3. CASE mw # "mirror"
    <3>1. D = Differing(n)
      BY <2>3 DEF Differing
    <3> QED
      BY <2>1, <2>3, <3>1
  <2>4. CASE mw = "mirror"
    <3>1. D \subseteq Differing(n) \cup {winsect}
      BY <2>4 DEF Differing
    <3>2. /\ IsFiniteSet(Differing(n) \cup {winsect})
          /\ \/ Cardinality(Differing(n) \cup {winsect}) = Cardinality(Differing(n))
             \/ Cardinality(Differing(n) \cup {winsect}) = Cardinality(Differing(n)) + 1
      BY <2>1, FS_AddElement
    <3>3. Cardinality(D) <= Cardinality(Differing(n) \cup {winsect})
      BY <3>1, <3>2, FS_Subset
    <3> HIDE DEF D
    <3>4. Cardinality(D) <= stops + 1
      BY <2>1, <2>2, <3>2, <3>3
    <3> QED
      BY <2>4, <3>4 DEF D
  <2> QED
    BY <2>3, <2>4
<1> QED
  BY <1>1, <1>2, <1>3, PTL DEF Spec
=============================================================================
