--------------------------- MODULE FatChainProofs ---------------------------
(***************************************************************************)
(* Proofs about FatChain for every number of clusters, every set of names, *)
(* both FAT kinds and every number of failed transfers.                    *)
(***************************************************************************)
EXTENDS FatChain, NaturalFacts, FiniteSetTheorems, TLAPS

(* What the registers hold in each procedure of a call.                    *)
FileShape ==
    /\ fil = NoFile => org_clust = 0 /\ curr_clust = 0 /\ ~abort
    /\ fil # NoFile => call \in {"none", "write"} /\ kind[fil] = "file" /\ clust[fil] = 0
    /\ ~abort => org_clust # DiskErr /\ (org_clust = 0 <=> curr_clust = 0)
    /\ curr_clust # 0 => fat[curr_clust] # Free

EntryShape ==
    \A n \in Names : /\ kind[n] = "none" => clust[n] = 0
                     /\ kind[n] = "dir" => clust[n] \in Clusters

CallShape ==
    /\ pc = "idle" <=> call = "none"
    /\ pc = "idle" => dclst = 0
    /\ call = "write" => fil # NoFile /\ ~abort /\ base = curr_clust /\ pc # "register" /\ pc # "remove"
    /\ call \in {"mkdir", "open"} => tgt \in Names /\ par \in Dirs /\ IsDir(par) /\ tgt # par /\ clust[tgt] = 0
    /\ call = "unlink" => pc = "remove"
    /\ call = "mkdir" => kind[tgt] = "none"
    /\ call = "open" => kind[tgt] = IF pc = "remove" THEN "file" ELSE "none"

RegisterShape ==
    /\ pc = "register" => /\ call = "mkdir" => dclst \in Clusters
                          /\ call = "open" => dclst = 0
                          /\ dcl # 0 => fat[dcl] # Free
    /\ pc = "remove" => dclst \in Clusters /\ rcl # 0

ChainShape ==
    /\ pc \in {"scan", "link", "return"} =>
          /\ call = "mkdir" => (dclst = 0 <=> base = 0)
          /\ call = "open" => dclst = 0 /\ base # 0
    /\ pc = "scan" => scl \in 1 .. (MaxClust - 1) /\ ncl \in 1 .. (MaxClust - 1) /\ ret = 0
    /\ pc \in {"scan", "link"} /\ base # 0 => fat[base] = Eoc
    /\ pc = "link" => ncl \in Clusters /\ ncl # base /\ fat[ncl] = Eoc
    /\ pc = "return" /\ ret \in Clusters => fat[ret] # Free

(* The clusters between the start of the search and its candidate, around  *)
(* the end of the FAT, are in use.                                         *)
Searched ==
    pc = "scan" =>
        \A c \in Clusters :
            (IF scl <= ncl THEN scl < c /\ c <= ncl ELSE scl < c \/ c <= ncl) => fat[c] # Free

NoErrorValue ==
    errs = 0 => /\ ret # DiskErr /\ org_clust # DiskErr /\ ~abort
                /\ \A n \in Names : clust[n] # DiskErr

(* A view of the FAT and the entries that may be found at a mount: its     *)
(* chains are apart and hold no free cluster, and no entry starts with an  *)
(* error value unless a transfer has failed.                               *)
StartIn(v, d) == IF d # Root THEN v.clust[d] ELSE IF Fat32 THEN 2 ELSE 0

ApartIn(v) ==
    /\ \A c, d \in Clusters : c # d /\ v.fat[c] \in Clusters => v.fat[c] # v.fat[d]
    /\ \A c \in Clusters, h \in Dirs : v.fat[c] \in Clusters => v.fat[c] # StartIn(v, h)
    /\ \A g, h \in Dirs : g # h /\ StartIn(v, g) \in Clusters => StartIn(v, g) # StartIn(v, h)

FilledIn(v) ==
    /\ \A c \in Clusters : v.fat[c] \in Clusters => v.fat[v.fat[c]] # Free
    /\ \A h \in Dirs : StartIn(v, h) \in Clusters => v.fat[StartIn(v, h)] # Free

EntriesIn(v) ==
    \A n \in Names : /\ v.kind[n] = "none" => v.clust[n] = 0
                     /\ v.kind[n] = "dir" => v.clust[n] \in Clusters

Sound(v) == v \in Views /\ ApartIn(v) /\ FilledIn(v) /\ EntriesIn(v)

NoErrorIn(v) == \A n \in Names : v.clust[n] # DiskErr

Mountable(v) == Sound(v) /\ (errs = 0 => NoErrorIn(v))

ImageInv ==
    /\ Mountable(image)
    /\ image \in Views
    /\ fsi_flag \in BOOLEAN
    /\ fsinfo \in [last : 0 .. MaxClust, free : Int]
    /\ unsynced \in 0 .. MaxUnsynced

IInv ==
    /\ RegistersOK /\ FileShape /\ EntryShape /\ CallShape /\ RegisterShape /\ ChainShape
    /\ NoErrorValue
    /\ Searched /\ FullOnlyWhenFull
    /\ NoDangling /\ NoCrossLink
    /\ NoLostClusters
    /\ FreeCountTracks

-----------------------------------------------------------------------------
USE DEF Clusters, Free, Eoc, DiskErr, IntErr, NoFile

LEMMA Absent == 0 \notin Clusters /\ DiskErr \notin Clusters
BY MaxClustAssumption

(* The holders one by one.                                                 *)
HeldByEach ==
    /\ \A n \in Names : Held(n) = clust[n]
    /\ Held(Root) = IF Fat32 THEN 2 ELSE 0
    /\ Held("new") = IF pc = "link" THEN ncl ELSE IF pc = "return" /\ base = 0 THEN ret ELSE 0
    /\ Held("table") = IF call = "mkdir" /\ pc # "remove" THEN dclst ELSE 0
    /\ Held("rest") = IF pc = "remove" THEN rcl ELSE 0
    /\ Held("file") = org_clust

LEMMA HeldCases == HeldByEach
<1>1. \A n \in Names : Held(n) = clust[n]
  BY NamesAssumption DEF Held, Slots
<1>2. Held(Root) = IF Fat32 THEN 2 ELSE 0
  BY NamesAssumption DEF Held, TableStart, Slots
<1>3. Held("new") = IF pc = "link" THEN ncl ELSE IF pc = "return" /\ base = 0 THEN ret ELSE 0
  BY DEF Held
<1>4. Held("table") = IF call = "mkdir" /\ pc # "remove" THEN dclst ELSE 0
  BY DEF Held
<1>5. Held("rest") = IF pc = "remove" THEN rcl ELSE 0
  BY DEF Held
<1>6. Held("file") = org_clust
  BY NamesAssumption DEF Held, Slots
<1> QED BY <1>1, <1>2, <1>3, <1>4, <1>5, <1>6 DEF HeldByEach

LEMMA HeldCasesNext == HeldByEach'
BY HeldCases, PTL

(* Cardinalities of the set of free clusters.                              *)
LEMMA FreeCount == IsFiniteSet(FreeClusters) /\ Cardinality(FreeClusters) \in Nat
<1>1. IsFiniteSet(Clusters)
  BY FS_Interval, MaxClustAssumption
<1>2. IsFiniteSet(FreeClusters)
  BY <1>1, FS_Subset DEF FreeClusters
<1> QED BY <1>2, FS_CardinalityType

(* The table of an existing directory starts in a cluster in use.          *)
LEMMA TableStarts ==
    ASSUME IInv, NEW d \in Dirs, IsDir(d)
    PROVE  /\ TableStart(d) \in {0} \cup Clusters
           /\ TableStart(d) # 0 => fat[TableStart(d)] # Free
<1>1. TableStart(d) = Held(d)
  BY HeldCases DEF TableStart, HeldByEach, Dirs
<1>2. TableStart(d) \in {0} \cup Clusters
  BY MaxClustAssumption DEF TableStart, IInv, EntryShape, IsDir
<1> QED BY <1>1, <1>2 DEF IInv, NoDangling, Holders

(* What a step does to the chains, told by the holders.  A holder keeps its *)
(* chain, or has none before and after the step.                           *)
Chains == NoDangling /\ NoCrossLink /\ NoLostClusters

Kept(h) == Held(h)' = Held(h) \/ (Held(h) \notin Clusters /\ Held(h)' \notin Clusters)

LEMMA ChainsKept ==
    ASSUME Chains, RegistersOK, fat' = fat, errs' = 0 => errs = 0, unsynced' = unsynced, \A h \in Holders : Kept(h)
    PROVE  Chains'
<1>1. NoDangling'
  BY DEF Chains, NoDangling, Kept
<1>2. NoCrossLink'
  BY DEF Chains, NoCrossLink, LinksApart, StartsUnlinked, StartsApart, Kept
<1>3. NoLostClusters'
  BY DEF Chains, NoLostClusters, Kept
<1> QED BY <1>1, <1>2, <1>3 DEF Chains

(* Holder b, which had no chain, takes the chain of a.                      *)
LEMMA ChainMoved ==
    ASSUME Chains, RegistersOK, fat' = fat, errs' = 0 => errs = 0, unsynced' = unsynced,
           NEW a \in Holders, NEW b \in Holders,
           \A h \in Holders \ {a, b} : Kept(h),
           Held(a)' \notin Clusters, Held(b) \notin Clusters, Held(b)' = Held(a)
    PROVE  Chains'
<1>1. NoDangling'
  BY DEF Chains, NoDangling, Kept
<1>2. NoCrossLink'
  <2>1. LinksApart' /\ StartsUnlinked'
    BY DEF Chains, NoCrossLink, LinksApart, StartsUnlinked, Kept
  <2>2. StartsApart'
    BY DEF Chains, NoCrossLink, StartsApart, Kept
  <2> QED BY <2>1, <2>2 DEF NoCrossLink
<1>3. NoLostClusters'
  BY DEF Chains, NoLostClusters, Kept
<1> QED BY <1>1, <1>2, <1>3 DEF Chains

(* After a failed transfer a holder may drop its chain.                     *)
LEMMA ChainDropped ==
    ASSUME Chains, RegistersOK, fat' = fat, errs' # 0,
           \A h \in Holders : Kept(h) \/ Held(h)' \notin Clusters
    PROVE  Chains'
<1>1. NoDangling'
  BY DEF Chains, NoDangling, Kept
<1>2. NoCrossLink'
  BY DEF Chains, NoCrossLink, LinksApart, StartsUnlinked, StartsApart, Kept
<1>3. NoLostClusters'
  BY DEF NoLostClusters
<1> QED BY <1>1, <1>2, <1>3 DEF Chains

(* The free count keeps track while the FAT and the count stay the same; a *)
(* failed transfer may come between marking a cluster and counting it.     *)
LEMMA CountKept ==
    ASSUME IInv, fat' = fat, free_clust' = free_clust, unsynced' = unsynced,
           \/ errs' = errs /\ Taking' = Taking
           \/ errs' = errs + 1 /\ Taking' \in {Taking, Taking - 1}
    PROVE  FreeCountTracks'
<1>1. FreeClusters' = FreeClusters
  BY DEF FreeClusters
<1> QED BY <1>1, FreeCount DEF IInv, RegistersOK, FreeCountTracks, Taking

LEMMA ScanStep == IInv /\ Scan => IInv'
<1> SUFFICES ASSUME IInv, Scan PROVE IInv'
  OBVIOUS
<1> USE MaxClustAssumption, NamesAssumption, MaxErrorsAssumption DEF Scan, dirVars, fsVars, filVars, scanVars, regVars
<1> RegistersOK /\ FileShape /\ EntryShape /\ CallShape /\ RegisterShape /\ ChainShape
  BY DEF IInv
<1> unsynced' = unsynced
  BY DEF Nowhere, Anywhere, InFat, InTable, InBoth, Stored
<1>1. RegistersOK'
  BY DEF RegistersOK, FatValues, Candidate
<1>2. FileShape' /\ EntryShape'
  BY DEF RegistersOK, FileShape, EntryShape
<1>3. CallShape'
  BY DEF CallShape, IsDir
<1>4. RegisterShape' /\ ChainShape'
  BY DEF RegistersOK, RegisterShape, ChainShape, Candidate
<1>5. NoErrorValue'
  BY DEF IInv, NoErrorValue
<1>6. Searched' /\ FullOnlyWhenFull'
  BY DEF IInv, ChainShape, Searched, FullOnlyWhenFull, FreeClusters, Candidate, WrappedPast,
     CameRound
<1>7. Chains'
  <2>1. CASE pc' # "link"
    <3>1. \A h \in Holders : Kept(h)
      BY <2>1, HeldCases, HeldCasesNext DEF Kept, HeldByEach, Holders, Slots, Dirs, ChainShape
    <3>2. fat' = fat
      BY <2>1
    <3> QED BY <3>1, <3>2, ChainsKept DEF IInv, Chains
  <2>2. CASE pc' = "link"
    <3>1. Candidate \in Clusters /\ fat[Candidate] = Free
      BY <2>2 DEF Candidate, ChainShape
    <3>2. \A c \in Clusters : fat'[c] = IF c = Candidate THEN Eoc ELSE fat[c]
      BY <2>2 DEF RegistersOK
    <3>3. \A h \in Holders : h # "new" => Held(h)' = Held(h)
      BY HeldCases, HeldCasesNext DEF HeldByEach, Holders, Slots, Dirs
    <3>4. Held("new")' = Candidate /\ "new" \in Holders /\ Held("new") = 0
      BY <2>2, HeldCases, HeldCasesNext DEF HeldByEach, Holders, Slots
    <3>5. (\A c \in Clusters : fat[c] # Candidate) /\ (\A h \in Holders : Held(h) # Candidate)
      BY <3>1 DEF IInv, NoDangling
    <3>6. NoDangling'
      BY <3>2, <3>3, <3>4 DEF IInv, NoDangling
    <3>7. NoCrossLink'
      <4>1. LinksApart'
        BY <3>2 DEF IInv, NoCrossLink, LinksApart
      <4>2. StartsUnlinked'
        BY <3>2, <3>3, <3>4, <3>5 DEF IInv, NoCrossLink, StartsUnlinked
      <4>3. StartsApart'
        BY <3>3, <3>4, <3>5 DEF IInv, NoCrossLink, StartsApart
      <4> QED BY <4>1, <4>2, <4>3 DEF NoCrossLink
    <3>8. NoLostClusters'
      BY <3>2, <3>3, <3>4 DEF IInv, NoLostClusters
    <3> QED BY <3>6, <3>7, <3>8 DEF Chains
  <2> QED BY <2>1, <2>2
<1>8. FreeCountTracks'
  <2>1. CASE WrappedPast \/ fat[Candidate] # Free
    <3>1. FreeClusters' = FreeClusters /\ pc' # "link"
      BY <2>1 DEF FreeClusters
    <3> QED BY <3>1 DEF IInv, FreeCountTracks, Taking
  <2>2. CASE ~WrappedPast /\ fat[Candidate] = Free
    <3>1. Candidate \in FreeClusters
      BY <2>2 DEF FreeClusters, Candidate, ChainShape
    <3>2. FreeClusters' = FreeClusters \ {Candidate} /\ pc' = "link"
      BY <2>2 DEF FreeClusters, RegistersOK
    <3>3. Cardinality(FreeClusters') = Cardinality(FreeClusters) - 1
      BY <3>1, <3>2, FreeCount, FS_RemoveElement
    <3> QED BY <3>2, <3>3, FreeCount DEF IInv, RegistersOK, FreeCountTracks, Taking
  <2> QED BY <2>1, <2>2
<1> QED BY <1>1, <1>2, <1>3, <1>4, <1>5, <1>6, <1>7, <1>8 DEF IInv, Chains

LEMMA RemoveLinkStep == IInv /\ RemoveLink => IInv'
<1> SUFFICES ASSUME IInv, RemoveLink PROVE IInv'
  OBVIOUS
<1> USE MaxClustAssumption, NamesAssumption, MaxErrorsAssumption DEF RemoveLink, dirVars, fsVars, filVars, scanVars, regVars
<1> RegistersOK /\ FileShape /\ EntryShape /\ CallShape /\ RegisterShape /\ ChainShape
  BY DEF IInv
<1> unsynced' = unsynced
  BY DEF Nowhere, Anywhere, InFat, InTable, InBoth, Stored
<1>1. RegistersOK'
  BY DEF RegistersOK, FatValues, RegisterShape, AtEndOfChain, CountGiven
<1>2. FileShape' /\ EntryShape'
  BY DEF FileShape, EntryShape, CallShape
<1>3. CallShape'
  BY DEF CallShape, IsDir
<1>4. RegisterShape' /\ ChainShape'
  BY DEF RegisterShape, ChainShape, AtEndOfChain
<1>5. NoErrorValue'
  BY DEF IInv, NoErrorValue
<1>6. Searched' /\ FullOnlyWhenFull'
  BY DEF Searched, FullOnlyWhenFull
<1>7. Chains'
  <2>1. rcl \in Clusters /\ rcl = Held("rest") /\ "rest" \in Holders
    BY HeldCases DEF AtEndOfChain, RegistersOK, RegisterShape, HeldByEach, Holders, Slots
  <2>2. \A c \in Clusters : fat'[c] = IF c = rcl THEN Free ELSE fat[c]
    BY DEF RegistersOK
  <2>3. Held("rest")' = fat[rcl] /\ \A h \in Holders : h # "rest" => Held(h)' = Held(h)
    BY HeldCases, HeldCasesNext DEF HeldByEach, Holders, Slots, Dirs
  <2>4. (\A c \in Clusters : fat[c] # rcl) /\ (\A h \in Holders : h # "rest" => Held(h) # rcl)
    BY <2>1 DEF IInv, NoCrossLink, StartsUnlinked, StartsApart
  <2>5. NoDangling'
    BY <2>1, <2>3, <2>4 DEF IInv, NoDangling
  <2>6. NoCrossLink'
    <3>1. LinksApart'
      BY DEF IInv, NoCrossLink, LinksApart
    <3>2. StartsUnlinked'
      BY <2>1, <2>2, <2>3 DEF IInv, NoCrossLink, LinksApart, StartsUnlinked
    <3>3. StartsApart'
      BY <2>1, <2>3 DEF IInv, NoCrossLink, StartsUnlinked, StartsApart
    <3> QED BY <3>1, <3>2, <3>3 DEF NoCrossLink
  <2>7. NoLostClusters'
    BY <2>1, <2>2, <2>3 DEF IInv, NoLostClusters
  <2> QED BY <2>5, <2>6, <2>7 DEF Chains
<1>8. FreeCountTracks'
  <2>1. rcl \in Clusters /\ rcl \notin FreeClusters
    BY DEF FreeClusters, AtEndOfChain, RegistersOK, RegisterShape
  <2>2. FreeClusters' = FreeClusters \cup {rcl}
    BY <2>1 DEF FreeClusters, RegistersOK
  <2>3. Cardinality(FreeClusters \cup {rcl}) = Cardinality(FreeClusters) + 1
    BY <2>1, FreeCount, FS_AddElement
  <2>4. Cardinality(FreeClusters)' = Cardinality(FreeClusters) + 1
    BY <2>2, <2>3
  <2>5. pc' = pc /\ errs' = errs /\ free_clust' = CountGiven /\ free_clust \in Int /\ errs \in Nat
    BY DEF RegistersOK
  <2> QED BY <2>4, <2>5, FreeCount DEF IInv, FreeCountTracks, Taking, CountGiven
<1> QED BY <1>1, <1>2, <1>3, <1>4, <1>5, <1>6, <1>7, <1>8 DEF IInv, Chains

LEMMA LinkStep == IInv /\ Link => IInv'
<1> SUFFICES ASSUME IInv, Link PROVE IInv'
  OBVIOUS
<1> USE MaxClustAssumption, NamesAssumption, MaxErrorsAssumption DEF Link, dirVars, fsVars, filVars, scanVars, regVars
<1> RegistersOK /\ FileShape /\ EntryShape /\ CallShape /\ RegisterShape /\ ChainShape
  BY DEF IInv
<1> unsynced' = unsynced
  BY DEF Nowhere, Anywhere, InFat, InTable, InBoth, Stored
<1>1. RegistersOK'
  BY DEF RegistersOK, FatValues, ChainShape, CountTaken
<1>2. FileShape' /\ EntryShape'
  BY DEF FileShape, EntryShape, ChainShape
<1>3. CallShape'
  BY DEF CallShape, IsDir
<1>4. RegisterShape' /\ ChainShape'
  BY DEF RegisterShape, ChainShape
<1>5. NoErrorValue'
  BY DEF IInv, RegistersOK, NoErrorValue
<1>6. Searched' /\ FullOnlyWhenFull'
  BY DEF ChainShape, Searched, FullOnlyWhenFull
<1>7. Chains'
  <2>1. CASE base = 0
    <3>1. \A h \in Holders : Kept(h)
      BY <2>1, HeldCases, HeldCasesNext DEF Kept, HeldByEach, Holders, Slots, Dirs
    <3> QED BY <2>1, <3>1, ChainsKept DEF IInv, Chains
  <2>2. CASE base # 0
    <3>1. base \in Clusters /\ ncl \in Clusters /\ fat[base] = Eoc /\ fat[ncl] = Eoc /\ base # ncl
      BY <2>2 DEF RegistersOK, ChainShape
    <3>2. \A c \in Clusters : fat'[c] = IF c = base THEN ncl ELSE fat[c]
      BY DEF RegistersOK
    <3>3. \A h \in Holders : h # "new" => Held(h)' = Held(h)
      BY HeldCases, HeldCasesNext DEF HeldByEach, Holders, Slots, Dirs
    <3>4. Held("new") = ncl /\ Held("new")' = 0 /\ "new" \in Holders
      BY <2>2, HeldCases, HeldCasesNext DEF HeldByEach, Holders, Slots
    <3>5. (\A c \in Clusters : fat[c] # ncl) /\ (\A h \in Holders : h # "new" => Held(h) # ncl)
      BY <3>1, <3>4 DEF IInv, NoCrossLink, StartsUnlinked, StartsApart
    <3>6. NoDangling'
      BY <3>1, <3>3, <3>4 DEF IInv, NoDangling
    <3>7. NoCrossLink'
      <4>1. LinksApart'
        BY <3>5 DEF IInv, NoCrossLink, LinksApart
      <4>2. StartsUnlinked'
        BY <3>3, <3>4, <3>5 DEF IInv, NoCrossLink, StartsUnlinked
      <4>3. StartsApart'
        BY <3>3, <3>4 DEF IInv, NoCrossLink, StartsApart
      <4> QED BY <4>1, <4>2, <4>3 DEF NoCrossLink
    <3>8. NoLostClusters'
      BY <3>1, <3>2, <3>3, <3>4 DEF IInv, NoLostClusters
    <3> QED BY <3>6, <3>7, <3>8 DEF Chains
  <2> QED BY <2>1, <2>2
<1>8. FreeClusters' = FreeClusters
  BY DEF FreeClusters, ChainShape
<1>9. FreeCountTracks'
  BY <1>8, FreeCount DEF IInv, RegistersOK, FreeCountTracks, Taking, CountTaken
<1> QED BY <1>1, <1>2, <1>3, <1>4, <1>5, <1>6, <1>7, <1>9 DEF IInv, Chains

LEMMA ChainErrorStep == IInv /\ ChainError => IInv'
<1> SUFFICES ASSUME IInv, ChainError PROVE IInv'
  OBVIOUS
<1> USE MaxClustAssumption, NamesAssumption, MaxErrorsAssumption DEF ChainError, dirVars, fsVars, filVars, scanVars, regVars
<1> RegistersOK /\ FileShape /\ EntryShape /\ CallShape /\ RegisterShape /\ ChainShape
  BY DEF IInv
<1> unsynced' = unsynced
  BY DEF Nowhere, Anywhere, InFat, InTable, InBoth, Stored
<1>1. RegistersOK'
  BY DEF RegistersOK, Fault
<1>2. FileShape' /\ EntryShape'
  BY DEF FileShape, EntryShape
<1>3. CallShape'
  BY DEF CallShape, IsDir
<1>4. RegisterShape' /\ ChainShape'
  BY DEF RegisterShape, ChainShape
<1>5. NoErrorValue'
  BY DEF RegistersOK, NoErrorValue, Fault
<1>6. Searched' /\ FullOnlyWhenFull'
  BY DEF Searched, FullOnlyWhenFull
<1>7. Chains'
  <2>1. fat' = fat /\ errs' # 0
    BY DEF RegistersOK, Fault
  <2>2. \A h \in Holders : Kept(h) \/ Held(h)' \notin Clusters
    BY HeldCases, HeldCasesNext DEF Kept, HeldByEach, Holders, Slots, Dirs
  <2> QED BY <2>1, <2>2, ChainDropped DEF IInv, Chains
<1>8. FreeCountTracks'
  BY CountKept DEF Taking, Fault
<1> QED BY <1>1, <1>2, <1>3, <1>4, <1>5, <1>6, <1>7, <1>8 DEF IInv, Chains

LEMMA RemoveDoneStep == IInv /\ RemoveDone => IInv'
<1> SUFFICES ASSUME IInv, RemoveDone PROVE IInv'
  OBVIOUS
<1> USE MaxClustAssumption, NamesAssumption, MaxErrorsAssumption DEF RemoveDone, dirVars, fsVars, filVars, scanVars, regVars
<1> RegistersOK /\ FileShape /\ EntryShape /\ CallShape /\ RegisterShape /\ ChainShape
  BY DEF IInv
<1> unsynced' = unsynced
  BY DEF OpenTruncated, Sync, Nowhere, Anywhere, InFat, InTable, InBoth, Stored
<1>1. RegistersOK'
  BY DEF RegistersOK, Results, RegisterShape, FileShape, OpenTruncated, Sync, Done, Return, Fault
<1>2. FileShape' /\ EntryShape'
  BY DEF FileShape, EntryShape, CallShape, OpenTruncated, Done, Return
<1>3. CallShape'
  BY DEF CallShape, OpenTruncated, Sync, Done, Return
<1>4. RegisterShape' /\ ChainShape'
  BY DEF RegisterShape, ChainShape, OpenTruncated, Sync, Done, Return
<1>5. NoErrorValue'
  BY DEF IInv, RegistersOK, NoErrorValue, OpenTruncated, Sync, Done, Return, Fault
<1>6. Searched' /\ FullOnlyWhenFull'
  BY DEF Searched, FullOnlyWhenFull, OpenTruncated, Sync, Done, Return
<1>7. Chains'
  <2>1. rcl \notin Clusters
    <3>1. Held("rest") = rcl /\ "rest" \in Holders
      BY HeldCases DEF HeldByEach, Holders, Slots
    <3>2. rcl \in Clusters => fat[rcl] = Free
      BY DEF AtEndOfChain
    <3> QED BY <3>1, <3>2 DEF IInv, NoDangling
  <2>2. \A h \in Holders : Kept(h)
    BY <2>1, HeldCases, HeldCasesNext DEF Kept, HeldByEach, Holders, Slots, Dirs, OpenTruncated, Sync, Done, Return
  <2>3. fat' = fat /\ (errs' = 0 => errs = 0)
    BY DEF RegistersOK, OpenTruncated, Sync, Done, Fault
  <2> QED BY <2>2, <2>3, ChainsKept DEF IInv, Chains
<1>8. FreeCountTracks'
  BY CountKept DEF Taking, OpenTruncated, Sync, Done, Return, Fault
<1> QED BY <1>1, <1>2, <1>3, <1>4, <1>5, <1>6, <1>7, <1>8 DEF IInv, Chains

LEMMA RemoveErrorStep == IInv /\ RemoveError => IInv'
<1> SUFFICES ASSUME IInv, RemoveError PROVE IInv'
  OBVIOUS
<1> USE MaxClustAssumption, NamesAssumption, MaxErrorsAssumption DEF RemoveError, dirVars, fsVars, filVars, scanVars, regVars
<1> RegistersOK /\ FileShape /\ EntryShape /\ CallShape /\ RegisterShape /\ ChainShape
  BY DEF IInv
<1> unsynced' = unsynced
  BY DEF Nowhere, Anywhere, InFat, InTable, InBoth, Stored
<1>1. RegistersOK'
  BY DEF RegistersOK, Results, CallShape, FileShape, Return, Fault
<1>2. FileShape' /\ EntryShape'
  BY DEF FileShape, EntryShape, Return
<1>3. CallShape'
  BY DEF CallShape, Return
<1>4. RegisterShape' /\ ChainShape'
  BY DEF RegisterShape, ChainShape, Return
<1>5. NoErrorValue'
  BY DEF RegistersOK, NoErrorValue, Fault
<1>6. Searched' /\ FullOnlyWhenFull'
  BY DEF Searched, FullOnlyWhenFull, Return
<1>7. Chains'
  <2>1. fat' = fat /\ errs' # 0
    BY DEF RegistersOK, Fault
  <2>2. \A h \in Holders : Kept(h) \/ Held(h)' \notin Clusters
    BY HeldCases, HeldCasesNext DEF Kept, HeldByEach, Holders, Slots, Dirs, Return
  <2> QED BY <2>1, <2>2, ChainDropped DEF IInv, Chains
<1>8. FreeCountTracks'
  BY CountKept DEF Taking, Return, Fault
<1> QED BY <1>1, <1>2, <1>3, <1>4, <1>5, <1>6, <1>7, <1>8 DEF IInv, Chains

LEMMA MkdirTableStep == IInv /\ MkdirTable => IInv'
<1> SUFFICES ASSUME IInv, MkdirTable PROVE IInv'
  OBVIOUS
<1> USE MaxClustAssumption, NamesAssumption, MaxErrorsAssumption DEF MkdirTable, dirVars, fsVars, filVars, scanVars, regVars
<1> RegistersOK /\ FileShape /\ EntryShape /\ CallShape /\ RegisterShape /\ ChainShape
  BY DEF IInv
<1> unsynced' = unsynced
  BY DEF Nowhere, Anywhere, InFat, InTable, InBoth, Stored
<1>1. RegistersOK'
  <2>1. TableStart(par) \in {0} \cup Clusters
    BY TableStarts DEF CallShape
  <2> QED BY <2>1 DEF RegistersOK
<1>2. FileShape' /\ EntryShape'
  BY DEF FileShape, EntryShape
<1>3. CallShape'
  BY DEF CallShape, IsDir
<1>4. RegisterShape' /\ ChainShape'
  <2>1. TableStart(par) # 0 => fat[TableStart(par)] # Free
    BY TableStarts DEF CallShape
  <2> QED BY <2>1 DEF RegisterShape, ChainShape
<1>5. NoErrorValue'
  BY DEF IInv, NoErrorValue
<1>6. Searched' /\ FullOnlyWhenFull'
  BY DEF Searched, FullOnlyWhenFull
<1>7. Chains'
  <2>1. \A h \in Holders \ {"new", "table"} : Kept(h)
    BY HeldCases, HeldCasesNext DEF Kept, HeldByEach, Holders, Slots, Dirs
  <2>2. fat' = fat /\ (errs' = 0 => errs = 0)
    OBVIOUS
  <2>3. Held("new")' \notin Clusters /\ Held("table") \notin Clusters /\ Held("table")' = Held("new") /\ {"new", "table"} \subseteq Holders
    BY HeldCases, HeldCasesNext DEF HeldByEach, Holders, Slots, ChainShape
  <2> QED BY <2>1, <2>3, ChainMoved DEF IInv, Chains
<1>8. FreeCountTracks'
  BY CountKept DEF Taking
<1> QED BY <1>1, <1>2, <1>3, <1>4, <1>5, <1>6, <1>7, <1>8 DEF IInv, Chains

LEMMA MkdirFailsStep == IInv /\ MkdirFails => IInv'
<1> SUFFICES ASSUME IInv, MkdirFails PROVE IInv'
  OBVIOUS
<1> USE MaxClustAssumption, NamesAssumption, MaxErrorsAssumption DEF MkdirFails, dirVars, fsVars, filVars, scanVars, regVars
<1> RegistersOK /\ FileShape /\ EntryShape /\ CallShape /\ RegisterShape /\ ChainShape
  BY DEF IInv
<1> unsynced' = unsynced
  BY DEF Nowhere, Anywhere, InFat, InTable, InBoth, Stored
<1>1. RegistersOK'
  BY DEF RegistersOK, Results, FileShape, Done, Return, Fault
<1>2. FileShape' /\ EntryShape'
  BY DEF FileShape, EntryShape
<1>3. CallShape'
  BY DEF CallShape, Done, Return
<1>4. RegisterShape' /\ ChainShape'
  BY DEF RegisterShape, ChainShape, Done, Return
<1>5. NoErrorValue'
  BY DEF IInv, RegistersOK, NoErrorValue, Done, Return, Fault
<1>6. Searched' /\ FullOnlyWhenFull'
  BY DEF Searched, FullOnlyWhenFull, Done, Return
<1>7. Chains'
  <2>1. CASE ret \notin Clusters
    <3>1. \A h \in Holders : Kept(h)
      BY <2>1, HeldCases, HeldCasesNext DEF Kept, HeldByEach, Holders, Slots, Dirs, ChainShape,
         Done, Return
    <3>2. fat' = fat /\ (errs' = 0 => errs = 0)
      BY <2>1 DEF Done
    <3> QED BY <3>1, <3>2, ChainsKept DEF IInv, Chains
  <2>2. CASE ret \in Clusters
    <3>1. fat' = fat /\ errs' # 0
      BY <2>2 DEF RegistersOK, Fault
    <3>2. \A h \in Holders : Kept(h) \/ Held(h)' \notin Clusters
      BY <2>2, HeldCases, HeldCasesNext DEF Kept, HeldByEach, Holders, Slots, Dirs, Return
    <3> QED BY <3>1, <3>2, ChainDropped DEF IInv, Chains
  <2> QED BY <2>1, <2>2
<1>8. FreeCountTracks'
  BY CountKept DEF Taking, Done, Return, Fault
<1> QED BY <1>1, <1>2, <1>3, <1>4, <1>5, <1>6, <1>7, <1>8 DEF IInv, Chains

LEMMA RegisterHereStep == IInv /\ RegisterHere => IInv'
<1> SUFFICES ASSUME IInv, RegisterHere PROVE IInv'
  OBVIOUS
<1> USE MaxClustAssumption, NamesAssumption, MaxErrorsAssumption DEF RegisterHere, dirVars, fsVars, filVars, scanVars, regVars
<1> RegistersOK /\ FileShape /\ EntryShape /\ CallShape /\ RegisterShape /\ ChainShape
  BY DEF IInv
<1> unsynced' = unsynced
  BY DEF Sync, Nowhere, Anywhere, InFat, InTable, InBoth, Stored
<1>1. RegistersOK'
  BY DEF RegistersOK, Results, CallShape, FileShape, Sync, Done, Return, Fault
<1>2. FileShape' /\ EntryShape'
  BY DEF RegistersOK, FileShape, EntryShape, CallShape, RegisterShape, Done, Return
<1>3. CallShape'
  BY DEF CallShape, Sync, Done, Return
<1>4. RegisterShape' /\ ChainShape'
  BY DEF RegisterShape, ChainShape, Sync, Done, Return
<1>5. NoErrorValue'
  BY DEF IInv, RegistersOK, NoErrorValue, Sync, Done, Return, Fault
<1>6. Searched' /\ FullOnlyWhenFull'
  BY DEF Searched, FullOnlyWhenFull, Sync, Done, Return
<1>7. Chains'
  <2>0. PICK n \in Names : n = tgt
    BY DEF CallShape
  <2>1. CASE call = "mkdir"
    <3>1. \A h \in Holders \ {"table", n} : Kept(h)
      BY <2>0, HeldCases, HeldCasesNext DEF Kept, HeldByEach, Holders, Slots, Dirs, Sync, Done,
         Return
    <3>2. fat' = fat /\ (errs' = 0 => errs = 0)
      BY DEF RegistersOK, Sync, Done, Fault
    <3>3. Held("table")' \notin Clusters /\ Held(n) \notin Clusters /\ Held(n)' = Held("table") /\ {"table", n} \subseteq Holders
      BY <2>0, <2>1, HeldCases, HeldCasesNext
         DEF HeldByEach, Holders, Slots, RegistersOK, CallShape, Sync, Done, Return
    <3> QED BY <3>1, <3>2, <3>3, ChainMoved DEF IInv, Chains
  <2>2. CASE call = "open"
    <3>1. \A h \in Holders : Kept(h)
      BY <2>2, HeldCases, HeldCasesNext DEF Kept, HeldByEach, Holders, Slots, Dirs, CallShape,
         RegisterShape, Done, Return
    <3>2. fat' = fat /\ (errs' = 0 => errs = 0)
      BY <2>2 DEF Done
    <3> QED BY <3>1, <3>2, ChainsKept DEF IInv, Chains
  <2> QED BY <2>1, <2>2
<1>8. FreeCountTracks'
  BY CountKept DEF Taking, Sync, Done, Return, Fault
<1> QED BY <1>1, <1>2, <1>3, <1>4, <1>5, <1>6, <1>7, <1>8 DEF IInv, Chains

LEMMA RegisterNextStep == IInv /\ RegisterNext => IInv'
<1> SUFFICES ASSUME IInv, RegisterNext PROVE IInv'
  OBVIOUS
<1> USE MaxClustAssumption, NamesAssumption, MaxErrorsAssumption DEF RegisterNext, dirVars, fsVars, filVars, scanVars, regVars
<1> RegistersOK /\ FileShape /\ EntryShape /\ CallShape /\ RegisterShape /\ ChainShape
  BY DEF IInv
<1> unsynced' = unsynced
  BY DEF Nowhere, Anywhere, InFat, InTable, InBoth, Stored
<1>1. RegistersOK'
  BY DEF RegistersOK, FatValues
<1>2. FileShape' /\ EntryShape'
  BY DEF FileShape, EntryShape
<1>3. CallShape'
  BY DEF CallShape, IsDir
<1>4. RegisterShape' /\ ChainShape'
  BY DEF IInv, NoDangling, RegistersOK, FatValues, RegisterShape, ChainShape
<1>5. NoErrorValue'
  BY DEF IInv, NoErrorValue
<1>6. Searched' /\ FullOnlyWhenFull'
  BY DEF Searched, FullOnlyWhenFull
<1>7. Chains'
  <2>1. \A h \in Holders : Kept(h)
    BY HeldCases, HeldCasesNext DEF Kept, HeldByEach, Holders, Slots, Dirs
  <2>2. fat' = fat /\ (errs' = 0 => errs = 0)
    OBVIOUS
  <2> QED BY <2>1, ChainsKept DEF IInv, Chains
<1>8. FreeCountTracks'
  BY CountKept DEF Taking
<1> QED BY <1>1, <1>2, <1>3, <1>4, <1>5, <1>6, <1>7, <1>8 DEF IInv, Chains

LEMMA RegisterStretchStep == IInv /\ RegisterStretch => IInv'
<1> SUFFICES ASSUME IInv, RegisterStretch PROVE IInv'
  OBVIOUS
<1> USE MaxClustAssumption, NamesAssumption, MaxErrorsAssumption DEF RegisterStretch, dirVars, fsVars, filVars, scanVars, regVars
<1> RegistersOK /\ FileShape /\ EntryShape /\ CallShape /\ RegisterShape /\ ChainShape
  BY DEF IInv
<1> unsynced' = unsynced
  BY DEF Nowhere, Anywhere, InFat, InTable, InBoth, Stored
<1>1. RegistersOK'
  BY DEF RegistersOK, FatValues, CreateChain
<1>2. FileShape' /\ EntryShape'
  BY DEF FileShape, EntryShape
<1>3. CallShape'
  BY DEF CallShape, IsDir, CreateChain
<1>4. RegisterShape' /\ ChainShape'
  BY DEF RegistersOK, RegisterShape, ChainShape, FatValues, CreateChain
<1>5. NoErrorValue'
  BY DEF IInv, NoErrorValue, CreateChain
<1>6. Searched' /\ FullOnlyWhenFull'
  BY DEF RegistersOK, Searched, FullOnlyWhenFull, CreateChain
<1>7. Chains'
  <2>1. \A h \in Holders : Kept(h)
    BY HeldCases, HeldCasesNext DEF Kept, HeldByEach, Holders, Slots, Dirs, CreateChain
  <2>2. fat' = fat /\ (errs' = 0 => errs = 0)
    OBVIOUS
  <2> QED BY <2>1, ChainsKept DEF IInv, Chains
<1>8. FreeCountTracks'
  BY CountKept DEF Taking, CreateChain
<1> QED BY <1>1, <1>2, <1>3, <1>4, <1>5, <1>6, <1>7, <1>8 DEF IInv, Chains

LEMMA StretchedStep == IInv /\ Stretched => IInv'
<1> SUFFICES ASSUME IInv, Stretched PROVE IInv'
  OBVIOUS
<1> USE MaxClustAssumption, NamesAssumption, MaxErrorsAssumption DEF Stretched, dirVars, fsVars, filVars, scanVars, regVars
<1> RegistersOK /\ FileShape /\ EntryShape /\ CallShape /\ RegisterShape /\ ChainShape
  BY DEF IInv
<1> unsynced' = unsynced
  BY DEF Nowhere, Anywhere, InFat, InTable, InBoth, Stored
<1>1. RegistersOK'
  BY DEF RegistersOK
<1>2. FileShape' /\ EntryShape'
  BY DEF FileShape, EntryShape
<1>3. CallShape'
  BY DEF CallShape, IsDir, Stretching
<1>4. RegisterShape' /\ ChainShape'
  BY DEF RegistersOK, RegisterShape, ChainShape, Stretching
<1>5. NoErrorValue'
  BY DEF IInv, NoErrorValue
<1>6. Searched' /\ FullOnlyWhenFull'
  BY DEF Searched, FullOnlyWhenFull
<1>7. Chains'
  <2>1. \A h \in Holders : Kept(h)
    BY HeldCases, HeldCasesNext DEF Kept, HeldByEach, Holders, Slots, Dirs, Stretching
  <2>2. fat' = fat /\ (errs' = 0 => errs = 0)
    OBVIOUS
  <2> QED BY <2>1, ChainsKept DEF IInv, Chains
<1>8. FreeCountTracks'
  BY CountKept DEF Taking, Stretching
<1> QED BY <1>1, <1>2, <1>3, <1>4, <1>5, <1>6, <1>7, <1>8 DEF IInv, Chains

LEMMA StretchFailsStep == IInv /\ StretchFails => IInv'
<1> SUFFICES ASSUME IInv, StretchFails PROVE IInv'
  OBVIOUS
<1> USE MaxClustAssumption, NamesAssumption, MaxErrorsAssumption DEF StretchFails, dirVars, fsVars, filVars, scanVars, regVars
<1> RegistersOK /\ FileShape /\ EntryShape /\ CallShape /\ RegisterShape /\ ChainShape
  BY DEF IInv
<1> unsynced' = unsynced
  BY DEF Nowhere, Anywhere, InFat, InTable, InBoth, Stored
<1>1. RegistersOK'
  BY DEF RegistersOK, Results, FileShape, RegisterFails, GiveBack, Return
<1>2. FileShape' /\ EntryShape'
  BY DEF FileShape, EntryShape, RegisterFails, GiveBack
<1>3. CallShape'
  BY DEF CallShape, IsDir, RegisterFails, GiveBack, Return
<1>4. RegisterShape' /\ ChainShape'
  BY DEF RegistersOK, RegisterShape, ChainShape, Stretching, RegisterFails, GiveBack, Return
<1>5. NoErrorValue'
  BY DEF IInv, NoErrorValue, RegisterFails, GiveBack, Return
<1>6. Searched' /\ FullOnlyWhenFull'
  BY DEF Searched, FullOnlyWhenFull, RegisterFails, GiveBack, Return
<1>7. Chains'
  <2>1. CASE call = "mkdir"
    <3>1. \A h \in Holders \ {"table", "rest"} : Kept(h)
      BY <2>1, HeldCases, HeldCasesNext DEF Kept, HeldByEach, Holders, Slots, Dirs, Stretching,
         RegisterFails, GiveBack
    <3>2. fat' = fat /\ (errs' = 0 => errs = 0)
      OBVIOUS
    <3>3. Held("table")' \notin Clusters /\ Held("rest") \notin Clusters /\ Held("rest")' = Held("table") /\ {"table", "rest"} \subseteq Holders
      BY <2>1, HeldCases, HeldCasesNext DEF HeldByEach, Holders, Slots, Stretching, RegisterFails,
         GiveBack
    <3> QED BY <3>1, <3>3, ChainMoved DEF IInv, Chains
  <2>2. CASE call # "mkdir"
    <3>1. \A h \in Holders : Kept(h)
      BY <2>2, HeldCases, HeldCasesNext DEF Kept, HeldByEach, Holders, Slots, Dirs, Stretching,
         RegisterFails, GiveBack, Return
    <3>2. fat' = fat /\ (errs' = 0 => errs = 0)
      OBVIOUS
    <3> QED BY <3>1, ChainsKept DEF IInv, Chains
  <2> QED BY <2>1, <2>2
<1>8. FreeCountTracks'
  BY CountKept DEF Taking, Stretching, RegisterFails, GiveBack, Return
<1> QED BY <1>1, <1>2, <1>3, <1>4, <1>5, <1>6, <1>7, <1>8 DEF IInv, Chains

LEMMA RegisterFullStep == IInv /\ RegisterFull => IInv'
<1> SUFFICES ASSUME IInv, RegisterFull PROVE IInv'
  OBVIOUS
<1> USE MaxClustAssumption, NamesAssumption, MaxErrorsAssumption DEF RegisterFull, dirVars, fsVars, filVars, scanVars, regVars
<1> RegistersOK /\ FileShape /\ EntryShape /\ CallShape /\ RegisterShape /\ ChainShape
  BY DEF IInv
<1> unsynced' = unsynced
  BY DEF Nowhere, Anywhere, InFat, InTable, InBoth, Stored
<1>1. RegistersOK'
  BY DEF RegistersOK, Results, FileShape, RegisterFails, GiveBack, Return
<1>2. FileShape' /\ EntryShape'
  BY DEF FileShape, EntryShape, RegisterFails, GiveBack
<1>3. CallShape'
  BY DEF CallShape, IsDir, RegisterFails, GiveBack, Return
<1>4. RegisterShape' /\ ChainShape'
  BY DEF RegisterShape, ChainShape, RegisterFails, GiveBack, Return
<1>5. NoErrorValue'
  BY DEF IInv, NoErrorValue, RegisterFails, GiveBack, Return
<1>6. Searched' /\ FullOnlyWhenFull'
  BY DEF Searched, FullOnlyWhenFull, RegisterFails, GiveBack, Return
<1>7. Chains'
  <2>1. CASE call = "mkdir"
    <3>1. \A h \in Holders \ {"table", "rest"} : Kept(h)
      BY <2>1, HeldCases, HeldCasesNext DEF Kept, HeldByEach, Holders, Slots, Dirs, RegisterFails,
         GiveBack
    <3>2. fat' = fat /\ (errs' = 0 => errs = 0)
      OBVIOUS
    <3>3. Held("table")' \notin Clusters /\ Held("rest") \notin Clusters /\ Held("rest")' = Held("table") /\ {"table", "rest"} \subseteq Holders
      BY <2>1, HeldCases, HeldCasesNext DEF HeldByEach, Holders, Slots, RegisterFails, GiveBack
    <3> QED BY <3>1, <3>3, ChainMoved DEF IInv, Chains
  <2>2. CASE call # "mkdir"
    <3>1. \A h \in Holders : Kept(h)
      BY <2>2, HeldCases, HeldCasesNext DEF Kept, HeldByEach, Holders, Slots, Dirs, RegisterFails,
         GiveBack, Return
    <3>2. fat' = fat /\ (errs' = 0 => errs = 0)
      OBVIOUS
    <3> QED BY <3>1, ChainsKept DEF IInv, Chains
  <2> QED BY <2>1, <2>2
<1>8. FreeCountTracks'
  BY CountKept DEF Taking, RegisterFails, GiveBack, Return
<1> QED BY <1>1, <1>2, <1>3, <1>4, <1>5, <1>6, <1>7, <1>8 DEF IInv, Chains

LEMMA RegisterErrorStep == IInv /\ RegisterError => IInv'
<1> SUFFICES ASSUME IInv, RegisterError PROVE IInv'
  OBVIOUS
<1> USE MaxClustAssumption, NamesAssumption, MaxErrorsAssumption DEF RegisterError, dirVars, fsVars, filVars, scanVars, regVars
<1> RegistersOK /\ FileShape /\ EntryShape /\ CallShape /\ RegisterShape /\ ChainShape
  BY DEF IInv
<1> unsynced' = unsynced
  BY DEF Nowhere, Anywhere, InFat, InTable, InBoth, Stored
<1>1. RegistersOK'
  BY DEF RegistersOK, Dirs, Results, RegisterShape, RegisterFails, GiveBack, Return, Fault
<1>2. FileShape' /\ EntryShape'
  BY DEF FileShape, EntryShape, RegisterFails, GiveBack
<1>3. CallShape'
  BY DEF CallShape, IsDir, RegisterFails, GiveBack, Return
<1>4. RegisterShape' /\ ChainShape'
  BY DEF RegistersOK, RegisterShape, ChainShape, Stretching, RegisterFails, GiveBack, Return
<1>5. NoErrorValue'
  BY DEF RegistersOK, NoErrorValue, Fault
<1>6. Searched' /\ FullOnlyWhenFull'
  BY DEF Searched, FullOnlyWhenFull, RegisterFails, GiveBack, Return
<1>7. Chains'
  <2>1. CASE call = "mkdir"
    <3>1. \A h \in Holders \ {"table", "rest"} : Kept(h)
      BY <2>1, HeldCases, HeldCasesNext DEF Kept, HeldByEach, Holders, Slots, Dirs, Stretching,
         RegisterFails, GiveBack
    <3>2. fat' = fat /\ (errs' = 0 => errs = 0)
      BY DEF RegistersOK, Fault
    <3>3. Held("table")' \notin Clusters /\ Held("rest") \notin Clusters /\ Held("rest")' = Held("table") /\ {"table", "rest"} \subseteq Holders
      BY <2>1, HeldCases, HeldCasesNext DEF HeldByEach, Holders, Slots, Stretching, RegisterFails,
         GiveBack
    <3> QED BY <3>1, <3>2, <3>3, ChainMoved DEF IInv, Chains
  <2>2. CASE call # "mkdir"
    <3>1. \A h \in Holders : Kept(h)
      BY <2>2, HeldCases, HeldCasesNext DEF Kept, HeldByEach, Holders, Slots, Dirs, Stretching,
         RegisterFails, GiveBack, Return
    <3>2. fat' = fat /\ (errs' = 0 => errs = 0)
      BY DEF RegistersOK, Fault
    <3> QED BY <3>1, <3>2, ChainsKept DEF IInv, Chains
  <2> QED BY <2>1, <2>2
<1>8. FreeCountTracks'
  BY CountKept DEF Taking, RegisterFails, GiveBack, Return, Fault
<1> QED BY <1>1, <1>2, <1>3, <1>4, <1>5, <1>6, <1>7, <1>8 DEF IInv, Chains

LEMMA WriteClusterStep == IInv /\ WriteCluster => IInv'
<1> SUFFICES ASSUME IInv, WriteCluster PROVE IInv'
  OBVIOUS
<1> USE MaxClustAssumption, NamesAssumption, MaxErrorsAssumption DEF WriteCluster, dirVars, fsVars, filVars, scanVars, regVars
<1> RegistersOK /\ FileShape /\ EntryShape /\ CallShape /\ RegisterShape /\ ChainShape
  BY DEF IInv
<1> unsynced' = unsynced
  BY DEF Nowhere, Anywhere, InFat, InTable, InBoth, Stored
<1>1. RegistersOK'
  <2>1. abort' \in BOOLEAN
    BY Zenon DEF RegistersOK
  <2> QED BY <2>1 DEF RegistersOK, Results, Dirs, Origin, Done, Return, Fault
<1>2. FileShape' /\ EntryShape'
  BY DEF FileShape, EntryShape, CallShape, ChainShape, Origin, Done, Return
<1>3. CallShape'
  BY DEF CallShape, Done, Return
<1>4. RegisterShape' /\ ChainShape'
  BY DEF RegisterShape, ChainShape, Done, Return
<1>5. NoErrorValue'
  BY DEF IInv, RegistersOK, NoErrorValue, Origin, Done, Return, Fault
<1>6. Searched' /\ FullOnlyWhenFull'
  BY DEF Searched, FullOnlyWhenFull, Done, Return
<1>7. Chains'
  <2>1. CASE base = 0
    <3>1. \A h \in Holders \ {"new", "file"} : Kept(h)
      BY HeldCases, HeldCasesNext DEF Kept, HeldByEach, Holders, Slots, Dirs, Done, Return
    <3>2. fat' = fat /\ (errs' = 0 => errs = 0)
      BY DEF RegistersOK, Done, Fault
    <3>3. Held("new")' \notin Clusters /\ Held("file") \notin Clusters /\ Held("file")' = Held("new") /\ {"new", "file"} \subseteq Holders
      BY <2>1, HeldCases, HeldCasesNext DEF HeldByEach, Holders, Slots, FileShape, CallShape,
         Origin, Done, Return
    <3> QED BY <3>1, <3>2, <3>3, ChainMoved DEF IInv, Chains
  <2>2. CASE base # 0
    <3>1. \A h \in Holders : Kept(h)
      BY <2>2, HeldCases, HeldCasesNext DEF Kept, HeldByEach, Holders, Slots, Dirs, FileShape,
         CallShape, Origin, Done, Return
    <3>2. fat' = fat /\ (errs' = 0 => errs = 0)
      BY DEF RegistersOK, Done, Fault
    <3> QED BY <3>1, <3>2, ChainsKept DEF IInv, Chains
  <2> QED BY <2>1, <2>2
<1>8. FreeCountTracks'
  BY CountKept DEF Taking, Done, Return, Fault
<1> QED BY <1>1, <1>2, <1>3, <1>4, <1>5, <1>6, <1>7, <1>8 DEF IInv, Chains

LEMMA MkdirStep ==
    ASSUME NEW n \in Names, NEW p \in Dirs, IInv, Mkdir(n, p) PROVE IInv'
<1> USE MaxClustAssumption, NamesAssumption, MaxErrorsAssumption DEF Mkdir, dirVars, fsVars, filVars, scanVars, regVars
<1> RegistersOK /\ FileShape /\ EntryShape /\ CallShape /\ RegisterShape /\ ChainShape
  BY DEF IInv
<1> unsynced' = unsynced
  BY DEF Nowhere, Anywhere, InFat, InTable, InBoth, Stored
<1>1. RegistersOK'
  BY DEF RegistersOK, FatValues, Dirs, Results, ChainShape, RegisterShape, CallShape, FileShape,
     CreateChain, Suggested, Done, Return
<1>2. FileShape' /\ EntryShape'
  BY DEF FileShape, EntryShape
<1>3. CallShape'
  BY DEF CallShape, IsDir, EntryShape, CreateChain, Done, Return
<1>4. RegisterShape' /\ ChainShape'
  BY DEF RegistersOK, CallShape, RegisterShape, ChainShape, CreateChain, Suggested, Done, Return
<1>5. NoErrorValue'
  BY DEF IInv, NoErrorValue, CreateChain, Done, Return
<1>6. Searched' /\ FullOnlyWhenFull'
  BY DEF RegistersOK, Searched, FullOnlyWhenFull, CreateChain, Suggested, Done, Return
<1>7. Chains'
  <2>1. \A h \in Holders : Kept(h)
    BY HeldCases, HeldCasesNext DEF Kept, HeldByEach, Holders, Slots, Dirs, CallShape,
       CreateChain, Done, Return
  <2>2. fat' = fat /\ (errs' = 0 => errs = 0)
    BY DEF Done
  <2> QED BY <2>1, <2>2, ChainsKept DEF IInv, Chains
<1>8. FreeCountTracks'
  BY CountKept DEF Taking, CreateChain, Done, Return
<1> QED BY <1>1, <1>2, <1>3, <1>4, <1>5, <1>6, <1>7, <1>8 DEF IInv, Chains

LEMMA OpenStep ==
    ASSUME NEW n \in Names, NEW p \in Dirs, IInv, Open(n, p) PROVE IInv'
<1> USE MaxClustAssumption, NamesAssumption, MaxErrorsAssumption DEF Open, dirVars, fsVars, filVars, scanVars, regVars
<1> RegistersOK /\ FileShape /\ EntryShape /\ CallShape /\ RegisterShape /\ ChainShape
  BY DEF IInv
<1> unsynced' = unsynced
  BY DEF Nowhere, Anywhere, InFat, InTable, InBoth, Stored
<1>1. RegistersOK'
  <2>1. CASE OpenNew(n, p)
    BY <2>1, TableStarts DEF OpenNew, RegistersOK, Dirs
  <2>2. CASE OpenDenied(n)
    BY <2>2 DEF OpenDenied, Done, Return, RegistersOK, Results
  <2>3. CASE OpenOver(n, p)
    BY <2>3 DEF OpenOver, Done, Return, RegistersOK, Results, Dirs
  <2> QED BY <2>1, <2>2, <2>3
<1>2. FileShape' /\ EntryShape'
  BY DEF RegistersOK, FileShape, EntryShape, OpenNew, OpenDenied, OpenOver, Done, Return
<1>3. CallShape'
  BY DEF RegistersOK, CallShape, IsDir, EntryShape, OpenNew, OpenDenied, OpenOver, Done, Return
<1>4. RegisterShape' /\ ChainShape'
  <2>1. CASE OpenNew(n, p)
    BY <2>1, TableStarts DEF OpenNew, CallShape, RegisterShape, ChainShape
  <2>2. CASE OpenDenied(n)
    BY <2>2 DEF OpenDenied, Done, Return, RegisterShape, ChainShape
  <2>3. CASE OpenOver(n, p)
    BY <2>3 DEF OpenOver, Done, Return, RegisterShape, ChainShape
  <2> QED BY <2>1, <2>2, <2>3
<1>5. NoErrorValue'
  BY DEF IInv, RegistersOK, NoErrorValue, OpenNew, OpenDenied, OpenOver, Done, Return
<1>6. Searched' /\ FullOnlyWhenFull'
  BY DEF Searched, FullOnlyWhenFull, OpenNew, OpenDenied, OpenOver, Done, Return
<1>7. Chains'
  <2>1. CASE OpenOver(n, p) /\ clust[n] \in Clusters
    <3>1. \A h \in Holders \ {n, "rest"} : Kept(h)
      BY <2>1, HeldCases, HeldCasesNext DEF Kept, HeldByEach, Holders, Slots, Dirs, CallShape,
         OpenOver
    <3>2. fat' = fat /\ (errs' = 0 => errs = 0)
      BY <2>1 DEF OpenOver
    <3>3. Held(n)' \notin Clusters /\ Held("rest") \notin Clusters /\ Held("rest")' = Held(n) /\ {n, "rest"} \subseteq Holders
      BY <2>1, HeldCases, HeldCasesNext DEF HeldByEach, Holders, Slots, Dirs, RegistersOK, OpenOver
    <3> QED BY <3>1, <3>2, <3>3, ChainMoved DEF IInv, Chains
  <2>2. CASE ~(OpenOver(n, p) /\ clust[n] \in Clusters)
    <3>1. \A h \in Holders : Kept(h)
      BY <2>2, HeldCases, HeldCasesNext DEF Kept, HeldByEach, Holders, Slots, Dirs, RegistersOK,
         CallShape, OpenNew, OpenDenied, OpenOver, Done, Return
    <3>2. fat' = fat /\ (errs' = 0 => errs = 0)
      BY DEF OpenNew, OpenDenied, OpenOver, Done
    <3> QED BY <3>1, <3>2, ChainsKept DEF IInv, Chains
  <2> QED BY <2>1, <2>2
<1>8. FreeCountTracks'
  BY CountKept DEF Taking, OpenNew, OpenDenied, OpenOver, Done, Return
<1> QED BY <1>1, <1>2, <1>3, <1>4, <1>5, <1>6, <1>7, <1>8 DEF IInv, Chains

LEMMA WriteStep == IInv /\ Write => IInv'
<1> SUFFICES ASSUME IInv, Write PROVE IInv'
  OBVIOUS
<1> USE MaxClustAssumption, NamesAssumption, MaxErrorsAssumption DEF Write, dirVars, fsVars, filVars, scanVars, regVars
<1> RegistersOK /\ FileShape /\ EntryShape /\ CallShape /\ RegisterShape /\ ChainShape
  BY DEF IInv
<1> unsynced' = unsynced
  BY DEF Nowhere, Anywhere, InFat, InTable, InBoth, Stored
<1>1. RegistersOK'
  BY DEF RegistersOK, FatValues, Dirs, Results, ChainShape, RegisterShape, CallShape, FileShape,
     CreateChain, Suggested, Done, Return
<1>2. FileShape' /\ EntryShape'
  BY DEF FileShape, EntryShape, Done, Return
<1>3. CallShape'
  BY DEF CallShape, CreateChain, Done, Return
<1>4. RegisterShape' /\ ChainShape'
  BY DEF IInv, NoDangling, RegistersOK, FatValues, FileShape, RegisterShape, ChainShape, CreateChain,
     Suggested, Done, Return
<1>5. NoErrorValue'
  BY DEF IInv, NoErrorValue, CreateChain, Done
<1>6. Searched' /\ FullOnlyWhenFull'
  BY DEF RegistersOK, Searched, FullOnlyWhenFull, CreateChain, Suggested, Done, Return
<1>7. Chains'
  <2>1. \A h \in Holders : Kept(h)
    BY HeldCases, HeldCasesNext DEF Kept, HeldByEach, Holders, Slots, Dirs, CallShape,
       CreateChain, Done, Return
  <2>2. fat' = fat /\ (errs' = 0 => errs = 0)
    BY DEF Done
  <2> QED BY <2>1, <2>2, ChainsKept DEF IInv, Chains
<1>8. FreeCountTracks'
  BY CountKept DEF Taking, CreateChain, Done, Return
<1> QED BY <1>1, <1>2, <1>3, <1>4, <1>5, <1>6, <1>7, <1>8 DEF IInv, Chains

LEMMA CloseStep == IInv /\ Close => IInv'
<1> SUFFICES ASSUME IInv, Close PROVE IInv'
  OBVIOUS
<1> USE MaxClustAssumption, NamesAssumption, MaxErrorsAssumption DEF Close, dirVars, fsVars, filVars, scanVars, regVars
<1> RegistersOK /\ FileShape /\ EntryShape /\ CallShape /\ RegisterShape /\ ChainShape
  BY DEF IInv
<1> unsynced' = unsynced
  BY DEF Sync, Nowhere, Anywhere, InFat, InTable, InBoth, Stored
<1>1. RegistersOK'
  <2>1. abort' \in BOOLEAN
    BY Zenon DEF RegistersOK
  <2> QED BY <2>1 DEF RegistersOK, Results, Dirs, Sync, Done, Return, Fault
<1>2. FileShape' /\ EntryShape'
  BY DEF RegistersOK, FileShape, EntryShape
<1>3. CallShape'
  BY DEF CallShape, Sync, Done, Return
<1>4. RegisterShape' /\ ChainShape'
  BY DEF RegisterShape, ChainShape, Sync, Done, Return
<1>5. NoErrorValue'
  BY DEF IInv, RegistersOK, NoErrorValue, Sync, Done, Return, Fault
<1>6. Searched' /\ FullOnlyWhenFull'
  BY DEF Searched, FullOnlyWhenFull, Sync, Done, Return
<1>7. Chains'
  <2>0. PICK n \in Names : n = fil
    BY DEF RegistersOK, Dirs
  <2>1. CASE clust'[n] = org_clust
    <3>1. \A h \in Holders \ {"file", n} : Kept(h)
      BY <2>0, HeldCases, HeldCasesNext DEF Kept, HeldByEach, Holders, Slots, Dirs, RegistersOK,
         CallShape, Sync, Done, Return
    <3>2. fat' = fat /\ (errs' = 0 => errs = 0)
      BY DEF RegistersOK, Sync, Done, Fault
    <3>3. Held("file")' \notin Clusters /\ Held(n) \notin Clusters /\ Held(n)' = Held("file") /\ {"file", n} \subseteq Holders
      BY <2>0, <2>1, HeldCases, HeldCasesNext DEF HeldByEach, Holders, Slots, RegistersOK, FileShape
    <3> QED BY <3>1, <3>2, <3>3, ChainMoved DEF IInv, Chains
  <2>2. CASE clust'[n] # org_clust
    <3>1. fat' = fat /\ errs' # 0
      BY <2>0, <2>2 DEF RegistersOK, Fault
    <3>2. \A h \in Holders : Kept(h) \/ Held(h)' \notin Clusters
      BY <2>0, <2>2, HeldCases, HeldCasesNext
         DEF Kept, HeldByEach, Holders, Slots, Dirs, RegistersOK, Return
    <3> QED BY <3>1, <3>2, ChainDropped DEF IInv, Chains
  <2> QED BY <2>1, <2>2
<1>8. FreeCountTracks'
  BY CountKept DEF Taking, Sync, Done, Return, Fault
<1> QED BY <1>1, <1>2, <1>3, <1>4, <1>5, <1>6, <1>7, <1>8 DEF IInv, Chains

LEMMA UnlinkStep ==
    ASSUME NEW n \in Names, IInv, Unlink(n) PROVE IInv'
<1> USE MaxClustAssumption, NamesAssumption, MaxErrorsAssumption DEF Unlink, dirVars, fsVars, filVars, scanVars, regVars
<1> RegistersOK /\ FileShape /\ EntryShape /\ CallShape /\ RegisterShape /\ ChainShape
  BY DEF IInv
<1> unsynced' = unsynced
  BY DEF UnlinkRefused, UnlinkEntry, Sync, Nowhere, Anywhere, InFat, InTable, InBoth, Stored
<1>1. RegistersOK'
  <2>1. CASE UnlinkRefused(n)
    BY <2>1 DEF UnlinkRefused, Done, Return, RegistersOK, Results
  <2>2. CASE UnlinkEntry(n)
    BY <2>2 DEF UnlinkEntry, Sync, Fault, Done, Return, RegistersOK, Results, Dirs
  <2> QED BY <2>1, <2>2
<1>2. FileShape' /\ EntryShape'
  BY DEF RegistersOK, FileShape, EntryShape, UnlinkRefused, UnlinkEntry
<1>3. CallShape'
  BY DEF CallShape, UnlinkRefused, UnlinkEntry, Sync, Done, Return
<1>4. RegisterShape' /\ ChainShape'
  BY DEF RegisterShape, ChainShape, UnlinkRefused, UnlinkEntry, Sync, Done, Return
<1>5. NoErrorValue'
  BY DEF IInv, RegistersOK, NoErrorValue, UnlinkRefused, UnlinkEntry, Sync, Done, Return, Fault
<1>6. Searched' /\ FullOnlyWhenFull'
  BY DEF Searched, FullOnlyWhenFull, UnlinkRefused, UnlinkEntry, Sync, Done, Return
<1>7. Chains'
  <2>1. CASE UnlinkEntry(n) /\ clust[n] \in Clusters
    <3>1. \A h \in Holders \ {n, "rest"} : Kept(h)
      BY <2>1, HeldCases, HeldCasesNext DEF Kept, HeldByEach, Holders, Slots, Dirs, CallShape,
         UnlinkEntry
    <3>2. fat' = fat /\ (errs' = 0 => errs = 0)
      BY <2>1 DEF UnlinkEntry
    <3>3. Held(n)' \notin Clusters /\ Held("rest") \notin Clusters /\ Held("rest")' = Held(n) /\ {n, "rest"} \subseteq Holders
      BY <2>1, HeldCases, HeldCasesNext DEF HeldByEach, Holders, Slots, Dirs, RegistersOK, UnlinkEntry
    <3> QED BY <3>1, <3>2, <3>3, ChainMoved DEF IInv, Chains
  <2>2. CASE ~(UnlinkEntry(n) /\ clust[n] \in Clusters)
    <3>1. \A h \in Holders : Kept(h)
      BY <2>2, HeldCases, HeldCasesNext DEF Kept, HeldByEach, Holders, Slots, Dirs, RegistersOK,
         CallShape, UnlinkRefused, UnlinkEntry, Sync, Done, Return
    <3>2. fat' = fat /\ (errs' = 0 => errs = 0)
      BY DEF RegistersOK, UnlinkRefused, UnlinkEntry, Sync, Done, Fault
    <3> QED BY <3>1, <3>2, ChainsKept DEF IInv, Chains
  <2> QED BY <2>1, <2>2
<1>8. FreeCountTracks'
  BY CountKept DEF Taking, UnlinkRefused, UnlinkEntry, Sync, Done, Return, Fault
<1> QED BY <1>1, <1>2, <1>3, <1>4, <1>5, <1>6, <1>7, <1>8 DEF IInv, Chains

LEMMA ChmodStep ==
    ASSUME NEW n \in Names, IInv, Chmod(n) PROVE IInv'
<1> USE MaxClustAssumption, NamesAssumption, MaxErrorsAssumption DEF Chmod, dirVars, fsVars, filVars, scanVars, regVars
<1> RegistersOK /\ FileShape /\ EntryShape /\ CallShape /\ RegisterShape /\ ChainShape
  BY DEF IInv
<1> unsynced' = unsynced
  BY DEF Sync, Nowhere, Anywhere, InFat, InTable, InBoth, Stored
<1>1. RegistersOK'
  BY DEF RegistersOK, Results, Sync, Done, Return, Fault
<1>2. FileShape' /\ EntryShape'
  BY DEF FileShape, EntryShape
<1>3. CallShape'
  BY DEF CallShape, Sync, Done, Return
<1>4. RegisterShape' /\ ChainShape'
  BY DEF RegisterShape, ChainShape, Sync, Done, Return
<1>5. NoErrorValue'
  BY DEF IInv, RegistersOK, NoErrorValue, Sync, Done, Return, Fault
<1>6. Searched' /\ FullOnlyWhenFull'
  BY DEF Searched, FullOnlyWhenFull, Sync, Done, Return
<1>7. Chains'
  <2>1. \A h \in Holders : Kept(h)
    BY HeldCases, HeldCasesNext DEF Kept, HeldByEach, Holders, Slots, Dirs, CallShape, Sync, Done,
       Return
  <2>2. fat' = fat /\ (errs' = 0 => errs = 0)
    BY DEF RegistersOK, Sync, Done, Fault
  <2> QED BY <2>1, <2>2, ChainsKept DEF IInv, Chains
<1>8. FreeCountTracks'
  BY CountKept DEF Taking, Sync, Done, Return, Fault
<1> QED BY <1>1, <1>2, <1>3, <1>4, <1>5, <1>6, <1>7, <1>8 DEF IInv, Chains

LEMMA LookupErrorStep == IInv /\ LookupError => IInv'
<1> SUFFICES ASSUME IInv, LookupError PROVE IInv'
  OBVIOUS
<1> USE MaxClustAssumption, NamesAssumption, MaxErrorsAssumption DEF LookupError, dirVars, fsVars, filVars, scanVars, regVars
<1> RegistersOK /\ FileShape /\ EntryShape /\ CallShape /\ RegisterShape /\ ChainShape
  BY DEF IInv
<1> unsynced' = unsynced
  BY DEF Nowhere, Anywhere, InFat, InTable, InBoth, Stored
<1>1. RegistersOK'
  BY DEF RegistersOK, Results, Return, Fault
<1>2. FileShape' /\ EntryShape'
  BY DEF FileShape, EntryShape
<1>3. CallShape'
  BY DEF CallShape, Return
<1>4. RegisterShape' /\ ChainShape'
  BY DEF RegisterShape, ChainShape, Return
<1>5. NoErrorValue'
  BY DEF RegistersOK, NoErrorValue, Fault
<1>6. Searched' /\ FullOnlyWhenFull'
  BY DEF Searched, FullOnlyWhenFull, Return
<1>7. Chains'
  <2>1. \A h \in Holders : Kept(h)
    BY HeldCases, HeldCasesNext DEF Kept, HeldByEach, Holders, Slots, Dirs, CallShape, Return
  <2>2. fat' = fat /\ (errs' = 0 => errs = 0)
    BY DEF RegistersOK, Fault
  <2> QED BY <2>1, <2>2, ChainsKept DEF IInv, Chains
<1>8. FreeCountTracks'
  BY CountKept DEF Taking, Return, Fault
<1> QED BY <1>1, <1>2, <1>3, <1>4, <1>5, <1>6, <1>7, <1>8 DEF IInv, Chains

(* A mount finds a sound view: the invariant holds of what is on the image *)
(* as it does of what the program saw.                                     *)
LEMMA RemountStep == IInv /\ ImageInv /\ Remount => IInv'
<1> SUFFICES ASSUME IInv, ImageInv, Remount PROVE IInv'
  OBVIOUS
<1> USE MaxClustAssumption, NamesAssumption, MaxErrorsAssumption, Fat32Assumption
<1>1. RegistersOK /\ CallShape
  BY DEF IInv
<1>2. /\ pc = "idle" /\ call = "none" /\ dclst = 0 /\ UNCHANGED <<scanVars, regVars, pc, rcl, errs>>
      /\ fil' = NoFile /\ org_clust' = 0 /\ curr_clust' = 0 /\ abort' = FALSE /\ res' = "OK"
      /\ fat' = image.fat /\ kind' = image.kind /\ clust' = image.clust
      /\ parent' = image.parent /\ rdo' = image.rdo
  BY <1>1 DEF Remount, CallShape
<1>3. image \in Views /\ ApartIn(image) /\ FilledIn(image) /\ EntriesIn(image) /\ (errs = 0 => NoErrorIn(image))
  BY DEF ImageInv, Mountable, Sound
<1>4. RegistersOK'
  <2>1. fat' \in [Clusters -> FatValues] /\ kind' \in [Names -> {"none", "file", "dir"}]
    BY <1>2, <1>3 DEF Views
  <2>2. clust' \in [Names -> {0, DiskErr} \cup Clusters] /\ parent' \in [Names -> Dirs] /\ rdo' \in SUBSET Names
    BY <1>2, <1>3 DEF Views
  <2>3. last_clust' \in 0 .. MaxClust /\ free_clust' \in Int
    <3>1. fsinfo.last \in 0 .. MaxClust /\ fsinfo.free \in Int
      BY DEF ImageInv
    <3> QED BY <3>1 DEF Remount, UnknownCount
  <2>4. fil' \in Dirs /\ org_clust' \in {0, DiskErr} \cup Clusters /\ curr_clust' \in {0} \cup Clusters
    BY <1>2 DEF Dirs
  <2>5. abort' \in BOOLEAN
    BY <1>2, Zenon
  <2> QED BY ONLY <1>1, <1>2, <2>1, <2>2, <2>3, <2>4, <2>5 DEF RegistersOK, scanVars, regVars, Results
<1>5. FileShape' /\ EntryShape'
  BY <1>2, <1>3 DEF FileShape, EntryShape, EntriesIn
<1>6. CallShape'
  BY <1>1, <1>2 DEF CallShape, scanVars, regVars
<1>7. RegisterShape' /\ ChainShape' /\ Searched' /\ FullOnlyWhenFull'
  BY <1>2 DEF RegisterShape, ChainShape, Searched, FullOnlyWhenFull
<1>8. NoErrorValue'
  BY <1>2, <1>3 DEF IInv, NoErrorValue, NoErrorIn, scanVars
<1>9. /\ \A h \in Dirs : Held(h)' = StartIn(image, h)
      /\ \A h \in Holders : h \in Dirs \/ Held(h)' = 0
  BY <1>2, HeldCasesNext DEF HeldByEach, StartIn, Dirs, Holders, Slots, regVars
<1>10. NoDangling'
  <2>1. \A h \in Holders : Held(h)' \in Clusters => fat'[Held(h)'] # Free
    BY ONLY <1>2, <1>3, <1>9, Absent DEF FilledIn
  <2>2. \A c \in Clusters : fat'[c] \in Clusters => fat'[fat'[c]] # Free
    BY ONLY <1>2, <1>3 DEF FilledIn
  <2> QED BY <2>1, <2>2 DEF NoDangling
<1>11. NoCrossLink'
  <2>1. LinksApart'
    BY ONLY <1>2, <1>3 DEF ApartIn, LinksApart
  <2>2. StartsUnlinked'
    <3>1. \A c \in Clusters, h \in Holders : fat'[c] \in Clusters => fat'[c] # Held(h)'
      BY ONLY <1>2, <1>3, <1>9, Absent DEF ApartIn
    <3> QED BY <3>1 DEF StartsUnlinked
  <2>3. StartsApart'
    <3>1. \A g, h \in Holders : g # h /\ Held(g)' \in Clusters => Held(g)' # Held(h)'
      BY ONLY <1>3, <1>9, Absent DEF ApartIn
    <3> QED BY <3>1 DEF StartsApart
  <2> QED BY <2>1, <2>2, <2>3 DEF NoCrossLink
<1>12. ASSUME unsynced' = 0
       PROVE  /\ unsynced = 0 /\ fat' = fat /\ org_clust = 0
              /\ (\A h \in Holders : Held(h)' = Held(h))
              /\ (Fat32 => free_clust' = free_clust)
  <2>1. Synced /\ unsynced = 0
    BY <1>12 DEF Remount, ImageInv
  <2>2. fat' = fat /\ clust' = clust /\ org_clust = 0 /\ (Fat32 => free_clust' = free_clust)
    BY <1>2, <2>1 DEF Synced, View, Hints, Remount
  <2>3. \A h \in Holders : Held(h)' = Held(h)
    BY <1>2, <2>2, HeldCases, HeldCasesNext DEF HeldByEach, Dirs, Holders, Slots, regVars, scanVars
  <2> QED BY <2>1, <2>2, <2>3
<1>13. NoLostClusters'
  <2>1. CASE unsynced' # 0
    BY <2>1 DEF NoLostClusters
  <2>2. CASE unsynced' = 0
    BY <1>2, <1>12, <2>2 DEF IInv, NoLostClusters
  <2> QED BY <2>1, <2>2
<1>14. FreeCountTracks'
  <2>1. CASE unsynced' # 0
    BY <2>1 DEF FreeCountTracks
  <2>2. CASE ~Fat32
    BY <2>2 DEF Remount, FreeCountTracks
  <2>3. CASE unsynced' = 0 /\ Fat32
    <3>1. unsynced' = unsynced /\ fat' = fat /\ free_clust' = free_clust /\ errs' = errs /\ Taking' = Taking
      BY <1>2, <1>12, <2>3 DEF Taking
    <3> QED BY <3>1, CountKept
  <2> QED BY <2>1, <2>2, <2>3
<1> QED BY <1>4, <1>5, <1>6, <1>7, <1>8, <1>10, <1>11, <1>13, <1>14 DEF IInv

(* What the program sees could be mounted.                                 *)
LEMMA ViewMountable == IInv => Mountable(View)
<1> SUFFICES ASSUME IInv PROVE Mountable(View)
  OBVIOUS
<1>1. /\ View.fat = fat /\ View.kind = kind /\ View.clust = clust /\ View.parent = parent /\ View.rdo = rdo
      /\ View \in Views
  BY DEF View, Views, IInv, RegistersOK
<1>2. \A h \in Dirs : StartIn(View, h) = Held(h) /\ h \in Holders
  BY <1>1, HeldCases DEF StartIn, HeldByEach, Dirs, Holders
<1>3. ApartIn(View)
  BY ONLY <1>1, <1>2, IInv DEF ApartIn, IInv, NoCrossLink, LinksApart, StartsUnlinked, StartsApart
<1>4. FilledIn(View)
  BY ONLY <1>1, <1>2, IInv DEF FilledIn, IInv, NoDangling
<1>5. EntriesIn(View) /\ (errs = 0 => NoErrorIn(View))
  BY ONLY <1>1, IInv DEF EntriesIn, NoErrorIn, IInv, EntryShape, NoErrorValue
<1> QED BY <1>1, <1>3, <1>4, <1>5 DEF Mountable, Sound

LEMMA ViewMountableNext == IInv' => Mountable(View)'
BY ViewMountable, PTL

(* The image only ever takes what the program sees, and FSINFO the hints.  *)
ImageMove ==
    /\ image' = image \/ image' = View \/ image' = View'
    /\ fsinfo' = fsinfo \/ fsinfo' = Hints
    /\ unsynced' = unsynced \/ (unsynced < MaxUnsynced /\ unsynced' = unsynced + 1)
    /\ fsi_flag' \in {fsi_flag, FALSE, CountChanged}
    /\ errs' = errs \/ errs' = errs + 1

LEMMA ImageMoves == [Next]_vars => ImageMove
<1> USE DEF ImageMove, Nowhere, Anywhere, InFat, InTable, InBoth, Stored, Done, Fault
<1>1. Scan \/ Link \/ ChainError \/ RemoveLink \/ RemoveError \/ MkdirTable \/ MkdirFails => ImageMove
  BY DEF Scan, Link, ChainError, RemoveLink, RemoveError, MkdirTable, MkdirFails, fsVars
<1>2. RemoveDone => ImageMove
  BY DEF RemoveDone, OpenTruncated, Sync
<1>3. RegisterHere => ImageMove
  BY DEF RegisterHere, Sync
<1>4. RegisterNext \/ RegisterStretch \/ Stretched \/ StretchFails \/ RegisterFull \/ RegisterError \/ WriteCluster => ImageMove
  BY DEF RegisterNext, RegisterStretch, Stretched, StretchFails, RegisterFull, RegisterError, WriteCluster, fsVars
<1>5. ASSUME NEW n \in Names, NEW q \in Dirs, Mkdir(n, q) PROVE ImageMove
  BY <1>5 DEF Mkdir, fsVars
<1>6. ASSUME NEW n \in Names, NEW q \in Dirs, Open(n, q) PROVE ImageMove
  BY <1>6 DEF Open, OpenNew, OpenDenied, OpenOver, fsVars
<1>7. ASSUME NEW n \in Names, Unlink(n) PROVE ImageMove
  BY <1>7 DEF Unlink, UnlinkRefused, UnlinkEntry, Sync, fsVars
<1>8. ASSUME NEW n \in Names, Chmod(n) PROVE ImageMove
  BY <1>8 DEF Chmod, Sync
<1>9. Write \/ LookupError => ImageMove
  BY DEF Write, LookupError, fsVars
<1>10. Close => ImageMove
  BY DEF Close, Sync
<1>11. Remount => ImageMove
  BY DEF Remount
<1>12. UNCHANGED vars => ImageMove
  BY DEF vars, fsVars, imageVars
<1> HIDE DEF ImageMove
<1> QED
  BY <1>1, <1>2, <1>3, <1>4, <1>5, <1>6, <1>7, <1>8, <1>9, <1>10, <1>11, <1>12 DEF Next, Step, Invoke

LEMMA ImageStep == IInv /\ ImageInv /\ IInv' /\ [Next]_vars => ImageInv'
<1> SUFFICES ASSUME IInv, ImageInv, IInv', ImageMove PROVE ImageInv'
  BY ImageMoves
<1>1. errs \in Nat
  BY MaxErrorsAssumption DEF IInv, RegistersOK
<1>2. errs' = 0 => errs = 0
  BY <1>1 DEF ImageMove
<1>3. Mountable(image)'
  <2>1. CASE image' = image
    BY <1>2, <2>1 DEF ImageInv, Mountable
  <2>2. CASE image' = View
    BY <1>2, <2>2, ViewMountable DEF Mountable
  <2>3. CASE image' = View'
    BY <2>3, ViewMountableNext DEF Mountable
  <2> QED BY <2>1, <2>2, <2>3 DEF ImageMove
<1>4. image' \in Views
  BY <1>3 DEF Mountable, Sound
<1>5. fsinfo' \in [last : 0 .. MaxClust, free : Int]
  <2>1. last_clust \in 0 .. MaxClust /\ free_clust \in Int
    BY DEF IInv, RegistersOK
  <2>2. Hints \in [last : 0 .. MaxClust, free : Int]
    BY ONLY <2>1 DEF Hints
  <2> QED
    BY ONLY <2>2, ImageMove, ImageInv DEF ImageMove, ImageInv
<1>6. unsynced' \in 0 .. MaxUnsynced
  BY MaxUnsyncedAssumption DEF ImageMove, ImageInv
<1>7. fsi_flag' \in BOOLEAN
  BY DEF ImageMove, ImageInv, CountChanged
<1> QED BY <1>3, <1>4, <1>5, <1>6, <1>7 DEF ImageInv

-----------------------------------------------------------------------------
LEMMA InitIInv == Init => IInv
<1> SUFFICES ASSUME Init PROVE IInv
  OBVIOUS
<1> USE MaxClustAssumption, NamesAssumption, MaxErrorsAssumption, Fat32Assumption DEF Init
<1>1. RegistersOK
  <2>1. abort \in BOOLEAN
    BY Zenon
  <2>2. last_clust \in 0 .. MaxClust /\ free_clust \in Int
    OBVIOUS
  <2> QED BY <2>1 DEF RegistersOK, FatValues, Dirs, Results
<1>2. FileShape /\ EntryShape /\ CallShape /\ RegisterShape /\ ChainShape
  BY DEF FileShape, EntryShape, CallShape, RegisterShape, ChainShape
<1>3. NoErrorValue /\ Searched /\ FullOnlyWhenFull
  BY DEF NoErrorValue, Searched, FullOnlyWhenFull
<1>4. NoDangling /\ NoCrossLink
  BY HeldCases DEF NoDangling, NoCrossLink, LinksApart, StartsUnlinked, StartsApart, HeldByEach,
     Holders, Slots, Dirs
<1>5. NoLostClusters
  BY HeldCases DEF NoLostClusters, HeldByEach, Holders, Dirs
<1>6. FreeCountTracks
  <2>1. CASE ~Fat32
    BY <2>1 DEF FreeCountTracks
  <2>2. CASE Fat32
    <3>1. FreeClusters = 3 .. (MaxClust - 1)
      BY <2>2 DEF FreeClusters
    <3>2. Cardinality(FreeClusters) = MaxClust - 3
      BY <3>1, FS_Interval
    <3> QED BY <2>2, <3>2 DEF FreeCountTracks, Taking
  <2> QED BY <2>1, <2>2
<1> QED BY <1>1, <1>2, <1>3, <1>4, <1>5, <1>6 DEF IInv

LEMMA InitImage == Init => ImageInv
<1> SUFFICES ASSUME Init PROVE ImageInv
  OBVIOUS
<1>1. Mountable(View)
  BY InitIInv, ViewMountable
<1>2. image = View /\ fsinfo = Hints /\ unsynced = 0 /\ fsi_flag = FALSE
  BY DEF Init
<1>3. Hints \in [last : 0 .. MaxClust, free : Int]
  BY InitIInv DEF Hints, IInv, RegistersOK
<1>4. fsi_flag \in BOOLEAN
  BY <1>2, Zenon
<1> QED BY <1>1, <1>2, <1>3, <1>4, MaxUnsyncedAssumption DEF ImageInv, Mountable, Sound

LEMMA StutterStep == IInv /\ UNCHANGED vars => IInv'
<1> SUFFICES ASSUME IInv, UNCHANGED vars PROVE IInv'
  OBVIOUS
<1> USE DEF vars, dirVars, fsVars, imageVars, filVars, scanVars, regVars
<1>1. \A h : Held(h)' = Held(h)
  BY Zenon DEF Held, TableStart
<1>2. RegistersOK' /\ FileShape' /\ EntryShape' /\ CallShape' /\ RegisterShape' /\ ChainShape'
  BY DEF IInv, RegistersOK, FileShape, EntryShape, CallShape, RegisterShape, ChainShape, IsDir
<1>3. NoErrorValue' /\ Searched' /\ FullOnlyWhenFull' /\ FreeCountTracks'
  BY DEF IInv, NoErrorValue, Searched, FullOnlyWhenFull, FreeCountTracks, FreeClusters, Taking
<1>4. NoDangling' /\ NoCrossLink' /\ NoLostClusters'
  BY <1>1 DEF IInv, NoDangling, NoCrossLink, LinksApart, StartsUnlinked, StartsApart, NoLostClusters
<1> QED BY <1>2, <1>3, <1>4 DEF IInv

LEMMA NextIInv == IInv /\ ImageInv /\ [Next]_vars => IInv'
<1> SUFFICES ASSUME IInv, ImageInv, [Next]_vars PROVE IInv'
  OBVIOUS
<1>1. CASE Step
  BY <1>1, ScanStep, LinkStep, ChainErrorStep, RemoveLinkStep, RemoveDoneStep, RemoveErrorStep,
     MkdirTableStep, MkdirFailsStep, RegisterHereStep, RegisterNextStep, RegisterStretchStep,
     StretchedStep, StretchFailsStep, RegisterFullStep, RegisterErrorStep, WriteClusterStep
  DEF Step
<1>2. CASE Invoke
  <2>1. ASSUME NEW n \in Names, NEW p \in Dirs, Mkdir(n, p) \/ Open(n, p) PROVE IInv'
    BY <2>1, MkdirStep, OpenStep
  <2>2. ASSUME NEW n \in Names, Unlink(n) \/ Chmod(n) PROVE IInv'
    BY <2>2, UnlinkStep, ChmodStep
  <2> QED BY <1>2, <2>1, <2>2, WriteStep, CloseStep, LookupErrorStep, RemountStep DEF Invoke
<1>3. CASE UNCHANGED vars
  BY <1>3, StutterStep
<1> QED BY <1>1, <1>2, <1>3 DEF Next

(* The inductive invariant of the allocator and its callers: one part is   *)
(* about what the running command sees, the other about the image.         *)
THEOREM Invariance == Spec => [](IInv /\ ImageInv)
BY InitIInv, InitImage, NextIInv, ImageStep, PTL DEF Spec

(* Every variable of the driver model keeps its type.                      *)
THEOREM TypeCorrect == Spec => []TypeOK
<1>1. IInv /\ ImageInv => TypeOK
  BY DEF IInv, ImageInv, TypeOK
<1> QED BY <1>1, Invariance, PTL

(* create_chain, remove_chain and their callers never make two chains meet, *)
(* at no step of a call and whatever transfers fail.                        *)
THEOREM ChainsNeverMeet == Spec => []NoCrossLink
<1>1. IInv => NoCrossLink
  BY DEF IInv
<1> QED BY <1>1, Invariance, PTL

(* No entry, open file or link ever points to a cluster marked free.       *)
THEOREM NothingDangles == Spec => []NoDangling
<1>1. IInv => NoDangling
  BY DEF IInv
<1> QED BY <1>1, Invariance, PTL

(* Without failed transfers no call loses a cluster, on its error paths    *)
(* either, nor does a command whose changes are all on the image when it   *)
(* ends.                                                                   *)
THEOREM NothingIsLost == Spec => []NoLostClusters
<1>1. IInv => NoLostClusters
  BY DEF IInv
<1> QED BY <1>1, Invariance, PTL

(* fs->free_clust, which the next mount takes from FSINFO, is the number   *)
(* of free clusters, plus at most one for every failed transfer, as long   *)
(* as every command ended with its changes on the image.                   *)
THEOREM FreeCountCorrect == Spec => []FreeCountTracks
<1>1. IInv => FreeCountTracks
  BY DEF IInv
<1> QED BY <1>1, Invariance, PTL

(* The search of create_chain, from any start, misses no free cluster.     *)
THEOREM SearchIsComplete == Spec => []FullOnlyWhenFull
<1>1. IInv => FullOnlyWhenFull
  BY DEF IInv
<1> QED BY <1>1, Invariance, PTL

-----------------------------------------------------------------------------
(* The clusters of a chain, one link at a time.                            *)
Upto(c, f, k) ==
    IF k = 0 THEN {c} \cap Clusters
    ELSE f[k - 1] \cup ({fat[d] : d \in f[k - 1]} \cap Clusters)

LEMMA UptoExists ==
    ASSUME NEW c
    PROVE  \A n \in Nat : \E f : f = [k \in 0 .. n |-> Upto(c, f, k)]
<1> DEFINE S == {n \in Nat : \E f : f = [k \in 0 .. n |-> Upto(c, f, k)]}
<1>1. 0 \in S
  <2>1. [k \in 0 .. 0 |-> {c} \cap Clusters] = [k \in 0 .. 0 |-> Upto(c, [j \in 0 .. 0 |-> {c} \cap Clusters], k)]
    BY DEF Upto
  <2> QED
    BY <2>1
<1>2. ASSUME NEW n \in Nat, n \in S PROVE n + 1 \in S
  <2>1. PICK f : f = [k \in 0 .. n |-> Upto(c, f, k)]
    BY <1>2
  <2> DEFINE g == [k \in 0 .. (n + 1) |-> IF k = n + 1 THEN Upto(c, f, n + 1) ELSE f[k]]
  <2>2. \A k \in 0 .. (n + 1) : g[k] = Upto(c, g, k)
    <3> SUFFICES ASSUME NEW k \in 0 .. (n + 1) PROVE g[k] = Upto(c, g, k)
      OBVIOUS
    <3>1. k # 0 => k - 1 \in 0 .. n /\ g[k - 1] = f[k - 1]
      OBVIOUS
    <3>2. k # n + 1 => k \in 0 .. n /\ g[k] = f[k] /\ f[k] = Upto(c, f, k)
      BY <2>1
    <3>3. k = n + 1 => g[k] = Upto(c, f, k)
      OBVIOUS
    <3>4. Upto(c, g, k) = Upto(c, f, k)
      BY <3>1 DEF Upto
    <3> QED
      BY <3>2, <3>3, <3>4
  <2>3. g = [k \in 0 .. (n + 1) |-> Upto(c, g, k)]
    <3>1. g = [k \in 0 .. (n + 1) |-> g[k]]
      OBVIOUS
    <3> HIDE DEF g
    <3> QED
      BY <2>2, <3>1
  <2> HIDE DEF g
  <2> QED
    BY <2>3
<1> HIDE DEF S
<1>3. Nat \subseteq S
  BY <1>1, <1>2, SetInduction
<1> QED
  BY <1>3 DEF S

(* A cluster of a chain is its first one, or follows another one of it.    *)
LEMMA ChainFollows ==
    ASSUME NEW c
    PROVE  /\ ChainOf(c) \subseteq Clusters
           /\ \A x \in ChainOf(c) : x = c \/ \E d \in ChainOf(c) : fat[d] = x
<1> DEFINE f == CHOOSE f : f = [k \in 0 .. MaxClust |-> Upto(c, f, k)]
<1>1. f = [k \in 0 .. MaxClust |-> Upto(c, f, k)]
  BY UptoExists, MaxClustAssumption
<1>2. ChainOf(c) = f[MaxClust]
  BY DEF ChainOf, Upto
<1> HIDE DEF f
<1>3. \A k \in 0 .. MaxClust : f[k] = Upto(c, f, k)
  BY <1>1
<1> DEFINE Good(s) == s \subseteq Clusters /\ \A x \in s : x = c \/ \E d \in s : fat[d] = x
           S == {n \in Nat : n <= MaxClust => Good(f[n])}
<1>4. 0 \in S
  <2>1. f[0] = Upto(c, f, 0) /\ Upto(c, f, 0) = {c} \cap Clusters
    <3>1. 0 \in 0 .. MaxClust
      BY MaxClustAssumption
    <3>2. f[0] = Upto(c, f, 0)
      BY ONLY <1>3, <3>1
    <3> QED
      BY ONLY <3>2 DEF Upto
  <2> QED
    BY <2>1
<1>5. ASSUME NEW n \in Nat, n \in S PROVE n + 1 \in S
  <2> SUFFICES ASSUME n + 1 <= MaxClust PROVE Good(f[n + 1])
    OBVIOUS
  <2>1. Good(f[n])
    BY <1>5, MaxClustAssumption
  <2>2. f[n + 1] = f[n] \cup ({fat[d] : d \in f[n]} \cap Clusters)
    <3>1. n + 1 \in 0 .. MaxClust /\ n + 1 # 0 /\ (n + 1) - 1 = n
      BY MaxClustAssumption
    <3>2. f[n + 1] = Upto(c, f, n + 1)
      BY ONLY <1>3, <3>1
    <3>3. Upto(c, f, n + 1) = f[n] \cup ({fat[d] : d \in f[n]} \cap Clusters)
      BY ONLY <3>1 DEF Upto
    <3> QED
      BY ONLY <3>2, <3>3
  <2> QED
    BY <2>1, <2>2
<1> HIDE DEF S
<1>6. Nat \subseteq S
  BY <1>4, <1>5, SetInduction
<1>7. Good(f[MaxClust])
  BY <1>6, MaxClustAssumption DEF S
<1> QED
  BY <1>2, <1>7

(* With the links f, x can be reached from c: it is in every set that      *)
(* holds c and is closed under the links.                                  *)
Closed(f, S) == \A d \in S : f[d] \in Clusters => f[d] \in S

Leads(f, c, x) == {c, x} \subseteq Clusters /\ \A S \in SUBSET Clusters : c \in S /\ Closed(f, S) => x \in S

LEMMA LeadsToItself == \A f : \A c \in Clusters : Leads(f, c, c)
BY DEF Leads

LEMMA LeadsOn == \A f, c, x : Leads(f, c, x) /\ f[x] \in Clusters => Leads(f, c, f[x])
BY DEF Leads, Closed

LinksKept(f, g) == \A d \in Clusters : f[d] \in Clusters => g[d] = f[d]

LEMMA LeadsKept == \A f, g, c, x : Leads(f, c, x) /\ LinksKept(f, g) => Leads(g, c, x)
BY DEF Leads, Closed, LinksKept

(* The clusters that a call works on are in the chain they belong to: the  *)
(* last cluster of the open file, the table cluster under inspection, and  *)
(* the one that create_chain hands over.                                   *)
Table == TableStart(par)
Head == IF call = "write" THEN org_clust ELSE Table

OwnFile == curr_clust # 0 => Leads(fat, org_clust, curr_clust)

OwnTable ==
    /\ pc = "idle" => dcl = 0
    /\ pc # "remove" /\ dcl # 0 => Leads(fat, Table, dcl)
    /\ pc \in {"scan", "link", "return"} /\ call \in {"mkdir", "open"} /\ base # 0 => base = dcl
    /\ pc = "return" /\ base # 0 /\ ret \in Clusters => Leads(fat, Head, ret)

OwnChain == OwnFile /\ OwnTable

(* No cluster of one holder's chain is free, nor can it be reached from    *)
(* where another holder's chain starts.                                    *)
LEMMA ChainsSeparate ==
    ASSUME IInv, NEW g \in Holders, NEW c \in ChainOf(Held(g))
    PROVE  /\ c \in Clusters /\ fat[c] # Free
           /\ \A h \in Holders \ {g} : c # Held(h) /\ \A x : Leads(fat, Held(h), x) => x # c
<1> DEFINE mine == ChainOf(Held(g))
<1>1. mine \subseteq Clusters /\ \A x \in mine : x = Held(g) \/ \E d \in mine : fat[d] = x
  BY ChainFollows
<1>2. NoDangling /\ LinksApart /\ StartsUnlinked /\ StartsApart
  BY DEF IInv, NoCrossLink
<1>3. c \in mine
  OBVIOUS
<1> HIDE DEF mine
<1>4. fat[c] # Free
  BY <1>1, <1>2, <1>3 DEF NoDangling
<1>5. ASSUME NEW h \in Holders, h # g PROVE Held(h) \notin mine
  BY <1>1, <1>2, <1>5 DEF StartsUnlinked, StartsApart
<1>6. Closed(fat, Clusters \ mine)
  <2> SUFFICES ASSUME NEW d \in Clusters \ mine, fat[d] \in Clusters, fat[d] \in mine PROVE FALSE
    BY DEF Closed
  <2>1. fat[d] # Held(g)
    BY <1>2 DEF StartsUnlinked
  <2>2. PICK e \in mine : fat[e] = fat[d]
    BY <1>1, <2>1
  <2>3. e \in Clusters /\ e # d
    BY <1>1
  <2> QED
    BY <1>2, <2>2, <2>3 DEF LinksApart
<1>7. ASSUME NEW h \in Holders, h # g, NEW x, Leads(fat, Held(h), x) PROVE x # c
  BY <1>3, <1>5, <1>6, <1>7 DEF Leads
<1> QED
  BY <1>1, <1>3, <1>4, <1>5, <1>7

-----------------------------------------------------------------------------
(* OwnChain is kept by every step.                                         *)
LEMMA InitOwnChain == Init => OwnChain
BY DEF Init, OwnChain, OwnFile, OwnTable

LEMMA OwnFileKept ==
    ASSUME OwnFile, LinksKept(fat, fat'), curr_clust' = curr_clust, org_clust' = org_clust
    PROVE  OwnFile'
BY LeadsKept DEF OwnFile

LEMMA OwnTableReturned == ASSUME NEW r \in Results, Return(r) PROVE OwnTable'
BY DEF OwnTable, Return

LEMMA OwnReturned ==
    ASSUME OwnFile, fat' = fat, curr_clust' = curr_clust, org_clust' = org_clust, NEW r \in Results, Return(r)
    PROVE  OwnChain'
<1>1. LinksKept(fat, fat')
  BY DEF LinksKept
<1> QED
  BY <1>1, OwnFileKept, OwnTableReturned DEF OwnChain

LEMMA OwnRemoved ==
    ASSUME OwnFile, fat' = fat, curr_clust' = curr_clust, org_clust' = org_clust, pc' = "remove"
    PROVE  OwnChain'
<1>1. LinksKept(fat, fat')
  BY DEF LinksKept
<1>2. OwnTable'
  BY DEF OwnTable
<1> QED
  BY <1>1, <1>2, OwnFileKept DEF OwnChain

LEMMA OwnScan == IInv /\ OwnChain /\ Scan => OwnChain'
<1> SUFFICES ASSUME IInv, OwnChain, Scan PROVE OwnChain'
  OBVIOUS
<1>1. LinksKept(fat, fat')
  <2>1. CASE fat[Candidate] = Free /\ fat' = [fat EXCEPT ![Candidate] = Eoc]
    <3>1. ASSUME NEW d \in Clusters, fat[d] \in Clusters PROVE fat'[d] = fat[d]
      <4>1. d # Candidate
        BY <2>1, <3>1, Absent
      <4>2. DOMAIN fat = Clusters
        BY DEF IInv, RegistersOK
      <4> QED
        BY <2>1, <3>1, <4>1, <4>2
    <3> QED
      BY <3>1 DEF LinksKept
  <2>2. CASE fat' = fat
    BY <2>2 DEF LinksKept
  <2> QED
    BY <2>1, <2>2 DEF Scan
<1>2. pc = "scan" /\ pc' \in {"scan", "link", "return"} /\ ret' = 0
  BY DEF Scan, IInv, ChainShape
<1>3. /\ Table' = Table
      /\ curr_clust' = curr_clust /\ org_clust' = org_clust /\ dcl' = dcl /\ call' = call /\ base' = base
  BY DEF Scan, Table, TableStart, regVars, dirVars, filVars
<1>4. OwnTable'
  <2>1. pc' # "remove" /\ dcl' # 0 => Leads(fat', Table', dcl')
    BY <1>1, <1>2, <1>3, LeadsKept DEF OwnChain, OwnTable
  <2> QED
    BY <1>2, <1>3, <2>1, Absent DEF OwnChain, OwnTable
<1> QED
  BY <1>1, <1>3, <1>4, OwnFileKept DEF OwnChain

LEMMA OwnLink == IInv /\ OwnChain /\ Link => OwnChain'
<1> SUFFICES ASSUME IInv, OwnChain, Link PROVE OwnChain'
  OBVIOUS
<1>1. /\ pc = "link" /\ pc' = "return" /\ ret' = ncl /\ ncl \in Clusters
      /\ base # 0 => fat[base] = Eoc /\ base \in Clusters
      /\ fat' = IF base = 0 THEN fat ELSE [fat EXCEPT ![base] = ncl]
      /\ DOMAIN fat = Clusters
      /\ call \in {"mkdir", "open", "write"} /\ (call = "write" => base = curr_clust)
  BY DEF Link, IInv, ChainShape, CallShape, RegistersOK
<1>2. Eoc \notin Clusters
  BY MaxClustAssumption
<1>3. LinksKept(fat, fat')
  <2>1. ASSUME NEW d \in Clusters, fat[d] \in Clusters PROVE fat'[d] = fat[d]
    <3>1. base # 0 => d # base
      BY <1>1, <1>2, <2>1
    <3> QED
      BY <1>1, <3>1
  <2> QED
    BY <2>1 DEF LinksKept
<1>4. /\ Head' = Head /\ Table' = Table
      /\ curr_clust' = curr_clust /\ org_clust' = org_clust /\ dcl' = dcl /\ call' = call /\ base' = base
  BY DEF Link, Head, Table, TableStart, regVars, dirVars, filVars
<1>5. ASSUME base # 0 PROVE Leads(fat', Head, ncl)
  <2>1. Leads(fat, Head, base)
    BY <1>1, <1>5 DEF OwnChain, OwnFile, OwnTable, Head
  <2>2. Leads(fat', Head, base)
    BY <1>3, <2>1, LeadsKept
  <2>3. fat'[base] = ncl
    BY <1>1, <1>5
  <2> QED
    BY <1>1, <2>2, <2>3, LeadsOn
<1>6. OwnTable'
  <2>1. dcl # 0 => Leads(fat', Table, dcl)
    BY <1>1, <1>3, LeadsKept DEF OwnChain, OwnTable
  <2> QED
    BY <1>1, <1>4, <1>5, <2>1 DEF OwnChain, OwnTable
<1> QED
  BY <1>3, <1>4, <1>6, OwnFileKept DEF OwnChain

LEMMA OwnRemoveLink == IInv /\ OwnChain /\ RemoveLink => OwnChain'
<1> SUFFICES ASSUME IInv, OwnChain, RemoveLink PROVE OwnChain'
  OBVIOUS
<1>1. curr_clust = 0
  BY DEF IInv, FileShape, CallShape, RemoveLink
<1> QED
  BY <1>1 DEF RemoveLink, OwnChain, OwnFile, OwnTable, filVars

LEMMA OwnSearch ==
    ASSUME IInv, OwnChain, ChainError \/ MkdirTable \/ RegisterNext \/ RegisterStretch \/ Stretched
    PROVE  OwnChain'
<1>1. fat' = fat /\ Table' = Table /\ curr_clust' = curr_clust /\ org_clust' = org_clust /\ call' = call
  BY DEF ChainError, MkdirTable, RegisterNext, RegisterStretch, Stretched, Table, TableStart, regVars, dirVars, filVars
<1>2. OwnFile'
  BY <1>1 DEF OwnChain, OwnFile
<1>3. CASE ChainError
  BY <1>1, <1>2, <1>3, Absent DEF OwnChain, OwnTable, ChainError, scanVars, regVars
<1>4. CASE MkdirTable
  <2>1. par \in Dirs /\ IsDir(par)
    BY <1>4 DEF IInv, CallShape, MkdirTable
  <2>2. dcl' = Table /\ Table \in {0} \cup Clusters /\ pc' = "register"
    BY <1>4, <2>1, TableStarts DEF MkdirTable, Table
  <2> QED
    BY <1>1, <1>2, <2>2, LeadsToItself DEF OwnChain, OwnTable
<1>5. CASE RegisterNext
  <2>1. Leads(fat, Table, dcl) /\ dcl' = fat[dcl] /\ pc' = "register"
    BY <1>5 DEF RegisterNext, OwnChain, OwnTable
  <2>2. fat[dcl] \in Clusters
    BY <1>5, MaxClustAssumption DEF RegisterNext, IInv, RegisterShape, RegistersOK, FatValues
  <2> QED
    BY <1>1, <1>2, <2>1, <2>2, LeadsOn DEF OwnChain, OwnTable
<1>6. CASE RegisterStretch
  <2>1. base' = dcl /\ dcl' = dcl /\ pc' = "scan" /\ Leads(fat, Table, dcl)
    BY <1>6, MaxClustAssumption
    DEF RegisterStretch, CreateChain, regVars, OwnChain, OwnTable, IInv, RegistersOK, FatValues
  <2> QED
    BY <1>1, <1>2, <2>1 DEF OwnChain, OwnTable
<1>7. CASE Stretched
  <2>1. pc' = "register" /\ dcl' = ret /\ Head = Table /\ Leads(fat, Head, ret)
    BY <1>7 DEF Stretched, Stretching, OwnChain, OwnTable, Head
  <2> QED
    BY <1>1, <1>2, <2>1 DEF OwnChain, OwnTable
<1> QED
  BY <1>3, <1>4, <1>5, <1>6, <1>7

LEMMA OwnStepReturns ==
    ASSUME IInv, OwnChain,
           RemoveDone \/ RemoveError \/ MkdirFails \/ RegisterHere \/ StretchFails \/ RegisterFull \/ RegisterError
    PROVE  OwnChain'
<1>1. fat' = fat /\ curr_clust' = curr_clust /\ org_clust' = org_clust
  BY DEF RemoveDone, OpenTruncated, RemoveError, MkdirFails, RegisterHere, StretchFails, RegisterFull, RegisterError, filVars
<1>2. pc' = "remove" \/ \E r \in Results : Return(r)
  <2>1. CASE RemoveDone
    BY <2>1 DEF RemoveDone, OpenTruncated, Done, Sync, Results, IInv, RegistersOK
  <2>2. CASE RemoveError
    BY <2>2 DEF RemoveError, Results, IInv, RegistersOK
  <2>3. CASE MkdirFails
    BY <2>3 DEF MkdirFails, Done, Results
  <2>4. CASE RegisterHere
    BY <2>4 DEF RegisterHere, Done, Sync, Results
  <2>5. CASE StretchFails \/ RegisterFull \/ RegisterError
    BY <2>5 DEF StretchFails, RegisterFull, RegisterError, RegisterFails, GiveBack, Results
  <2> QED
    BY <2>1, <2>2, <2>3, <2>4, <2>5
<1> QED
  BY <1>1, <1>2, OwnReturned, OwnRemoved DEF OwnChain

LEMMA OwnWriteCluster == IInv /\ OwnChain /\ WriteCluster => OwnChain'
<1> SUFFICES ASSUME IInv, OwnChain, WriteCluster PROVE OwnChain'
  OBVIOUS
<1>1. \E r \in Results : Return(r)
  BY DEF WriteCluster, Done, Results
<1>2. /\ fat' = fat /\ org_clust' = Origin /\ base = curr_clust /\ (org_clust = 0 <=> curr_clust = 0)
      /\ curr_clust' = curr_clust \/ (ret \in Clusters /\ curr_clust' = ret)
      /\ call = "write" /\ pc = "return"
  BY DEF WriteCluster, IInv, CallShape, FileShape
<1>3. OwnFile'
  <2>1. CASE curr_clust = 0
    BY <1>2, <2>1, LeadsToItself DEF OwnFile, Origin
  <2>2. CASE curr_clust # 0
    BY <1>2, <2>2 DEF OwnChain, OwnFile, OwnTable, Head, Origin
  <2> QED
    BY <2>1, <2>2
<1> QED
  BY <1>1, <1>3, OwnTableReturned DEF OwnChain

LEMMA OwnInvoke == IInv /\ OwnChain /\ Invoke => OwnChain'
<1> SUFFICES ASSUME IInv, OwnChain, Invoke PROVE OwnChain'
  OBVIOUS
<1>0. pc = "idle" /\ dcl = 0 /\ OwnFile
  BY DEF Invoke, Mkdir, Open, Unlink, Chmod, Write, Close, LookupError, Remount, OwnChain, OwnTable
<1>8. CASE Remount
  BY <1>0, <1>8 DEF Remount, OwnChain, OwnFile, OwnTable, regVars
<1> SUFFICES ASSUME ~Remount PROVE OwnChain'
  BY <1>8
<1>1. pc = "idle" /\ dcl = 0 /\ OwnFile /\ fat' = fat
  BY <1>0 DEF Invoke, Mkdir, Open, Unlink, UnlinkRefused, UnlinkEntry, Chmod, Write, Close, LookupError
<1>2. ASSUME NEW n \in Names, NEW p \in Dirs, Mkdir(n, p) PROVE OwnChain'
  <2>1. curr_clust' = curr_clust /\ org_clust' = org_clust
    BY <1>2 DEF Mkdir, filVars
  <2>2. CASE Done("EXIST")
    BY <1>1, <2>1, <2>2, OwnReturned DEF Done, Results
  <2>3. CASE CreateChain(0) /\ UNCHANGED dcl
    BY <1>1, <2>1, <2>3 DEF CreateChain, OwnChain, OwnFile, OwnTable
  <2> QED
    BY <1>2, <2>2, <2>3 DEF Mkdir
<1>3. ASSUME NEW n \in Names, NEW p \in Dirs, Open(n, p) PROVE OwnChain'
  <2>1. curr_clust' = curr_clust /\ org_clust' = org_clust
    BY <1>3 DEF Open
  <2>2. CASE OpenNew(n, p)
    <3>1. Table' = TableStart(p) /\ dcl' = TableStart(p) /\ pc' = "register"
      BY <2>2 DEF OpenNew, Table, TableStart
    <3>2. TableStart(p) \in {0} \cup Clusters
      BY <1>3, TableStarts DEF Open
    <3> QED
      BY <1>1, <2>1, <3>1, <3>2, LeadsToItself DEF OwnChain, OwnFile, OwnTable
  <2>3. CASE OpenDenied(n) \/ OpenOver(n, p)
    <3>1. pc' = "remove" \/ \E r \in Results : Return(r)
      BY <2>3 DEF OpenDenied, OpenOver, Done, Results
    <3> QED
      BY <1>1, <2>1, <3>1, OwnReturned, OwnRemoved
  <2> QED
    BY <1>3, <2>2, <2>3 DEF Open
<1>4. ASSUME NEW n \in Names, Unlink(n) \/ Chmod(n) PROVE OwnChain'
  <2>1. curr_clust' = curr_clust /\ org_clust' = org_clust
    BY <1>4 DEF Unlink, UnlinkRefused, UnlinkEntry, Chmod, filVars
  <2>2. pc' = "remove" \/ \E r \in Results : Return(r)
    BY <1>4 DEF Unlink, UnlinkRefused, UnlinkEntry, Chmod, Done, Sync, Results
  <2> QED
    BY <1>1, <2>1, <2>2, OwnReturned, OwnRemoved
<1>5. CASE Write
  <2>1. curr_clust' = curr_clust /\ org_clust' = org_clust
    BY <1>5 DEF Write, filVars
  <2>2. CASE Done("INT_ERR")
    BY <1>1, <2>1, <2>2, OwnReturned DEF Done, Results
  <2>3. CASE call' = "write" /\ CreateChain(curr_clust) /\ UNCHANGED dcl
    <3>1. /\ base' = curr_clust /\ pc' \in {"scan", "return"}
          /\ pc' = "return" /\ ret' \in Clusters => ret' = fat[curr_clust] /\ curr_clust # 0
      BY <2>3, MaxClustAssumption DEF CreateChain
    <3>2. pc' = "return" /\ ret' \in Clusters => Leads(fat, org_clust, ret')
      BY <1>1, <3>1, LeadsOn DEF OwnFile
    <3> QED
      BY <1>1, <2>1, <2>3, <3>1, <3>2 DEF OwnChain, OwnFile, OwnTable, Head
  <2> QED
    BY <1>5, <2>2, <2>3 DEF Write
<1>6. CASE Close
  <2>1. curr_clust' = 0 /\ \E r \in Results : Return(r)
    BY <1>6 DEF Close, Sync, Done, Results
  <2> QED
    BY <2>1, OwnTableReturned DEF OwnChain, OwnFile
<1>7. CASE LookupError
  <2>1. curr_clust' = curr_clust /\ org_clust' = org_clust /\ Return("DISK_ERR") /\ "DISK_ERR" \in Results
    BY <1>7 DEF LookupError, filVars, Results
  <2> QED
    BY <1>1, <2>1, OwnReturned
<1> QED
  BY <1>2, <1>3, <1>4, <1>5, <1>6, <1>7 DEF Invoke

LEMMA NextOwnChain == IInv /\ OwnChain /\ [Next]_vars => OwnChain'
<1>1. IInv /\ OwnChain /\ Step => OwnChain'
  BY OwnScan, OwnLink, OwnRemoveLink, OwnSearch, OwnStepReturns, OwnWriteCluster DEF Step
<1>2. OwnChain /\ UNCHANGED vars => OwnChain'
  BY DEF OwnChain, OwnFile, OwnTable, Head, Table, TableStart, vars, dirVars, fsVars, filVars, scanVars, regVars
<1> QED
  BY <1>1, <1>2, OwnInvoke DEF Next

THEOREM ClustersOwned == Spec => [](IInv /\ OwnChain)
BY Invariance, InitOwnChain, NextOwnChain, PTL DEF Spec

-----------------------------------------------------------------------------
(* The clusters that Scan and Link change: a free one, and the end of a    *)
(* chain that the call works on.                                           *)
LEMMA CellsChanged ==
    ASSUME IInv, OwnChain, [Next]_vars, ~Remount, NEW c \in Clusters, fat'[c] # fat[c]
    PROVE  \/ fat[c] = Free
           \/ /\ fat[c] = Eoc /\ fat'[c] \in Clusters
              /\ \/ Leads(fat, Held("file"), c)
                 \/ par \in Dirs /\ call \in {"mkdir", "open"} /\ Leads(fat, Held(par), c)
           \/ c = Held("rest")
<1>1. CASE Scan
  <2>1. fat' = [fat EXCEPT ![Candidate] = Eoc] /\ fat[Candidate] = Free
    BY <1>1 DEF Scan
  <2>2. c = Candidate
    BY <2>1 DEF IInv, RegistersOK
  <2> QED
    BY <2>1, <2>2
<1>2. CASE Link
  <2>1. c = base /\ base # 0 /\ fat'[c] = ncl
    BY <1>2 DEF Link, IInv, RegistersOK
  <2>2. /\ fat[c] = Eoc /\ ncl \in Clusters /\ pc = "link" /\ call \in {"mkdir", "open", "write"}
        /\ call = "write" => base = curr_clust
        /\ call \in {"mkdir", "open"} => par \in Dirs
    BY <1>2, <2>1 DEF Link, IInv, ChainShape, CallShape, RegistersOK
  <2>3. CASE call = "write"
    BY <2>1, <2>2, <2>3, HeldCases DEF OwnChain, OwnFile, HeldByEach
  <2>4. CASE call \in {"mkdir", "open"}
    <3>1. Table = Held(par)
      BY <2>2, <2>4, HeldCases DEF Table, TableStart, HeldByEach, Dirs
    <3> QED
      BY <2>1, <2>2, <2>4, <3>1 DEF OwnChain, OwnTable
  <2> QED
    BY <2>2, <2>3, <2>4
<1>3. CASE RemoveLink
  <2>1. c = rcl /\ pc = "remove"
    BY <1>3 DEF RemoveLink, IInv, RegistersOK
  <2> QED
    BY <2>1, HeldCases DEF HeldByEach
<1>4. CASE ~(Scan \/ Link \/ RemoveLink)
  BY <1>4 DEF Next, Step, Invoke, ChainError, RemoveDone, RemoveError, MkdirTable, MkdirFails, RegisterHere,
     RegisterNext, RegisterStretch, Stretched, StretchFails, RegisterFull, RegisterError, WriteCluster,
     OpenTruncated, Mkdir, Open, Unlink, UnlinkRefused, UnlinkEntry, Chmod, Write, Close, LookupError, vars
<1> QED
  BY <1>1, <1>2, <1>3, <1>4

LEMMA HolderTable ==
    /\ \A n \in Dirs : TableStart(n) = Held(n) /\ n \in Holders /\ n \notin Slots
    /\ {"file", "rest"} \subseteq Holders /\ "file" # "rest"
BY HeldCases, NamesAssumption DEF TableStart, HeldByEach, Dirs, Holders, Slots

(* The start clusters that change: those of the entry that a call names,   *)
(* or of the open file.                                                    *)
LEMMA StartsChanged ==
    ASSUME IInv, [Next]_vars, ~Remount, NEW n \in Names, n \notin {tgt, tgt', fil}, clust[n] # DiskErr
    PROVE  clust'[n] = clust[n]
<1>1. clust \in [Names -> {0, DiskErr} \cup Clusters]
  BY DEF IInv, RegistersOK
<1>2. CASE RegisterHere
  BY <1>1, <1>2 DEF RegisterHere
<1>3. CASE Close
  BY <1>1, <1>3 DEF Close
<1>4. ASSUME NEW m \in Names, NEW p \in Dirs, Open(m, p) PROVE clust'[n] = clust[n]
  <2>1. CASE OpenNew(m, p) \/ OpenDenied(m)
    BY <2>1 DEF OpenNew, OpenDenied
  <2>2. CASE OpenOver(m, p)
    <3>1. clust' = [clust EXCEPT ![m] = 0] /\ (clust[m] \in {0, DiskErr} \/ tgt' = m)
      BY <1>1, <2>2 DEF OpenOver
    <3> QED
      BY <1>1, <3>1
  <2> QED
    BY <1>4, <2>1, <2>2 DEF Open
<1>5. ASSUME NEW m \in Names, Unlink(m) PROVE clust'[n] = clust[n]
  <2>1. CASE UnlinkRefused(m)
    BY <2>1 DEF UnlinkRefused, dirVars
  <2>2. CASE UnlinkEntry(m)
    <3>1. clust' = [clust EXCEPT ![m] = 0] /\ (clust[m] \in {0, DiskErr} \/ tgt' = m)
      BY <1>1, <2>2 DEF UnlinkEntry
    <3> QED
      BY <1>1, <3>1
  <2> QED
    BY <1>5, <2>1, <2>2 DEF Unlink
<1>6. CASE Step /\ ~RegisterHere
  BY <1>6 DEF Step, Scan, Link, RemoveLink, ChainError, RemoveDone, RemoveError, MkdirTable, MkdirFails,
     RegisterNext, RegisterStretch, Stretched, StretchFails, RegisterFull, RegisterError, WriteCluster, dirVars
<1>7. CASE \/ \E m \in Names, p \in Dirs : Mkdir(m, p)
           \/ \E m \in Names : Chmod(m)
           \/ Write \/ LookupError \/ UNCHANGED vars
  BY <1>7 DEF Mkdir, Chmod, Write, LookupError, dirVars, vars
<1> QED
  BY <1>2, <1>3, <1>4, <1>5, <1>6, <1>7 DEF Next, Invoke

LEMMA OthersStep ==
    ASSUME IInv, OwnChain, [Next]_vars, ~Remount, NEW n \in Dirs \ {tgt, tgt', par}
    PROVE  /\ n \in Names /\ n # fil /\ clust[n] # DiskErr => clust'[n] = clust[n]
           /\ \A c \in ChainOf(TableStart(n)) : fat'[c] = fat[c]
<1>1. n \in Names /\ n # fil /\ clust[n] # DiskErr => clust'[n] = clust[n]
  BY StartsChanged
<1>2. ASSUME NEW c \in ChainOf(TableStart(n)) PROVE fat'[c] = fat[c]
  <2>1. n \in Holders /\ c \in ChainOf(Held(n)) /\ n \notin {"file", "rest"} /\ {"file", "rest"} \subseteq Holders
    BY HolderTable DEF Slots
  <2>2. c \in Clusters /\ fat[c] # Free
    BY <2>1, ChainsSeparate
  <2>3. c # Held("rest") /\ ~Leads(fat, Held("file"), c)
    BY <2>1, ChainsSeparate
  <2>4. par \in Dirs => ~Leads(fat, Held(par), c)
    BY <2>1, ChainsSeparate, HolderTable
  <2> QED
    BY <2>2, <2>3, <2>4, CellsChanged
<1> QED
  BY <1>1, <1>2

LEMMA TableStep ==
    ASSUME IInv, OwnChain, [Next]_vars, par = par', call \in {"mkdir", "open"},
           NEW c \in ChainOf(TableStart(par))
    PROVE  fat'[c] # Free /\ (fat[c] \in Clusters => fat'[c] = fat[c])
<1>0. ~Remount
  BY DEF Remount, IInv, CallShape
<1>1. par \in Dirs /\ par \in Holders /\ c \in ChainOf(Held(par)) /\ par # "rest" /\ "rest" \in Holders
  BY HolderTable DEF IInv, RegistersOK, Slots
<1>2. c \in Clusters /\ fat[c] # Free /\ c # Held("rest")
  BY <1>1, ChainsSeparate
<1>3. CASE fat'[c] = fat[c]
  BY <1>2, <1>3
<1>4. CASE fat'[c] # fat[c]
  <2>1. fat[c] = Eoc /\ fat'[c] \in Clusters
    BY <1>0, <1>2, <1>4, CellsChanged
  <2>2. Eoc \notin Clusters
    BY MaxClustAssumption
  <2> QED
    BY <2>1, <2>2, Absent
<1> QED
  BY <1>3, <1>4

(* A call touches the chains of the objects it names, of their table and   *)
(* of the open file, and of nothing else.                                  *)
THEOREM OthersAreUntouched == Spec => OthersUntouched
<1>1. IInv /\ OwnChain /\ [Next]_vars =>
        [~Remount =>
         \A n \in Dirs \ {tgt, tgt', par} :
          /\ n \in Names /\ n # fil /\ clust[n] # DiskErr => clust'[n] = clust[n]
          /\ \A c \in ChainOf(TableStart(n)) : fat'[c] = fat[c]]_vars
  BY OthersStep
<1> QED
  BY <1>1, ClustersOwned, PTL DEF Spec, OthersUntouched

(* The table that dir_register stretches keeps its clusters and their      *)
(* order.                                                                  *)
THEOREM TablesOnlyGrow == Spec => TableOnlyGrows
<1>1. IInv /\ OwnChain /\ [Next]_vars =>
        [par = par' /\ call \in {"mkdir", "open"} =>
          \A c \in ChainOf(TableStart(par)) :
              fat'[c] # Free /\ (fat[c] \in Clusters => fat'[c] = fat[c])]_vars
  BY TableStep
<1> QED
  BY <1>1, ClustersOwned, PTL DEF Spec, TableOnlyGrows
=============================================================================
