-------------------------- MODULE FatWindowProofs --------------------------
(***************************************************************************)
(* The sector window implements the abstract store of SectorStore, for     *)
(* every size of the volume and any number of failed or cut-off transfers  *)
(* and stops of the program.                                               *)
(*                                                                         *)
(* The invariant says what the window holds at each place of a call: a     *)
(* clean window shows what the image has, a dirty one shows a sector; and  *)
(* that f_mkdir and dir_next, which move the window without reading, do so *)
(* only when it is clean.                                                  *)
(***************************************************************************)
EXTENDS FatWindow, TLAPS

Places == {"idle", "look", "take", "link", "flush", "fill", "direct", "entry", "sync",
           "unname", "give"}
Moves == {"out", "start", "mirror", "read", "ok", "failed"}

TypeOK ==
    /\ image \in [Sectors -> Contents]
    /\ winsect \in Sectors \cup {NoSec} /\ win \in Contents
    /\ wflag \in BOOLEAN /\ stale \in BOOLEAN
    /\ clst \in Clusters \cup {0} /\ fill \in Nat
    /\ want \in Sectors \cup {NoSec} /\ tab \in Sectors \cup {NoSec}
    /\ pc \in Places /\ mw \in Moves
    /\ stops \in Nat

(* A dirty window holds a sector; a clean one is the image's, unless it is *)
(* stale.                                                                  *)
WindowShape ==
    /\ wflag => winsect \in Sectors
    /\ ~wflag /\ ~stale /\ winsect \in Sectors => win = image[winsect]

(* When move_window has succeeded, the window shows the sector asked for,  *)
(* or has been flushed.                                                    *)
MoveShape ==
    /\ mw \in {"mirror", "read"} => ~wflag
    /\ mw = "ok" /\ want = NoSec => ~wflag
    /\ mw = "ok" /\ want # NoSec => winsect = want

(* What each place of a call relies on.                                    *)
CallShape ==
    /\ pc \in {"flush", "fill", "sync"} => want = NoSec /\ ~stale
    /\ pc \in {"link", "flush", "fill", "direct", "give", "unname"} => clst \in Clusters
    /\ pc = "entry" /\ call = "mkdir" => clst \in Clusters
    /\ pc \in {"look", "take", "link", "entry", "give", "unname"} => want \in Sectors
    /\ pc = "take" => want \in FatSecs
    /\ pc \in {"take", "link", "flush", "fill", "direct", "entry"} => tab \in Sectors
    /\ pc = "take" /\ call = "grow" => tab[1] \in Clusters
    /\ pc = "direct" => mw = "out" /\ winsect \in FatSecs
    /\ pc = "fill" => fill < CSize

IInv == TypeOK /\ WindowShape /\ MoveShape /\ CallShape

-----------------------------------------------------------------------------
(* Sectors.                                                                *)
LEMMA FatSectors == ASSUME NEW c \in Clusters PROVE FatOf(c) \in FatSecs /\ FatOf(c) \in Sectors
  BY DEF FatSecs, Sectors

LEMMA FatSectorsAreSectors == FatSecs \subseteq Sectors /\ Root \in Sectors
  BY DEF Sectors

LEMMA ClusterSectors ==
    ASSUME NEW c \in Clusters, NEW k \in Nat, k < CSize
    PROVE  <<c, k>> \in Sectors /\ <<c, k>> \notin FatSecs
<1>1. <<c, k>> \in SectorsOf(c)
  BY SizesAssumption DEF SectorsOf
<1>2. <<c, k>> \in Sectors
  BY <1>1 DEF Sectors
<1>3. c # 0
  BY SizesAssumption DEF Clusters
<1>4. <<c, k>> \notin FatSecs
  BY <1>3 DEF FatSecs, FatOf
<1> QED
  BY <1>2, <1>4

LEMMA NoSecIsNoSector == NoSec \notin Sectors
<1>1. NoSec \notin FatSecs
  <2> SUFFICES ASSUME NEW c \in Clusters, NoSec = FatOf(c) PROVE FALSE
    BY DEF FatSecs
  <2>1. c \in Nat
    BY SizesAssumption DEF Clusters
  <2>2. c \div PerSec \in Nat
    BY <2>1, SizesAssumption
  <2> QED
    BY <2>2 DEF NoSec, FatOf
<1>2. NoSec # Root
  BY DEF NoSec, Root
<1>3. ASSUME NEW c \in Clusters, NoSec \in SectorsOf(c) PROVE FALSE
  BY <1>3, SizesAssumption DEF NoSec, SectorsOf, Clusters
<1> QED
  BY <1>1, <1>2, <1>3 DEF Sectors

(* The tables a view shows lie on the volume.                              *)
LEMMA TableSectors ==
    ASSUME NEW t \in Tables(View)
    PROVE  t \in Sectors /\ (t # Root => t[1] \in Clusters)
<1>1. CASE t = Root
  BY <1>1, FatSectorsAreSectors
<1>2. CASE t # Root
  <2>1. PICK c \in Clusters : t \in SectorsOf(c)
    BY <1>2 DEF Tables
  <2>2. t[1] = c
    BY <2>1 DEF SectorsOf
  <2> QED
    BY <2>1, <2>2 DEF Sectors
<1> QED
  BY <1>1, <1>2

(* Contents.                                                               *)
LEMMA MixedContents ==
    ASSUME NEW a \in Contents, NEW b \in Contents, NEW x \in Mixtures(a, b)
    PROVE  x \in Contents
  BY DEF Contents, Mixtures

LEMMA MarkedContents ==
    /\ {} \in Contents /\ {Dots} \in Contents /\ {Junk} \in Contents
    /\ \A w \in Contents, c \in Clusters :
          w \cup {c} \in Contents /\ w \cup {-c} \in Contents
    /\ \A w \in Contents : \A d : w \ d \in Contents
  BY DEF Contents, Marks

-----------------------------------------------------------------------------
(* What the steps are for the store.                                       *)
Simulates == [Store!Next]_(Store!vars)

LEMMA ViewOfSector ==
    ASSUME NEW s \in Sectors
    PROVE  /\ View[s] = IF s = winsect THEN win ELSE image[s]
           /\ View'[s] = IF s = winsect' THEN win' ELSE image'[s]
  BY DEF View

(* Nothing the store knows has changed.                                    *)
LEMMA Kept ==
    ASSUME UNCHANGED <<image, winsect, win, stale, stops>>
    PROVE  Simulates
  BY DEF Simulates, Store!vars, View

(* The window gets another content.                                        *)
LEMMA Given ==
    ASSUME TypeOK, UNCHANGED <<image, winsect, stops>>
    PROVE  \E s \in Sectors : Store!Give(s)
<1>1. CASE winsect \in Sectors
  <2>1. Store!Give(winsect)
    BY <1>1, ViewOfSector DEF Store!Give, Store!AgreeBut
  <2> QED
    BY <1>1, <2>1
<1>2. CASE winsect \notin Sectors
  <2>1. \A s \in Sectors : View[s] = image[s] /\ View'[s] = View[s]
    BY <1>2, ViewOfSector
  <2>2. Store!Give(Root)
    BY <2>1 DEF Store!Give, Store!AgreeBut
  <2> QED
    BY <2>2, FatSectorsAreSectors
<1> QED
  BY <1>1, <1>2

LEMMA Modified ==
    ASSUME TypeOK, NEW x, Modify(x), UNCHANGED <<image, stops>>
    PROVE  Simulates
<1>1. PICK s \in Sectors : Store!Give(s)
  BY Given DEF Modify
<1>2. Store!Put(s)
  BY <1>1 DEF Store!Put, Modify
<1> QED
  BY <1>2 DEF Simulates, Store!Next

(* The window is moved to another sector without reading it.               *)
LEMMA Replaced ==
    ASSUME IInv, NEW s \in Sectors, ~wflag, ~stale,
           winsect' = s, stale' = FALSE, UNCHANGED <<image, stops>>
    PROVE  Simulates
<1>1. \A t \in Sectors : View[t] = image[t]
  BY ViewOfSector DEF IInv, WindowShape
<1>2. \A t \in Sectors \ {s} : View'[t] = image[t]
  BY ViewOfSector
<1>3. Store!Put(s)
  BY <1>1, <1>2 DEF Store!Put, Store!Give, Store!AgreeBut
<1> QED
  BY <1>3 DEF Simulates, Store!Next

(* The window is given up.                                                 *)
LEMMA Discarded ==
    ASSUME IInv, ~wflag, UNCHANGED <<image, stops>>, stale' = FALSE,
           \A t \in Sectors : View'[t] = image[t]
    PROVE  Simulates
<1>1. View' = image
  BY DEF View, IInv, TypeOK
<1>2. CASE stale
  <2>1. Store!Drop
    BY <1>1, <1>2 DEF Store!Drop
  <2> QED
    BY <2>1 DEF Simulates, Store!Next
<1>3. CASE ~stale
  <2>1. \A t \in Sectors : View[t] = image[t]
    BY <1>3, ViewOfSector DEF IInv, WindowShape
  <2>2. View = image
    BY <2>1 DEF View, IInv, TypeOK
  <2> QED
    BY <1>1, <1>3, <2>2 DEF Simulates, Store!vars, IInv, TypeOK
<1> QED
  BY <1>2, <1>3

-----------------------------------------------------------------------------
(* move_window.                                                            *)
LEMMA HitStep == ASSUME IInv, Hit PROVE IInv' /\ Simulates
<1>1. Simulates
  BY Kept DEF Hit, winVars, imgVars
<1> USE DEF Hit, winVars, imgVars, cntVars, callVars
<1>2. TypeOK' /\ WindowShape'
  BY DEF IInv, TypeOK, WindowShape, Moves
<1>3. MoveShape'
  <2>1. want = NoSec => ~wflag
    BY NoSecIsNoSector DEF IInv, WindowShape
  <2> QED
    BY <2>1 DEF MoveShape
<1>4. CallShape'
  BY DEF IInv, CallShape
<1> QED
  BY <1>1, <1>2, <1>3, <1>4 DEF IInv

LEMMA WriteBackStep == ASSUME IInv, WriteBack PROVE IInv' /\ Simulates
<1> USE DEF WriteBack, NeedsWriting, callVars, cntVars
<1>1. winsect \in Sectors
  BY DEF IInv, WindowShape
<1>2. Simulates
  <2>1. Store!Persist(winsect)
    <3>1. \A t \in Sectors : View'[t] = View[t]
      BY <1>1, ViewOfSector DEF IInv, TypeOK
    <3>2. View' = View
      BY <3>1 DEF View
    <3> QED
      BY <1>1, <3>2, ViewOfSector DEF IInv, TypeOK, Store!Persist, Store!AgreeBut
  <2> QED
    BY <1>1, <2>1 DEF Simulates, Store!Next
<1>3. TypeOK'
  BY <1>1 DEF IInv, TypeOK, Moves
<1>4. WindowShape' /\ MoveShape' /\ CallShape'
  BY <1>1 DEF IInv, TypeOK, WindowShape, MoveShape, CallShape
<1> QED
  BY <1>2, <1>3, <1>4 DEF IInv

LEMMA WriteBackFailsStep == ASSUME IInv, WriteBackFails PROVE IInv' /\ Simulates
<1> USE DEF WriteBackFails, NeedsWriting, callVars, cntVars
<1>1. winsect \in Sectors
  BY DEF IInv, WindowShape
<1>2. PICK x \in Mixtures(image[winsect], win) : image' = [image EXCEPT ![winsect] = x]
  OBVIOUS
<1>3. x \in Contents
  BY <1>1, MixedContents DEF IInv, TypeOK
<1>4. Simulates
  <2>1. \A t \in Sectors : View'[t] = View[t]
    BY <1>1, <1>2, ViewOfSector DEF IInv, TypeOK
  <2>2. View' = View
    BY <2>1 DEF View
  <2>3. Store!Persist(winsect)
    BY <1>1, <1>2, <2>2, ViewOfSector DEF IInv, TypeOK, Store!Persist, Store!AgreeBut
  <2> QED
    BY <1>1, <2>3 DEF Simulates, Store!Next
<1>5. TypeOK'
  BY <1>1, <1>2, <1>3 DEF IInv, TypeOK, Moves
<1>6. WindowShape' /\ MoveShape' /\ CallShape'
  BY <1>1 DEF IInv, TypeOK, WindowShape, MoveShape, CallShape
<1> QED
  BY <1>4, <1>5, <1>6 DEF IInv

LEMMA MirrorStep == ASSUME IInv, Mirror PROVE IInv' /\ Simulates
<1>1. Simulates
  BY Kept DEF Mirror, winVars
<1>2. IInv'
  BY DEF Mirror, winVars, cntVars, callVars, IInv, TypeOK, WindowShape, MoveShape,
         CallShape, Moves
<1> QED
  BY <1>1, <1>2

LEMMA ReadStep == ASSUME IInv, Read PROVE IInv' /\ Simulates
<1> USE DEF Read, Reading, NeedsWriting, imgVars, callVars, cntVars
<1>1. ~wflag
  BY DEF IInv, TypeOK, MoveShape
<1>2. CASE want = NoSec
  <2>1. Simulates
    BY <1>2, Kept
  <2>2. IInv'
    BY <1>1, <1>2 DEF IInv, TypeOK, WindowShape, MoveShape, CallShape, Moves
  <2> QED
    BY <2>1, <2>2
<1>3. CASE want # NoSec
  <2>1. \A t \in Sectors : View'[t] = image[t]
    BY <1>3, ViewOfSector
  <2>2. Simulates
    BY <1>1, <1>3, <2>1, Discarded
  <2>3. want \in Sectors /\ image[want] \in Contents
    BY <1>3 DEF IInv, TypeOK
  <2>4. TypeOK' /\ WindowShape' /\ MoveShape'
    BY <1>1, <1>3, <2>3 DEF IInv, TypeOK, WindowShape, MoveShape, Moves
  <2>5. CallShape'
    BY <1>3 DEF IInv, CallShape
  <2> QED
    BY <2>2, <2>4, <2>5 DEF IInv
<1> QED
  BY <1>2, <1>3

LEMMA ReadFailsStep == ASSUME IInv, ReadFails PROVE IInv' /\ Simulates
<1> USE DEF ReadFails, Reading, NeedsWriting, imgVars, callVars, cntVars
<1>1. ~wflag
  BY DEF IInv, TypeOK, MoveShape
<1>2. Simulates
  <2>1. CASE stale'
    <3>1. PICK s \in Sectors : Store!Give(s)
      BY Given DEF IInv
    <3>2. Store!Spoil(s)
      BY <2>1, <3>1 DEF Store!Spoil
    <3> QED
      BY <3>2 DEF Simulates, Store!Next
  <2>2. CASE ~stale'
    BY <2>2, Kept DEF IInv, TypeOK
  <2> QED
    BY <2>1, <2>2
<1>3. win' \in Contents
  BY MixedContents DEF IInv, TypeOK
<1>4. TypeOK' /\ WindowShape' /\ MoveShape'
  BY <1>1, <1>3 DEF IInv, TypeOK, WindowShape, MoveShape, Moves
<1>5. CallShape'
  BY DEF IInv, CallShape
<1> QED
  BY <1>2, <1>4, <1>5 DEF IInv

-----------------------------------------------------------------------------
(* The calls begin.                                                        *)
LEMMA BeginStep ==
    ASSUME IInv, NEW f, NEW t \in Sectors \cup {NoSec}, NEW p \in {"look", "take", "unname"},
           NEW s \in Sectors, Begin(f, t, p, s),
           clst' \in Clusters \cup {0}, p = "unname" => clst' \in Clusters,
           p = "take" => s \in FatSecs /\ t \in Sectors,
           f = "grow" => t[1] \in Clusters
    PROVE  IInv' /\ Simulates
<1> USE DEF Begin, Moving, winVars, imgVars, cntVars
<1>1. Simulates
  BY Kept
<1>2. TypeOK' /\ WindowShape' /\ MoveShape'
  BY DEF IInv, TypeOK, WindowShape, MoveShape, Moves, Places
<1>3. CallShape'
  BY DEF IInv, CallShape
<1> QED
  BY <1>1, <1>2, <1>3 DEF IInv

LEMMA StartStep == ASSUME IInv, Start PROVE IInv' /\ Simulates
<1>1. clst \in Clusters \cup {0}
  BY DEF IInv, TypeOK
<1>2. CASE Look
  <2>1. PICK s \in FatSecs \cup Tables(View) :
            Begin("look", NoSec, "look", s) /\ UNCHANGED clst
    BY <1>2 DEF Look
  <2>2. s \in Sectors
    BY TableSectors, FatSectorsAreSectors
  <2> QED
    BY <1>1, <2>1, <2>2, BeginStep
<1>3. CASE MkdirOrWrite
  <2>1. PICK t \in Tables(View), f \in FatSecs, g \in {"mkdir", "write"} :
            Begin(g, t, "take", f) /\ UNCHANGED clst
    BY <1>3 DEF MkdirOrWrite
  <2>2. t \in Sectors /\ f \in Sectors
    BY TableSectors, FatSectorsAreSectors
  <2> QED
    BY <1>1, <2>1, <2>2, BeginStep
<1>4. CASE Grow
  <2>1. PICK t \in Tables(View) \ {Root}, f \in FatSecs :
            Begin("grow", t, "take", f) /\ UNCHANGED clst
    BY <1>4 DEF Grow
  <2>2. t \in Sectors /\ t[1] \in Clusters /\ f \in Sectors
    BY TableSectors, FatSectorsAreSectors
  <2> QED
    BY <1>1, <2>1, <2>2, BeginStep
<1>5. CASE Unlink
  <2>1. PICK t \in Tables(View), c \in Clusters :
            Begin("unlink", t, "unname", t) /\ clst' = c
    BY <1>5 DEF Unlink
  <2>2. t \in Sectors
    BY TableSectors
  <2> QED
    BY <2>1, <2>2, BeginStep
<1> QED
  BY <1>2, <1>3, <1>4, <1>5 DEF Start

(* The calls return.                                                       *)
LEMMA ReturnShape ==
    ASSUME IInv, Return PROVE MoveShape' /\ CallShape'
  BY DEF Return, MoveShape, CallShape

LEMMA ReturnStep ==
    ASSUME IInv, Return, UNCHANGED <<imgVars, winVars, stops>>
    PROVE  IInv' /\ Simulates
<1> USE DEF winVars, imgVars
<1>1. Simulates
  BY Kept
<1>2. TypeOK' /\ WindowShape'
  BY DEF Return, IInv, TypeOK, WindowShape, Moves, Places
<1> QED
  BY <1>1, <1>2, ReturnShape DEF IInv

(* A call goes on with another sector and leaves the window alone.         *)
LEMMA MovingStep ==
    ASSUME IInv, NEW p \in {"entry", "give"}, NEW s \in Sectors, Moving(p, s),
           UNCHANGED <<imgVars, winVars, callVars, stops>>,
           p = "entry" => tab \in Sectors /\ (call = "mkdir" => clst \in Clusters),
           p = "give" => clst \in Clusters
    PROVE  IInv' /\ Simulates
<1> USE DEF Moving, winVars, imgVars, callVars
<1>1. Simulates
  BY Kept
<1>2. TypeOK' /\ WindowShape' /\ MoveShape'
  BY DEF IInv, TypeOK, WindowShape, MoveShape, Moves, Places
<1>3. CallShape'
  BY DEF IInv, CallShape
<1> QED
  BY <1>1, <1>2, <1>3 DEF IInv

LEMMA TakeNoneStep == ASSUME IInv, TakeNone PROVE IInv' /\ Simulates
<1>1. CASE call = "write"
  <2>1. Moving("entry", tab) /\ tab \in Sectors
    BY <1>1 DEF TakeNone, At, IInv, CallShape
  <2> QED
    BY <1>1, <2>1, MovingStep DEF TakeNone
<1>2. CASE call # "write"
  BY <1>2, ReturnStep DEF TakeNone
<1> QED
  BY <1>1, <1>2

LEMMA DirectEndStep == ASSUME IInv, DirectDone \/ DirectFails PROVE IInv' /\ Simulates
<1>1. tab \in Sectors /\ clst \in Clusters
  BY DEF DirectDone, DirectFails, IInv, CallShape
<1>2. CASE Return
  BY <1>2, ReturnStep DEF DirectDone, DirectFails
<1>3. CASE Moving("entry", tab) /\ UNCHANGED callVars
  BY <1>1, <1>3, MovingStep DEF DirectDone, DirectFails
<1> QED
  BY <1>2, <1>3 DEF DirectDone, DirectFails

LEMMA FailedStep == ASSUME IInv, Failed PROVE IInv' /\ Simulates
<1>1. CASE Return
  BY <1>1, ReturnStep DEF Failed
<1>2. CASE pc = "entry" /\ call = "mkdir" /\ Moving("give", FatOf(clst)) /\ UNCHANGED callVars
  <2>1. clst \in Clusters
    BY <1>2 DEF IInv, CallShape
  <2> QED
    BY <1>2, <2>1, FatSectors, MovingStep DEF Failed
<1>3. CASE pc = "take" /\ call = "write" /\ Moving("entry", tab) /\ UNCHANGED callVars
  <2>1. tab \in Sectors
    BY <1>3 DEF IInv, CallShape
  <2> QED
    BY <1>3, <2>1, MovingStep DEF Failed
<1> QED
  BY <1>1, <1>2, <1>3 DEF Failed

-----------------------------------------------------------------------------
(* The window is modified where it shows a sector.                         *)
LEMMA ModifiedShape ==
    ASSUME IInv, NEW p, At(p), want \in Sectors, NEW x \in Contents, Modify(x)
    PROVE  winsect \in Sectors /\ winsect' = want /\ win' \in Contents /\ WindowShape' /\ stale' = FALSE
<1>1. winsect = want
  BY NoSecIsNoSector DEF At, IInv, MoveShape
<1> QED
  BY <1>1 DEF Modify, WindowShape

LEMMA TakeStep == ASSUME IInv, Take PROVE IInv' /\ Simulates
<1>1. PICK c \in Clusters : FatOf(c) = want /\ clst' = c /\ Modify(win \cup {c})
  BY DEF Take
<1>2. At("take") /\ UNCHANGED <<imgVars, call, tab, fill, stops>>
  BY DEF Take
<1>3. want \in FatSecs /\ want \in Sectors /\ tab \in Sectors
  BY <1>2, FatSectorsAreSectors DEF At, IInv, CallShape
<1>4. win \cup {c} \in Contents
  BY MarkedContents DEF IInv, TypeOK
<1>5. winsect' = want /\ win' \in Contents /\ WindowShape' /\ stale' = FALSE /\ wflag' = TRUE
  BY <1>1, <1>2, <1>3, <1>4, ModifiedShape DEF Modify
<1>6. Simulates
  BY <1>1, <1>2, Modified DEF IInv, imgVars
<1>7. IInv'
  <2> USE DEF imgVars, Moving
  <2>1. CASE call = "mkdir" /\ Moving("flush", NoSec)
    BY <1>1, <1>2, <1>3, <1>5, <2>1
       DEF IInv, TypeOK, WindowShape, MoveShape, CallShape, Moves, Places
  <2>2. CASE call = "grow" /\ Moving("link", FatOf(tab[1]))
    <3>1. tab[1] \in Clusters
      BY <1>2, <2>2 DEF At, IInv, CallShape
    <3>2. FatOf(tab[1]) \in Sectors
      BY <3>1, FatSectors
    <3> QED
      BY <1>1, <1>2, <1>3, <1>5, <2>2, <3>2
         DEF IInv, TypeOK, WindowShape, MoveShape, CallShape, Moves, Places
  <2>3. CASE call = "write" /\ pc' = "direct" /\ want' = NoSec /\ mw' = "out"
    BY <1>1, <1>2, <1>3, <1>5, <2>3
       DEF IInv, TypeOK, WindowShape, MoveShape, CallShape, Moves, Places
  <2> QED
    BY <2>1, <2>2, <2>3 DEF Take
<1> QED
  BY <1>6, <1>7

LEMMA LinkStep == ASSUME IInv, Link PROVE IInv' /\ Simulates
<1> USE DEF Link, imgVars, callVars
<1>1. want \in Sectors /\ clst \in Clusters /\ tab \in Sectors
  BY DEF At, IInv, CallShape
<1>2. win \cup {-clst} \in Contents
  BY <1>1, MarkedContents DEF IInv, TypeOK
<1>3. winsect' = want /\ win' \in Contents /\ WindowShape' /\ stale' = FALSE /\ wflag' = TRUE
  BY <1>1, <1>2, ModifiedShape DEF Modify
<1>4. Simulates
  BY Modified DEF IInv
<1>5. IInv'
  BY <1>1, <1>3 DEF Moving, IInv, TypeOK, WindowShape, MoveShape, CallShape, Moves, Places
<1> QED
  BY <1>4, <1>5

LEMMA EntryStep == ASSUME IInv, Entry PROVE IInv' /\ Simulates
<1> USE DEF Entry, imgVars, callVars
<1> DEFINE mark == IF clst = 0 THEN {} ELSE {IF call = "mkdir" THEN -clst ELSE clst}
<1>1. want \in Sectors
  BY DEF At, IInv, CallShape
<1>2. win \cup mark \in Contents
  BY MarkedContents DEF IInv, TypeOK
<1>3. winsect' = want /\ win' \in Contents /\ WindowShape' /\ stale' = FALSE /\ wflag' = TRUE
  BY <1>1, <1>2, ModifiedShape DEF Modify
<1>4. Simulates
  BY Modified DEF IInv
<1>5. IInv'
  BY <1>1, <1>3 DEF Moving, IInv, TypeOK, WindowShape, MoveShape, CallShape, Moves, Places
<1> QED
  BY <1>4, <1>5

LEMMA UnnameStep == ASSUME IInv, Unname PROVE IInv' /\ Simulates
<1> USE DEF Unname, imgVars, callVars
<1>1. want \in Sectors /\ clst \in Clusters
  BY DEF At, IInv, CallShape
<1>2. win \ {clst, -clst} \in Contents /\ FatOf(clst) \in Sectors
  BY <1>1, MarkedContents, FatSectors DEF IInv, TypeOK
<1>3. winsect' = want /\ win' \in Contents /\ WindowShape' /\ stale' = FALSE /\ wflag' = TRUE
  BY <1>1, <1>2, ModifiedShape DEF Modify
<1>4. Simulates
  BY Modified DEF IInv
<1>5. IInv'
  BY <1>1, <1>2, <1>3
     DEF Moving, IInv, TypeOK, WindowShape, MoveShape, CallShape, Moves, Places
<1> QED
  BY <1>4, <1>5

LEMMA ReleaseStep == ASSUME IInv, Release PROVE IInv' /\ Simulates
<1> USE DEF Release, imgVars
<1>1. want \in Sectors
  BY DEF At, IInv, CallShape
<1>2. win \ {clst} \in Contents
  BY MarkedContents DEF IInv, TypeOK
<1>3. winsect' = want /\ win' \in Contents /\ WindowShape' /\ stale' = FALSE /\ wflag' = TRUE
  BY <1>1, <1>2, ModifiedShape DEF Modify
<1>4. Simulates
  BY Modified DEF IInv
<1>5. CASE Return
  <2>1. TypeOK'
    BY <1>1, <1>3, <1>5 DEF Return, IInv, TypeOK, Moves, Places
  <2> QED
    BY <1>3, <1>4, <1>5, <2>1, ReturnShape DEF IInv
<1>6. CASE Moving("sync", NoSec) /\ UNCHANGED callVars
  BY <1>1, <1>3, <1>4, <1>6
     DEF callVars, Moving, IInv, TypeOK, WindowShape, MoveShape, CallShape, Moves, Places
<1> QED
  BY <1>5, <1>6

-----------------------------------------------------------------------------
(* The window is moved to a sector of the new cluster.                     *)
LEMMA PlaceStep ==
    ASSUME IInv, mw = "ok", pc \in {"flush", "fill"}, NEW k \in Nat, k < CSize,
           NEW x \in Contents, Place(k, x), UNCHANGED <<imgVars, call, clst, tab, stops>>
    PROVE  IInv' /\ Simulates
<1> USE DEF Place, imgVars
<1>1. ~wflag /\ ~stale /\ clst \in Clusters /\ tab \in Sectors
  BY DEF IInv, MoveShape, CallShape
<1>2. <<clst, k>> \in Sectors
  BY <1>1, ClusterSectors
<1>3. Simulates
  BY <1>1, <1>2, Replaced
<1>4. IInv'
  BY <1>1, <1>2 DEF Moving, IInv, TypeOK, WindowShape, MoveShape, CallShape, Moves, Places
<1> QED
  BY <1>3, <1>4

LEMMA FillStep == ASSUME IInv, Flushed \/ FillNext PROVE IInv' /\ Simulates
<1>1. 0 \in Nat /\ 0 < CSize
  BY SizesAssumption
<1>2. CASE Flushed
  BY <1>1, <1>2, MarkedContents, PlaceStep DEF Flushed, At
<1>3. CASE FillNext
  <2>1. fill + 1 \in Nat /\ fill + 1 < CSize
    BY <1>3 DEF FillNext, SectorsToFill, IInv, TypeOK
  <2> QED
    BY <1>3, <2>1, MarkedContents, PlaceStep DEF FillNext, At
<1> QED
  BY <1>2, <1>3

LEMMA FillDoneStep == ASSUME IInv, FillDone PROVE IInv' /\ Simulates
<1>1. /\ pc = "fill" /\ mw = "ok" /\ want = NoSec /\ UNCHANGED <<image, stops>>
      /\ ~wflag /\ stale = FALSE /\ clst \in Clusters /\ tab \in Sectors
  BY DEF FillDone, At, imgVars, IInv, TypeOK, MoveShape, CallShape
<1>2. CASE /\ call = "mkdir" /\ win' = {} /\ stale' = (win # {}) /\ Moving("entry", tab)
           /\ UNCHANGED <<winsect, wflag, lost, callVars>>
  <2>1. CASE win = {}
    <3>1. Simulates
      BY <1>1, <1>2, <2>1, Kept
    <3> QED
      BY <1>1, <1>2, <2>1, <3>1
         DEF callVars, Moving, IInv, TypeOK, WindowShape, MoveShape, CallShape, Moves, Places
  <2>2. CASE win # {}
    <3>1. PICK s \in Sectors : Store!Give(s)
      BY <1>1, <1>2, Given DEF IInv
    <3>2. Store!Spoil(s)
      BY <1>2, <2>2, <3>1 DEF Store!Spoil
    <3>3. Simulates
      BY <3>2 DEF Simulates, Store!Next
    <3> QED
      BY <1>1, <1>2, <2>2, <3>3, MarkedContents
         DEF callVars, Moving, IInv, TypeOK, WindowShape, MoveShape, CallShape, Moves, Places
  <2> QED
    BY <2>1, <2>2
<1>3. CASE /\ winsect' = <<clst, 0>> /\ wflag' = TRUE
           /\ Return /\ UNCHANGED <<win, stale, lost>>
  <2>1. <<clst, 0>> \in Sectors
    BY <1>1, ClusterSectors, SizesAssumption
  <2>2. Simulates
    BY <1>1, <1>3, <2>1, Replaced
  <2>3. TypeOK' /\ WindowShape'
    BY <1>1, <1>3, <2>1 DEF Return, IInv, TypeOK, WindowShape, Moves, Places
  <2> QED
    BY <1>3, <2>2, <2>3, ReturnShape DEF IInv
<1> QED
  BY <1>2, <1>3 DEF FillDone

(* File data goes past the window, which shows a sector of the FAT then.   *)
LEMMA DirectStep == ASSUME IInv, Direct PROVE IInv' /\ Simulates
<1> USE DEF Direct, winVars, cntVars, mwVars
<1> DEFINE s == <<clst, fill>>
<1>1. winsect \in FatSecs /\ clst \in Clusters /\ fill \in Nat
  BY DEF IInv, TypeOK, CallShape
<1>2. s \in Sectors /\ s # winsect
  BY <1>1, ClusterSectors
<1>3. image' = [image EXCEPT ![s] = {Junk}]
  OBVIOUS
<1> HIDE DEF s
<1>4. Simulates
  <2>1. \A t \in Sectors \ {s} : View'[t] = View[t] /\ image'[t] = image[t]
    BY <1>3, ViewOfSector DEF IInv, TypeOK
  <2>2. View'[s] = image'[s]
    BY <1>2, ViewOfSector
  <2>3. Store!Through(s)
    BY <2>1, <2>2 DEF Store!Through, Store!AgreeBut
  <2> QED
    BY <1>2, <2>3 DEF Simulates, Store!Next
<1>5. TypeOK'
  <2>1. image' \in [Sectors -> Contents]
    BY <1>3, MarkedContents DEF IInv, TypeOK
  <2>2. fill' \in Nat
    BY <1>1
  <2> QED
    BY <2>1, <2>2 DEF IInv, TypeOK
<1>6. WindowShape'
  BY <1>2, <1>3 DEF IInv, TypeOK, WindowShape
<1>7. MoveShape' /\ CallShape'
  BY DEF IInv, MoveShape, CallShape
<1> QED
  BY <1>4, <1>5, <1>6, <1>7 DEF IInv

LEMMA SyncedStep == ASSUME IInv, Synced PROVE IInv' /\ Simulates
<1>1. /\ ~wflag /\ stale = FALSE /\ Return
      /\ UNCHANGED <<image, wflag, stale, stops>>
  BY DEF Synced, At, IInv, TypeOK, MoveShape, CallShape
<1>2. CASE UNCHANGED <<winsect, win>>
  <2>1. Simulates
    BY <1>1, <1>2, Kept
  <2>2. TypeOK' /\ WindowShape'
    BY <1>1, <1>2 DEF Return, IInv, TypeOK, WindowShape, Moves, Places
  <2> QED
    BY <1>1, <2>1, <2>2, ReturnShape DEF IInv
<1>3. CASE winsect' = NoSec /\ win' = {}
  <2>1. \A t \in Sectors : View'[t] = image[t]
    BY <1>1, <1>3, ViewOfSector, NoSecIsNoSector
  <2>2. Simulates
    BY <1>1, <2>1, Discarded
  <2>3. TypeOK' /\ WindowShape'
    BY <1>1, <1>3, NoSecIsNoSector, MarkedContents
       DEF Return, IInv, TypeOK, WindowShape, Moves, Places
  <2> QED
    BY <1>1, <2>2, <2>3, ReturnShape DEF IInv
<1> QED
  BY <1>2, <1>3 DEF Synced

LEMMA StopStep == ASSUME IInv, Stop PROVE IInv' /\ Simulates
<1>1. /\ Return /\ winsect' = NoSec /\ win' = {} /\ wflag' = FALSE /\ stale' = FALSE
      /\ image' = image /\ stops' = stops + 1
  BY DEF Stop, imgVars
<1>2. \A t \in Sectors : View'[t] = image[t]
  BY <1>1, ViewOfSector, NoSecIsNoSector
<1>3. View' = image
  BY <1>2 DEF View, IInv, TypeOK
<1>4. Simulates
  BY <1>1, <1>3 DEF Simulates, Store!Next, Store!Stop
<1>5. stops' \in Nat
  BY <1>1 DEF IInv, TypeOK
<1>6. TypeOK'
  BY <1>1, <1>5, MarkedContents DEF Return, IInv, TypeOK, Moves, Places
<1>7. WindowShape'
  BY <1>1, NoSecIsNoSector DEF WindowShape
<1> QED
  BY <1>1, <1>4, <1>6, <1>7, ReturnShape DEF IInv

-----------------------------------------------------------------------------
LEMMA InitShape == Init => IInv /\ Store!Init
<1> SUFFICES ASSUME Init PROVE IInv /\ Store!Init
  OBVIOUS
<1>1. image \in [Sectors -> Contents]
  BY MarkedContents DEF Init
<1>2. \A t \in Sectors : View[t] = image[t]
  BY ViewOfSector, NoSecIsNoSector DEF Init
<1>3. View = image
  BY <1>1, <1>2 DEF View
<1>4. TypeOK /\ WindowShape
  BY <1>1, NoSecIsNoSector, MarkedContents DEF Init, TypeOK, WindowShape, Places, Moves
<1>5. MoveShape /\ CallShape
  BY DEF Init, MoveShape, CallShape
<1>6. Store!Init
  BY <1>1, <1>3 DEF Init, Store!Init
<1> QED
  BY <1>4, <1>5, <1>6 DEF IInv

LEMMA StoreType == IInv => Store!TypeOK
<1> SUFFICES ASSUME IInv PROVE Store!TypeOK
  OBVIOUS
<1>1. View \in [Sectors -> Contents]
  BY DEF View, IInv, TypeOK
<1> QED
  BY <1>1 DEF IInv, TypeOK, Store!TypeOK

(* Every step keeps the invariant and is a step of the store, or none.     *)
LEMMA StepOfStore == IInv /\ [Next]_vars => IInv' /\ Simulates
<1> SUFFICES ASSUME IInv, [Next]_vars PROVE IInv' /\ Simulates
  OBVIOUS
<1>1. CASE MoveWindow
  BY <1>1, HitStep, WriteBackStep, WriteBackFailsStep, MirrorStep, ReadStep, ReadFailsStep
     DEF MoveWindow
<1>2. CASE Start
  BY <1>2, StartStep
<1>3. CASE Step
  <2>1. CASE Looked
    BY <2>1, ReturnStep DEF Looked
  <2> QED
    BY <1>3, <2>1, TakeStep, TakeNoneStep, LinkStep, FillStep, FillDoneStep, DirectStep,
       DirectEndStep, EntryStep, UnnameStep, ReleaseStep, SyncedStep, FailedStep
       DEF Step
<1>4. CASE Stop
  BY <1>4, StopStep
<1>5. CASE UNCHANGED vars
  <2> USE <1>5 DEF vars, imgVars, winVars, cntVars, callVars, mwVars
  <2>1. Simulates
    BY Kept
  <2>2. IInv'
    BY DEF IInv, TypeOK, WindowShape, MoveShape, CallShape
  <2> QED
    BY <2>1, <2>2
<1> QED
  BY <1>1, <1>2, <1>3, <1>4, <1>5 DEF Next

(* What the window holds at each place of a call (ff.c:252), for every     *)
(* size of the volume and any number of failed transfers and stops.        *)
THEOREM WindowInvariant == Spec => []IInv
<1>1. Init => IInv
  BY InitShape
<1>2. IInv /\ [Next]_vars => IInv'
  BY StepOfStore
<1> QED
  BY <1>1, <1>2, PTL DEF Spec

(* The sector window is a store of sectors in which every modification is  *)
(* seen at once and reaches the image in order, one sector behind at most  *)
(* (ff.c:252), whatever transfers fail or are cut off and wherever the     *)
(* program stops.                                                          *)
THEOREM ImplementsStore == Spec => IsSectorStore
<1>1. Init => Store!Init
  BY InitShape
<1>2. IInv /\ IInv' /\ [Next]_vars => [Store!Next /\ Store!TypeOK']_(Store!vars)
  <2> SUFFICES ASSUME IInv, IInv', [Next]_vars
               PROVE  [Store!Next /\ Store!TypeOK']_(Store!vars)
    OBVIOUS
  <2>1. Simulates
    BY StepOfStore
  <2>2. Store!TypeOK'
    BY StoreType, PTL
  <2> QED
    BY <2>1, <2>2 DEF Simulates
<1> QED
  BY <1>1, <1>2, WindowInvariant, PTL DEF Spec, IsSectorStore, Store!Spec

-----------------------------------------------------------------------------
(* The free count.                                                         *)
CountInv == errs \in Nat /\ FsinfoCurrent

LEMMA CountKept == ASSUME CountInv, UNCHANGED <<errs, fsinfo, cntVars>> PROVE CountInv'
  BY DEF CountInv, FsinfoCurrent, cntVars

LEMMA CountFault == ASSUME CountInv, Fault PROVE CountInv'
<1>1. errs' \in Nat /\ errs' > 0
  BY DEF Fault, CountInv
<1> QED
  BY <1>1 DEF CountInv, FsinfoCurrent

LEMMA CountChanged ==
    ASSUME CountInv, CountTaken \/ CountGiven, UNCHANGED <<errs, fsinfo>> PROVE CountInv'
<1>1. CASE UNCHANGED cntVars
  BY <1>1, CountKept
<1>2. CASE fsi_flag' = TRUE
  BY <1>2 DEF CountInv, FsinfoCurrent
<1> QED
  BY <1>1, <1>2 DEF CountTaken, CountGiven

LEMMA CountStep == CountInv /\ [Next]_vars => CountInv'
<1> SUFFICES ASSUME CountInv, [Next]_vars PROVE CountInv'
  OBVIOUS
<1> USE DEF imgVars
<1>1. CASE MoveWindow
  <2>1. CASE Hit \/ WriteBack \/ Read
    BY <2>1, CountKept DEF Hit, WriteBack, Read
  <2>2. CASE WriteBackFails \/ ReadFails
    BY <2>2, CountFault DEF WriteBackFails, ReadFails
  <2>3. CASE Mirror
    <3>1. UNCHANGED <<fsinfo, cntVars>> /\ (errs' = errs \/ Fault)
      BY <2>3 DEF Mirror
    <3> QED
      BY <3>1, CountKept, CountFault
  <2> QED
    BY <1>1, <2>1, <2>2, <2>3 DEF MoveWindow
<1>2. CASE Start
  BY <1>2, CountKept DEF Start, Look, MkdirOrWrite, Grow, Unlink, Begin
<1>3. CASE Step
  <2>1. CASE Take \/ Release
    BY <2>1, CountChanged DEF Take, Release
  <2>2. CASE DirectFails
    BY <2>2, CountFault DEF DirectFails
  <2>3. CASE Synced
    <3>1. CASE Fault
      BY <3>1, CountFault
    <3>2. CASE ~NeedsFsinfo /\ UNCHANGED <<fsinfo, winsect, win, errs>>
      BY <2>3, <3>2 DEF Synced, NeedsFsinfo, CountInv, FsinfoCurrent
    <3>3. CASE fsinfo' = free_clust /\ UNCHANGED errs
      BY <2>3, <3>3 DEF Synced, CountInv, FsinfoCurrent
    <3> QED
      BY <2>3, <3>1, <3>2, <3>3 DEF Synced
  <2>4. CASE Looked \/ TakeNone \/ Link \/ Flushed \/ FillNext \/ FillDone
    BY <2>4, CountKept DEF Looked, TakeNone, Link, Flushed, FillNext, FillDone
  <2>5. CASE Direct \/ DirectDone \/ Entry \/ Unname \/ Failed
    BY <2>5, CountKept DEF Direct, DirectDone, Entry, Unname, Failed
  <2> QED
    BY <1>3, <2>1, <2>2, <2>3, <2>4, <2>5 DEF Step
<1>4. CASE Stop
  BY <1>4 DEF Stop, CountInv, FsinfoCurrent
<1>5. CASE UNCHANGED vars
  BY <1>5, CountKept DEF vars
<1> QED
  BY <1>1, <1>2, <1>3, <1>4, <1>5 DEF Next

(* A free count the driver does not mean to write is the one the next      *)
(* mount will find in FSINFO (sync, ff.c:305), unless a transfer has       *)
(* failed.                                                                 *)
THEOREM FreeCountIsCurrent == Spec => []FsinfoCurrent
<1>1. Init => CountInv
  BY DEF Init, CountInv, FsinfoCurrent
<1>2. CountInv /\ [Next]_vars => CountInv'
  BY CountStep
<1>3. CountInv => FsinfoCurrent
  BY DEF CountInv
<1> QED
  BY <1>1, <1>2, <1>3, PTL DEF Spec
=============================================================================
