---------------------------- MODULE SectorStore ----------------------------
(***************************************************************************)
(* What the sector window promises the rest of the FAT driver: a store of  *)
(* sectors in which every modification is seen at once, and which reaches  *)
(* the image in order, so that a program that stops loses the last         *)
(* modified sector and no other.  A failed transfer may spoil the sector   *)
(* that was used last, in what the driver sees; the image keeps it.        *)
(***************************************************************************)
EXTENDS Naturals

CONSTANTS
    Sector,     \* the sectors of the volume
    Content     \* what a sector may hold

VARIABLES
    view,       \* sector -> what the driver sees
    durable,    \* sector -> what the image holds
    spoilt,     \* the sector used last shows something nobody gave it
    stops       \* how often the program has stopped

vars == <<view, durable, spoilt, stops>>

Init ==
    /\ view \in [Sector -> Content]
    /\ durable = view
    /\ spoilt = FALSE /\ stops = 0

(* f and g agree on every sector but s.                                    *)
AgreeBut(f, g, s) == \A t \in Sector \ {s} : f[t] = g[t]

(* s gets a new content in the view.  Every other sector is on the image.  *)
Give(s) ==
    /\ AgreeBut(view, durable, s)
    /\ AgreeBut(view', view, s)
    /\ UNCHANGED <<durable, stops>>

(* A caller gives it, or a failed transfer.                                *)
Put(s) == Give(s) /\ spoilt' = FALSE

Spoil(s) == Give(s) /\ spoilt' = TRUE

(* A spoilt sector is given up.                                            *)
Drop == spoilt /\ view' = durable /\ spoilt' = FALSE /\ UNCHANGED <<durable, stops>>

(* The one sector that was not on the image is written, or half written.   *)
Persist(s) ==
    /\ AgreeBut(view, durable, s)
    /\ AgreeBut(durable', durable, s)
    /\ UNCHANGED <<view, spoilt, stops>>

(* File data goes to the image at once.                                    *)
Through(s) ==
    /\ AgreeBut(view', view, s)
    /\ AgreeBut(durable', durable, s)
    /\ view'[s] = durable'[s]
    /\ UNCHANGED <<spoilt, stops>>

Stop == view' = durable /\ spoilt' = FALSE /\ stops' = stops + 1 /\ UNCHANGED durable

Next ==
    \/ \E s \in Sector : Put(s) \/ Spoil(s) \/ Persist(s) \/ Through(s)
    \/ Drop
    \/ Stop

TypeOK ==
    /\ view \in [Sector -> Content]
    /\ durable \in [Sector -> Content]
    /\ spoilt \in BOOLEAN
    /\ stops \in Nat

Spec == Init /\ [][Next /\ TypeOK']_vars
=============================================================================
