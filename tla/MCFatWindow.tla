---- MODULE MCFatWindow ----
(* Instances of FatWindow for TLC. *)
EXTENDS FatWindow

(* TLC does not go on from a state in which a cut sector has done harm:    *)
(* CrashSafe and TablesCleared say nothing there.                          *)
NotLost == ~lost
====
