---------------------------- MODULE MCImageFile -----------------------------
(* Instances of ImageFile for TLC.                                         *)
EXTENDS ImageFile
=============================================================================
