---- MODULE MCFileCopy ----
(* Instances of FileCopy for TLC. *)
EXTENDS FileCopy

(* An empty file, files that end inside a buffer and after one, *)
(* and some that do not fit the volume together. *)
MCLengths == {<<5, 3>>, <<0, 7>>}

(* Names of two entries and of one, and a first name that is refused. *)
MCNames == {<<[need |-> 2, barred |-> FALSE], [need |-> 1, barred |-> FALSE]>>,
            <<[need |-> 1, barred |-> TRUE], [need |-> 1, barred |-> FALSE]>>}

(* A root with two entries left, and a table that grows. *)
MCRooms == {2, Dynamic}
====
