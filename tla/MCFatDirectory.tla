---- MODULE MCFatDirectory ----
(* Instances of FatDirectory for TLC. *)
EXTENDS FatDirectory, TLC

(* A short name; two long names that begin alike and compete for the same *)
(* numbered short names; a name that is spelled like one of those; a name *)
(* of 255 characters. *)
MCName == {"a", "long", "longer", "alias", "full"}
MCText == [a |-> <<"A">>, long |-> <<"Long file nam">>, longer |-> <<"Long file nam", "e">>,
           alias |-> <<"LONGFI~1">>, full |-> <<"Long file nam", "f">>]
MCSfn == [a |-> "A", long |-> "LONGFILE", longer |-> "LONGFILE", alias |-> "LONGFI~1", full |-> "LONGFILE"]
MCLoss == {"long", "longer", "full"}
MCNumbered == [n \in MCLoss |-> <<"LONGFI~1", "LONGFI~2">>]

(* The checksum of "A" is that of "LONGFI~1". *)
MCSum == ("A" :> 1) @@ ("LONGFI~1" :> 1) @@ ("LONGFI~2" :> 2)

(* A cluster of a removed table: a short name and a deleted entry; a long *)
(* name that is whole; one that wants its first segment. *)
MCLeftovers == {<<Short("a", "A"), Deleted>>,
                <<Lfn("long", 1, 1), Short("long", "LONGFI~1")>>,
                <<Lfn("longer", 2, 2), Other>>}
====
