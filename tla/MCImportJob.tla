---------------------------- MODULE MCImportJob ----------------------------
(* Instances of ImportJob for TLC. *)
EXTENDS ImportJob

CONSTANTS a, b, c

(* a and c are new items, b exists; a is listed twice in one file, and a   *)
(* resumed job may get a file with other items or with none.               *)
MCFiles == {<<a, b, a>>, <<a, b, c>>, <<c>>, <<>>}
=============================================================================
