--------------------------- MODULE MCStompDaemon ---------------------------
(* Instances of StompDaemon for TLC. *)
EXTENDS StompDaemon, TLC

(* Every command has a job id of its own (named like its message). *)
OwnJob == [m \in Messages |-> m]

Interchangeable == Permutations(Messages) \cup Permutations(Workers)
=============================================================================
