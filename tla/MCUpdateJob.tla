---------------------------- MODULE MCUpdateJob ----------------------------
(* Instances of UpdateJob for TLC. *)
EXTENDS UpdateJob, TLC

CONSTANTS u, v, w, x, y

(* w is below both URIs; x does not exist; y is below w, and the model     *)
(* rejects it.                                                             *)
MCChildren == (u :> <<w, x>>) @@ (v :> <<w>>) @@ (w :> <<y>>) @@ (x :> <<y>>) @@ (y :> <<>>)

(* The command line gives no log to a dry run. *)
MCOptions == {o \in [tx : BOOLEAN, log : BOOLEAN, dry : BOOLEAN, model : BOOLEAN] :
                o.dry => ~o.log}
=============================================================================
