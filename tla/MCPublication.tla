--------------------------- MODULE MCPublication ---------------------------
(* Instances of Publication for TLC. *)
EXTENDS Publication, TLC

CONSTANTS a, b, j1, j2, h1, h2, h3, h4

(* Two jobs meet at item a, in either order with respect to b. *)
MCListOf == (j1 :> <<a, b>>) @@ (j2 :> <<a>>)

Ask(act, f) == [action |-> act, force |-> f]
MCAsks == {Ask("publish", "none"), Ask("publish", "hidden"), Ask("unpublish", "visible")}
MCBefore == {{}, Classes}

(* The handles that are minted are alike. *)
Fresh == Permutations({h2, h3, h4})
=============================================================================
