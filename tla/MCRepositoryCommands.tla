------------------------ MODULE MCRepositoryCommands ------------------------
(* Instances of RepositoryCommands for TLC. *)
EXTENDS RepositoryCommands, TLC

CONSTANTS root, a, b, d, n, m, v0, v1, v2, bad, r1, r2, r3

(* a/b and d exist, a/n and a/n/m do not; b is a page, linked from a with  *)
(* d, which is not contained in a.                                         *)
MCAncestors == (root :> <<>>) @@ (a :> <<root>>) @@ (b :> <<a, root>>) @@ (d :> <<root>>)
               @@ (n :> <<a, root>>) @@ (m :> <<n, a, root>>)
MCMembers == (root :> <<a>>) @@ (a :> <<b, d>>) @@ [x \in {b, d, n, m} |-> <<>>]
MCHtmlFiles == (b :> 2) @@ [x \in {root, a, d, n, m} |-> 0]

Cmd(type, args, value, recursive, tx) ==
  [type |-> type, args |-> args, value |-> value, recursive |-> recursive, tx |-> tx, dry |-> FALSE]

MCCommands ==
  {Cmd("delete", <<a>>, v0, rec, tx) : rec, tx \in BOOLEAN}
  \cup {[Cmd("delete", <<a>>, v0, TRUE, FALSE) EXCEPT !.dry = TRUE], Cmd("delete", <<b, d>>, v0, FALSE, FALSE)}
  \cup {Cmd("reindex", <<a>>, v0, TRUE, FALSE), Cmd("create", <<m>>, v0, FALSE, FALSE)}
  \cup {Cmd("set", <<b>>, v, FALSE, FALSE) : v \in {v1, v2, bad}}
  \cup {Cmd("set", <<b, b>>, v, FALSE, FALSE) : v \in {v1, v2}}
  \cup {Cmd("replace", <<b>>, v, FALSE, TRUE) : v \in {v1, v2}}
  \cup {Cmd("annotate", <<b, d>>, v0, FALSE, tx) : tx \in BOOLEAN}
  \cup {Cmd("web", <<b>>, bad, FALSE, FALSE), Cmd("web_model", <<b>>, bad, FALSE, FALSE),
        Cmd("web_model", <<b>>, v2, FALSE, FALSE)}
  \cup {Cmd("stub", <<r1, r3, r2>>, v0, FALSE, TRUE)}
=============================================================================
