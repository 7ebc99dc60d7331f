--------------------------- MODULE MCJobDirectory ---------------------------
(* Instances of JobDirectory for TLC: a command delivered twice, and what  *)
(* may be done with the job besides.                                       *)
EXTENDS JobDirectory

CONSTANTS p1, p2, p3, a, b

Asks(kind, file) == [kind |-> kind, file |-> file]
Three(x, y, z) == [p \in Procs |-> CASE p = p1 -> x [] p = p2 -> y [] OTHER -> z]

Creates == Asks("create", <<a, b>>)
Converts == Asks("convert", <<a, b>>)
Resumes == Asks("resume", Absent)

CreateOne == Asks("create", <<a>>)

Some ==
  {Three(CreateOne, CreateOne, Resumes),
   Three(CreateOne, Resumes, Resumes),
   Three(Creates, Asks("resume", Empty), Resumes),
   Three(Creates, Asks("resume", <<b>>), Asks("show", Absent)),
   Three(Converts, Resumes, Asks("show", Absent))}
=============================================================================
