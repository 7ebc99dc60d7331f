-------------------------- MODULE MCPageSequence --------------------------
(* Instances of PageSequence for TLC. *)
EXTENDS PageSequence

CONSTANTS s, t

Page(number, files) == [numbered |-> TRUE, number |-> number, files |-> files]
Unnumbered(files) == [numbered |-> FALSE, number |-> 0, files |-> files]

(* In order, out of order behind the first page (twice), out of order from *)
(* the start, a number twice, a label without a number, numbers from 2 and *)
(* from 0.                                                                 *)
MCRows ==
  {<<Page(1, <<s, t>>), Page(2, <<s>>)>>,
   <<Page(1, <<s>>), Page(3, <<>>), Page(2, <<t>>)>>,
   <<Page(1, <<>>), Page(4, <<>>), Page(3, <<>>), Page(2, <<>>)>>,
   <<Page(3, <<s>>), Page(2, <<>>), Page(1, <<>>)>>,
   <<Page(2, <<>>), Page(1, <<s>>), Page(2, <<>>)>>,
   <<Page(1, <<>>), Unnumbered(<<s>>)>>,
   <<Page(3, <<>>), Page(2, <<>>)>>,
   <<Page(1, <<>>), Page(0, <<>>)>>}
=============================================================================
