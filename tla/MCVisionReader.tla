---------------------------- MODULE MCVisionReader ----------------------------
(* Three hands.  A misread card of the first hand's hole is the first card of  *)
(* its board; the second holds other ranks; the third has the ranks of the     *)
(* first, which it inherits the votes of when the second was never made out.   *)
EXTENDS VisionReader, TLC

MCDeals ==
  << [hole |-> {<<"A", "h">>, <<"K", "c">>},
      board |-> <<<<"A", "c">>, <<"7", "h">>, <<"2", "h">>>>],
     [hole |-> {<<"K", "h">>, <<"K", "c">>},
      board |-> <<<<"7", "c">>, <<"7", "h">>, <<"2", "c">>>>],
     [hole |-> {<<"A", "c">>, <<"K", "h">>},
      board |-> <<<<"7", "c">>, <<"3", "h">>, <<"2", "c">>>>] >>

MCDoubtful == {<<"A", "h">>, <<"A", "c">>, <<"K", "h">>}

\* Seats are only compared with each other.
Symmetry == Permutations(Seats)
=============================================================================
