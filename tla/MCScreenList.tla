---------------------------- MODULE MCScreenList -----------------------------
(***************************************************************************)
(* Instances of ScreenList for TLC.  With n1 as the clock's screen, which  *)
(* never hides, and two addresses for the screens of network clients, an   *)
(* address is freed and handed out again, and each relinking of the ring   *)
(* (only node, head, middle, oldest) happens.                              *)
(***************************************************************************)
EXTENDS ScreenListProps

CONSTANTS n1, n2, n3

MCNode == {n1, n2, n3}
MCClient == {n2, n3}

Symmetry == Permutations(MCClient)
==============================================================================
