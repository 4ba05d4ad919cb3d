------------------------------ MODULE MCRefresh ------------------------------
(***************************************************************************)
(* Instances of Refresh for TLC.                                           *)
(***************************************************************************)
EXTENDS RefreshProps, TLC

CONSTANTS a, b

OneClient  == {a}
TwoClients == {a, b}

Symmetry == Permutations(TwoClients)
==============================================================================
