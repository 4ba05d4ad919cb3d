---------------------------- MODULE MCKeyRouting -----------------------------
(***************************************************************************)
(* Instances of KeyRouting for TLC: two clients, so that one may take the  *)
(* keys over while the other goes and inherit its socket's number, and a   *)
(* key beside the cycle key.                                               *)
(***************************************************************************)
EXTENDS KeyRoutingProps, TLC

CONSTANTS a, b, g, l1

MCClient == {a, b}
MCKey == {g, l1}
MCFd == {5, 6}

Symmetry == Permutations(MCClient)
==============================================================================
