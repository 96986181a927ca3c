-------------------------- MODULE MCRequestRegistry --------------------------
(* Instances of RequestRegistry for TLC. *)
EXTENDS RequestRegistry, TLC

CONSTANT x

\* Clients may choose an id of their own or one that the server generates too.
MCClientIds == {x, 0}

WorkSymmetry == Permutations(Works)
=============================================================================
