-------------------------- MODULE MCHttpConnections --------------------------
(* Instances of HttpConnections for TLC. *)
EXTENDS HttpConnections, TLC

SessionSymmetry == Permutations(Sessions)
=============================================================================
