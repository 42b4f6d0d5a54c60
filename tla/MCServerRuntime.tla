-------------------------- MODULE MCServerRuntime --------------------------
(* Small instances of ServerRuntime for TLC. *)
EXTENDS ServerRuntime, TLC

\* Connections are interchangeable and only compared, never ordered.
ConnSymmetry == Permutations(Conns)
=============================================================================
