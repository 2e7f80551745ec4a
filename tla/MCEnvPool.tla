----------------------------- MODULE MCEnvPool -----------------------------
(* Small instances of EnvPool for TLC. *)
EXTENDS EnvPool, TLC

CONSTANTS c1, c2

\* Clients are interchangeable: no action and no property names one.
ClientSymmetry == Permutations(Clients)
=============================================================================
