---------------------------- MODULE MCRLRollout ----------------------------
(* Small instances of RLRollout for TLC. *)
EXTENDS RLRollout

CONSTANTS s1, s2
=============================================================================
