------------------------------ MODULE MCRunLoop ------------------------------
(* Small instances of RunLoop for TLC. *)
EXTENDS RunLoop

CONSTANTS s1, s2
=============================================================================
