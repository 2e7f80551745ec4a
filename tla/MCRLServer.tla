----------------------------- MODULE MCRLServer -----------------------------
(* Small instances of RLServer for TLC. *)
EXTENDS RLServer

CONSTANTS s1, s2

\* The worker drains and never pauses.  Pausing only keeps requests out, and
\* leaving it out affords more requests.
StreamingSpec == Init /\ [][ServerNext \/ Resume \/ Take]_vars

\* The worker may pause, drain and clear the eval scores at any moment.
FairSpec == Spec /\ Fairness
=============================================================================
