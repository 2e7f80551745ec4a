--------------------------- MODULE CommandPromise ---------------------------
(***************************************************************************)
(* What the command lanes of the gateway promise to whoever enqueues the   *)
(* agent turns of sessions, without lanes, generations or restarts: a turn *)
(* is refused or accepted, an accepted turn executes at most once, the     *)
(* turns of a session begin in the order they were accepted, and every     *)
(* accepted turn is settled or rejected in the end.                        *)
(***************************************************************************)
EXTENDS Integers

CONSTANTS
  Sessions,
  MaxTurns      \* turn i of a session is the i-th one it asks for

VARIABLE stage  \* stage[s][i]: where turn i of session s is

Turns == 1..MaxTurns
Stages == {"new", "pending", "executing", "executed", "settled", "rejected"}

Init == stage = [s \in Sessions |-> [i \in Turns |-> "new"]]

Advances ==
  { <<"new", "pending">>, <<"new", "executing">>, <<"new", "rejected">>,
    <<"pending", "executing">>, <<"pending", "rejected">>,
    <<"executing", "executed">>, <<"executed", "settled">> }

\* Turns of several sessions, and the next turn of one session, may advance in
\* one step; no turn begins while an earlier one of its session still waits.
Next ==
  /\ stage' \in [Sessions -> [Turns -> Stages]]
  /\ \A s \in Sessions, i \in Turns :
       /\ stage'[s][i] # stage[s][i] => <<stage[s][i], stage'[s][i]>> \in Advances
       /\ stage'[s][i] = "executing" /\ stage[s][i] # "executing" =>
            \A j \in 1..i - 1 : stage'[s][j] \notin {"new", "pending"}

Spec == Init /\ [][Next]_stage
=============================================================================
