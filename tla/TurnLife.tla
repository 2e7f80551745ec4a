------------------------------ MODULE TurnLife ------------------------------
(***************************************************************************)
(* What the RL proxy promises about a main turn, without sessions, tasks,  *)
(* callbacks or queues: the stages a turn goes through on its way from the *)
(* conversation to a training sample.  A turn waits for its next state, is *)
(* judged once the next state is there, is scheduled for submission and    *)
(* ends as a sample that trains or as one whose loss is masked out.  Only  *)
(* a judged turn trains, no turn goes back, none is sampled twice, and     *)
(* none is lost unless CanLose.                                            *)
(***************************************************************************)
CONSTANTS
  Turn,      \* the turns there may be
  CanLose    \* session ids are used again, so a turn may be overwritten

VARIABLE stage

Stages == {"none", "waiting", "judging", "dueJudged", "dueUnjudged",
           "trained", "masked", "lost"}

Init == stage = [t \in Turn |-> "none"]

\* How the stage of a turn that a request did not just open may change.
Advances ==
  { <<"waiting", "judging">>, <<"waiting", "dueUnjudged">>,
    <<"judging", "dueJudged">>, <<"dueJudged", "trained">>,
    <<"dueJudged", "masked">>, <<"dueUnjudged", "masked">> }
  \cup IF CanLose THEN {<<"waiting", "lost">>, <<"judging", "lost">>} ELSE {}

Others(ts, advances) ==
  \A t \in Turn \ ts : stage'[t] = stage[t] \/ <<stage[t], stage'[t]>> \in advances

\* A request opens one turn; the same step may judge or schedule older ones,
\* but turns nothing into a sample.
Open(t) ==
  /\ stage[t] = "none"
  /\ stage' \in [Turn -> Stages]
  /\ stage'[t] \in {"waiting", "dueUnjudged"}
  /\ Others({t}, {a \in Advances : a[2] \notin {"trained", "masked"}})

\* Turns are judged or scheduled without a new one.
Advance ==
  /\ stage' \in [Turn -> Stages]
  /\ Others({}, {a \in Advances : a[2] \notin {"trained", "masked", "lost"}})

\* One scheduled turn becomes a sample.
Sample(t) ==
  /\ stage[t] \in {"dueJudged", "dueUnjudged"}
  /\ \E end \in {"trained", "masked"} :
       /\ <<stage[t], end>> \in Advances
       /\ stage' = [stage EXCEPT ![t] = end]

Next == Advance \/ \E t \in Turn : Open(t) \/ Sample(t)

Spec == Init /\ [][Next]_stage

\* A turn that is judged or scheduled becomes a sample in the end.
Promise ==
  \A t \in Turn : stage[t] \in {"judging", "dueJudged", "dueUnjudged"}
                    ~> stage[t] \in {"trained", "masked"}
=============================================================================
