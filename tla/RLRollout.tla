------------------------------ MODULE RLRollout ------------------------------
(***************************************************************************)
(* The rollout worker of openjordy-rl/openjordy_rollout.py, composed with  *)
(* the proxy it starts.  The trainer calls generate_rollout_openjordy once *)
(* per rollout: it clears the eval scores, opens the proxy for requests,   *)
(* polls the output queue until it has a batch, sorts it, closes the proxy *)
(* and returns.  The worker runs on a thread of its own, so every touch of *)
(* what it shares with the server's loop (the event, the queue, the eval   *)
(* scores) is a step that the server's steps interleave with.              *)
(***************************************************************************)
EXTENDS RLServer, SequencesExt

CONSTANT BatchSize     \* rollout_batch_size

ASSUME BatchAssumption == BatchSize \in Nat \ {0}

VARIABLES
  phase,        \* where generate_rollout_openjordy is
  completed,    \* completed_groups, in insertion order
  data,         \* data: the groups of the batch
  batches       \* history: the batches returned to the trainer

rolloutVars == <<phase, completed, data, batches>>
allVars == <<vars, rolloutVars>>

Phases == {"idle", "resuming", "polling", "pausing", "metrics"}

RolloutInit ==
  /\ Init
  /\ phase = "idle"
  /\ completed = <<>>
  /\ data = <<>>
  /\ batches = <<>>

\* Mutant of ByIndex: the batch is left in the order of its arrival.
ByArrival(group) == group

\* data.sort: the batch in the order of its indices, no two of which are equal.
ByIndex(group) ==
  CHOOSE q \in [1..Len(group) -> ToSet(group)] :
    /\ ToSet(q) = ToSet(group)
    /\ \A i, j \in DOMAIN q : i < j => q[i].index < q[j].index

\* worker._server.reset_eval_scores()
StartRollout ==
  /\ phase = "idle"
  /\ phase' = "resuming"
  /\ ClearEvalScores
  /\ UNCHANGED <<completed, data, batches>>

\* worker.resume_submission()
ResumeSubmission ==
  /\ phase = "resuming"
  /\ phase' = "polling"
  /\ Resume
  /\ UNCHANGED <<completed, data, batches>>

\* One get_nowait of get_completed_groups; groups are keyed by an index that
\* is never given twice, so the dictionary is the list of what was taken.
GetGroup ==
  /\ phase = "polling"
  /\ Take
  /\ completed' = Append(completed, Head(outputQueue))
  /\ UNCHANGED <<phase, data, batches>>

\* Mutants of Assemble: groups are copied into the batch instead of moved;
\* the batch is full only beyond its size.
AssembleCopies ==
  LET missing == BatchSize - Len(data)
      count == IF Len(completed) < missing THEN Len(completed) ELSE missing
      batch == data \o SubSeq(completed, 1, count)
      full == Len(batch) = BatchSize
  IN
  /\ phase = "polling"
  /\ outputQueue = <<>>
  /\ phase' = IF full THEN "pausing" ELSE "polling"
  /\ data' = IF full THEN ByIndex(batch) ELSE batch
  /\ completed' = IF full THEN <<>> ELSE completed
  /\ UNCHANGED <<vars, batches>>
AssembleOverfull ==
  /\ phase = "polling"
  /\ outputQueue = <<>>
  /\ phase' = IF Len(data) > BatchSize THEN "pausing" ELSE "polling"
  /\ data' = IF Len(data) > BatchSize THEN ByIndex(data) ELSE data \o completed
  /\ completed' = <<>>
  /\ UNCHANGED <<vars, batches>>

\* The queue is empty: move groups to the batch until it is full.  A full
\* batch is sorted and what is left of completed_groups goes with the frame;
\* otherwise the loop sleeps and polls again.
Assemble ==
  LET missing == BatchSize - Len(data)
      count == IF Len(completed) < missing THEN Len(completed) ELSE missing
      batch == data \o SubSeq(completed, 1, count)
      full == Len(batch) = BatchSize
  IN
  /\ phase = "polling"
  /\ outputQueue = <<>>
  /\ phase' = IF full THEN "pausing" ELSE "polling"
  /\ data' = IF full THEN ByIndex(batch) ELSE batch
  /\ completed' = IF full THEN <<>> ELSE SubSeq(completed, count + 1, Len(completed))
  /\ UNCHANGED <<vars, batches>>

\* Mutant of PauseSubmission: the proxy stays open.
PauseSubmissionSkipped ==
  /\ phase = "pausing"
  /\ phase' = "metrics"
  /\ UNCHANGED <<vars, completed, data, batches>>

\* worker.pause_submission()
PauseSubmission ==
  /\ phase = "pausing"
  /\ phase' = "metrics"
  /\ Pause
  /\ UNCHANGED <<completed, data, batches>>

\* drain_eval_scores(), and the batch is returned.
ReturnBatch ==
  /\ phase = "metrics"
  /\ phase' = "idle"
  /\ ClearEvalScores
  /\ batches' = Append(batches, data)
  /\ data' = <<>>
  /\ UNCHANGED completed

WorkerStep ==
  \/ StartRollout
  \/ ResumeSubmission
  \/ GetGroup
  \/ Assemble
  \/ PauseSubmission
  \/ ReturnBatch

RolloutNext == WorkerStep \/ (ServerNext /\ UNCHANGED rolloutVars)

RolloutSpec == RolloutInit /\ [][RolloutNext]_allVars

\* The trainer asks for the next rollout as long as there are rounds left, and
\* the worker's thread runs.
FairRolloutSpec == RolloutSpec /\ Fairness /\ WF_allVars(WorkerStep)

-----------------------------------------------------------------------------
(* Properties *)

\* The worker's variables keep their types.
RolloutTypeOK ==
  /\ phase \in Phases
  /\ completed \in Seq(Samples)
  /\ data \in Seq(Samples)
  /\ batches \in Seq(Seq(Samples))

Returned == UNION {ToSet(batches[i]) : i \in DOMAIN batches}

\* A sample trains at most once: whatever the order of the executor's puts, it
\* is in one place of the way from the proxy to the trainer, and only once.
SampleOnItsWayOnce ==
  LET places == <<putting, ToSet(outputQueue), ToSet(completed), ToSet(data), Returned>>
  IN  /\ \A i, j \in DOMAIN places : i # j => places[i] \cap places[j] = {}
      /\ \A q \in {outputQueue, completed, data} : IsInjective(q)
      /\ \A i, j \in DOMAIN batches :
           i # j => ToSet(batches[i]) \cap ToSet(batches[j]) = {}

\* The trainer gets batches of exactly rollout_batch_size samples, by index.
BatchesComplete ==
  \A i \in DOMAIN batches :
    /\ Len(batches[i]) = BatchSize
    /\ \A j \in 1..BatchSize - 1 : batches[i][j].index < batches[i][j + 1].index

\* No request passes the proxy's gate between two rollouts, when weights may be
\* updated.
PausedBetweenRollouts ==
  [][accepted' # accepted => phase \notin {"idle", "resuming", "metrics"}]_allVars

\* A rollout ends once the proxy has produced enough samples for it: the full
\* queue, the executor's threads and the polling worker do not block each other.
RolloutEnds ==
  (phase = "polling" /\ Len(data) + Len(completed) + Len(outputQueue)
                          + Cardinality(putting) >= BatchSize)
    ~> phase = "idle"

\* A sample never waits forever for the worker, provided rollouts go on.
SampleIsTaken ==
  \A u \in Requests :
    (\E x \in putting : x.uid = u)
      ~> (\A x \in putting \cup ToSet(outputQueue) : x.uid # u)

\* Every sample reaches the trainer or is still on its way to it (README.md,
\* "Submits ready samples to the trainer as they become available").
NoSampleDropped ==
  samples \subseteq putting \cup ToSet(outputQueue) \cup ToSet(completed)
                      \cup ToSet(data) \cup Returned
=============================================================================
