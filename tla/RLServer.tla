------------------------------ MODULE RLServer ------------------------------
(***************************************************************************)
(* The proxy of openjordy-rl/openjordy_api_server.py: it forwards the chat *)
(* requests of agent sessions to SGLang, lets a process reward model (PRM) *)
(* judge each main turn once the next request of the session shows what    *)
(* the turn led to, and puts one training sample per main turn into the    *)
(* output queue of the rollout worker.                                     *)
(*                                                                         *)
(* The server is one asyncio loop.  A handler runs without interruption    *)
(* from one await to the next, so each stretch between two awaits is one   *)
(* action.  What the loop calls later (asyncio.create_task and the done    *)
(* callbacks of a task) waits in the FIFO `ready`; what I/O resumes (a new *)
(* request, an SGLang answer, a PRM answer) may come at any moment.  The   *)
(* puts of samples run on executor threads, in any order.                  *)
(*                                                                         *)
(* A turn is named by the id of the request that produced it (its uid):    *)
(* turn numbers are what the code uses as keys, and they come back when a  *)
(* session id is used again.                                               *)
(***************************************************************************)
EXTENDS Integers, Sequences, FiniteSets, Functions

CONSTANTS
  Sessions,       \* values of X-Session-Id (the default "unknown" is one too)
  MaxRequests,    \* bound: requests accepted in a behaviour
  PrmM,           \* votes per judgement (PRM_M)
  QueueCap,       \* maxsize of the output queue
  PrmEnabled,     \* --prm-enable
  RecordEnabled,  \* OPENJORDY_RECORD_ENABLED=1 and a record file
  Disciplined     \* clients send one request at a time per session and
                  \* nothing after an answered session_done request

ASSUME RequestsAssumption == MaxRequests \in Nat /\ PrmM \in Nat \ {0}
ASSUME QueueAssumption == QueueCap \in Nat \ {0}
ASSUME FlagsAssumption ==
  PrmEnabled \in BOOLEAN /\ RecordEnabled \in BOOLEAN /\ Disciplined \in BOOLEAN

Requests == 1..MaxRequests
Turns == 1..MaxRequests          \* a session has no more turns than requests
Scores == {-1, 0, 1}
NoScore == 2                     \* the PRM task is not done, or never started
NoVote == 2                      \* a failed query, or no \boxed{-1|0|1} in it
None == 0                        \* no request, no turn, no PRM task

NoRecord == [turn |-> None, uid |-> None]
NoTurn == [uid |-> None, hasNext |-> FALSE]
Records == [turn : Turns, uid : Requests] \cup {NoRecord}
TurnData == [uid : Requests, hasNext : BOOLEAN] \cup {NoTurn}
InFlight == [id : Requests, session : Sessions, main : BOOLEAN, done : BOOLEAN]
Callbacks == [kind : {"submit", "prmDone"}, session : Sessions,
              uid : Requests \cup {None}, hasNext : BOOLEAN,
              judge : Requests \cup {None}, score : Scores]
Samples == [index : Nat, session : Sessions, uid : Requests, hasNext : BOOLEAN,
            judge : Requests \cup {None}, score : Scores, trained : BOOLEAN]

VARIABLES
  submissionEnabled,  \* threading.Event shared with the rollout worker
  accepted,           \* requests accepted so far; the last one's id
  inflight,           \* handlers awaiting SGLang
  turnCounts,         \* _turn_counts
  pendingRecord,      \* _pending_records
  pendingTurn,        \* _pending_turn_data
  prmTasks,           \* _prm_tasks: the uid the task of a turn number judges
  prmRunning,         \* PRM tasks that are not done: [session, uid]
  verdict,            \* result()["score"] of the PRM task for a uid
  sessionEffective,   \* _session_effective
  ready,              \* callbacks the loop has still to run, in order
  evalScores,         \* _eval_scores
  nextIndex,          \* _index_counter and _group_counter
  putting,            \* samples in asyncio.to_thread(output_queue.put)
  outputQueue,        \* the queue shared with the rollout worker
  samples,            \* history: every sample ever built
  turned,             \* history: uids that were given a turn number
  closed              \* history: sessions whose session_done was answered 200

requestVars == <<accepted, inflight, turned, closed>>
turnVars == <<turnCounts, pendingRecord, pendingTurn, prmTasks, prmRunning, verdict>>
sampleVars == <<sessionEffective, evalScores, nextIndex, putting, samples>>
workerVars == <<submissionEnabled, outputQueue>>
vars == <<requestVars, turnVars, sampleVars, workerVars, ready>>

Init ==
  /\ submissionEnabled = FALSE
  /\ accepted = 0
  /\ inflight = {}
  /\ turnCounts = [s \in Sessions |-> 0]
  /\ pendingRecord = [s \in Sessions |-> NoRecord]
  /\ pendingTurn = [s \in Sessions |-> [n \in Turns |-> NoTurn]]
  /\ prmTasks = [s \in Sessions |-> [n \in Turns |-> None]]
  /\ prmRunning = {}
  /\ verdict = [u \in Requests |-> NoScore]
  /\ sessionEffective = [s \in Sessions |-> 0]
  /\ ready = <<>>
  /\ evalScores = <<>>
  /\ nextIndex = 0
  /\ putting = {}
  /\ outputQueue = <<>>
  /\ samples = {}
  /\ turned = {}
  /\ closed = {}

-----------------------------------------------------------------------------
(* Helpers of the handlers *)

\* The sequences that list the set S of turn numbers in increasing order;
\* there is exactly one.  (sorted(list(pending.keys())))
InTurnOrder(S) ==
  {q \in [1..Cardinality(S) -> S] :
     /\ Range(q) = S
     /\ \A i, j \in DOMAIN q : i < j => q[i] < q[j]}

\* The strict plurality of the valid votes, 0 for a tie or no valid vote.
MajorityVote(votes) ==
  LET count(v) == Cardinality({i \in DOMAIN votes : votes[i] = v})
      wins(v) == count(v) > 0 /\ \A w \in Scores \ {v} : count(v) > count(w)
  IN  IF \E v \in Scores : wins(v) THEN CHOOSE v \in Scores : wins(v) ELSE 0

\* A PRM task starts when a buffered record is flushed with a next state.
Fires(s) == PrmEnabled /\ pendingRecord[s] # NoRecord

\* Mutants of FlushTasks: the task is kept under the next turn's number, or
\* not kept at all.
FlushTasksNextTurn(s) ==
  IF Fires(s) THEN [prmTasks EXCEPT ![s][pendingRecord[s].turn + 1] = pendingRecord[s].uid]
              ELSE prmTasks
FlushTasksForgotten(s) == prmTasks

\* _prm_tasks, the running tasks and _pending_turn_data after the flush.
FlushTasks(s) ==
  IF Fires(s) THEN [prmTasks EXCEPT ![s][pendingRecord[s].turn] = pendingRecord[s].uid]
              ELSE prmTasks
FlushRunning(s) ==
  IF Fires(s) THEN prmRunning \cup {[session |-> s, uid |-> pendingRecord[s].uid]}
              ELSE prmRunning
FlushTurns(s) ==
  IF Fires(s) /\ pendingTurn[s][pendingRecord[s].turn] # NoTurn
  THEN [pendingTurn EXCEPT ![s][pendingRecord[s].turn].hasNext = TRUE]
  ELSE pendingTurn

\* Mutants of Submittable: a task counts as done once it exists; the forced
\* submission at session end is left out.
SubmittableUndone(pend, tasks, s, force) ==
  {n \in Turns : pend[s][n] # NoTurn /\ (~PrmEnabled \/ tasks[s][n] # None \/ force)}
SubmittableUnforced(pend, tasks, s, force) ==
  {n \in Turns : /\ pend[s][n] # NoTurn
                 /\ ~PrmEnabled \/ (tasks[s][n] # None /\ verdict[tasks[s][n]] # NoScore)}

\* The turns of s that _maybe_submit_ready_samples takes out of `pend`.
Submittable(pend, tasks, s, force) ==
  {n \in Turns :
     /\ pend[s][n] # NoTurn
     /\ \/ ~PrmEnabled
        \/ tasks[s][n] # None /\ verdict[tasks[s][n]] # NoScore
        \/ tasks[s][n] = None /\ force}

\* Mutants of WithoutTurns: a submitted turn stays pending; a submission
\* clears the session.
WithoutTurnsKept(pend, s, S) == pend
WithoutTurnsCleared(pend, s, S) ==
  IF S = {} THEN pend ELSE [pend EXCEPT ![s] = [n \in Turns |-> NoTurn]]

WithoutTurns(pend, s, S) ==
  [pend EXCEPT ![s] = [n \in Turns |-> IF n \in S THEN NoTurn ELSE pend[s][n]]]
WithoutTasks(tasks, s, S) ==
  [tasks EXCEPT ![s] = [n \in Turns |-> IF n \in S THEN None ELSE tasks[s][n]]]

\* The _submit_turn_sample task of a turn, with the prm_result it is given.
SubmitCall(s, turn, task) ==
  [kind |-> "submit", session |-> s, uid |-> turn.uid, hasNext |-> turn.hasNext,
   judge |-> task, score |-> IF task = None THEN 0 ELSE verdict[task]]
SubmitCalls(pend, tasks, s, order) ==
  [i \in DOMAIN order |-> SubmitCall(s, pend[s][order[i]], tasks[s][order[i]])]

\* The second done callback of a PRM task.
PrmDoneCall(s) ==
  [kind |-> "prmDone", session |-> s, uid |-> None, hasNext |-> FALSE,
   judge |-> None, score |-> 0]

-----------------------------------------------------------------------------
(* Requests *)

\* chat_completions up to the await of SGLang; a request that comes while
\* submission is paused is answered 503 and leaves no trace.
Accept(s, main, done) ==
  /\ submissionEnabled
  /\ accepted < MaxRequests
  /\ Disciplined => s \notin closed /\ \A r \in inflight : r.session # s
  /\ accepted' = accepted + 1
  /\ inflight' = inflight \cup
       {[id |-> accepted + 1, session |-> s, main |-> main, done |-> done]}
  /\ UNCHANGED <<turned, closed, turnVars, sampleVars, workerVars, ready>>

Answered(r) ==
  /\ r \in inflight
  /\ inflight' = inflight \ {r}
  /\ closed' = IF r.done THEN closed \cup {r.session} ELSE closed
  /\ UNCHANGED accepted

Failed(r) ==
  /\ r \in inflight
  /\ inflight' = inflight \ {r}
  /\ UNCHANGED <<accepted, closed>>

\* SGLang answers with an error status or a body that is not JSON.
SglangFails(r) ==
  /\ Failed(r)
  /\ UNCHANGED <<turned, turnVars, sampleVars, workerVars, ready>>

\* A main turn with an empty response, or one the chat template or the
\* tokenizer raises on: the previous turn's record is flushed, then the handler
\* leaves, before it takes a turn number and before the session_done block.
RespondEmpty(r) ==
  LET s == r.session IN
  /\ r.main
  /\ Answered(r) \/ Failed(r)
  /\ prmTasks' = FlushTasks(s)
  /\ prmRunning' = FlushRunning(s)
  /\ pendingTurn' = FlushTurns(s)
  /\ pendingRecord' = [pendingRecord EXCEPT ![s] = NoRecord]
  /\ UNCHANGED <<turned, turnCounts, verdict, sampleVars, workerVars, ready>>

\* A main turn: flush the previous record, take a turn number, buffer the
\* record, store the turn, submit what is ready; then the session_done block.
RespondMain(r) ==
  LET s == r.session
      turn == turnCounts[s] + 1
      tasks == FlushTasks(s)
      pend == [FlushTurns(s) EXCEPT ![s][turn] = [uid |-> r.id, hasNext |-> FALSE]]
      now == Submittable(pend, tasks, s, FALSE)
      pend2 == WithoutTurns(pend, s, now)
      tasks2 == WithoutTasks(tasks, s, now)
      rest == IF r.done THEN Submittable(pend2, tasks2, s, TRUE) ELSE {}
  IN
  /\ r.main
  /\ turn \in Turns
  /\ Answered(r)
  /\ turned' = turned \cup {r.id}
  /\ turnCounts' = [turnCounts EXCEPT ![s] = IF r.done THEN 0 ELSE turn]
  /\ pendingRecord' =
       [pendingRecord EXCEPT ![s] = IF RecordEnabled /\ ~r.done
                                    THEN [turn |-> turn, uid |-> r.id] ELSE NoRecord]
  /\ pendingTurn' = WithoutTurns(pend2, s, rest)
  /\ prmTasks' = WithoutTasks(tasks2, s, rest)
  /\ prmRunning' = FlushRunning(s)
  /\ \E order \in InTurnOrder(now), orderRest \in InTurnOrder(rest) :
       ready' = ready \o SubmitCalls(pend, tasks, s, order)
                      \o SubmitCalls(pend2, tasks2, s, orderRest)
  /\ sessionEffective' = [sessionEffective EXCEPT ![s] = IF r.done THEN 0 ELSE @]
  /\ UNCHANGED <<verdict, evalScores, nextIndex, putting, samples, workerVars>>

\* A side request produces no data; with session_done it ends the session.
RespondSide(r) ==
  LET s == r.session
      rest == IF r.done THEN Submittable(pendingTurn, prmTasks, s, TRUE) ELSE {}
  IN
  /\ ~r.main
  /\ Answered(r)
  /\ turnCounts' = [turnCounts EXCEPT ![s] = IF r.done THEN 0 ELSE @]
  /\ pendingRecord' = [pendingRecord EXCEPT ![s] = IF r.done THEN NoRecord ELSE @]
  /\ pendingTurn' = WithoutTurns(pendingTurn, s, rest)
  /\ prmTasks' = WithoutTasks(prmTasks, s, rest)
  /\ \E order \in InTurnOrder(rest) :
       ready' = ready \o SubmitCalls(pendingTurn, prmTasks, s, order)
  /\ sessionEffective' = [sessionEffective EXCEPT ![s] = IF r.done THEN 0 ELSE @]
  /\ UNCHANGED <<turned, prmRunning, verdict, evalScores, nextIndex, putting,
                 samples, workerVars>>

-----------------------------------------------------------------------------
(* The judge and the submission of samples *)

\* Mutant of PrmFinish: the callback of the task is not registered.
PrmFinishSilent(t) ==
  /\ t \in prmRunning
  /\ prmRunning' = prmRunning \ {t}
  /\ \E votes \in [1..PrmM -> Scores \cup {NoVote}] :
       verdict' = [verdict EXCEPT ![t.uid] = MajorityVote(votes)]
  /\ UNCHANGED <<requestVars, turnCounts, pendingRecord, pendingTurn, prmTasks,
                 sampleVars, workerVars, ready>>

\* The last vote of a PRM task arrives; the task is done with their majority
\* (a task that raises scores 0 as well) and its callback is scheduled.
PrmFinish(t) ==
  /\ t \in prmRunning
  /\ prmRunning' = prmRunning \ {t}
  /\ \E votes \in [1..PrmM -> Scores \cup {NoVote}] :
       verdict' = [verdict EXCEPT ![t.uid] = MajorityVote(votes)]
  /\ ready' = Append(ready, PrmDoneCall(t.session))
  /\ UNCHANGED <<requestVars, turnCounts, pendingRecord, pendingTurn, prmTasks,
                 sampleVars, workerVars>>

\* The done callback: _maybe_submit_ready_samples(session_id).
RunPrmDone ==
  /\ ready # <<>>
  /\ Head(ready).kind = "prmDone"
  /\ LET s == Head(ready).session
         now == Submittable(pendingTurn, prmTasks, s, FALSE)
     IN
     /\ pendingTurn' = WithoutTurns(pendingTurn, s, now)
     /\ prmTasks' = WithoutTasks(prmTasks, s, now)
     /\ \E order \in InTurnOrder(now) :
          ready' = Tail(ready) \o SubmitCalls(pendingTurn, prmTasks, s, order)
  /\ UNCHANGED <<requestVars, turnCounts, pendingRecord, prmRunning, verdict,
                 sampleVars, workerVars>>

\* Mutants of Trains: without the promotion; without the test for a next state.
TrainsOnScore(call) == call.hasNext /\ call.score # 0
TrainsUnjudged(call) == call.score # 0 \/ sessionEffective[call.session] = 0

\* Whether a turn trains: a nonzero score does, and so does a judged turn of
\* a session that has contributed no sample yet (the at-least-one guarantee).
Trains(call) ==
  call.hasNext /\ (call.score # 0 \/ sessionEffective[call.session] = 0)

\* _submit_turn_sample up to its await of the executor.
RunSubmit ==
  /\ ready # <<>>
  /\ Head(ready).kind = "submit"
  /\ LET call == Head(ready)
         sample == [index |-> nextIndex, session |-> call.session, uid |-> call.uid,
                    hasNext |-> call.hasNext, judge |-> call.judge,
                    score |-> call.score, trained |-> Trains(call)]
     IN
     /\ evalScores' = Append(evalScores, call.score)
     /\ samples' = samples \cup {sample}
     /\ putting' = putting \cup {sample}
     /\ sessionEffective' = [sessionEffective EXCEPT ![call.session] =
                               IF Trains(call) THEN @ + 1 ELSE @]
  /\ nextIndex' = nextIndex + 1
  /\ ready' = Tail(ready)
  /\ UNCHANGED <<requestVars, turnVars, workerVars>>

\* Mutant of Put: the queue counts as full one place early.
PutEarlyFull(x) ==
  /\ x \in putting
  /\ Len(outputQueue) < QueueCap - 1
  /\ outputQueue' = Append(outputQueue, x)
  /\ putting' = putting \ {x}
  /\ UNCHANGED <<requestVars, turnVars, sessionEffective, evalScores, nextIndex,
                 samples, submissionEnabled, ready>>

\* An executor thread gets past output_queue.put, which blocks while full.
Put(x) ==
  /\ x \in putting
  /\ Len(outputQueue) < QueueCap
  /\ outputQueue' = Append(outputQueue, x)
  /\ putting' = putting \ {x}
  /\ UNCHANGED <<requestVars, turnVars, sessionEffective, evalScores, nextIndex,
                 samples, submissionEnabled, ready>>

ServerNext ==
  \/ \E s \in Sessions, main, done \in BOOLEAN : Accept(s, main, done)
  \/ \E r \in inflight : \/ SglangFails(r) \/ RespondEmpty(r)
                         \/ RespondMain(r) \/ RespondSide(r)
  \/ \E t \in prmRunning : PrmFinish(t)
  \/ RunPrmDone
  \/ RunSubmit
  \/ \E x \in putting : Put(x)

-----------------------------------------------------------------------------
(* What the rollout worker may do to the state it shares with the server *)

Resume ==
  /\ submissionEnabled' = TRUE
  /\ UNCHANGED <<requestVars, turnVars, sampleVars, outputQueue, ready>>

Pause ==
  /\ submissionEnabled' = FALSE
  /\ UNCHANGED <<requestVars, turnVars, sampleVars, outputQueue, ready>>

\* reset_eval_scores and drain_eval_scores
ClearEvalScores ==
  /\ evalScores' = <<>>
  /\ UNCHANGED <<requestVars, turnVars, sessionEffective, nextIndex, putting,
                 samples, workerVars, ready>>

\* output_queue.get_nowait()
Take ==
  /\ outputQueue # <<>>
  /\ outputQueue' = Tail(outputQueue)
  /\ UNCHANGED <<requestVars, turnVars, sampleVars, submissionEnabled, ready>>

WorkerNext == Resume \/ Pause \/ ClearEvalScores \/ Take

Next == ServerNext \/ WorkerNext

Spec == Init /\ [][Next]_vars

\* asyncio runs what is ready, SGLang and the PRM answer in the end (the code
\* waits for both with timeout=None), and a put ends when there is room.
Fairness ==
  /\ WF_vars(\E r \in inflight : \/ SglangFails(r) \/ RespondEmpty(r)
                                 \/ RespondMain(r) \/ RespondSide(r))
  /\ WF_vars(RunPrmDone)
  /\ WF_vars(RunSubmit)
  /\ \A s \in Sessions, u \in Requests : WF_vars(PrmFinish([session |-> s, uid |-> u]))
  /\ WF_vars(\E x \in putting : Put(x))

-----------------------------------------------------------------------------
(* Properties *)

\* Every variable keeps its type; this is the one type invariant of the module.
TypeOK ==
  /\ submissionEnabled \in BOOLEAN
  /\ accepted \in 0..MaxRequests
  /\ inflight \subseteq InFlight
  /\ turnCounts \in [Sessions -> 0..MaxRequests]
  /\ pendingRecord \in [Sessions -> Records]
  /\ pendingTurn \in [Sessions -> [Turns -> TurnData]]
  /\ prmTasks \in [Sessions -> [Turns -> Requests \cup {None}]]
  /\ prmRunning \subseteq [session : Sessions, uid : Requests]
  /\ verdict \in [Requests -> Scores \cup {NoScore}]
  /\ sessionEffective \in [Sessions -> Nat]
  /\ ready \in Seq(Callbacks)
  /\ evalScores \in Seq(Scores)
  /\ nextIndex \in Nat
  /\ putting \subseteq Samples
  /\ outputQueue \in Seq(Samples)
  /\ samples \subseteq Samples
  /\ turned \subseteq Requests
  /\ closed \subseteq Sessions

PendingAt(s, n, u) == pendingTurn[s][n] # NoTurn /\ pendingTurn[s][n].uid = u
PendingUids == {pendingTurn[s][n].uid : s \in Sessions, n \in Turns} \ {None}
ReadyUids == {ready[i].uid : i \in DOMAIN ready} \ {None}
SampledUids == {x.uid : x \in samples}

\* A turn becomes at most one training sample: it is never pending, scheduled
\* and sampled in two places at once, however PRM callbacks, the calls of the
\* handlers and the forced submission at session end overlap.
AtMostOnce ==
  /\ PendingUids \cap (ReadyUids \cup SampledUids) = {}
  /\ ReadyUids \cap SampledUids = {}
  /\ \A i, j \in DOMAIN ready :
       ready[i].uid = ready[j].uid /\ ready[i].uid # None => i = j
  /\ \A x, y \in samples : x.uid = y.uid => x = y
  /\ \A s1, s2 \in Sessions, n1, n2 \in Turns :
       pendingTurn[s1][n1] # NoTurn /\ pendingTurn[s1][n1].uid = pendingTurn[s2][n2].uid
         => s1 = s2 /\ n1 = n2

\* What trains (loss_mask = 1) is rewarded with the verdict on that very turn,
\* never with the verdict of a task that judged another turn, even when a
\* session id is used again while tasks of its former life still run.
TrainedOnOwnVerdict ==
  \A x \in samples : x.trained => x.judge = x.uid /\ x.score = verdict[x.uid]

\* A session one of whose judged turns was submitted has trained on something:
\* the counter and the promotion give every judged session its sample.
JudgedSessionContributes ==
  \A x \in samples : x.hasNext =>
     \E y \in samples : y.trained /\ y.session = x.session

\* With the PRM and recording on, somebody will come for every pending turn:
\* it is the buffered record of its session, which the next request has judged
\* or session_done submits, or the task of its turn number still runs, or a
\* PRM callback for its session is scheduled.  No turn is parked for good.
PendingTurnIsAwaited ==
  PrmEnabled /\ RecordEnabled =>
    \A s \in Sessions, n \in Turns : pendingTurn[s][n] # NoTurn =>
      \/ pendingRecord[s] = [turn |-> n, uid |-> pendingTurn[s][n].uid]
      \/ prmTasks[s][n] # None /\ verdict[prmTasks[s][n]] = NoScore
      \/ PrmDoneCall(s) \in Range(ready)

\* No main turn disappears: it is pending, scheduled or a sample, so that every
\* main turn is submitted as a training sample (the class docstring, lines
\* 185-188).  It holds while session ids are used once.
NoTurnLost == turned \subseteq PendingUids \cup ReadyUids \cup SampledUids

\* The score of a sample is the verdict on its own turn whenever some verdict
\* was used, trained or not (openjordy-rl/README.md:12), if session ids are
\* used once.
RewardIsOwnVerdict == \A x \in samples : x.judge \in {None, x.uid}

\* While two turns of a session are pending, the earlier one has been handed to
\* the judge with its next state (openjordy-rl/README.md:10-11).
JudgedOnNextState ==
  \A s \in Sessions, m, n \in Turns :
    m < n /\ pendingTurn[s][m] # NoTurn /\ pendingTurn[s][n] # NoTurn
      => prmTasks[s][m] # None

\* A finished session leaves no turn behind in _pending_turn_data (the comment
\* at openjordy_api_server.py:576-577: the last turn is submitted at the end).
ClosedSessionSettles ==
  \A s \in Sessions :
    (s \in closed) ~> (\A n \in Turns : pendingTurn[s][n] = NoTurn)

-----------------------------------------------------------------------------
(* RLServer implements TurnLife *)

StageOf(u) ==
  IF \E x \in samples : x.uid = u
  THEN IF \E x \in samples : x.uid = u /\ x.trained THEN "trained" ELSE "masked"
  ELSE IF \E i \in DOMAIN ready : ready[i].uid = u
  THEN IF \E i \in DOMAIN ready : ready[i].uid = u /\ ready[i].hasNext
       THEN "dueJudged" ELSE "dueUnjudged"
  ELSE IF \E s \in Sessions, n \in Turns : PendingAt(s, n, u)
  THEN IF \E s \in Sessions, n \in Turns : PendingAt(s, n, u) /\ pendingTurn[s][n].hasNext
       THEN "judging" ELSE "waiting"
  ELSE IF u \in turned THEN "lost" ELSE "none"

Life == INSTANCE TurnLife WITH Turn <- Requests, CanLose <- ~Disciplined,
                               stage <- [u \in Requests |-> StageOf(u)]

\* Whatever sessions, tasks and callbacks do, a turn only goes through the
\* stages TurnLife allows: nothing unjudged trains, nothing is sampled twice or
\* goes back, and with session ids used once nothing is lost.
LifeSpec == Life!Spec

\* A turn whose judgement was started or that is scheduled becomes a sample:
\* no callback finds the task still running, or already gone, and leaves the
\* turn behind (session ids used once).
LifePromise == Life!Promise
=============================================================================
