---------------------------- MODULE CommandQueue ----------------------------
(***************************************************************************)
(* The command lanes of src/process/command-queue.ts of the gateway, with  *)
(* the use agents/pi-embedded-runner/run.ts makes of them: an agent turn   *)
(* waits in the lane of its session, which runs one task at a time, and    *)
(* that task enqueues the turn itself in the global lane "main", which     *)
(* runs up to maxConcurrent of them.                                       *)
(*                                                                         *)
(* JavaScript runs a handler to its next await without interruption, so    *)
(* the whole pump loop of a lane is one step, and so is the nested enqueue *)
(* that a started session task makes before its first await.  The flag     *)
(* `draining` of a lane is set and cleared within such a step, so it does  *)
(* not appear.  Lane names, waiting times and logging are left out.        *)
(***************************************************************************)
EXTENDS Integers, Sequences, FiniteSets, SequencesExt

CONSTANTS
  Sessions,       \* sessions, each with a lane of its own
  Main,           \* the global lane
  MaxTurns,       \* bound: turns a session asks for
  MaxAsked,       \* bound: turns all sessions ask for
  MaxConcurrent   \* bound: values agents.defaults.maxConcurrent takes

ASSUME MainAssumption == Main \notin Sessions
ASSUME SessionsAssumption == IsFiniteSet(Sessions)
ASSUME LimitsAssumption == MaxTurns \in Nat /\ MaxAsked \in Nat /\ MaxConcurrent \in Nat \ {0}

Lanes == Sessions \cup {Main}
Commands == Sessions \X (1..MaxTurns)
SessionOf(c) == c[1]

\* A promise that is pending is queued or running; the others are settled.
Statuses == {"new", "queued", "running", "done", "cleared", "refused"}

VARIABLES
  queue,            \* queue[l]: the entries that wait in lane l
  active,           \* active[l]: activeTaskIds
  maxConcurrent,    \* maxConcurrent[l]
  generation,       \* generation[l]
  gatewayDraining,  \* new enqueues are refused
  outer,            \* the promise of a turn's entry in its session lane
  inner,            \* the promise of its entry in the main lane
  outerGen,         \* taskGeneration captured when the session entry started
  innerGen          \* taskGeneration captured when the main entry started

laneVars == <<queue, active, maxConcurrent, generation, gatewayDraining>>
promiseVars == <<outer, inner, outerGen, innerGen>>
queueVars == <<laneVars, promiseVars>>

QueueInit ==
  /\ queue = [l \in Lanes |-> <<>>]
  /\ active = [l \in Lanes |-> {}]
  /\ maxConcurrent = [l \in Lanes |-> 1]
  /\ generation = [l \in Lanes |-> 0]
  /\ gatewayDraining = FALSE
  /\ outer = [c \in Commands |-> "new"]
  /\ inner = [c \in Commands |-> "new"]
  /\ outerGen = [c \in Commands |-> 0]
  /\ innerGen = [c \in Commands |-> 0]

-----------------------------------------------------------------------------
(* pump *)

\* How many entries of q the pump loop shifts.
StartCount(q, running, limit) ==
  LET room == limit - Cardinality(running)
  IN  IF room <= 0 THEN 0 ELSE IF Len(q) < room THEN Len(q) ELSE room

Started(q, running, limit) == {q[i] : i \in 1..StartCount(q, running, limit)}
Waiting(q, running, limit) == SubSeq(q, StartCount(q, running, limit) + 1, Len(q))

\* drainLane for every lane of D, from queues q, running tasks a, generations
\* g and promises out and inn: a session task that starts enqueues its turn in
\* the main lane, which refuses it while the gateway drains and else is
\* drained too.  Several session lanes are drained in the order of the Map.
DrainLanes(D, q, a, g, limits, draining, out, inn) ==
  LET begun == UNION {Started(q[s], a[s], limits[s]) : s \in D \ {Main}}
      mainDrained == Main \in D \/ (begun # {} /\ ~draining)
  IN  \E order \in SetToSeqs(begun) :
        LET mainQueue == IF draining THEN q[Main] ELSE q[Main] \o order
            mainBegun == IF mainDrained THEN Started(mainQueue, a[Main], limits[Main]) ELSE {}
        IN
        /\ queue' = [l \in Lanes |->
             IF l = Main THEN IF mainDrained THEN Waiting(mainQueue, a[Main], limits[Main])
                                             ELSE mainQueue
             ELSE IF l \in D THEN Waiting(q[l], a[l], limits[l]) ELSE q[l]]
        /\ active' = [l \in Lanes |->
             IF l = Main THEN a[Main] \cup mainBegun
             ELSE IF l \in D THEN a[l] \cup Started(q[l], a[l], limits[l]) ELSE a[l]]
        /\ outer' = [c \in Commands |-> IF c \in begun THEN "running" ELSE out[c]]
        /\ inner' = [c \in Commands |->
             IF c \in mainBegun THEN "running"
             ELSE IF c \notin begun THEN inn[c]
             ELSE IF draining THEN "refused" ELSE "queued"]
        /\ outerGen' = [c \in Commands |->
             IF c \in begun THEN g[SessionOf(c)] ELSE outerGen[c]]
        /\ innerGen' = [c \in Commands |-> IF c \in mainBegun THEN g[Main] ELSE innerGen[c]]

-----------------------------------------------------------------------------
(* Operations *)

\* enqueueCommandInLane for the session lane.  Turns are named in the order
\* in which their sessions ask for them.
Enqueue(c) ==
  LET s == SessionOf(c) IN
  /\ outer[c] = "new"
  /\ \A i \in 1..c[2] - 1 : outer[<<s, i>>] # "new"
  /\ Cardinality({d \in Commands : outer[d] # "new"}) < MaxAsked
  /\ IF gatewayDraining
     THEN /\ outer' = [outer EXCEPT ![c] = "refused"]
          /\ UNCHANGED <<queue, active, inner, outerGen, innerGen>>
     ELSE DrainLanes({s}, [queue EXCEPT ![s] = Append(@, c)], active, generation,
                     maxConcurrent, FALSE, [outer EXCEPT ![c] = "queued"], inner)
  /\ UNCHANGED <<maxConcurrent, generation, gatewayDraining>>

\* Mutant of FinishTurn: the completion does not pump the lane.
FinishTurnNoPump(c) ==
  /\ inner[c] = "running"
  /\ inner' = [inner EXCEPT ![c] = "done"]
  /\ active' = [active EXCEPT ![Main] = @ \ {c}]
  /\ UNCHANGED <<queue, outer, outerGen, innerGen, maxConcurrent, generation,
                 gatewayDraining>>

\* The turn of c ends, with a result or an error: completeTask, pump, settle.
\* A completion of an older generation leaves the lane alone.
FinishTurn(c) ==
  /\ inner[c] = "running"
  /\ IF innerGen[c] = generation[Main]
     THEN DrainLanes({Main}, queue, [active EXCEPT ![Main] = @ \ {c}], generation,
                     maxConcurrent, gatewayDraining, outer, [inner EXCEPT ![c] = "done"])
     ELSE /\ inner' = [inner EXCEPT ![c] = "done"]
          /\ UNCHANGED <<queue, active, outer, outerGen, innerGen>>
  /\ UNCHANGED <<maxConcurrent, generation, gatewayDraining>>

\* The session task resumes with what became of the turn and ends as well.
FinishSession(c) ==
  LET s == SessionOf(c) IN
  /\ outer[c] = "running"
  /\ inner[c] \in {"done", "refused"}
  /\ IF outerGen[c] = generation[s]
     THEN DrainLanes({s}, queue, [active EXCEPT ![s] = @ \ {c}], generation,
                     maxConcurrent, gatewayDraining, [outer EXCEPT ![c] = "done"], inner)
     ELSE /\ outer' = [outer EXCEPT ![c] = "done"]
          /\ UNCHANGED <<queue, active, inner, outerGen, innerGen>>
  /\ UNCHANGED <<maxConcurrent, generation, gatewayDraining>>

\* Mutant of ClearSession: the entries are rejected but stay in the queue.
ClearSessionKeepsEntries(s) ==
  /\ queue[s] # <<>>
  /\ outer' = [c \in Commands |-> IF c \in ToSet(queue[s]) THEN "cleared" ELSE outer[c]]
  /\ UNCHANGED <<queue, active, maxConcurrent, generation, gatewayDraining, inner,
                 outerGen, innerGen>>

\* clearCommandLane; its callers clear session lanes.
ClearSession(s) ==
  /\ queue[s] # <<>>
  /\ queue' = [queue EXCEPT ![s] = <<>>]
  /\ outer' = [c \in Commands |-> IF c \in ToSet(queue[s]) THEN "cleared" ELSE outer[c]]
  /\ UNCHANGED <<active, maxConcurrent, generation, gatewayDraining, inner,
                 outerGen, innerGen>>

\* setCommandLaneConcurrency, on gateway start and on a config reload; it is
\* never called for a session lane.
SetConcurrency(limit) ==
  /\ limit # maxConcurrent[Main]
  /\ maxConcurrent' = [maxConcurrent EXCEPT ![Main] = limit]
  /\ DrainLanes({Main}, queue, active, generation, maxConcurrent',
                gatewayDraining, outer, inner)
  /\ UNCHANGED <<generation, gatewayDraining>>

\* Mutants of ResetAllLanes: the lanes are not drained; the generation stays.
ResetAllLanesNoDrain ==
  /\ generation' = [l \in Lanes |-> generation[l] + 1]
  /\ gatewayDraining' = FALSE
  /\ active' = [l \in Lanes |-> {}]
  /\ UNCHANGED <<queue, maxConcurrent, promiseVars>>
ResetAllLanesSameGeneration ==
  /\ gatewayDraining' = FALSE
  /\ DrainLanes({l \in Lanes : queue[l] # <<>>}, queue, [l \in Lanes |-> {}],
                generation, maxConcurrent, FALSE, outer, inner)
  /\ UNCHANGED <<generation, maxConcurrent>>

\* resetAllLanes: every lane forgets its running tasks, then the lanes with
\* preserved entries are drained.
ResetAllLanes ==
  /\ generation' = [l \in Lanes |-> generation[l] + 1]
  /\ gatewayDraining' = FALSE
  /\ DrainLanes({l \in Lanes : queue[l] # <<>>}, queue, [l \in Lanes |-> {}],
                generation', maxConcurrent, FALSE, outer, inner)
  /\ UNCHANGED maxConcurrent

\* What anybody may do to the lanes, the run loop aside.
LaneNext ==
  \/ \E c \in Commands : Enqueue(c) \/ FinishTurn(c) \/ FinishSession(c)
  \/ \E s \in Sessions : ClearSession(s)
  \/ \E limit \in 1..MaxConcurrent : SetConcurrency(limit)

\* The ids waitForActiveTasks and getActiveTaskCount look at.
ActiveTasks == {e \in Lanes \X Commands : e[2] \in active[e[1]]}
=============================================================================
