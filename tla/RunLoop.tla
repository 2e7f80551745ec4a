------------------------------- MODULE RunLoop -------------------------------
(***************************************************************************)
(* The gateway process of src/cli/gateway-cli/run-loop.ts, composed with   *)
(* its command lanes: the loop that starts a server and waits for the next *)
(* restart, and the shutdown handler that a signal starts.  The handler    *)
(* drains the lanes, closes the server and either leaves the process or,   *)
(* in the in-process mode, lets the loop go round.  Both run on one        *)
(* event loop; each stretch between two awaits is one action.              *)
(***************************************************************************)
EXTENDS CommandQueue

CONSTANT MaxSignals     \* bound: signals the process gets

ASSUME SignalsAssumption == MaxSignals \in Nat

VARIABLES
  loop,          \* in params.start(), or waiting for restartResolver
  shutdown,      \* where the handler of a signal is; "none" <=> ~shuttingDown
  isRestart,     \* the handler serves SIGUSR1
  activeAtStart, \* what waitForActiveTasks waits for
  closing,       \* the handler found a server to close
  server,        \* the loop's variable server is not null
  listening,     \* servers that hold the port
  exited,        \* the process is gone
  signals,       \* signals so far, for the bound
  timedOut,      \* history: a drain gave up on running tasks
  earlySignal    \* history: a signal came while a server was starting

handlerVars == <<shutdown, isRestart, activeAtStart, closing>>
loopVars == <<handlerVars, loop, server, listening, exited, signals, timedOut, earlySignal>>
vars == <<queueVars, loopVars>>

Init ==
  /\ QueueInit
  /\ loop = "starting"
  /\ shutdown = "none"
  /\ isRestart = FALSE
  /\ activeAtStart = {}
  /\ closing = FALSE
  /\ server = FALSE
  /\ listening = 0
  /\ exited = FALSE
  /\ signals = 0
  /\ timedOut = FALSE
  /\ earlySignal = FALSE

Exit ==
  /\ exited' = TRUE
  /\ UNCHANGED <<queueVars, handlerVars, loop, server, listening, signals, timedOut,
                 earlySignal>>

-----------------------------------------------------------------------------
(* The loop *)

\* params.start() returns; the loop now has a live restartResolver.
StartServer ==
  /\ loop = "starting"
  /\ listening = 0
  /\ loop' = "serving"
  /\ server' = TRUE
  /\ listening' = 1
  /\ UNCHANGED <<queueVars, handlerVars, exited, signals, timedOut, earlySignal>>

\* params.start() throws, as it must when the port is still taken.
StartFails == loop = "starting" /\ Exit

-----------------------------------------------------------------------------
(* The handler of a signal *)

\* request(): markGatewayDraining on a restart, then a wait for what is active
\* at this very moment; without anything active the server is closed at once.
\* A signal during a shutdown is ignored.
Signal(restart) ==
  LET waits == restart /\ ActiveTasks # {} IN
  /\ shutdown = "none"
  /\ signals < MaxSignals
  /\ signals' = signals + 1
  /\ shutdown' = IF waits THEN "draining" ELSE "closing"
  /\ isRestart' = restart
  /\ activeAtStart' = IF waits THEN ActiveTasks ELSE {}
  /\ closing' = (~waits /\ server)
  /\ gatewayDraining' = (gatewayDraining \/ restart)
  /\ earlySignal' = (earlySignal \/ loop = "starting")
  /\ UNCHANGED <<queue, active, maxConcurrent, generation, promiseVars, loop, server,
                 listening, exited, timedOut>>

\* Mutant of DrainEnds: the handler does not look at what is still running.
DrainEndsUnchecked ==
  /\ shutdown = "draining"
  /\ shutdown' = "closing"
  /\ closing' = server
  /\ activeAtStart' = {}
  /\ UNCHANGED <<queueVars, isRestart, loop, server, listening, exited, signals,
                 timedOut, earlySignal>>

\* A poll of waitForActiveTasks finds none of the tasks active, or the drain
\* times out.
DrainEnds ==
  /\ shutdown = "draining"
  /\ shutdown' = "closing"
  /\ closing' = server
  /\ activeAtStart' = {}
  /\ timedOut' = (timedOut \/ activeAtStart \cap ActiveTasks # {})
  /\ UNCHANGED <<queueVars, isRestart, loop, server, listening, exited, signals,
                 earlySignal>>

\* server.close() ends or throws: whatever the loop's variable refers to by
\* now is forgotten.  A stop then leaves the process.
Closed ==
  /\ shutdown = "closing"
  /\ server' = FALSE
  /\ listening' \in {listening, IF closing THEN listening - 1 ELSE listening}
  /\ closing' = FALSE
  /\ IF isRestart THEN shutdown' = "respawning" /\ UNCHANGED exited
                  ELSE exited' = TRUE /\ UNCHANGED shutdown
  /\ UNCHANGED <<queueVars, isRestart, activeAtStart, loop, signals, timedOut, earlySignal>>

\* The forced exit of a close that hangs.
ForceExit == shutdown = "closing" /\ Exit

\* A fresh process takes over, or the gateway lock cannot be had again.
LeaveProcess == shutdown = "respawning" /\ Exit

\* Mutant of RestartInProcess: the lanes are not reset.
RestartInProcessNoReset ==
  /\ shutdown = "respawning"
  /\ shutdown' = "none"
  /\ loop' = "starting"
  /\ UNCHANGED <<queueVars, isRestart, activeAtStart, closing, server, listening, exited,
                 signals, timedOut, earlySignal>>

\* The in-process restart: restartResolver() lets a waiting loop go round,
\* which resets the lanes first.  A loop that is still in params.start() has
\* no live resolver, and the call does nothing.
RestartInProcess ==
  /\ shutdown = "respawning"
  /\ shutdown' = "none"
  /\ loop' = "starting"
  /\ IF loop = "serving" THEN ResetAllLanes ELSE UNCHANGED queueVars
  /\ UNCHANGED <<isRestart, activeAtStart, closing, server, listening, exited, signals,
                 timedOut, earlySignal>>

LoopStep ==
  \/ StartServer
  \/ StartFails
  \/ \E restart \in BOOLEAN : Signal(restart)
  \/ DrainEnds
  \/ Closed
  \/ ForceExit
  \/ LeaveProcess
  \/ RestartInProcess

Next == ~exited /\ (LoopStep \/ (LaneNext /\ UNCHANGED loopVars))

Spec == Init /\ [][Next]_vars

\* Some turn ends while turns run (a run has a timeout), the microtask that
\* resumes a session task runs, start() returns or throws, and the handler's
\* waits are all bounded by timers.  No signal and no new turn is owed.
Fairness ==
  /\ WF_vars(~exited /\ UNCHANGED loopVars /\ \E c \in Commands : FinishTurn(c))
  /\ WF_vars(~exited /\ UNCHANGED loopVars /\ \E c \in Commands : FinishSession(c))
  /\ WF_vars(~exited /\ (StartServer \/ StartFails))
  /\ WF_vars(~exited /\ (DrainEnds \/ Closed \/ ForceExit \/ LeaveProcess
                           \/ RestartInProcess))

FairSpec == Spec /\ Fairness

-----------------------------------------------------------------------------
(* Properties *)

\* The lanes keep their types, and activeTaskIds of a lane is exactly the set
\* of its tasks that were started in its current generation and still run, so
\* that a completion from before a restart can neither free nor block a place.
LanesConsistent ==
  /\ queue \in [Lanes -> Seq(Commands)]
  /\ maxConcurrent \in [Lanes -> 1..MaxConcurrent]
  /\ generation \in [Lanes -> Nat]
  /\ gatewayDraining \in BOOLEAN
  /\ outer \in [Commands -> Statuses]
  /\ inner \in [Commands -> Statuses]
  /\ \A s \in Sessions : active[s] =
       {c \in Commands : SessionOf(c) = s /\ outer[c] = "running" /\ outerGen[c] = generation[s]}
  /\ active[Main] = {c \in Commands : inner[c] = "running" /\ innerGen[c] = generation[Main]}

\* No work is stranded: an entry waits only in a lane that is full, whatever
\* completions, clears, limit changes and resets came before (the comment at
\* command-queue.ts:240-242).
NoStrandedEntry ==
  \A l \in Lanes : queue[l] # <<>> => Cardinality(active[l]) >= maxConcurrent[l]

\* Two turns of one session are never under way at once, restart or not,
\* unless a drain gave up on a running task (DRAIN_TIMEOUT_MS).
TurnsOverlapOnlyAfterTimeout ==
  \A c, d \in Commands :
    /\ SessionOf(c) = SessionOf(d) /\ c # d
    /\ inner[c] = "running" /\ inner[d] = "running"
    => timedOut

\* A gateway that refuses commands accepts them again or leaves: no restart
\* ends with gatewayDraining set, provided no signal came during a start.
DrainingEnds ==
  (gatewayDraining /\ ~earlySignal) ~> (~gatewayDraining \/ exited \/ earlySignal)

\* Every turn the lanes accepted is settled or cleared while the process lives:
\* the sessions ask for finitely many turns, and in the end none is left queued
\* or running, through every drain and restart.
AcceptedTurnsSettle ==
  <>[](exited \/ \A c \in Commands : outer[c] \notin {"queued", "running"})

-----------------------------------------------------------------------------
(* The lanes implement CommandPromise *)

StageOf(c) ==
  CASE outer[c] = "new" -> "new"
    [] outer[c] \in {"cleared", "refused"} \/ inner[c] = "refused" -> "rejected"
    [] outer[c] = "done" /\ inner[c] = "done" -> "settled"
    [] outer[c] = "running" /\ inner[c] = "done" -> "executed"
    [] outer[c] = "running" /\ inner[c] = "running" -> "executing"
    [] OTHER -> "pending"

Promise == INSTANCE CommandPromise WITH
  stage <- [s \in Sessions |-> [i \in 1..MaxTurns |-> StageOf(<<s, i>>)]]

\* Whatever lanes, generations and restarts do, a turn executes at most once,
\* a rejected one never, and the turns of a session begin in order.
PromiseSpec == Promise!Spec
=============================================================================
