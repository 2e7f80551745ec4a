# A verification project for Open-Jordy

This directory holds TLA+ models of Open-Jordy's own concurrent logic, the TLC
runs that check them on small instances, and proofs, checked by TLAPS, that the
most important invariants hold for every value of the constants. Paths below are
relative to the root of the repository; those of the gateway in sections 2 to 5
are relative to `openjordy/src/`.

## 1. Inventory

Open-Jordy trains a model while it serves. An agent gateway sends the chats of
its sessions to a proxy; the proxy forwards them to SGLang, has a judge score
each turn, and hands training samples to a rollout worker inside the trainer.
Beside this live system the repository has episode runners for desktop,
terminal, software-engineering and tool-call tasks.

| component | source | state | operations | talks to | hard behaviour |
|---|---|---|---|---|---|
| RL proxy server | `openjordy-rl/openjordy_api_server.py` | turn counts, buffered records, pending turns, PRM tasks, effective counters, eval scores | a request; flush, buffer; fire and finish a judge; submit a sample | SGLang and PRM (HTTP), the worker (queue, event, scores) | handlers interleave at each await; done callbacks; turn numbers come back; executor threads |
| RL rollout worker | `openjordy-rl/openjordy_rollout.py` | gate, output queue, the batch in the making | resume, poll, assemble, pause, return | proxy, trainer | two threads, a bounded queue, leftovers of a poll |
| GUI environment pool | `gui-rl/env_pool_server.py` | slots, leases, busy flags, idle times | allocate, reap, 7 operations, close | episode runners (HTTP) | one thread per request, gaps between two locks, failing resets |
| GUI environment client | `gui-rl/env_client.py`, `slime/slime/utils/http_utils.py` | the lease of an episode | allocate, call, close, all with retries | pool | lost responses, retries of what was done |
| GUI episode runner | `gui-rl/generate_with_gui.py` | one episode | prompt, action, evaluation | client, SGLang | data only |
| OPD proxy and rollout | `openjordy-opd/` | as the RL proxy, with teacher log-probs | as the RL proxy, two judges per turn | as the RL proxy | as the RL proxy |
| Combined proxy and loss | `openjordy-combine/` | as above | binary reward and distillation per turn | as above | as above |
| Tinker trainer | `openjordy-tinker/` | batch queue, training step | rollout, train, save weights | Tinker service | service failures |
| Asynchronous training loop | `slime/train_async.py` | the future of the next rollout | prefetch, train, update weights | rollout worker, actors | weights change between a prefetch and its use |
| slime framework | `slime/` | engines, placement | conversion, distributed training | all of the above | distributed numerics |
| Terminal RL | `terminal-rl/` | leases of task containers | allocate, heartbeat, close | remote workers | expiry against late heartbeats |
| SWE RL, tool-call RL | `swe-rl/`, `toolcall-rl/` | one episode each | generate, execute | containers, sandboxes | little shared state |
| gateway: command lanes | `openjordy/src/process/command-queue.ts` | queue, active tasks and generation per lane | enqueue, pump, clear, change of limits, reset | all of the gateway | nested lanes, completions of a former generation |
| gateway: run loop | `openjordy/src/cli/gateway-cli/run-loop.ts` | the server, the handler of a signal | start, drain, close, respawn, restart in process | lanes, server | signals during start and drain, drains that give up |
| gateway: delivery queue | `openjordy/src/infra/outbound/delivery-queue.ts`, `deliver.ts` | one file per message to send, `failed/` | enqueue, send, ack, fail, recover, park | channels | crash between send and ack, recovery beside live work |
| gateway: session write lock | `openjordy/src/agents/session-write-lock.ts` | a lock file per transcript, `HELD_LOCKS` | acquire, re-enter, release, reclaim, watchdog, cleanup | other processes | stale locks, removal by path, pids used again |
| gateway: cron service | `openjordy/src/cron/service/` | the store file, its copy in memory, timer, running markers | start, tick, catch up, add, update, remove, run | gateway, disk | services that overlap after a reload, markers of runs in flight, saves that fail |
| gateway: subagent registry | `openjordy/src/agents/` | runs, announcements | register, complete, sweep, restore | gateway, disk | restart between completion and announcement |
| gateway: follow-up queue | `openjordy/src/auto-reply/reply/queue/` | messages that wait behind a turn | enqueue, collect, drain | lanes | drains that fail half-way |
| gateway: memory index | `openjordy/src/memory/` | an external search index | update, search | a subprocess | one update at a time |
| gateway: agent run attempt | `openjordy/src/agents/pi-embedded-runner/` | one turn | prompt, stream, tools | lanes, session lock | timeouts and aborts of a turn |
| gateway: channels, plugins, interfaces | `openjordy/` | adapters | I/O and formatting | services | - |
| Megatron-LM | `Megatron-LM/` | vendored | - | - | - |
| evaluation, instructions | `openjordy-test/`, `instructions/` | scripts and prose | - | - | - |

What makes each modelled component correct:

* *Proxy.* A main turn becomes one sample and never two; a sample that trains
  carries the verdict on its own turn; a session with a judged turn trains on
  something; no turn is parked for good.
* *Worker.* Batches have their size and their order; a sample is used once;
  nothing passes the gate between rollouts; a rollout with enough samples ends.
* *Pool.* A slot has one lease; the holder of a lease finds its slot; the pool
  keeps its bounds and leaks nothing; a leased environment is clean; a reserved
  slot comes back.
* *Lanes and run loop.* A turn executes at most once, and the turns of a session
  one after the other and in order; no entry waits beside a free place; every
  accepted turn is settled; a gateway that refuses commands accepts them again.
* *Delivery queue.* A message whose entry was written is delivered or accounted
  for; it is sent twice only where that cannot be told from a loss.
* *Session write lock.* One lock at a time is held on a session file, and the
  count of its holders is exact.
* *Cron service.* A job does not overlap itself; the scheduler never falls
  silent; a one-shot runs once; no due slot is passed over.

## 2. Modules

| module | models |
|---|---|
| `TurnLife` | what the proxy promises about one turn: the stages from the conversation to a sample |
| `RLServer` | the proxy; implements `TurnLife` (`LifeSpec`, `LifePromise`) |
| `RLRollout` | the rollout worker composed with `RLServer`, which it EXTENDS |
| `EnvPool` | the pool together with the episode runners that lease from it |
| `CommandPromise` | what the lanes promise about a turn: at most once, in the order of its session |
| `CommandQueue` | the command lanes and the nesting of an agent turn in two of them |
| `RunLoop` | the gateway's run loop composed with the lanes, which it EXTENDS; implements `CommandPromise` (`PromiseSpec`) |
| `Processes` | the processes that share a state directory: starts, deaths, pids used again |
| `SessionLock` | the write lock of one session file |
| `DeliveryQueue` | the outbound delivery queue |
| `GatewayState` | the state directory: `SessionLock` and `DeliveryQueue` under the crashes and restarts of `Processes` |
| `CronService` | the cron scheduler, its store file and the services built over it |
| `MCRLServer`, `MCRLRollout`, `MCEnvPool`, `MCRunLoop`, `MCGatewayState`, `MCCronService` | instances for TLC |
| `RLServer_proofs`, `RLServerSessions_proofs`, `RLRollout_proofs`, `EnvPool_proofs`, `RunLoop_proofs`, `DeliveryQueue_proofs`, `SessionLock_proofs`, `CronService_proofs` | theorems and their proofs |

### RLServer

The server is one asyncio loop: a handler runs without interruption from one
await to the next. Each such stretch is one action.

| action | code |
|---|---|
| `Accept` | `chat_completions` past the 503 gate, up to the await of SGLang |
| `SglangFails` | an error status or a body that is not JSON |
| `RespondEmpty` | a main answer that is empty, or on which template or tokenizer raise: flushes the previous record and leaves |
| `RespondMain` | flush, turn number, record, pending turn, submission, and the session_done block |
| `RespondSide` | a side request, with the session_done block |
| `PrmFinish` | the last vote arrives and the task is done |
| `RunPrmDone` | its done callback, `_maybe_submit_ready_samples` |
| `RunSubmit` | `_submit_turn_sample` up to its await of the executor |
| `Put` | an executor thread gets past `output_queue.put` |
| `Resume`, `Pause`, `ClearEvalScores`, `Take` | what the worker may do to the shared state |

`turnCounts`, `pendingRecord`, `pendingTurn`, `prmTasks`, `sessionEffective`,
`evalScores`, `nextIndex` are the fields of the same names. `ready` is the FIFO
of callbacks the loop has still to run (tasks made with `create_task`, done
callbacks); `verdict` is the result of the PRM task that judges a turn. A turn
is named by the id of its request, because turn numbers come back when a
session id is used again. `samples`, `turned` and `closed` are history
variables, used by properties only, except that `closed` also says when a
disciplined client stops (see below).

Abstracted: the text of prompts and answers, tokens, log-probs; the contents of
the record files; the votes of a judge, which are any votes at all
(`PrmFinish` takes every vector of `PrmM` votes and counts them as
`_majority_vote` does). `Disciplined` describes the clients, not the code: TRUE
is one request at a time per session and none after an answered session_done;
FALSE lets requests overlap and ids come back, as they do when the header is
missing and all sessions are called "unknown".

### RLRollout

`phase` says where `generate_rollout_openjordy` is. Each touch of what the
thread shares with the server is a step of its own: `StartRollout` clears the
scores, `ResumeSubmission` opens the gate, `GetGroup` is one `get_nowait`,
`Assemble` moves groups to the batch when the queue is empty, `PauseSubmission`
closes the gate and `ReturnBatch` drains the scores and returns. The
server's steps interleave with them (`ServerNext`). A group holds one sample;
none is aborted, because the proxy marks every sample COMPLETED.

### EnvPool

Each `with self._lock` block is an action. A thread between its pool-lock block
and its slot-lock block is in `threads` with a `pc`: `opWait`, `opRun` for the
seven operations of a lease; `resetWait`, `resetRun`, then `release`, or
`replace` and `scrap` after a reset that raised, for `close_lease`. The slot
lock of an environment is held by the thread at `opRun` or `resetRun`. A
client allocates (with retries), calls, and closes as
`generate_with_gui.py` does. `LoseResponse` breaks a connection: the thread goes
on at the server and the client goes on without the answer, to a retry of its
call, or to the end after a close; `Grant` may lose the answer
of an allocation. `CloseEnvs` is the `close()` of the reaper and of a replacement:
where it raises that is swallowed, the slot leaves the tables all the same and the
environment is in the history variable `unclosed`. `Age` is the passing of `idle_ttl_seconds`. `user` says which
lease touched an environment last.

### CommandQueue and RunLoop

JavaScript runs a handler to its next await without interruption. The whole pump
loop of a lane is therefore one step, `DrainLanes`, and with it the enqueue that a
session task makes in the main lane before its first await
(`agents/pi-embedded-runner/run.ts`). An agent turn has two entries: `outer`,
in the lane of its session, and `inner`, in the lane "main". `outerGen` and
`innerGen` are the `taskGeneration` an entry captured when it started.

| action | code |
|---|---|
| `Enqueue` | `enqueueCommandInLane` for the session lane |
| `FinishTurn`, `FinishSession` | the task of the main lane, of the session lane, ends: `completeTask`, pump, settle |
| `ClearSession`, `SetConcurrency` | `clearCommandLane`, `setCommandLaneConcurrency` |
| `ResetAllLanes` | `resetAllLanes`, as part of `RestartInProcess` |
| `StartServer`, `StartFails` | `params.start()` in the loop of `runGatewayLoop` |
| `Signal` | `request` up to its first await |
| `DrainEnds` | `waitForActiveTasks` finds the tasks gone, or gives up |
| `Closed`, `ForceExit` | `server.close()` ends; the timer of the forced exit |
| `LeaveProcess`, `RestartInProcess` | what `handleRestartAfterServerClose` does |

`timedOut` and `earlySignal` are history variables. The first says that a drain
gave up on running tasks; the second that a signal came while `params.start()`
was in progress, when `restartResolver` is not the live one. Abstracted: the
other global lanes, which behave as main does; names, waiting times and logging.
`activeAtStart` is the set that `waitForActiveTasks` waits for.

### Processes, SessionLock, DeliveryQueue and GatewayState

`Processes` holds which pids are alive and which `life` of a pid it is; a later
process may get the same pid. `Dies` and `Starts` are the parts of `Crash`,
`Exit`, `StartGateway` and `StartCommand` of `GatewayState`; a crash forgets
what a process had in memory and leaves its files. The lock and the queue share
processes and nothing else, so a behaviour is about one of them (`uses`), and the
start of a gateway begins the recovery or the lock cleanup accordingly.

`SessionLock` has one action per file operation, since every await lets others
in: `Open` (O_EXCL), `WritePayload`, `Register` (`HELD_LOCKS`), `ReadPayload`,
`Stat`, `Reclaim`, `Release`, `RemoveReleased`, `WatchdogCheck` and
`WatchdogRemove`; `CleanList`, `CleanRead` and `CleanRemove` for the cleanup on start. Every
lock file ever created is a grant of its own, which is how a removal by path that
hits a newer file is told apart. The age of a file is `old`: older than `staleMs`.
The history variable `lapsed` is set where a lock is taken from, or a file
removed under, a living holder; the code does this

* when the file is older than `staleMs`, when it was held for longer than
  `maxHoldMs` (the watchdog), and on a termination signal;
* where the platform gives no start time, when a second task of a process finds
  the file of the first between its creation and its entry in `HELD_LOCKS`, or
  between its deletion there and the removal of the file;
* when the cleanup of a starting gateway meets a file whose payload is not yet
  written, or cannot read the payload of a live one, which counts as missing;
* when a waiter cannot read the payload, and then the `stat` fails with another error
  than ENOENT: the lock is reclaimed unseen (`guessing`);
* when a file is removed by path after the one that was judged has gone and
  another was created, which includes a cleanup that finds the file it has listed gone.

`DeliveryQueue` takes a live delivery and a recovery pass as two kinds of
attempt at a message. `Deliver` is `enqueueDelivery`; `Send` is
`deliverOutboundPayloadsCore`, with none, part or all of the payloads out, and a
return, an exception or an abort; `Ack`, `FailRead`, `FailWrite` and
`MoveToFailed` are the file operations behind it. `StartRecovery` is the start of the
background pass; `List` and `LoadEntry` (one file each) are
`loadPendingDeliveries`, so a pass may load what a live delivery has just written, or miss what it
has removed; `NextEntry` and `Deadline` are `recoverPendingDeliveries`. A gateway may be
in its first pass in the initial state. `arrivals` counts what reached
the channel. `dropped` holds what the code gives up on
purpose: messages aborted by the caller, and bestEffort messages that failed
where nobody passes `onError`. `excused` holds the messages that may arrive
twice, each for one of four reasons: an attempt failed after a part was out, a
process died between the send and the removal of the entry, the removal failed,
or a pass took up an entry that another attempt was at work on or done with.

### CronService

`locked()` chains the sections that touch the store of one path, over all
services, so a section is a step, with the rename that saves the store at its
end, or an error there (`ok`). `BeginRun` and `EndRun` are the executions
between sections. `disk` is the store file and `mem[v]` the copy of service
`v`, kept while something may read it.

| action | code |
|---|---|
| `StartClear`, `StartMissed`, `StartApply`, `StartLast` | the sections of `start`: stale markers, reservation of what was missed, its outcomes, the next runs and the timer |
| `TimerFires`, `TickApply` | `onTimer`: reservation of the due jobs, and their outcomes |
| `Add`, `Update`, `Delete`, `List`, `Run`, `RunApply` | the calls of `ops.ts` |
| `Boot`, `HotReload`, `Close`, `Crash` | the gateway around the service |

Time is a clock of slots, and a recurring job is due once a slot. `context` is
the service of the request context, which a hot reload does not replace
(`gateway/server.impl.ts`), so calls and ticks may work on different copies.
`unguarded` holds the jobs with a run in flight that the store knows nothing of:
a start clears every running marker, also those of runs that another service has in
flight; a call that disables a job, or the limit of two hours, does too; and a
store in memory may be saved over a newer file. `settled` holds the one-shots
that ran to the end. A run that timed out counts as ended: an execution that
ignores its abort is not followed further.

## 3. Runs

Bounds are named CONSTANTs; every bound is a conjunct of the guard of the action
it limits.

| run | question | instance and why it is enough |
|---|---|---|
| `RLServer_reuse` | undisciplined clients | one session, 4 requests: two lives of a session with a judged and an unjudged turn each, all overlaps of their requests, judges and submissions |
| `RLServer_once` | disciplined clients, refinement, liveness | two sessions, 3 requests: a judged turn and a closing turn in one session with a turn of another between them; the worker pauses and drains at will |
| `RLRollout_batches` | the worker and the proxy | batches of 2, 3 requests, queue of 1: a full batch, a full queue, a sample over, and the next rollout |
| `EnvPool_faulty` | leases under faults | 2 clients, pool of 1 to 2, 3 environments, 3 leases, 1 lost response, 2 faults: reuse, creation, reaping, replacement and its failure, closes that raise |
| `EnvPool_live` | reserved slots come back | the same with 1 fault, 4 environments, 2 leases |
| `RunLoop_restart` | lanes through drains and restarts, refinement, liveness | two sessions, 3 turns, 1 or 2 at a time, 2 signals: a turn that runs, one that waits in its lane and one that waits in main, across two restarts, a drain that gives up, and completions of the generation before |
| `GatewayState_crash` | lock and delivery queue under crashes | a gateway with 2 tasks and a command, one restart, a pid used again, with and without start times. Lock: 3 acquires, 3 lock files: a stale file, its removal and the newer file behind it. Queue: 2 messages (one bestEffort), retries of up to 2, and at most 3 of these together: a live delivery, entries an earlier gateway left, the pass of the gateway that has just started, and the pass after its restart, which in process runs beside the first. So a pass meets a live delivery, two passes meet over an entry, and a delivery and two passes meet |
| `CronService_ticks` | the scheduler over one store | a recurring job and a one-shot with deleteAfterRun, two services, two slots, 3 calls, reloads or failed saves: a due slot while a run is in flight, a catch-up, a retry, a service that is replaced while it executes, a call through the replaced service, a close after a reload |
| `RLServer_norecord`, `RLServer_lost`, `RLRollout_drop`, `EnvPool_stuck` | where code and documentation part | see below |

A judge has 3 votes (the default) in `RLServer_once`, so that votes tie and
fail, and 1 elsewhere: any verdict is reachable with one vote. `QueueCap` is 1
so that a full queue happens. Clients are symmetric in the runs of the pool
without liveness. Deadlock is checked in the runs of
the proxy and the worker; in those of the pool it is not, because clients run out of
the bounded supply of leases. In `RLRollout_batches` the worker polls for ever
once all requests are used, so no run ends. In the three runs of the gateway
deadlock is not checked, because a process may exit for good and the bounded
supply of turns, acquires, deliveries, calls and slots runs out.

What the passing runs show:

* `AtMostOnce`: a turn is never pending, scheduled and sampled in two places.
* `TrainedOnOwnVerdict`, `RewardIsOwnVerdict`: a session id that is used again
  can give a turn the verdict of a task of the former life, but such a turn never trains; with ids used once it does not happen at all.
* `JudgedSessionContributes`: the promotion and the counter give every judged
  session a trained sample.
* `PendingTurnIsAwaited`: for each pending turn something is still to come that
  will look at it: its record, its task, or a callback.
* `JudgedOnNextState`: with two turns of a session pending the first one has a
  task (recording on).
* `LifeSpec`, `LifePromise`: `RLServer` implements `TurnLife`, where nothing
  unjudged trains and, with ids used once, nothing is lost; judged and scheduled
  turns become samples.
* `ClosedSessionSettles`: a closed session leaves no pending turn.
* `SampleOnItsWayOnce`, `BatchesComplete`, `PausedBetweenRollouts`,
  `RolloutEnds`, `SampleIsTaken`: the worker's promises of section 1.
* `LeasesConsistent`, `HeldLeaseIsValid`, `PoolSize`, `AliveIsAccounted`: the
  pool's tables under lost responses and resets, creations and closes that raise. An environment
  that is alive is in the pool, about to be closed by the thread that replaced it, or its
  `close()` raised: these do leak, and nothing else does. `CallsHitLiveEnvs`, `LeasedEnvIsClean`,
  `NoOrphanLease`: what holds in addition while no response is lost.

* `LanesConsistent`, `NoStrandedEntry`: the active set of a lane is exactly what
  runs of its present generation, and an entry waits only where the lane is
  full, so a completion from before a restart neither frees nor blocks a place.
* `TurnsOverlapOnlyAfterTimeout`, `PromiseSpec`: a turn executes at most once
  and in order, through every restart; two turns of a session overlap only
  when a drain has given up on the first.
* `DrainingEnds`, `AcceptedTurnsSettle`: a draining gateway serves again or
  leaves, and no accepted turn stays queued or running.
* `LocksConsistent`, `SingleWriter`: a session file has one lock at a time, and
  `HELD_LOCKS` counts its holders, up to the cases of `lapsed` above.
* `NothingForgotten`, `DuplicatesExcused`: an entry leaves the queue only when
  its message was delivered, parked or given up on purpose; a message is
  sent twice for one of the four reasons above only.
* `NoOverlap`, `OneShotOnce`, `SlotsNotSkipped`: reservations keep a job from
  overlapping itself, a one-shot from running again and a due slot from being passed
  over, up to the exceptions the properties name. `SchedulerAlive`: no step leaves a
  started scheduler with something to do and no timer, through ticks, starts, calls,
  reloads and restarts, with one exception: after a hot reload a `list` or a `run`
  still reaches the service that was replaced, saves its store, in which a
  job may have a next run that the file no longer has, and arms no timer. Within the run's bounds
  `run` does this; for `list` it takes one call more (`MaxEvents` = 4). The property is
  about behaviours without failed saves.

What the violation runs show:

* `RLServer_norecord`. The record buffer is the only trigger of the judge. With
  `OPENJORDY_RECORD_ENABLED=0`, the default, no turn is judged and every sample is masked.
* `RLServer_lost`. A session id that comes back restarts its turn numbers and
  overwrites a turn that is still being judged.
* `RLRollout_drop`. Samples polled beyond a full batch are dropped.
* `EnvPool_stuck`. A creation that raises after a reset that raised leaves its
  slot busy for ever.

Three further divergences were met while modelling and have no run of their own.
The comment at `openjordy_api_server.py:616-619` says a zero score is promoted
when the session has no effective sample so far, but session_done resets the
counter while submissions are outstanding, so a session can promote after it has
trained. `openjordy-rl/README.md:13` makes an exception for the only turn of a session,
but lines 615-622 promote judged turns only. And
when the answer of an operation is lost, the server still runs it after the client has closed the
lease, so an environment may be allocated dirty in spite of the comment at
`env_pool_server.py:211` (`LeasedEnvIsClean` without its premise `lost = 0`
fails).

In the gateway, the premises of the properties mark what was met there:

* A SIGUSR1 that comes while the server starts leaves `gatewayDraining` set, for
  `restartResolver` is not live, the loop does not go round and `resetAllLanes`
  does not run (`DrainingEnds` without `earlySignal`).
* A turn that waits in its session lane when a drain begins is started during the drain
  and its enqueue in the main lane refused, while the comment at
  `command-queue.ts:236-238` says queued entries are preserved.
* `start` of the cron service recomputes the next run of jobs that became due
  while it caught up, and passes over that slot, which the comment at
  `cron/service/timer.ts:828-830` means to prevent.
* After a hot reload the request context and the close handler keep the former
  cron service (`gateway/server.impl.ts:774`, `952`); what goes through it can leave the
  scheduler without a timer (the exception in `SchedulerAlive`).
* A start of the cron service clears the markers of runs that are in flight in
  another one (`cron/service/ops.ts:105`).

## 4. Fairness

* Proxy (`Fairness`): the loop runs what is ready (`RunPrmDone`, `RunSubmit`);
  SGLang and the PRM answer or fail, which the code awaits with `timeout=None`;
  an executor thread goes on when the queue has room. Weak fairness
  suffices: what is enabled stays enabled until it is done, except `Put`,
  where it is stated for some waiting thread. Requests are not fair: clients may stop.
  With PRM or SGLang hanging for ever the liveness properties fail, as the code does.
* Worker (`FairRolloutSpec`): its thread runs, and the trainer asks for the next
  rollout.
* Pool (`FairSpec`): a request thread runs on, operations and resets return or
  raise, slot locks are granted. Clients are not fair.
* Run loop (`RunLoop.FairSpec`): a turn that runs ends, as runs have a timeout;
  the microtask that resumes a session task runs; `start()` returns or throws;
  every wait of the handler is bounded by a timer. Signals and new turns are not fair.
* `GatewayState` and `CronService` have safety and action properties only and
  state no fairness.

## 5. Proofs

`tlapm` checks every theorem from the named assumptions of the modules
(`RequestsAssumption`, `QueueAssumption`, `FlagsAssumption`; `BatchAssumption`; `SizeAssumption`,
`BoundAssumption`, `ResetAssumption`; `MainAssumption`, `SessionsAssumption`,
`LimitsAssumption`; `ProcessesAssumption`, `MessagesAssumption`; `JobsAssumption`,
`NoneAssumption`, `TimesAssumption` and the bounds), for
every number of sessions, requests, votes, samples in a batch, clients, environments,
leases, turns, signals, processes, tasks, messages, jobs and services, the sets being
finite where something is counted or ordered. Every safety property, action property
and refinement that a passing run checks is a theorem.

* `RLServer_proofs`: `ServerTypeOK`, `ServerAtMostOnce`,
  `ServerTrainedOnOwnVerdict`, from `ServerSafe`, the invariant `IInv`. Neither
  property is inductive. That a turn has one place needs that uids are given once
  (`Ids`, `Known`), that the table of pending turns holds each once (`Once`), and
  that a buffered record belongs to a pending turn or to none (`RecordsFit`).
  That a trained turn has its own verdict needs
  that a turn with a next state is paired with the task that judges it
  (`Paired`) although its turn number may carry an older task, that
  a judge runs once per turn (`OneJudge`), and that there are no tasks without a
  PRM (`Unused`); `Rewards` carries the fact from the tables to callbacks and
  samples. Lemmas say what a flush and a submission do to the tables
  (`FlushTables`, `SubmitFlow`) and are used by all actions. `MajorityDecides` says that
  more than half of the votes decide.
* `RLServerSessions_proofs`: four properties from `ServerSessions`.
  `JudgedSessionContributes` from `Contributes`: a session whose counter of effective
  samples is not zero has a sample that trains. `PendingTurnIsAwaited` from `Awaited`, for
  any clients with the PRM and recording on: a task without a verdict runs
  (`Running`), a pending turn is the buffered one or has a task (`Handed`), and one whose
  verdict is known has its submission scheduled (`Expected`). `RewardIsOwnVerdict` and
  `JudgedOnNextState` from `Orderly`, for disciplined clients: one handler per
  session, none of an ended one (`Sequential`), turn numbers above the counter are unused and
  the buffered record is the last turn's (`Numbered`), so the task found under
  a turn's number is that turn's (`OwnTasks`, `OwnJudge`).
  `ServerImplementsTurnLife` is the refinement of `TurnLife` (`LifeSpec`), for any
  clients. The stage of a turn is where the turn is found (`Staged`), which needs
  `IInv`: a turn found in two places would have two stages. A submission takes turns
  out of the table and appends their calls (`Sends`), RespondMain does so
  twice in one step (`SendsTwice`), and what such a step does to the stages follows from
  where a turn may go (`TurnMoves`). That disciplined clients lose nothing needs
  `Orderly`: the number a new turn takes is free. `DisciplinedTurnsAreKept` draws the
  consequence for `NoTurnLost`, which `RLServer_lost` refutes for other clients.
* `RLRollout_proofs`: `RolloutTypes`, `RolloutTrainsOnce`,
  `RolloutBatchesComplete`, `RolloutPausesBetween` from `RolloutSafe`. Every step of the
  composition is a step of the proxy or leaves it alone (`RolloutKeepsProxy`), so
  the theorems about `RLServer` hold of it, the refinement among them
  (`RolloutImplementsTurnLife`). `Safe` adds to the proxy's `IInv` that every
  sample between the executor and a batch is one of the proxy's, in one of five places
  and there once, with an index of its own (`Gathered`), and that the gate is open
  from the resume to the pause and the batch full and sorted from then on (`Phased`).
  `TrainerGetsOwnVerdicts` joins both: what a batch trains on has the verdict on its own turn.
* `EnvPool_proofs`: `PoolTypeOK`, `PoolLeasesConsistent`,
  `PoolHeldLeaseIsValid`, `PoolAliveIsAccounted`, `PoolSizeBounded`, from
  `PoolSafe`. Its invariant `Safe` adds where the threads of `close_lease` are
  (`Closers`: their slot is busy and has no lease, and one thread closes a
  slot), which client waits for a call (`Callers`), and that numbers above the
  counters are unused (`Fresh`). The size of the pool follows from it and from
  the cardinality of what an action adds and removes. `NoOrphanLease`,
  `CallsHitLiveEnvs` and `LeasedEnvIsClean` are proved from `PoolReliable`. As long as no response was lost the client
  waits for every call, so a lease has one thread, a call finds its lease
  valid for the slot it looked up and a close has made it invalid
  (`Attended`); every lease has its client (`Claimed`); and with
  `--reset-on-close` what is free was reset or replaced (`Untouched`). A lost
  response breaks all of this at once, which is why the invariant speaks of `lost = 0`.
* `RunLoop_proofs`: `LanesStayConsistent`, `NothingStranded`, `TurnsKeptApart`
  from `LanesSafe`, the invariant `IInv`. It says what a queue holds
  (`Lined`: each waiting turn once, and in order), how far the two
  promises of a turn can be apart (`Staged`), that no turn overtakes an earlier one of its session
  (`Ordered`), that a table of active tasks is what runs in the
  lane's generation (`Counted`), that no lane with room has an entry waiting (`AllBusy`), and
  what the signal handler has already waited for (`Handled`: until a drain gives up, what is
  under way belongs to the generation at hand and is among what the drain waits
  for). All operations go through the lemma `DrainKeeps`: a pump preserves the
  lanes' part for whatever set of lanes it drains. `LanesKeepPromise` is the refinement:
  each step of the lanes maps to a step of `CommandPromise` or to a stutter.
* `DeliveryQueue_proofs`: `QueueForgetsNothing` from `Remembered` (an
  attempt that is about to remove an entry has decided its message, a busy pass
  has a message, a failure rewrites what it has read, a pass that has not begun has
  loaded nothing), and `QueueSendsOnce`
  from `Once`, for which an entry must be known to be untouched since it was
  loaded, and an attempt alone at its message, unless the message is excused.
* `SessionLock_proofs`: `LocksStayConsistent` and `OneWriter` from `Sound`:
  which task owns which lock file (`Owned`), which tasks an entry
  of `HELD_LOCKS` counts (`Counted`), what a task still knows of the file it judged
  when it removes it (`Judged`), and that owners find their file at
  `lockPath` as long as nothing lapsed (`Intact`).
* `CronService_proofs`: `RunsKeptApart` and `OneShotsRunOnce` from `Sound`: while
  a job outside `unguarded` has a run in flight its marker is in the store file and
  no other run of it exists (`Guarded`), and a one-shot that is done is
  disabled there or carries a marker (`Settled`). `SchedulerStaysAlive` and
  `NoSlotSkipped` from `Steady`, which adds that every kept store is maintained
  (`Orderly`: a job without a next run is disabled or is a one-shot that is done),
  so that maintenance of a store never moves a next run, and that the service
  of the request context, once started and until a hot reload replaces it, has a timer
  when its store has a next run and no save has failed (`Armed`).

The properties were checked with TLC before they were proved, and so were most of
the invariants.

Only model-checked: liveness under fairness (the prover has no ENABLED):
`LifePromise`, `ClosedSessionSettles`, `RolloutEnds`, `SampleIsTaken`,
`ReservedSlotReturns`, `DrainingEnds`, `AcceptedTurnsSettle`.
RECURSIVE operators are out of the prover's reach, and no module here has one. So is
induction over data; the one lemma that needs it, `OrderExists` (a finite set of numbers has a
sorted order), argues from a smallest set that has none instead.

## 6. Not modelled

* Of the proxy and the worker: authentication, streaming, the contents of record files and
  their purge, the restart of the worker's thread, evaluation rollouts. Of the
  environment client: retry counts and payloads.
* Of the delivery queue: payloads, hooks and channels, the migration of legacy
  entries. Of the cron service: payloads, delivery and alerts, schedule
  expressions and their errors, patches of fields that do not touch the schedule.
* The gateway's subagent registry, follow-up queue, memory index and agent run
  attempt; its channels, plugins, user interfaces and configuration, which are
  by far most of the TypeScript sources and are adapters, formatting and input/output.
* The other components of section 1 without a module, for the reasons in
  `PROJECT.json`.

## 7. Plan

1. The subagent registry over `Processes`: an announcement survives a restart
   between the end of a run and its delivery. Then the follow-up queue over
   `CommandQueue`.
2. Extend the training core: `TrainAsync` (the loop of `slime/train_async.py` over
   `RLRollout`'s interface: which weights produced the samples of a batch).
3. The OPD proxy as a module beside `RLServer` (two judges, hints, teacher
   log-probs that may fail), then the combined proxy; both against `TurnLife`.
4. The terminal router's leases.
5. Proofs: what the abstract specifications `TurnLife` and `CommandPromise` promise, as
   properties of their own, and the invariants of the modules above as they come.
