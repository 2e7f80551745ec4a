---------------------------- MODULE CronService ----------------------------
(***************************************************************************)
(* The scheduler of src/cron/service of the gateway: a timer tick reserves *)
(* the due jobs by a running marker, executes them and applies what came   *)
(* of them; a start runs the jobs that were missed; calls add, update,     *)
(* remove, list and run jobs meanwhile.  A hot reload of the configuration *)
(* and an in-process restart build another service over the same store     *)
(* file, while ticks of the old one may still be executing.                *)
(*                                                                         *)
(* locked() chains the sections that touch the store of one path, over all *)
(* services, so a section is one step; it ends with the rename that saves  *)
(* the store, or with an error.  What comes before a section queues and    *)
(* what follows it without touching the store belong to the step.  Time is *)
(* a clock of slots: a recurring job is due once a slot.  Payloads,        *)
(* delivery, alerts and events are left out and so are schedules that fail *)
(* to compute and load errors.                                             *)
(***************************************************************************)
EXTENDS Integers, FiniteSets

CONSTANTS
  Jobs,
  OneShots,        \* jobs of schedule kind "at"
  DeleteAfterRun,  \* one-shots with deleteAfterRun
  None,
  Stuck,           \* STUCK_RUN_MS in slots
  Backoff,         \* errorBackoffMs in slots
  MaxAttempts,     \* cron.retry.maxAttempts
  MaxConcurrent,   \* cron.maxConcurrentRuns
  MaxServices,     \* bound: services built
  MaxClock,        \* bound: slots
  MaxEvents        \* bound: services built, calls of clients and failed saves together

ASSUME JobsAssumption == DeleteAfterRun \subseteq OneShots /\ OneShots \subseteq Jobs
ASSUME NoneAssumption == None \notin Nat
ASSUME TimesAssumption == Stuck \in Nat /\ Backoff \in Nat \ {0} /\ MaxAttempts \in Nat
ASSUME BoundsAssumption ==
  /\ MaxConcurrent \in Nat \ {0} /\ MaxServices \in Nat
  /\ MaxClock \in Nat /\ MaxEvents \in Nat

Services == 1..MaxServices
Batches == Services \X {"tick", "startup", "manual"}
Clock == 0..MaxClock
Outcomes == {"ok", "skipped", "transient", "permanent"}

\* A job of the store: at is the time of a one-shot, running is runningAtMs.
\* Results are kept of one-shots only, whose schedule depends on them.
Absent == [stored |-> FALSE, enabled |-> FALSE, at |-> 0, next |-> None,
           running |-> None, last |-> "none", lastRun |-> 0, errors |-> 0]
Idle == [is |-> "none", start |-> 0, end |-> 0]
NoStore == [j \in Jobs |-> Absent]

VARIABLES
  clock,
  disk,         \* the store file
  mem,          \* mem[v]: state.store of service v, while something may read it:
                \* a tick and the end of a start read the file instead
  timer,        \* timer[v]: state.timer is set
  starting,     \* starting[v]: where start() is
  interrupted,  \* interrupted[v]: startupInterruptedJobIds
  runs,         \* runs[b][j]: the run of j in batch b; state.running: a tick has runs
  attached,     \* services whose tick holds jobs of the store in memory
  context,      \* the service the request context and close() know, or 0
  current,      \* the service the reload handler knows, or 0
  services, calls, failures,
  unguarded,    \* history: jobs with a run in flight that the store does not know of
  settled       \* history: one-shots that ran to ok or skipped

storeVars == <<disk, mem, failures>>
gatewayVars == <<context, current, services>>
serviceVars == <<timer, starting, interrupted, attached>>
historyVars == <<unguarded, settled>>
vars == <<clock, storeVars, gatewayVars, serviceVars, runs, calls, historyVars>>

-----------------------------------------------------------------------------
(* Schedules *)

\* computeJobNextRunAtMs
NextRun(j, r, now) ==
  CASE ~r.enabled -> None
    [] r.enabled /\ j \in OneShots ->
         IF r.last = "ok" /\ r.at <= r.lastRun THEN None ELSE r.at
    [] r.enabled /\ j \notin OneShots -> now + 1

Pending(r) == r.stored /\ r.enabled /\ r.next # None

\* normalizeJobTickState
Normalised(r, now) ==
  IF ~r.enabled THEN [r EXCEPT !.next = None, !.running = None]
  ELSE IF r.running # None /\ now - r.running > Stuck THEN [r EXCEPT !.running = None]
  ELSE r

\* recomputeNextRuns and recomputeNextRunsForMaintenance of a store.
Recomputed(st) == [j \in Jobs |->
  LET r == Normalised(st[j], clock)
  IN  IF r.enabled /\ (r.next = None \/ clock >= r.next)
      THEN [r EXCEPT !.next = NextRun(j, r, clock)] ELSE r]

\* Mutant of Maintained: it recomputes what is due as well.
MaintainedAll(st) == Recomputed(st)

Maintained(st) == [j \in Jobs |->
  LET r == Normalised(st[j], clock)
  IN  IF r.enabled /\ r.next = None THEN [r EXCEPT !.next = NextRun(j, r, clock)] ELSE r]

\* Mutant of Runnable: the marker is not looked at.
RunnableMarked(r) == Pending(r) /\ clock >= r.next

\* isRunnableJob for a tick, and for a start with skipAtIfAlreadyRan.
Runnable(r) == Pending(r) /\ r.running = None /\ clock >= r.next
Missed(j, r) ==
  /\ Runnable(r)
  /\ j \in OneShots /\ r.last # "none" => r.last = "error" /\ r.next > r.lastRun

\* The first assignments of applyJobResult; consecutiveErrors is counted as far
\* as the retries of a one-shot need it.
AfterRun(j, r, run) ==
  LET status == IF run.is \in {"ok", "skipped"} THEN run.is ELSE "error"
      errors == CASE status # "error" -> 0
                  [] status = "error" /\ r.errors > MaxAttempts -> r.errors
                  [] status = "error" /\ r.errors <= MaxAttempts -> r.errors + 1
  IN  IF j \in OneShots
      THEN [r EXCEPT !.running = None, !.last = status, !.lastRun = run.start, !.errors = errors]
      ELSE [r EXCEPT !.running = None]

\* Mutant of Applied: a one-shot that is done stays enabled and due.
AppliedStaysDue(j, r, run) ==
  LET after == AfterRun(j, r, run)
  IN  CASE ~r.stored -> r
        [] r.stored /\ j \in OneShots -> after
        [] r.stored /\ j \notin OneShots -> [after EXCEPT !.next = NextRun(j, after, run.end)]

\* applyOutcomeToStoredJob with applyJobResult.
Applied(j, r, run) ==
  LET after == AfterRun(j, r, run)
      natural == NextRun(j, after, run.end)
      later == run.end + Backoff
      retried == run.is = "transient" /\ after.errors <= MaxAttempts
  IN
  IF ~r.stored THEN r
  ELSE IF j \in DeleteAfterRun /\ run.is = "ok" THEN Absent
  ELSE IF j \in OneShots
  THEN IF retried THEN [after EXCEPT !.next = later]
                  ELSE [after EXCEPT !.enabled = FALSE, !.next = None]
  ELSE IF r.enabled /\ run.is \notin {"ok", "skipped"} /\ later > natural
  THEN [after EXCEPT !.next = later]
  ELSE [after EXCEPT !.next = natural]

-----------------------------------------------------------------------------
(* Locked sections *)

Of(b, states) == {j \in Jobs : runs[b][j].is \in states}
Over(b) == Of(b, {"waiting", "busy"}) = {}
Running(v) == Of(<<v, "tick">>, {"none"}) # Jobs

\* A service reads its store in memory when it is called, and as a called run
\* ends; and before it runs what was missed.
Reads(v) == v = context \/ Of(<<v, "manual">>, {"none"}) # Jobs

Eventful == services + calls + failures < MaxEvents

\* persist writes the store, or throws.
Write(st, ok) ==
  IF ok THEN disk' = st /\ UNCHANGED failures
        ELSE Eventful /\ failures' = failures + 1 /\ UNCHANGED disk
Save(v, st, ok) ==
  /\ mem' = [mem EXCEPT ![v] = IF Reads(v) \/ starting[v] = "missed" THEN st ELSE NoStore]
  /\ Write(st, ok)

\* armTimer
Arm(v, st) == timer' = [timer EXCEPT ![v] = \E j \in Jobs : Pending(st[j])]

\* ensureLoaded with forceReload replaces the jobs a tick holds.
Reloads(v) == attached' = attached \ {v}

\* The store with the outcomes of batch b, and the batch put away.
WithOutcomes(b, st) == [j \in Jobs |->
  IF j \in Of(b, Outcomes) THEN Applied(j, st[j], runs[b][j]) ELSE st[j]]
PutAway(b) == runs' = [runs EXCEPT ![b] = [j \in Jobs |-> Idle]]

\* The jobs of S are reserved under the lock.
Marked(st, S) == [j \in Jobs |-> IF j \in S THEN [st[j] EXCEPT !.running = clock] ELSE st[j]]
Reserve(b, S) ==
  runs' = [runs EXCEPT ![b] = [j \in Jobs |->
             IF j \in S THEN [Idle EXCEPT !.is = "waiting"] ELSE Idle]]
Starts(j) == [is |-> "busy", start |-> IF j \in OneShots THEN clock ELSE 0, end |-> 0]

\* History: what the store loses of a run: a marker taken away from a run in
\* flight, or a store in memory that is behind the file and written over it.
Cleared(old, new) == {j \in Jobs : old[j].running # None /\ new[j].stored /\ new[j].running = None}
Stale(v) == {j \in Jobs : mem[v][j] # disk[j]}
Loses(lost) ==
  /\ unguarded' = {j \in unguarded \cup lost : \E b \in Batches : runs'[b][j].is # "none"}
  /\ settled' = settled \ lost

-----------------------------------------------------------------------------
(* start *)

\* The first section of the start of v is queued as it is built: the stale
\* running markers are cleared.
StartClear(v, ok) ==
  LET st == [j \in Jobs |-> [disk[j] EXCEPT !.running = None]] IN
  /\ starting' = [starting EXCEPT ![v] = IF ok THEN "missed" ELSE "none"]
  /\ interrupted' = [interrupted EXCEPT ![v] = IF ok THEN Cleared(disk, st) ELSE {}]
  /\ mem' = [mem EXCEPT ![v] = IF ok \/ v = context' THEN st ELSE NoStore]
  /\ Write(st, ok)
  /\ UNCHANGED <<clock, runs, attached, calls>>
  /\ Loses(IF ok THEN Cleared(disk, st) ELSE {})

\* runMissedJobs reserves what was missed, save what was interrupted.
StartMissed(v, ok) ==
  LET missed == {j \in Jobs \ interrupted[v] : Missed(j, mem[v][j])}
      none == missed = {}
  IN
  /\ starting[v] = "missed"
  /\ none => ok
  /\ starting' = [starting EXCEPT ![v] = CASE none -> "last"
                                           [] ~none /\ ok -> "executing"
                                           [] ~none /\ ~ok -> "none"]
  /\ interrupted' = [interrupted EXCEPT ![v] = {}]
  /\ IF none THEN /\ mem' = [mem EXCEPT ![v] = IF Reads(v) THEN @ ELSE NoStore]
                  /\ UNCHANGED <<disk, failures, runs>>
             ELSE /\ mem' = [mem EXCEPT ![v] = IF Reads(v) THEN Marked(@, missed) ELSE NoStore]
                  /\ Write(Marked(mem[v], missed), ok)
                  /\ Reserve(<<v, "startup">>, IF ok THEN missed ELSE {})
  /\ UNCHANGED <<clock, timer, attached, gatewayVars, calls>>
  /\ Loses(IF ~none /\ ok THEN Stale(v) ELSE {})

\* Its outcomes are applied together.
StartApply(v, ok) ==
  LET b == <<v, "startup">>
      st == Maintained(WithOutcomes(b, disk))
  IN
  /\ starting[v] = "executing"
  /\ Over(b)
  /\ starting' = [starting EXCEPT ![v] = IF ok THEN "last" ELSE "none"]
  /\ Save(v, st, ok)
  /\ Reloads(v)
  /\ PutAway(b)
  /\ UNCHANGED <<clock, timer, interrupted, gatewayVars, calls>>
  /\ Loses(IF ok THEN Cleared(disk, st) \ Of(b, Outcomes) ELSE {})

\* All next runs are recomputed and the timer is armed.
StartLast(v, ok) ==
  LET st == Recomputed(disk) IN
  /\ starting[v] = "last"
  /\ starting' = [starting EXCEPT ![v] = IF ok THEN "started" ELSE "none"]
  /\ Save(v, st, ok)
  /\ Reloads(v)
  /\ IF ok THEN Arm(v, st) ELSE UNCHANGED timer
  /\ UNCHANGED <<clock, interrupted, gatewayVars, runs, calls>>
  /\ Loses(IF ok THEN Cleared(disk, st) ELSE {})

-----------------------------------------------------------------------------
(* onTimer *)

\* A tick begins: the due jobs are reserved, and the timer stays armed while it
\* runs; if there are none, the store is maintained and the tick ends.
BeginTick(v, ok) ==
  LET due == {j \in Jobs : Runnable(disk[j])}
      st == IF due = {} THEN Maintained(disk) ELSE Marked(disk, due)
  IN
  /\ st = disk => ok
  /\ Save(v, st, ok)
  /\ Reserve(<<v, "tick">>, IF ok THEN due ELSE {})
  /\ attached' = (attached \ {v}) \cup {w \in {v} : v = context /\ due # {} /\ ok}
  /\ IF due # {} /\ ok THEN UNCHANGED timer ELSE Arm(v, st)
  /\ Loses(IF ok THEN Cleared(disk, st) ELSE {})

\* Mutant of TimerFires: a timer that finds a tick running is not armed again.
TimerFiresOnce(v, ok) ==
  /\ timer[v]
  /\ \/ /\ Running(v) /\ ok
        /\ timer' = [timer EXCEPT ![v] = FALSE]
        /\ UNCHANGED <<storeVars, runs, attached, historyVars>>
     \/ ~Running(v) /\ BeginTick(v, ok)
  /\ UNCHANGED <<clock, starting, interrupted, gatewayVars, calls>>

\* A timer that finds a tick running is armed again at once.
TimerFires(v, ok) ==
  /\ timer[v]
  /\ \/ Running(v) /\ ok /\ UNCHANGED <<storeVars, timer, runs, attached, historyVars>>
     \/ ~Running(v) /\ BeginTick(v, ok)
  /\ UNCHANGED <<clock, starting, interrupted, gatewayVars, calls>>

\* All runs are over: the outcomes are applied to the store as it is now, and
\* the timer is armed.
TickApply(v, ok) ==
  LET b == <<v, "tick">>
      st == Maintained(WithOutcomes(b, disk))
  IN
  /\ Running(v)
  /\ Over(b)
  /\ Save(v, st, ok)
  /\ Reloads(v)
  /\ PutAway(b)
  /\ Arm(v, st)
  /\ UNCHANGED <<clock, starting, interrupted, gatewayVars, calls>>
  /\ Loses(IF ok THEN Cleared(disk, st) \ Of(b, Outcomes) ELSE {})

-----------------------------------------------------------------------------
(* Executions *)

\* A worker takes the next job of a batch; a tick stamps the job it holds.
BeginRun(b, j) ==
  LET limit == IF b[2] = "startup" THEN 1 ELSE MaxConcurrent IN
  /\ runs[b][j].is = "waiting"
  /\ Cardinality(Of(b, {"busy"})) < limit
  /\ runs' = [runs EXCEPT ![b][j] = Starts(j)]
  /\ mem' = IF b[2] = "tick" /\ b[1] \in attached /\ mem[b[1]][j].stored
            THEN [mem EXCEPT ![b[1]][j].running = clock] ELSE mem
  /\ UNCHANGED <<clock, disk, failures, gatewayVars, serviceVars, calls, historyVars>>

\* The execution ends, fails or times out.  A recurring job knows errors only
\* by their backoff, which shows if it is longer than a slot.
EndRun(b, j, outcome) ==
  /\ runs[b][j].is = "busy"
  /\ j \in OneShots \/ outcome = "ok" \/ (outcome = "transient" /\ Backoff > 1)
  /\ runs' = [runs EXCEPT ![b][j] = [@ EXCEPT !.is = outcome, !.end = clock]]
  /\ settled' = IF j \in OneShots \ unguarded /\ outcome \in {"ok", "skipped"}
                THEN settled \cup {j} ELSE settled
  /\ UNCHANGED <<clock, storeVars, gatewayVars, serviceVars, calls, unguarded>>

-----------------------------------------------------------------------------
(* Calls.  They reach the service of the request context, which has loaded  *)
(* the store: the first section of its start was queued before them.        *)

Called(v) ==
  /\ context = v
  /\ Eventful
  /\ calls' = calls + 1

\* A job takes a new id: nothing of an earlier one is left.
Add(v, j, at, ok) ==
  LET job == [Absent EXCEPT !.stored = TRUE, !.enabled = TRUE, !.at = at]
      st == Recomputed([mem[v] EXCEPT ![j] = [job EXCEPT !.next = NextRun(j, job, clock)]])
  IN
  /\ Called(v)
  /\ disk[j] = Absent
  /\ \A w \in Services : mem[w][j] = Absent
  /\ \A b \in Batches : runs[b][j] = Idle
  /\ at # 0 => j \in OneShots
  /\ Save(v, st, ok)
  /\ IF ok THEN Arm(v, st) ELSE UNCHANGED timer
  /\ UNCHANGED <<clock, starting, interrupted, attached, gatewayVars, runs>>
  /\ Loses({j} \cup IF ok THEN Stale(v) \cup Cleared(mem[v], st) ELSE {})

\* applyJobPatch with what update makes of the next run.  Patches of neither
\* the schedule nor enabled are left out.
Patched(j, r, patch, at) ==
  LET job == CASE patch = "enable" -> [r EXCEPT !.enabled = TRUE]
               [] patch = "disable" -> [r EXCEPT !.enabled = FALSE]
               [] patch = "schedule" -> [r EXCEPT !.at = at]
  IN
  IF job.enabled THEN [job EXCEPT !.next = NextRun(j, job, clock)]
                 ELSE [job EXCEPT !.next = None, !.running = None]

Update(v, j, patch, at, ok) ==
  LET st == [mem[v] EXCEPT ![j] = Patched(j, @, patch, at)] IN
  /\ Called(v)
  /\ mem[v][j].stored
  /\ patch = "schedule" => j \in OneShots
  /\ at # 0 => patch = "schedule"
  /\ Save(v, st, ok)
  /\ IF ok THEN Arm(v, st) ELSE UNCHANGED timer
  /\ UNCHANGED <<clock, starting, interrupted, attached, gatewayVars, runs>>
  /\ Loses({j} \cup IF ok THEN Stale(v) \cup Cleared(mem[v], st) ELSE {})

Delete(v, j, ok) ==
  LET st == [mem[v] EXCEPT ![j] = Absent] IN
  /\ Called(v)
  /\ mem[v][j].stored
  /\ Save(v, st, ok)
  /\ IF ok THEN Arm(v, st) ELSE UNCHANGED timer
  /\ UNCHANGED <<clock, starting, interrupted, attached, gatewayVars, runs>>
  /\ Loses(IF ok THEN Stale(v) ELSE {})

\* list and status maintain the store they read; they do not arm the timer.
List(v, ok) ==
  LET st == Maintained(mem[v]) IN
  /\ Called(v)
  /\ st # mem[v]
  /\ Save(v, st, ok)
  /\ UNCHANGED <<clock, gatewayVars, serviceVars, runs>>
  /\ Loses(IF ok THEN Stale(v) \cup Cleared(mem[v], st) ELSE {})

\* run reserves the job, unless it is reserved already or, without force, not
\* due.
Run(v, j, force, ok) ==
  LET kept == Maintained(mem[v])
      b == <<v, "manual">>
      ready == kept[j].running = None /\ (force \/ Runnable(kept[j]))
  IN
  /\ Called(v)
  /\ mem[v][j].stored
  /\ Of(b, {"none"}) = Jobs      \* bound: one call of run at a time
  /\ \/ /\ ready
        /\ Save(v, Marked(kept, {j}), ok)
        /\ runs' = IF ok THEN [runs EXCEPT ![b][j] = Starts(j)] ELSE runs
        /\ Loses((IF force THEN {j} ELSE {})
                   \cup IF ok THEN Stale(v) \cup Cleared(mem[v], kept) ELSE {})
     \/ /\ ~ready /\ ok
        /\ mem' = [mem EXCEPT ![v] = kept]
        /\ UNCHANGED <<disk, failures, runs, historyVars>>
  /\ UNCHANGED <<clock, gatewayVars, serviceVars>>

\* Its outcome is applied to the job in memory, which is then merged into the
\* store as the file has it.
RunApply(v, j, ok) ==
  LET b == <<v, "manual">>
      snapshot == Applied(j, mem[v][j], runs[b][j])
      merged == IF snapshot = Absent THEN Absent
                ELSE IF disk[j].stored THEN [snapshot EXCEPT !.at = disk[j].at]
                ELSE disk[j]
      st == Maintained([disk EXCEPT ![j] = merged])
  IN
  /\ runs[b][j].is \in Outcomes
  /\ PutAway(b)
  /\ \/ /\ mem[v][j].stored
        /\ mem' = [mem EXCEPT ![v] = IF v = context \/ starting[v] = "missed" THEN st ELSE NoStore]
        /\ Write(st, ok)
        /\ Reloads(v)
        /\ IF ok THEN Arm(v, st) ELSE UNCHANGED timer
        /\ Loses(IF ok THEN (Cleared(disk, st) \ {j}) \cup (Stale(v) \cap {j}) ELSE {})
     \/ /\ ~mem[v][j].stored /\ ok
        /\ mem' = [mem EXCEPT ![v] = IF v = context \/ starting[v] = "missed" THEN @ ELSE NoStore]
        /\ UNCHANGED <<disk, failures, timer, attached>>
        /\ Loses({})
  /\ UNCHANGED <<clock, starting, interrupted, gatewayVars, calls>>

-----------------------------------------------------------------------------
(* The gateway around it *)

\* A gateway server starts, in a new process or after a restart in this one.
Boot(ok) ==
  /\ context = 0
  /\ services < MaxServices /\ Eventful
  /\ services' = services + 1
  /\ context' = services + 1
  /\ current' = services + 1
  /\ StartClear(services + 1, ok)
  /\ UNCHANGED timer

\* applyHotReload stops a service, which lets go of its timer alone, and builds
\* the next.  The request context keeps the first.
HotReload(ok) ==
  /\ context # 0
  /\ services < MaxServices /\ Eventful
  /\ services' = services + 1
  /\ timer' = [timer EXCEPT ![current] = FALSE]
  /\ current' = services + 1
  /\ UNCHANGED context
  /\ StartClear(services + 1, ok)

\* createGatewayCloseHandler, which knows the first service too.
Close ==
  /\ context # 0
  /\ timer' = [timer EXCEPT ![context] = FALSE]
  /\ context' = 0
  /\ current' = 0
  /\ mem' = [mem EXCEPT ![context] =
               IF starting[context] = "missed" \/ Of(<<context, "manual">>, {"none"}) # Jobs
               THEN @ ELSE NoStore]
  /\ UNCHANGED <<clock, disk, failures, starting, interrupted, attached, services, runs, calls,
                 historyVars>>

\* The process is gone; the file stays.
Crash ==
  /\ services \in 1..MaxServices - 1     \* bound: another one may start
  /\ mem' = [v \in Services |-> NoStore]
  /\ timer' = [v \in Services |-> FALSE]
  /\ starting' = [v \in Services |-> "none"]
  /\ interrupted' = [v \in Services |-> {}]
  /\ runs' = [b \in Batches |-> [j \in Jobs |-> Idle]]
  /\ attached' = {}
  /\ context' = 0
  /\ current' = 0
  /\ unguarded' = {}
  /\ UNCHANGED <<clock, disk, services, calls, failures, settled>>

Tock ==
  /\ clock < MaxClock
  /\ clock' = clock + 1
  /\ UNCHANGED <<storeVars, gatewayVars, serviceVars, runs, calls, historyVars>>

-----------------------------------------------------------------------------

\* An earlier gateway may have left a job behind.
Init ==
  /\ clock = 0
  /\ \E left \in SUBSET Jobs :
       /\ Cardinality(left) <= 1     \* bound
       /\ disk = [j \in Jobs |-> IF j \in left THEN [Absent EXCEPT !.stored = TRUE,
                                                       !.enabled = TRUE, !.next = 0]
                                               ELSE Absent]
  /\ mem = [v \in Services |-> NoStore]
  /\ timer = [v \in Services |-> FALSE]
  /\ starting = [v \in Services |-> "none"]
  /\ interrupted = [v \in Services |-> {}]
  /\ runs = [b \in Batches |-> [j \in Jobs |-> Idle]]
  /\ attached = {}
  /\ context = 0 /\ current = 0
  /\ services = 0 /\ calls = 0 /\ failures = 0
  /\ unguarded = {}
  /\ settled = {}

Next ==
  \/ \E v \in Services, ok \in BOOLEAN :
       StartMissed(v, ok) \/ StartApply(v, ok) \/ StartLast(v, ok)
         \/ TimerFires(v, ok) \/ TickApply(v, ok) \/ List(v, ok)
  \/ \E b \in Batches, j \in Jobs :
       BeginRun(b, j) \/ \E outcome \in Outcomes : EndRun(b, j, outcome)
  \/ \E v \in Services, j \in Jobs, at \in Clock, ok \in BOOLEAN :
       \/ Add(v, j, at, ok)
       \/ \E patch \in {"enable", "disable", "schedule"} : Update(v, j, patch, at, ok)
  \/ \E v \in Services, j \in Jobs, ok \in BOOLEAN :
       Delete(v, j, ok) \/ RunApply(v, j, ok) \/ \E force \in BOOLEAN : Run(v, j, force, ok)
  \/ \E ok \in BOOLEAN : Boot(ok) \/ HotReload(ok)
  \/ Close \/ Crash \/ Tock

Spec == Init /\ [][Next]_vars

-----------------------------------------------------------------------------
(* Properties *)

\* The state has its types, and two runs of a job are never in flight at once,
\* unless its marker was taken from a run by a start, a call that disables it
\* or the two hours' limit, or was lost to a store in memory behind the file.
NoOverlap ==
  /\ \A j \in Jobs : disk[j].next \in Nat \cup {None} /\ disk[j].running \in Clock \cup {None}
  /\ \A j \in Jobs \ unguarded, b \in Batches :
       runs[b][j].is \in {"waiting", "busy"}
         => \A c \in Batches \ {b} : runs[c][j].is \notin {"waiting", "busy"}

\* The gateway is started and the file holds an enabled job with a next run,
\* but no service has a timer or will arm one.
Silent ==
  /\ failures = 0
  /\ current # 0 /\ starting[current] = "started"
  /\ \E j \in Jobs : Pending(disk[j])
  /\ \A v \in Services : ~timer[v] /\ starting[v] \notin {"missed", "executing", "last"}

\* As long as every save succeeds, no interleaving of ticks, starts, calls,
\* reloads and restarts lets the scheduler fall silent: a step that takes the
\* last timer leaves nothing to do, and one that leaves something to do arms a
\* timer.  There is one way: after a hot reload list and run still reach the
\* service that was replaced; they save its store, in which a job may have a
\* next run that the file no longer has, and arm no timer.
SchedulerAlive ==
  [][Silent' => \/ Silent
                \/ /\ context # current
                   /\ \/ List(context, TRUE)
                      \/ \E j \in Jobs, force \in BOOLEAN : Run(context, j, force, TRUE)]_vars

\* A one-shot that ran to ok or skipped is not run again by a tick or a start,
\* unless a client changed or forced it, or what it lost is its marker.
OneShotOnce ==
  [][\A j \in settled', b \in Batches :
       b[2] # "manual" /\ runs[b][j].is = "none" => runs'[b][j].is = "none"]_vars

\* A due job is passed over
Skips(j) ==
  /\ Pending(disk[j]) /\ disk[j].next <= clock
  /\ ~Pending(disk'[j]) \/ disk'[j].next > disk[j].next

\* The next run of a due job moves on only when the outcome of a run of it is
\* applied, a client changes or deletes it, and when everything is recomputed,
\* as a start ends or a job is added; unless what an earlier call changed in
\* memory without saving it, or a store in memory behind the file, is written
\* over the file.
SlotsNotSkipped ==
  [][\A j \in Jobs : Skips(j) =>
       \/ \E b \in Batches : runs[b][j].is \in Outcomes /\ runs'[b][j].is = "none"
       \/ \E v \in Services :
            \/ starting[v] = "last" /\ starting'[v] = "started"
            \/ mem[v][j] # disk[j] /\ mem[v][j].next = disk'[j].next
            \/ Delete(v, j, TRUE)
            \/ \E at \in Clock : \/ \E k \in Jobs : Add(v, k, at, TRUE)
                                 \/ \E patch \in {"enable", "disable", "schedule"} :
                                      Update(v, j, patch, at, TRUE)]_vars
=============================================================================
