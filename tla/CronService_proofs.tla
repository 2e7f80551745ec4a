------------------------- MODULE CronService_proofs -------------------------
(***************************************************************************)
(* Proofs about the cron scheduler, for any jobs, services, clock, limits  *)
(* and any number of reloads, crashes, calls and failed saves.  The        *)
(* invariant Sound adds to NoOverlap what makes it inductive: a run in     *)
(* flight of a guarded job has its marker in the store file (Guarded), and *)
(* what the file says of a one-shot that is done keeps it from being       *)
(* reserved again (Settled).  The invariant Steady adds that every kept    *)
(* store is maintained (Orderly), and that a next run in the memory of the *)
(* service that is called has its timer armed, unless a hot reload has     *)
(* replaced it (Armed).                                                    *)
(***************************************************************************)
EXTENDS CronService, TLAPS

JobType == [stored : BOOLEAN, enabled : BOOLEAN, at : Nat, next : Nat \cup {None},
            running : Clock \cup {None}, last : {"none", "ok", "skipped", "error"},
            lastRun : Nat, errors : Nat]
RunType == [is : {"none", "waiting", "busy"} \cup Outcomes, start : Nat, end : Nat]

CronTypeOK ==
  /\ clock \in Clock
  /\ services \in Nat
  /\ disk \in [Jobs -> JobType]
  /\ mem \in [Services -> [Jobs -> JobType]]
  /\ runs \in [Batches -> [Jobs -> RunType]]

\* A job that a tick or a start may take for itself.
Free(r) == r.stored /\ r.running = None

HasRun(b, j) == runs[b][j].is # "none"

Guarded(j) ==
  /\ \A b, c \in Batches : HasRun(b, j) /\ HasRun(c, j) => b = c
  /\ \A b \in Batches : HasRun(b, j) => ~Free(disk[j])

Guards == \A j \in Jobs \ unguarded : Guarded(j)

Settled(j) ==
  /\ j \in OneShots
  /\ j \notin unguarded
  /\ \A b \in Batches : HasRun(b, j) => runs[b][j].is \in {"ok", "skipped"}
  /\ Free(disk[j]) => ~disk[j].enabled

Sound ==
  /\ CronTypeOK
  /\ Guards
  /\ \A j \in settled : Settled(j)

-----------------------------------------------------------------------------
(* Jobs of the store *)

LEMMA AbsentType == Absent \in JobType
BY DEF Absent, JobType

LEMMA IdleType == Idle \in RunType
BY DEF Idle, RunType

LEMMA NextRunType ==
  ASSUME NEW j \in Jobs, NEW r \in JobType, NEW now \in Nat
  PROVE  NextRun(j, r, now) \in Nat \cup {None}
BY DEF NextRun, JobType

LEMMA NormalisedKeeps ==
  ASSUME NEW r \in JobType, NEW now \in Nat
  PROVE  LET s == Normalised(r, now) IN
         /\ s \in JobType
         /\ s.stored = r.stored /\ s.enabled = r.enabled
         /\ s.running \in {r.running, None}
BY DEF Normalised, JobType

\* What maintenance and recomputation do to a store.
Upkeep(old, new) ==
  /\ new \in [Jobs -> JobType]
  /\ \A j \in Jobs :
       /\ new[j].stored = old[j].stored
       /\ new[j].enabled = old[j].enabled
       /\ new[j].running \in {old[j].running, None}

LEMMA ClockFacts == Clock \subseteq Nat
BY BoundsAssumption DEF Clock

LEMMA MaintainedKeeps ==
  ASSUME NEW st \in [Jobs -> JobType], clock \in Clock
  PROVE  Upkeep(st, Maintained(st))
<1> SUFFICES ASSUME NEW j \in Jobs
             PROVE  LET s == Maintained(st)[j] IN
                    /\ s \in JobType
                    /\ s.stored = st[j].stored
                    /\ s.enabled = st[j].enabled
                    /\ s.running \in {st[j].running, None}
  BY DEF Upkeep, Maintained
<1> DEFINE r == Normalised(st[j], clock)
<1>1. /\ r \in JobType
      /\ r.stored = st[j].stored /\ r.enabled = st[j].enabled
      /\ r.running \in {st[j].running, None}
  BY ClockFacts, NormalisedKeeps
<1>2. NextRun(j, r, clock) \in Nat \cup {None}
  BY <1>1, ClockFacts, NextRunType
<1> HIDE DEF r
<1>3. Maintained(st)[j] = IF r.enabled /\ r.next = None
                          THEN [r EXCEPT !.next = NextRun(j, r, clock)] ELSE r
  BY DEF Maintained, r
<1>4. QED
  BY <1>1, <1>2, <1>3 DEF JobType

LEMMA RecomputedKeeps ==
  ASSUME NEW st \in [Jobs -> JobType], clock \in Clock
  PROVE  Upkeep(st, Recomputed(st))
<1> SUFFICES ASSUME NEW j \in Jobs
             PROVE  LET s == Recomputed(st)[j] IN
                    /\ s \in JobType
                    /\ s.stored = st[j].stored
                    /\ s.enabled = st[j].enabled
                    /\ s.running \in {st[j].running, None}
  BY DEF Upkeep, Recomputed
<1> DEFINE r == Normalised(st[j], clock)
<1>1. /\ r \in JobType
      /\ r.stored = st[j].stored /\ r.enabled = st[j].enabled
      /\ r.running \in {st[j].running, None}
  BY ClockFacts, NormalisedKeeps
<1>2. NextRun(j, r, clock) \in Nat \cup {None}
  BY <1>1, ClockFacts, NextRunType
<1> HIDE DEF r
<1>3. Recomputed(st)[j] = IF r.enabled /\ (r.next = None \/ clock >= r.next)
                          THEN [r EXCEPT !.next = NextRun(j, r, clock)] ELSE r
  BY DEF Recomputed, r
<1>4. QED
  BY <1>1, <1>2, <1>3 DEF JobType

LEMMA AfterRunType ==
  ASSUME NEW j \in Jobs, NEW r \in JobType, NEW run \in RunType
  PROVE  LET s == AfterRun(j, r, run) IN
         s \in JobType /\ s.stored = r.stored /\ s.enabled = r.enabled
<1> DEFINE status == IF run.is \in {"ok", "skipped"} THEN run.is ELSE "error"
           errors == CASE status # "error" -> 0
                       [] status = "error" /\ r.errors > MaxAttempts -> r.errors
                       [] status = "error" /\ r.errors <= MaxAttempts -> r.errors + 1
<1>1. status \in {"none", "ok", "skipped", "error"}
  OBVIOUS
<1>2. r.errors \in Nat /\ MaxAttempts \in Nat /\ run.start \in Nat
  BY TimesAssumption DEF JobType, RunType
<1>3. errors \in Nat
  <2> HIDE DEF status
  <2>1. r.errors > MaxAttempts \/ r.errors <= MaxAttempts
    BY <1>2
  <2>2. QED
    BY <1>2, <2>1
<1>4. AfterRun(j, r, run) =
        IF j \in OneShots
        THEN [r EXCEPT !.running = None, !.last = status, !.lastRun = run.start,
                       !.errors = errors]
        ELSE [r EXCEPT !.running = None]
  BY DEF AfterRun
<1> HIDE DEF status, errors
<1>5. QED
  BY <1>1, <1>2, <1>3, <1>4 DEF JobType

\* An outcome leaves a job a job, and a one-shot that ran to ok or skipped is
\* gone or disabled.
LEMMA AppliedType ==
  ASSUME NEW j \in Jobs, NEW r \in JobType, NEW run \in RunType
  PROVE  /\ Applied(j, r, run) \in JobType
         /\ Applied(j, r, run).stored => r.stored
         /\ j \in OneShots /\ run.is \in {"ok", "skipped"} /\ Applied(j, r, run).stored
              => ~Applied(j, r, run).enabled
<1> DEFINE after == AfterRun(j, r, run)
           natural == NextRun(j, after, run.end)
           later == run.end + Backoff
           retried == run.is = "transient" /\ after.errors <= MaxAttempts
<1>1. after \in JobType /\ after.stored = r.stored
  BY AfterRunType
<1>2. later \in Nat /\ run.end \in Nat
  BY TimesAssumption DEF RunType
<1>3. natural \in Nat \cup {None}
  BY <1>1, <1>2, NextRunType
<1>4. Applied(j, r, run) =
        IF ~r.stored THEN r
        ELSE IF j \in DeleteAfterRun /\ run.is = "ok" THEN Absent
        ELSE IF j \in OneShots
        THEN IF retried THEN [after EXCEPT !.next = later]
                        ELSE [after EXCEPT !.enabled = FALSE, !.next = None]
        ELSE IF r.enabled /\ run.is \notin {"ok", "skipped"} /\ later > natural
        THEN [after EXCEPT !.next = later]
        ELSE [after EXCEPT !.next = natural]
  BY DEF Applied
<1>5. ~Absent.stored
  BY DEF Absent
<1> HIDE DEF after, natural, later
<1>6. /\ [after EXCEPT !.next = later] \in JobType
      /\ [after EXCEPT !.next = natural] \in JobType
      /\ [after EXCEPT !.enabled = FALSE, !.next = None] \in JobType
      /\ [after EXCEPT !.next = later].stored = r.stored
      /\ [after EXCEPT !.next = natural].stored = r.stored
      /\ [after EXCEPT !.enabled = FALSE, !.next = None].stored = r.stored
      /\ [after EXCEPT !.enabled = FALSE, !.next = None].enabled = FALSE
  BY <1>1, <1>2, <1>3 DEF JobType
<1> HIDE DEF retried
<1>7. run.is \in {"ok", "skipped"} => ~retried
  BY DEF retried
<1>8. QED
  BY <1>4, <1>5, <1>6, <1>7, AbsentType

-----------------------------------------------------------------------------
(* What a step does to a job *)

\* Nothing: no run of it begins, and the file gives it up only if it had before.
Spared(j) ==
  /\ \A b \in Batches : HasRun(b, j)' => runs'[b][j].is = runs[b][j].is
  /\ Free(disk[j])' => Free(disk[j]) /\ (disk'[j].enabled => disk[j].enabled)

\* Its only run is put away.
Finished(j) ==
  /\ \A b \in Batches : ~HasRun(b, j)'
  /\ Settled(j) => (Free(disk[j])' => ~disk'[j].enabled)

\* It was free and is reserved for batch b.
Taken(b, j) ==
  /\ Free(disk[j]) /\ disk[j].enabled
  /\ ~Free(disk[j])'
  /\ \A c \in Batches \ {b} : HasRun(c, j)' => HasRun(c, j)

Honoured(j) == Spared(j) \/ Finished(j) \/ \E b \in Batches : Taken(b, j)

LEMMA HonouredGuarded ==
  ASSUME NEW j \in Jobs, Guarded(j), Honoured(j)
  PROVE  Guarded(j)'
<1>1. CASE Spared(j)
  BY <1>1 DEF Spared, Guarded, HasRun
<1>2. CASE Finished(j)
  BY <1>2 DEF Finished, Guarded, HasRun
<1>3. ASSUME NEW b \in Batches, Taken(b, j)
      PROVE  Guarded(j)'
  BY <1>3 DEF Taken, Guarded, HasRun
<1>4. QED
  BY <1>1, <1>2, <1>3 DEF Honoured

LEMMA HonouredSettled ==
  ASSUME NEW j \in Jobs, Settled(j), Honoured(j), j \notin unguarded'
  PROVE  Settled(j)'
<1>1. CASE Spared(j)
  BY <1>1 DEF Spared, Settled, HasRun
<1>2. CASE Finished(j)
  BY <1>2 DEF Finished, Settled, HasRun
<1>3. ASSUME NEW b \in Batches, Taken(b, j)
      PROVE  Settled(j)'
  BY <1>3 DEF Taken, Settled
<1>4. QED
  BY <1>1, <1>2, <1>3 DEF Honoured

\* A section keeps the invariant if it honours every job that it does not lose.
LEMMA SectionSound ==
  ASSUME Sound, CronTypeOK', NEW lost, Loses(lost),
         \A j \in Jobs \ (unguarded \cup lost) : Guarded(j) => Honoured(j)
  PROVE  Sound'
<1>1. Guards'
  <2> SUFFICES ASSUME NEW j \in Jobs, j \notin unguarded'
               PROVE  Guarded(j)'
    BY DEF Guards
  <2>1. CASE j \in unguarded \cup lost
    <3>1. \A b \in Batches : ~HasRun(b, j)'
      BY <2>1 DEF Loses, HasRun
    <3>2. QED
      BY <3>1 DEF Guarded
  <2>2. CASE j \notin unguarded \cup lost
    <3>1. Guarded(j)
      BY <2>2 DEF Sound, Guards
    <3>2. QED
      BY <2>2, <3>1, HonouredGuarded
  <2>3. QED
    BY <2>1, <2>2
<1>2. ASSUME NEW j \in settled'
      PROVE  Settled(j)'
  <2>1. j \in settled /\ j \notin lost
    BY DEF Loses
  <2>2. Settled(j) /\ j \in Jobs /\ j \notin unguarded
    BY <2>1, JobsAssumption DEF Sound, Settled
  <2>3. Guarded(j)
    BY <2>2 DEF Sound, Guards
  <2>4. j \notin unguarded'
    BY <2>1, <2>2 DEF Loses
  <2>5. QED
    BY <2>1, <2>2, <2>3, <2>4, HonouredSettled
<1>3. QED
  BY <1>1, <1>2 DEF Sound

\* A step that touches neither the file nor the runs.
LEMMA QuietSound ==
  ASSUME Sound, CronTypeOK', UNCHANGED <<disk, runs, unguarded, settled>>
  PROVE  Sound'
BY DEF Sound, Guards, Guarded, Settled, HasRun

-----------------------------------------------------------------------------
(* Stores and batches *)

LEMMA NoStoreType == NoStore \in [Jobs -> JobType]
BY AbsentType DEF NoStore

LEMMA WriteDoes ==
  ASSUME CronTypeOK, NEW st \in [Jobs -> JobType], NEW ok \in BOOLEAN, Write(st, ok)
  PROVE  /\ disk' = IF ok THEN st ELSE disk
         /\ disk' \in [Jobs -> JobType]
BY DEF Write, CronTypeOK

LEMMA SaveDoes ==
  ASSUME CronTypeOK, NEW v \in Services, NEW st \in [Jobs -> JobType],
         NEW ok \in BOOLEAN, Save(v, st, ok)
  PROVE  /\ disk' = IF ok THEN st ELSE disk
         /\ disk' \in [Jobs -> JobType]
         /\ mem' \in [Services -> [Jobs -> JobType]]
<1>1. mem' = [mem EXCEPT ![v] = IF Reads(v) \/ starting[v] = "missed" THEN st ELSE NoStore]
  BY DEF Save
<1>2. (IF Reads(v) \/ starting[v] = "missed" THEN st ELSE NoStore) \in [Jobs -> JobType]
  BY NoStoreType
<1>3. mem' \in [Services -> [Jobs -> JobType]]
  BY <1>1, <1>2 DEF CronTypeOK
<1>4. QED
  BY <1>3, WriteDoes DEF Save

LEMMA MarkedType ==
  ASSUME clock \in Clock, NEW st \in [Jobs -> JobType], NEW S
  PROVE  /\ Marked(st, S) \in [Jobs -> JobType]
         /\ \A j \in Jobs : j \notin S => Marked(st, S)[j] = st[j]
         /\ \A j \in S \cap Jobs : ~Free(Marked(st, S)[j])
<1>1. ASSUME NEW j \in Jobs
      PROVE  /\ Marked(st, S)[j] \in JobType
             /\ j \notin S => Marked(st, S)[j] = st[j]
             /\ j \in S => Marked(st, S)[j].running = clock
  BY DEF Marked, JobType
<1>2. clock # None
  BY NoneAssumption, ClockFacts
<1>3. Marked(st, S) = [j \in Jobs |-> Marked(st, S)[j]]
  BY DEF Marked
<1>4. QED
  BY <1>1, <1>2, <1>3 DEF Free

LEMMA ReserveDoes ==
  ASSUME CronTypeOK, NEW b \in Batches, NEW S, Reserve(b, S)
  PROVE  /\ runs' \in [Batches -> [Jobs -> RunType]]
         /\ \A c \in Batches, j \in Jobs : HasRun(c, j)' =>
              \/ c = b /\ j \in S
              \/ runs'[c][j].is = runs[c][j].is
<1> DEFINE f == [j \in Jobs |-> IF j \in S THEN [Idle EXCEPT !.is = "waiting"] ELSE Idle]
<1>1. /\ [Idle EXCEPT !.is = "waiting"] \in RunType
      /\ Idle.is = "none"
  BY DEF Idle, RunType
<1>2. f \in [Jobs -> RunType]
  BY <1>1, IdleType
<1>3. \A j \in Jobs : j \notin S => f[j].is = "none"
  BY <1>1
<1> HIDE DEF f
<1>4. runs' = [runs EXCEPT ![b] = f]
  BY DEF Reserve, f
<1>5. QED
  BY <1>2, <1>3, <1>4 DEF CronTypeOK, HasRun

LEMMA PutAwayDoes ==
  ASSUME CronTypeOK, NEW b \in Batches, PutAway(b)
  PROVE  /\ runs' \in [Batches -> [Jobs -> RunType]]
         /\ \A j \in Jobs : ~HasRun(b, j)'
         /\ \A c \in Batches \ {b} : runs'[c] = runs[c]
<1>1. Idle.is = "none"
  BY DEF Idle
<1>2. [j \in Jobs |-> Idle] \in [Jobs -> RunType]
  BY IdleType
<1>3. runs' = [runs EXCEPT ![b] = [j \in Jobs |-> Idle]]
  BY DEF PutAway
<1>4. QED
  BY <1>1, <1>2, <1>3 DEF CronTypeOK, HasRun

\* What upkeep of a store clears no marker of stays taken.
LEMMA UpkeepSpares ==
  ASSUME NEW old \in [Jobs -> JobType], NEW new, Upkeep(old, new),
         NEW j \in Jobs, j \notin Cleared(old, new), Free(new[j])
  PROVE  Free(old[j]) /\ new[j].enabled = old[j].enabled
BY DEF Upkeep, Cleared, Free

LEMMA OutcomesType ==
  ASSUME CronTypeOK, NEW b \in Batches, NEW st \in [Jobs -> JobType]
  PROVE  /\ WithOutcomes(b, st) \in [Jobs -> JobType]
         /\ \A j \in Jobs : WithOutcomes(b, st)[j] =
              IF runs[b][j].is \in Outcomes THEN Applied(j, st[j], runs[b][j]) ELSE st[j]
<1>1. \A j \in Jobs : j \in Of(b, Outcomes) <=> runs[b][j].is \in Outcomes
  BY DEF Of
<1>2. ASSUME NEW j \in Jobs
      PROVE  (IF runs[b][j].is \in Outcomes THEN Applied(j, st[j], runs[b][j]) ELSE st[j])
               \in JobType
  <2>1. runs[b][j] \in RunType
    BY DEF CronTypeOK
  <2>2. QED
    BY <2>1, AppliedType
<1>3. QED
  BY <1>1, <1>2 DEF WithOutcomes

\* The outcomes of a batch that is over are applied to the file and saved, or
\* the save fails: its jobs are finished and the others spared.
LEMMA OutcomesHonoured ==
  ASSUME Sound, NEW b \in Batches, Over(b), PutAway(b), NEW ok \in BOOLEAN,
         NEW st, st = Maintained(WithOutcomes(b, disk)),
         disk' = IF ok THEN st ELSE disk,
         NEW j \in Jobs, Guarded(j),
         ok => j \notin Cleared(disk, st) \ Of(b, Outcomes)
  PROVE  Honoured(j)
<1> DEFINE W == WithOutcomes(b, disk)
<1>0. CronTypeOK
  BY DEF Sound
<1>1. disk \in [Jobs -> JobType] /\ clock \in Clock /\ runs[b][j] \in RunType
  BY <1>0 DEF CronTypeOK
<1>2. W \in [Jobs -> JobType] /\ W[j] = IF runs[b][j].is \in Outcomes
                                        THEN Applied(j, disk[j], runs[b][j]) ELSE disk[j]
  BY <1>0, <1>1, OutcomesType
<1>3. Upkeep(W, st)
  BY <1>1, <1>2, MaintainedKeeps
<1> HIDE DEF W
<1>4. /\ \A i \in Jobs : ~HasRun(b, i)'
      /\ \A c \in Batches \ {b} : runs'[c] = runs[c]
  BY <1>0, PutAwayDoes
<1>5. CASE runs[b][j].is \in Outcomes
  <2>1. HasRun(b, j)
    BY <1>5 DEF Outcomes, HasRun
  <2>2. \A c \in Batches : ~HasRun(c, j)'
    BY <1>4, <2>1 DEF Guarded, HasRun
  <2>3. ASSUME Settled(j), Free(disk[j])'
        PROVE  ~disk'[j].enabled
    <3>1. CASE ~ok
      BY <2>3, <3>1 DEF Settled, Free
    <3>2. CASE ok
      <4>1. runs[b][j].is \in {"ok", "skipped"} /\ j \in OneShots
        BY <2>1, <2>3 DEF Settled
      <4>2. W[j].stored => ~W[j].enabled
        BY <1>1, <1>2, <1>5, <4>1, AppliedType
      <4>3. QED
        BY <1>3, <2>3, <3>2, <4>2 DEF Upkeep, Free
    <3>3. QED
      BY <3>1, <3>2
  <2>4. QED
    BY <2>2, <2>3 DEF Finished, Honoured
<1>6. CASE runs[b][j].is \notin Outcomes
  <2>1. ~HasRun(b, j)
    BY <1>1, <1>6 DEF Over, Of, RunType, HasRun
  <2>2. \A c \in Batches : HasRun(c, j)' => runs'[c][j].is = runs[c][j].is
    BY <1>4
  <2>3. ASSUME Free(disk[j])'
        PROVE  Free(disk[j]) /\ (disk'[j].enabled => disk[j].enabled)
    <3>1. CASE ~ok
      BY <2>3, <3>1 DEF Free
    <3>2. CASE ok
      <4>1. j \notin Cleared(disk, st)
        BY <1>6, <3>2 DEF Of
      <4>2. QED
        BY <1>2, <1>3, <1>6, <2>3, <3>2, <4>1 DEF Upkeep, Cleared, Free
    <3>3. QED
      BY <3>1, <3>2
  <2>4. QED
    BY <2>2, <2>3 DEF Spared, Honoured
<1>7. QED
  BY <1>5, <1>6

-----------------------------------------------------------------------------
(* start *)

LEMMA StartClearSound ==
  ASSUME Sound, NEW v \in Services, NEW ok \in BOOLEAN, StartClear(v, ok), services' \in Nat
  PROVE  Sound'
<1> DEFINE st == [j \in Jobs |-> [disk[j] EXCEPT !.running = None]]
           lost == IF ok THEN Cleared(disk, st) ELSE {}
<1>0. CronTypeOK
  BY DEF Sound
<1>1. /\ st \in [Jobs -> JobType]
      /\ \A j \in Jobs : st[j].stored = disk[j].stored /\ st[j].enabled = disk[j].enabled
                           /\ st[j].running = None
  BY <1>0 DEF CronTypeOK, JobType
<1>2. /\ Write(st, ok) /\ Loses(lost)
      /\ mem' = [mem EXCEPT ![v] = IF ok \/ v = context' THEN st ELSE NoStore]
      /\ UNCHANGED <<clock, runs>>
  BY DEF StartClear
<1> HIDE DEF st
<1>3. disk' = (IF ok THEN st ELSE disk) /\ disk' \in [Jobs -> JobType]
  BY <1>0, <1>1, <1>2, WriteDoes
<1>4. CronTypeOK'
  BY <1>0, <1>1, <1>2, <1>3, NoStoreType DEF CronTypeOK
<1>5. ASSUME NEW j \in Jobs \ (unguarded \cup lost), Guarded(j)
      PROVE  Honoured(j)
  BY <1>1, <1>2, <1>3, <1>5 DEF Honoured, Spared, Cleared, Free, HasRun
<1> HIDE DEF lost
<1>6. QED
  BY <1>2, <1>4, <1>5, SectionSound

LEMMA BootSound ==
  ASSUME Sound, NEW ok \in BOOLEAN, Boot(ok) \/ HotReload(ok), services \in Nat
  PROVE  Sound'
<1>1. /\ services + 1 \in Services
      /\ services' \in Nat
      /\ StartClear(services + 1, ok)
  BY BoundsAssumption DEF Boot, HotReload, Services
<1>2. QED
  BY <1>1, StartClearSound

LEMMA StartMissedSound ==
  ASSUME Sound, NEW v \in Services, NEW ok \in BOOLEAN, StartMissed(v, ok)
  PROVE  Sound'
<1> DEFINE missed == {j \in Jobs \ interrupted[v] : Missed(j, mem[v][j])}
           b == <<v, "startup">>
           st == Marked(mem[v], missed)
           lost == IF missed # {} /\ ok THEN Stale(v) ELSE {}
<1>0. CronTypeOK /\ b \in Batches /\ mem[v] \in [Jobs -> JobType]
  BY DEF Sound, CronTypeOK, Batches
<1>1. /\ Loses(lost)
      /\ UNCHANGED <<clock, services>>
  BY DEF StartMissed, gatewayVars
<1>2. CASE missed = {}
  <2>1. /\ mem' = [mem EXCEPT ![v] = IF Reads(v) THEN @ ELSE NoStore]
        /\ UNCHANGED <<disk, runs>>
    BY <1>2 DEF StartMissed
  <2>2. CronTypeOK'
    BY <1>0, <1>1, <2>1, NoStoreType DEF CronTypeOK
  <2>3. ASSUME NEW j \in Jobs \ (unguarded \cup lost), Guarded(j)
        PROVE  Honoured(j)
    BY <2>1 DEF Honoured, Spared, Free, HasRun
  <2> HIDE DEF lost
  <2>4. QED
    BY <1>1, <2>2, <2>3, SectionSound
<1>3. CASE missed # {}
  <2>1. /\ mem' = [mem EXCEPT ![v] = IF Reads(v) THEN st ELSE NoStore]
        /\ Write(st, ok)
        /\ Reserve(b, IF ok THEN missed ELSE {})
    BY <1>3 DEF StartMissed
  <2>2. /\ st \in [Jobs -> JobType]
        /\ \A j \in Jobs : j \notin missed => st[j] = mem[v][j]
        /\ \A j \in missed \cap Jobs : ~Free(st[j])
    BY <1>0, MarkedType DEF CronTypeOK
  <2>3. \A j \in missed : Free(mem[v][j]) /\ mem[v][j].enabled
    BY DEF Missed, Runnable, Pending, Free
  <2>4. ok => lost = Stale(v)
    BY <1>3
  <2> HIDE DEF missed, st, lost
  <2>5. disk' = (IF ok THEN st ELSE disk) /\ disk' \in [Jobs -> JobType]
    BY <1>0, <2>1, <2>2, WriteDoes
  <2>6. /\ runs' \in [Batches -> [Jobs -> RunType]]
        /\ \A c \in Batches, j \in Jobs : HasRun(c, j)' =>
             \/ c = b /\ ok /\ j \in missed
             \/ runs'[c][j].is = runs[c][j].is
    BY <1>0, <2>1, ReserveDoes
  <2> HIDE DEF b
  <2>7. CronTypeOK'
    BY <1>0, <1>1, <2>1, <2>2, <2>5, <2>6, NoStoreType DEF CronTypeOK
  <2>8. ASSUME NEW j \in Jobs \ (unguarded \cup lost), Guarded(j)
        PROVE  Honoured(j)
    <3>1. CASE ok /\ j \in missed
      <4>1. mem[v][j] = disk[j]
        BY <2>4, <2>8, <3>1 DEF Stale
      <4>2. Taken(b, j)
        BY <2>2, <2>3, <2>5, <2>6, <3>1, <4>1 DEF Taken, HasRun, Free
      <4>3. QED
        BY <1>0, <4>2 DEF Honoured
    <3>2. CASE ~(ok /\ j \in missed)
      <4>1. ok => mem[v][j] = disk[j] /\ disk'[j] = mem[v][j]
        BY <2>2, <2>4, <2>5, <2>8, <3>2 DEF Stale
      <4>2. disk'[j] = disk[j]
        BY <2>5, <4>1
      <4>3. QED
        BY <2>6, <3>2, <4>2 DEF Honoured, Spared, Free
    <3>3. QED
      BY <3>1, <3>2
  <2>9. QED
    BY <1>1, <2>7, <2>8, SectionSound
<1>4. QED
  BY <1>2, <1>3

\* The sections that apply the outcomes of a start or of a tick.
LEMMA OutcomesSound ==
  ASSUME Sound, NEW v \in Services, NEW ok \in BOOLEAN, NEW b \in Batches,
         Over(b), PutAway(b), UNCHANGED <<clock, services>>,
         NEW st, st = Maintained(WithOutcomes(b, disk)),
         Save(v, st, ok),
         Loses(IF ok THEN Cleared(disk, st) \ Of(b, Outcomes) ELSE {})
  PROVE  Sound'
<1> DEFINE lost == IF ok THEN Cleared(disk, st) \ Of(b, Outcomes) ELSE {}
<1>0. CronTypeOK /\ disk \in [Jobs -> JobType] /\ clock \in Clock
  BY DEF Sound, CronTypeOK
<1>1. WithOutcomes(b, disk) \in [Jobs -> JobType]
  BY <1>0, OutcomesType
<1>2. st \in [Jobs -> JobType]
  BY <1>0, <1>1, MaintainedKeeps DEF Upkeep
<1>3. /\ disk' = IF ok THEN st ELSE disk
      /\ disk' \in [Jobs -> JobType]
      /\ mem' \in [Services -> [Jobs -> JobType]]
  BY <1>0, <1>2, SaveDoes
<1>4. runs' \in [Batches -> [Jobs -> RunType]]
  BY <1>0, PutAwayDoes
<1>5. CronTypeOK'
  BY <1>0, <1>3, <1>4 DEF CronTypeOK
<1>6. ASSUME NEW j \in Jobs \ (unguarded \cup lost), Guarded(j)
      PROVE  Honoured(j)
  BY <1>3, <1>6, OutcomesHonoured
<1> HIDE DEF lost
<1>7. QED
  BY <1>5, <1>6, SectionSound DEF lost

LEMMA StartApplySound ==
  ASSUME Sound, NEW v \in Services, NEW ok \in BOOLEAN, StartApply(v, ok)
  PROVE  Sound'
<1>1. <<v, "startup">> \in Batches
  BY DEF Batches
<1>2. QED
  BY <1>1, OutcomesSound DEF StartApply, gatewayVars

LEMMA TickApplySound ==
  ASSUME Sound, NEW v \in Services, NEW ok \in BOOLEAN, TickApply(v, ok)
  PROVE  Sound'
<1>1. <<v, "tick">> \in Batches
  BY DEF Batches
<1>2. QED
  BY <1>1, OutcomesSound DEF TickApply, gatewayVars

LEMMA StartLastSound ==
  ASSUME Sound, NEW v \in Services, NEW ok \in BOOLEAN, StartLast(v, ok)
  PROVE  Sound'
<1> DEFINE st == Recomputed(disk)
           lost == IF ok THEN Cleared(disk, st) ELSE {}
<1>0. CronTypeOK /\ disk \in [Jobs -> JobType] /\ clock \in Clock
  BY DEF Sound, CronTypeOK
<1>1. Upkeep(disk, st) /\ st \in [Jobs -> JobType]
  BY <1>0, RecomputedKeeps DEF Upkeep
<1>2. Save(v, st, ok) /\ UNCHANGED <<clock, services, runs>> /\ Loses(lost)
  BY DEF StartLast, gatewayVars
<1> HIDE DEF st
<1>3. /\ disk' = IF ok THEN st ELSE disk
      /\ disk' \in [Jobs -> JobType]
      /\ mem' \in [Services -> [Jobs -> JobType]]
  BY <1>0, <1>1, <1>2, SaveDoes
<1>4. CronTypeOK'
  BY <1>0, <1>2, <1>3 DEF CronTypeOK
<1>5. ASSUME NEW j \in Jobs \ (unguarded \cup lost), Guarded(j)
      PROVE  Honoured(j)
  <2>1. Free(disk[j])' => Free(disk[j]) /\ disk'[j].enabled = disk[j].enabled
    BY <1>0, <1>1, <1>3, <1>5, UpkeepSpares DEF Free
  <2>2. QED
    BY <1>2, <2>1 DEF Honoured, Spared, HasRun
<1> HIDE DEF lost
<1>6. QED
  BY <1>2, <1>4, <1>5, SectionSound

-----------------------------------------------------------------------------
(* onTimer and executions *)

LEMMA BeginTickSound ==
  ASSUME Sound, NEW v \in Services, NEW ok \in BOOLEAN, BeginTick(v, ok),
         UNCHANGED <<clock, services>>
  PROVE  Sound'
<1> DEFINE due == {j \in Jobs : Runnable(disk[j])}
           b == <<v, "tick">>
           st == IF due = {} THEN Maintained(disk) ELSE Marked(disk, due)
           lost == IF ok THEN Cleared(disk, st) ELSE {}
<1>0. CronTypeOK /\ b \in Batches /\ disk \in [Jobs -> JobType] /\ clock \in Clock
  BY DEF Sound, CronTypeOK, Batches
<1>1. Save(v, st, ok) /\ Reserve(b, IF ok THEN due ELSE {}) /\ Loses(lost)
  BY DEF BeginTick
<1>2. /\ st \in [Jobs -> JobType]
      /\ \A j \in Jobs : j \notin due /\ j \notin Cleared(disk, st) /\ Free(st[j])
           => Free(disk[j]) /\ st[j].enabled = disk[j].enabled
      /\ \A j \in due : ~Free(st[j])
  <2>1. CASE due = {}
    <3>1. Upkeep(disk, st)
      BY <1>0, <2>1, MaintainedKeeps
    <3> HIDE DEF st
    <3>2. st \in [Jobs -> JobType]
      BY <3>1 DEF Upkeep
    <3>3. QED
      BY <1>0, <2>1, <3>1, <3>2, UpkeepSpares
  <2>2. CASE due # {}
    BY <1>0, <2>2, MarkedType
  <2>3. QED
    BY <2>1, <2>2
<1>3. \A j \in due : Free(disk[j]) /\ disk[j].enabled
  BY DEF Runnable, Pending, Free
<1> HIDE DEF due, st
<1>4. /\ disk' = IF ok THEN st ELSE disk
      /\ disk' \in [Jobs -> JobType]
      /\ mem' \in [Services -> [Jobs -> JobType]]
  BY <1>0, <1>1, <1>2, SaveDoes
<1>5. /\ runs' \in [Batches -> [Jobs -> RunType]]
      /\ \A c \in Batches, j \in Jobs : HasRun(c, j)' =>
           \/ c = b /\ ok /\ j \in due
           \/ runs'[c][j].is = runs[c][j].is
  BY <1>0, <1>1, ReserveDoes
<1> HIDE DEF b
<1>6. CronTypeOK'
  BY <1>0, <1>4, <1>5 DEF CronTypeOK
<1>7. ASSUME NEW j \in Jobs \ (unguarded \cup lost), Guarded(j)
      PROVE  Honoured(j)
  <2>1. CASE ok /\ j \in due
    <3>1. Taken(b, j)
      BY <1>2, <1>3, <1>4, <1>5, <2>1 DEF Taken, HasRun, Free
    <3>2. QED
      BY <1>0, <3>1 DEF Honoured
  <2>2. CASE ~(ok /\ j \in due)
    <3>1. Free(disk[j])' => Free(disk[j]) /\ disk'[j].enabled = disk[j].enabled
      BY <1>2, <1>4, <1>7, <2>2 DEF Free
    <3>2. QED
      BY <1>5, <2>2, <3>1 DEF Honoured, Spared
  <2>3. QED
    BY <2>1, <2>2
<1> HIDE DEF lost
<1>8. QED
  BY <1>1, <1>6, <1>7, SectionSound

LEMMA TimerFiresSound ==
  ASSUME Sound, NEW v \in Services, NEW ok \in BOOLEAN, TimerFires(v, ok)
  PROVE  Sound'
<1>1. UNCHANGED <<clock, services>>
  BY DEF TimerFires, gatewayVars
<1>2. CASE UNCHANGED <<storeVars, timer, runs, attached, historyVars>>
  <2>1. CronTypeOK'
    BY <1>1, <1>2 DEF Sound, CronTypeOK, storeVars
  <2>2. QED
    BY <1>2, <2>1, QuietSound DEF storeVars, historyVars
<1>3. CASE BeginTick(v, ok)
  BY <1>1, <1>3, BeginTickSound
<1>4. QED
  BY <1>2, <1>3 DEF TimerFires

LEMMA BeginRunSound ==
  ASSUME Sound, NEW b \in Batches, NEW j \in Jobs, BeginRun(b, j)
  PROVE  Sound'
<1>0. CronTypeOK /\ clock \in Clock
  BY DEF Sound, CronTypeOK
<1>1. /\ runs[b][j].is = "waiting"
      /\ runs' = [runs EXCEPT ![b][j] = Starts(j)]
      /\ UNCHANGED <<clock, services, disk, unguarded, settled>>
  BY DEF BeginRun, historyVars, gatewayVars
<1>2. Starts(j) \in RunType /\ Starts(j).is = "busy"
  BY <1>0, ClockFacts DEF Starts, RunType
<1>3. mem' \in [Services -> [Jobs -> JobType]]
  <2>1. b[1] \in Services
    BY DEF Batches
  <2> DEFINE r == [mem[b[1]][j] EXCEPT !.running = clock]
             f == [mem[b[1]] EXCEPT ![j] = r]
  <2>2. mem[b[1]] \in [Jobs -> JobType] /\ mem[b[1]][j] \in JobType
    BY <1>0, <2>1 DEF CronTypeOK
  <2>3. r \in JobType
    <3> DEFINE q == mem[b[1]][j]
    <3>1. q \in JobType
      BY <2>2
    <3> HIDE DEF q
    <3>2. [q EXCEPT !.running = clock] \in JobType
      BY <1>0, <3>1 DEF JobType
    <3>3. QED
      BY <3>2 DEF q
  <2> HIDE DEF r
  <2>4. f \in [Jobs -> JobType]
    BY <2>2, <2>3
  <2> HIDE DEF f
  <2>5. mem' = mem \/ mem' = [mem EXCEPT ![b[1]] = f]
    BY <1>0, <2>1 DEF BeginRun, CronTypeOK, f, r
  <2>6. QED
    BY <1>0, <2>1, <2>4, <2>5 DEF CronTypeOK
<1>4. runs' \in [Batches -> [Jobs -> RunType]]
  BY <1>0, <1>1, <1>2 DEF CronTypeOK
<1>5. CronTypeOK'
  BY <1>0, <1>1, <1>3, <1>4 DEF CronTypeOK
<1>6. \A c \in Batches, i \in Jobs : runs'[c][i] = IF c = b /\ i = j THEN Starts(j)
                                                               ELSE runs[c][i]
  BY <1>0, <1>1 DEF CronTypeOK
<1>7. \A c \in Batches, i \in Jobs : HasRun(c, i)' <=> HasRun(c, i)
  BY <1>1, <1>2, <1>6 DEF HasRun
<1>8. Guards'
  BY <1>1, <1>7 DEF Sound, Guards, Guarded, Free
<1>9. ASSUME NEW i \in settled'
      PROVE  Settled(i)'
  <2>1. Settled(i) /\ i \in Jobs
    BY <1>1, <1>9, JobsAssumption DEF Sound, Settled
  <2>2. i # j
    BY <1>1, <2>1 DEF Settled, HasRun
  <2>3. QED
    BY <1>1, <1>6, <2>1, <2>2 DEF Settled, HasRun, Free
<1>10. QED
  BY <1>5, <1>8, <1>9 DEF Sound

LEMMA EndRunSound ==
  ASSUME Sound, NEW b \in Batches, NEW j \in Jobs, NEW outcome \in Outcomes,
         EndRun(b, j, outcome)
  PROVE  Sound'
<1>0. CronTypeOK /\ clock \in Clock
  BY DEF Sound, CronTypeOK
<1> DEFINE run == [runs[b][j] EXCEPT !.is = outcome, !.end = clock]
<1>1. /\ runs[b][j].is = "busy"
      /\ runs' = [runs EXCEPT ![b][j] = run]
      /\ settled' = IF j \in OneShots \ unguarded /\ outcome \in {"ok", "skipped"}
                    THEN settled \cup {j} ELSE settled
      /\ UNCHANGED <<clock, services, disk, mem, unguarded>>
  BY DEF EndRun, storeVars, gatewayVars
<1>2. run \in RunType /\ run.is = outcome
  <2> DEFINE q == runs[b][j]
  <2>1. q \in RunType
    BY <1>0 DEF CronTypeOK
  <2> HIDE DEF q
  <2>2. /\ [q EXCEPT !.is = outcome, !.end = clock] \in RunType
        /\ [q EXCEPT !.is = outcome, !.end = clock].is = outcome
    BY <1>0, <2>1, ClockFacts DEF RunType
  <2>3. QED
    BY <2>2 DEF q
<1> HIDE DEF run
<1>3. runs' \in [Batches -> [Jobs -> RunType]]
  BY <1>0, <1>1, <1>2 DEF CronTypeOK
<1>4. CronTypeOK'
  BY <1>0, <1>1, <1>3 DEF CronTypeOK
<1>5. \A c \in Batches, i \in Jobs : runs'[c][i] = IF c = b /\ i = j THEN run
                                                               ELSE runs[c][i]
  BY <1>0, <1>1 DEF CronTypeOK
<1>6. \A c \in Batches, i \in Jobs : HasRun(c, i)' <=> HasRun(c, i)
  BY <1>1, <1>2, <1>5 DEF HasRun, Outcomes
<1>7. Guards'
  BY <1>1, <1>6 DEF Sound, Guards, Guarded, Free
<1>8. ASSUME NEW i \in settled'
      PROVE  Settled(i)'
  <2>1. CASE i = j
    <3>1. j \notin settled
      BY <1>1 DEF Sound, Settled, HasRun
    <3>2. j \in OneShots \ unguarded /\ outcome \in {"ok", "skipped"}
      BY <1>1, <1>8, <2>1, <3>1
    <3>3. Guarded(j) /\ HasRun(b, j)
      BY <1>1, <3>2 DEF Sound, Guards, HasRun
    <3>4. \A c \in Batches : HasRun(c, j)' => runs'[c][j].is = outcome
      BY <1>2, <1>5, <1>6, <3>3 DEF Guarded
    <3>5. ~Free(disk[j])
      BY <3>3 DEF Guarded
    <3>6. QED
      BY <1>1, <2>1, <3>2, <3>4, <3>5 DEF Settled, Free
  <2>2. CASE i # j
    <3>1. Settled(i) /\ i \in Jobs
      BY <1>1, <1>8, <2>2, JobsAssumption DEF Sound, Settled
    <3>2. QED
      BY <1>1, <1>5, <2>2, <3>1 DEF Settled, HasRun, Free
  <2>3. QED
    BY <2>1, <2>2
<1>9. QED
  BY <1>4, <1>7, <1>8 DEF Sound

-----------------------------------------------------------------------------
(* Calls *)

\* A call that saves a store and begins no run.
LEMMA CallSound ==
  ASSUME Sound, NEW v \in Services, NEW ok \in BOOLEAN, NEW st \in [Jobs -> JobType],
         Save(v, st, ok), UNCHANGED <<clock, services, runs>>,
         NEW lost, Loses(lost),
         ok => \A j \in Jobs \ lost : Free(st[j]) =>
                 Free(disk[j]) /\ (st[j].enabled => disk[j].enabled)
  PROVE  Sound'
<1>0. CronTypeOK
  BY DEF Sound
<1>1. /\ disk' = IF ok THEN st ELSE disk
      /\ disk' \in [Jobs -> JobType]
      /\ mem' \in [Services -> [Jobs -> JobType]]
  BY <1>0, SaveDoes
<1>2. CronTypeOK'
  BY <1>0, <1>1 DEF CronTypeOK
<1>3. ASSUME NEW j \in Jobs \ (unguarded \cup lost)
      PROVE  Honoured(j)
  BY <1>1 DEF Honoured, Spared, Free, HasRun
<1>4. QED
  BY <1>2, <1>3, SectionSound

LEMMA AddSound ==
  ASSUME Sound, NEW v \in Services, NEW j \in Jobs, NEW at \in Clock, NEW ok \in BOOLEAN,
         Add(v, j, at, ok)
  PROVE  Sound'
<1> DEFINE job == [Absent EXCEPT !.stored = TRUE, !.enabled = TRUE, !.at = at]
           new == [job EXCEPT !.next = NextRun(j, job, clock)]
           M == [mem[v] EXCEPT ![j] = new]
           st == Recomputed(M)
           lost == {j} \cup IF ok THEN Stale(v) \cup Cleared(mem[v], st) ELSE {}
<1>0. mem[v] \in [Jobs -> JobType] /\ clock \in Clock
  BY DEF Sound, CronTypeOK
<1>1. job \in JobType
  BY ClockFacts DEF Absent, JobType
<1>2. NextRun(j, job, clock) \in Nat \cup {None}
  BY <1>0, <1>1, ClockFacts, NextRunType
<1>3. Save(v, st, ok) /\ Loses(lost) /\ UNCHANGED <<clock, services, runs>>
  BY DEF Add, gatewayVars
<1> HIDE DEF job
<1>4. new \in JobType
  BY <1>1, <1>2 DEF JobType
<1> HIDE DEF new
<1>5. M \in [Jobs -> JobType] /\ \A i \in Jobs \ {j} : M[i] = mem[v][i]
  BY <1>0, <1>4
<1> HIDE DEF M
<1>6. Upkeep(M, st) /\ st \in [Jobs -> JobType]
  BY <1>0, <1>5, RecomputedKeeps DEF Upkeep
<1> HIDE DEF st
<1>7. ASSUME ok, NEW i \in Jobs \ lost, Free(st[i])
      PROVE  Free(disk[i]) /\ (st[i].enabled => disk[i].enabled)
  <2>1. M[i] = mem[v][i] /\ mem[v][i] = disk[i] /\ i \notin Cleared(mem[v], st)
    BY <1>5, <1>7 DEF Stale
  <2>2. i \notin Cleared(M, st)
    BY <2>1 DEF Cleared
  <2>3. QED
    BY <1>5, <1>6, <1>7, <2>1, <2>2, UpkeepSpares
<1> HIDE DEF lost
<1>8. QED
  BY <1>3, <1>6, <1>7, CallSound

LEMMA PatchedType ==
  ASSUME NEW j \in Jobs, NEW r \in JobType, NEW patch \in {"enable", "disable", "schedule"},
         NEW at \in Nat, clock \in Clock
  PROVE  Patched(j, r, patch, at) \in JobType
<1> DEFINE job == CASE patch = "enable" -> [r EXCEPT !.enabled = TRUE]
                    [] patch = "disable" -> [r EXCEPT !.enabled = FALSE]
                    [] patch = "schedule" -> [r EXCEPT !.at = at]
<1>1. job \in JobType
  <2>1. CASE patch = "enable"
    BY <2>1 DEF JobType
  <2>2. CASE patch = "disable"
    BY <2>2 DEF JobType
  <2>3. CASE patch = "schedule"
    BY <2>3 DEF JobType
  <2>4. QED
    BY <2>1, <2>2, <2>3
<1>2. Patched(j, r, patch, at) =
        IF job.enabled THEN [job EXCEPT !.next = NextRun(j, job, clock)]
                       ELSE [job EXCEPT !.next = None, !.running = None]
  BY DEF Patched
<1> HIDE DEF job
<1>3. NextRun(j, job, clock) \in Nat \cup {None}
  BY <1>1, ClockFacts, NextRunType
<1>4. QED
  BY <1>1, <1>2, <1>3 DEF JobType

LEMMA UpdateSound ==
  ASSUME Sound, NEW v \in Services, NEW j \in Jobs,
         NEW patch \in {"enable", "disable", "schedule"}, NEW at \in Clock, NEW ok \in BOOLEAN,
         Update(v, j, patch, at, ok)
  PROVE  Sound'
<1> DEFINE st == [mem[v] EXCEPT ![j] = Patched(j, @, patch, at)]
           lost == {j} \cup IF ok THEN Stale(v) \cup Cleared(mem[v], st) ELSE {}
<1>0. mem[v] \in [Jobs -> JobType] /\ clock \in Clock /\ at \in Nat
  BY ClockFacts DEF Sound, CronTypeOK
<1>1. Patched(j, mem[v][j], patch, at) \in JobType
  BY <1>0, PatchedType
<1>2. st \in [Jobs -> JobType] /\ \A i \in Jobs \ {j} : st[i] = mem[v][i]
  BY <1>0, <1>1
<1>3. Save(v, st, ok) /\ Loses(lost) /\ UNCHANGED <<clock, services, runs>>
  BY DEF Update, gatewayVars
<1> HIDE DEF st
<1>4. ASSUME ok, NEW i \in Jobs \ lost, Free(st[i])
      PROVE  Free(disk[i]) /\ (st[i].enabled => disk[i].enabled)
  BY <1>2, <1>4 DEF Stale
<1> HIDE DEF lost
<1>5. QED
  BY <1>2, <1>3, <1>4, CallSound

LEMMA DeleteSound ==
  ASSUME Sound, NEW v \in Services, NEW j \in Jobs, NEW ok \in BOOLEAN, Delete(v, j, ok)
  PROVE  Sound'
<1> DEFINE st == [mem[v] EXCEPT ![j] = Absent]
           lost == IF ok THEN Stale(v) ELSE {}
<1>0. mem[v] \in [Jobs -> JobType]
  BY DEF Sound, CronTypeOK
<1>1. /\ st \in [Jobs -> JobType]
      /\ \A i \in Jobs \ {j} : st[i] = mem[v][i]
      /\ ~Free(st[j])
  BY <1>0, AbsentType DEF Absent, Free
<1>2. Save(v, st, ok) /\ Loses(lost) /\ UNCHANGED <<clock, services, runs>>
  BY DEF Delete, gatewayVars
<1> HIDE DEF st
<1>3. ASSUME ok, NEW i \in Jobs \ lost, Free(st[i])
      PROVE  Free(disk[i]) /\ (st[i].enabled => disk[i].enabled)
  BY <1>1, <1>3 DEF Stale
<1> HIDE DEF lost
<1>4. QED
  BY <1>1, <1>2, <1>3, CallSound

LEMMA ListSound ==
  ASSUME Sound, NEW v \in Services, NEW ok \in BOOLEAN, List(v, ok)
  PROVE  Sound'
<1> DEFINE st == Maintained(mem[v])
           lost == IF ok THEN Stale(v) \cup Cleared(mem[v], st) ELSE {}
<1>0. mem[v] \in [Jobs -> JobType] /\ clock \in Clock
  BY DEF Sound, CronTypeOK
<1>1. Upkeep(mem[v], st) /\ st \in [Jobs -> JobType]
  BY <1>0, MaintainedKeeps DEF Upkeep
<1>2. Save(v, st, ok) /\ Loses(lost) /\ UNCHANGED <<clock, services, runs>>
  BY DEF List, gatewayVars
<1> HIDE DEF st
<1>3. ASSUME ok, NEW i \in Jobs \ lost, Free(st[i])
      PROVE  Free(disk[i]) /\ (st[i].enabled => disk[i].enabled)
  <2>1. mem[v][i] = disk[i] /\ i \notin Cleared(mem[v], st)
    BY <1>3 DEF Stale
  <2>2. QED
    BY <1>0, <1>1, <1>3, <2>1, UpkeepSpares
<1> HIDE DEF lost
<1>4. QED
  BY <1>1, <1>2, <1>3, CallSound

LEMMA RunSound ==
  ASSUME Sound, NEW v \in Services, NEW j \in Jobs, NEW force \in BOOLEAN, NEW ok \in BOOLEAN,
         Run(v, j, force, ok)
  PROVE  Sound'
<1> DEFINE kept == Maintained(mem[v])
           b == <<v, "manual">>
           ready == kept[j].running = None /\ (force \/ Runnable(kept[j]))
           st == Marked(kept, {j})
           lost == (IF force THEN {j} ELSE {})
                     \cup IF ok THEN Stale(v) \cup Cleared(mem[v], kept) ELSE {}
<1>0. /\ CronTypeOK /\ b \in Batches
      /\ mem[v] \in [Jobs -> JobType] /\ clock \in Clock
  BY DEF Sound, CronTypeOK, Batches
<1>1. Upkeep(mem[v], kept) /\ kept \in [Jobs -> JobType]
  BY <1>0, MaintainedKeeps DEF Upkeep
<1>2. UNCHANGED <<clock, services>>
  BY DEF Run, gatewayVars
<1>3. CASE ready /\ Save(v, st, ok) /\ Loses(lost)
            /\ runs' = IF ok THEN [runs EXCEPT ![b][j] = Starts(j)] ELSE runs
  <2>1. ready => (~force => Free(kept[j]) /\ kept[j].enabled)
    BY DEF Runnable, Pending, Free
  <2> HIDE DEF ready, kept
  <2>2. /\ st \in [Jobs -> JobType]
        /\ \A i \in Jobs \ {j} : st[i] = kept[i]
        /\ ~Free(st[j])
    BY <1>0, <1>1, MarkedType
  <2>3. Starts(j) \in RunType
    BY <1>0, ClockFacts DEF Starts, RunType
  <2> HIDE DEF b, st
  <2>4. /\ disk' = IF ok THEN st ELSE disk
        /\ disk' \in [Jobs -> JobType]
        /\ mem' \in [Services -> [Jobs -> JobType]]
    BY <1>0, <1>3, <2>2, SaveDoes
  <2>5. /\ runs' \in [Batches -> [Jobs -> RunType]]
        /\ \A c \in Batches, i \in Jobs :
             ~(ok /\ c = b /\ i = j) => runs'[c][i] = runs[c][i]
    BY <1>0, <1>3, <2>3 DEF CronTypeOK
  <2>6. CronTypeOK'
    BY <1>0, <1>2, <2>4, <2>5 DEF CronTypeOK
  <2>7. ASSUME NEW i \in Jobs \ (unguarded \cup lost)
        PROVE  Honoured(i)
    <3>1. CASE ~ok
      BY <2>4, <2>5, <3>1 DEF Honoured, Spared, Free
    <3>2. CASE ok
      <4>1. mem[v][i] = disk[i] /\ i \notin Cleared(mem[v], kept)
        BY <2>7, <3>2 DEF Stale
      <4>2. Free(kept[i]) => Free(disk[i]) /\ kept[i].enabled = disk[i].enabled
        BY <1>0, <1>1, <4>1, UpkeepSpares
      <4>3. CASE i = j
        <5>1. ~force
          BY <2>7, <4>3
        <5>2. Taken(b, i)
          BY <1>3, <2>1, <2>2, <2>4, <2>5, <3>2, <4>2, <4>3, <5>1 DEF Taken, HasRun, Free
        <5>3. QED
          BY <1>0, <5>2 DEF Honoured
      <4>4. CASE i # j
        BY <2>2, <2>4, <2>5, <3>2, <4>2, <4>4 DEF Honoured, Spared, Free
      <4>5. QED
        BY <4>3, <4>4
    <3>3. QED
      BY <3>1, <3>2
  <2> HIDE DEF lost
  <2>8. QED
    BY <1>3, <2>6, <2>7, SectionSound
<1>4. CASE mem' = [mem EXCEPT ![v] = kept] /\ UNCHANGED <<disk, runs, historyVars>>
  <2> HIDE DEF kept
  <2>1. CronTypeOK'
    BY <1>0, <1>1, <1>2, <1>4 DEF CronTypeOK
  <2>2. QED
    BY <1>4, <2>1, QuietSound DEF historyVars
<1>5. QED
  BY <1>3, <1>4 DEF Run

LEMMA RunApplySound ==
  ASSUME Sound, NEW v \in Services, NEW j \in Jobs, NEW ok \in BOOLEAN, RunApply(v, j, ok)
  PROVE  Sound'
<1> DEFINE b == <<v, "manual">>
           snapshot == Applied(j, mem[v][j], runs[b][j])
           merged == IF snapshot = Absent THEN Absent
                     ELSE IF disk[j].stored THEN [snapshot EXCEPT !.at = disk[j].at]
                     ELSE disk[j]
           W == [disk EXCEPT ![j] = merged]
           st == Maintained(W)
           lost == IF ok THEN (Cleared(disk, st) \ {j}) \cup (Stale(v) \cap {j}) ELSE {}
<1>0. /\ CronTypeOK /\ b \in Batches
      /\ mem[v] \in [Jobs -> JobType] /\ mem[v][j] \in JobType
      /\ disk \in [Jobs -> JobType] /\ disk[j] \in JobType
      /\ runs[b][j] \in RunType
      /\ clock \in Clock
  BY DEF Sound, CronTypeOK, Batches
<1>1. /\ runs[b][j].is \in Outcomes
      /\ PutAway(b)
      /\ UNCHANGED <<clock, services>>
  BY DEF RunApply, gatewayVars
<1>2. /\ snapshot \in JobType
      /\ j \in OneShots /\ runs[b][j].is \in {"ok", "skipped"} /\ snapshot.stored
           => ~snapshot.enabled
  BY <1>0, AppliedType
<1>3. /\ runs' \in [Batches -> [Jobs -> RunType]]
      /\ \A i \in Jobs : ~HasRun(b, i)'
      /\ \A c \in Batches \ {b} : runs'[c] = runs[c]
  BY <1>0, <1>1, PutAwayDoes
<1>4. HasRun(b, j)
  BY <1>1 DEF Outcomes, HasRun
<1>5. CASE /\ mem' = [mem EXCEPT ![v] = IF v = context \/ starting[v] = "missed"
                                        THEN st ELSE NoStore]
           /\ Write(st, ok)
           /\ Loses(lost)
  <2> HIDE DEF snapshot, b
  <2>1. merged \in JobType
    BY <1>0, <1>2, AbsentType DEF JobType
  <2>2. j \in OneShots /\ runs[b][j].is \in {"ok", "skipped"} /\ merged.stored
           => ~merged.enabled
    <3>1. ~Absent.stored
      BY DEF Absent
    <3>2. /\ [snapshot EXCEPT !.at = disk[j].at].stored = snapshot.stored
          /\ [snapshot EXCEPT !.at = disk[j].at].enabled = snapshot.enabled
      BY <1>2 DEF JobType
    <3>3. QED
      BY <1>2, <3>1, <3>2
  <2> HIDE DEF merged
  <2>3. /\ W \in [Jobs -> JobType]
        /\ W[j] = merged
        /\ \A i \in Jobs \ {j} : W[i] = disk[i]
    BY <1>0, <2>1
  <2> HIDE DEF W
  <2>4. Upkeep(W, st) /\ st \in [Jobs -> JobType]
    BY <1>0, <2>3, MaintainedKeeps DEF Upkeep
  <2> HIDE DEF st
  <2>5. disk' = (IF ok THEN st ELSE disk) /\ disk' \in [Jobs -> JobType]
    BY <1>0, <1>5, <2>4, WriteDoes
  <2>6. CronTypeOK'
    BY <1>0, <1>1, <1>3, <1>5, <2>4, <2>5, NoStoreType DEF CronTypeOK
  <2>7. ASSUME NEW i \in Jobs \ (unguarded \cup lost), Guarded(i)
        PROVE  Honoured(i)
    <3>1. CASE i = j
      <4>1. \A c \in Batches : ~HasRun(c, i)'
        BY <1>0, <1>3, <1>4, <2>7, <3>1 DEF Guarded, HasRun
      <4>2. ASSUME Settled(i), Free(disk[i])'
            PROVE  ~disk'[i].enabled
        <5>1. CASE ok
          <6>1. runs[b][j].is \in {"ok", "skipped"} /\ j \in OneShots
            BY <1>0, <1>4, <3>1, <4>2 DEF Settled
          <6>2. W[j].stored => ~W[j].enabled
            BY <2>2, <2>3, <6>1
          <6>3. QED
            BY <2>4, <2>5, <3>1, <4>2, <5>1, <6>2 DEF Upkeep, Free
        <5>2. CASE ~ok
          BY <2>5, <4>2, <5>2 DEF Settled, Free
        <5>3. QED
          BY <5>1, <5>2
      <4>3. QED
        BY <4>1, <4>2 DEF Finished, Honoured
    <3>2. CASE i # j
      <4>1. \A c \in Batches : HasRun(c, i)' => runs'[c][i].is = runs[c][i].is
        BY <1>3, <2>7
      <4>2. Free(disk[i])' => Free(disk[i]) /\ (disk'[i].enabled => disk[i].enabled)
        <5>1. CASE ok
          <6>1. i \notin Cleared(disk, st)
            BY <2>7, <3>2, <5>1
          <6>2. i \notin Cleared(W, st)
            BY <2>3, <3>2, <6>1 DEF Cleared
          <6>3. QED
            BY <2>3, <2>4, <2>5, <3>2, <5>1, <6>2, UpkeepSpares DEF Free
        <5>2. CASE ~ok
          BY <2>5, <5>2 DEF Free
        <5>3. QED
          BY <5>1, <5>2
      <4>3. QED
        BY <4>1, <4>2 DEF Spared, Honoured
    <3>3. QED
      BY <3>1, <3>2
  <2> HIDE DEF lost
  <2>8. QED
    BY <1>5, <2>6, <2>7, SectionSound
<1>6. CASE /\ mem' = [mem EXCEPT ![v] = IF v = context \/ starting[v] = "missed"
                                        THEN @ ELSE NoStore]
           /\ UNCHANGED disk
           /\ Loses({})
  <2> HIDE DEF b
  <2>1. CronTypeOK'
    BY <1>0, <1>1, <1>3, <1>6, NoStoreType DEF CronTypeOK
  <2>2. ASSUME NEW i \in Jobs \ (unguarded \cup {})
        PROVE  Honoured(i)
    BY <1>0, <1>3, <1>6 DEF Honoured, Spared, HasRun, Free
  <2>3. QED
    BY <1>6, <2>1, <2>2, SectionSound
<1>7. QED
  BY <1>5, <1>6 DEF RunApply

-----------------------------------------------------------------------------
(* The gateway around it *)

LEMMA CloseSound ==
  ASSUME Sound, Close
  PROVE  Sound'
<1>1. /\ mem' = [mem EXCEPT ![context] =
           IF starting[context] = "missed" \/ Of(<<context, "manual">>, {"none"}) # Jobs
           THEN @ ELSE NoStore]
      /\ UNCHANGED <<clock, services, disk, runs, unguarded, settled>>
  BY DEF Close, historyVars
<1>2. CronTypeOK'
  <2>1. CASE context \in Services
    BY <1>1, <2>1, NoStoreType DEF Sound, CronTypeOK
  <2>2. CASE context \notin Services
    <3>1. mem' = mem
      BY <1>1, <2>2 DEF Sound, CronTypeOK
    <3>2. QED
      BY <1>1, <3>1 DEF Sound, CronTypeOK
  <2>3. QED
    BY <2>1, <2>2
<1>3. QED
  BY <1>1, <1>2, QuietSound

LEMMA CrashSound ==
  ASSUME Sound, Crash
  PROVE  Sound'
<1>1. /\ runs' = [b \in Batches |-> [j \in Jobs |-> Idle]]
      /\ mem' = [v \in Services |-> NoStore]
      /\ UNCHANGED <<clock, services, disk, settled>>
      /\ unguarded' = {}
  BY DEF Crash
<1>2. Idle.is = "none"
  BY DEF Idle
<1>3. \A b \in Batches, j \in Jobs : ~HasRun(b, j)'
  BY <1>1, <1>2 DEF HasRun
<1>4. CronTypeOK'
  BY <1>1, IdleType, NoStoreType DEF Sound, CronTypeOK
<1>5. Guards'
  BY <1>3 DEF Guards, Guarded
<1>6. \A j \in settled : Settled(j)'
  BY <1>1, <1>3, JobsAssumption DEF Sound, Settled, Free
<1>7. QED
  BY <1>1, <1>4, <1>5, <1>6 DEF Sound

LEMMA TockSound ==
  ASSUME Sound, Tock
  PROVE  Sound'
<1>1. clock' \in Clock
  BY BoundsAssumption DEF Tock, Clock, Sound, CronTypeOK
<1>2. UNCHANGED <<services, disk, mem, runs, unguarded, settled>>
  BY DEF Tock, storeVars, gatewayVars, historyVars
<1>3. CronTypeOK'
  BY <1>1, <1>2 DEF Sound, CronTypeOK
<1>4. QED
  BY <1>2, <1>3, QuietSound

LEMMA InitSound ==
  ASSUME Init
  PROVE  Sound
<1>1. CronTypeOK
  <2>1. [Absent EXCEPT !.stored = TRUE, !.enabled = TRUE, !.next = 0] \in JobType
    BY AbsentType DEF JobType
  <2>2. disk \in [Jobs -> JobType]
    BY <2>1, AbsentType DEF Init
  <2>3. clock \in Clock
    BY BoundsAssumption DEF Init, Clock
  <2>4. QED
    BY <2>2, <2>3, NoStoreType, IdleType DEF Init, CronTypeOK
<1>2. \A b \in Batches, j \in Jobs : ~HasRun(b, j)
  BY DEF Init, HasRun, Idle
<1>3. QED
  BY <1>1, <1>2 DEF Init, Sound, Guards, Guarded

LEMMA NextSound ==
  ASSUME Sound, [Next]_vars
  PROVE  Sound'
<1>1. ASSUME NEW v \in Services, NEW ok \in BOOLEAN,
             \/ StartMissed(v, ok) \/ StartApply(v, ok) \/ StartLast(v, ok)
             \/ TimerFires(v, ok) \/ TickApply(v, ok) \/ List(v, ok)
      PROVE  Sound'
  BY <1>1, StartMissedSound, StartApplySound, StartLastSound, TimerFiresSound,
     TickApplySound, ListSound
<1>2. ASSUME NEW b \in Batches, NEW j \in Jobs,
             BeginRun(b, j) \/ \E outcome \in Outcomes : EndRun(b, j, outcome)
      PROVE  Sound'
  BY <1>2, BeginRunSound, EndRunSound
<1>3. ASSUME NEW v \in Services, NEW j \in Jobs, NEW at \in Clock, NEW ok \in BOOLEAN,
             \/ Add(v, j, at, ok)
             \/ \E patch \in {"enable", "disable", "schedule"} : Update(v, j, patch, at, ok)
      PROVE  Sound'
  BY <1>3, AddSound, UpdateSound
<1>4. ASSUME NEW v \in Services, NEW j \in Jobs, NEW ok \in BOOLEAN,
             Delete(v, j, ok) \/ RunApply(v, j, ok) \/ \E force \in BOOLEAN : Run(v, j, force, ok)
      PROVE  Sound'
  BY <1>4, DeleteSound, RunApplySound, RunSound
<1>5. ASSUME NEW ok \in BOOLEAN, Boot(ok) \/ HotReload(ok)
      PROVE  Sound'
  <2>1. services \in Nat
    BY DEF Sound, CronTypeOK
  <2>2. QED
    BY <1>5, <2>1, BootSound
<1>6. CASE UNCHANGED vars
  <2>1. UNCHANGED <<clock, services, disk, mem, runs, unguarded, settled>>
    BY <1>6 DEF vars, storeVars, gatewayVars, historyVars
  <2>2. CronTypeOK'
    BY <2>1 DEF Sound, CronTypeOK
  <2>3. QED
    BY <2>1, <2>2, QuietSound
<1>7. QED
  BY <1>1, <1>2, <1>3, <1>4, <1>5, <1>6, CloseSound, CrashSound, TockSound DEF Next

\* A run that was not there waits or is busy at first.
LEMMA RunsBegin ==
  ASSUME Sound, [Next]_vars, NEW b \in Batches, NEW j \in Jobs, runs[b][j].is = "none"
  PROVE  runs'[b][j].is \in {"none", "waiting", "busy"}
<1> DEFINE Begins == runs'[b][j].is \in {"none", "waiting", "busy"}
<1>0. CronTypeOK
  BY DEF Sound
<1>1. UNCHANGED runs => Begins
  OBVIOUS
<1>2. ASSUME NEW c \in Batches, NEW S, Reserve(c, S)
      PROVE  Begins
  BY <1>0, <1>2 DEF Reserve, Idle, CronTypeOK
<1>3. ASSUME NEW c \in Batches, PutAway(c)
      PROVE  Begins
  BY <1>0, <1>3 DEF PutAway, Idle, CronTypeOK
<1>4. ASSUME NEW v \in Services, NEW ok \in BOOLEAN,
             \/ StartMissed(v, ok) \/ StartApply(v, ok) \/ StartLast(v, ok)
             \/ TimerFires(v, ok) \/ TickApply(v, ok) \/ List(v, ok)
      PROVE  Begins
  <2>1. <<v, "startup">> \in Batches /\ <<v, "tick">> \in Batches
    BY DEF Batches
  <2>2. CASE StartMissed(v, ok)
    BY <1>1, <1>2, <2>1, <2>2 DEF StartMissed
  <2>3. CASE StartApply(v, ok) \/ TickApply(v, ok)
    BY <1>3, <2>1, <2>3 DEF StartApply, TickApply
  <2>4. CASE StartLast(v, ok) \/ List(v, ok)
    BY <1>1, <2>4 DEF StartLast, List
  <2>5. CASE TimerFires(v, ok)
    BY <1>1, <1>2, <2>1, <2>5 DEF TimerFires, BeginTick
  <2>6. QED
    BY <1>4, <2>2, <2>3, <2>4, <2>5
<1>5. ASSUME NEW c \in Batches, NEW i \in Jobs, BeginRun(c, i)
      PROVE  Begins
  BY <1>0, <1>5 DEF BeginRun, Starts, CronTypeOK
<1>6. ASSUME NEW c \in Batches, NEW i \in Jobs, NEW outcome \in Outcomes, EndRun(c, i, outcome)
      PROVE  Begins
  <2>1. runs[c][i].is = "busy" /\ ~(c = b /\ i = j)
    BY <1>6 DEF EndRun
  <2>2. runs'[b][j] = runs[b][j]
    BY <1>0, <1>6, <2>1 DEF EndRun, CronTypeOK
  <2>3. QED
    BY <2>2
<1>7. ASSUME NEW v \in Services, NEW i \in Jobs, NEW at \in Clock, NEW ok \in BOOLEAN,
             \/ Add(v, i, at, ok)
             \/ \E patch \in {"enable", "disable", "schedule"} : Update(v, i, patch, at, ok)
      PROVE  Begins
  BY <1>1, <1>7 DEF Add, Update
<1>8. ASSUME NEW v \in Services, NEW i \in Jobs, NEW ok \in BOOLEAN,
             Delete(v, i, ok) \/ RunApply(v, i, ok) \/ \E force \in BOOLEAN : Run(v, i, force, ok)
      PROVE  Begins
  <2>1. <<v, "manual">> \in Batches
    BY DEF Batches
  <2>2. CASE Delete(v, i, ok)
    BY <1>1, <2>2 DEF Delete
  <2>3. CASE RunApply(v, i, ok)
    BY <1>3, <2>1, <2>3 DEF RunApply
  <2>4. ASSUME NEW force \in BOOLEAN, Run(v, i, force, ok)
        PROVE  Begins
    <3>1. UNCHANGED runs \/ runs' = [runs EXCEPT ![<<v, "manual">>][i] = Starts(i)]
      BY <2>4 DEF Run
    <3>2. Starts(i).is = "busy"
      BY DEF Starts
    <3>3. runs'[b][j] \in {runs[b][j], Starts(i)}
      <4> HIDE DEF Begins
      <4>1. runs \in [Batches -> [Jobs -> RunType]]
        BY <1>0 DEF CronTypeOK
      <4>2. \A r : [runs EXCEPT ![<<v, "manual">>][i] = r][b][j] \in {runs[b][j], r}
        BY <2>1, <4>1
      <4>3. QED
        BY <3>1, <4>2
    <3>4. QED
      BY <3>2, <3>3
  <2>5. QED
    BY <1>8, <2>2, <2>3, <2>4
<1>9. ASSUME NEW ok \in BOOLEAN, Boot(ok) \/ HotReload(ok)
      PROVE  Begins
  BY <1>1, <1>9 DEF Boot, HotReload, StartClear
<1>10. CASE Crash
  BY <1>10 DEF Crash, Idle
<1>11. CASE Close \/ Tock \/ UNCHANGED vars
  BY <1>1, <1>11 DEF Close, Tock, vars
<1>12. QED
  BY <1>4, <1>5, <1>6, <1>7, <1>8, <1>9, <1>10, <1>11 DEF Next

\* The invariant of the scheduler.
THEOREM CronSound == Spec => []Sound
<1>1. Init => Sound
  BY InitSound
<1>2. Sound /\ [Next]_vars => Sound'
  BY NextSound
<1>3. QED
  BY <1>1, <1>2, PTL DEF Spec

-----------------------------------------------------------------------------

\* Two runs of a job are never in flight at once, whatever ticks, starts, calls,
\* reloads, crashes and failed saves came before, unless the store has lost
\* the marker of one (onTimer, run and runMissedJobs reserve under locked()).
THEOREM RunsKeptApart == Spec => []NoOverlap
<1>1. Sound => NoOverlap
  <2> SUFFICES ASSUME Sound PROVE NoOverlap
    OBVIOUS
  <2>1. \A j \in Jobs : disk[j] \in JobType
    BY DEF Sound, CronTypeOK
  <2>2. \A j \in Jobs : disk[j].next \in Nat \cup {None} /\ disk[j].running \in Clock \cup {None}
    BY <2>1 DEF JobType
  <2>3. \A j \in Jobs \ unguarded : \A b, c \in Batches :
          runs[b][j].is \in {"waiting", "busy"} /\ runs[c][j].is \in {"waiting", "busy"} => b = c
    BY DEF Sound, Guards, Guarded, HasRun
  <2>4. QED
    BY <2>2, <2>3 DEF NoOverlap
<1>2. QED
  BY <1>1, CronSound, PTL

\* A one-shot that ran to ok or skipped is not reserved again by a tick or a
\* start, unless a client changed or forced it or the store lost its marker
\* (applyJobResult disables or removes it).
THEOREM OneShotsRunOnce == Spec => OneShotOnce
<1> DEFINE Once == \A j \in settled', b \in Batches :
             b[2] # "manual" /\ runs[b][j].is = "none" => runs'[b][j].is = "none"
<1>1. ASSUME Sound, Sound', [Next]_vars
      PROVE  [Once]_vars
  <2> SUFFICES ASSUME NEW j \in settled', NEW b \in Batches, runs[b][j].is = "none"
               PROVE  runs'[b][j].is = "none"
    OBVIOUS
  <2>1. Settled(j)' /\ j \in Jobs
    BY <1>1, JobsAssumption DEF Sound, Settled
  <2>2. runs'[b][j].is \in {"none", "waiting", "busy"}
    BY <1>1, <2>1, RunsBegin
  <2>3. QED
    BY <2>1, <2>2 DEF Settled, HasRun
<1>2. QED
  BY <1>1, CronSound, PTL DEF Spec, OneShotOnce

-----------------------------------------------------------------------------
(* Next runs.  Every store that is kept has been maintained: a job without a *)
(* next run is disabled or is a one-shot that is done.                       *)

Orderly(j, r) ==
  /\ ~r.enabled => r.next = None
  /\ r.enabled /\ r.next = None => j \in OneShots /\ r.last = "ok" /\ r.at <= r.lastRun

OrderlyStore(st) == \A j \in Jobs : Orderly(j, st[j])

StoresOrderly == OrderlyStore(disk) /\ \A v \in Services : OrderlyStore(mem[v])

\* A next run that was just computed is in order.
LEMMA NextRunOrderly ==
  ASSUME NEW j \in Jobs, NEW r \in JobType, NEW now \in Nat
  PROVE  /\ ~r.enabled => NextRun(j, r, now) = None
         /\ r.enabled /\ NextRun(j, r, now) = None =>
              j \in OneShots /\ r.last = "ok" /\ r.at <= r.lastRun
         /\ j \in OneShots /\ r.last = "ok" /\ r.at <= r.lastRun => NextRun(j, r, now) = None
<1>1. now + 1 # None /\ r.at # None
  BY NoneAssumption DEF JobType
<1>2. r.enabled \in BOOLEAN
  BY DEF JobType
<1>3. QED
  BY <1>1, <1>2, JobsAssumption DEF NextRun

LEMMA NormalisedNext ==
  ASSUME NEW r \in JobType, NEW now \in Nat
  PROVE  LET s == Normalised(r, now) IN
         /\ s.next = IF r.enabled THEN r.next ELSE None
         /\ s.at = r.at /\ s.last = r.last /\ s.lastRun = r.lastRun
BY DEF Normalised, JobType

LEMMA NextSet ==
  ASSUME NEW r \in JobType, NEW n
  PROVE  LET s == [r EXCEPT !.next = n] IN
         /\ s.next = n
         /\ s.stored = r.stored /\ s.enabled = r.enabled
         /\ s.at = r.at /\ s.last = r.last /\ s.lastRun = r.lastRun
BY DEF JobType

\* Maintenance puts every store in order and leaves next runs of one that is.
LEMMA MaintainedOrderly ==
  ASSUME NEW st \in [Jobs -> JobType], clock \in Clock
  PROVE  /\ OrderlyStore(Maintained(st))
         /\ \A j \in Jobs : Orderly(j, st[j]) \/ Pending(st[j])
              => Maintained(st)[j].next = st[j].next
<1> SUFFICES ASSUME NEW j \in Jobs
             PROVE  /\ Orderly(j, Maintained(st)[j])
                    /\ Orderly(j, st[j]) \/ Pending(st[j])
                         => Maintained(st)[j].next = st[j].next
  BY DEF OrderlyStore
<1> DEFINE r == Normalised(st[j], clock)
<1>1. /\ r \in JobType
      /\ r.stored = st[j].stored /\ r.enabled = st[j].enabled
      /\ r.next = IF st[j].enabled THEN st[j].next ELSE None
      /\ r.at = st[j].at /\ r.last = st[j].last /\ r.lastRun = st[j].lastRun
  BY ClockFacts, NormalisedKeeps, NormalisedNext
<1> DEFINE n == NextRun(j, r, clock)
<1>2. /\ ~r.enabled => n = None
      /\ r.enabled /\ n = None => j \in OneShots /\ r.last = "ok" /\ r.at <= r.lastRun
      /\ j \in OneShots /\ r.last = "ok" /\ r.at <= r.lastRun => n = None
  BY <1>1, ClockFacts, NextRunOrderly
<1> HIDE DEF r
<1>3. Maintained(st)[j] = IF r.enabled /\ r.next = None THEN [r EXCEPT !.next = n] ELSE r
  BY DEF Maintained, r
<1> HIDE DEF n
<1>4. LET s == [r EXCEPT !.next = n] IN
      /\ s.next = n
      /\ s.stored = r.stored /\ s.enabled = r.enabled
      /\ s.at = r.at /\ s.last = r.last /\ s.lastRun = r.lastRun
  BY <1>1, NextSet
<1>5. CASE r.enabled /\ r.next = None
  BY <1>1, <1>2, <1>3, <1>4, <1>5 DEF Orderly, Pending
<1>6. CASE ~(r.enabled /\ r.next = None)
  BY <1>1, <1>3, <1>6 DEF Orderly, Pending
<1>7. QED
  BY <1>5, <1>6

LEMMA RecomputedOrderly ==
  ASSUME NEW st \in [Jobs -> JobType], clock \in Clock
  PROVE  OrderlyStore(Recomputed(st))
<1> SUFFICES ASSUME NEW j \in Jobs
             PROVE  Orderly(j, Recomputed(st)[j])
  BY DEF OrderlyStore
<1> DEFINE r == Normalised(st[j], clock)
           n == NextRun(j, r, clock)
<1>1. /\ r \in JobType
      /\ r.enabled = st[j].enabled
      /\ r.next = IF st[j].enabled THEN st[j].next ELSE None
  BY ClockFacts, NormalisedKeeps, NormalisedNext
<1>2. /\ ~r.enabled => n = None
      /\ r.enabled /\ n = None => j \in OneShots /\ r.last = "ok" /\ r.at <= r.lastRun
  BY <1>1, ClockFacts, NextRunOrderly
<1> HIDE DEF r
<1>3. Recomputed(st)[j] = IF r.enabled /\ (r.next = None \/ clock >= r.next)
                          THEN [r EXCEPT !.next = n] ELSE r
  BY DEF Recomputed, r
<1> HIDE DEF n
<1>4. LET s == [r EXCEPT !.next = n] IN
      /\ s.next = n
      /\ s.stored = r.stored /\ s.enabled = r.enabled
      /\ s.at = r.at /\ s.last = r.last /\ s.lastRun = r.lastRun
  BY <1>1, NextSet
<1>5. QED
  BY <1>1, <1>2, <1>3, <1>4 DEF Orderly

LEMMA PatchedOrderly ==
  ASSUME NEW j \in Jobs, NEW r \in JobType, NEW patch \in {"enable", "disable", "schedule"},
         NEW at \in Nat, clock \in Clock
  PROVE  Orderly(j, Patched(j, r, patch, at))
<1> DEFINE job == CASE patch = "enable" -> [r EXCEPT !.enabled = TRUE]
                    [] patch = "disable" -> [r EXCEPT !.enabled = FALSE]
                    [] patch = "schedule" -> [r EXCEPT !.at = at]
           n == NextRun(j, job, clock)
<1>1. job \in JobType
  <2>1. CASE patch = "enable"
    BY <2>1 DEF JobType
  <2>2. CASE patch = "disable"
    BY <2>2 DEF JobType
  <2>3. CASE patch = "schedule"
    BY <2>3 DEF JobType
  <2>4. QED
    BY <2>1, <2>2, <2>3
<1>2. Patched(j, r, patch, at) =
        IF job.enabled THEN [job EXCEPT !.next = n]
                       ELSE [job EXCEPT !.next = None, !.running = None]
  BY DEF Patched
<1> HIDE DEF job
<1>3. job.enabled /\ n = None => j \in OneShots /\ job.last = "ok" /\ job.at <= job.lastRun
  BY <1>1, ClockFacts, NextRunOrderly
<1> HIDE DEF n
<1>4. LET s == [job EXCEPT !.next = n] IN
      /\ s.next = n
      /\ s.enabled = job.enabled
      /\ s.at = job.at /\ s.last = job.last /\ s.lastRun = job.lastRun
  BY <1>1, NextSet
<1>5. LET s == [job EXCEPT !.next = None, !.running = None] IN
      s.next = None /\ s.enabled = job.enabled
  BY <1>1 DEF JobType
<1>6. CASE job.enabled
  BY <1>2, <1>3, <1>4, <1>6 DEF Orderly
<1>7. CASE ~job.enabled
  BY <1>2, <1>5, <1>7 DEF Orderly
<1>8. QED
  BY <1>6, <1>7

\* Running markers have nothing to do with it.
LEMMA RunningSet ==
  ASSUME NEW j \in Jobs, NEW r \in JobType, NEW m
  PROVE  LET s == [r EXCEPT !.running = m] IN
         /\ Orderly(j, s) <=> Orderly(j, r)
         /\ Pending(s) <=> Pending(r)
         /\ s.next = r.next
BY DEF Orderly, Pending, JobType

LEMMA MarkedOrderly ==
  ASSUME NEW st \in [Jobs -> JobType], NEW S
  PROVE  /\ OrderlyStore(st) => OrderlyStore(Marked(st, S))
         /\ \A j \in Jobs : Marked(st, S)[j].next = st[j].next
         /\ \A j \in Jobs : Pending(Marked(st, S)[j]) <=> Pending(st[j])
<1>1. ASSUME NEW j \in Jobs
      PROVE  /\ Orderly(j, Marked(st, S)[j]) <=> Orderly(j, st[j])
             /\ Marked(st, S)[j].next = st[j].next
             /\ Pending(Marked(st, S)[j]) <=> Pending(st[j])
  BY RunningSet DEF Marked
<1>2. QED
  BY <1>1 DEF OrderlyStore

LEMMA NoStoreOrderly == OrderlyStore(NoStore) /\ \A j \in Jobs : ~Pending(NoStore[j])
BY DEF OrderlyStore, Orderly, NoStore, Absent, Pending

LEMMA WriteOrderly ==
  ASSUME StoresOrderly, NEW st, NEW ok \in BOOLEAN, Write(st, ok), ok => OrderlyStore(st)
  PROVE  OrderlyStore(disk)'
BY DEF Write, StoresOrderly, OrderlyStore

LEMMA MemOrderly ==
  ASSUME CronTypeOK, StoresOrderly, NEW v, NEW st, OrderlyStore(st),
         mem' = [mem EXCEPT ![v] = st]
  PROVE  \A w \in Services : OrderlyStore(mem'[w])
<1> SUFFICES ASSUME NEW w \in Services
             PROVE  OrderlyStore(mem'[w])
  OBVIOUS
<1>1. mem'[w] = IF w = v THEN st ELSE mem[w]
  BY DEF CronTypeOK
<1>2. QED
  BY <1>1 DEF StoresOrderly

LEMMA SaveOrderly ==
  ASSUME CronTypeOK, StoresOrderly, NEW v, NEW st, OrderlyStore(st), NEW ok \in BOOLEAN,
         Save(v, st, ok)
  PROVE  StoresOrderly'
<1> DEFINE kept == IF Reads(v) \/ starting[v] = "missed" THEN st ELSE NoStore
<1>1. OrderlyStore(kept)
  BY NoStoreOrderly
<1>2. mem' = [mem EXCEPT ![v] = kept] /\ Write(st, ok)
  BY DEF Save
<1> HIDE DEF kept
<1>3. \A w \in Services : OrderlyStore(mem'[w])
  BY <1>1, <1>2, MemOrderly
<1>4. QED
  BY <1>2, <1>3, WriteOrderly DEF StoresOrderly, OrderlyStore

-----------------------------------------------------------------------------
(* Timers.  While nothing fails to be saved, whoever writes a store with a   *)
(* next run arms a timer or is a start that will; list and run count on the  *)
(* timer their service has armed.                                            *)

SomePending(st) == \E j \in Jobs : Pending(st[j])

Wakes(v) == timer[v] \/ starting[v] \in {"missed", "executing", "last"}

Ready == failures = 0 /\ current # 0 /\ current = context /\ starting[current] = "started"

Armed == Ready /\ SomePending(mem[context]) => timer[context]

GatewayOK ==
  /\ context \in 0..MaxServices /\ current \in 0..MaxServices
  /\ failures \in Nat
  /\ timer \in [Services -> BOOLEAN]
  /\ starting \in [Services -> {"none", "missed", "executing", "last", "started"}]

Steady ==
  /\ Sound
  /\ StoresOrderly
  /\ GatewayOK
  /\ Armed

\* What SlotsNotSkipped says of a job.
Excused(j) == Skips(j) =>
  \/ \E b \in Batches : runs[b][j].is \in Outcomes /\ runs'[b][j].is = "none"
  \/ \E v \in Services :
       \/ starting[v] = "last" /\ starting'[v] = "started"
       \/ mem[v][j] # disk[j] /\ mem[v][j].next = disk'[j].next
       \/ Delete(v, j, TRUE)
       \/ \E at \in Clock : \/ \E k \in Jobs : Add(v, k, at, TRUE)
                            \/ \E patch \in {"enable", "disable", "schedule"} :
                                 Update(v, j, patch, at, TRUE)

\* What SchedulerAlive says of a step.
Unsaid ==
  /\ context # current
  /\ \/ List(context, TRUE)
     \/ \E j \in Jobs, force \in BOOLEAN : Run(context, j, force, TRUE)
Heard == Silent' => Silent \/ Unsaid

Kept == StoresOrderly' /\ GatewayOK' /\ Armed' /\ Heard /\ \A j \in Jobs : Excused(j)

\* A job whose next run stays is not passed over.
LEMMA StaysExcused ==
  ASSUME NEW j \in Jobs, disk[j] \in JobType,
         Pending(disk[j]) => Pending(disk[j])' /\ disk'[j].next = disk[j].next
  PROVE  Excused(j)
<1> SUFFICES ASSUME Skips(j)
             PROVE  FALSE
  BY DEF Excused
<1>1. disk[j].next \in Nat /\ disk'[j].next > disk[j].next /\ Pending(disk[j])
  BY DEF Skips, Pending, JobType
<1>2. QED
  BY <1>1

\* Neither is one that is written as the memory of a service has it, unless
\* the memory is behind the file.
LEMMA CopyExcused ==
  ASSUME NEW j \in Jobs, disk[j] \in JobType, NEW v \in Services,
         disk'[j].next = mem[v][j].next, Pending(mem[v][j]) => Pending(disk[j])'
  PROVE  Excused(j)
<1>1. CASE mem[v][j] = disk[j]
  BY <1>1, StaysExcused
<1>2. CASE mem[v][j] # disk[j]
  BY <1>2 DEF Excused
<1>3. QED
  BY <1>1, <1>2

LEMMA ArmDoes ==
  ASSUME GatewayOK, NEW v \in Services, NEW st, Arm(v, st)
  PROVE  /\ timer' \in [Services -> BOOLEAN]
         /\ timer'[v] <=> SomePending(st)
         /\ \A w \in Services \ {v} : timer'[w] = timer[w]
<1>1. timer' = [timer EXCEPT ![v] = SomePending(st)] /\ SomePending(st) \in BOOLEAN
  BY DEF Arm, SomePending
<1>2. QED
  BY <1>1 DEF GatewayOK

LEMMA WriteCounts ==
  ASSUME GatewayOK, NEW st, NEW ok \in BOOLEAN, Write(st, ok)
  PROVE  /\ failures' \in Nat
         /\ failures' = 0 => ok /\ failures = 0 /\ disk' = st
BY DEF Write, GatewayOK

\* A service that writes a store and arms for it keeps its memory armed.
LEMMA WriterArmed ==
  ASSUME CronTypeOK, GatewayOK, Armed, NEW w \in Services, NEW st, NEW ok \in BOOLEAN,
         Write(st, ok), UNCHANGED <<context, current>>,
         \A v \in Services \ {w} :
           mem'[v] = mem[v] /\ timer'[v] = timer[v] /\ starting'[v] = starting[v],
         w = context => mem'[w] = st,
         Ready' /\ ok /\ SomePending(st) /\ w = context => timer'[w]
  PROVE  Armed'
<1> SUFFICES ASSUME Ready', SomePending(mem[context])'
             PROVE  timer'[context]
  BY DEF Armed
<1>1. failures' = 0 /\ current # 0 /\ current = context /\ starting'[current] = "started"
  BY DEF Ready
<1>2. ok /\ failures = 0 /\ disk' = st
  BY <1>1, WriteCounts
<1>4. context \in Services
  BY <1>1 DEF GatewayOK, Services
<1>5. CASE w = context
  <2>1. SomePending(mem[context])' <=> SomePending(st)
    BY <1>1, <1>5 DEF SomePending
  <2>2. QED
    BY <1>2, <1>5, <2>1
<1>6. CASE w # context
  <2>1. mem'[context] = mem[context] /\ timer'[context] = timer[context]
          /\ starting'[context] = starting[context]
    BY <1>4, <1>6
  <2>2. Ready
    BY <1>1, <1>2, <2>1 DEF Ready
  <2>3. SomePending(mem[context])' <=> SomePending(mem[context])
    BY <2>1 DEF SomePending
  <2>4. QED
    BY <2>1, <2>2, <2>3 DEF Armed
<1>7. QED
  BY <1>5, <1>6

\* It does not silence the scheduler either.
LEMMA WriterHeard ==
  ASSUME GatewayOK, NEW w \in Services, NEW st, NEW ok \in BOOLEAN, Write(st, ok),
         ok /\ SomePending(st) => Wakes(w)'
  PROVE  Heard
<1> SUFFICES ASSUME Silent'
             PROVE  FALSE
  BY DEF Heard
<1>1. failures' = 0 /\ (\E j \in Jobs : Pending(disk[j])') /\ ~Wakes(w)'
  BY DEF Silent, Wakes
<1>2. ok /\ disk' = st
  BY <1>1, WriteCounts
<1>3. SomePending(st)
  BY <1>1, <1>2 DEF SomePending, Pending
<1>4. QED
  BY <1>1, <1>2, <1>3

\* A step that writes nothing and takes no timer does neither.
LEMMA BystanderArmed ==
  ASSUME CronTypeOK, GatewayOK, Armed, UNCHANGED <<disk, failures, timer, context, current>>,
         \A v \in Services :
           /\ starting'[v] = starting[v] \/ starting'[v] = "last"
           /\ SomePending(mem[v])' => SomePending(mem[v])
  PROVE  Armed' /\ Heard
<1>1. Armed'
  <2> SUFFICES ASSUME Ready', SomePending(mem[context])'
               PROVE  timer[context]
    BY DEF Armed
  <2>1. failures = 0 /\ current # 0 /\ current = context /\ starting'[current] = "started"
    BY DEF Ready
  <2>2. context \in Services
    BY <2>1 DEF GatewayOK, Services
  <2>3. Ready
    BY <2>1, <2>2 DEF Ready
  <2>4. SomePending(mem[context])
    BY <2>2
  <2>5. QED
    BY <2>3, <2>4 DEF Armed
<1>2. Heard
  <2> SUFFICES ASSUME Silent'
               PROVE  Silent
    BY DEF Heard
  <2>1. \A v \in Services : starting'[v] = starting[v]
    BY DEF Silent
  <2>2. current # 0 /\ current \in Services
    BY DEF Silent, GatewayOK, Services
  <2>3. QED
    BY <2>1, <2>2 DEF Silent, Pending
<1>3. QED
  BY <1>1, <1>2

LEMMA NotReadyArmed ==
  ASSUME current' = 0 \/ starting'[current'] # "started"
  PROVE  Armed' /\ Heard
BY DEF Armed, Ready, Heard, Silent

LEMMA SaveMem ==
  ASSUME CronTypeOK, NEW w \in Services, NEW st, NEW ok, Save(w, st, ok)
  PROVE  /\ \A v \in Services \ {w} : mem'[v] = mem[v]
         /\ w = context => mem'[w] = st
         /\ Write(st, ok)
BY DEF Save, Reads, CronTypeOK

-----------------------------------------------------------------------------
(* Steps *)

LEMMA SteadyTypes ==
  ASSUME Steady
  PROVE  /\ CronTypeOK /\ GatewayOK /\ StoresOrderly /\ Armed
         /\ clock \in Clock
         /\ disk \in [Jobs -> JobType] /\ OrderlyStore(disk)
         /\ \A v \in Services : mem[v] \in [Jobs -> JobType] /\ OrderlyStore(mem[v])
BY DEF Steady, Sound, CronTypeOK, StoresOrderly

LEMMA BootKept ==
  ASSUME Steady, NEW ok \in BOOLEAN, Boot(ok) \/ HotReload(ok)
  PROVE  Kept
<1> DEFINE v == services + 1
           st == [j \in Jobs |-> [disk[j] EXCEPT !.running = None]]
           kept == IF ok \/ v = context' THEN st ELSE NoStore
<1>0. /\ CronTypeOK /\ GatewayOK /\ StoresOrderly
      /\ disk \in [Jobs -> JobType] /\ OrderlyStore(disk)
      /\ services \in Nat
  BY SteadyTypes DEF CronTypeOK
<1>1. /\ v \in Services /\ v # 0
      /\ v \in 0..MaxServices
  BY <1>0, BoundsAssumption DEF Boot, HotReload, Services
<1>2. /\ Write(st, ok)
      /\ mem' = [mem EXCEPT ![v] = kept]
      /\ starting' = [starting EXCEPT ![v] = IF ok THEN "missed" ELSE "none"]
      /\ current' = v
      /\ context' \in {context, v}
      /\ timer' = timer \/ timer' = [timer EXCEPT ![current] = FALSE]
  BY DEF Boot, HotReload, StartClear
<1>3. \A j \in Jobs : /\ Orderly(j, st[j])
                      /\ Pending(st[j]) <=> Pending(disk[j])
                      /\ st[j].next = disk[j].next
  BY <1>0, RunningSet DEF OrderlyStore
<1> HIDE DEF st
<1>4. OrderlyStore(st)
  BY <1>3 DEF OrderlyStore
<1>5. OrderlyStore(kept)
  BY <1>4, NoStoreOrderly
<1> HIDE DEF kept
<1>6. StoresOrderly'
  <2>1. \A w \in Services : OrderlyStore(mem'[w])
    BY <1>0, <1>2, <1>5, MemOrderly
  <2>2. OrderlyStore(disk)'
    BY <1>0, <1>2, <1>4, WriteOrderly
  <2>3. QED
    BY <2>1, <2>2 DEF StoresOrderly, OrderlyStore
<1>7. failures' \in Nat
  BY <1>0, <1>2, WriteCounts
<1> HIDE DEF v
<1>8. GatewayOK'
  <2>1. timer' \in [Services -> BOOLEAN]
    BY <1>0, <1>2 DEF GatewayOK
  <2>2. starting' \in [Services -> {"none", "missed", "executing", "last", "started"}]
    BY <1>0, <1>2 DEF GatewayOK
  <2>3. QED
    BY <1>0, <1>1, <1>2, <1>7, <2>1, <2>2 DEF GatewayOK
<1>9. starting'[current'] # "started"
  BY <1>0, <1>1, <1>2 DEF GatewayOK
<1>10. ASSUME NEW j \in Jobs
       PROVE  Excused(j)
  <2>1. disk' = st \/ disk' = disk
    BY <1>2 DEF Write
  <2>2. QED
    BY <1>0, <1>3, <2>1, StaysExcused
<1>11. QED
  BY <1>6, <1>8, <1>9, <1>10, NotReadyArmed DEF Kept

LEMMA StartMissedKept ==
  ASSUME Steady, NEW v \in Services, NEW ok \in BOOLEAN, StartMissed(v, ok)
  PROVE  Kept
<1> DEFINE missed == {j \in Jobs \ interrupted[v] : Missed(j, mem[v][j])}
           st == Marked(mem[v], missed)
<1>0. /\ CronTypeOK /\ GatewayOK /\ StoresOrderly /\ Armed
      /\ disk \in [Jobs -> JobType]
      /\ mem[v] \in [Jobs -> JobType] /\ OrderlyStore(mem[v])
  BY SteadyTypes
<1>1. /\ starting[v] = "missed"
      /\ UNCHANGED <<timer, context, current>>
  BY DEF StartMissed, gatewayVars
<1>2. CASE missed = {}
  <2> DEFINE kept == IF Reads(v) THEN mem[v] ELSE NoStore
  <2>1. /\ mem' = [mem EXCEPT ![v] = kept]
        /\ starting' = [starting EXCEPT ![v] = "last"]
        /\ UNCHANGED <<disk, failures>>
    BY <1>2 DEF StartMissed
  <2>2. OrderlyStore(kept) /\ (SomePending(kept) => SomePending(mem[v]))
    BY <1>0, NoStoreOrderly DEF SomePending
  <2> HIDE DEF kept
  <2>3. StoresOrderly'
    <3>1. \A w \in Services : OrderlyStore(mem'[w])
      BY <1>0, <2>1, <2>2, MemOrderly
    <3>2. QED
      BY <1>0, <2>1, <3>1 DEF StoresOrderly, OrderlyStore
  <2>4. GatewayOK'
    BY <1>0, <1>1, <2>1 DEF GatewayOK
  <2>5. Armed' /\ Heard
    <3>1. ASSUME NEW w \in Services
          PROVE  /\ starting'[w] = starting[w] \/ starting'[w] = "last"
                 /\ SomePending(mem[w])' => SomePending(mem[w])
      <4>1. starting'[w] = starting[w] \/ starting'[w] = "last"
        BY <1>0, <2>1 DEF GatewayOK
      <4>2. mem'[w] = IF w = v THEN kept ELSE mem[w]
        BY <1>0, <2>1 DEF CronTypeOK
      <4>3. QED
        BY <2>2, <4>1, <4>2 DEF SomePending
    <3>2. QED
      BY <1>0, <1>1, <2>1, <3>1, BystanderArmed
  <2>6. \A j \in Jobs : Excused(j)
    BY <1>0, <2>1, StaysExcused DEF Pending
  <2>7. QED
    BY <2>3, <2>4, <2>5, <2>6 DEF Kept
<1>3. CASE missed # {}
  <2> DEFINE kept == IF Reads(v) THEN st ELSE NoStore
  <2>1. /\ mem' = [mem EXCEPT ![v] = kept]
        /\ starting' = [starting EXCEPT ![v] = IF ok THEN "executing" ELSE "none"]
        /\ Write(st, ok)
    BY <1>3 DEF StartMissed
  <2>2. /\ OrderlyStore(st)
        /\ \A j \in Jobs : st[j].next = mem[v][j].next /\ (Pending(st[j]) <=> Pending(mem[v][j]))
    BY <1>0, MarkedOrderly
  <2> HIDE DEF missed, st
  <2>3. OrderlyStore(kept) /\ (v = context => kept = st)
    BY <2>2, NoStoreOrderly DEF Reads
  <2> HIDE DEF kept
  <2>4. StoresOrderly'
    <3>1. \A w \in Services : OrderlyStore(mem'[w])
      BY <1>0, <2>1, <2>3, MemOrderly
    <3>2. OrderlyStore(disk)'
      BY <1>0, <2>1, <2>2, WriteOrderly
    <3>3. QED
      BY <3>1, <3>2 DEF StoresOrderly, OrderlyStore
  <2>5. failures' \in Nat
    BY <1>0, <2>1, WriteCounts
  <2>6. GatewayOK'
    BY <1>0, <1>1, <2>1, <2>5 DEF GatewayOK
  <2>7. Armed' /\ Heard
    <3>1. \A w \in Services \ {v} :
            mem'[w] = mem[w] /\ timer'[w] = timer[w] /\ starting'[w] = starting[w]
      BY <1>0, <1>1, <2>1 DEF GatewayOK, CronTypeOK
    <3>2. mem'[v] = kept /\ starting'[v] = IF ok THEN "executing" ELSE "none"
      BY <1>0, <2>1 DEF GatewayOK, CronTypeOK
    <3>3. Ready' => v # context
      BY <1>1, <3>2 DEF Ready
    <3>4. ok => Wakes(v)'
      BY <3>2 DEF Wakes
    <3>5. QED
      BY <1>0, <1>1, <2>1, <2>3, <3>1, <3>2, <3>3, <3>4, WriterArmed, WriterHeard
  <2>8. ASSUME NEW j \in Jobs
        PROVE  Excused(j)
    <3>1. CASE ok
      <4>1. disk' = st
        BY <2>1, <3>1 DEF Write
      <4>2. QED
        BY <1>0, <2>2, <4>1, CopyExcused DEF Pending
    <3>2. CASE ~ok
      <4>1. disk' = disk
        BY <2>1, <3>2 DEF Write
      <4>2. QED
        BY <1>0, <4>1, StaysExcused DEF Pending
    <3>3. QED
      BY <3>1, <3>2
  <2>9. QED
    BY <2>4, <2>6, <2>7, <2>8 DEF Kept
<1>4. QED
  BY <1>2, <1>3

\* The sections that apply outcomes pass over no job without one.
LEMMA OutcomesExcused ==
  ASSUME Steady, NEW b \in Batches, PutAway(b), NEW ok \in BOOLEAN,
         NEW st, st = Maintained(WithOutcomes(b, disk)), disk' = IF ok THEN st ELSE disk,
         NEW j \in Jobs
  PROVE  Excused(j)
<1> DEFINE W == WithOutcomes(b, disk)
<1>0. CronTypeOK /\ disk \in [Jobs -> JobType] /\ clock \in Clock
  BY SteadyTypes
<1>1. W \in [Jobs -> JobType] /\ (runs[b][j].is \notin Outcomes => W[j] = disk[j])
  BY <1>0, OutcomesType
<1> HIDE DEF W
<1>2. /\ Upkeep(W, Maintained(W))
      /\ Pending(W[j]) => Maintained(W)[j].next = W[j].next
  BY <1>0, <1>1, MaintainedKeeps, MaintainedOrderly
<1>3. CASE runs[b][j].is \in Outcomes
  <2>1. runs'[b][j].is = "none"
    BY <1>0, PutAwayDoes DEF HasRun
  <2>2. QED
    BY <1>3, <2>1 DEF Excused
<1>4. CASE runs[b][j].is \notin Outcomes
  <2>1. Pending(disk[j]) => Pending(disk[j])' /\ disk'[j].next = disk[j].next
    BY <1>1, <1>2, <1>4 DEF W, Upkeep, Pending
  <2>2. QED
    BY <1>0, <2>1, StaysExcused
<1>5. QED
  BY <1>3, <1>4

LEMMA OutcomesKept ==
  ASSUME Steady, NEW v \in Services, NEW ok \in BOOLEAN, NEW b \in Batches,
         PutAway(b), UNCHANGED <<context, current>>,
         NEW st, st = Maintained(WithOutcomes(b, disk)), Save(v, st, ok),
         GatewayOK',
         \A w \in Services \ {v} : timer'[w] = timer[w] /\ starting'[w] = starting[w],
         ok /\ SomePending(st) => Wakes(v)',
         Ready' /\ ok /\ SomePending(st) /\ v = context => timer'[v]
  PROVE  Kept
<1>0. /\ CronTypeOK /\ GatewayOK /\ StoresOrderly /\ Armed /\ clock \in Clock
      /\ disk \in [Jobs -> JobType]
  BY SteadyTypes
<1>1. WithOutcomes(b, disk) \in [Jobs -> JobType]
  BY <1>0, OutcomesType
<1>2. OrderlyStore(st)
  BY <1>0, <1>1, MaintainedOrderly
<1>3. StoresOrderly'
  BY <1>0, <1>2, SaveOrderly
<1>4. /\ \A w \in Services \ {v} : mem'[w] = mem[w]
      /\ v = context => mem'[v] = st
      /\ Write(st, ok)
  BY <1>0, SaveMem
<1>5. Armed' /\ Heard
  BY <1>0, <1>4, WriterArmed, WriterHeard
<1>6. disk' = IF ok THEN st ELSE disk
  BY <1>4 DEF Write
<1>7. \A j \in Jobs : Excused(j)
  BY <1>6, OutcomesExcused
<1>8. QED
  BY <1>3, <1>5, <1>7 DEF Kept

LEMMA StartApplyKept ==
  ASSUME Steady, NEW v \in Services, NEW ok \in BOOLEAN, StartApply(v, ok)
  PROVE  Kept
<1> DEFINE b == <<v, "startup">>
           st == Maintained(WithOutcomes(b, disk))
<1>0. CronTypeOK /\ GatewayOK /\ b \in Batches
  BY SteadyTypes DEF Batches
<1>1. /\ starting' = [starting EXCEPT ![v] = IF ok THEN "last" ELSE "none"]
      /\ Save(v, st, ok) /\ PutAway(b)
      /\ UNCHANGED <<timer, context, current>>
  BY DEF StartApply, gatewayVars
<1> HIDE DEF b
<1>2. failures' \in Nat
  BY <1>0, <1>1, SaveMem, WriteCounts
<1>3. GatewayOK'
  BY <1>0, <1>1, <1>2 DEF GatewayOK
<1>4. /\ starting'[v] = IF ok THEN "last" ELSE "none"
      /\ \A w \in Services \ {v} : timer'[w] = timer[w] /\ starting'[w] = starting[w]
  BY <1>0, <1>1 DEF GatewayOK
<1>5. /\ Ready' => v # context
      /\ ok => Wakes(v)'
  BY <1>1, <1>4 DEF Ready, Wakes
<1>6. QED
  BY <1>0, <1>1, <1>3, <1>4, <1>5, OutcomesKept

LEMMA TickApplyKept ==
  ASSUME Steady, NEW v \in Services, NEW ok \in BOOLEAN, TickApply(v, ok)
  PROVE  Kept
<1> DEFINE b == <<v, "tick">>
           st == Maintained(WithOutcomes(b, disk))
<1>0. CronTypeOK /\ GatewayOK /\ b \in Batches
  BY SteadyTypes DEF Batches
<1>1. /\ Save(v, st, ok) /\ PutAway(b) /\ Arm(v, st)
      /\ UNCHANGED <<starting, context, current>>
  BY DEF TickApply, gatewayVars
<1> HIDE DEF b
<1>2. failures' \in Nat
  BY <1>0, <1>1, SaveMem, WriteCounts
<1>3. /\ timer' \in [Services -> BOOLEAN]
      /\ timer'[v] <=> SomePending(st)
      /\ \A w \in Services \ {v} : timer'[w] = timer[w]
  BY <1>0, <1>1, ArmDoes
<1>4. GatewayOK'
  BY <1>0, <1>1, <1>2, <1>3 DEF GatewayOK
<1>5. SomePending(st) => Wakes(v)' /\ timer'[v]
  BY <1>3 DEF Wakes
<1>6. QED
  BY <1>0, <1>1, <1>3, <1>4, <1>5, OutcomesKept

LEMMA StartLastKept ==
  ASSUME Steady, NEW v \in Services, NEW ok \in BOOLEAN, StartLast(v, ok)
  PROVE  Kept
<1> DEFINE st == Recomputed(disk)
<1>0. /\ CronTypeOK /\ GatewayOK /\ StoresOrderly /\ Armed /\ clock \in Clock
      /\ disk \in [Jobs -> JobType]
  BY SteadyTypes
<1>1. /\ starting[v] = "last"
      /\ starting' = [starting EXCEPT ![v] = IF ok THEN "started" ELSE "none"]
      /\ Save(v, st, ok)
      /\ IF ok THEN Arm(v, st) ELSE UNCHANGED timer
      /\ UNCHANGED <<context, current>>
  BY DEF StartLast, gatewayVars
<1>2. OrderlyStore(st)
  BY <1>0, RecomputedOrderly
<1> HIDE DEF st
<1>3. StoresOrderly'
  BY <1>0, <1>1, <1>2, SaveOrderly
<1>4. /\ \A w \in Services \ {v} : mem'[w] = mem[w]
      /\ v = context => mem'[v] = st
      /\ Write(st, ok)
  BY <1>0, <1>1, SaveMem
<1>5. failures' \in Nat
  BY <1>0, <1>4, WriteCounts
<1>6. /\ timer' \in [Services -> BOOLEAN]
      /\ ok => (timer'[v] <=> SomePending(st))
      /\ \A w \in Services \ {v} : timer'[w] = timer[w]
  BY <1>0, <1>1, ArmDoes DEF GatewayOK
<1>7. GatewayOK'
  BY <1>0, <1>1, <1>5, <1>6 DEF GatewayOK
<1>8. Armed' /\ Heard
  <2>1. \A w \in Services \ {v} :
          mem'[w] = mem[w] /\ timer'[w] = timer[w] /\ starting'[w] = starting[w]
    BY <1>0, <1>1, <1>4, <1>6 DEF GatewayOK
  <2>2. ok /\ SomePending(st) => Wakes(v)' /\ timer'[v]
    BY <1>6 DEF Wakes
  <2>3. QED
    BY <1>0, <1>1, <1>4, <2>1, <2>2, WriterArmed, WriterHeard
<1>9. ASSUME NEW j \in Jobs
      PROVE  Excused(j)
  <2>1. CASE ok
    <3>1. starting'[v] = "started"
      BY <1>0, <1>1, <2>1 DEF GatewayOK
    <3>2. QED
      BY <1>1, <3>1 DEF Excused
  <2>2. CASE ~ok
    BY <1>0, <1>4, <2>2, StaysExcused DEF Write, Pending
  <2>3. QED
    BY <2>1, <2>2
<1>10. QED
  BY <1>3, <1>7, <1>8, <1>9 DEF Kept

LEMMA BeginTickKept ==
  ASSUME Steady, NEW v \in Services, NEW ok \in BOOLEAN, BeginTick(v, ok), timer[v],
         UNCHANGED <<starting, context, current>>
  PROVE  Kept
<1> DEFINE due == {j \in Jobs : Runnable(disk[j])}
           st == IF due = {} THEN Maintained(disk) ELSE Marked(disk, due)
<1>0. /\ CronTypeOK /\ GatewayOK /\ StoresOrderly /\ Armed /\ clock \in Clock
      /\ disk \in [Jobs -> JobType] /\ OrderlyStore(disk)
  BY SteadyTypes
<1>1. /\ Save(v, st, ok)
      /\ UNCHANGED timer \/ Arm(v, st)
  BY DEF BeginTick
<1>2. /\ OrderlyStore(st)
      /\ \A j \in Jobs : Pending(disk[j]) => Pending(st[j]) /\ st[j].next = disk[j].next
  <2>1. CASE due = {}
    <3>1. Upkeep(disk, Maintained(disk))
      BY <1>0, MaintainedKeeps
    <3>2. /\ OrderlyStore(Maintained(disk))
          /\ \A j \in Jobs : Pending(disk[j]) => Maintained(disk)[j].next = disk[j].next
      BY <1>0, MaintainedOrderly
    <3>3. QED
      BY <2>1, <3>1, <3>2 DEF Upkeep, Pending
  <2>2. CASE due # {}
    BY <1>0, <2>2, MarkedOrderly
  <2>3. QED
    BY <2>1, <2>2
<1> HIDE DEF due, st
<1>3. StoresOrderly'
  BY <1>0, <1>1, <1>2, SaveOrderly
<1>4. /\ \A w \in Services \ {v} : mem'[w] = mem[w]
      /\ v = context => mem'[v] = st
      /\ Write(st, ok)
  BY <1>0, <1>1, SaveMem
<1>5. failures' \in Nat
  BY <1>0, <1>4, WriteCounts
<1>6. /\ timer' \in [Services -> BOOLEAN]
      /\ SomePending(st) => timer'[v]
      /\ \A w \in Services \ {v} : timer'[w] = timer[w]
  BY <1>0, <1>1, ArmDoes DEF GatewayOK
<1>7. GatewayOK'
  BY <1>0, <1>5, <1>6 DEF GatewayOK
<1>8. Armed' /\ Heard
  <2>1. SomePending(st) => Wakes(v)' /\ timer'[v]
    BY <1>6 DEF Wakes
  <2>2. QED
    BY <1>0, <1>4, <1>6, <2>1, WriterArmed, WriterHeard
<1>9. ASSUME NEW j \in Jobs
      PROVE  Excused(j)
  BY <1>0, <1>2, <1>4, StaysExcused DEF Write, Pending
<1>10. QED
  BY <1>3, <1>7, <1>8, <1>9 DEF Kept

\* A step that leaves the file, the timers and what memory has pending.
LEMMA BystanderKept ==
  ASSUME Steady, UNCHANGED <<disk, failures, timer, starting, context, current>>,
         \A v \in Services : /\ OrderlyStore(mem[v])'
                             /\ SomePending(mem[v])' => SomePending(mem[v])
  PROVE  Kept
<1>0. /\ CronTypeOK /\ GatewayOK /\ StoresOrderly /\ Armed
      /\ disk \in [Jobs -> JobType]
  BY SteadyTypes
<1>1. StoresOrderly'
  BY <1>0 DEF StoresOrderly, OrderlyStore
<1>2. GatewayOK'
  BY <1>0 DEF GatewayOK
<1>3. Armed' /\ Heard
  BY <1>0, BystanderArmed
<1>4. \A j \in Jobs : Excused(j)
  BY <1>0, StaysExcused DEF Pending
<1>5. QED
  BY <1>1, <1>2, <1>3, <1>4 DEF Kept

\* In particular one that leaves the memory as well.
LEMMA QuietKept ==
  ASSUME Steady, UNCHANGED <<disk, mem, failures, timer, starting, context, current>>
  PROVE  Kept
<1>1. ASSUME NEW v \in Services
      PROVE  OrderlyStore(mem[v])' /\ (SomePending(mem[v])' => SomePending(mem[v]))
  BY SteadyTypes DEF OrderlyStore, SomePending
<1>2. QED
  BY <1>1, BystanderKept

LEMMA TimerFiresKept ==
  ASSUME Steady, NEW v \in Services, NEW ok \in BOOLEAN, TimerFires(v, ok)
  PROVE  Kept
<1>1. timer[v] /\ UNCHANGED <<starting, context, current>>
  BY DEF TimerFires, gatewayVars
<1>2. CASE UNCHANGED <<storeVars, timer, runs, attached, historyVars>>
  BY <1>1, <1>2, QuietKept DEF storeVars
<1>3. CASE BeginTick(v, ok)
  BY <1>1, <1>3, BeginTickKept
<1>4. QED
  BY <1>2, <1>3 DEF TimerFires

LEMMA BeginRunKept ==
  ASSUME Steady, NEW b \in Batches, NEW j \in Jobs, BeginRun(b, j)
  PROVE  Kept
<1>0. /\ CronTypeOK
      /\ \A v \in Services : mem[v] \in [Jobs -> JobType] /\ OrderlyStore(mem[v])
  BY SteadyTypes
<1>1. b[1] \in Services
  BY DEF Batches
<1> DEFINE f == [mem[b[1]] EXCEPT ![j].running = clock]
<1>2. \/ mem' = mem
      \/ mem' = [mem EXCEPT ![b[1]] = f]
  BY <1>0, <1>1 DEF BeginRun, CronTypeOK
<1>3. UNCHANGED <<disk, failures, timer, starting, context, current>>
  BY DEF BeginRun, gatewayVars, serviceVars
<1>4. ASSUME NEW i \in Jobs
      PROVE  Orderly(i, f[i]) /\ (Pending(f[i]) => Pending(mem[b[1]][i]))
  <2>1. mem[b[1]] \in [Jobs -> JobType] /\ Orderly(i, mem[b[1]][i])
    BY <1>0, <1>1 DEF OrderlyStore
  <2> DEFINE r == mem[b[1]][i]
  <2>2. r \in JobType
    BY <2>1
  <2>3. f[i] = IF i = j THEN [r EXCEPT !.running = clock] ELSE r
    BY <2>1
  <2> HIDE DEF r, f
  <2>4. QED
    BY <2>1, <2>2, <2>3, RunningSet DEF r
<1> HIDE DEF f
<1>5. ASSUME NEW v \in Services
      PROVE  OrderlyStore(mem[v])' /\ (SomePending(mem[v])' => SomePending(mem[v]))
  <2>1. mem'[v] = mem[v] \/ (v = b[1] /\ mem'[v] = f)
    BY <1>0, <1>2 DEF CronTypeOK
  <2>2. QED
    BY <1>0, <1>4, <2>1 DEF OrderlyStore, SomePending
<1>6. QED
  BY <1>3, <1>5, BystanderKept

LEMMA EndRunKept ==
  ASSUME Steady, NEW b \in Batches, NEW j \in Jobs, NEW outcome \in Outcomes,
         EndRun(b, j, outcome)
  PROVE  Kept
BY QuietKept DEF EndRun, storeVars, gatewayVars, serviceVars

-----------------------------------------------------------------------------
(* Calls *)

\* A call that writes what the memory of the service has become.
LEMMA CallKept ==
  ASSUME Steady, NEW v \in Services, v = context, NEW ok \in BOOLEAN, NEW st,
         Save(v, st, ok), OrderlyStore(st),
         UNCHANGED <<starting, context, current>>,
         \/ IF ok THEN Arm(v, st) ELSE UNCHANGED timer
         \/ /\ UNCHANGED timer /\ (SomePending(st) => SomePending(mem[v]))
            /\ List(v, ok) \/ \E j \in Jobs, force \in BOOLEAN : Run(v, j, force, ok),
         ok => \A j \in Jobs : disk' = st => Excused(j)
  PROVE  Kept
<1>0. /\ CronTypeOK /\ GatewayOK /\ StoresOrderly /\ Armed
      /\ disk \in [Jobs -> JobType]
  BY SteadyTypes
<1>1. StoresOrderly'
  BY <1>0, SaveOrderly
<1>2. /\ \A w \in Services \ {v} : mem'[w] = mem[w]
      /\ v = context => mem'[v] = st
      /\ Write(st, ok)
  BY <1>0, SaveMem
<1>3. failures' \in Nat /\ (failures' = 0 => failures = 0)
  BY <1>0, <1>2, WriteCounts
<1>4. /\ timer' \in [Services -> BOOLEAN]
      /\ \A w \in Services \ {v} : timer'[w] = timer[w]
      /\ Ready' /\ ok /\ SomePending(st) => timer'[v]
  <2>1. CASE IF ok THEN Arm(v, st) ELSE UNCHANGED timer
    BY <1>0, <2>1, ArmDoes DEF GatewayOK
  <2>2. CASE UNCHANGED timer /\ (SomePending(st) => SomePending(mem[v]))
    <3>1. Ready' => Ready
      BY <1>3 DEF Ready
    <3>2. QED
      BY <1>0, <2>2, <3>1 DEF Armed, GatewayOK
  <2>3. QED
    BY <2>1, <2>2
<1>5. GatewayOK'
  BY <1>0, <1>3, <1>4 DEF GatewayOK
<1>6. Armed' /\ Heard
  <2>1. Armed'
    BY <1>0, <1>2, <1>4, WriterArmed
  <2>2. CASE IF ok THEN Arm(v, st) ELSE UNCHANGED timer
    <3>1. ok /\ SomePending(st) => Wakes(v)'
      BY <1>0, <2>2, ArmDoes DEF Wakes
    <3>2. QED
      BY <1>0, <1>2, <2>1, <3>1, WriterHeard
  <2>3. CASE List(v, ok) \/ \E j \in Jobs, force \in BOOLEAN : Run(v, j, force, ok)
    <3>1. CASE context # current
      <4>1. ok => Unsaid
        BY <2>3, <3>1 DEF Unsaid
      <4>2. ~ok => Heard
        BY <1>0, <1>2, WriterHeard
      <4>3. QED
        BY <2>1, <4>1, <4>2 DEF Heard
    <3>2. CASE context = current
      <4> SUFFICES ASSUME Silent'
                   PROVE  FALSE
        BY <2>1 DEF Heard
      <4>1. Ready' /\ ~timer'[v] /\ failures' = 0 /\ \E j \in Jobs : Pending(disk[j])'
        BY <3>2 DEF Silent, Ready
      <4>2. ok /\ disk' = st
        BY <1>0, <1>2, <4>1, WriteCounts
      <4>3. SomePending(st)
        BY <4>1, <4>2 DEF SomePending, Pending
      <4>4. QED
        BY <1>4, <4>1, <4>2, <4>3
    <3>3. QED
      BY <3>1, <3>2
  <2>4. QED
    BY <2>2, <2>3
<1>7. ASSUME NEW j \in Jobs
      PROVE  Excused(j)
  <2>1. CASE ok
    BY <1>2, <2>1 DEF Write
  <2>2. CASE ~ok
    BY <1>0, <1>2, <2>2, StaysExcused DEF Write, Pending
  <2>3. QED
    BY <2>1, <2>2
<1>8. QED
  BY <1>1, <1>5, <1>6, <1>7 DEF Kept

LEMMA AddKept ==
  ASSUME Steady, NEW v \in Services, NEW j \in Jobs, NEW at \in Clock, NEW ok \in BOOLEAN,
         Add(v, j, at, ok)
  PROVE  Kept
<1> DEFINE job == [Absent EXCEPT !.stored = TRUE, !.enabled = TRUE, !.at = at]
           new == [job EXCEPT !.next = NextRun(j, job, clock)]
           M == [mem[v] EXCEPT ![j] = new]
           st == Recomputed(M)
<1>0. mem[v] \in [Jobs -> JobType] /\ clock \in Clock
  BY SteadyTypes
<1>1. job \in JobType
  BY ClockFacts DEF Absent, JobType
<1>2. NextRun(j, job, clock) \in Nat \cup {None}
  BY <1>0, <1>1, ClockFacts, NextRunType
<1>3. /\ v = context /\ Save(v, st, ok)
      /\ UNCHANGED <<starting, context, current>>
      /\ IF ok THEN Arm(v, st) ELSE UNCHANGED timer
  BY DEF Add, Called, gatewayVars
<1>4. ok => \A i \in Jobs : Excused(i)
  BY DEF Excused
<1> HIDE DEF job
<1>5. new \in JobType
  BY <1>1, <1>2 DEF JobType
<1> HIDE DEF new
<1>6. M \in [Jobs -> JobType]
  BY <1>0, <1>5
<1> HIDE DEF M
<1>7. OrderlyStore(st)
  BY <1>0, <1>6, RecomputedOrderly
<1> HIDE DEF st
<1>8. QED
  BY <1>3, <1>4, <1>7, CallKept

LEMMA UpdateKept ==
  ASSUME Steady, NEW v \in Services, NEW j \in Jobs,
         NEW patch \in {"enable", "disable", "schedule"}, NEW at \in Clock, NEW ok \in BOOLEAN,
         Update(v, j, patch, at, ok)
  PROVE  Kept
<1> DEFINE new == Patched(j, mem[v][j], patch, at)
           st == [mem[v] EXCEPT ![j] = new]
<1>0. /\ mem[v] \in [Jobs -> JobType] /\ OrderlyStore(mem[v])
      /\ disk \in [Jobs -> JobType] /\ clock \in Clock /\ at \in Nat
  BY SteadyTypes, ClockFacts
<1>1. Orderly(j, new)
  BY <1>0, PatchedOrderly
<1>2. /\ v = context /\ Save(v, st, ok)
      /\ UNCHANGED <<starting, context, current>>
      /\ IF ok THEN Arm(v, st) ELSE UNCHANGED timer
  BY DEF Update, Called, gatewayVars
<1>3. ok => Excused(j)
  BY DEF Excused
<1> HIDE DEF new
<1>4. \A i \in Jobs : st[i] = IF i = j THEN new ELSE mem[v][i]
  BY <1>0
<1> HIDE DEF st
<1>5. OrderlyStore(st)
  BY <1>0, <1>1, <1>4 DEF OrderlyStore
<1>6. ASSUME ok, NEW i \in Jobs, disk' = st
      PROVE  Excused(i)
  <2>1. CASE i = j
    BY <1>3, <1>6, <2>1
  <2>2. CASE i # j
    BY <1>0, <1>4, <1>6, <2>2, CopyExcused DEF Pending
  <2>3. QED
    BY <2>1, <2>2
<1>7. QED
  BY <1>2, <1>5, <1>6, CallKept

LEMMA DeleteKept ==
  ASSUME Steady, NEW v \in Services, NEW j \in Jobs, NEW ok \in BOOLEAN, Delete(v, j, ok)
  PROVE  Kept
<1> DEFINE st == [mem[v] EXCEPT ![j] = Absent]
<1>0. /\ mem[v] \in [Jobs -> JobType] /\ OrderlyStore(mem[v])
      /\ disk \in [Jobs -> JobType]
  BY SteadyTypes
<1>1. Orderly(j, Absent)
  BY DEF Orderly, Absent
<1>2. /\ v = context /\ Save(v, st, ok)
      /\ UNCHANGED <<starting, context, current>>
      /\ IF ok THEN Arm(v, st) ELSE UNCHANGED timer
  BY DEF Delete, Called, gatewayVars
<1>3. ok => Excused(j)
  BY DEF Excused
<1>4. \A i \in Jobs : st[i] = IF i = j THEN Absent ELSE mem[v][i]
  BY <1>0
<1> HIDE DEF st
<1>5. OrderlyStore(st)
  BY <1>0, <1>1, <1>4 DEF OrderlyStore
<1>6. ASSUME ok, NEW i \in Jobs, disk' = st
      PROVE  Excused(i)
  <2>1. CASE i = j
    BY <1>3, <1>6, <2>1
  <2>2. CASE i # j
    BY <1>0, <1>4, <1>6, <2>2, CopyExcused DEF Pending
  <2>3. QED
    BY <2>1, <2>2
<1>7. QED
  BY <1>2, <1>5, <1>6, CallKept

\* What maintenance leaves of a store that is in order.
LEMMA MaintainedSame ==
  ASSUME NEW st \in [Jobs -> JobType], OrderlyStore(st), clock \in Clock
  PROVE  /\ Maintained(st) \in [Jobs -> JobType]
         /\ OrderlyStore(Maintained(st))
         /\ \A j \in Jobs : /\ Maintained(st)[j].next = st[j].next
                            /\ Pending(Maintained(st)[j]) <=> Pending(st[j])
<1>1. Upkeep(st, Maintained(st))
  BY MaintainedKeeps
<1>2. OrderlyStore(Maintained(st)) /\ \A j \in Jobs : Maintained(st)[j].next = st[j].next
  BY MaintainedOrderly DEF OrderlyStore
<1>3. QED
  BY <1>1, <1>2 DEF Upkeep, Pending

LEMMA ListKept ==
  ASSUME Steady, NEW v \in Services, NEW ok \in BOOLEAN, List(v, ok)
  PROVE  Kept
<1> DEFINE st == Maintained(mem[v])
<1>0. /\ mem[v] \in [Jobs -> JobType] /\ OrderlyStore(mem[v])
      /\ disk \in [Jobs -> JobType] /\ clock \in Clock
  BY SteadyTypes
<1>1. /\ v = context /\ Save(v, st, ok)
      /\ UNCHANGED <<timer, starting, context, current>>
  BY DEF List, Called, gatewayVars, serviceVars
<1>2. /\ OrderlyStore(st)
      /\ \A j \in Jobs : st[j].next = mem[v][j].next /\ (Pending(st[j]) <=> Pending(mem[v][j]))
  BY <1>0, MaintainedSame
<1> HIDE DEF st
<1>3. SomePending(st) => SomePending(mem[v])
  BY <1>2 DEF SomePending
<1>4. ASSUME ok, NEW i \in Jobs, disk' = st
      PROVE  Excused(i)
  BY <1>0, <1>2, <1>4, CopyExcused DEF Pending
<1>5. QED
  BY <1>1, <1>2, <1>3, <1>4, CallKept

LEMMA RunKept ==
  ASSUME Steady, NEW v \in Services, NEW j \in Jobs, NEW force \in BOOLEAN, NEW ok \in BOOLEAN,
         Run(v, j, force, ok)
  PROVE  Kept
<1> DEFINE kept == Maintained(mem[v])
           st == Marked(kept, {j})
<1>0. /\ CronTypeOK
      /\ mem[v] \in [Jobs -> JobType] /\ OrderlyStore(mem[v])
      /\ disk \in [Jobs -> JobType] /\ clock \in Clock
  BY SteadyTypes
<1>1. v = context /\ UNCHANGED <<timer, starting, context, current>>
  BY DEF Run, Called, gatewayVars, serviceVars
<1>2. /\ kept \in [Jobs -> JobType]
      /\ OrderlyStore(kept)
      /\ \A i \in Jobs : kept[i].next = mem[v][i].next
                           /\ (Pending(kept[i]) <=> Pending(mem[v][i]))
  BY <1>0, MaintainedSame
<1>3. CASE Save(v, st, ok)
  <2> HIDE DEF kept
  <2>1. /\ OrderlyStore(st)
        /\ \A i \in Jobs : st[i].next = mem[v][i].next
                             /\ (Pending(st[i]) <=> Pending(mem[v][i]))
    BY <1>2, MarkedOrderly
  <2> HIDE DEF st
  <2>2. SomePending(st) => SomePending(mem[v])
    BY <2>1 DEF SomePending
  <2>3. ASSUME ok, NEW i \in Jobs, disk' = st
        PROVE  Excused(i)
    BY <1>0, <2>1, <2>3, CopyExcused DEF Pending
  <2>4. \E i \in Jobs, forced \in BOOLEAN : Run(v, i, forced, ok)
    OBVIOUS
  <2>5. QED
    BY <1>1, <1>3, <2>1, <2>2, <2>3, <2>4, CallKept
<1>4. CASE mem' = [mem EXCEPT ![v] = kept] /\ UNCHANGED <<disk, failures>>
  <2> HIDE DEF kept
  <2>1. ASSUME NEW w \in Services
        PROVE  OrderlyStore(mem[w])' /\ (SomePending(mem[w])' => SomePending(mem[w]))
    <3>1. mem'[w] = IF w = v THEN kept ELSE mem[w]
      BY <1>0, <1>4 DEF CronTypeOK
    <3>2. OrderlyStore(mem[w])
      BY SteadyTypes
    <3>3. QED
      BY <1>2, <3>1, <3>2 DEF OrderlyStore, SomePending
  <2>2. QED
    BY <1>1, <1>4, <2>1, BystanderKept
<1>5. QED
  BY <1>3, <1>4 DEF Run

LEMMA RunApplyKept ==
  ASSUME Steady, NEW v \in Services, NEW j \in Jobs, NEW ok \in BOOLEAN, RunApply(v, j, ok)
  PROVE  Kept
<1> DEFINE b == <<v, "manual">>
           snapshot == Applied(j, mem[v][j], runs[b][j])
           merged == IF snapshot = Absent THEN Absent
                     ELSE IF disk[j].stored THEN [snapshot EXCEPT !.at = disk[j].at]
                     ELSE disk[j]
           W == [disk EXCEPT ![j] = merged]
           st == Maintained(W)
           here == v = context \/ starting[v] = "missed"
<1>0. /\ CronTypeOK /\ GatewayOK /\ StoresOrderly /\ Armed
      /\ b \in Batches
      /\ mem[v] \in [Jobs -> JobType] /\ mem[v][j] \in JobType
      /\ disk \in [Jobs -> JobType] /\ disk[j] \in JobType
      /\ runs[b][j] \in RunType
      /\ clock \in Clock
  BY SteadyTypes DEF Batches, CronTypeOK
<1>1. /\ runs[b][j].is \in Outcomes
      /\ PutAway(b)
      /\ UNCHANGED <<starting, context, current>>
  BY DEF RunApply, gatewayVars
<1>2. runs'[b][j].is = "none"
  BY <1>0, <1>1, PutAwayDoes DEF HasRun
<1>3. Excused(j)
  BY <1>0, <1>1, <1>2 DEF Excused
<1>4. CASE /\ mem' = [mem EXCEPT ![v] = IF here THEN st ELSE NoStore]
           /\ Write(st, ok)
           /\ IF ok THEN Arm(v, st) ELSE UNCHANGED timer
  <2> DEFINE kept == IF here THEN st ELSE NoStore
  <2>1. snapshot \in JobType
    BY <1>0, AppliedType
  <2> HIDE DEF snapshot, b
  <2>2. merged \in JobType
    BY <1>0, <2>1, AbsentType DEF JobType
  <2> HIDE DEF merged
  <2>3. W \in [Jobs -> JobType] /\ \A i \in Jobs \ {j} : W[i] = disk[i]
    BY <1>0, <2>2
  <2> HIDE DEF W
  <2>4. /\ OrderlyStore(st)
        /\ Upkeep(W, st)
        /\ \A i \in Jobs : Pending(W[i]) => st[i].next = W[i].next
    BY <1>0, <2>3, MaintainedOrderly, MaintainedKeeps
  <2> HIDE DEF st
  <2>5. OrderlyStore(kept) /\ (v = context => kept = st)
    BY <2>4, NoStoreOrderly
  <2> HIDE DEF kept, here
  <2>6. mem' = [mem EXCEPT ![v] = kept]
    BY <1>4 DEF kept
  <2>7. StoresOrderly'
    <3>1. \A w \in Services : OrderlyStore(mem'[w])
      BY <1>0, <2>5, <2>6, MemOrderly
    <3>2. OrderlyStore(disk)'
      BY <1>0, <1>4, <2>4, WriteOrderly
    <3>3. QED
      BY <3>1, <3>2 DEF StoresOrderly, OrderlyStore
  <2>8. failures' \in Nat
    BY <1>0, <1>4, WriteCounts
  <2>9. /\ timer' \in [Services -> BOOLEAN]
        /\ ok => (timer'[v] <=> SomePending(st))
        /\ \A w \in Services \ {v} : timer'[w] = timer[w]
    BY <1>0, <1>4, ArmDoes DEF GatewayOK
  <2>10. GatewayOK'
    BY <1>0, <1>1, <2>8, <2>9 DEF GatewayOK
  <2>11. Armed' /\ Heard
    <3>1. /\ \A w \in Services \ {v} : mem'[w] = mem[w]
          /\ v = context => mem'[v] = st
      BY <1>0, <2>5, <2>6 DEF CronTypeOK
    <3>2. ok /\ SomePending(st) => Wakes(v)' /\ timer'[v]
      BY <2>9 DEF Wakes
    <3>3. QED
      BY <1>0, <1>1, <1>4, <2>9, <3>1, <3>2, WriterArmed, WriterHeard
  <2>12. ASSUME NEW i \in Jobs
         PROVE  Excused(i)
    <3>1. CASE i = j
      BY <1>3, <3>1
    <3>2. CASE i # j
      <4>1. Pending(disk[i]) => Pending(st[i]) /\ st[i].next = disk[i].next
        BY <2>3, <2>4, <3>2 DEF Upkeep, Pending
      <4>2. disk' = st \/ disk' = disk
        BY <1>4 DEF Write
      <4>3. QED
        BY <1>0, <4>1, <4>2, StaysExcused DEF Pending
    <3>3. QED
      BY <3>1, <3>2
  <2>13. QED
    BY <2>7, <2>10, <2>11, <2>12 DEF Kept
<1>5. CASE /\ mem' = [mem EXCEPT ![v] = IF here THEN @ ELSE NoStore]
           /\ UNCHANGED <<disk, failures, timer>>
  <2>1. ASSUME NEW w \in Services
        PROVE  OrderlyStore(mem[w])' /\ (SomePending(mem[w])' => SomePending(mem[w]))
    <3>1. mem'[w] \in {mem[w], NoStore}
      BY <1>0, <1>5 DEF CronTypeOK
    <3>2. OrderlyStore(mem[w])
      BY SteadyTypes
    <3>3. QED
      BY <3>1, <3>2, NoStoreOrderly DEF OrderlyStore, SomePending
  <2>2. QED
    BY <1>1, <1>5, <2>1, BystanderKept
<1>6. QED
  BY <1>4, <1>5 DEF RunApply

-----------------------------------------------------------------------------

LEMMA CloseKept ==
  ASSUME Steady, Close
  PROVE  Kept
<1>0. /\ CronTypeOK /\ GatewayOK /\ StoresOrderly
      /\ disk \in [Jobs -> JobType]
  BY SteadyTypes
<1>1. /\ timer' = [timer EXCEPT ![context] = FALSE]
      /\ context' = 0 /\ current' = 0
      /\ UNCHANGED <<disk, failures, starting>>
  BY DEF Close
<1>2. ASSUME NEW w \in Services
      PROVE  OrderlyStore(mem[w])'
  <2>1. mem'[w] \in {mem[w], NoStore}
    BY <1>0 DEF Close, CronTypeOK
  <2>2. QED
    BY <1>0, <2>1, NoStoreOrderly DEF StoresOrderly, OrderlyStore
<1>3. StoresOrderly'
  BY <1>0, <1>1, <1>2 DEF StoresOrderly, OrderlyStore
<1>4. timer' \in [Services -> BOOLEAN]
  BY <1>0, <1>1 DEF GatewayOK
<1>5. GatewayOK'
  BY <1>0, <1>1, <1>4, BoundsAssumption DEF GatewayOK
<1>6. \A j \in Jobs : Excused(j)
  BY <1>0, <1>1, StaysExcused DEF Pending
<1>7. QED
  BY <1>1, <1>3, <1>5, <1>6, NotReadyArmed DEF Kept

LEMMA CrashKept ==
  ASSUME Steady, Crash
  PROVE  Kept
<1>0. /\ CronTypeOK /\ GatewayOK /\ StoresOrderly
      /\ disk \in [Jobs -> JobType]
  BY SteadyTypes
<1>1. /\ mem' = [v \in Services |-> NoStore]
      /\ timer' = [v \in Services |-> FALSE]
      /\ starting' = [v \in Services |-> "none"]
      /\ context' = 0 /\ current' = 0
      /\ UNCHANGED <<disk, failures>>
  BY DEF Crash
<1>2. StoresOrderly'
  BY <1>0, <1>1, NoStoreOrderly DEF StoresOrderly, OrderlyStore
<1>3. GatewayOK'
  BY <1>0, <1>1, BoundsAssumption DEF GatewayOK
<1>4. \A j \in Jobs : Excused(j)
  BY <1>0, <1>1, StaysExcused DEF Pending
<1>5. QED
  BY <1>1, <1>2, <1>3, <1>4, NotReadyArmed DEF Kept

LEMMA InitSteady ==
  ASSUME Init
  PROVE  Steady
<1>1. Sound
  BY InitSound
<1>2. StoresOrderly
  <2> DEFINE left == [Absent EXCEPT !.stored = TRUE, !.enabled = TRUE, !.next = 0]
  <2>1. \A j \in Jobs : Orderly(j, left) /\ Orderly(j, Absent)
    BY NoneAssumption DEF Orderly, Absent
  <2>2. \A j \in Jobs : disk[j] \in {left, Absent}
    BY DEF Init
  <2> HIDE DEF left
  <2>3. OrderlyStore(disk)
    BY <2>1, <2>2 DEF OrderlyStore
  <2>4. \A v \in Services : mem[v] = NoStore
    BY DEF Init
  <2>5. QED
    BY <2>3, <2>4, NoStoreOrderly DEF StoresOrderly
<1>3. GatewayOK
  BY BoundsAssumption DEF Init, GatewayOK
<1>4. Armed
  BY DEF Init, Armed, Ready
<1>5. QED
  BY <1>1, <1>2, <1>3, <1>4 DEF Steady

LEMMA NextKept ==
  ASSUME Steady, [Next]_vars
  PROVE  Kept
<1>1. ASSUME NEW v \in Services, NEW ok \in BOOLEAN,
             \/ StartMissed(v, ok) \/ StartApply(v, ok) \/ StartLast(v, ok)
             \/ TimerFires(v, ok) \/ TickApply(v, ok) \/ List(v, ok)
      PROVE  Kept
  BY <1>1, StartMissedKept, StartApplyKept, StartLastKept, TimerFiresKept,
     TickApplyKept, ListKept
<1>2. ASSUME NEW b \in Batches, NEW j \in Jobs,
             BeginRun(b, j) \/ \E outcome \in Outcomes : EndRun(b, j, outcome)
      PROVE  Kept
  BY <1>2, BeginRunKept, EndRunKept
<1>3. ASSUME NEW v \in Services, NEW j \in Jobs, NEW at \in Clock, NEW ok \in BOOLEAN,
             \/ Add(v, j, at, ok)
             \/ \E patch \in {"enable", "disable", "schedule"} : Update(v, j, patch, at, ok)
      PROVE  Kept
  BY <1>3, AddKept, UpdateKept
<1>4. ASSUME NEW v \in Services, NEW j \in Jobs, NEW ok \in BOOLEAN,
             Delete(v, j, ok) \/ RunApply(v, j, ok) \/ \E force \in BOOLEAN : Run(v, j, force, ok)
      PROVE  Kept
  BY <1>4, DeleteKept, RunApplyKept, RunKept
<1>5. ASSUME NEW ok \in BOOLEAN, Boot(ok) \/ HotReload(ok)
      PROVE  Kept
  BY <1>5, BootKept
<1>6. CASE Tock \/ UNCHANGED vars
  BY <1>6, QuietKept DEF Tock, vars, storeVars, gatewayVars, serviceVars
<1>7. QED
  BY <1>1, <1>2, <1>3, <1>4, <1>5, <1>6, CloseKept, CrashKept DEF Next

LEMMA NextSteady ==
  ASSUME Steady, [Next]_vars
  PROVE  Steady'
<1>1. Sound'
  BY NextSound DEF Steady
<1>2. QED
  BY <1>1, NextKept DEF Kept, Steady

\* The invariant about next runs and timers.
THEOREM CronSteady == Spec => []Steady
<1>1. Init => Steady
  BY InitSteady
<1>2. Steady /\ [Next]_vars => Steady'
  BY NextSteady
<1>3. QED
  BY <1>1, <1>2, PTL DEF Spec

\* While every save succeeds, no step leaves a started scheduler with something
\* to do and without a timer, for any jobs, services, reloads and restarts,
\* except a list or a run that reaches the service a hot reload has replaced
\* (armTimer behind every other section that changes what is due).
THEOREM SchedulerStaysAlive == Spec => SchedulerAlive
<1> DEFINE Stays == Silent' => \/ Silent
                              \/ /\ context # current
                                 /\ \/ List(context, TRUE)
                                    \/ \E j \in Jobs, force \in BOOLEAN : Run(context, j, force, TRUE)
<1>1. Steady /\ [Next]_vars => [Stays]_vars
  BY NextKept DEF Kept, Heard, Unsaid
<1>2. QED
  BY <1>1, CronSteady, PTL DEF Spec, SchedulerAlive

\* The next run of a due job moves on only with the outcome of a run, with a
\* client's change or deletion of it, where everything is recomputed, or where
\* the memory of a service that is behind the file is saved over it.
THEOREM NoSlotSkipped == Spec => SlotsNotSkipped
<1> DEFINE All == \A j \in Jobs : Skips(j) =>
       \/ \E b \in Batches : runs[b][j].is \in Outcomes /\ runs'[b][j].is = "none"
       \/ \E v \in Services :
            \/ starting[v] = "last" /\ starting'[v] = "started"
            \/ mem[v][j] # disk[j] /\ mem[v][j].next = disk'[j].next
            \/ Delete(v, j, TRUE)
            \/ \E at \in Clock : \/ \E k \in Jobs : Add(v, k, at, TRUE)
                                 \/ \E patch \in {"enable", "disable", "schedule"} :
                                      Update(v, j, patch, at, TRUE)
<1>1. Steady /\ [Next]_vars => [All]_vars
  BY NextKept DEF Kept, Excused
<1>2. QED
  BY <1>1, CronSteady, PTL DEF Spec, SlotsNotSkipped
=============================================================================
