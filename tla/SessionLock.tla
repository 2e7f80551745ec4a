---------------------------- MODULE SessionLock ----------------------------
(***************************************************************************)
(* The write lock of one session file, of src/agents/session-write-lock.ts *)
(* of the gateway.  The tasks of several processes acquire it: the lock is *)
(* a file created with O_EXCL, then filled with pid and start time, then   *)
(* entered in HELD_LOCKS of the process, which counts re-entrant holders.  *)
(* Whoever finds the file judges it by a payload read earlier and removes  *)
(* it by path.  Every await is a point where others step in, so each file  *)
(* operation is an action.                                                 *)
(***************************************************************************)
EXTENDS Processes

CONSTANTS
  MaxAcquires,  \* bound: acquires that are begun
  MaxTasks,     \* bound: tasks of a gateway that use the session at once
  MaxGrants     \* bound: lock files ever created

ASSUME LockBoundsAssumption ==
  MaxAcquires \in Nat /\ MaxTasks \in Nat /\ MaxGrants \in Nat

\* A command beside the gateway runs one task.
Tasks == {t \in Processes \X (1..MaxTasks) : t[1] \in Gateways \/ t[2] = 1}
ProcOf(t) == t[1]
TasksOf(p) == {t \in Tasks : ProcOf(t) = p}

Grants == 1..MaxGrants    \* every lock file created is a grant of its own
NoFile == [grant |-> 0]
Files == {NoFile} \cup [grant : Grants, pid : Processes, life : Nat,
                        full : BOOLEAN, old : BOOLEAN]
NotHeld == [grant |-> 0, count |-> 0]

PCs == {"idle", "opening", "opened", "written", "holding", "closing", "undoing",
        "contended", "statting", "reclaiming", "guessing", "again"}
SweepPCs == {"over", "due", "listed", "removing", "guessing"}
NoSweep == [at |-> "over", file |-> NoFile]

VARIABLES
  lockFile,   \* the file at lockPath; `old`: older than staleMs
  created,    \* lock files created so far
  held,       \* held[p]: the entry of HELD_LOCKS
  pc,         \* pc[t]: where task t is in acquire and release
  grant,      \* grant[t]: the lock file t created or joined
  seen,       \* seen[t]: the lock file that t judges
  reaping,    \* reaping[p]: files the watchdog is about to remove
  sweep,      \* sweep[p]: where p's start-up cleanup is, and the file it judged
  lapsed      \* history: a lock file was, or may have been, taken from a live holder

lockVars == <<lockFile, created, held, pc, grant, seen, reaping, sweep, lapsed>>

LockInit ==
  /\ lockFile = NoFile
  /\ created = 0
  /\ held = [p \in Processes |-> NotHeld]
  /\ pc = [t \in Tasks |-> "idle"]
  /\ grant = [t \in Tasks |-> 0]
  /\ seen = [t \in Tasks |-> NoFile]
  /\ reaping = [p \in Processes |-> {}]
  /\ sweep = [p \in Processes |-> NoSweep]
  /\ lapsed = FALSE

\* fs.rm(lockPath, {force: true}) by someone who means the file of grant g: it
\* removes whatever is there.  `takes`: the file of g may still be somebody's.
RemoveFile(g, takes) ==
  /\ lockFile' = NoFile
  /\ lapsed' = (lapsed \/ (lockFile # NoFile /\ (lockFile.grant # g \/ takes)))

\* Task t is through with the lock.
Ends(t) ==
  /\ pc' = [pc EXCEPT ![t] = "idle"]
  /\ grant' = [grant EXCEPT ![t] = 0]

-----------------------------------------------------------------------------
(* inspectLockPayload, shouldTreatAsOrphanSelfLock *)

\* Nothing but the age of the file itself can tell: there is no payload.
Unreadable(f) == f = NoFile \/ ~f.full
Recycled(f) == alive[f.pid] /\ linux /\ f.life # life[f.pid]

Stale(f) == Unreadable(f) \/ ~alive[f.pid] \/ Recycled(f) \/ f.old

\* A file of this very pid without a start time that HELD_LOCKS knows nothing of.
OrphanSelf(f, p) == ~Unreadable(f) /\ f.pid = p /\ ~linux /\ held[p] = NotHeld

\* The process that made file f is still there.
MakerLives(f) == f # NoFile /\ alive[f.pid] /\ f.life = life[f.pid]

-----------------------------------------------------------------------------
(* acquireSessionWriteLock *)

\* A re-entrant acquire joins the lock its process holds; any other one, or
\* one with allowReentrant FALSE, goes for the file.  (Tasks take their names
\* in order.)
Acquire(t, allowReentrant) ==
  LET p == ProcOf(t) IN
  /\ pc[t] = "idle"
  /\ \A i \in 1..t[2] - 1 : pc[<<p, i>>] # "idle"
  /\ Begin("locks", MaxAcquires)
  /\ IF allowReentrant /\ held[p] # NotHeld
     THEN /\ held' = [held EXCEPT ![p].count = @ + 1]
          /\ grant' = [grant EXCEPT ![t] = held[p].grant]
          /\ pc' = [pc EXCEPT ![t] = "holding"]
     ELSE pc' = [pc EXCEPT ![t] = "opening"] /\ UNCHANGED <<held, grant>>
  /\ UNCHANGED <<lockFile, created, seen, reaping, sweep, lapsed>>

\* fs.open(lockPath, "wx").
Open(t) ==
  /\ pc[t] = "opening"
  /\ IF lockFile = NoFile
     THEN /\ created < MaxGrants
          /\ created' = created + 1
          /\ lockFile' = [grant |-> created + 1, pid |-> ProcOf(t),
                          life |-> life[ProcOf(t)], full |-> FALSE, old |-> FALSE]
          /\ grant' = [grant EXCEPT ![t] = created + 1]
          /\ pc' = [pc EXCEPT ![t] = "opened"]
     ELSE pc' = [pc EXCEPT ![t] = "contended"] /\ UNCHANGED <<lockFile, created, grant>>
  /\ UNCHANGED <<held, seen, reaping, sweep, lapsed>>

\* handle.writeFile: the payload goes to the file that was opened, even if it
\* is no longer at lockPath.
WritePayload(t) ==
  /\ pc[t] = "opened"
  /\ lockFile' = IF lockFile.grant = grant[t] THEN [lockFile EXCEPT !.full = TRUE]
                                              ELSE lockFile
  /\ pc' = [pc EXCEPT ![t] = "written"]
  /\ UNCHANGED <<created, held, grant, seen, reaping, sweep, lapsed>>

\* The write fails: the handle is closed and lockPath removed, the error thrown.
WriteFails(t) ==
  /\ pc[t] = "opened"
  /\ pc' = [pc EXCEPT ![t] = "undoing"]
  /\ UNCHANGED <<lockFile, created, held, grant, seen, reaping, sweep, lapsed>>
Undo(t) ==
  /\ pc[t] = "undoing"
  /\ RemoveFile(grant[t], FALSE)
  /\ Ends(t)
  /\ UNCHANGED <<created, held, seen, reaping, sweep>>

\* HELD_LOCKS.set: the lock is held.
Register(t) ==
  /\ pc[t] = "written"
  /\ held' = [held EXCEPT ![ProcOf(t)] = [grant |-> grant[t], count |-> 1]]
  /\ pc' = [pc EXCEPT ![t] = "holding"]
  /\ UNCHANGED <<lockFile, created, grant, seen, reaping, sweep, lapsed>>

\* EEXIST: readLockPayload and the judgement on it, without a pause between.  A
\* read that fails is a file without a payload.
ReadPayload(t) ==
  /\ pc[t] = "contended"
  /\ \E works \in BOOLEAN :
       pc' = [pc EXCEPT ![t] =
         IF ~works \/ Unreadable(lockFile) THEN "statting"
         ELSE IF Stale(lockFile) \/ OrphanSelf(lockFile, ProcOf(t)) THEN "reclaiming"
         ELSE "again"]
  /\ seen' = [seen EXCEPT ![t] = IF pc'[t] = "reclaiming" THEN lockFile ELSE NoFile]
  /\ UNCHANGED <<lockFile, created, held, grant, reaping, sweep, lapsed>>

\* Mutant of Stat: a file without a payload counts as stale whatever its age.
StatAnyAge(t) ==
  /\ pc[t] = "statting"
  /\ pc' = [pc EXCEPT ![t] = IF lockFile # NoFile THEN "reclaiming" ELSE "again"]
  /\ seen' = [seen EXCEPT ![t] = lockFile]
  /\ UNCHANGED <<lockFile, created, held, grant, reaping, sweep, lapsed>>

\* shouldReclaimContendedLockFile goes by mtime where there is no payload; a
\* stat that fails, but for a missing file, condemns the file unseen.
Stat(t) ==
  /\ pc[t] = "statting"
  /\ \E works \in BOOLEAN :
       pc' = [pc EXCEPT ![t] =
         IF ~works THEN "guessing"
         ELSE IF lockFile # NoFile /\ lockFile.old THEN "reclaiming" ELSE "again"]
  /\ seen' = [seen EXCEPT ![t] = IF pc'[t] = "again" THEN NoFile ELSE lockFile]
  /\ UNCHANGED <<lockFile, created, held, grant, reaping, sweep, lapsed>>

\* The file judged stale is removed by path.  Its maker loses the lock if it
\* still lives: the file was too old, or it was the task's own process that
\* had not entered it in HELD_LOCKS, or had just deleted it there, or nobody
\* could read it.
Reclaim(t) ==
  LET f == seen[t] IN
  /\ pc[t] \in {"reclaiming", "guessing"}
  /\ RemoveFile(f.grant,
       /\ MakerLives(f)
       /\ f.old \/ (f.pid = ProcOf(t) /\ ~linux) \/ pc[t] = "guessing")
  /\ pc' = [pc EXCEPT ![t] = "again"]
  /\ seen' = [seen EXCEPT ![t] = NoFile]
  /\ UNCHANGED <<created, held, grant, reaping, sweep>>

\* The loop goes round, after a delay or at once, or the acquire has timed out.
Again(t) ==
  /\ pc[t] = "again"
  /\ \E next \in {"opening", "idle"} : pc' = [pc EXCEPT ![t] = next]
  /\ UNCHANGED <<lockFile, created, held, grant, seen, reaping, sweep, lapsed>>

-----------------------------------------------------------------------------
(* Release *)

\* Mutant of Release: the first of several holders takes the lock along.
ReleaseAtOnce(t) ==
  LET p == ProcOf(t) IN
  /\ pc[t] = "holding"
  /\ IF held[p].grant # grant[t]
     THEN Ends(t) /\ UNCHANGED held
     ELSE /\ pc' = [pc EXCEPT ![t] = "closing"]
          /\ held' = [held EXCEPT ![p] = NotHeld]
          /\ UNCHANGED grant
  /\ UNCHANGED <<lockFile, created, seen, reaping, sweep, lapsed>>

\* releaseHeldLock: the last holder takes the lock out of HELD_LOCKS and closes
\* the handle; a lock that is no longer in HELD_LOCKS is left alone.
Release(t) ==
  LET p == ProcOf(t) IN
  /\ pc[t] = "holding"
  /\ IF held[p].grant # grant[t]
     THEN Ends(t) /\ UNCHANGED held
     ELSE IF held[p].count > 1
     THEN Ends(t) /\ held' = [held EXCEPT ![p].count = @ - 1]
     ELSE /\ pc' = [pc EXCEPT ![t] = "closing"]
          /\ held' = [held EXCEPT ![p] = NotHeld]
          /\ UNCHANGED grant
  /\ UNCHANGED <<lockFile, created, seen, reaping, sweep, lapsed>>
RemoveReleased(t) ==
  /\ pc[t] = "closing"
  /\ RemoveFile(grant[t], FALSE) \/ UNCHANGED <<lockFile, lapsed>>    \* rm may fail
  /\ Ends(t)
  /\ UNCHANGED <<created, held, seen, reaping, sweep>>

\* runLockWatchdogCheck: the lock is held for longer than maxHoldMs and taken
\* from its holders, who write on.
WatchdogCheck(p) ==
  /\ held[p] # NotHeld
  /\ held' = [held EXCEPT ![p] = NotHeld]
  /\ reaping' = [reaping EXCEPT ![p] = @ \cup {held[p].grant}]
  /\ lapsed' = TRUE
  /\ UNCHANGED <<lockFile, created, pc, grant, seen, sweep>>
WatchdogRemove(p) ==
  /\ \E g \in reaping[p] :
       /\ RemoveFile(g, FALSE)
       /\ reaping' = [reaping EXCEPT ![p] = @ \ {g}]
  /\ UNCHANGED <<created, held, pc, grant, seen, sweep>>

\* releaseAllLocksSync.
ReleaseAllLocksSync(p, takes) ==
  /\ held' = [held EXCEPT ![p] = NotHeld]
  /\ IF held[p] = NotHeld THEN UNCHANGED <<lockFile, lapsed>>
                       ELSE RemoveFile(held[p].grant, takes)

\* handleTerminationSignal in a process that has another listener: the locks
\* are gone and the tasks run on until the process exits.
TerminationSignal(p) ==
  /\ held[p] # NotHeld
  /\ ReleaseAllLocksSync(p, TRUE)
  /\ UNCHANGED <<created, pc, grant, seen, reaping, sweep>>

-----------------------------------------------------------------------------
(* cleanStaleLockFiles, on the start of a gateway *)

\* The directory is listed; there may be no lock in it, or no way to read it.
CleanList(p) ==
  /\ sweep[p].at = "due"
  /\ \E at \in {"listed", "over"} :
       /\ at = "listed" => lockFile # NoFile
       /\ sweep' = [sweep EXCEPT ![p].at = at]
  /\ UNCHANGED <<lockFile, created, held, pc, grant, seen, reaping, lapsed>>

\* It goes by the payload alone, and a lock without one is stale, were it only
\* that the read failed or that the file has gone.
CleanRead(p) ==
  /\ sweep[p].at = "listed"
  /\ \E works \in BOOLEAN :
       sweep' = [sweep EXCEPT ![p] =
         IF ~works \/ Unreadable(lockFile) THEN [at |-> "guessing", file |-> lockFile]
         ELSE IF Stale(lockFile) THEN [at |-> "removing", file |-> lockFile]
         ELSE NoSweep]
  /\ UNCHANGED <<lockFile, created, held, pc, grant, seen, reaping, lapsed>>
CleanRemove(p) ==
  LET f == sweep[p].file IN
  /\ sweep[p].at \in {"removing", "guessing"}
  /\ RemoveFile(f.grant, MakerLives(f) /\ (f.old \/ sweep[p].at = "guessing"))
  /\ sweep' = [sweep EXCEPT ![p] = NoSweep]
  /\ UNCHANGED <<created, held, pc, grant, seen, reaping>>

-----------------------------------------------------------------------------
\* staleMs have passed since the file was created.
Age ==
  /\ lockFile # NoFile
  /\ ~lockFile.old
  /\ lockFile' = [lockFile EXCEPT !.old = TRUE]
  /\ UNCHANGED <<created, held, pc, grant, seen, reaping, sweep, lapsed>>

\* What process p does with the lock, and what time does to it.
LockStep(p) ==
  \/ \E t \in TasksOf(p) :
       \/ Open(t)
       \/ WritePayload(t)
       \/ WriteFails(t)
       \/ Undo(t)
       \/ Register(t)
       \/ ReadPayload(t)
       \/ Stat(t)
       \/ Reclaim(t)
       \/ Again(t)
       \/ Release(t)
       \/ RemoveReleased(t)
  \/ WatchdogCheck(p)
  \/ WatchdogRemove(p)
  \/ TerminationSignal(p)
  \/ CleanList(p)
  \/ CleanRead(p)
  \/ CleanRemove(p)

\* Process p is gone and so is all it did in memory.
ForgetTasks(p) ==
  /\ pc' = [t \in Tasks |-> IF ProcOf(t) = p THEN "idle" ELSE pc[t]]
  /\ grant' = [t \in Tasks |-> IF ProcOf(t) = p THEN 0 ELSE grant[t]]
  /\ seen' = [t \in Tasks |-> IF ProcOf(t) = p THEN NoFile ELSE seen[t]]
  /\ reaping' = [reaping EXCEPT ![p] = {}]
  /\ sweep' = [sweep EXCEPT ![p] = NoSweep]
  /\ UNCHANGED created
LockCrash(p) ==
  /\ ForgetTasks(p)
  /\ held' = [held EXCEPT ![p] = NotHeld]
  /\ UNCHANGED <<lockFile, lapsed>>
LockExit(p) == ForgetTasks(p) /\ ReleaseAllLocksSync(p, FALSE)

\* A gateway starts, in a new process or in the old one.
LockStart(p) ==
  /\ sweep' = [sweep EXCEPT ![p] =
       IF p \in Gateways THEN [at |-> "due", file |-> NoFile] ELSE NoSweep]
  /\ UNCHANGED <<lockFile, created, held, pc, grant, seen, reaping, lapsed>>

-----------------------------------------------------------------------------
(* Properties *)

Holders(g) == {t \in Tasks : pc[t] = "holding" /\ grant[t] = g}

\* The state has its types; an entry of HELD_LOCKS counts exactly the tasks
\* that hold its lock, whatever the release handles of an earlier lock do
\* (session-write-lock.test.ts:201); and as long as nothing took a lock file
\* from a living holder, every holder's lock is in HELD_LOCKS and is the file
\* on disk, so that the file goes with the last holder (:124).
LocksConsistent ==
  /\ lockFile \in Files
  /\ created \in 0..MaxGrants
  /\ held \in [Processes -> [grant : 0..MaxGrants, count : Nat]]
  /\ pc \in [Tasks -> PCs]
  /\ grant \in [Tasks -> 0..MaxGrants]
  /\ seen \in [Tasks -> Files]
  /\ reaping \in [Processes -> SUBSET Grants]
  /\ sweep \in [Processes -> [at : SweepPCs, file : Files]]
  /\ lapsed \in BOOLEAN
  /\ \A p \in Processes : held[p] # NotHeld =>
       Cardinality(Holders(held[p].grant)) = held[p].count
  /\ ~lapsed => \A t \in Tasks : pc[t] = "holding" =>
       /\ grant[t] = held[ProcOf(t)].grant
       /\ grant[t] = lockFile.grant
       /\ lockFile.full

\* Single writer (CHANGELOG.md:3339): tasks of different processes, or of one
\* process under different locks, hold the session at once only if a lock was
\* taken from a holder by time, by a signal, by a process that mistook its own
\* lock for an orphan, by a start-up cleanup that met a half-written file, by
\* a read or a stat that failed and so condemned the file, or by a removal
\* that hit another file than the one it was meant for.
SingleWriter ==
  \A t, u \in Tasks :
    pc[t] = "holding" /\ pc[u] = "holding" /\ grant[t] # grant[u] => lapsed
=============================================================================
