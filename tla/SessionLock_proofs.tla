------------------------- MODULE SessionLock_proofs -------------------------
(***************************************************************************)
(* Proofs about the session write lock, for any processes and tasks and    *)
(* any number of lock files, crashes and restarts.  The invariant Sound    *)
(* adds to LocksConsistent what makes it inductive: who owns the lock file *)
(* a task has created (Owned), which tasks an entry of HELD_LOCKS counts   *)
(* (Counted), what a task or a cleanup that judges a file still knows of   *)
(* it when it removes it (Judged), and that every owner's file is at       *)
(* lockPath unless a lock was taken from a living holder (Intact).         *)
(***************************************************************************)
EXTENDS GatewayState, FiniteSetTheorems, TLAPS

Owners == {"opened", "written", "holding", "closing", "undoing"}
SoleOwners == Owners \ {"holding"}

LockTypeOK ==
  /\ alive \in [Processes -> BOOLEAN]
  /\ life \in [Processes -> Nat]
  /\ linux \in BOOLEAN
  /\ lockFile \in Files
  /\ created \in 0..MaxGrants
  /\ held \in [Processes -> [grant : 0..MaxGrants, count : Nat]]
  /\ pc \in [Tasks -> PCs]
  /\ grant \in [Tasks -> 0..MaxGrants]
  /\ seen \in [Tasks -> Files]
  /\ reaping \in [Processes -> SUBSET Grants]
  /\ sweep \in [Processes -> [at : SweepPCs, file : Files]]
  /\ lapsed \in BOOLEAN

Owned ==
  /\ \A t \in Tasks : pc[t] # "idle" => alive[ProcOf(t)]
  /\ \A t \in Tasks : pc[t] \in Owners => grant[t] \in 1..created
  /\ \A t, u \in Tasks :
       pc[t] \in SoleOwners /\ pc[u] \in Owners /\ grant[t] = grant[u] => t = u

Counts(p) == held[p] # NotHeld =>
  /\ alive[p]
  /\ held[p].grant \in 1..created
  /\ held[p].count >= 1
  /\ Cardinality(Holders(held[p].grant)) = held[p].count
  /\ \A t \in Tasks : pc[t] \in Owners /\ grant[t] = held[p].grant =>
       pc[t] = "holding" /\ ProcOf(t) = p

Counted == \A p \in Processes : Counts(p)

SawFile(f) == f # NoFile =>
  /\ f.grant \in 1..created
  /\ f.life <= life[f.pid]
  /\ lockFile.grant = f.grant =>
       /\ lockFile.pid = f.pid /\ lockFile.life = f.life
       /\ f.full => lockFile.full
       /\ f.old => lockFile.old

Condemned(t) == pc[t] = "reclaiming" =>
  /\ seen[t] # NoFile
  /\ seen[t].old \/ ~MakerLives(seen[t]) \/ (seen[t].pid = ProcOf(t) /\ ~linux)

Swept(p) == sweep[p].at = "removing" =>
  sweep[p].file.old \/ ~MakerLives(sweep[p].file)

\* A cleanup goes on with the file it has judged, or is over or starts again.
SweepGoesOn(p) ==
  /\ sweep'[p].file \in {sweep[p].file, NoFile}
  /\ sweep'[p].at = "removing" => sweep'[p] = sweep[p]

Judged ==
  /\ SawFile(lockFile)
  /\ \A t \in Tasks : SawFile(seen[t]) /\ Condemned(t)
  /\ \A p \in Processes : SawFile(sweep[p].file) /\ Swept(p)

\* The file at lockPath is the one that task t has created or joined.
FileOf(t) ==
  /\ lockFile.grant = grant[t]
  /\ lockFile.pid = ProcOf(t)
  /\ lockFile.life = life[ProcOf(t)]
  /\ pc[t] \in {"written", "holding"} => lockFile.full
  /\ pc[t] = "holding" => grant[t] = held[ProcOf(t)].grant

Intact == ~lapsed =>
  /\ \A p \in Processes : reaping[p] = {}
  /\ \A t \in Tasks : pc[t] \in Owners => FileOf(t)

Sound ==
  /\ LockTypeOK
  /\ Owned
  /\ Counted
  /\ Judged
  /\ Intact

-----------------------------------------------------------------------------
(* Tasks, files and holders *)

LEMMA TaskFacts ==
  /\ \A t \in Tasks : ProcOf(t) \in Processes
  /\ \A p \in Processes : TasksOf(p) \subseteq Tasks
  /\ \A p \in Processes : \A t \in TasksOf(p) : ProcOf(t) = p
BY DEF Tasks, ProcOf, TasksOf

LEMMA TasksFinite == IsFiniteSet(Tasks)
<1>1. IsFiniteSet(1..MaxTasks)
  BY LockBoundsAssumption, FS_Interval
<1>2. IsFiniteSet(Processes \X (1..MaxTasks))
  BY <1>1, ProcessesAssumption, FS_Product
<1>3. QED
  BY <1>2, FS_Subset DEF Tasks

LEMMA HoldersFinite ==
  ASSUME NEW g
  PROVE  /\ Holders(g) \subseteq Tasks
         /\ IsFiniteSet(Holders(g)) /\ Cardinality(Holders(g)) \in Nat
<1>1. Holders(g) \subseteq Tasks
  BY DEF Holders
<1>2. QED
  BY <1>1, TasksFinite, FS_Subset, FS_CardinalityType

\* A file that is there has a grant; NoFile has none.
LEMMA FileFacts ==
  /\ NoFile \in Files
  /\ NoFile.grant = 0
  /\ \A f \in Files : f # NoFile =>
       /\ f.grant \in Grants /\ f.grant # 0
       /\ f.pid \in Processes /\ f.life \in Nat
       /\ f.full \in BOOLEAN /\ f.old \in BOOLEAN
BY LockBoundsAssumption DEF Files, NoFile, Grants

\* An entry of HELD_LOCKS has a holder, so that two entries differ.
LEMMA HasHolder ==
  ASSUME Sound, NEW p \in Processes, held[p] # NotHeld
  PROVE  \E t \in Tasks : pc[t] = "holding" /\ grant[t] = held[p].grant /\ ProcOf(t) = p
<1>1. Cardinality(Holders(held[p].grant)) # 0
  BY DEF Sound, Counted, Counts, LockTypeOK
<1>2. Holders(held[p].grant) # {}
  BY <1>1, FS_EmptySet
<1>3. QED
  BY <1>2 DEF Holders, Sound, Counted, Counts, Owners

LEMMA EntriesDiffer ==
  ASSUME Sound, NEW p \in Processes, NEW q \in Processes,
         held[p] # NotHeld, held[q] # NotHeld, held[p].grant = held[q].grant
  PROVE  p = q
<1>1. PICK t \in Tasks : pc[t] = "holding" /\ grant[t] = held[p].grant /\ ProcOf(t) = p
  BY HasHolder
<1>2. QED
  BY <1>1 DEF Sound, Counted, Counts, Owners

\* Nobody owns the file of a lock that is not lapsed unless it is at lockPath.
LEMMA NoFileNoOwner ==
  ASSUME Sound, ~lapsed, lockFile = NoFile, NEW t \in Tasks
  PROVE  pc[t] \notin Owners
<1>1. SUFFICES ASSUME pc[t] \in Owners PROVE FALSE
  OBVIOUS
<1>2. lockFile.grant = grant[t] /\ grant[t] \in 1..created
  BY <1>1 DEF Sound, Intact, FileOf, Owned
<1>3. grant[t] # 0
  BY <1>2 DEF Sound, LockTypeOK
<1>4. QED
  BY <1>2, <1>3, FileFacts

\* Where the file at lockPath has no living maker there is no owner either.
LEMMA DeadMakerNoOwner ==
  ASSUME Sound, ~lapsed, NEW f \in Files, SawFile(f), f # NoFile,
         lockFile.grant = f.grant, ~MakerLives(f), NEW t \in Tasks
  PROVE  pc[t] \notin Owners
<1>1. SUFFICES ASSUME pc[t] \in Owners PROVE FALSE
  OBVIOUS
<1>2. lockFile.pid = ProcOf(t) /\ lockFile.life = life[ProcOf(t)]
  BY <1>1 DEF Sound, Intact, FileOf
<1>3. lockFile.pid = f.pid /\ lockFile.life = f.life
  BY DEF SawFile
<1>4. alive[ProcOf(t)]
  BY <1>1 DEF Sound, Owned, Owners
<1>5. QED
  BY <1>2, <1>3, <1>4 DEF MakerLives

-----------------------------------------------------------------------------
(* What time does to files and processes *)

\* Files are never created twice under one grant, and a pid is never reused
\* with the start time of an earlier process.
Later ==
  /\ linux' = linux
  /\ created <= created' /\ created' \in 0..MaxGrants
  /\ life' \in [Processes -> Nat] /\ alive' \in [Processes -> BOOLEAN]
  /\ \A p \in Processes : /\ life[p] <= life'[p]
                          /\ alive'[p] /\ ~alive[p] => life[p] < life'[p]

FileEvolves ==
  /\ lockFile' \in Files
  /\ \/ lockFile' = NoFile
     \/ lockFile'.grant = created + 1
     \/ /\ lockFile # NoFile /\ lockFile' # NoFile
        /\ lockFile'.grant = lockFile.grant
        /\ lockFile'.pid = lockFile.pid /\ lockFile'.life = lockFile.life
        /\ lockFile.full => lockFile'.full
        /\ lockFile.old => lockFile'.old

LEMMA SawKept ==
  ASSUME LockTypeOK, Later, FileEvolves, NEW f \in Files, SawFile(f)
  PROVE  SawFile(f)'
<1> SUFFICES ASSUME f # NoFile PROVE SawFile(f)'
  BY DEF SawFile
<1>1. f.grant \in 1..created /\ f.life <= life[f.pid] /\ f.pid \in Processes /\ f.life \in Nat
  BY FileFacts DEF SawFile
<1>2. f.grant \in 1..created'
  BY <1>1 DEF Later, LockTypeOK
<1>3. f.life <= life'[f.pid]
  <2>1. life[f.pid] \in Nat /\ life'[f.pid] \in Nat /\ life[f.pid] <= life'[f.pid]
    BY <1>1 DEF Later, LockTypeOK
  <2>2. QED
    BY <1>1, <2>1
<1>4. lockFile'.grant = f.grant =>
        /\ lockFile.grant = f.grant
        /\ lockFile'.pid = lockFile.pid /\ lockFile'.life = lockFile.life
        /\ lockFile.full => lockFile'.full
        /\ lockFile.old => lockFile'.old
  <2>1. f.grant # 0 /\ f.grant # created + 1
    BY <1>1 DEF LockTypeOK
  <2>2. QED
    BY <2>1, FileFacts DEF FileEvolves
<1>5. QED
  BY <1>2, <1>3, <1>4 DEF SawFile

\* Once its maker is gone a file has no living maker again.
LEMMA MakerStaysGone ==
  ASSUME LockTypeOK, Later, NEW f \in Files, SawFile(f), ~MakerLives(f)
  PROVE  ~MakerLives(f)'
<1> SUFFICES ASSUME f # NoFile PROVE ~MakerLives(f)'
  BY DEF MakerLives
<1>1. f.life <= life[f.pid] /\ f.pid \in Processes /\ f.life \in Nat
  BY FileFacts DEF SawFile
<1>2. life[f.pid] \in Nat /\ life'[f.pid] \in Nat /\ life[f.pid] <= life'[f.pid]
  BY <1>1 DEF Later, LockTypeOK
<1>3. alive'[f.pid] /\ ~alive[f.pid] => life[f.pid] < life'[f.pid]
  BY <1>1 DEF Later
<1>4. ~alive[f.pid] \/ f.life # life[f.pid]
  BY DEF MakerLives
<1>5. ~alive'[f.pid] \/ f.life # life'[f.pid]
  BY <1>1, <1>2, <1>3, <1>4
<1>6. QED
  BY <1>5 DEF MakerLives

\* What a judge has seen stays true until the removal.
LEMMA JudgedKept ==
  ASSUME Sound, Later, FileEvolves, SawFile(lockFile)',
         \A t \in Tasks :
           \/ seen'[t] = seen[t] /\ (pc'[t] = "reclaiming" => pc[t] = "reclaiming")
           \/ seen'[t] = NoFile /\ pc'[t] # "reclaiming",
         \A p \in Processes : SweepGoesOn(p)
  PROVE  Judged'
<1>1. ASSUME NEW t \in Tasks PROVE SawFile(seen[t])' /\ Condemned(t)'
  <2>1. CASE seen'[t] = NoFile /\ pc'[t] # "reclaiming"
    BY <2>1 DEF SawFile, Condemned
  <2>2. CASE seen'[t] = seen[t] /\ (pc'[t] = "reclaiming" => pc[t] = "reclaiming")
    <3> DEFINE f == seen[t]
    <3>1. f \in Files /\ SawFile(f) /\ Condemned(t)
      BY DEF Sound, LockTypeOK, Judged
    <3>2. SawFile(seen[t])'
      <4> HIDE DEF f
      <4>1. ASSUME NEW g \in Files, SawFile(g) PROVE SawFile(g)'
        BY <4>1, SawKept DEF Sound
      <4>2. QED
        BY <2>2, <3>1, <4>1 DEF f, SawFile
    <3>3. Condemned(t)'
      <4>1. ASSUME NEW g \in Files, SawFile(g), ~MakerLives(g) PROVE ~MakerLives(g)'
        BY <4>1, MakerStaysGone DEF Sound
      <4>2. QED
        BY <2>2, <3>1, <4>1 DEF Condemned, MakerLives, Later
    <3>4. QED
      BY <3>2, <3>3
  <2>3. QED
    BY <2>1, <2>2
<1>2. ASSUME NEW p \in Processes PROVE SawFile(sweep[p].file)' /\ Swept(p)'
  <2>1. sweep[p].file \in Files /\ SawFile(sweep[p].file) /\ Swept(p) /\ SweepGoesOn(p)
    BY DEF Sound, LockTypeOK, Judged
  <2>2. ASSUME NEW g \in Files, SawFile(g)
        PROVE  SawFile(g)' /\ (~MakerLives(g) => ~MakerLives(g)')
    BY <2>2, SawKept, MakerStaysGone DEF Sound
  <2>3. SawFile(sweep[p].file)'
    BY <2>1, <2>2 DEF SawFile, SweepGoesOn
  <2>4. Swept(p)'
    <3> SUFFICES ASSUME sweep'[p].at = "removing"
                 PROVE  sweep'[p].file.old \/ ~MakerLives(sweep[p].file)'
      BY DEF Swept
    <3>1. sweep'[p] = sweep[p]
      BY <2>1 DEF SweepGoesOn
    <3>2. QED
      BY <2>1, <2>2, <3>1 DEF Swept, MakerLives
  <2>5. QED
    BY <2>3, <2>4
<1>3. QED
  BY <1>1, <1>2 DEF Judged

-----------------------------------------------------------------------------
(* Who owns and who holds *)

LEMMA OwnedKept ==
  ASSUME Sound, created \in Nat, created' \in Nat, created <= created',
         \A u \in Tasks : pc'[u] # "idle" => alive'[ProcOf(u)],
         \A u \in Tasks : pc'[u] \in Owners =>
           /\ pc[u] \in Owners /\ grant'[u] = grant[u]
           /\ pc'[u] \in SoleOwners => pc[u] \in SoleOwners
  PROVE  Owned'
<1>1. \A u \in Tasks : pc'[u] \in Owners => grant'[u] \in 1..created'
  <2> SUFFICES ASSUME NEW u \in Tasks, pc'[u] \in Owners PROVE grant'[u] \in 1..created'
    OBVIOUS
  <2>1. grant'[u] \in 1..created
    BY DEF Sound, Owned
  <2>2. QED
    BY <2>1
<1>2. \A t, u \in Tasks :
        pc'[t] \in SoleOwners /\ pc'[u] \in Owners /\ grant'[t] = grant'[u] => t = u
  BY DEF Sound, Owned, SoleOwners
<1>3. QED
  BY <1>1, <1>2 DEF Owned

\* An entry of HELD_LOCKS whose holders are the same counts them right.
LEMMA CountsKept ==
  ASSUME Sound, NEW p \in Processes, held'[p] = held[p], alive'[p] = alive[p],
         created \in Nat, created' \in Nat, created <= created',
         held[p] # NotHeld =>
           /\ \A u \in Tasks : pc'[u] \in Owners /\ grant'[u] = held[p].grant =>
                pc'[u] = "holding" /\ pc[u] = "holding" /\ grant[u] = held[p].grant
           /\ \A u \in Tasks : pc[u] = "holding" /\ grant[u] = held[p].grant =>
                pc'[u] = "holding" /\ grant'[u] = held[p].grant
  PROVE  Counts(p)'
<1> SUFFICES ASSUME held[p] # NotHeld PROVE Counts(p)'
  BY DEF Counts
<1> DEFINE g == held[p].grant
<1>1. /\ alive[p] /\ g \in 1..created /\ held[p].count >= 1
      /\ Cardinality(Holders(g)) = held[p].count
      /\ \A t \in Tasks : pc[t] \in Owners /\ grant[t] = g => pc[t] = "holding" /\ ProcOf(t) = p
  BY DEF Sound, Counted, Counts
<1>2. Holders(g)' = Holders(g)
  BY DEF Holders, Owners
<1>3. g \in 1..created'
  BY <1>1
<1>4. \A t \in Tasks : pc'[t] \in Owners /\ grant'[t] = g => pc'[t] = "holding" /\ ProcOf(t) = p
  BY <1>1 DEF Owners
<1>5. QED
  BY <1>1, <1>2, <1>3, <1>4 DEF Counts

\* A task that waits, or is about to undo, moves on.
LEMMA TaskMoves ==
  ASSUME Sound, NEW t \in Tasks, NEW s \in PCs, pc' = [pc EXCEPT ![t] = s],
         UNCHANGED <<alive, life, lockFile, created, held, grant, reaping, lapsed>>,
         pc[t] \notin {"idle", "holding"},
         s \in Owners => s = "undoing" /\ pc[t] = "opened"
  PROVE  Owned' /\ Counted' /\ Intact'
<1>1. pc'[t] = s /\ \A u \in Tasks \ {t} : pc'[u] = pc[u]
  BY DEF Sound, LockTypeOK
<1>2. created \in Nat
  BY DEF Sound, LockTypeOK
<1>3. \A u \in Tasks : pc'[u] # "idle" => alive'[ProcOf(u)]
  BY <1>1 DEF Sound, Owned
<1>4. \A u \in Tasks : pc'[u] \in Owners =>
        /\ pc[u] \in Owners
        /\ pc'[u] \in SoleOwners => pc[u] \in SoleOwners
        /\ pc'[u] = pc[u] \/ pc'[u] = "undoing"
  BY <1>1 DEF Owners, SoleOwners
<1>5. \A u \in Tasks : pc'[u] = "holding" <=> pc[u] = "holding"
  BY <1>1 DEF Owners
<1>6. Owned'
  BY <1>2, <1>3, <1>4, OwnedKept
<1>7. Counted'
  <2> SUFFICES ASSUME NEW p \in Processes PROVE Counts(p)'
    BY DEF Counted
  <2>1. held[p] # NotHeld =>
          \A u \in Tasks : pc'[u] \in Owners /\ grant'[u] = held[p].grant =>
            pc'[u] = "holding" /\ pc[u] = "holding" /\ grant[u] = held[p].grant
    BY <1>4, <1>5 DEF Sound, Counted, Counts
  <2>2. QED
    BY <1>2, <1>5, <2>1, CountsKept
<1>8. Intact'
  BY <1>4 DEF Sound, Intact, FileOf
<1>9. QED
  BY <1>6, <1>7, <1>8

\* A task that owns a file alone gives it up.
LEMMA SoleOwnerEnds ==
  ASSUME Sound, NEW t \in Tasks, Ends(t), pc[t] \in SoleOwners,
         UNCHANGED <<alive, created, held>>
  PROVE  /\ Owned' /\ Counted'
         /\ pc'[t] = "idle"
         /\ \A u \in Tasks \ {t} : pc'[u] = pc[u] /\ grant'[u] = grant[u]
         /\ pc' \in [Tasks -> PCs] /\ grant' \in [Tasks -> 0..MaxGrants]
<1>1. /\ pc'[t] = "idle"
      /\ \A u \in Tasks \ {t} : pc'[u] = pc[u] /\ grant'[u] = grant[u]
      /\ pc' \in [Tasks -> PCs] /\ grant' \in [Tasks -> 0..MaxGrants]
  BY LockBoundsAssumption DEF Ends, Sound, LockTypeOK, PCs
<1>2. created \in Nat
  BY DEF Sound, LockTypeOK
<1>3. \A u \in Tasks : pc'[u] # "idle" => alive'[ProcOf(u)]
  BY <1>1 DEF Sound, Owned
<1>4. \A u \in Tasks : pc'[u] \in Owners => u # t
  BY <1>1 DEF Owners
<1>5. Owned'
  BY <1>1, <1>2, <1>3, <1>4, OwnedKept
<1>6. Counted'
  <2> SUFFICES ASSUME NEW p \in Processes PROVE Counts(p)'
    BY DEF Counted
  <2>1. held[p] # NotHeld =>
          /\ \A u \in Tasks : pc'[u] \in Owners /\ grant'[u] = held[p].grant =>
               pc'[u] = "holding" /\ pc[u] = "holding" /\ grant[u] = held[p].grant
          /\ \A u \in Tasks : pc[u] = "holding" /\ grant[u] = held[p].grant =>
               pc'[u] = "holding" /\ grant'[u] = held[p].grant
    BY <1>1, <1>4 DEF Sound, Counted, Counts, SoleOwners
  <2>2. QED
    BY <1>2, <2>1, CountsKept
<1>7. QED
  BY <1>1, <1>5, <1>6

\* Files that stay, or go, evolve.
LEMMA SamePlaces ==
  ASSUME LockTypeOK, UNCHANGED <<alive, life, linux, created>>,
         lockFile' \in {lockFile, NoFile}
  PROVE  Later /\ FileEvolves
<1>1. created \in Nat /\ \A p \in Processes : life[p] \in Nat
  BY DEF LockTypeOK
<1>2. Later
  BY <1>1 DEF Later, LockTypeOK
<1>3. FileEvolves
  BY FileFacts DEF FileEvolves, LockTypeOK
<1>4. QED
  BY <1>2, <1>3

-----------------------------------------------------------------------------
(* Acquire *)

LEMMA AcquireStep ==
  ASSUME Sound, NEW t \in Tasks, NEW re \in BOOLEAN, Acquire(t, re), alive[ProcOf(t)]
  PROVE  Sound'
<1> DEFINE p == ProcOf(t)
<1>1. /\ pc[t] = "idle"
      /\ UNCHANGED <<alive, life, linux, lockFile, created, seen, reaping, sweep, lapsed>>
      /\ \/ /\ held[p] # NotHeld
            /\ held' = [held EXCEPT ![p].count = @ + 1]
            /\ grant' = [grant EXCEPT ![t] = held[p].grant]
            /\ pc' = [pc EXCEPT ![t] = "holding"]
         \/ pc' = [pc EXCEPT ![t] = "opening"] /\ UNCHANGED <<held, grant>>
  BY DEF Acquire, Begin
<1>2. p \in Processes
  BY TaskFacts
<1>3. created \in Nat
  BY DEF Sound, LockTypeOK
<1>4. Judged'
  <2>1. Later /\ FileEvolves
    BY <1>1, SamePlaces DEF Sound
  <2>2. SawFile(lockFile)'
    BY <1>1 DEF Sound, Judged, SawFile
  <2>3. \A u \in Tasks : pc'[u] = "reclaiming" => pc[u] = "reclaiming"
    BY <1>1 DEF Sound, LockTypeOK
  <2>4. QED
    BY <1>1, <2>1, <2>2, <2>3, JudgedKept DEF SweepGoesOn
<1> HIDE DEF p
<1>5. CASE pc' = [pc EXCEPT ![t] = "opening"] /\ UNCHANGED <<held, grant>>
  <2>1. pc'[t] = "opening" /\ \A u \in Tasks \ {t} : pc'[u] = pc[u]
    BY <1>5 DEF Sound, LockTypeOK
  <2>2. \A u \in Tasks : pc'[u] \in Owners => pc'[u] = pc[u]
    BY <2>1 DEF Owners
  <2>3. \A u \in Tasks : pc[u] \in Owners => pc'[u] = pc[u]
    BY <1>1, <2>1 DEF Owners
  <2>4. LockTypeOK'
    BY <1>1, <1>5 DEF Sound, LockTypeOK, PCs
  <2>5. Owned'
    <3>1. \A u \in Tasks : pc'[u] # "idle" => alive'[ProcOf(u)]
      BY <1>1, <2>1 DEF Sound, Owned, p
    <3>2. QED
      BY <1>1, <1>3, <1>5, <2>2, <3>1, OwnedKept
  <2>6. Counted'
    <3> SUFFICES ASSUME NEW q \in Processes PROVE Counts(q)'
      BY DEF Counted
    <3>1. held[q] # NotHeld =>
            /\ \A u \in Tasks : pc'[u] \in Owners /\ grant'[u] = held[q].grant =>
                 pc'[u] = "holding" /\ pc[u] = "holding" /\ grant[u] = held[q].grant
            /\ \A u \in Tasks : pc[u] = "holding" /\ grant[u] = held[q].grant =>
                 pc'[u] = "holding" /\ grant'[u] = held[q].grant
      BY <1>5, <2>2, <2>3 DEF Sound, Counted, Counts, Owners
    <3>2. QED
      BY <1>1, <1>3, <1>5, <3>1, CountsKept
  <2>7. Intact'
    BY <1>1, <1>5, <2>2 DEF Sound, Intact, FileOf
  <2>8. QED
    BY <1>4, <2>4, <2>5, <2>6, <2>7 DEF Sound
<1>6. CASE /\ held[p] # NotHeld
           /\ held' = [held EXCEPT ![p].count = @ + 1]
           /\ grant' = [grant EXCEPT ![t] = held[p].grant]
           /\ pc' = [pc EXCEPT ![t] = "holding"]
  <2> DEFINE g == held[p].grant
  <2>1. /\ pc'[t] = "holding" /\ grant'[t] = g
        /\ \A u \in Tasks \ {t} : pc'[u] = pc[u] /\ grant'[u] = grant[u]
    BY <1>6 DEF Sound, LockTypeOK
  <2>2. /\ held[p] \in [grant : 0..MaxGrants, count : Nat]
        /\ held'[p] = [held[p] EXCEPT !.count = @ + 1]
        /\ \A q \in Processes \ {p} : held'[q] = held[q]
    BY <1>2, <1>6 DEF Sound, LockTypeOK
  <2>3. /\ held'[p].grant = g /\ held'[p].count = held[p].count + 1
        /\ held'[p] \in [grant : 0..MaxGrants, count : Nat]
    BY <2>2
  <2>4. /\ alive[p] /\ g \in 1..created /\ held[p].count >= 1
        /\ Cardinality(Holders(g)) = held[p].count
        /\ \A u \in Tasks : pc[u] \in Owners /\ grant[u] = g => pc[u] = "holding" /\ ProcOf(u) = p
    BY <1>2, <1>6 DEF Sound, Counted, Counts
  <2>5. LockTypeOK'
    <3>1. held' \in [Processes -> [grant : 0..MaxGrants, count : Nat]]
      BY <1>2, <1>6, <2>2, <2>3 DEF Sound, LockTypeOK
    <3>2. pc' \in [Tasks -> PCs] /\ grant' \in [Tasks -> 0..MaxGrants]
      BY <1>6, <2>2 DEF Sound, LockTypeOK, PCs
    <3>3. QED
      BY <1>1, <3>1, <3>2 DEF Sound, LockTypeOK
  <2>6. Owned'
    <3>1. \A u \in Tasks : pc'[u] # "idle" => alive'[ProcOf(u)]
      BY <1>1, <2>1 DEF Sound, Owned, p
    <3>2. \A u \in Tasks : pc'[u] \in Owners => grant'[u] \in 1..created'
      BY <1>1, <2>1, <2>4 DEF Sound, Owned
    <3>3. ASSUME NEW u \in Tasks, NEW v \in Tasks, pc'[u] \in SoleOwners, pc'[v] \in Owners,
                 grant'[u] = grant'[v]
          PROVE  u = v
      <4>1. u # t /\ pc[u] \in SoleOwners /\ pc[u] \in Owners /\ grant'[u] = grant[u]
        BY <2>1, <3>3 DEF SoleOwners
      <4>2. v # t
        BY <2>1, <2>4, <3>3, <4>1 DEF SoleOwners
      <4>3. QED
        BY <2>1, <3>3, <4>1, <4>2 DEF Sound, Owned
    <3>4. QED
      BY <3>1, <3>2, <3>3 DEF Owned
  <2>7. Counts(p)'
    <3>1. Holders(g)' = Holders(g) \cup {t}
      BY <2>1, <2>3 DEF Holders
    <3>2. t \notin Holders(g)
      BY <1>1 DEF Holders
    <3>3. Cardinality(Holders(g) \cup {t}) = Cardinality(Holders(g)) + 1
      BY <3>2, HoldersFinite, FS_AddElement
    <3>4. \A u \in Tasks : pc'[u] \in Owners /\ grant'[u] = g => pc'[u] = "holding" /\ ProcOf(u) = p
      BY <2>1, <2>4 DEF p
    <3>5. held'[p].count >= 1
      BY <2>2, <2>3, <2>4
    <3>6. Cardinality(Holders(g)') = held'[p].count
      BY <2>3, <2>4, <3>1, <3>3
    <3>7. Holders(held[p].grant)' = Holders(g)'
      OBVIOUS
    <3>8. g \in 1..created' /\ alive'[p]
      BY <1>1, <2>4
    <3>9. QED
      BY <2>3, <3>4, <3>5, <3>6, <3>7, <3>8 DEF Counts
  <2>8. ASSUME NEW q \in Processes, q # p PROVE Counts(q)'
    <3>1. held'[q] = held[q] /\ alive'[q] = alive[q]
      BY <1>1, <2>2, <2>8
    <3>2. held[q] # NotHeld => held[q].grant # g
      BY <1>2, <1>6, <2>8, EntriesDiffer
    <3>3. held[q] # NotHeld =>
            /\ \A u \in Tasks : pc'[u] \in Owners /\ grant'[u] = held[q].grant =>
                 pc'[u] = "holding" /\ pc[u] = "holding" /\ grant[u] = held[q].grant
            /\ \A u \in Tasks : pc[u] = "holding" /\ grant[u] = held[q].grant =>
                 pc'[u] = "holding" /\ grant'[u] = held[q].grant
      BY <1>1, <2>1, <3>2 DEF Sound, Counted, Counts, Owners
    <3>4. QED
      BY <1>1, <1>3, <3>1, <3>3, CountsKept
  <2>9. Intact'
    <3> SUFFICES ASSUME ~lapsed, NEW u \in Tasks, pc'[u] \in Owners PROVE FileOf(u)'
      BY <1>1 DEF Sound, Intact
    <3>1. \A q \in Processes : held'[q].grant = held[q].grant
      BY <2>2, <2>3
    <3>2. CASE u # t
      BY <1>1, <2>1, <3>1, <3>2, TaskFacts DEF Sound, Intact, FileOf
    <3>3. CASE u = t
      <4>1. PICK h \in Tasks : pc[h] = "holding" /\ grant[h] = g /\ ProcOf(h) = p
        BY <1>2, <1>6, HasHolder
      <4>2. FileOf(h)
        BY <4>1 DEF Sound, Intact, Owners
      <4>3. QED
        BY <1>1, <1>2, <2>1, <3>1, <3>3, <4>1, <4>2 DEF FileOf, p
    <3>4. QED
      BY <3>2, <3>3
  <2>10. QED
    BY <1>4, <2>5, <2>6, <2>7, <2>8, <2>9 DEF Sound, Counted
<1>7. QED
  BY <1>1, <1>5, <1>6 DEF p

LEMMA OpenStep ==
  ASSUME Sound, NEW t \in Tasks, Open(t), UNCHANGED <<alive, life, linux>>
  PROVE  Sound'
<1> DEFINE p == ProcOf(t)
           new == [grant |-> created + 1, pid |-> p, life |-> life[p],
                   full |-> FALSE, old |-> FALSE]
<1>1. /\ pc[t] = "opening"
      /\ UNCHANGED <<held, seen, reaping, sweep, lapsed>>
      /\ \/ /\ lockFile = NoFile
            /\ created < MaxGrants
            /\ created' = created + 1
            /\ lockFile' = new
            /\ grant' = [grant EXCEPT ![t] = created + 1]
            /\ pc' = [pc EXCEPT ![t] = "opened"]
         \/ pc' = [pc EXCEPT ![t] = "contended"] /\ UNCHANGED <<lockFile, created, grant>>
  BY DEF Open
<1>2. p \in Processes /\ life[p] \in Nat
  BY TaskFacts DEF Sound, LockTypeOK
<1>3. \A u \in Tasks : pc'[u] = "reclaiming" => pc[u] = "reclaiming"
  BY <1>1 DEF Sound, LockTypeOK
<1>4. CASE pc' = [pc EXCEPT ![t] = "contended"] /\ UNCHANGED <<lockFile, created, grant>>
  <2>1. "contended" \in PCs \ Owners
    BY DEF PCs, Owners
  <2>2. LockTypeOK'
    BY <1>1, <1>4, <2>1 DEF Sound, LockTypeOK
  <2>3. Owned' /\ Counted' /\ Intact'
    BY <1>1, <1>4, <2>1, TaskMoves
  <2>4. Judged'
    <3>1. Later /\ FileEvolves
      BY <1>4, SamePlaces DEF Sound
    <3>2. SawFile(lockFile)'
      BY <1>4 DEF Sound, Judged, SawFile
    <3>3. QED
      BY <1>1, <1>3, <3>1, <3>2, JudgedKept DEF SweepGoesOn
  <2>5. QED
    BY <2>2, <2>3, <2>4 DEF Sound
<1>5. CASE /\ lockFile = NoFile
           /\ created < MaxGrants
           /\ created' = created + 1
           /\ lockFile' = new
           /\ grant' = [grant EXCEPT ![t] = created + 1]
           /\ pc' = [pc EXCEPT ![t] = "opened"]
  <2>1. created \in Nat /\ created' \in 0..MaxGrants /\ created + 1 \in Grants
    BY <1>5, LockBoundsAssumption DEF Sound, LockTypeOK, Grants
  <2>2. /\ lockFile' \in Files /\ lockFile'.grant = created + 1
        /\ lockFile'.pid = p /\ lockFile'.life = life[p]
    BY <1>2, <1>5, <2>1 DEF Files
  <2>3. /\ pc'[t] = "opened" /\ grant'[t] = created + 1
        /\ \A u \in Tasks \ {t} : pc'[u] = pc[u] /\ grant'[u] = grant[u]
    BY <1>5 DEF Sound, LockTypeOK
  <2>4. LockTypeOK'
    <3>1. pc' \in [Tasks -> PCs] /\ grant' \in [Tasks -> 0..MaxGrants]
      BY <1>5, <2>1 DEF Sound, LockTypeOK, PCs, Grants
    <3>2. QED
      BY <1>1, <2>1, <2>2, <3>1 DEF Sound, LockTypeOK
  <2>5. Owned'
    <3>1. \A u \in Tasks : pc'[u] # "idle" => alive'[ProcOf(u)]
      BY <1>1, <2>3 DEF Sound, Owned
    <3>2. \A u \in Tasks \ {t} : pc'[u] \in Owners => grant'[u] \in 1..created
      BY <2>3 DEF Sound, Owned
    <3>3. \A u \in Tasks : pc'[u] \in Owners => grant'[u] \in 1..created'
      BY <1>5, <2>1, <2>3, <3>2
    <3>4. ASSUME NEW u \in Tasks, NEW v \in Tasks, pc'[u] \in SoleOwners, pc'[v] \in Owners,
                 grant'[u] = grant'[v]
          PROVE  u = v
      <4>1. pc'[u] \in Owners
        BY <3>4 DEF SoleOwners
      <4>2. \A w \in Tasks \ {t} : pc'[w] \in Owners => grant'[w] # created + 1
        BY <2>1, <3>2
      <4>3. u = t <=> v = t
        BY <2>3, <3>4, <4>1, <4>2
      <4>4. CASE u # t
        BY <2>3, <3>4, <4>3, <4>4 DEF Sound, Owned
      <4>5. QED
        BY <4>3, <4>4
    <3>5. QED
      BY <3>1, <3>3, <3>4 DEF Owned
  <2>6. Counted'
    <3> SUFFICES ASSUME NEW q \in Processes PROVE Counts(q)'
      BY DEF Counted
    <3>1. held[q] # NotHeld => held[q].grant # created + 1
      BY <2>1 DEF Sound, Counted, Counts
    <3>2. held[q] # NotHeld =>
            /\ \A u \in Tasks : pc'[u] \in Owners /\ grant'[u] = held[q].grant =>
                 pc'[u] = "holding" /\ pc[u] = "holding" /\ grant[u] = held[q].grant
            /\ \A u \in Tasks : pc[u] = "holding" /\ grant[u] = held[q].grant =>
                 pc'[u] = "holding" /\ grant'[u] = held[q].grant
      BY <1>1, <2>3, <3>1 DEF Sound, Counted, Counts, Owners
    <3>3. created <= created' /\ created' \in Nat
      BY <1>5, <2>1
    <3>4. QED
      BY <1>1, <2>1, <3>2, <3>3, CountsKept
  <2>7. Intact'
    <3> SUFFICES ASSUME ~lapsed, NEW u \in Tasks, pc'[u] \in Owners PROVE FileOf(u)'
      BY <1>1 DEF Sound, Intact
    <3>1. pc[u] \notin Owners
      BY <1>5, NoFileNoOwner
    <3>2. u = t
      BY <2>3, <3>1
    <3>3. QED
      BY <1>1, <2>2, <2>3, <3>2 DEF FileOf
  <2>8. Judged'
    <3>1. Later
      <4>1. created <= created' /\ \A q \in Processes : life[q] \in Nat
        BY <1>5, <2>1 DEF Sound, LockTypeOK
      <4>2. QED
        BY <2>1, <2>4, <4>1 DEF Later, LockTypeOK
    <3>2. FileEvolves
      BY <2>2 DEF FileEvolves
    <3>3. SawFile(lockFile)'
      <4>1. lockFile'.grant \in 1..created' /\ lockFile'.life <= life'[lockFile'.pid]
        BY <1>2, <1>5, <2>1, <2>2
      <4>2. QED
        BY <4>1 DEF SawFile
    <3>4. QED
      BY <1>1, <1>3, <3>1, <3>2, <3>3, JudgedKept DEF SweepGoesOn
  <2>9. QED
    BY <2>4, <2>5, <2>6, <2>7, <2>8 DEF Sound
<1>6. QED
  BY <1>1, <1>4, <1>5

LEMMA WriteFailsStep ==
  ASSUME Sound, NEW t \in Tasks, WriteFails(t) \/ Again(t), UNCHANGED <<alive, life, linux>>
  PROVE  Sound'
<1>1. PICK s \in {"undoing", "opening", "idle"} :
        /\ pc' = [pc EXCEPT ![t] = s]
        /\ s = "undoing" => pc[t] = "opened"
        /\ pc[t] \in {"opened", "again"}
  BY DEF WriteFails, Again
<1>2. UNCHANGED <<lockFile, created, held, grant, seen, reaping, sweep, lapsed>>
  BY DEF WriteFails, Again
<1>3. s \in PCs /\ (s \in Owners => s = "undoing" /\ pc[t] = "opened")
  BY <1>1 DEF PCs, Owners
<1>4. LockTypeOK'
  BY <1>1, <1>2, <1>3 DEF Sound, LockTypeOK
<1>5. Owned' /\ Counted' /\ Intact'
  BY <1>1, <1>2, <1>3, TaskMoves
<1>6. Judged'
  <2>1. Later /\ FileEvolves
    BY <1>2, SamePlaces DEF Sound
  <2>2. SawFile(lockFile)'
    BY <1>2 DEF Sound, Judged, SawFile
  <2>3. \A u \in Tasks : pc'[u] = "reclaiming" => pc[u] = "reclaiming"
    BY <1>1 DEF Sound, LockTypeOK
  <2>4. QED
    BY <1>2, <2>1, <2>2, <2>3, JudgedKept DEF SweepGoesOn
<1>7. QED
  BY <1>4, <1>5, <1>6 DEF Sound

LEMMA JudgeStep ==
  ASSUME Sound, NEW t \in Tasks, ReadPayload(t) \/ Stat(t), UNCHANGED <<alive, life, linux>>
  PROVE  Sound'
<1>1. PICK s \in {"statting", "reclaiming", "guessing", "again"} :
        /\ pc' = [pc EXCEPT ![t] = s]
        /\ seen' = [seen EXCEPT ![t] = IF s \in {"reclaiming", "guessing"} THEN lockFile ELSE NoFile]
        /\ s = "reclaiming" =>
             /\ lockFile # NoFile
             /\ lockFile.old \/ ~MakerLives(lockFile) \/ (lockFile.pid = ProcOf(t) /\ ~linux)
        /\ pc[t] \in {"contended", "statting"}
  <2>1. CASE ReadPayload(t)
    <3>1. PICK works \in BOOLEAN : pc' = [pc EXCEPT ![t] =
             IF ~works \/ Unreadable(lockFile) THEN "statting"
             ELSE IF Stale(lockFile) \/ OrphanSelf(lockFile, ProcOf(t)) THEN "reclaiming"
             ELSE "again"]
      BY <2>1 DEF ReadPayload
    <3> DEFINE s == IF ~works \/ Unreadable(lockFile) THEN "statting"
                    ELSE IF Stale(lockFile) \/ OrphanSelf(lockFile, ProcOf(t)) THEN "reclaiming"
                    ELSE "again"
    <3>2. pc' = [pc EXCEPT ![t] = s] /\ pc'[t] = s /\ pc[t] = "contended"
      BY <2>1, <3>1 DEF ReadPayload, Sound, LockTypeOK
    <3>3. s \in {"statting", "reclaiming", "again"}
      OBVIOUS
    <3>4. seen' = [seen EXCEPT ![t] = IF s \in {"reclaiming", "guessing"} THEN lockFile ELSE NoFile]
      BY <2>1, <3>2, <3>3 DEF ReadPayload
    <3>5. s = "reclaiming" =>
            /\ lockFile # NoFile
            /\ lockFile.old \/ ~MakerLives(lockFile) \/ (lockFile.pid = ProcOf(t) /\ ~linux)
      BY DEF Unreadable, Stale, Recycled, OrphanSelf, MakerLives
    <3> HIDE DEF s
    <3>6. QED
      BY <3>2, <3>3, <3>4, <3>5
  <2>2. CASE Stat(t)
    <3>1. PICK works \in BOOLEAN : pc' = [pc EXCEPT ![t] =
             IF ~works THEN "guessing"
             ELSE IF lockFile # NoFile /\ lockFile.old THEN "reclaiming" ELSE "again"]
      BY <2>2 DEF Stat
    <3> DEFINE s == IF ~works THEN "guessing"
                    ELSE IF lockFile # NoFile /\ lockFile.old THEN "reclaiming" ELSE "again"
    <3>2. pc' = [pc EXCEPT ![t] = s] /\ pc'[t] = s /\ pc[t] = "statting"
      BY <2>2, <3>1 DEF Stat, Sound, LockTypeOK
    <3>3. s \in {"reclaiming", "guessing", "again"}
      OBVIOUS
    <3>4. seen' = [seen EXCEPT ![t] = IF s \in {"reclaiming", "guessing"} THEN lockFile ELSE NoFile]
      BY <2>2, <3>2, <3>3 DEF Stat
    <3>5. s = "reclaiming" => lockFile # NoFile /\ lockFile.old
      OBVIOUS
    <3> HIDE DEF s
    <3>6. QED
      BY <3>2, <3>3, <3>4, <3>5
  <2>3. QED
    BY <2>1, <2>2
<1>2. UNCHANGED <<lockFile, created, held, grant, reaping, sweep, lapsed>>
  BY DEF ReadPayload, Stat
<1>3. s \in PCs \ Owners
  BY <1>1 DEF PCs, Owners
<1>4. LockTypeOK'
  BY <1>1, <1>2, <1>3, FileFacts DEF Sound, LockTypeOK
<1>5. Owned' /\ Counted' /\ Intact'
  BY <1>1, <1>2, <1>3, TaskMoves
<1>6. Judged'
  <2>1. UNCHANGED <<lockFile, created, life, alive, linux, sweep>>
    BY <1>2
  <2>2. \A f : SawFile(f)' <=> SawFile(f)
    BY <2>1 DEF SawFile
  <2>3. \A f : MakerLives(f)' <=> MakerLives(f)
    BY <2>1 DEF MakerLives
  <2>4. /\ pc'[t] = s /\ seen'[t] \in {lockFile, NoFile}
        /\ s = "reclaiming" => seen'[t] = lockFile
        /\ \A u \in Tasks \ {t} : pc'[u] = pc[u] /\ seen'[u] = seen[u]
    BY <1>1 DEF Sound, LockTypeOK
  <2>5. SawFile(NoFile) /\ SawFile(lockFile)
    BY DEF SawFile, Sound, Judged
  <2>6. \A u \in Tasks : SawFile(seen[u])'
    BY <2>1, <2>4, <2>5 DEF Sound, Judged, SawFile
  <2>7. Condemned(t)'
    BY <1>1, <2>1, <2>4 DEF Condemned, MakerLives
  <2>8. \A u \in Tasks \ {t} : Condemned(u)'
    BY <2>1, <2>4 DEF Sound, Judged, Condemned, MakerLives
  <2>9. SawFile(lockFile)' /\ \A p \in Processes : SawFile(sweep[p].file)' /\ Swept(p)'
    BY <2>1 DEF Sound, Judged, SawFile, Swept, MakerLives
  <2>10. QED
    BY <2>6, <2>7, <2>8, <2>9 DEF Judged
<1>7. QED
  BY <1>4, <1>5, <1>6 DEF Sound

\* The file at lockPath gets its payload, or older.
LEMMA FileGrows ==
  ASSUME LockTypeOK, SawFile(lockFile), UNCHANGED <<alive, life, linux, created>>,
         \/ lockFile' = lockFile
         \/ lockFile # NoFile /\ lockFile' = [lockFile EXCEPT !.full = TRUE]
         \/ lockFile # NoFile /\ lockFile' = [lockFile EXCEPT !.old = TRUE]
  PROVE  /\ lockFile' \in Files /\ Later /\ FileEvolves /\ SawFile(lockFile)'
         /\ lockFile'.grant = lockFile.grant
         /\ lockFile # NoFile =>
              /\ lockFile'.pid = lockFile.pid /\ lockFile'.life = lockFile.life
              /\ lockFile.full => lockFile'.full
<1>1. created \in Nat /\ \A p \in Processes : life[p] \in Nat
  BY DEF LockTypeOK
<1>2. Later
  BY <1>1 DEF Later, LockTypeOK
<1>3. CASE lockFile' = lockFile
  BY <1>2, <1>3, FileFacts DEF FileEvolves, LockTypeOK, SawFile
<1>4. CASE lockFile # NoFile /\ lockFile' \in {[lockFile EXCEPT !.full = TRUE], [lockFile EXCEPT !.old = TRUE]}
  <2>1. lockFile \in [grant : Grants, pid : Processes, life : Nat, full : BOOLEAN, old : BOOLEAN]
    BY <1>4 DEF LockTypeOK, Files
  <2>2. /\ lockFile' \in [grant : Grants, pid : Processes, life : Nat, full : BOOLEAN, old : BOOLEAN]
        /\ lockFile'.grant = lockFile.grant
        /\ lockFile'.pid = lockFile.pid /\ lockFile'.life = lockFile.life
        /\ lockFile.full => lockFile'.full
        /\ lockFile.old => lockFile'.old
    BY <1>4, <2>1
  <2>3. lockFile' \in Files /\ lockFile' # NoFile
    BY <1>4, <2>1, <2>2, FileFacts DEF Files, LockTypeOK
  <2>4. FileEvolves
    BY <1>4, <2>2, <2>3 DEF FileEvolves
  <2>5. SawFile(lockFile)'
    BY <1>4, <2>2 DEF SawFile
  <2>6. QED
    BY <1>2, <2>2, <2>3, <2>4, <2>5
<1>5. QED
  BY <1>3, <1>4

LEMMA AgeStep ==
  ASSUME Sound, Age, UNCHANGED <<alive, life, linux>>
  PROVE  Sound'
<1>1. /\ lockFile # NoFile /\ lockFile' = [lockFile EXCEPT !.old = TRUE]
      /\ UNCHANGED <<created, held, pc, grant, seen, reaping, sweep, lapsed>>
  BY DEF Age
<1>2. /\ lockFile' \in Files /\ Later /\ FileEvolves /\ SawFile(lockFile)'
      /\ lockFile'.grant = lockFile.grant
      /\ lockFile'.pid = lockFile.pid /\ lockFile'.life = lockFile.life
      /\ lockFile.full => lockFile'.full
  BY <1>1, FileGrows DEF Sound, Judged
<1>3. LockTypeOK'
  BY <1>1, <1>2 DEF Sound, LockTypeOK
<1>4. Owned' /\ Counted'
  BY <1>1 DEF Sound, Owned, Counted, Counts, Holders
<1>5. Judged'
  BY <1>1, <1>2, JudgedKept DEF SweepGoesOn
<1>6. Intact'
  BY <1>1, <1>2 DEF Sound, Intact, FileOf
<1>7. QED
  BY <1>3, <1>4, <1>5, <1>6 DEF Sound

LEMMA WritePayloadStep ==
  ASSUME Sound, NEW t \in Tasks, WritePayload(t), UNCHANGED <<alive, life, linux>>
  PROVE  Sound'
<1>1. /\ pc[t] = "opened" /\ pc' = [pc EXCEPT ![t] = "written"]
      /\ lockFile' = IF lockFile.grant = grant[t] THEN [lockFile EXCEPT !.full = TRUE]
                                                   ELSE lockFile
      /\ UNCHANGED <<created, held, grant, seen, reaping, sweep, lapsed>>
  BY DEF WritePayload
<1>2. grant[t] \in 1..created /\ grant[t] # 0
  BY <1>1 DEF Sound, Owned, Owners, LockTypeOK
<1>3. lockFile.grant = grant[t] => lockFile # NoFile
  BY <1>2, FileFacts
<1>4. /\ lockFile' \in Files /\ Later /\ FileEvolves /\ SawFile(lockFile)'
      /\ lockFile'.grant = lockFile.grant
      /\ lockFile # NoFile =>
           /\ lockFile'.pid = lockFile.pid /\ lockFile'.life = lockFile.life
           /\ lockFile.full => lockFile'.full
  BY <1>1, <1>3, FileGrows DEF Sound, Judged
<1>5. pc'[t] = "written" /\ \A u \in Tasks \ {t} : pc'[u] = pc[u]
  BY <1>1 DEF Sound, LockTypeOK
<1>6. LockTypeOK'
  BY <1>1, <1>4 DEF Sound, LockTypeOK, PCs
<1>7. \A u \in Tasks : pc'[u] \in Owners =>
        pc[u] \in Owners /\ (pc'[u] \in SoleOwners => pc[u] \in SoleOwners)
  BY <1>1, <1>5 DEF Owners, SoleOwners
<1>8. Owned'
  <2>1. created \in Nat /\ \A u \in Tasks : pc'[u] # "idle" => alive'[ProcOf(u)]
    BY <1>1, <1>5 DEF Sound, LockTypeOK, Owned
  <2>2. QED
    BY <1>1, <1>7, <2>1, OwnedKept
<1>9. Counted'
  <2> SUFFICES ASSUME NEW p \in Processes PROVE Counts(p)'
    BY DEF Counted
  <2>1. held[p] # NotHeld =>
          /\ \A u \in Tasks : pc'[u] \in Owners /\ grant'[u] = held[p].grant =>
               pc'[u] = "holding" /\ pc[u] = "holding" /\ grant[u] = held[p].grant
          /\ \A u \in Tasks : pc[u] = "holding" /\ grant[u] = held[p].grant =>
               pc'[u] = "holding" /\ grant'[u] = held[p].grant
    BY <1>1, <1>5 DEF Sound, Counted, Counts, Owners
  <2>2. created \in Nat
    BY DEF Sound, LockTypeOK
  <2>3. QED
    BY <1>1, <2>1, <2>2, CountsKept
<1>10. Judged'
  BY <1>1, <1>4, <1>5, JudgedKept DEF SweepGoesOn
<1>11. Intact'
  <2> SUFFICES ASSUME ~lapsed, NEW u \in Tasks, pc'[u] \in Owners PROVE FileOf(u)'
    BY <1>1 DEF Sound, Intact
  <2>1. FileOf(u) /\ grant[u] \in 1..created /\ created \in Nat
    BY <1>7 DEF Sound, Intact, Owned, LockTypeOK
  <2>2. lockFile # NoFile
    BY <2>1, FileFacts DEF FileOf
  <2>3. u = t => lockFile'.full
    <3>1. lockFile \in [grant : Grants, pid : Processes, life : Nat, full : BOOLEAN, old : BOOLEAN]
      BY <2>2 DEF Sound, LockTypeOK, Files
    <3>2. u = t => lockFile' = [lockFile EXCEPT !.full = TRUE]
      BY <1>1, <2>1 DEF FileOf
    <3>3. QED
      BY <3>1, <3>2
  <2>4. QED
    BY <1>1, <1>4, <1>5, <2>1, <2>2, <2>3 DEF FileOf
<1>12. QED
  BY <1>6, <1>8, <1>9, <1>10, <1>11 DEF Sound

LEMMA RegisterStep ==
  ASSUME Sound, NEW t \in Tasks, Register(t), UNCHANGED <<alive, life, linux>>
  PROVE  Sound'
<1> DEFINE p == ProcOf(t)
           g == grant[t]
<1>1. /\ pc[t] = "written" /\ pc' = [pc EXCEPT ![t] = "holding"]
      /\ held' = [held EXCEPT ![p] = [grant |-> g, count |-> 1]]
      /\ UNCHANGED <<lockFile, created, grant, seen, reaping, sweep, lapsed>>
  BY DEF Register
<1>2. p \in Processes /\ alive[p] /\ g \in 1..created /\ g \in 0..MaxGrants /\ created \in Nat
  BY <1>1, TaskFacts DEF Sound, Owned, Owners, LockTypeOK
<1>3. \A u \in Tasks : pc[u] \in Owners /\ grant[u] = g => u = t
  BY <1>1 DEF Sound, Owned, Owners, SoleOwners
<1>4. pc'[t] = "holding" /\ \A u \in Tasks \ {t} : pc'[u] = pc[u]
  BY <1>1 DEF Sound, LockTypeOK
<1>5. held'[p] = [grant |-> g, count |-> 1] /\ \A q \in Processes \ {p} : held'[q] = held[q]
  BY <1>1, <1>2 DEF Sound, LockTypeOK
<1>6. LockTypeOK'
  BY <1>1, <1>2 DEF Sound, LockTypeOK, PCs
<1>7. \A u \in Tasks : pc'[u] \in Owners =>
        pc[u] \in Owners /\ (pc'[u] \in SoleOwners => pc[u] \in SoleOwners)
  BY <1>1, <1>4 DEF Owners, SoleOwners
<1>8. Owned'
  <2>1. \A u \in Tasks : pc'[u] # "idle" => alive'[ProcOf(u)]
    BY <1>1, <1>2, <1>4 DEF Sound, Owned
  <2>2. QED
    BY <1>1, <1>2, <1>7, <2>1, OwnedKept
<1>9. Counts(p)'
  <2>1. held'[p].grant = g /\ held'[p].count = 1
    BY <1>5
  <2>2. Holders(held[p].grant)' = {t}
    BY <1>1, <1>3, <1>4, <1>7, <2>1 DEF Holders, Owners
  <2>3. Cardinality({t}) = 1
    BY FS_Singleton
  <2>4. \A u \in Tasks : pc'[u] \in Owners /\ grant'[u] = g => pc'[u] = "holding" /\ ProcOf(u) = p
    BY <1>1, <1>3, <1>4, <1>7
  <2>5. Cardinality(Holders(held[p].grant)') = held'[p].count
    BY <2>1, <2>2, <2>3
  <2>6. g \in 1..created' /\ alive'[p] /\ held'[p].count >= 1
    BY <1>1, <1>2, <2>1
  <2>7. QED
    BY <2>1, <2>4, <2>5, <2>6 DEF Counts
<1>10. ASSUME NEW q \in Processes, q # p PROVE Counts(q)'
  <2>1. held'[q] = held[q]
    BY <1>5, <1>10
  <2>2. held[q] # NotHeld => held[q].grant # g
    BY <1>1 DEF Sound, Counted, Counts, Owners
  <2>3. held[q] # NotHeld =>
          /\ \A u \in Tasks : pc'[u] \in Owners /\ grant'[u] = held[q].grant =>
               pc'[u] = "holding" /\ pc[u] = "holding" /\ grant[u] = held[q].grant
          /\ \A u \in Tasks : pc[u] = "holding" /\ grant[u] = held[q].grant =>
               pc'[u] = "holding" /\ grant'[u] = held[q].grant
    BY <1>1, <1>4, <2>2 DEF Sound, Counted, Counts, Owners
  <2>4. QED
    BY <1>1, <1>2, <2>1, <2>3, CountsKept
<1>11. Judged'
  <2>1. Later /\ FileEvolves
    BY <1>1, SamePlaces DEF Sound
  <2>2. SawFile(lockFile)'
    BY <1>1 DEF Sound, Judged, SawFile
  <2>3. QED
    BY <1>1, <1>4, <2>1, <2>2, JudgedKept DEF SweepGoesOn
<1>12. Intact'
  <2> SUFFICES ASSUME ~lapsed, NEW u \in Tasks, pc'[u] \in Owners PROVE FileOf(u)'
    BY <1>1 DEF Sound, Intact
  <2>1. FileOf(u) /\ FileOf(t)
    BY <1>1, <1>7 DEF Sound, Intact, Owners
  <2>2. u = t
    BY <1>3, <1>7, <2>1 DEF FileOf
  <2>3. QED
    BY <1>1, <1>4, <1>5, <2>1, <2>2 DEF FileOf
<1>13. QED
  BY <1>6, <1>8, <1>9, <1>10, <1>11, <1>12 DEF Sound, Counted

-----------------------------------------------------------------------------
(* Release and removal *)

\* Whoever removes the file at lockPath leaves the lock sound if it took the
\* lock from nobody, or says so.
LEMMA RemovalStep ==
  ASSUME Sound, NEW g, NEW takes \in BOOLEAN, RemoveFile(g, takes),
         UNCHANGED <<alive, life, linux, created>>,
         pc' \in [Tasks -> PCs], grant' \in [Tasks -> 0..MaxGrants],
         held' \in [Processes -> [grant : 0..MaxGrants, count : Nat]],
         seen' \in [Tasks -> Files],
         reaping' \in [Processes -> SUBSET Grants],
         sweep' \in [Processes -> [at : SweepPCs, file : Files]],
         Owned', Counted',
         \A t \in Tasks :
           \/ seen'[t] = seen[t] /\ (pc'[t] = "reclaiming" => pc[t] = "reclaiming")
           \/ seen'[t] = NoFile /\ pc'[t] # "reclaiming",
         \A p \in Processes : SweepGoesOn(p),
         ~lapsed => \A p \in Processes : reaping'[p] = {},
         \A u \in Tasks : pc'[u] \in Owners => pc[u] \in Owners,
         ~lapsed /\ lockFile # NoFile /\ lockFile.grant = g /\ ~takes =>
           \A u \in Tasks : pc'[u] \notin Owners
  PROVE  Sound'
<1>1. /\ lockFile' = NoFile /\ lapsed' \in BOOLEAN
      /\ ~lapsed' => ~lapsed /\ (lockFile = NoFile \/ (lockFile.grant = g /\ ~takes))
  BY DEF RemoveFile, Sound, LockTypeOK
<1>2. LockTypeOK'
  BY <1>1, FileFacts DEF Sound, LockTypeOK
<1>3. Later /\ FileEvolves
  BY <1>1, SamePlaces DEF Sound
<1>4. SawFile(lockFile)'
  BY <1>1 DEF SawFile
<1>5. Judged'
  BY <1>3, <1>4, JudgedKept
<1>6. ~lapsed' => \A u \in Tasks : pc'[u] \notin Owners
  BY <1>1, NoFileNoOwner
<1>7. Intact'
  BY <1>1, <1>6 DEF Intact
<1>8. QED
  BY <1>2, <1>5, <1>7 DEF Sound

LEMMA UndoStep ==
  ASSUME Sound, NEW t \in Tasks, Undo(t) \/ RemoveReleased(t), UNCHANGED <<alive, life, linux>>
  PROVE  Sound'
<1>1. /\ pc[t] \in SoleOwners /\ pc[t] \in Owners /\ Ends(t)
      /\ UNCHANGED <<created, held, seen, reaping, sweep>>
      /\ RemoveFile(grant[t], FALSE) \/ UNCHANGED <<lockFile, lapsed>>
  BY DEF Undo, RemoveReleased, SoleOwners, Owners
<1>2. /\ Owned' /\ Counted' /\ pc'[t] = "idle"
      /\ \A u \in Tasks \ {t} : pc'[u] = pc[u] /\ grant'[u] = grant[u]
      /\ pc' \in [Tasks -> PCs] /\ grant' \in [Tasks -> 0..MaxGrants]
  BY <1>1, SoleOwnerEnds
<1>3. \A u \in Tasks : /\ pc'[u] \in Owners => pc'[u] = pc[u] /\ u # t
                       /\ pc'[u] = "reclaiming" => pc[u] = "reclaiming"
  BY <1>2 DEF Owners
<1>4. /\ seen' \in [Tasks -> Files] /\ held' \in [Processes -> [grant : 0..MaxGrants, count : Nat]]
      /\ reaping' \in [Processes -> SUBSET Grants]
      /\ sweep' \in [Processes -> [at : SweepPCs, file : Files]]
      /\ ~lapsed => \A p \in Processes : reaping'[p] = {}
  BY <1>1 DEF Sound, LockTypeOK, Intact
<1>5. CASE RemoveFile(grant[t], FALSE)
  <2>1. ~lapsed => \A u \in Tasks : pc'[u] \notin Owners
    <3> SUFFICES ASSUME ~lapsed, NEW u \in Tasks, pc'[u] \in Owners PROVE FALSE
      OBVIOUS
    <3>1. FileOf(u) /\ FileOf(t)
      BY <1>1, <1>3 DEF Sound, Intact
    <3>2. grant[u] = grant[t] /\ u # t /\ pc[u] \in Owners
      BY <1>3, <3>1 DEF FileOf
    <3>3. QED
      BY <1>1, <3>2 DEF Sound, Owned
  <2>2. UNCHANGED <<alive, life, linux, created>>
    BY <1>1
  <2>3. QED
    BY <1>1, <1>2, <1>3, <1>4, <1>5, <2>1, <2>2, RemovalStep DEF SweepGoesOn
<1>6. CASE UNCHANGED <<lockFile, lapsed>>
  <2>1. LockTypeOK'
    BY <1>1, <1>2, <1>6 DEF Sound, LockTypeOK
  <2>2. Later /\ FileEvolves
    BY <1>1, <1>6, SamePlaces DEF Sound
  <2>3. SawFile(lockFile)'
    BY <1>1, <1>6 DEF Sound, Judged, SawFile
  <2>4. Judged'
    BY <1>1, <1>3, <2>2, <2>3, JudgedKept DEF SweepGoesOn
  <2>5. Intact'
    BY <1>1, <1>2, <1>3, <1>6 DEF Sound, Intact, FileOf
  <2>6. QED
    BY <1>2, <2>1, <2>4, <2>5 DEF Sound
<1>7. QED
  BY <1>1, <1>5, <1>6

\* A task that judges a file stale removes whatever is there.
LEMMA ReclaimStep ==
  ASSUME Sound, NEW t \in Tasks, Reclaim(t), UNCHANGED <<alive, life, linux>>
  PROVE  Sound'
<1> DEFINE f == seen[t]
           takes == /\ MakerLives(f)
                    /\ f.old \/ (f.pid = ProcOf(t) /\ ~linux) \/ pc[t] = "guessing"
<1>1. /\ pc[t] \in {"reclaiming", "guessing"} /\ pc' = [pc EXCEPT ![t] = "again"]
      /\ RemoveFile(f.grant, takes)
      /\ seen' = [seen EXCEPT ![t] = NoFile]
      /\ UNCHANGED <<created, held, grant, reaping, sweep>>
  BY DEF Reclaim
<1>2. /\ f \in Files /\ SawFile(f)
      /\ ~takes => ~MakerLives(f)
  BY <1>1 DEF Sound, LockTypeOK, Judged, Condemned
<1>3. pc'[t] = "again" /\ \A u \in Tasks \ {t} : pc'[u] = pc[u]
  BY <1>1 DEF Sound, LockTypeOK
<1>4. seen'[t] = NoFile /\ \A u \in Tasks \ {t} : seen'[u] = seen[u]
  BY <1>1 DEF Sound, LockTypeOK
<1>5. /\ pc' \in [Tasks -> PCs] /\ seen' \in [Tasks -> Files]
      /\ grant' \in [Tasks -> 0..MaxGrants]
      /\ held' \in [Processes -> [grant : 0..MaxGrants, count : Nat]]
      /\ reaping' \in [Processes -> SUBSET Grants]
      /\ sweep' \in [Processes -> [at : SweepPCs, file : Files]]
      /\ ~lapsed => \A p \in Processes : reaping'[p] = {}
  BY <1>1, FileFacts DEF Sound, LockTypeOK, Intact, PCs
<1>6. \A u \in Tasks : pc'[u] \in Owners <=> pc[u] \in Owners
  BY <1>1, <1>3 DEF Owners
<1>7. \A u \in Tasks : pc'[u] \in Owners => pc'[u] = pc[u]
  BY <1>1, <1>3 DEF Owners
<1>8. Owned'
  <2>1. \A u \in Tasks : pc'[u] # "idle" => alive'[ProcOf(u)]
    BY <1>1, <1>3 DEF Sound, Owned
  <2>2. created \in Nat
    BY DEF Sound, LockTypeOK
  <2>3. QED
    BY <1>1, <1>6, <1>7, <2>1, <2>2, OwnedKept
<1>9. Counted'
  <2> SUFFICES ASSUME NEW p \in Processes PROVE Counts(p)'
    BY DEF Counted
  <2>1. held[p] # NotHeld =>
          /\ \A u \in Tasks : pc'[u] \in Owners /\ grant'[u] = held[p].grant =>
               pc'[u] = "holding" /\ pc[u] = "holding" /\ grant[u] = held[p].grant
          /\ \A u \in Tasks : pc[u] = "holding" /\ grant[u] = held[p].grant =>
               pc'[u] = "holding" /\ grant'[u] = held[p].grant
    BY <1>1, <1>3, <1>7 DEF Sound, Counted, Counts, Owners
  <2>2. created \in Nat
    BY DEF Sound, LockTypeOK
  <2>3. QED
    BY <1>1, <2>1, <2>2, CountsKept
<1>10. takes \in BOOLEAN
  BY DEF MakerLives
<1>11. ~lapsed /\ lockFile # NoFile /\ lockFile.grant = f.grant /\ ~takes =>
         \A u \in Tasks : pc'[u] \notin Owners
  <2> SUFFICES ASSUME ~lapsed, lockFile # NoFile, lockFile.grant = f.grant, ~takes,
                      NEW u \in Tasks
               PROVE  pc[u] \notin Owners
    BY <1>6
  <2>1. ~MakerLives(f) /\ f # NoFile
    BY <1>2, FileFacts DEF Sound, LockTypeOK
  <2> HIDE DEF f, takes
  <2>2. QED
    BY <1>2, <2>1, DeadMakerNoOwner
<1>12. /\ \A u \in Tasks :
            \/ seen'[u] = seen[u] /\ (pc'[u] = "reclaiming" => pc[u] = "reclaiming")
            \/ seen'[u] = NoFile /\ pc'[u] # "reclaiming"
       /\ \A p \in Processes : SweepGoesOn(p)
  BY <1>1, <1>3, <1>4 DEF SweepGoesOn
<1> HIDE DEF f, takes
<1>13. QED
  BY <1>1, <1>5, <1>6, <1>8, <1>9, <1>10, <1>11, <1>12, RemovalStep

\* The start-up cleanup of a gateway.
LEMMA CleanStep ==
  ASSUME Sound, NEW p \in Processes, CleanList(p) \/ CleanRead(p) \/ CleanRemove(p),
         UNCHANGED <<alive, life, linux>>
  PROVE  Sound'
<1>1. UNCHANGED <<created, held, pc, grant, seen, reaping>>
  BY DEF CleanList, CleanRead, CleanRemove
<1>2. Owned' /\ Counted'
  BY <1>1 DEF Sound, Owned, Counted, Counts, Holders
<1>3. CASE CleanList(p) \/ CleanRead(p)
  <2>1. /\ sweep[p] \in [at : SweepPCs, file : Files] /\ lockFile \in Files
        /\ NoSweep \in [at : SweepPCs, file : Files]
        /\ NoSweep.file = NoFile /\ NoSweep.at = "over"
        /\ {"guessing", "removing", "listed", "over"} \subseteq SweepPCs
    BY FileFacts DEF Sound, LockTypeOK, NoSweep, SweepPCs
  <2>2. PICK s \in [at : SweepPCs, file : Files] :
          /\ sweep' = [sweep EXCEPT ![p] = s] /\ UNCHANGED <<lockFile, lapsed>>
          /\ s.file \in {sweep[p].file, lockFile, NoFile}
          /\ s.at = "removing" => s.file = lockFile /\ (lockFile.old \/ ~MakerLives(lockFile))
    <3>1. CASE CleanList(p)
      <4>1. PICK at \in {"listed", "over"} : sweep' = [sweep EXCEPT ![p].at = at]
        BY <3>1 DEF CleanList
      <4>2. [sweep[p] EXCEPT !.at = at] \in [at : SweepPCs, file : Files]
        BY <2>1
      <4>3. [sweep[p] EXCEPT !.at = at].file = sweep[p].file /\ [sweep[p] EXCEPT !.at = at].at = at
        BY <2>1
      <4>4. sweep' = [sweep EXCEPT ![p] = [sweep[p] EXCEPT !.at = at]] /\ UNCHANGED <<lockFile, lapsed>>
        BY <3>1, <4>1 DEF CleanList
      <4>5. at # "removing"
        BY <4>1
      <4>6. QED
        BY <4>2, <4>3, <4>4, <4>5
    <3>2. CASE CleanRead(p)
      <4>1. PICK works \in BOOLEAN : sweep' = [sweep EXCEPT ![p] =
               IF ~works \/ Unreadable(lockFile) THEN [at |-> "guessing", file |-> lockFile]
               ELSE IF Stale(lockFile) THEN [at |-> "removing", file |-> lockFile]
               ELSE NoSweep]
        BY <3>2 DEF CleanRead
      <4>2. CASE ~works \/ Unreadable(lockFile)
        <5> DEFINE s == [at |-> "guessing", file |-> lockFile]
        <5>1. s \in [at : SweepPCs, file : Files] /\ s.file = lockFile /\ s.at = "guessing"
          BY <2>1
        <5>2. sweep' = [sweep EXCEPT ![p] = s] /\ UNCHANGED <<lockFile, lapsed>>
          BY <3>2, <4>1, <4>2 DEF CleanRead
        <5> HIDE DEF s
        <5>3. QED
          BY <5>1, <5>2
      <4>3. CASE ~(~works \/ Unreadable(lockFile)) /\ Stale(lockFile)
        <5> DEFINE s == [at |-> "removing", file |-> lockFile]
        <5>1. s \in [at : SweepPCs, file : Files] /\ s.file = lockFile
          BY <2>1
        <5>2. sweep' = [sweep EXCEPT ![p] = s] /\ UNCHANGED <<lockFile, lapsed>>
          BY <3>2, <4>1, <4>3 DEF CleanRead
        <5>3. lockFile.old \/ ~MakerLives(lockFile)
          BY <4>3 DEF Stale, Unreadable, Recycled, MakerLives
        <5> HIDE DEF s
        <5>4. QED
          BY <5>1, <5>2, <5>3
      <4>4. CASE ~(~works \/ Unreadable(lockFile)) /\ ~Stale(lockFile)
        <5>1. sweep' = [sweep EXCEPT ![p] = NoSweep] /\ UNCHANGED <<lockFile, lapsed>>
          BY <3>2, <4>1, <4>4 DEF CleanRead
        <5>2. QED
          BY <2>1, <5>1
      <4>5. QED
        BY <4>2, <4>3, <4>4
    <3>3. QED
      BY <1>3, <3>1, <3>2
  <2>4. sweep'[p] = s /\ \A q \in Processes \ {p} : sweep'[q] = sweep[q]
    BY <2>2 DEF Sound, LockTypeOK
  <2>5. LockTypeOK'
    BY <1>1, <2>2 DEF Sound, LockTypeOK
  <2>6. UNCHANGED <<lockFile, created, life, alive, linux, pc, seen>>
    BY <1>1, <2>2
  <2>7. SawFile(lockFile)' /\ \A u \in Tasks : SawFile(seen[u])' /\ Condemned(u)'
    BY <2>6 DEF Sound, Judged, SawFile, Condemned, MakerLives
  <2>8. \A q \in Processes \ {p} : SawFile(sweep[q].file)' /\ Swept(q)'
    BY <2>4, <2>6 DEF Sound, Judged, SawFile, Swept, MakerLives
  <2>9. SawFile(sweep[p].file)'
    <3>1. SawFile(sweep[p].file) /\ SawFile(lockFile) /\ SawFile(NoFile)
      BY DEF Sound, Judged, SawFile
    <3>2. QED
      BY <2>2, <2>4, <2>6, <3>1 DEF SawFile
  <2>10. Swept(p)'
    BY <2>2, <2>4, <2>6 DEF Swept, MakerLives
  <2>11. Judged'
    BY <2>7, <2>8, <2>9, <2>10 DEF Judged
  <2>12. Intact'
    BY <1>1, <2>2 DEF Sound, Intact, FileOf
  <2>13. QED
    BY <1>2, <2>5, <2>11, <2>12 DEF Sound
<1>4. CASE CleanRemove(p)
  <2> DEFINE f == sweep[p].file
             takes == MakerLives(f) /\ (f.old \/ sweep[p].at = "guessing")
  <2>1. /\ sweep[p].at \in {"removing", "guessing"} /\ RemoveFile(f.grant, takes)
        /\ sweep' = [sweep EXCEPT ![p] = NoSweep]
    BY <1>4 DEF CleanRemove
  <2>2. f \in Files /\ SawFile(f) /\ (~takes => ~MakerLives(f))
    BY <2>1 DEF Sound, LockTypeOK, Judged, Swept
  <2>3. takes \in BOOLEAN
    BY DEF MakerLives
  <2>4. ~lapsed /\ lockFile # NoFile /\ lockFile.grant = f.grant /\ ~takes =>
          \A u \in Tasks : pc'[u] \notin Owners
    <3> SUFFICES ASSUME ~lapsed, lockFile # NoFile, lockFile.grant = f.grant, ~takes,
                        NEW u \in Tasks
                 PROVE  pc[u] \notin Owners
      BY <1>1
    <3>1. ~MakerLives(f) /\ f # NoFile
      BY <2>2, FileFacts DEF Sound, LockTypeOK
    <3> HIDE DEF f, takes
    <3>2. QED
      BY <2>2, <3>1, DeadMakerNoOwner
  <2>5. sweep' \in [Processes -> [at : SweepPCs, file : Files]]
    BY <2>1, FileFacts DEF Sound, LockTypeOK, NoSweep, SweepPCs
  <2>6. \A q \in Processes : SweepGoesOn(q)
    BY <2>1 DEF Sound, LockTypeOK, NoSweep, SweepGoesOn
  <2>7. /\ pc' \in [Tasks -> PCs] /\ seen' \in [Tasks -> Files]
        /\ grant' \in [Tasks -> 0..MaxGrants]
        /\ held' \in [Processes -> [grant : 0..MaxGrants, count : Nat]]
        /\ reaping' \in [Processes -> SUBSET Grants]
        /\ ~lapsed => \A q \in Processes : reaping'[q] = {}
    BY <1>1 DEF Sound, LockTypeOK, Intact
  <2> HIDE DEF f, takes
  <2>8. QED
    BY <1>1, <1>2, <2>1, <2>3, <2>4, <2>5, <2>6, <2>7, RemovalStep
<1>5. QED
  BY <1>3, <1>4

\* A set of one task.
LEMMA OnlyHolder ==
  ASSUME NEW g, Cardinality(Holders(g)) = 1, NEW t \in Holders(g), NEW u \in Holders(g)
  PROVE  t = u
<1>1. Cardinality(Holders(g) \ {t}) = 0 /\ IsFiniteSet(Holders(g) \ {t})
  BY HoldersFinite, FS_RemoveElement
<1>2. Holders(g) \ {t} = {}
  BY <1>1, FS_EmptySet
<1>3. QED
  BY <1>2

LEMMA ReleaseStep ==
  ASSUME Sound, NEW t \in Tasks, Release(t), UNCHANGED <<alive, life, linux>>
  PROVE  Sound'
<1> DEFINE p == ProcOf(t)
           g == grant[t]
<1>1. /\ pc[t] = "holding"
      /\ UNCHANGED <<lockFile, created, seen, reaping, sweep, lapsed>>
      /\ \/ held[p].grant # g /\ Ends(t) /\ UNCHANGED held
         \/ /\ held[p].grant = g /\ held[p].count > 1
            /\ Ends(t) /\ held' = [held EXCEPT ![p].count = @ - 1]
         \/ /\ held[p].grant = g /\ ~(held[p].count > 1)
            /\ pc' = [pc EXCEPT ![t] = "closing"] /\ UNCHANGED grant
            /\ held' = [held EXCEPT ![p] = NotHeld]
  BY DEF Release
<1>2. p \in Processes /\ created \in Nat /\ g \in 1..created /\ g # 0
  BY <1>1, TaskFacts DEF Sound, Owned, Owners, LockTypeOK
<1>3. held[p].grant = g =>
        /\ held[p] # NotHeld /\ held[p].count >= 1
        /\ Cardinality(Holders(g)) = held[p].count
        /\ \A u \in Tasks : pc[u] \in Owners /\ grant[u] = g => pc[u] = "holding" /\ ProcOf(u) = p
  <2>1. NotHeld.grant = 0
    BY DEF NotHeld
  <2>2. QED
    BY <1>2, <2>1 DEF Sound, Counted, Counts
<1>4. t \in Holders(g)
  BY <1>1 DEF Holders
<1>5. /\ held[p] \in [grant : 0..MaxGrants, count : Nat]
      /\ NotHeld \in [grant : 0..MaxGrants, count : Nat]
  BY <1>2, LockBoundsAssumption DEF Sound, LockTypeOK, NotHeld
<1>6. /\ pc' \in [Tasks -> PCs] /\ grant' \in [Tasks -> 0..MaxGrants]
      /\ pc'[t] \in {"idle", "closing"}
      /\ pc'[t] = "closing" => grant'[t] = g
      /\ \A u \in Tasks \ {t} : pc'[u] = pc[u] /\ grant'[u] = grant[u]
  <2>1. pc \in [Tasks -> PCs] /\ grant \in [Tasks -> 0..MaxGrants] /\ 0 \in 0..MaxGrants
    BY LockBoundsAssumption DEF Sound, LockTypeOK
  <2>2. CASE Ends(t)
    BY <2>1, <2>2 DEF PCs, Ends
  <2>3. CASE pc' = [pc EXCEPT ![t] = "closing"] /\ UNCHANGED grant
    BY <2>1, <2>3 DEF PCs
  <2>4. QED
    BY <1>1, <2>2, <2>3
<1>7. \A u \in Tasks : pc'[u] = "holding" <=> pc[u] = "holding" /\ u # t
  BY <1>6
<1>8. /\ held' \in [Processes -> [grant : 0..MaxGrants, count : Nat]]
      /\ \A q \in Processes \ {p} : held'[q] = held[q]
  <2>1. CASE UNCHANGED held
    BY <2>1 DEF Sound, LockTypeOK
  <2>2. CASE held[p].count > 1 /\ held' = [held EXCEPT ![p].count = @ - 1]
    <3>1. held[p].count - 1 \in Nat
      BY <1>5, <2>2
    <3>2. [held[p] EXCEPT !.count = @ - 1] \in [grant : 0..MaxGrants, count : Nat]
      BY <1>5, <3>1
    <3>3. QED
      BY <1>2, <2>2, <3>2 DEF Sound, LockTypeOK
  <2>3. CASE held' = [held EXCEPT ![p] = NotHeld]
    BY <1>2, <1>5, <2>3 DEF Sound, LockTypeOK
  <2>4. QED
    BY <1>1, <2>1, <2>2, <2>3
<1>9. LockTypeOK'
  BY <1>1, <1>6, <1>8 DEF Sound, LockTypeOK
<1>10. pc'[t] = "closing" => /\ held[p].grant = g /\ held'[p] = NotHeld
                            /\ \A u \in Tasks : pc[u] \in Owners /\ grant[u] = g => u = t
  <2> SUFFICES ASSUME pc'[t] = "closing"
               PROVE  /\ held[p].grant = g /\ held'[p] = NotHeld
                      /\ \A u \in Tasks : pc[u] \in Owners /\ grant[u] = g => u = t
    OBVIOUS
  <2>1. ~Ends(t)
    BY DEF Ends, Sound, LockTypeOK
  <2>2. held[p].grant = g /\ ~(held[p].count > 1) /\ held' = [held EXCEPT ![p] = NotHeld]
    BY <1>1, <2>1
  <2>3. Cardinality(Holders(g)) = 1
    BY <1>3, <1>5, <2>2
  <2>4. held'[p] = NotHeld
    BY <1>2, <2>2 DEF Sound, LockTypeOK
  <2>5. ASSUME NEW u \in Tasks, pc[u] \in Owners, grant[u] = g PROVE u = t
    <3>1. u \in Holders(g)
      BY <1>3, <2>2, <2>5 DEF Holders
    <3>2. QED
      BY <1>4, <2>3, <3>1, OnlyHolder
  <2>6. QED
    BY <2>2, <2>4, <2>5
<1>11. Owned'
  <2>1. \A u \in Tasks : pc'[u] # "idle" => alive'[ProcOf(u)]
    BY <1>1, <1>6 DEF Sound, Owned
  <2>2. \A u \in Tasks : pc'[u] \in Owners => pc[u] \in Owners /\ grant'[u] = grant[u]
    BY <1>1, <1>6 DEF Owners
  <2>3. \A u \in Tasks : pc'[u] \in Owners => grant'[u] \in 1..created'
    BY <1>1, <2>2 DEF Sound, Owned
  <2>4. ASSUME NEW u \in Tasks, NEW v \in Tasks, pc'[u] \in SoleOwners, pc'[v] \in Owners,
               grant'[u] = grant'[v]
        PROVE  u = v
    <3>1. pc'[u] \in Owners
      BY <2>4 DEF SoleOwners
    <3>2. CASE u = t
      BY <1>6, <1>10, <2>2, <2>4, <3>1, <3>2 DEF Owners
    <3>3. CASE u # t
      BY <1>6, <2>2, <2>4, <3>1, <3>3 DEF Sound, Owned
    <3>4. QED
      BY <3>2, <3>3
  <2>5. QED
    BY <2>1, <2>3, <2>4 DEF Owned
<1>12. ASSUME NEW q \in Processes, q # p \/ held[p].grant # g PROVE Counts(q)'
  <2>1. held'[q] = held[q]
    <3>1. CASE q # p
      BY <1>8, <3>1
    <3>2. CASE held[p].grant # g
      BY <1>1, <3>2
    <3>3. QED
      BY <1>12, <3>1, <3>2
  <2>2. held[q] # NotHeld => held[q].grant # g
    BY <1>1, <1>12 DEF Sound, Counted, Counts, Owners
  <2>3. held[q] # NotHeld =>
          /\ \A u \in Tasks : pc'[u] \in Owners /\ grant'[u] = held[q].grant =>
               pc'[u] = "holding" /\ pc[u] = "holding" /\ grant[u] = held[q].grant
          /\ \A u \in Tasks : pc[u] = "holding" /\ grant[u] = held[q].grant =>
               pc'[u] = "holding" /\ grant'[u] = held[q].grant
    BY <1>1, <1>6, <2>2 DEF Sound, Counted, Counts, Owners
  <2>4. QED
    BY <1>1, <1>2, <2>1, <2>3, CountsKept
<1>13. ASSUME held[p].grant = g PROVE Counts(p)'
  <2> SUFFICES ASSUME held'[p] # NotHeld PROVE Counts(p)'
    BY DEF Counts
  <2>1. held[p].count > 1 /\ Ends(t) /\ held' = [held EXCEPT ![p].count = @ - 1]
    <3>1. pc'[t] # "closing"
      BY <1>10
    <3>2. pc' # [pc EXCEPT ![t] = "closing"]
      BY <3>1 DEF Sound, LockTypeOK
    <3>3. QED
      BY <1>1, <1>13, <3>2
  <2>2. held'[p] = [held[p] EXCEPT !.count = @ - 1]
    BY <1>2, <2>1 DEF Sound, LockTypeOK
  <2>3. held'[p].grant = g /\ held'[p].count = held[p].count - 1
    BY <1>5, <1>13, <2>2
  <2>4. pc'[t] = "idle"
    BY <2>1 DEF Ends, Sound, LockTypeOK
  <2>5. Holders(held[p].grant)' = Holders(g) \ {t}
    BY <1>6, <1>7, <2>3 DEF Holders
  <2>6. Cardinality(Holders(g) \ {t}) = Cardinality(Holders(g)) - 1
    BY <1>4, HoldersFinite, FS_RemoveElement
  <2>7. Cardinality(Holders(held[p].grant)') = held'[p].count
    BY <1>3, <1>13, <2>3, <2>5, <2>6
  <2>8. held'[p].count >= 1
    BY <1>5, <2>1, <2>3
  <2>9. \A u \in Tasks : pc'[u] \in Owners /\ grant'[u] = g => pc'[u] = "holding" /\ ProcOf(u) = p
    BY <1>3, <1>6, <1>13, <2>4 DEF Owners
  <2>10. alive'[p] /\ g \in 1..created'
    BY <1>1, <1>2 DEF Sound, Owned
  <2>11. QED
    BY <2>3, <2>7, <2>8, <2>9, <2>10 DEF Counts
<1>14. Counted'
  BY <1>12, <1>13 DEF Counted
<1>15. Judged'
  <2>1. Later /\ FileEvolves
    BY <1>1, SamePlaces DEF Sound
  <2>2. SawFile(lockFile)'
    BY <1>1 DEF Sound, Judged, SawFile
  <2>3. QED
    BY <1>1, <1>6, <2>1, <2>2, JudgedKept DEF SweepGoesOn
<1>16. Intact'
  <2> SUFFICES ASSUME ~lapsed, NEW u \in Tasks, pc'[u] \in Owners PROVE FileOf(u)'
    BY <1>1 DEF Sound, Intact
  <2>1. FileOf(t) /\ held[p].grant = g
    BY <1>1 DEF Sound, Intact, FileOf, Owners
  <2>2. CASE u = t
    BY <1>1, <1>6, <2>1, <2>2 DEF FileOf, Owners
  <2>3. CASE u # t
    <3>1. FileOf(u) /\ pc'[u] = pc[u] /\ grant'[u] = grant[u] /\ pc[u] \in Owners
      BY <1>6, <2>3 DEF Sound, Intact
    <3>2. pc[u] = "holding" => grant[u] = held'[ProcOf(u)].grant
      <4> SUFFICES ASSUME pc[u] = "holding" PROVE grant[u] = held'[ProcOf(u)].grant
        OBVIOUS
      <4>1. grant[u] = held[ProcOf(u)].grant /\ ProcOf(u) \in Processes
        BY <3>1, TaskFacts DEF FileOf
      <4>2. CASE ProcOf(u) # p
        BY <1>8, <4>1, <4>2
      <4>3. CASE ProcOf(u) = p
        <5>1. grant[u] = g
          BY <2>1, <4>1, <4>3
        <5>2. pc'[t] # "closing"
          BY <1>10, <2>3, <3>1, <5>1
        <5>3. pc' # [pc EXCEPT ![t] = "closing"]
          BY <5>2 DEF Sound, LockTypeOK
        <5>4. held' = [held EXCEPT ![p].count = @ - 1]
          BY <1>1, <2>1, <5>3
        <5>5. held'[p] = [held[p] EXCEPT !.count = @ - 1]
          BY <1>2, <5>4 DEF Sound, LockTypeOK
        <5>6. QED
          BY <1>5, <2>1, <4>3, <5>1, <5>5
      <4>4. QED
        BY <4>2, <4>3
    <3>3. QED
      BY <1>1, <3>1, <3>2 DEF FileOf
  <2>4. QED
    BY <2>2, <2>3
<1>17. QED
  BY <1>9, <1>11, <1>14, <1>15, <1>16 DEF Sound

\* The watchdog and the signal handler take locks from their holders, and say so.
LEMMA HeldForgotten ==
  ASSUME Sound, NEW p \in Processes, held' = [held EXCEPT ![p] = NotHeld],
         UNCHANGED <<alive, created, pc, grant>>
  PROVE  /\ Owned' /\ Counted'
         /\ held' \in [Processes -> [grant : 0..MaxGrants, count : Nat]]
<1>1. held'[p] = NotHeld /\ \A q \in Processes \ {p} : held'[q] = held[q]
  BY DEF Sound, LockTypeOK
<1>2. held' \in [Processes -> [grant : 0..MaxGrants, count : Nat]]
  BY LockBoundsAssumption DEF Sound, LockTypeOK, NotHeld
<1>3. Owned'
  BY DEF Sound, Owned
<1>4. Counted'
  BY <1>1 DEF Sound, Counted, Counts, Holders
<1>5. QED
  BY <1>2, <1>3, <1>4

LEMMA WatchdogStep ==
  ASSUME Sound, NEW p \in Processes, WatchdogCheck(p) \/ WatchdogRemove(p) \/ TerminationSignal(p),
         UNCHANGED <<alive, life, linux>>
  PROVE  Sound'
<1>1. UNCHANGED <<created, pc, grant, seen, sweep>>
  BY DEF WatchdogCheck, WatchdogRemove, TerminationSignal
<1>2. /\ pc' \in [Tasks -> PCs] /\ seen' \in [Tasks -> Files]
      /\ grant' \in [Tasks -> 0..MaxGrants]
      /\ sweep' \in [Processes -> [at : SweepPCs, file : Files]]
  BY <1>1 DEF Sound, LockTypeOK
<1>3. CASE WatchdogCheck(p)
  <2>1. /\ held[p] # NotHeld
        /\ held' = [held EXCEPT ![p] = NotHeld]
        /\ reaping' = [reaping EXCEPT ![p] = @ \cup {held[p].grant}]
        /\ lapsed' = TRUE /\ UNCHANGED lockFile
    BY <1>3 DEF WatchdogCheck
  <2>2. Owned' /\ Counted' /\ held' \in [Processes -> [grant : 0..MaxGrants, count : Nat]]
    BY <1>1, <2>1, HeldForgotten
  <2>3. held[p].grant \in Grants
    BY <2>1 DEF Sound, LockTypeOK, Counted, Counts, Grants
  <2>4. LockTypeOK'
    BY <1>1, <2>1, <2>2, <2>3 DEF Sound, LockTypeOK
  <2>5. Judged'
    <3>1. Later /\ FileEvolves
      BY <1>1, <2>1, SamePlaces DEF Sound
    <3>2. SawFile(lockFile)'
      BY <1>1, <2>1 DEF Sound, Judged, SawFile
    <3>3. QED
      BY <1>1, <3>1, <3>2, JudgedKept DEF SweepGoesOn
  <2>6. Intact'
    BY <2>1 DEF Intact
  <2>7. QED
    BY <2>2, <2>4, <2>5, <2>6 DEF Sound
<1>4. CASE WatchdogRemove(p)
  <2>1. PICK g \in reaping[p] : /\ RemoveFile(g, FALSE)
                               /\ reaping' = [reaping EXCEPT ![p] = @ \ {g}]
    BY <1>4 DEF WatchdogRemove
  <2>2. UNCHANGED held /\ lapsed
    BY <1>4, <2>1 DEF WatchdogRemove, Sound, Intact, LockTypeOK
  <2>3. Owned' /\ Counted'
    BY <1>1, <2>2 DEF Sound, Owned, Counted, Counts, Holders
  <2>4. /\ reaping' \in [Processes -> SUBSET Grants]
        /\ held' \in [Processes -> [grant : 0..MaxGrants, count : Nat]]
    BY <2>1, <2>2 DEF Sound, LockTypeOK
  <2>5. QED
    BY <1>1, <1>2, <2>1, <2>2, <2>3, <2>4, RemovalStep DEF SweepGoesOn
<1>5. CASE TerminationSignal(p)
  <2>1. /\ held[p] # NotHeld
        /\ held' = [held EXCEPT ![p] = NotHeld]
        /\ RemoveFile(held[p].grant, TRUE)
        /\ UNCHANGED reaping
    BY <1>5 DEF TerminationSignal, ReleaseAllLocksSync
  <2>2. Owned' /\ Counted' /\ held' \in [Processes -> [grant : 0..MaxGrants, count : Nat]]
    BY <1>1, <2>1, HeldForgotten
  <2>3. reaping' \in [Processes -> SUBSET Grants] /\ (~lapsed => \A q \in Processes : reaping'[q] = {})
    BY <2>1 DEF Sound, LockTypeOK, Intact
  <2>4. QED
    BY <1>1, <1>2, <2>1, <2>2, <2>3, RemovalStep DEF SweepGoesOn
<1>6. QED
  BY <1>3, <1>4, <1>5

-----------------------------------------------------------------------------
(* Crashes and starts *)

LEMMA ForgetStep ==
  ASSUME Sound, NEW p \in Processes, Dies(p), ForgetTasks(p),
         held' = [held EXCEPT ![p] = NotHeld]
  PROVE  /\ Owned' /\ Counted'
         /\ alive' \in [Processes -> BOOLEAN] /\ Later
         /\ UNCHANGED <<life, linux, created>>
         /\ pc' \in [Tasks -> PCs] /\ grant' \in [Tasks -> 0..MaxGrants]
         /\ held' \in [Processes -> [grant : 0..MaxGrants, count : Nat]]
         /\ seen' \in [Tasks -> Files]
         /\ reaping' \in [Processes -> SUBSET Grants]
         /\ sweep' \in [Processes -> [at : SweepPCs, file : Files]]
         /\ ~lapsed => \A q \in Processes : reaping'[q] = {}
         /\ \A q \in Processes : SweepGoesOn(q)
         /\ \A u \in Tasks : pc'[u] # "idle" =>
              /\ ProcOf(u) # p
              /\ pc'[u] = pc[u] /\ grant'[u] = grant[u] /\ seen'[u] = seen[u]
         /\ \A u \in Tasks : seen'[u] \in {seen[u], NoFile}
         /\ \A q \in Processes \ {p} : held'[q] = held[q]
<1>1. /\ alive' = [alive EXCEPT ![p] = FALSE]
      /\ UNCHANGED <<life, linux, created>>
      /\ pc' = [t \in Tasks |-> IF ProcOf(t) = p THEN "idle" ELSE pc[t]]
      /\ grant' = [t \in Tasks |-> IF ProcOf(t) = p THEN 0 ELSE grant[t]]
      /\ seen' = [t \in Tasks |-> IF ProcOf(t) = p THEN NoFile ELSE seen[t]]
      /\ reaping' = [reaping EXCEPT ![p] = {}]
      /\ sweep' = [sweep EXCEPT ![p] = NoSweep]
  BY DEF Dies, ForgetTasks
<1>2. \A u \in Tasks : pc'[u] # "idle" =>
        /\ ProcOf(u) # p
        /\ pc'[u] = pc[u] /\ grant'[u] = grant[u] /\ seen'[u] = seen[u]
  BY <1>1
<1>3. /\ alive' \in [Processes -> BOOLEAN]
      /\ \A q \in Processes : alive'[q] => alive[q]
      /\ \A q \in Processes \ {p} : alive'[q] = alive[q] /\ held'[q] = held[q]
      /\ held'[p] = NotHeld
  BY <1>1 DEF Sound, LockTypeOK
<1>4. /\ pc' \in [Tasks -> PCs] /\ grant' \in [Tasks -> 0..MaxGrants]
      /\ held' \in [Processes -> [grant : 0..MaxGrants, count : Nat]]
      /\ seen' \in [Tasks -> Files]
  BY <1>1, LockBoundsAssumption, FileFacts DEF Sound, LockTypeOK, PCs, NotHeld
<1>5. /\ reaping' \in [Processes -> SUBSET Grants]
      /\ sweep' \in [Processes -> [at : SweepPCs, file : Files]]
      /\ ~lapsed => \A q \in Processes : reaping'[q] = {}
      /\ \A q \in Processes : SweepGoesOn(q)
  BY <1>1, FileFacts DEF Sound, LockTypeOK, Intact, NoSweep, SweepPCs, SweepGoesOn
<1>6. Later
  <2>1. created \in Nat /\ \A q \in Processes : life[q] \in Nat
    BY DEF Sound, LockTypeOK
  <2>2. QED
    BY <1>1, <1>3, <2>1 DEF Later, Sound, LockTypeOK
<1>7. \A u \in Tasks : pc'[u] \in Owners =>
        pc[u] \in Owners /\ pc'[u] = pc[u] /\ grant'[u] = grant[u] /\ ProcOf(u) # p
  BY <1>2 DEF Owners
<1>8. Owned'
  <2>1. \A u \in Tasks : pc'[u] # "idle" => alive'[ProcOf(u)]
    BY <1>2, <1>3, TaskFacts DEF Sound, Owned
  <2>2. created \in Nat
    BY DEF Sound, LockTypeOK
  <2>3. QED
    BY <1>1, <1>7, <2>1, <2>2, OwnedKept
<1>9. ASSUME NEW q \in Processes, q # p PROVE Counts(q)'
  <2>1. held[q] # NotHeld =>
          /\ \A u \in Tasks : pc'[u] \in Owners /\ grant'[u] = held[q].grant =>
               pc'[u] = "holding" /\ pc[u] = "holding" /\ grant[u] = held[q].grant
          /\ \A u \in Tasks : pc[u] = "holding" /\ grant[u] = held[q].grant =>
               pc'[u] = "holding" /\ grant'[u] = held[q].grant
    BY <1>1, <1>7, <1>9 DEF Sound, Counted, Counts, Owners
  <2>2. created \in Nat
    BY DEF Sound, LockTypeOK
  <2>3. held'[q] = held[q] /\ alive'[q] = alive[q] /\ created' = created /\ created <= created'
    BY <1>1, <1>3, <1>9, <2>2
  <2>4. QED
    BY <2>1, <2>2, <2>3, CountsKept
<1>10. Counted'
  BY <1>3, <1>9 DEF Counted, Counts
<1>11. \A u \in Tasks : seen'[u] \in {seen[u], NoFile}
  BY <1>1
<1>12. UNCHANGED <<life, linux, created>>
  BY <1>1
<1>13. \A q \in Processes \ {p} : held'[q] = held[q]
  BY <1>3
<1>14. QED
  BY <1>2, <1>3, <1>4, <1>5, <1>6, <1>8, <1>10, <1>11, <1>12, <1>13

LEMMA DeathStep ==
  ASSUME Sound, NEW p \in Processes, Dies(p), LockCrash(p) \/ LockExit(p)
  PROVE  Sound'
<1>1. /\ ForgetTasks(p) /\ held' = [held EXCEPT ![p] = NotHeld]
      /\ \/ UNCHANGED <<lockFile, lapsed>>
         \/ held[p] # NotHeld /\ RemoveFile(held[p].grant, FALSE)
  BY DEF LockCrash, LockExit, ReleaseAllLocksSync
<1>2. /\ Owned' /\ Counted' /\ Later
      /\ UNCHANGED <<life, linux, created>>
      /\ alive' \in [Processes -> BOOLEAN]
      /\ pc' \in [Tasks -> PCs] /\ grant' \in [Tasks -> 0..MaxGrants]
      /\ held' \in [Processes -> [grant : 0..MaxGrants, count : Nat]]
      /\ seen' \in [Tasks -> Files]
      /\ reaping' \in [Processes -> SUBSET Grants]
      /\ sweep' \in [Processes -> [at : SweepPCs, file : Files]]
      /\ ~lapsed => \A q \in Processes : reaping'[q] = {}
      /\ \A q \in Processes : SweepGoesOn(q)
      /\ \A u \in Tasks : pc'[u] # "idle" =>
           /\ ProcOf(u) # p
           /\ pc'[u] = pc[u] /\ grant'[u] = grant[u] /\ seen'[u] = seen[u]
      /\ \A u \in Tasks : seen'[u] \in {seen[u], NoFile}
      /\ \A q \in Processes \ {p} : held'[q] = held[q]
  BY <1>1, ForgetStep
<1>3. /\ lockFile' \in {lockFile, NoFile} /\ lapsed' \in BOOLEAN
      /\ ~lapsed' => ~lapsed
  <2>1. CASE UNCHANGED <<lockFile, lapsed>>
    BY <2>1 DEF Sound, LockTypeOK
  <2>2. CASE RemoveFile(held[p].grant, FALSE)
    BY <2>2 DEF RemoveFile
  <2>3. QED
    BY <1>1, <2>1, <2>2
<1>4. LockTypeOK'
  BY <1>2, <1>3, FileFacts DEF Sound, LockTypeOK
<1>5. FileEvolves
  BY <1>3, FileFacts DEF FileEvolves, Sound, LockTypeOK
<1>6. SawFile(lockFile)'
  BY <1>2, <1>3 DEF Sound, Judged, SawFile
<1>7. Judged'
  <2>1. ASSUME NEW u \in Tasks
        PROVE  \/ seen'[u] = seen[u] /\ (pc'[u] = "reclaiming" => pc[u] = "reclaiming")
               \/ seen'[u] = NoFile /\ pc'[u] # "reclaiming"
    BY <1>2
  <2>2. QED
    BY <1>2, <1>5, <1>6, <2>1, JudgedKept
<1>8. Intact'
  <2> SUFFICES ASSUME ~lapsed', NEW u \in Tasks, pc'[u] \in Owners PROVE FileOf(u)'
    BY <1>2, <1>3 DEF Intact
  <2>1. /\ pc[u] \in Owners /\ pc'[u] = pc[u] /\ grant'[u] = grant[u] /\ ProcOf(u) # p
        /\ ProcOf(u) \in Processes
    BY <1>2, TaskFacts DEF Owners
  <2>2. ~lapsed /\ FileOf(u)
    BY <1>3, <2>1 DEF Sound, Intact
  <2>3. UNCHANGED lockFile
    <3> SUFFICES ASSUME held[p] # NotHeld, RemoveFile(held[p].grant, FALSE) PROVE UNCHANGED lockFile
      BY <1>1
    <3>1. CASE lockFile = NoFile
      BY <2>1, <2>2, <3>1, NoFileNoOwner
    <3>2. CASE lockFile # NoFile
      <4>1. lockFile.grant = held[p].grant
        BY <3>2 DEF RemoveFile
      <4>2. grant[u] = held[p].grant
        BY <2>2, <4>1 DEF FileOf
      <4>3. QED
        BY <2>1, <4>2 DEF Sound, Counted, Counts
    <3>3. QED
      BY <3>1, <3>2
  <2>4. QED
    BY <1>2, <2>1, <2>2, <2>3 DEF FileOf
<1>9. QED
  BY <1>2, <1>4, <1>7, <1>8 DEF Sound

LEMMA StartStep ==
  ASSUME Sound, NEW p \in Processes, Starts(p) \/ Restarts(p), LockStart(p) \/ UNCHANGED lockVars
  PROVE  Sound'
<1>1. /\ UNCHANGED <<lockFile, created, held, pc, grant, seen, reaping, lapsed, linux>>
      /\ \/ UNCHANGED sweep
         \/ \E at \in {"due", "over"} :
              sweep' = [sweep EXCEPT ![p] = [at |-> at, file |-> NoFile]]
      /\ \/ UNCHANGED <<alive, life>>
         \/ /\ ~alive[p] /\ alive' = [alive EXCEPT ![p] = TRUE]
            /\ life' = [life EXCEPT ![p] = @ + 1]
  BY DEF Starts, Restarts, LockStart, lockVars, NoSweep
<1>2. created \in Nat /\ \A q \in Processes : life[q] \in Nat
  BY DEF Sound, LockTypeOK
<1>3. /\ alive' \in [Processes -> BOOLEAN] /\ life' \in [Processes -> Nat]
      /\ \A q \in Processes : /\ life[q] <= life'[q]
                              /\ alive'[q] /\ ~alive[q] => life[q] < life'[q]
                              /\ alive[q] => alive'[q] /\ life'[q] = life[q]
  <2>1. CASE UNCHANGED <<alive, life>>
    BY <1>2, <2>1 DEF Sound, LockTypeOK
  <2>2. CASE /\ ~alive[p] /\ alive' = [alive EXCEPT ![p] = TRUE]
             /\ life' = [life EXCEPT ![p] = @ + 1]
    <3>1. life'[p] = life[p] + 1 /\ \A q \in Processes \ {p} : life'[q] = life[q] /\ alive'[q] = alive[q]
      BY <2>2 DEF Sound, LockTypeOK
    <3>2. alive' \in [Processes -> BOOLEAN] /\ life' \in [Processes -> Nat]
      BY <1>2, <2>2 DEF Sound, LockTypeOK
    <3>3. QED
      BY <1>2, <2>2, <3>1, <3>2
  <2>3. QED
    BY <1>1, <2>1, <2>2
<1>4. /\ sweep' \in [Processes -> [at : SweepPCs, file : Files]]
      /\ \A q \in Processes : SweepGoesOn(q)
  <2>1. CASE UNCHANGED sweep
    BY <2>1 DEF Sound, LockTypeOK, SweepGoesOn
  <2>2. ASSUME NEW at \in {"due", "over"}, sweep' = [sweep EXCEPT ![p] = [at |-> at, file |-> NoFile]]
        PROVE  /\ sweep' \in [Processes -> [at : SweepPCs, file : Files]]
               /\ \A q \in Processes : SweepGoesOn(q)
    <3>1. [at |-> at, file |-> NoFile] \in [at : SweepPCs, file : Files] /\ at # "removing"
      BY FileFacts DEF SweepPCs
    <3>2. QED
      BY <2>2, <3>1 DEF Sound, LockTypeOK, SweepGoesOn
  <2>3. QED
    BY <1>1, <2>1, <2>2
<1>5. LockTypeOK'
  BY <1>1, <1>3, <1>4 DEF Sound, LockTypeOK
<1>6. Later
  BY <1>1, <1>2, <1>3 DEF Later, Sound, LockTypeOK
<1>7. FileEvolves
  BY <1>1, FileFacts DEF FileEvolves, Sound, LockTypeOK
<1>8. Owned'
  <2>1. \A u \in Tasks : pc'[u] # "idle" => alive'[ProcOf(u)]
    BY <1>1, <1>3, TaskFacts DEF Sound, Owned
  <2>2. QED
    BY <1>1, <1>2, <2>1, OwnedKept
<1>9. Counted'
  BY <1>1, <1>3 DEF Sound, Counted, Counts, Holders
<1>10. Judged'
  <2>1. SawFile(lockFile)'
    <3>1. ASSUME NEW f \in Files, SawFile(f) PROVE SawFile(f)'
      BY <1>6, <1>7, <3>1, SawKept DEF Sound
    <3>2. lockFile \in Files /\ SawFile(lockFile)
      BY DEF Sound, LockTypeOK, Judged
    <3>3. QED
      BY <1>1, <3>1, <3>2 DEF SawFile
  <2>2. QED
    BY <1>1, <1>4, <1>6, <1>7, <2>1, JudgedKept
<1>11. Intact'
  <2> SUFFICES ASSUME ~lapsed, NEW u \in Tasks, pc[u] \in Owners PROVE FileOf(u)'
    BY <1>1 DEF Sound, Intact
  <2>1. FileOf(u) /\ alive[ProcOf(u)] /\ ProcOf(u) \in Processes
    BY TaskFacts DEF Sound, Intact, Owned, Owners
  <2>2. QED
    BY <1>1, <1>3, <2>1 DEF FileOf
<1>12. QED
  BY <1>5, <1>8, <1>9, <1>10, <1>11 DEF Sound

-----------------------------------------------------------------------------
(* The theorems *)

LEMMA SoundInit == Init => Sound
<1> SUFFICES ASSUME Init PROVE Sound
  OBVIOUS
<1> USE DEF Init, ProcessesInit, LockInit
<1>1. LockTypeOK
  <2>1. alive \in [Processes -> BOOLEAN] /\ life \in [Processes -> Nat] /\ linux \in BOOLEAN
    OBVIOUS
  <2>2. lockFile \in Files /\ seen \in [Tasks -> Files]
    BY FileFacts
  <2>3. created \in 0..MaxGrants /\ grant \in [Tasks -> 0..MaxGrants]
    BY LockBoundsAssumption
  <2>4. held \in [Processes -> [grant : 0..MaxGrants, count : Nat]]
    BY LockBoundsAssumption DEF NotHeld
  <2>5. pc \in [Tasks -> PCs] /\ lapsed \in BOOLEAN
    BY DEF PCs
  <2>6. reaping \in [Processes -> SUBSET Grants]
    OBVIOUS
  <2>7. sweep \in [Processes -> [at : SweepPCs, file : Files]]
    BY FileFacts DEF NoSweep, SweepPCs
  <2>8. QED
    BY <2>1, <2>2, <2>3, <2>4, <2>5, <2>6, <2>7 DEF LockTypeOK
<1>2. \A t \in Tasks : pc[t] = "idle"
  OBVIOUS
<1>3. Owned
  BY <1>2, TaskFacts DEF Owned, Owners, SoleOwners
<1>4. Counted
  BY DEF Counted, Counts
<1>5. Judged
  BY <1>2 DEF Judged, SawFile, Condemned, Swept, NoSweep
<1>6. Intact
  BY <1>2 DEF Intact, Owners
<1>7. QED
  BY <1>1, <1>3, <1>4, <1>5, <1>6 DEF Sound

LEMMA SoundNext == Sound /\ [Next]_vars => Sound'
<1> SUFFICES ASSUME Sound, [Next]_vars PROVE Sound'
  OBVIOUS
<1>1. ASSUME UNCHANGED lockVars, UNCHANGED <<alive, life, linux>> PROVE Sound'
  <2>1. LockTypeOK'
    BY <1>1 DEF lockVars, Sound, LockTypeOK
  <2>2. Owned'
    BY <1>1 DEF lockVars, Sound, Owned
  <2>3. Counted'
    <3> SUFFICES ASSUME NEW q \in Processes PROVE Counts(q)'
      BY DEF Counted
    <3>1. Counts(q)
      BY DEF Sound, Counted
    <3>2. QED
      BY <1>1, <3>1 DEF lockVars, Counts, Holders
  <2>4. Judged'
    <3>3. SawFile(lockFile)'
      BY <1>1 DEF lockVars, Sound, Judged, SawFile
    <3>4. ASSUME NEW t \in Tasks PROVE SawFile(seen[t])' /\ Condemned(t)'
      <4>1. SawFile(seen[t]) /\ Condemned(t)
        BY DEF Sound, Judged
      <4>2. SawFile(seen[t])'
        BY <1>1, <4>1 DEF lockVars, SawFile
      <4>3. Condemned(t)'
        BY <1>1, <4>1 DEF lockVars, Condemned, MakerLives
      <4>4. QED
        BY <4>2, <4>3
    <3>5. ASSUME NEW q \in Processes PROVE SawFile(sweep[q].file)' /\ Swept(q)'
      <4>1. SawFile(sweep[q].file) /\ Swept(q)
        BY DEF Sound, Judged
      <4>2. SawFile(sweep[q].file)'
        BY <1>1, <4>1 DEF lockVars, SawFile
      <4>3. Swept(q)'
        BY <1>1, <4>1 DEF lockVars, Swept, MakerLives
      <4>4. QED
        BY <4>2, <4>3
    <3>6. QED
      BY <3>3, <3>4, <3>5 DEF Judged
  <2>5. Intact'
    BY <1>1 DEF lockVars, Sound, Intact, FileOf
  <2>6. QED
    BY <2>1, <2>2, <2>3, <2>4, <2>5 DEF Sound
<1>2. CASE UNCHANGED vars
  BY <1>1, <1>2 DEF vars, processVars
<1>3. ASSUME NEW p \in Processes, alive[p], LockTurn(p) PROVE Sound'
  <2>1. ASSUME NEW t \in TasksOf(p), NEW re \in BOOLEAN, Acquire(t, re) PROVE Sound'
    BY <1>3, <2>1, TaskFacts, AcquireStep
  <2>2. ASSUME LockStep(p), UNCHANGED <<alive, life, linux>> PROVE Sound'
    <3>1. ASSUME NEW t \in TasksOf(p),
                 \/ Open(t) \/ WritePayload(t) \/ WriteFails(t) \/ Undo(t) \/ Register(t)
                 \/ ReadPayload(t) \/ Stat(t) \/ Reclaim(t) \/ Again(t) \/ Release(t)
                 \/ RemoveReleased(t)
          PROVE  Sound'
      BY <2>2, <3>1, TaskFacts, OpenStep, WritePayloadStep, WriteFailsStep, UndoStep, RegisterStep,
         JudgeStep, ReclaimStep, ReleaseStep
    <3>2. ASSUME \/ WatchdogCheck(p) \/ WatchdogRemove(p) \/ TerminationSignal(p)
                 \/ CleanList(p) \/ CleanRead(p) \/ CleanRemove(p)
          PROVE  Sound'
      BY <2>2, <3>2, WatchdogStep, CleanStep
    <3>3. QED
      BY <2>2, <3>1, <3>2 DEF LockStep
  <2>3. QED
    BY <1>3, <2>1, <2>2 DEF LockTurn, processVars
<1>4. ASSUME NEW p \in Processes, DeliveryTurn(p) PROVE Sound'
  BY <1>1, <1>4 DEF DeliveryTurn, Deliver, Begin, processVars
<1>5. ASSUME NEW p \in Processes, Crash(p) \/ Exit(p) PROVE Sound'
  BY <1>5, DeathStep DEF Crash, Exit
<1>6. ASSUME NEW p \in Processes, StartGateway(p) \/ StartCommand(p) PROVE Sound'
  BY <1>6, StartStep DEF StartGateway, StartCommand
<1>7. CASE Age /\ UNCHANGED <<processVars, deliveryVars>>
  BY <1>7, AgeStep DEF processVars
<1>8. QED
  BY <1>2, <1>3, <1>4, <1>5, <1>6, <1>7 DEF Next

\* HELD_LOCKS counts the holders of each lock, and the lock of every holder is
\* in HELD_LOCKS and at lockPath until a lock file is taken from a living
\* holder, for any processes, tasks, crashes and restarts.
THEOREM LocksStayConsistent == Spec => []LocksConsistent
<1>1. Sound => LocksConsistent
  BY DEF Sound, LockTypeOK, Counted, Counts, Intact, FileOf, Owners, LocksConsistent
<1>2. QED
  BY SoundInit, SoundNext, <1>1, PTL DEF Spec

\* Two locks are never held at once unless one was taken from a living holder:
\* both lock files would have to be at lockPath.
THEOREM OneWriter == Spec => []SingleWriter
<1>1. Sound => SingleWriter
  BY DEF Sound, Intact, FileOf, Owners, SingleWriter
<1>2. QED
  BY SoundInit, SoundNext, <1>1, PTL DEF Spec
=============================================================================
