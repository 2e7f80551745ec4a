----------------------- MODULE RLServerSessions_proofs -----------------------
(***************************************************************************)
(* Proofs about the sessions of RLServer.  For any clients: a session      *)
(* whose judged turns were submitted has trained on one (Contributes), and *)
(* with the PRM and recording on somebody comes for every pending turn     *)
(* (Awaited).  For disciplined clients: a turn number is used once, so the *)
(* task found under it judges that very turn (Orderly), which makes every  *)
(* reward the verdict on its own turn and has turns judged in their order. *)
(*                                                                         *)
(* The second half shows that RLServer implements TurnLife.  The place     *)
(* where a turn is found (the samples, the queue of callbacks, the table   *)
(* of pending turns) gives its stage (Staged), which needs that it is in   *)
(* one place at most; every handler is then described by what it takes out *)
(* of the table and appends to the queue (Sends).                          *)
(***************************************************************************)
EXTENDS RLServer_proofs

Contributes ==
  \A s \in Sessions : sessionEffective[s] # 0 =>
    \E y \in samples : y.trained /\ y.session = s

\* The turn is the one whose record is buffered.
Buffered(s, n) == pendingRecord[s] = [turn |-> n, uid |-> pendingTurn[s][n].uid]

\* A submission for the session is scheduled.
Calls(q, s) == \E i \in DOMAIN q : q[i] = PrmDoneCall(s)

Running ==
  \A s \in Sessions, n \in Turns :
    prmTasks[s][n] # None /\ verdict[prmTasks[s][n]] = NoScore
      => [session |-> s, uid |-> prmTasks[s][n]] \in prmRunning

Handed ==
  \A s \in Sessions, n \in Turns :
    pendingTurn[s][n] # NoTurn => Buffered(s, n) \/ prmTasks[s][n] # None

Expected ==
  \A s \in Sessions, n \in Turns :
    pendingTurn[s][n] # NoTurn =>
      \/ Buffered(s, n)
      \/ prmTasks[s][n] = None
      \/ verdict[prmTasks[s][n]] = NoScore
      \/ Calls(ready, s)

Awaited == PrmEnabled /\ RecordEnabled => Running /\ Handed /\ Expected

\* One handler per session, none of a session that has ended.
Sequential ==
  /\ \A r \in inflight : r.session \notin closed
  /\ \A r1, r2 \in inflight : r1.session = r2.session => r1 = r2

\* The numbers above the count of an open session are unused, and what is
\* buffered is its last turn.
Numbered ==
  /\ \A s \in Sessions \ closed, n \in Turns : n > turnCounts[s] =>
       pendingTurn[s][n] = NoTurn /\ prmTasks[s][n] = None
  /\ \A s \in Sessions : pendingRecord[s] # NoRecord =>
       s \notin closed /\ pendingRecord[s].turn = turnCounts[s]

OwnTasks ==
  \A s \in Sessions, n \in Turns :
    pendingTurn[s][n] # NoTurn => prmTasks[s][n] \in {None, pendingTurn[s][n].uid}

OwnJudge(q) == \A i \in DOMAIN q : q[i].judge \in {None, q[i].uid}

Orderly ==
  Disciplined => /\ Sequential
                 /\ Numbered
                 /\ OwnTasks
                 /\ OwnJudge(ready)
                 /\ \A x \in samples : x.judge \in {None, x.uid}

-----------------------------------------------------------------------------
(* Tables and sequences, point by point *)

LEMMA Tables ==
  ASSUME IInv
  PROVE  /\ pendingTurn \in Pends /\ prmTasks \in TaskTables
         /\ pendingRecord \in [Sessions -> Records]
         /\ ready \in Seq(Callbacks)
         /\ verdict \in VerdictTables
         /\ turnCounts \in [Sessions -> 0..MaxRequests]
         /\ sessionEffective \in [Sessions -> Nat]
         /\ \A r \in inflight : r.session \in Sessions /\ r.id \in Requests
  BY DEF IInv, TypeOK, Pends, TaskTables, VerdictTables, InFlight

\* What a flush does to the tasks and to those that run.
LEMMA FlushedAt ==
  ASSUME IInv, NEW s \in Sessions
  PROVE  /\ \A x \in Sessions, n \in Turns :
              FlushTasks(s)[x][n] = IF Fires(s) /\ x = s /\ n = pendingRecord[s].turn
                                    THEN pendingRecord[s].uid ELSE prmTasks[x][n]
         /\ prmRunning \subseteq FlushRunning(s)
         /\ Fires(s) => /\ [session |-> s, uid |-> pendingRecord[s].uid] \in FlushRunning(s)
                        /\ verdict[pendingRecord[s].uid] = NoScore
                        /\ pendingRecord[s].uid # None
                        /\ pendingRecord[s].turn \in Turns
<1>1. Fires(s) => /\ pendingRecord[s].turn \in Turns /\ pendingRecord[s].uid # None
                  /\ verdict[pendingRecord[s].uid] = NoScore
  BY Tables, RecordKinds DEF Fires, IInv, OneJudge
<1>2. \A x \in Sessions, n \in Turns :
        FlushTasks(s)[x][n] = IF Fires(s) /\ x = s /\ n = pendingRecord[s].turn
                              THEN pendingRecord[s].uid ELSE prmTasks[x][n]
  BY <1>1, Tables DEF FlushTasks, TaskTables
<1>3. QED
  BY <1>1, <1>2 DEF FlushRunning

\* What a submission does to the tables.
LEMMA SubmittedAt ==
  ASSUME NEW pend \in Pends, NEW tasks \in TaskTables, NEW s \in Sessions, NEW S \in SUBSET Turns
  PROVE  /\ WithoutTurns(pend, s, S) \in Pends /\ WithoutTasks(tasks, s, S) \in TaskTables
         /\ \A x \in Sessions, n \in Turns :
              /\ WithoutTurns(pend, s, S)[x][n] = IF x = s /\ n \in S THEN NoTurn ELSE pend[x][n]
              /\ WithoutTasks(tasks, s, S)[x][n] = IF x = s /\ n \in S THEN None ELSE tasks[x][n]
<1>1. NoTurn \in TurnData
  BY DEF TurnData
<1>2. /\ WithoutTurns(pend, s, S) \in Pends
      /\ \A x \in Sessions, n \in Turns :
           WithoutTurns(pend, s, S)[x][n] = IF x = s /\ n \in S THEN NoTurn ELSE pend[x][n]
  BY <1>1 DEF WithoutTurns, Pends
<1>3. /\ WithoutTasks(tasks, s, S) \in TaskTables
      /\ \A x \in Sessions, n \in Turns :
           WithoutTasks(tasks, s, S)[x][n] = IF x = s /\ n \in S THEN None ELSE tasks[x][n]
  BY DEF WithoutTasks, TaskTables
<1>4. QED
  BY <1>2, <1>3

\* q2 is a sequence that keeps what q schedules, and what it adds are the
\* submissions of all turns in S.
Follows(q2, q, pend, tasks, s, S) ==
  /\ \E Y : q2 \in Seq(Y)
  /\ \A i \in DOMAIN q : \E j \in DOMAIN q2 : q2[j] = q[i]
  /\ \A j \in DOMAIN q2 :
       \/ \E i \in DOMAIN q : q2[j] = q[i]
       \/ \E n \in S : q2[j] = SubmitCall(s, pend[s][n], tasks[s][n])
  /\ \A n \in S : \E j \in DOMAIN q2 : q2[j] = SubmitCall(s, pend[s][n], tasks[s][n])

\* The calls of a submission follow what was scheduled.
LEMMA CallsFollow ==
  ASSUME NEW q, \E X : q \in Seq(X), NEW pend, NEW tasks, NEW s,
         NEW S \in SUBSET Turns, NEW order \in InTurnOrder(S)
  PROVE  Follows(q \o SubmitCalls(pend, tasks, s, order), q, pend, tasks, s, S)
<1> PICK X : q \in Seq(X)
  OBVIOUS
<1> DEFINE calls == SubmitCalls(pend, tasks, s, order)
           call(n) == SubmitCall(s, pend[s][n], tasks[s][n])
           Y == X \cup {call(n) : n \in Turns}
<1>1. Cardinality(S) \in Nat /\ order \in [1..Cardinality(S) -> S]
  <2>1. IsFiniteSet(Turns)
    BY RequestsAssumption, FS_Interval DEF Turns
  <2> QED
    BY <2>1, FS_Subset, FS_CardinalityType DEF InTurnOrder
<1>2. /\ calls \in [1..Cardinality(S) -> Y]
      /\ \A i \in 1..Cardinality(S) : order[i] \in S /\ calls[i] = call(order[i])
  BY <1>1 DEF SubmitCalls
<1>3. calls \in Seq(Y) /\ Len(calls) = Cardinality(S)
  <2>1. calls \in Seq(Y)
    BY <1>1, <1>2, SeqDef
  <2>2. DOMAIN calls = 1..Len(calls) /\ Len(calls) \in Nat /\ DOMAIN calls = 1..Cardinality(S)
    BY <1>2, <2>1, LenProperties
  <2> HIDE DEF calls
  <2> QED
    BY <1>1, <2>1, <2>2
<1>4. q \in Seq(Y) /\ Len(q) \in Nat /\ DOMAIN q = 1..Len(q)
  <2>1. q \in [1..Len(q) -> X] /\ Len(q) \in Nat
    BY LenProperties
  <2>2. q \in [1..Len(q) -> Y]
    BY <2>1
  <2> HIDE DEF Y
  <2> QED
    BY <2>1, <2>2, SeqDef
<1> HIDE DEF calls, Y
<1>5. /\ q \o calls \in Seq(Y)
      /\ DOMAIN (q \o calls) = 1..Len(q) + Cardinality(S)
      /\ \A j \in 1..Len(q) + Cardinality(S) :
           (q \o calls)[j] = IF j <= Len(q) THEN q[j] ELSE calls[j - Len(q)]
  <2>1. /\ q \o calls \in Seq(Y)
        /\ Len(q \o calls) = Len(q) + Cardinality(S)
        /\ \A j \in 1..Len(q) + Cardinality(S) :
             (q \o calls)[j] = IF j <= Len(q) THEN q[j] ELSE calls[j - Len(q)]
    BY <1>3, <1>4, ConcatProperties
  <2>2. DOMAIN (q \o calls) = 1..Len(q \o calls)
    BY <2>1, LenProperties
  <2> QED
    BY <2>1, <2>2
<1>6. \A j \in DOMAIN (q \o calls) :
        \/ j \in DOMAIN q /\ (q \o calls)[j] = q[j]
        \/ j - Len(q) \in 1..Cardinality(S) /\ (q \o calls)[j] = calls[j - Len(q)]
  BY <1>1, <1>4, <1>5
<1>7. \A i \in DOMAIN q : i \in DOMAIN (q \o calls) /\ (q \o calls)[i] = q[i]
  BY <1>1, <1>4, <1>5
<1>8. \A j \in DOMAIN (q \o calls) :
        \/ \E i \in DOMAIN q : (q \o calls)[j] = q[i]
        \/ \E n \in S : (q \o calls)[j] = call(n)
  BY <1>2, <1>6
<1>9. \E Z : q \o calls \in Seq(Z)
  BY <1>5
<1>10. \A i \in DOMAIN q : \E j \in DOMAIN (q \o calls) : (q \o calls)[j] = q[i]
  BY <1>7
<1>11. \A n \in S : \E j \in DOMAIN (q \o calls) : (q \o calls)[j] = call(n)
  <2> TAKE n \in S
  <2>1. PICK i \in 1..Cardinality(S) : order[i] = n
    BY <1>1 DEF InTurnOrder, Range
  <2>2. Len(q) + i \in DOMAIN (q \o calls) /\ (q \o calls)[Len(q) + i] = calls[i]
    BY <1>1, <1>4, <1>5
  <2> QED
    BY <1>2, <2>1, <2>2
<1>12. QED
  BY <1>8, <1>9, <1>10, <1>11 DEF calls, Follows

\* A main request: its session's turns, and what is scheduled.
LEMMA MainStep ==
  ASSUME IInv, NEW r \in inflight, RespondMain(r)
  PROVE  LET s == r.session
             turn == turnCounts[s] + 1
             tasks == FlushTasks(s)
         IN  /\ s \in Sessions /\ turn \in Turns
             /\ \A x \in Sessions \ {s}, n \in Turns :
                  /\ pendingTurn'[x][n] = NoTurn <=> pendingTurn[x][n] = NoTurn
                  /\ pendingTurn'[x][n].uid = pendingTurn[x][n].uid
                  /\ prmTasks'[x][n] = prmTasks[x][n]
             /\ \A n \in Turns : prmTasks'[s][n] \in {None, tasks[s][n]}
             /\ \A n \in Turns : pendingTurn'[s][n] # NoTurn =>
                  /\ \/ n = turn /\ pendingTurn'[s][n].uid = r.id
                     \/ /\ n # turn /\ pendingTurn[s][n] # NoTurn
                        /\ pendingTurn'[s][n].uid = pendingTurn[s][n].uid
                  /\ prmTasks'[s][n] = tasks[s][n]
                  /\ tasks[s][n] = None \/ verdict[tasks[s][n]] = NoScore
                  /\ r.done => tasks[s][n] # None
             /\ \A x : Calls(ready, x) => Calls(ready', x)
             /\ \A j \in DOMAIN ready' :
                  \/ \E i \in DOMAIN ready : ready'[j] = ready[i]
                  \/ \E n \in Turns :
                       /\ ready'[j].judge = tasks[s][n]
                       /\ \/ n = turn /\ ready'[j].uid = r.id
                          \/ /\ n # turn /\ pendingTurn[s][n] # NoTurn
                             /\ ready'[j].uid = pendingTurn[s][n].uid
<1> DEFINE s == r.session
           turn == turnCounts[s] + 1
           tasks == FlushTasks(s)
           flushed == FlushTurns(s)
           new == [uid |-> r.id, hasNext |-> FALSE]
           pend == [flushed EXCEPT ![s][turn] = new]
           now == Submittable(pend, tasks, s, FALSE)
           pend2 == WithoutTurns(pend, s, now)
           tasks2 == WithoutTasks(tasks, s, now)
           rest == IF r.done THEN Submittable(pend2, tasks2, s, TRUE) ELSE {}
<1>1. PICK order \in InTurnOrder(now), orderRest \in InTurnOrder(rest) :
        ready' = (ready \o SubmitCalls(pend, tasks, s, order))
                   \o SubmitCalls(pend2, tasks2, s, orderRest)
  BY DEF RespondMain
<1>2. /\ turn \in Turns
      /\ pendingTurn' = WithoutTurns(pend2, s, rest)
      /\ prmTasks' = WithoutTasks(tasks2, s, rest)
  BY DEF RespondMain
<1>3. s \in Sessions /\ r.id \in Requests
  BY Tables
<1>4. /\ now \in SUBSET Turns /\ rest \in SUBSET Turns
      /\ \A n \in Turns :
           /\ n \in now <=> /\ pend[s][n] # NoTurn
                            /\ ~PrmEnabled \/ (tasks[s][n] # None /\ verdict[tasks[s][n]] # NoScore)
           /\ n \in rest => pend2[s][n] # NoTurn
           /\ n \notin rest /\ r.done => pend2[s][n] = NoTurn \/ tasks2[s][n] # None
  BY DEF Submittable
<1> HIDE DEF s, rest, now
<1>5. /\ flushed \in Pends /\ tasks \in TaskTables /\ Unused(tasks)
      /\ \A x \in Sessions, n \in Turns :
           /\ flushed[x][n] = NoTurn <=> pendingTurn[x][n] = NoTurn
           /\ flushed[x][n].uid = pendingTurn[x][n].uid
  BY <1>3, FlushTables
<1>6. \A x \in Sessions \ {s}, n \in Turns : tasks[x][n] = prmTasks[x][n]
  BY <1>3, FlushedAt
<1> HIDE DEF tasks, flushed, turn
<1>7. new \in TurnData /\ new # NoTurn /\ new.uid = r.id
  BY <1>3 DEF TurnData, NoTurn, None, Requests
<1> HIDE DEF new
<1>8. /\ pend \in Pends
      /\ \A x \in Sessions, n \in Turns :
           pend[x][n] = IF x = s /\ n = turn THEN new ELSE flushed[x][n]
  BY <1>2, <1>3, <1>5, <1>7 DEF Pends
<1> HIDE DEF pend
<1>9. /\ pend2 \in Pends /\ tasks2 \in TaskTables
      /\ \A x \in Sessions, n \in Turns :
           /\ pend2[x][n] = IF x = s /\ n \in now THEN NoTurn ELSE pend[x][n]
           /\ tasks2[x][n] = IF x = s /\ n \in now THEN None ELSE tasks[x][n]
  BY <1>3, <1>4, <1>5, <1>8, SubmittedAt
<1>10. ready \in Seq(Callbacks)
  BY Tables
<1> DEFINE mid == ready \o SubmitCalls(pend, tasks, s, order)
<1>11. Follows(mid, ready, pend, tasks, s, now)
  <2>1. \E X : ready \in Seq(X)
    BY <1>10
  <2> QED
    BY <1>1, <1>4, <2>1, CallsFollow
<1> HIDE DEF pend2, tasks2, mid
<1>12. /\ \A x \in Sessions, n \in Turns :
            /\ pendingTurn'[x][n] = IF x = s /\ n \in rest THEN NoTurn ELSE pend2[x][n]
            /\ prmTasks'[x][n] = IF x = s /\ n \in rest THEN None ELSE tasks2[x][n]
  BY <1>2, <1>3, <1>4, <1>9, SubmittedAt
<1>13. Follows(ready', mid, pend2, tasks2, s, rest)
  <2>1. ready' = mid \o SubmitCalls(pend2, tasks2, s, orderRest)
    BY <1>1 DEF mid
  <2>2. \E X : mid \in Seq(X)
    BY <1>11 DEF Follows
  <2> QED
    BY <1>1, <1>4, <2>1, <2>2, CallsFollow
<1>14. \A x \in Sessions \ {s}, n \in Turns :
         /\ pendingTurn'[x][n] = NoTurn <=> pendingTurn[x][n] = NoTurn
         /\ pendingTurn'[x][n].uid = pendingTurn[x][n].uid
         /\ prmTasks'[x][n] = prmTasks[x][n]
  BY <1>5, <1>6, <1>8, <1>9, <1>12
<1>15. \A n \in Turns : prmTasks'[s][n] \in {None, tasks[s][n]}
  BY <1>3, <1>9, <1>12
<1>16. \A n \in Turns : pend[s][n] # NoTurn =>
         \/ n = turn /\ pend[s][n].uid = r.id
         \/ n # turn /\ pendingTurn[s][n] # NoTurn /\ pend[s][n].uid = pendingTurn[s][n].uid
  BY <1>3, <1>5, <1>7, <1>8
<1>17. ASSUME NEW n \in Turns, pendingTurn'[s][n] # NoTurn
       PROVE  /\ \/ n = turn /\ pendingTurn'[s][n].uid = r.id
                 \/ /\ n # turn /\ pendingTurn[s][n] # NoTurn
                    /\ pendingTurn'[s][n].uid = pendingTurn[s][n].uid
              /\ prmTasks'[s][n] = tasks[s][n]
              /\ tasks[s][n] = None \/ verdict[tasks[s][n]] = NoScore
              /\ r.done => tasks[s][n] # None
  <2>1. /\ n \notin rest /\ n \notin now
        /\ pendingTurn'[s][n] = pend2[s][n] /\ pend2[s][n] = pend[s][n]
        /\ prmTasks'[s][n] = tasks2[s][n] /\ tasks2[s][n] = tasks[s][n]
    BY <1>3, <1>9, <1>12, <1>17
  <2>2. tasks[s][n] = None \/ verdict[tasks[s][n]] = NoScore
    BY <1>4, <1>17, <2>1
  <2>3. r.done => tasks[s][n] # None
    BY <1>4, <1>17, <2>1
  <2> QED
    BY <1>16, <1>17, <2>1, <2>2, <2>3
<1>18. ASSUME NEW x, Calls(ready, x) PROVE Calls(ready', x)
  BY <1>11, <1>13, <1>18 DEF Follows, Calls
<1>19. ASSUME NEW j \in DOMAIN ready'
       PROVE  \/ \E i \in DOMAIN ready : ready'[j] = ready[i]
              \/ \E n \in Turns :
                   /\ ready'[j].judge = tasks[s][n]
                   /\ \/ n = turn /\ ready'[j].uid = r.id
                      \/ /\ n # turn /\ pendingTurn[s][n] # NoTurn
                         /\ ready'[j].uid = pendingTurn[s][n].uid
  <2>1. \/ \E i \in DOMAIN ready : ready'[j] = ready[i]
        \/ \E n \in now : ready'[j] = SubmitCall(s, pend[s][n], tasks[s][n])
        \/ \E n \in rest : ready'[j] = SubmitCall(s, pend2[s][n], tasks2[s][n])
    <3>1. \/ \E i \in DOMAIN mid : ready'[j] = mid[i]
          \/ \E n \in rest : ready'[j] = SubmitCall(s, pend2[s][n], tasks2[s][n])
      BY <1>13 DEF Follows
    <3>2. \A i \in DOMAIN mid :
            \/ \E k \in DOMAIN ready : mid[i] = ready[k]
            \/ \E n \in now : mid[i] = SubmitCall(s, pend[s][n], tasks[s][n])
      BY <1>11 DEF Follows
    <3> QED
      BY <3>1, <3>2
  <2>2. ASSUME NEW n \in Turns, pend[s][n] # NoTurn,
               ready'[j] = SubmitCall(s, pend[s][n], tasks[s][n])
        PROVE  /\ ready'[j].judge = tasks[s][n]
               /\ \/ n = turn /\ ready'[j].uid = r.id
                  \/ /\ n # turn /\ pendingTurn[s][n] # NoTurn
                     /\ ready'[j].uid = pendingTurn[s][n].uid
    <3>1. ready'[j].judge = tasks[s][n] /\ ready'[j].uid = pend[s][n].uid
      BY <2>2 DEF SubmitCall
    <3> QED
      BY <1>16, <2>2, <3>1
  <2>3. \A n \in rest : pend2[s][n] = pend[s][n] /\ tasks2[s][n] = tasks[s][n] /\ pend[s][n] # NoTurn
    BY <1>3, <1>4, <1>9
  <2> QED
    BY <1>4, <2>1, <2>2, <2>3
<1>20. QED
  BY <1>2, <1>3, <1>14, <1>15, <1>17, <1>18, <1>19 DEF s, turn, tasks

-----------------------------------------------------------------------------
(* Every judged session contributes *)

LEMMA SubmittedCall ==
  ASSUME IInv, RunSubmit
  PROVE  /\ Head(ready) \in Callbacks
         /\ \E i \in DOMAIN ready : Head(ready) = ready[i]
         /\ \A i \in DOMAIN ready' : \E j \in DOMAIN ready : ready'[i] = ready[j]
         /\ \A x \in Sessions : Calls(ready, x) => Calls(ready', x)
<1>1. ready \in Seq(Callbacks) /\ ready # <<>>
  BY Tables DEF RunSubmit
<1>2. Len(ready) \in Nat \ {0} /\ DOMAIN ready = 1..Len(ready) /\ Head(ready) = ready[1]
  BY <1>1, EmptySeq, LenProperties, HeadTailProperties
<1>3. Head(ready) \in Callbacks
  BY <1>1, HeadTailProperties
<1>4. /\ DOMAIN ready' = 1..Len(ready) - 1
      /\ \A i \in 1..Len(ready) - 1 : ready'[i] = ready[i + 1]
  <2>1. ready' = Tail(ready)
    BY DEF RunSubmit
  <2>2. /\ Tail(ready) \in Seq(Callbacks) /\ Len(Tail(ready)) = Len(ready) - 1
        /\ \A i \in 1..Len(Tail(ready)) : Tail(ready)[i] = ready[i + 1]
    BY <1>1, HeadTailProperties
  <2>3. DOMAIN Tail(ready) = 1..Len(Tail(ready))
    BY <2>2, LenProperties
  <2> QED
    BY <2>1, <2>2, <2>3
<1>5. ASSUME NEW x \in Sessions, Calls(ready, x) PROVE Calls(ready', x)
  <2>1. PICK i \in DOMAIN ready : ready[i] = PrmDoneCall(x)
    BY <1>5 DEF Calls
  <2>2. i # 1
    BY <1>2, <2>1 DEF RunSubmit, PrmDoneCall
  <2>3. i - 1 \in DOMAIN ready' /\ ready'[i - 1] = ready[i]
    BY <1>2, <1>4, <2>2
  <2> QED
    BY <2>1, <2>3 DEF Calls
<1>6. QED
  BY <1>2, <1>3, <1>4, <1>5

LEMMA NextContributes ==
  ASSUME IInv, Contributes, JudgedSessionContributes, [Next]_vars
  PROVE  Contributes' /\ JudgedSessionContributes'
<1>1. sessionEffective \in [Sessions -> Nat]
  BY Tables
<1>2. ASSUME samples' = samples,
             \A s \in Sessions : sessionEffective'[s] \in {0, sessionEffective[s]}
      PROVE  Contributes' /\ JudgedSessionContributes'
  BY <1>2 DEF Contributes, JudgedSessionContributes
<1>3. CASE RunSubmit
  <2> DEFINE call == Head(ready)
             sample == [index |-> nextIndex, session |-> call.session, uid |-> call.uid,
                        hasNext |-> call.hasNext, judge |-> call.judge,
                        score |-> call.score, trained |-> Trains(call)]
  <2>1. /\ samples' = samples \cup {sample}
        /\ sessionEffective' = [sessionEffective EXCEPT ![call.session] =
                                  IF Trains(call) THEN @ + 1 ELSE @]
    BY <1>3 DEF RunSubmit
  <2>2. call.session \in Sessions
    BY <1>3, SubmittedCall DEF Callbacks
  <2>3. /\ sample.session = call.session /\ sample.hasNext = call.hasNext
        /\ sample.trained = Trains(call)
    OBVIOUS
  <2>4. call.hasNext /\ ~Trains(call) => sessionEffective[call.session] # 0
    BY DEF Trains
  <2> HIDE DEF call, sample
  <2>5. Contributes'
    <3>1. \A s \in Sessions : sessionEffective'[s] # 0 =>
            sessionEffective[s] # 0 \/ (s = call.session /\ Trains(call))
      BY <1>1, <2>1, <2>2
    <3> QED
      BY <2>1, <2>3, <3>1 DEF Contributes
  <2>6. JudgedSessionContributes'
    <3>1. sample.hasNext => \E y \in samples' : y.trained /\ y.session = sample.session
      BY <2>1, <2>2, <2>3, <2>4 DEF Contributes
    <3> QED
      BY <2>1, <3>1 DEF JudgedSessionContributes
  <2> QED
    BY <2>5, <2>6
<1>4. ASSUME NEW r \in inflight, RespondMain(r) \/ RespondSide(r)
      PROVE  Contributes' /\ JudgedSessionContributes'
  <2>1. /\ sessionEffective' = [sessionEffective EXCEPT ![r.session] = IF r.done THEN 0 ELSE @]
        /\ samples' = samples
    BY <1>4 DEF RespondMain, RespondSide
  <2> QED
    BY <1>1, <1>2, <2>1
<1>5. ASSUME samples' = samples, sessionEffective' = sessionEffective
      PROVE  Contributes' /\ JudgedSessionContributes'
  BY <1>2, <1>5
<1>6. QED
  BY <1>3, <1>4, <1>5
  DEF Next, ServerNext, WorkerNext, Accept, SglangFails, RespondEmpty, PrmFinish,
      RunPrmDone, Put, Resume, Pause, ClearEvalScores, Take, vars, sampleVars

-----------------------------------------------------------------------------
(* Somebody comes for every pending turn *)

\* A step that moves no turn.
LEMMA AwaitedQuiet ==
  ASSUME Awaited, UNCHANGED <<pendingRecord, pendingTurn, prmTasks, prmRunning, verdict>>,
         \A x \in Sessions : Calls(ready, x) => Calls(ready', x)
  PROVE  Awaited'
BY DEF Awaited, Running, Handed, Expected, Buffered

LEMMA MainAwaited ==
  ASSUME IInv, Awaited, NEW r \in inflight, RespondMain(r)
  PROVE  Awaited'
<1> SUFFICES ASSUME PrmEnabled, RecordEnabled
             PROVE  Running' /\ Handed' /\ Expected'
  BY DEF Awaited
<1>0. Running /\ Handed /\ Expected
  BY DEF Awaited
<1> DEFINE s == r.session
           turn == turnCounts[s] + 1
           tasks == FlushTasks(s)
<1>1. /\ s \in Sessions /\ turn \in Turns
      /\ \A x \in Sessions \ {s}, n \in Turns :
           /\ pendingTurn'[x][n] = NoTurn <=> pendingTurn[x][n] = NoTurn
           /\ pendingTurn'[x][n].uid = pendingTurn[x][n].uid
           /\ prmTasks'[x][n] = prmTasks[x][n]
      /\ \A n \in Turns : prmTasks'[s][n] \in {None, tasks[s][n]}
      /\ \A n \in Turns : pendingTurn'[s][n] # NoTurn =>
           /\ \/ n = turn /\ pendingTurn'[s][n].uid = r.id
              \/ /\ n # turn /\ pendingTurn[s][n] # NoTurn
                 /\ pendingTurn'[s][n].uid = pendingTurn[s][n].uid
           /\ prmTasks'[s][n] = tasks[s][n]
           /\ tasks[s][n] = None \/ verdict[tasks[s][n]] = NoScore
           /\ r.done => tasks[s][n] # None
      /\ \A x : Calls(ready, x) => Calls(ready', x)
  BY MainStep
<1>2. /\ verdict' = verdict /\ prmRunning' = FlushRunning(s)
      /\ pendingRecord' = [pendingRecord EXCEPT ![s] =
                             IF ~r.done THEN [turn |-> turn, uid |-> r.id] ELSE NoRecord]
  BY DEF RespondMain
<1>3. /\ \A x \in Sessions, n \in Turns :
           tasks[x][n] = IF Fires(s) /\ x = s /\ n = pendingRecord[s].turn
                         THEN pendingRecord[s].uid ELSE prmTasks[x][n]
      /\ prmRunning \subseteq FlushRunning(s)
      /\ Fires(s) => /\ [session |-> s, uid |-> pendingRecord[s].uid] \in FlushRunning(s)
                     /\ verdict[pendingRecord[s].uid] = NoScore
                     /\ pendingRecord[s].uid # None
  BY <1>1, FlushedAt
<1> HIDE DEF tasks, s, turn
<1>4. /\ \A x \in Sessions \ {s} : pendingRecord'[x] = pendingRecord[x]
      /\ ~r.done => pendingRecord'[s] = [turn |-> turn, uid |-> r.id]
  BY <1>1, <1>2, Tables
\* What the buffered record was for has its task now.
<1>5. \A n \in Turns : pendingTurn[s][n] # NoTurn => tasks[s][n] # None
  <2> SUFFICES ASSUME NEW n \in Turns, pendingTurn[s][n] # NoTurn, prmTasks[s][n] = None
               PROVE  Fires(s) /\ n = pendingRecord[s].turn
    BY <1>1, <1>3
  <2>1. pendingRecord[s] = [turn |-> n, uid |-> pendingTurn[s][n].uid]
    BY <1>0, <1>1 DEF Handed, Buffered
  <2>2. n # None
    BY DEF Turns, None
  <2> QED
    BY <2>1, <2>2 DEF Fires, NoRecord
<1>6. Running'
  <2> SUFFICES ASSUME NEW x \in Sessions, NEW n \in Turns,
                      prmTasks'[x][n] # None, verdict[prmTasks'[x][n]] = NoScore
               PROVE  [session |-> x, uid |-> prmTasks'[x][n]] \in FlushRunning(s)
    BY <1>2 DEF Running
  <2>1. prmTasks'[x][n] = tasks[x][n]
    BY <1>1, <1>3
  <2>2. CASE Fires(s) /\ x = s /\ n = pendingRecord[s].turn
    BY <1>3, <2>1, <2>2
  <2>3. CASE ~(Fires(s) /\ x = s /\ n = pendingRecord[s].turn)
    BY <1>0, <1>3, <2>1, <2>3 DEF Running
  <2> QED
    BY <2>2, <2>3
<1>7. \A n \in Turns : pendingTurn'[s][n] # NoTurn =>
        \/ Buffered(s, n)'
        \/ prmTasks'[s][n] # None /\ verdict'[prmTasks'[s][n]] = NoScore
  <2> SUFFICES ASSUME NEW n \in Turns, pendingTurn'[s][n] # NoTurn, prmTasks'[s][n] = None
               PROVE  Buffered(s, n)'
    BY <1>1, <1>2
  <2>1. n = turn /\ pendingTurn'[s][n].uid = r.id /\ ~r.done
    BY <1>1, <1>5
  <2> QED
    BY <1>4, <2>1 DEF Buffered
<1>8. \A x \in Sessions \ {s}, n \in Turns : Buffered(x, n)' <=> Buffered(x, n)
  BY <1>1, <1>4 DEF Buffered
<1>9. Handed' /\ Expected'
  BY <1>0, <1>1, <1>2, <1>7, <1>8 DEF Handed, Expected
<1>10. QED
  BY <1>6, <1>9

LEMMA EmptyAwaited ==
  ASSUME IInv, Awaited, NEW r \in inflight, RespondEmpty(r)
  PROVE  Awaited'
<1> SUFFICES ASSUME PrmEnabled, RecordEnabled
             PROVE  Running' /\ Handed' /\ Expected'
  BY DEF Awaited
<1>0. Running /\ Handed /\ Expected
  BY DEF Awaited
<1> DEFINE s == r.session
<1>1. /\ s \in Sessions
      /\ prmTasks' = FlushTasks(s) /\ prmRunning' = FlushRunning(s)
      /\ pendingTurn' = FlushTurns(s)
      /\ pendingRecord' = [pendingRecord EXCEPT ![s] = NoRecord]
      /\ verdict' = verdict /\ ready' = ready
  BY Tables DEF RespondEmpty
<1> HIDE DEF s
<1>2. \A x \in Sessions, n \in Turns :
        /\ pendingTurn'[x][n] = NoTurn <=> pendingTurn[x][n] = NoTurn
        /\ pendingTurn'[x][n].uid = pendingTurn[x][n].uid
  BY <1>1, FlushTables
<1>3. /\ \A x \in Sessions, n \in Turns :
           prmTasks'[x][n] = IF Fires(s) /\ x = s /\ n = pendingRecord[s].turn
                             THEN pendingRecord[s].uid ELSE prmTasks[x][n]
      /\ prmRunning \subseteq prmRunning'
      /\ Fires(s) => /\ [session |-> s, uid |-> pendingRecord[s].uid] \in prmRunning'
                     /\ verdict[pendingRecord[s].uid] = NoScore
                     /\ pendingRecord[s].uid # None
  BY <1>1, FlushedAt
<1>4. \A x \in Sessions \ {s} : pendingRecord'[x] = pendingRecord[x]
  BY <1>1, Tables
<1>5. \A x \in Sessions \ {s}, n \in Turns : Buffered(x, n)' <=> Buffered(x, n)
  BY <1>2, <1>4 DEF Buffered
<1>6. \A n \in Turns : Buffered(s, n) => Fires(s) /\ n = pendingRecord[s].turn
  <2>1. \A n \in Turns : n # None
    BY DEF Turns, None
  <2> QED
    BY <2>1 DEF Buffered, Fires, NoRecord
<1>7. Running'
  BY <1>0, <1>1, <1>3 DEF Running
<1>8. Handed' /\ Expected'
  BY <1>0, <1>1, <1>2, <1>3, <1>5, <1>6 DEF Handed, Expected
<1>9. QED
  BY <1>7, <1>8

\* A step that submits the turns S of session s and leaves the records alone,
\* or drops the one of s.
LEMMA SubmitAwaited ==
  ASSUME IInv, Awaited, PrmEnabled, RecordEnabled,
         NEW s \in Sessions, NEW S \in SUBSET Turns,
         pendingTurn' = WithoutTurns(pendingTurn, s, S),
         prmTasks' = WithoutTasks(prmTasks, s, S),
         prmRunning' = prmRunning, verdict' = verdict,
         \A x \in Sessions \ {s} : /\ pendingRecord'[x] = pendingRecord[x]
                                   /\ Calls(ready, x) => Calls(ready', x),
         \A n \in Turns \ S : pendingTurn[s][n] # NoTurn =>
           \/ Buffered(s, n) /\ pendingRecord'[s] = pendingRecord[s]
           \/ prmTasks[s][n] # None /\ verdict[prmTasks[s][n]] = NoScore
  PROVE  Awaited'
<1>0. Running /\ Handed /\ Expected
  BY DEF Awaited
<1>1. \A x \in Sessions, n \in Turns :
        /\ pendingTurn'[x][n] = IF x = s /\ n \in S THEN NoTurn ELSE pendingTurn[x][n]
        /\ prmTasks'[x][n] = IF x = s /\ n \in S THEN None ELSE prmTasks[x][n]
  BY Tables, SubmittedAt
<1>2. Running'
  BY <1>0, <1>1 DEF Running
<1>3. \A x \in Sessions \ {s}, n \in Turns : Buffered(x, n)' <=> Buffered(x, n)
  BY <1>1 DEF Buffered
<1>4. \A n \in Turns : pendingTurn'[s][n] # NoTurn =>
        \/ Buffered(s, n)'
        \/ prmTasks'[s][n] # None /\ verdict'[prmTasks'[s][n]] = NoScore
  BY <1>1 DEF Buffered
<1>5. Handed' /\ Expected'
  BY <1>0, <1>1, <1>3, <1>4 DEF Handed, Expected
<1>6. QED
  BY <1>2, <1>5 DEF Awaited

LEMMA SideAwaited ==
  ASSUME IInv, Awaited, NEW r \in inflight, RespondSide(r)
  PROVE  Awaited'
<1> SUFFICES ASSUME PrmEnabled, RecordEnabled PROVE Awaited'
  BY DEF Awaited
<1> DEFINE s == r.session
           rest == IF r.done THEN Submittable(pendingTurn, prmTasks, s, TRUE) ELSE {}
<1>1. /\ s \in Sessions
      /\ pendingTurn' = WithoutTurns(pendingTurn, s, rest)
      /\ prmTasks' = WithoutTasks(prmTasks, s, rest)
      /\ prmRunning' = prmRunning /\ verdict' = verdict
      /\ pendingRecord' = [pendingRecord EXCEPT ![s] = IF r.done THEN NoRecord ELSE @]
  BY Tables DEF RespondSide
<1>2. PICK order \in InTurnOrder(rest) :
        ready' = ready \o SubmitCalls(pendingTurn, prmTasks, s, order)
  BY DEF RespondSide
<1>3. rest \in SUBSET Turns
  BY DEF Submittable
<1>4. r.done => \A n \in Turns \ rest : pendingTurn[s][n] # NoTurn =>
                  prmTasks[s][n] # None /\ verdict[prmTasks[s][n]] = NoScore
  BY DEF Submittable
<1>5. ~r.done => rest = {}
  OBVIOUS
<1> HIDE DEF s, rest
<1>6. \A x : Calls(ready, x) => Calls(ready', x)
  <2>1. \E X : ready \in Seq(X)
    BY Tables
  <2>2. Follows(ready', ready, pendingTurn, prmTasks, s, rest)
    BY <1>2, <1>3, <2>1, CallsFollow
  <2> QED
    BY <2>2 DEF Follows, Calls
<1>7. /\ \A x \in Sessions \ {s} : pendingRecord'[x] = pendingRecord[x]
      /\ ~r.done => pendingRecord'[s] = pendingRecord[s]
  BY <1>1, Tables
<1>8. CASE r.done
  BY <1>1, <1>3, <1>4, <1>6, <1>7, <1>8, SubmitAwaited
<1>9. CASE ~r.done
  <2>1. \A x \in Sessions, n \in Turns :
          pendingTurn'[x][n] = pendingTurn[x][n] /\ prmTasks'[x][n] = prmTasks[x][n]
    BY <1>1, <1>5, <1>9, Tables, SubmittedAt
  <2> QED
    BY <1>1, <1>6, <1>7, <1>9, <2>1 DEF Awaited, Running, Handed, Expected, Buffered
<1>10. QED
  BY <1>8, <1>9

\* The done callback leaves only turns whose task runs, or that are buffered.
LEMMA PrmDoneAwaited ==
  ASSUME IInv, Awaited, RunPrmDone
  PROVE  Awaited'
<1> SUFFICES ASSUME PrmEnabled, RecordEnabled PROVE Awaited'
  BY DEF Awaited
<1> DEFINE s == Head(ready).session
           now == Submittable(pendingTurn, prmTasks, s, FALSE)
<1>1. /\ ready # <<>> /\ Head(ready).kind = "prmDone"
      /\ pendingTurn' = WithoutTurns(pendingTurn, s, now)
      /\ prmTasks' = WithoutTasks(prmTasks, s, now)
      /\ prmRunning' = prmRunning /\ verdict' = verdict /\ pendingRecord' = pendingRecord
  BY DEF RunPrmDone
<1>2. PICK order \in InTurnOrder(now) :
        ready' = Tail(ready) \o SubmitCalls(pendingTurn, prmTasks, s, order)
  BY DEF RunPrmDone
<1>3. ready \in Seq(Callbacks)
  BY Tables
<1>4. s \in Sessions
  <2>1. Head(ready) \in Callbacks
    BY <1>1, <1>3, HeadTailProperties
  <2> QED
    BY <2>1 DEF Callbacks
<1>5. /\ now \in SUBSET Turns
      /\ \A n \in Turns \ now : pendingTurn[s][n] # NoTurn =>
           prmTasks[s][n] = None \/ verdict[prmTasks[s][n]] = NoScore
  BY DEF Submittable
<1>6. \A x \in Sessions \ {s} : PrmDoneCall(x) # Head(ready)
  BY DEF PrmDoneCall
<1> HIDE DEF s, now
<1>7. \A x \in Sessions \ {s} : Calls(ready, x) => Calls(ready', x)
  <2> SUFFICES ASSUME NEW x \in Sessions \ {s}, Calls(ready, x) PROVE Calls(ready', x)
    OBVIOUS
  <2>1. Tail(ready) \in Seq(Callbacks) /\ Calls(Tail(ready), x)
    <3>1. Len(ready) \in Nat \ {0} /\ DOMAIN ready = 1..Len(ready) /\ Head(ready) = ready[1]
      BY <1>1, <1>3, EmptySeq, LenProperties, HeadTailProperties
    <3>2. /\ Tail(ready) \in Seq(Callbacks) /\ Len(Tail(ready)) = Len(ready) - 1
          /\ \A i \in 1..Len(Tail(ready)) : Tail(ready)[i] = ready[i + 1]
      BY <1>1, <1>3, HeadTailProperties
    <3>3. DOMAIN Tail(ready) = 1..Len(Tail(ready))
      BY <3>2, LenProperties
    <3>4. PICK i \in DOMAIN ready : ready[i] = PrmDoneCall(x)
      BY DEF Calls
    <3>5. i # 1
      BY <1>6, <3>1, <3>4
    <3>6. i - 1 \in DOMAIN Tail(ready) /\ Tail(ready)[i - 1] = ready[i]
      BY <3>1, <3>2, <3>3, <3>5
    <3> QED
      BY <3>2, <3>4, <3>6 DEF Calls
  <2>2. \E X : Tail(ready) \in Seq(X)
    BY <2>1
  <2>3. Follows(ready', Tail(ready), pendingTurn, prmTasks, s, now)
    BY <1>2, <1>5, <2>2, CallsFollow
  <2> QED
    BY <2>1, <2>3 DEF Follows, Calls
<1>8. \A n \in Turns \ now : pendingTurn[s][n] # NoTurn =>
        \/ Buffered(s, n) /\ pendingRecord'[s] = pendingRecord[s]
        \/ prmTasks[s][n] # None /\ verdict[prmTasks[s][n]] = NoScore
  BY <1>1, <1>4, <1>5 DEF Awaited, Handed
<1>9. QED
  BY <1>1, <1>4, <1>5, <1>7, <1>8, SubmitAwaited

\* A PRM task ends: who waits for it is called.
LEMMA PrmFinishAwaited ==
  ASSUME IInv, Awaited, NEW t \in prmRunning, PrmFinish(t)
  PROVE  Awaited'
<1> SUFFICES ASSUME PrmEnabled, RecordEnabled
             PROVE  Running' /\ Handed' /\ Expected'
  BY DEF Awaited
<1>0. Running /\ Handed /\ Expected
  BY DEF Awaited
<1>1. /\ prmRunning' = prmRunning \ {t}
      /\ ready' = Append(ready, PrmDoneCall(t.session))
      /\ UNCHANGED <<pendingRecord, pendingTurn, prmTasks>>
  BY DEF PrmFinish
<1>2. PICK score \in Scores : verdict' = [verdict EXCEPT ![t.uid] = score]
  BY MajorityIsScore DEF PrmFinish
<1>3. /\ verdict'[t.uid] # NoScore
      /\ \A u \in Requests \ {t.uid} : verdict'[u] = verdict[u]
  <2>1. t.uid \in Requests /\ score # NoScore
    BY DEF IInv, TypeOK, Scores, NoScore
  <2> QED
    BY <1>2, <2>1, Tables DEF VerdictTables
<1>4. /\ Calls(ready', t.session)
      /\ \A x : Calls(ready, x) => Calls(ready', x)
  <2>1. ready \in Seq(Callbacks) /\ Len(ready) \in Nat /\ DOMAIN ready = 1..Len(ready)
    BY Tables, LenProperties
  <2>2. PrmDoneCall(t.session) \in Callbacks
    <3>1. t.session \in Sessions
      BY DEF IInv, TypeOK
    <3> QED
      BY <3>1 DEF PrmDoneCall, Callbacks, None, Scores
  <2> DEFINE done == PrmDoneCall(t.session)
  <2> HIDE DEF done
  <2>3. /\ DOMAIN Append(ready, done) = 1..Len(ready) + 1
        /\ Append(ready, done)[Len(ready) + 1] = done
        /\ \A i \in DOMAIN ready : Append(ready, done)[i] = ready[i]
    BY <2>1, <2>2, AppendProperties DEF done
  <2>4. /\ Len(ready) + 1 \in DOMAIN Append(ready, done)
        /\ \A i \in DOMAIN ready : i \in DOMAIN Append(ready, done)
    BY <2>1, <2>3
  <2> QED
    BY <1>1, <2>3, <2>4 DEF Calls, done
<1>5. \A x \in Sessions, n \in Turns : prmTasks[x][n] \in Requests \cup {None}
  BY Tables DEF TaskTables
<1>6. \A x \in Sessions, n \in Turns :
        prmTasks[x][n] # None /\ verdict[prmTasks[x][n]] = NoScore =>
          verdict'[prmTasks[x][n]] = NoScore \/ x = t.session
  <2> SUFFICES ASSUME NEW x \in Sessions, NEW n \in Turns, prmTasks[x][n] # None,
                      verdict[prmTasks[x][n]] = NoScore, prmTasks[x][n] = t.uid
               PROVE  x = t.session
    BY <1>3, <1>5
  <2>1. [session |-> x, uid |-> t.uid] \in prmRunning
    BY <1>0 DEF Running
  <2>2. t = [session |-> x, uid |-> t.uid]
    BY <2>1 DEF IInv, OneJudge
  <2> QED
    BY <2>2
<1>7. Running'
  <2> SUFFICES ASSUME NEW x \in Sessions, NEW n \in Turns,
                      prmTasks[x][n] # None, verdict'[prmTasks[x][n]] = NoScore
               PROVE  [session |-> x, uid |-> prmTasks[x][n]] \in prmRunning \ {t}
    BY <1>1 DEF Running
  <2>1. prmTasks[x][n] \in Requests \ {t.uid}
    BY <1>3, <1>5
  <2>2. [session |-> x, uid |-> prmTasks[x][n]] \in prmRunning
    BY <1>0, <1>3, <2>1 DEF Running
  <2> QED
    BY <2>1, <2>2
<1>8. Handed'
  BY <1>0, <1>1 DEF Handed, Buffered
<1>9. Expected'
  BY <1>0, <1>1, <1>4, <1>6 DEF Expected, Buffered
<1>10. QED
  BY <1>7, <1>8, <1>9

LEMMA NextAwaited ==
  ASSUME IInv, Awaited, [Next]_vars
  PROVE  Awaited'
<1>1. ASSUME UNCHANGED turnVars, ready' = ready PROVE Awaited'
  BY <1>1, AwaitedQuiet DEF turnVars
<1>2. CASE RunSubmit
  BY <1>2, SubmittedCall, AwaitedQuiet DEF RunSubmit, turnVars
<1>3. QED
  BY <1>1, <1>2, MainAwaited, EmptyAwaited, SideAwaited, PrmDoneAwaited, PrmFinishAwaited
  DEF Next, ServerNext, WorkerNext, Accept, SglangFails, Put, Resume, Pause,
      ClearEvalScores, Take, vars

-----------------------------------------------------------------------------
(* Disciplined clients *)

\* A handler that is over leaves its session to nobody.
LEMMA HandlerLeaves ==
  ASSUME Sequential, NEW r \in inflight, inflight' = inflight \ {r},
         closed' \in {closed, closed \cup {r.session}}
  PROVE  Sequential'
BY DEF Sequential

\* What the flush gives a session's turns is theirs.
LEMMA FlushOwn ==
  ASSUME IInv, OwnTasks, NEW s \in Sessions
  PROVE  \A x \in Sessions, n \in Turns : pendingTurn[x][n] # NoTurn =>
           FlushTasks(s)[x][n] \in {None, pendingTurn[x][n].uid}
<1> SUFFICES ASSUME NEW x \in Sessions, NEW n \in Turns, pendingTurn[x][n] # NoTurn
             PROVE  FlushTasks(s)[x][n] \in {None, pendingTurn[x][n].uid}
  OBVIOUS
<1>1. CASE Fires(s) /\ x = s /\ n = pendingRecord[s].turn
  <2>1. FlushTasks(s)[x][n] = pendingRecord[s].uid
    BY <1>1, FlushedAt
  <2>2. pendingTurn[x][n].uid = pendingRecord[s].uid
    BY <1>1 DEF IInv, RecordsFit, Fires
  <2> QED
    BY <2>1, <2>2
<1>2. CASE ~(Fires(s) /\ x = s /\ n = pendingRecord[s].turn)
  <2>1. FlushTasks(s)[x][n] = prmTasks[x][n]
    BY <1>2, FlushedAt
  <2> QED
    BY <2>1 DEF OwnTasks
<1>3. QED
  BY <1>1, <1>2

LEMMA MainOrderly ==
  ASSUME IInv, Orderly, NEW r \in inflight, RespondMain(r)
  PROVE  Orderly'
<1> SUFFICES ASSUME Disciplined
             PROVE  /\ Sequential' /\ Numbered' /\ OwnTasks' /\ OwnJudge(ready')
                    /\ \A x \in samples' : x.judge \in {None, x.uid}
  BY DEF Orderly
<1>0. /\ Sequential /\ Numbered /\ OwnTasks /\ OwnJudge(ready)
      /\ \A x \in samples : x.judge \in {None, x.uid}
  BY DEF Orderly
<1> DEFINE s == r.session
           turn == turnCounts[s] + 1
           tasks == FlushTasks(s)
<1>1. /\ s \in Sessions /\ turn \in Turns
      /\ \A x \in Sessions \ {s}, n \in Turns :
           /\ pendingTurn'[x][n] = NoTurn <=> pendingTurn[x][n] = NoTurn
           /\ pendingTurn'[x][n].uid = pendingTurn[x][n].uid
           /\ prmTasks'[x][n] = prmTasks[x][n]
      /\ \A n \in Turns : prmTasks'[s][n] \in {None, tasks[s][n]}
      /\ \A n \in Turns : pendingTurn'[s][n] # NoTurn =>
           /\ \/ n = turn /\ pendingTurn'[s][n].uid = r.id
              \/ /\ n # turn /\ pendingTurn[s][n] # NoTurn
                 /\ pendingTurn'[s][n].uid = pendingTurn[s][n].uid
           /\ prmTasks'[s][n] = tasks[s][n]
      /\ \A j \in DOMAIN ready' :
           \/ \E i \in DOMAIN ready : ready'[j] = ready[i]
           \/ \E n \in Turns :
                /\ ready'[j].judge = tasks[s][n]
                /\ \/ n = turn /\ ready'[j].uid = r.id
                   \/ /\ n # turn /\ pendingTurn[s][n] # NoTurn
                      /\ ready'[j].uid = pendingTurn[s][n].uid
  BY MainStep
<1>2. /\ inflight' = inflight \ {r}
      /\ closed' = IF r.done THEN closed \cup {s} ELSE closed
      /\ turnCounts' = [turnCounts EXCEPT ![s] = IF r.done THEN 0 ELSE turn]
      /\ pendingRecord' = [pendingRecord EXCEPT ![s] =
                             IF RecordEnabled /\ ~r.done
                             THEN [turn |-> turn, uid |-> r.id] ELSE NoRecord]
      /\ samples' = samples
  BY DEF RespondMain, Answered
<1>3. s \notin closed /\ turnCounts[s] \in Nat
  <2>1. turnCounts[s] \in 0..MaxRequests
    BY <1>1, Tables
  <2> QED
    BY <1>0, <2>1, RequestsAssumption DEF Sequential
<1>4. \A n \in Turns : n \in Nat
  BY DEF Turns
<1>5. /\ \A n \in Turns : n > turnCounts[s] => tasks[s][n] = None
      /\ \A n \in Turns : pendingTurn[s][n] # NoTurn =>
           tasks[s][n] \in {None, pendingTurn[s][n].uid}
  <2>1. \A n \in Turns : n > turnCounts[s] => tasks[s][n] = None
    <3> SUFFICES ASSUME NEW n \in Turns, n > turnCounts[s] PROVE tasks[s][n] = None
      OBVIOUS
    <3>1. Fires(s) => pendingRecord[s].turn = turnCounts[s]
      BY <1>0, <1>1 DEF Numbered, Fires
    <3>2. ~(Fires(s) /\ n = pendingRecord[s].turn)
      <4>1. n # turnCounts[s]
        BY <1>3, <1>4
      <4> QED
        BY <3>1, <4>1
    <3>3. tasks[s][n] = prmTasks[s][n]
      BY <1>1, <3>2, FlushedAt
    <3> QED
      BY <1>0, <1>1, <1>3, <3>3 DEF Numbered
  <2> QED
    BY <1>0, <1>1, <2>1, FlushOwn
<1> HIDE DEF tasks, s
<1>6. turn > turnCounts[s] /\ \A n \in Turns : n > turn => n > turnCounts[s]
  BY <1>3, <1>4
<1>7. tasks[s][turn] = None
  BY <1>1, <1>5, <1>6
<1>8. /\ turnCounts'[s] = IF r.done THEN 0 ELSE turn
      /\ \A x \in Sessions \ {s} : /\ turnCounts'[x] = turnCounts[x]
                                   /\ pendingRecord'[x] = pendingRecord[x]
      /\ pendingRecord'[s] # NoRecord => ~r.done /\ pendingRecord'[s].turn = turn
  <2> HIDE DEF turn
  <2> QED
    BY <1>1, <1>2, Tables
<1> HIDE DEF turn
<1>9. Sequential'
  BY <1>0, <1>2, HandlerLeaves DEF s
<1>10. Numbered'
  <2>1. ASSUME NEW x \in Sessions \ closed', NEW n \in Turns, n > turnCounts'[x]
        PROVE  pendingTurn'[x][n] = NoTurn /\ prmTasks'[x][n] = None
    <3>1. CASE x = s
      <4>1. ~r.done /\ n > turn
        BY <1>1, <1>2, <1>8, <2>1, <3>1
      <4>2. n # turn /\ n > turnCounts[s]
        BY <1>1, <1>4, <1>6, <4>1
      <4> QED
        BY <1>0, <1>1, <1>3, <1>5, <3>1, <4>2 DEF Numbered
    <3>2. CASE x # s
      BY <1>0, <1>1, <1>2, <1>8, <2>1, <3>2 DEF Numbered
    <3> QED
      BY <3>1, <3>2
  <2>2. ASSUME NEW x \in Sessions, pendingRecord'[x] # NoRecord
        PROVE  x \notin closed' /\ pendingRecord'[x].turn = turnCounts'[x]
    BY <1>0, <1>2, <1>3, <1>8, <2>2 DEF Numbered
  <2> QED
    BY <2>1, <2>2 DEF Numbered
<1>11. OwnTasks'
  <2> SUFFICES ASSUME NEW x \in Sessions, NEW n \in Turns, pendingTurn'[x][n] # NoTurn
               PROVE  prmTasks'[x][n] \in {None, pendingTurn'[x][n].uid}
    BY DEF OwnTasks
  <2>1. CASE x = s
    BY <1>1, <1>5, <1>7, <2>1
  <2>2. CASE x # s
    BY <1>0, <1>1, <2>2 DEF OwnTasks
  <2> QED
    BY <2>1, <2>2
<1>12. OwnJudge(ready')
  BY <1>0, <1>1, <1>5, <1>7 DEF OwnJudge
<1>13. QED
  BY <1>0, <1>2, <1>9, <1>10, <1>11, <1>12

LEMMA EmptyOrderly ==
  ASSUME IInv, Orderly, NEW r \in inflight, RespondEmpty(r)
  PROVE  Orderly'
<1> SUFFICES ASSUME Disciplined
             PROVE  /\ Sequential' /\ Numbered' /\ OwnTasks' /\ OwnJudge(ready')
                    /\ \A x \in samples' : x.judge \in {None, x.uid}
  BY DEF Orderly
<1>0. /\ Sequential /\ Numbered /\ OwnTasks /\ OwnJudge(ready)
      /\ \A x \in samples : x.judge \in {None, x.uid}
  BY DEF Orderly
<1> DEFINE s == r.session
<1>1. /\ s \in Sessions
      /\ prmTasks' = FlushTasks(s) /\ pendingTurn' = FlushTurns(s)
      /\ pendingRecord' = [pendingRecord EXCEPT ![s] = NoRecord]
      /\ turnCounts' = turnCounts /\ samples' = samples /\ ready' = ready
      /\ inflight' = inflight \ {r}
      /\ closed' \in {closed, closed \cup {s}}
  BY Tables DEF RespondEmpty, Answered, Failed, sampleVars
<1>2. Sequential'
  BY <1>0, <1>1, HandlerLeaves
<1> HIDE DEF s
<1>3. \A x \in Sessions, n \in Turns :
        /\ pendingTurn'[x][n] = NoTurn <=> pendingTurn[x][n] = NoTurn
        /\ pendingTurn'[x][n].uid = pendingTurn[x][n].uid
  BY <1>1, FlushTables
<1>4. OwnTasks'
  BY <1>0, <1>1, <1>3, FlushOwn DEF OwnTasks
<1>5. /\ pendingRecord'[s] = NoRecord
      /\ \A x \in Sessions \ {s} : pendingRecord'[x] = pendingRecord[x]
  BY <1>1, Tables
<1>6. Numbered'
  <2>1. ASSUME NEW x \in Sessions \ closed, NEW n \in Turns, n > turnCounts[x]
        PROVE  prmTasks'[x][n] = None
    <3>1. turnCounts[x] \in 0..MaxRequests /\ n \in Nat
      BY Tables DEF Turns
    <3>2. Fires(s) /\ x = s => pendingRecord[s].turn = turnCounts[x]
      BY <1>0, <1>1 DEF Numbered, Fires
    <3>3. ~(Fires(s) /\ x = s /\ n = pendingRecord[s].turn)
      <4>1. n # turnCounts[x]
        BY <2>1, <3>1, RequestsAssumption
      <4> QED
        BY <3>2, <4>1
    <3>4. prmTasks'[x][n] = prmTasks[x][n]
      BY <1>1, <3>3, FlushedAt
    <3> QED
      BY <1>0, <2>1, <3>4 DEF Numbered
  <2>2. \A x \in Sessions \ closed, n \in Turns : n > turnCounts[x] => pendingTurn'[x][n] = NoTurn
    BY <1>0, <1>3 DEF Numbered
  <2>3. \A x \in Sessions : pendingRecord'[x] # NoRecord =>
          x \notin closed' /\ pendingRecord'[x].turn = turnCounts[x]
    BY <1>0, <1>1, <1>5 DEF Numbered
  <2> QED
    BY <1>1, <2>1, <2>2, <2>3 DEF Numbered
<1>7. QED
  BY <1>0, <1>1, <1>2, <1>4, <1>6

\* A submission that follows q: what is left and what is scheduled keeps its judge.
LEMMA SubmitOrderly ==
  ASSUME IInv, OwnTasks, NEW s \in Sessions, NEW S \in SUBSET Turns,
         pendingTurn' = WithoutTurns(pendingTurn, s, S),
         prmTasks' = WithoutTasks(prmTasks, s, S),
         \A n \in S : pendingTurn[s][n] # NoTurn,
         NEW q, OwnJudge(q), Follows(ready', q, pendingTurn, prmTasks, s, S)
  PROVE  /\ OwnTasks' /\ OwnJudge(ready')
         /\ \A x \in Sessions, n \in Turns :
              /\ pendingTurn'[x][n] \in {NoTurn, pendingTurn[x][n]}
              /\ prmTasks'[x][n] \in {None, prmTasks[x][n]}
<1>1. \A x \in Sessions, n \in Turns :
        /\ pendingTurn'[x][n] = IF x = s /\ n \in S THEN NoTurn ELSE pendingTurn[x][n]
        /\ prmTasks'[x][n] = IF x = s /\ n \in S THEN None ELSE prmTasks[x][n]
  BY Tables, SubmittedAt
<1>2. OwnTasks'
  BY <1>1 DEF OwnTasks
<1>3. OwnJudge(ready')
  <2> SUFFICES ASSUME NEW j \in DOMAIN ready' PROVE ready'[j].judge \in {None, ready'[j].uid}
    BY DEF OwnJudge
  <2>1. CASE \E i \in DOMAIN q : ready'[j] = q[i]
    BY <2>1 DEF OwnJudge
  <2>2. CASE \E n \in S : ready'[j] = SubmitCall(s, pendingTurn[s][n], prmTasks[s][n])
    <3>1. PICK n \in S : ready'[j] = SubmitCall(s, pendingTurn[s][n], prmTasks[s][n])
      BY <2>2
    <3>2. ready'[j].judge = prmTasks[s][n] /\ ready'[j].uid = pendingTurn[s][n].uid
      BY <3>1 DEF SubmitCall
    <3> QED
      BY <3>2 DEF OwnTasks
  <2> QED
    BY <2>1, <2>2 DEF Follows
<1>4. QED
  BY <1>1, <1>2, <1>3

LEMMA SideOrderly ==
  ASSUME IInv, Orderly, NEW r \in inflight, RespondSide(r)
  PROVE  Orderly'
<1> SUFFICES ASSUME Disciplined
             PROVE  /\ Sequential' /\ Numbered' /\ OwnTasks' /\ OwnJudge(ready')
                    /\ \A x \in samples' : x.judge \in {None, x.uid}
  BY DEF Orderly
<1>0. /\ Sequential /\ Numbered /\ OwnTasks /\ OwnJudge(ready)
      /\ \A x \in samples : x.judge \in {None, x.uid}
  BY DEF Orderly
<1> DEFINE s == r.session
           rest == IF r.done THEN Submittable(pendingTurn, prmTasks, s, TRUE) ELSE {}
<1>1. /\ s \in Sessions
      /\ pendingTurn' = WithoutTurns(pendingTurn, s, rest)
      /\ prmTasks' = WithoutTasks(prmTasks, s, rest)
      /\ pendingRecord' = [pendingRecord EXCEPT ![s] = IF r.done THEN NoRecord ELSE @]
      /\ turnCounts' = [turnCounts EXCEPT ![s] = IF r.done THEN 0 ELSE @]
      /\ samples' = samples
      /\ inflight' = inflight \ {r}
      /\ closed' = IF r.done THEN closed \cup {s} ELSE closed
  BY Tables DEF RespondSide, Answered
<1>2. PICK order \in InTurnOrder(rest) :
        ready' = ready \o SubmitCalls(pendingTurn, prmTasks, s, order)
  BY DEF RespondSide
<1>3. rest \in SUBSET Turns /\ \A n \in rest : pendingTurn[s][n] # NoTurn
  BY DEF Submittable
<1>4. Sequential'
  BY <1>0, <1>1, HandlerLeaves
<1> HIDE DEF s, rest
<1>5. Follows(ready', ready, pendingTurn, prmTasks, s, rest)
  <2>1. \E X : ready \in Seq(X)
    BY Tables
  <2> QED
    BY <1>2, <1>3, <2>1, CallsFollow
<1>6. /\ OwnTasks' /\ OwnJudge(ready')
      /\ \A x \in Sessions, n \in Turns :
           /\ pendingTurn'[x][n] \in {NoTurn, pendingTurn[x][n]}
           /\ prmTasks'[x][n] \in {None, prmTasks[x][n]}
  BY <1>0, <1>1, <1>3, <1>5, SubmitOrderly
<1>7. \A x \in Sessions :
        \/ pendingRecord'[x] = pendingRecord[x] /\ turnCounts'[x] = turnCounts[x]
           /\ (x \in closed' => x \in closed)
        \/ x \in closed' /\ pendingRecord'[x] = NoRecord
  BY <1>1, Tables
<1>8. closed \subseteq closed'
  BY <1>1
<1>9. Numbered'
  BY <1>0, <1>6, <1>7, <1>8 DEF Numbered
<1>10. QED
  BY <1>0, <1>1, <1>4, <1>6, <1>9

LEMMA PrmDoneOrderly ==
  ASSUME IInv, Orderly, RunPrmDone
  PROVE  Orderly'
<1> SUFFICES ASSUME Disciplined
             PROVE  /\ Sequential' /\ Numbered' /\ OwnTasks' /\ OwnJudge(ready')
                    /\ \A x \in samples' : x.judge \in {None, x.uid}
  BY DEF Orderly
<1>0. /\ Sequential /\ Numbered /\ OwnTasks /\ OwnJudge(ready)
      /\ \A x \in samples : x.judge \in {None, x.uid}
  BY DEF Orderly
<1> DEFINE s == Head(ready).session
           now == Submittable(pendingTurn, prmTasks, s, FALSE)
<1>1. /\ ready # <<>>
      /\ pendingTurn' = WithoutTurns(pendingTurn, s, now)
      /\ prmTasks' = WithoutTasks(prmTasks, s, now)
      /\ pendingRecord' = pendingRecord /\ turnCounts' = turnCounts
      /\ samples' = samples /\ inflight' = inflight /\ closed' = closed
  BY DEF RunPrmDone, requestVars, sampleVars
<1>2. PICK order \in InTurnOrder(now) :
        ready' = Tail(ready) \o SubmitCalls(pendingTurn, prmTasks, s, order)
  BY DEF RunPrmDone
<1>3. ready \in Seq(Callbacks)
  BY Tables
<1>4. s \in Sessions
  <2>1. Head(ready) \in Callbacks
    BY <1>1, <1>3, HeadTailProperties
  <2> QED
    BY <2>1 DEF Callbacks
<1>5. now \in SUBSET Turns /\ \A n \in now : pendingTurn[s][n] # NoTurn
  BY DEF Submittable
<1> HIDE DEF s, now
<1>6. Tail(ready) \in Seq(Callbacks) /\ OwnJudge(Tail(ready))
  <2>1. Len(ready) \in Nat \ {0} /\ DOMAIN ready = 1..Len(ready)
    BY <1>1, <1>3, EmptySeq, LenProperties
  <2>2. /\ Tail(ready) \in Seq(Callbacks) /\ Len(Tail(ready)) = Len(ready) - 1
        /\ \A i \in 1..Len(Tail(ready)) : Tail(ready)[i] = ready[i + 1]
    BY <1>1, <1>3, HeadTailProperties
  <2>3. DOMAIN Tail(ready) = 1..Len(Tail(ready))
    BY <2>2, LenProperties
  <2>4. \A i \in DOMAIN Tail(ready) : i + 1 \in DOMAIN ready /\ Tail(ready)[i] = ready[i + 1]
    BY <2>1, <2>2, <2>3
  <2> QED
    BY <1>0, <2>2, <2>4 DEF OwnJudge
<1>7. Follows(ready', Tail(ready), pendingTurn, prmTasks, s, now)
  <2>1. \E X : Tail(ready) \in Seq(X)
    BY <1>6
  <2> QED
    BY <1>2, <1>5, <2>1, CallsFollow
<1>8. /\ OwnTasks' /\ OwnJudge(ready')
      /\ \A x \in Sessions, n \in Turns :
           /\ pendingTurn'[x][n] \in {NoTurn, pendingTurn[x][n]}
           /\ prmTasks'[x][n] \in {None, prmTasks[x][n]}
  BY <1>0, <1>1, <1>4, <1>5, <1>6, <1>7, SubmitOrderly
<1>9. Sequential' /\ Numbered'
  BY <1>0, <1>1, <1>8 DEF Sequential, Numbered
<1>10. QED
  BY <1>0, <1>1, <1>8, <1>9

LEMMA NextOrderly ==
  ASSUME IInv, Orderly, [Next]_vars
  PROVE  Orderly'
<1> SUFFICES ASSUME Disciplined PROVE Orderly'
  BY DEF Orderly
<1>0. /\ Sequential /\ Numbered /\ OwnTasks /\ OwnJudge(ready)
      /\ \A x \in samples : x.judge \in {None, x.uid}
  BY DEF Orderly
<1>1. ASSUME UNCHANGED <<turnCounts, pendingRecord, pendingTurn, prmTasks, ready,
                         samples, closed>>,
             Sequential'
      PROVE  Orderly'
  BY <1>0, <1>1 DEF Orderly, Numbered, OwnTasks
<1>2. ASSUME UNCHANGED <<requestVars, turnVars, ready, samples>> PROVE Orderly'
  BY <1>0, <1>1, <1>2 DEF requestVars, turnVars, Sequential
<1>3. ASSUME NEW s \in Sessions, NEW main \in BOOLEAN, NEW done \in BOOLEAN,
             Accept(s, main, done)
      PROVE  Orderly'
  <2>1. /\ s \notin closed /\ \A r \in inflight : r.session # s
        /\ closed' = closed
        /\ inflight' = inflight \cup
             {[id |-> accepted + 1, session |-> s, main |-> main, done |-> done]}
    BY <1>3 DEF Accept
  <2>2. Sequential'
    BY <1>0, <2>1 DEF Sequential
  <2> QED
    BY <1>1, <1>3, <2>2 DEF Accept, turnVars, sampleVars
<1>4. ASSUME NEW r \in inflight, SglangFails(r) PROVE Orderly'
  <2>1. Sequential'
    BY <1>0, <1>4, HandlerLeaves DEF SglangFails, Failed
  <2> QED
    BY <1>1, <1>4, <2>1 DEF SglangFails, Failed, turnVars, sampleVars
<1>5. ASSUME NEW t \in prmRunning, PrmFinish(t) PROVE Orderly'
  <2>1. /\ ready' = Append(ready, PrmDoneCall(t.session))
        /\ UNCHANGED <<requestVars, turnCounts, pendingRecord, pendingTurn, prmTasks, samples>>
    BY <1>5 DEF PrmFinish, sampleVars
  <2>2. OwnJudge(ready')
    <3>1. /\ PrmDoneCall(t.session) \in Callbacks /\ PrmDoneCall(t.session).judge = None
      <4>1. t.session \in Sessions
        BY DEF IInv, TypeOK
      <4> QED
        BY <4>1 DEF PrmDoneCall, Callbacks, None, Scores
    <3>2. \A i \in DOMAIN ready' :
            (i \in DOMAIN ready /\ ready'[i] = ready[i]) \/ ready'[i] = PrmDoneCall(t.session)
      BY <2>1, <3>1, Tables
    <3> QED
      BY <1>0, <3>1, <3>2 DEF OwnJudge
  <2> QED
    BY <1>0, <2>1, <2>2 DEF Orderly, Sequential, Numbered, OwnTasks, requestVars
<1>6. CASE RunSubmit
  <2> DEFINE call == Head(ready)
             sample == [index |-> nextIndex, session |-> call.session, uid |-> call.uid,
                        hasNext |-> call.hasNext, judge |-> call.judge,
                        score |-> call.score, trained |-> Trains(call)]
  <2>1. /\ samples' = samples \cup {sample}
        /\ UNCHANGED <<requestVars, turnVars>>
    BY <1>6 DEF RunSubmit
  <2>2. call.judge \in {None, call.uid} /\ OwnJudge(ready')
    BY <1>0, <1>6, SubmittedCall DEF OwnJudge
  <2>3. sample.judge \in {None, sample.uid}
    BY <2>2
  <2> HIDE DEF sample
  <2> QED
    BY <1>0, <2>1, <2>2, <2>3
    DEF Orderly, Sequential, Numbered, OwnTasks, requestVars, turnVars
<1>7. QED
  BY <1>2, <1>3, <1>4, <1>5, <1>6, MainOrderly, EmptyOrderly, SideOrderly, PrmDoneOrderly
  DEF Next, ServerNext, WorkerNext, Put, Resume, Pause, ClearEvalScores, Take, vars,
      sampleVars

-----------------------------------------------------------------------------
(* The theorems *)

LEMMA InitSessions ==
  Init => Contributes /\ JudgedSessionContributes /\ Awaited /\ Orderly
<1> SUFFICES ASSUME Init
             PROVE  Contributes /\ JudgedSessionContributes /\ Awaited /\ Orderly
  OBVIOUS
<1>1. ready = <<>> /\ DOMAIN ready = {} /\ samples = {} /\ inflight = {} /\ closed = {}
  BY DEF Init
<1>2. Contributes /\ JudgedSessionContributes
  BY <1>1 DEF Init, Contributes, JudgedSessionContributes
<1>3. /\ \A s \in Sessions, n \in Turns : pendingTurn[s][n] = NoTurn /\ prmTasks[s][n] = None
      /\ \A s \in Sessions : pendingRecord[s] = NoRecord
  BY DEF Init
<1>4. Awaited
  BY <1>3 DEF Awaited, Running, Handed, Expected
<1>5. Orderly
  BY <1>1, <1>3 DEF Orderly, Sequential, Numbered, OwnTasks, OwnJudge
<1>6. QED
  BY <1>2, <1>4, <1>5

\* For any clients, sessions have trained on what they were judged for, the
\* pending turns are awaited, and those of disciplined clients are in order.
THEOREM ServerSessions ==
  Spec => [](Contributes /\ JudgedSessionContributes /\ Awaited /\ Orderly)
<1> DEFINE J == Contributes /\ JudgedSessionContributes /\ Awaited /\ Orderly
<1>1. IInv /\ J /\ [Next]_vars => J'
  BY NextContributes, NextAwaited, NextOrderly
<1>2. QED
  BY <1>1, InitSessions, ServerSafe, PTL DEF Spec

\* The promotion in _submit_turn_sample gives every session one of whose
\* judged turns was submitted a sample that trains.
THEOREM ServerJudgedSessionContributes == Spec => []JudgedSessionContributes
  BY ServerSessions, PTL

\* With the PRM and recording on no turn is parked for good: its record is
\* buffered, its task runs, or _maybe_submit_ready_samples is scheduled.
THEOREM ServerPendingTurnIsAwaited == Spec => []PendingTurnIsAwaited
<1>1. Awaited => PendingTurnIsAwaited
  <2>1. \A s \in Sessions : Calls(ready, s) => PrmDoneCall(s) \in Range(ready)
    BY DEF Calls, Range
  <2> QED
    BY <2>1 DEF Awaited, Handed, Expected, Buffered, PendingTurnIsAwaited
<1>2. QED
  BY <1>1, ServerSessions, PTL

\* For clients that send one request at a time and nothing after session_done,
\* a sample has the verdict on its own turn or none.
THEOREM ServerRewardIsOwnVerdict == Spec => [](Disciplined => RewardIsOwnVerdict)
<1>1. Orderly => (Disciplined => RewardIsOwnVerdict)
  BY DEF Orderly, RewardIsOwnVerdict
<1>2. QED
  BY <1>1, ServerSessions, PTL

\* For such clients, with the PRM and recording on, the earlier of two pending
\* turns of a session has been handed to the judge.
THEOREM ServerJudgedOnNextState ==
  Spec => [](Disciplined /\ PrmEnabled /\ RecordEnabled => JudgedOnNextState)
<1>1. IInv /\ Awaited /\ Orderly
        => (Disciplined /\ PrmEnabled /\ RecordEnabled => JudgedOnNextState)
  <2> SUFFICES ASSUME Disciplined, PrmEnabled, RecordEnabled, IInv, Awaited, Orderly,
                      NEW s \in Sessions, NEW m \in Turns, NEW n \in Turns, m < n,
                      pendingTurn[s][m] # NoTurn, pendingTurn[s][n] # NoTurn,
                      prmTasks[s][m] = None
               PROVE  FALSE
    BY DEF JudgedOnNextState
  <2>1. pendingRecord[s] = [turn |-> m, uid |-> pendingTurn[s][m].uid]
    BY DEF Awaited, Handed, Buffered
  <2>2. pendingRecord[s] # NoRecord
    <3>1. m # None
      BY DEF Turns, None
    <3> QED
      BY <2>1, <3>1 DEF NoRecord
  <2>3. s \notin closed /\ m = turnCounts[s]
    BY <2>1, <2>2 DEF Orderly, Numbered
  <2>4. n > turnCounts[s]
    BY <2>3 DEF Turns
  <2> QED
    BY <2>3, <2>4 DEF Orderly, Numbered
<1>2. QED
  BY <1>1, ServerSessions, ServerSafe, PTL

-----------------------------------------------------------------------------
(* RLServer implements TurnLife: where a turn is *)

InQueue(q, u, next) == \E i \in DOMAIN q : q[i].uid = u /\ q[i].hasNext = next
InTable(pend, u, next) ==
  \E s \in Sessions, n \in Turns :
    pend[s][n] # NoTurn /\ pend[s][n].uid = u /\ pend[s][n].hasNext = next
Sampled(u, trained) == \E x \in samples : x.uid = u /\ x.trained = trained

\* Callbacks that submit nothing carry no uid.
Plain(q) == \A i \in DOMAIN q : q[i].kind = "prmDone" => q[i].uid = None

\* Turns of pend are submitted: they are gone from pend2, and their calls are
\* in q2 behind those of q.
Sends(pend, q, pend2, q2) ==
  /\ \A j \in DOMAIN q2 : (\E i \in DOMAIN q : q2[j] = q[i]) \/ q2[j].kind = "submit"
  /\ \A u, next : InQueue(q, u, next) => InQueue(q2, u, next)
  /\ \A u, next : InQueue(q2, u, next) => InQueue(q, u, next) \/ InTable(pend, u, next)
  /\ \A s \in Sessions, n \in Turns : pend2[s][n] # NoTurn => pend2[s][n] = pend[s][n]
  /\ \A s \in Sessions, n \in Turns : pend[s][n] # NoTurn =>
       pend2[s][n] = pend[s][n] \/ InQueue(q2, pend[s][n].uid, pend[s][n].hasNext)

LEMMA SubmissionSends ==
  ASSUME NEW q, \E X : q \in Seq(X), NEW pend \in Pends, NEW tasks \in TaskTables,
         NEW s \in Sessions, NEW S \in SUBSET Turns, \A n \in S : pend[s][n] # NoTurn,
         NEW order \in InTurnOrder(S)
  PROVE  LET q2 == q \o SubmitCalls(pend, tasks, s, order)
         IN  (\E X : q2 \in Seq(X)) /\ Sends(pend, q, WithoutTurns(pend, s, S), q2)
<1> DEFINE q2 == q \o SubmitCalls(pend, tasks, s, order)
           pend2 == WithoutTurns(pend, s, S)
           call(n) == SubmitCall(s, pend[s][n], tasks[s][n])
<1>1. Follows(q2, q, pend, tasks, s, S)
  BY CallsFollow
<1>2. \A x \in Sessions, n \in Turns :
        pend2[x][n] = IF x = s /\ n \in S THEN NoTurn ELSE pend[x][n]
  BY SubmittedAt
<1>3. \A n \in S : /\ call(n).uid = pend[s][n].uid /\ call(n).hasNext = pend[s][n].hasNext
                   /\ call(n).kind = "submit"
  BY DEF SubmitCall
<1> HIDE DEF q2, pend2, call
<1>4. /\ \E X : q2 \in Seq(X)
      /\ \A i \in DOMAIN q : \E j \in DOMAIN q2 : q2[j] = q[i]
      /\ \A j \in DOMAIN q2 : (\E i \in DOMAIN q : q2[j] = q[i]) \/ \E n \in S : q2[j] = call(n)
      /\ \A n \in S : \E j \in DOMAIN q2 : q2[j] = call(n)
  BY <1>1 DEF Follows, call
<1>5. \A j \in DOMAIN q2 : (\E i \in DOMAIN q : q2[j] = q[i]) \/ q2[j].kind = "submit"
  BY <1>3, <1>4
<1>6. \A u, next : InQueue(q, u, next) => InQueue(q2, u, next)
  BY <1>4 DEF InQueue
<1>7. \A u, next : InQueue(q2, u, next) => InQueue(q, u, next) \/ InTable(pend, u, next)
  BY <1>3, <1>4 DEF InQueue, InTable
<1>8. \A n \in S : InQueue(q2, pend[s][n].uid, pend[s][n].hasNext)
  BY <1>3, <1>4 DEF InQueue
<1>9. QED
  BY <1>2, <1>4, <1>5, <1>6, <1>7, <1>8 DEF Sends, q2, pend2

LEMMA SendsTwice ==
  ASSUME NEW pend, NEW q, NEW pend2, NEW q2, NEW pend3, NEW q3,
         Sends(pend, q, pend2, q2), Sends(pend2, q2, pend3, q3)
  PROVE  Sends(pend, q, pend3, q3)
<1>1. \A j \in DOMAIN q3 : (\E i \in DOMAIN q : q3[j] = q[i]) \/ q3[j].kind = "submit"
  BY DEF Sends
<1>2. \A u, next : InTable(pend2, u, next) => InTable(pend, u, next)
  BY DEF Sends, InTable
<1>3. \A u, next : InQueue(q3, u, next) => InQueue(q, u, next) \/ InTable(pend, u, next)
  BY <1>2 DEF Sends
<1>4. QED
  BY <1>1, <1>3 DEF Sends

\* What a flush does to the pending turns.
LEMMA FlushedTurnsAt ==
  ASSUME IInv, NEW s \in Sessions
  PROVE  \A x \in Sessions, n \in Turns :
           \/ FlushTurns(s)[x][n] = pendingTurn[x][n]
           \/ /\ Fires(s) /\ x = s /\ n = pendingRecord[s].turn /\ pendingTurn[x][n] # NoTurn
              /\ FlushTurns(s)[x][n] # NoTurn
              /\ FlushTurns(s)[x][n].uid = pendingTurn[x][n].uid
              /\ FlushTurns(s)[x][n].hasNext = TRUE
<1> TAKE x \in Sessions, n \in Turns
<1>1. pendingTurn \in Pends
  BY Tables
<1>2. CASE Fires(s) /\ pendingTurn[s][pendingRecord[s].turn] # NoTurn
  <2> DEFINE turn == pendingRecord[s].turn
             old == pendingTurn[s][turn]
  <2>1. turn \in Turns
    BY <1>2, FlushedAt
  <2>2. FlushTurns(s)[x][n] = IF x = s /\ n = turn THEN [old EXCEPT !.hasNext = TRUE]
                              ELSE pendingTurn[x][n]
    BY <1>1, <1>2, <2>1 DEF FlushTurns, Pends
  <2>3. old \in [uid : Requests, hasNext : BOOLEAN]
    BY <1>1, <1>2, <2>1 DEF Pends, TurnData
  <2>4. [old EXCEPT !.hasNext = TRUE].hasNext = TRUE
    BY <2>3
  <2>5. FlushTurns(s)[x][n].uid = pendingTurn[x][n].uid
    BY FlushTables
  <2>6. FlushTurns(s)[x][n] = NoTurn <=> pendingTurn[x][n] = NoTurn
    BY FlushTables
  <2> QED
    BY <1>2, <2>2, <2>4, <2>5, <2>6
<1>3. CASE ~(Fires(s) /\ pendingTurn[s][pendingRecord[s].turn] # NoTurn)
  BY <1>3 DEF FlushTurns
<1>4. QED
  BY <1>2, <1>3

-----------------------------------------------------------------------------
(* Stages *)

\* The stage of a turn says where it is, and where it is gives its stage.
Staged(u) ==
  /\ StageOf(u) = "trained" <=> Sampled(u, TRUE)
  /\ StageOf(u) = "masked" <=> Sampled(u, FALSE)
  /\ StageOf(u) = "dueJudged" <=> InQueue(ready, u, TRUE)
  /\ StageOf(u) = "dueUnjudged" <=> InQueue(ready, u, FALSE)
  /\ StageOf(u) = "judging" <=> InTable(pendingTurn, u, TRUE)
  /\ StageOf(u) = "waiting" <=> InTable(pendingTurn, u, FALSE)
  /\ StageOf(u) = "none" <=> u \notin turned
  /\ StageOf(u) \in {"none", "waiting", "judging", "dueJudged", "dueUnjudged",
                     "trained", "masked", "lost"}

LEMMA StageIs == IInv => \A u \in Requests : Staged(u)
<1> SUFFICES ASSUME IInv, NEW u \in Requests PROVE Staged(u)
  OBVIOUS
<1> USE DEF Staged
<1>1. u # None
  BY DEF Requests, None
<1>2. /\ \A x \in samples : x.trained \in BOOLEAN
      /\ \A i \in DOMAIN ready : ready[i].hasNext \in BOOLEAN
      /\ \A s \in Sessions, n \in Turns : pendingTurn[s][n].hasNext \in BOOLEAN
  <2>1. \A x \in samples : x.trained \in BOOLEAN
    BY DEF IInv, TypeOK, Samples
  <2>2. \A i \in DOMAIN ready : ready[i] \in Callbacks
    BY Tables, LenProperties, ElementOfSeq
  <2>3. \A i \in DOMAIN ready : ready[i].hasNext \in BOOLEAN
    BY <2>2 DEF Callbacks
  <2>4. \A s \in Sessions, n \in Turns : pendingTurn[s][n] \in TurnData
    BY Tables DEF Pends
  <2> QED
    BY <2>1, <2>3, <2>4, TurnKinds
<1>3. /\ \A x \in samples : x.uid = u => u \in turned
      /\ \A i \in DOMAIN ready : ready[i].uid = u => u \in turned
      /\ \A s \in Sessions, n \in Turns : pendingTurn[s][n].uid = u => u \in turned
  BY <1>1 DEF IInv, Known, SampledUids, UidsOf, UidsIn
<1>4. /\ \A x, y \in samples : x.uid = u /\ y.uid = u => x = y
      /\ \A i, j \in DOMAIN ready : ready[i].uid = u /\ ready[j].uid = u => i = j
      /\ \A s1, s2 \in Sessions, n1, n2 \in Turns :
           PendingAt(s1, n1, u) /\ PendingAt(s2, n2, u) => s1 = s2 /\ n1 = n2
  BY <1>1 DEF IInv, Once, Distinct, Apart, PendingAt
<1>5. /\ \A x \in samples, i \in DOMAIN ready : ~(x.uid = u /\ ready[i].uid = u)
      /\ \A x \in samples, s \in Sessions, n \in Turns : ~(x.uid = u /\ pendingTurn[s][n].uid = u)
      /\ \A i \in DOMAIN ready, s \in Sessions, n \in Turns :
           ~(ready[i].uid = u /\ pendingTurn[s][n].uid = u)
  BY <1>1 DEF IInv, Once, SampledUids, UidsOf, UidsIn
<1>6. CASE \E x \in samples : x.uid = u
  <2>1. PICK x \in samples : x.uid = u
    BY <1>6
  <2>2. StageOf(u) = IF x.trained THEN "trained" ELSE "masked"
    BY <1>4, <2>1 DEF StageOf
  <2>3. /\ Sampled(u, TRUE) <=> x.trained = TRUE
        /\ Sampled(u, FALSE) <=> x.trained = FALSE
    BY <1>4, <2>1 DEF Sampled
  <2>4. \A next : ~InQueue(ready, u, next) /\ ~InTable(pendingTurn, u, next)
    BY <1>5, <2>1 DEF InQueue, InTable
  <2> QED
    BY <1>2, <1>3, <2>1, <2>2, <2>3, <2>4
<1>7. CASE (~\E x \in samples : x.uid = u) /\ \E i \in DOMAIN ready : ready[i].uid = u
  <2>1. PICK i \in DOMAIN ready : ready[i].uid = u
    BY <1>7
  <2>2. StageOf(u) = IF ready[i].hasNext THEN "dueJudged" ELSE "dueUnjudged"
    BY <1>4, <1>7, <2>1 DEF StageOf
  <2>3. /\ InQueue(ready, u, TRUE) <=> ready[i].hasNext = TRUE
        /\ InQueue(ready, u, FALSE) <=> ready[i].hasNext = FALSE
    BY <1>4, <2>1 DEF InQueue
  <2>4. \A b : ~Sampled(u, b) /\ ~InTable(pendingTurn, u, b)
    BY <1>5, <1>7, <2>1 DEF Sampled, InTable
  <2> QED
    BY <1>2, <1>3, <2>1, <2>2, <2>3, <2>4
<1>8. CASE /\ ~\E x \in samples : x.uid = u
           /\ ~\E i \in DOMAIN ready : ready[i].uid = u
           /\ \E s \in Sessions, n \in Turns : PendingAt(s, n, u)
  <2>1. PICK s \in Sessions, n \in Turns : PendingAt(s, n, u)
    BY <1>8
  <2>2. StageOf(u) = IF pendingTurn[s][n].hasNext THEN "judging" ELSE "waiting"
    BY <1>4, <1>8, <2>1 DEF StageOf
  <2>3. /\ InTable(pendingTurn, u, TRUE) <=> pendingTurn[s][n].hasNext = TRUE
        /\ InTable(pendingTurn, u, FALSE) <=> pendingTurn[s][n].hasNext = FALSE
    BY <1>4, <2>1 DEF InTable, PendingAt
  <2>4. \A b : ~Sampled(u, b) /\ ~InQueue(ready, u, b)
    BY <1>8 DEF Sampled, InQueue
  <2> QED
    BY <1>2, <1>3, <2>1, <2>2, <2>3, <2>4 DEF PendingAt
<1>9. CASE /\ ~\E x \in samples : x.uid = u
           /\ ~\E i \in DOMAIN ready : ready[i].uid = u
           /\ ~\E s \in Sessions, n \in Turns : PendingAt(s, n, u)
  <2>1. \A b : ~Sampled(u, b) /\ ~InQueue(ready, u, b) /\ ~InTable(pendingTurn, u, b)
    BY <1>9 DEF Sampled, InQueue, InTable, PendingAt
  <2>2. StageOf(u) = IF u \in turned THEN "lost" ELSE "none"
    BY <1>9 DEF StageOf
  <2> QED
    BY <2>1, <2>2
<1>10. QED
  BY <1>6, <1>7, <1>8, <1>9

LEMMA StageIsNext == IInv' => \A u \in Requests : Staged(u)'
<1>1. IInv' => (\A u \in Requests : Staged(u))'
  BY StageIs, PTL
<1>2. QED
  BY <1>1

\* How a turn moves in a step that makes no sample.
Moves(u, lossy) ==
  \/ StageOf(u)' = StageOf(u)
  \/ StageOf(u) = "waiting" /\ StageOf(u)' \in {"judging", "dueUnjudged"}
  \/ StageOf(u) = "judging" /\ StageOf(u)' = "dueJudged"
  \/ lossy /\ StageOf(u) \in {"waiting", "judging"} /\ StageOf(u)' = "lost"

LEMMA TurnMoves ==
  ASSUME IInv, IInv', NEW u \in Requests, u \in turned, u \in turned', samples' = samples,
         NEW lossy \in BOOLEAN,
         \A b \in BOOLEAN : InQueue(ready, u, b) => InQueue(ready, u, b)',
         \A b \in BOOLEAN : InQueue(ready, u, b)' =>
           InQueue(ready, u, b) \/ InTable(pendingTurn, u, b),
         \A b \in BOOLEAN : InTable(pendingTurn, u, b)' =>
           InTable(pendingTurn, u, b) \/ (b /\ InTable(pendingTurn, u, FALSE)),
         \A b \in BOOLEAN : InTable(pendingTurn, u, b) =>
           \/ InTable(pendingTurn, u, b)' \/ InQueue(ready, u, b)'
           \/ ~b /\ InTable(pendingTurn, u, TRUE)'
           \/ lossy
  PROVE  Moves(u, lossy)
<1>1. Staged(u) /\ Staged(u)'
  BY StageIs, StageIsNext
<1>2. Sampled(u, TRUE)' = Sampled(u, TRUE) /\ Sampled(u, FALSE)' = Sampled(u, FALSE)
  BY DEF Sampled
<1>3. CASE StageOf(u) \in {"trained", "masked", "dueJudged", "dueUnjudged"}
  BY <1>1, <1>2, <1>3 DEF Staged, Moves
<1>4. CASE StageOf(u) = "lost"
  <2>1. /\ ~Sampled(u, TRUE)' /\ ~Sampled(u, FALSE)'
        /\ ~InQueue(ready, u, TRUE)' /\ ~InQueue(ready, u, FALSE)'
        /\ ~InTable(pendingTurn, u, TRUE)' /\ ~InTable(pendingTurn, u, FALSE)'
    BY <1>1, <1>2, <1>4 DEF Staged
  <2> QED
    BY <1>1, <1>4, <2>1 DEF Staged, Moves
<1>5. CASE StageOf(u) = "judging"
  BY <1>1, <1>2, <1>5 DEF Staged, Moves
<1>6. CASE StageOf(u) = "waiting"
  BY <1>1, <1>2, <1>6 DEF Staged, Moves
<1>7. QED
  BY <1>1, <1>3, <1>4, <1>5, <1>6 DEF Staged

\* The same places, the same stage.
LEMMA SameStage ==
  ASSUME IInv, IInv', NEW u \in Requests, u \in turned <=> u \in turned',
         \A b \in BOOLEAN : Sampled(u, b)' <=> Sampled(u, b),
         \A b \in BOOLEAN : InQueue(ready, u, b)' <=> InQueue(ready, u, b),
         \A b \in BOOLEAN : InTable(pendingTurn, u, b)' <=> InTable(pendingTurn, u, b)
  PROVE  StageOf(u)' = StageOf(u)
<1>1. Staged(u) /\ Staged(u)'
  BY StageIs, StageIsNext
<1>2. (Sampled(u, TRUE)' <=> Sampled(u, TRUE)) /\ (Sampled(u, FALSE)' <=> Sampled(u, FALSE))
  OBVIOUS
<1>3. /\ InQueue(ready, u, TRUE)' <=> InQueue(ready, u, TRUE)
      /\ InQueue(ready, u, FALSE)' <=> InQueue(ready, u, FALSE)
      /\ InTable(pendingTurn, u, TRUE)' <=> InTable(pendingTurn, u, TRUE)
      /\ InTable(pendingTurn, u, FALSE)' <=> InTable(pendingTurn, u, FALSE)
  OBVIOUS
<1>4. CASE StageOf(u) = "trained"
  <2>1. Sampled(u, TRUE)
    BY <1>1, <1>4 DEF Staged
  <2>2. Sampled(u, TRUE)'
    BY <1>2, <2>1
  <2> QED
    BY <1>1, <1>4, <2>2 DEF Staged
<1>5. CASE StageOf(u) = "masked"
  <2>1. Sampled(u, FALSE)
    BY <1>1, <1>5 DEF Staged
  <2>2. Sampled(u, FALSE)'
    BY <1>2, <2>1
  <2> QED
    BY <1>1, <1>5, <2>2 DEF Staged
<1>6. CASE StageOf(u) = "dueJudged"
  <2>1. InQueue(ready, u, TRUE)
    BY <1>1, <1>6 DEF Staged
  <2>2. InQueue(ready, u, TRUE)'
    BY <1>3, <2>1
  <2> QED
    BY <1>1, <1>6, <2>2 DEF Staged
<1>7. CASE StageOf(u) = "dueUnjudged"
  <2>1. InQueue(ready, u, FALSE)
    BY <1>1, <1>7 DEF Staged
  <2>2. InQueue(ready, u, FALSE)'
    BY <1>3, <2>1
  <2> QED
    BY <1>1, <1>7, <2>2 DEF Staged
<1>8. CASE StageOf(u) = "judging"
  <2>1. InTable(pendingTurn, u, TRUE)
    BY <1>1, <1>8 DEF Staged
  <2>2. InTable(pendingTurn, u, TRUE)'
    BY <1>3, <2>1
  <2> QED
    BY <1>1, <1>8, <2>2 DEF Staged
<1>9. CASE StageOf(u) = "waiting"
  <2>1. InTable(pendingTurn, u, FALSE)
    BY <1>1, <1>9 DEF Staged
  <2>2. InTable(pendingTurn, u, FALSE)'
    BY <1>3, <2>1
  <2> QED
    BY <1>1, <1>9, <2>2 DEF Staged
<1>10. CASE StageOf(u) \in {"none", "lost"}
  <2>1. /\ ~Sampled(u, TRUE)' /\ ~Sampled(u, FALSE)'
        /\ ~InQueue(ready, u, TRUE)' /\ ~InQueue(ready, u, FALSE)'
        /\ ~InTable(pendingTurn, u, TRUE)' /\ ~InTable(pendingTurn, u, FALSE)'
    BY <1>1, <1>2, <1>3, <1>10 DEF Staged
  <2> QED
    BY <1>1, <1>10, <2>1 DEF Staged
<1>11. QED
  BY <1>1, <1>4, <1>5, <1>6, <1>7, <1>8, <1>9, <1>10 DEF Staged

-----------------------------------------------------------------------------
(* Steps of TurnLife *)

Stages == [u \in Requests |-> StageOf(u)]

LEMMA LifeAdvances ==
  ASSUME IInv, IInv', \A u \in Requests : Moves(u, FALSE)
  PROVE  Life!Next
<1>1. \A u \in Requests : Staged(u)'
  BY StageIsNext
<1>2. [u \in Requests |-> StageOf(u)]' \in [Requests -> Life!Stages]
  BY <1>1 DEF Staged, Life!Stages
<1>3. ASSUME NEW u \in Requests
      PROVE  \/ StageOf(u)' = StageOf(u)
             \/ <<StageOf(u), StageOf(u)'>> \in
                  {a \in Life!Advances : a[2] \notin {"trained", "masked", "lost"}}
  BY DEF Moves, Life!Advances
<1>4. Life!Advance
  BY <1>2, <1>3 DEF Life!Advance, Life!Others
<1>5. QED
  BY <1>4 DEF Life!Next

LEMMA LifeOpens ==
  ASSUME IInv, IInv', NEW t \in Requests, StageOf(t) = "none",
         StageOf(t)' \in {"waiting", "dueUnjudged"},
         \A u \in Requests \ {t} : Moves(u, ~Disciplined)
  PROVE  Life!Next
<1>1. \A u \in Requests : Staged(u)'
  BY StageIsNext
<1>2. [u \in Requests |-> StageOf(u)]' \in [Requests -> Life!Stages]
  BY <1>1 DEF Staged, Life!Stages
<1>3. ASSUME NEW u \in Requests \ {t}
      PROVE  \/ StageOf(u)' = StageOf(u)
             \/ <<StageOf(u), StageOf(u)'>> \in
                  {a \in Life!Advances : a[2] \notin {"trained", "masked"}}
  BY DEF Moves, Life!Advances
<1>4. Life!Open(t)
  BY <1>2, <1>3 DEF Life!Open, Life!Others
<1>5. QED
  BY <1>4 DEF Life!Next

LEMMA LifeSamples ==
  ASSUME NEW t \in Requests, NEW end \in {"trained", "masked"},
         StageOf(t) = "dueJudged" \/ (StageOf(t) = "dueUnjudged" /\ end = "masked"),
         StageOf(t)' = end,
         \A u \in Requests \ {t} : StageOf(u)' = StageOf(u)
  PROVE  Life!Next
<1>1. <<StageOf(t), end>> \in Life!Advances
  BY DEF Life!Advances
<1>2. [u \in Requests |-> StageOf(u)]' = [[u \in Requests |-> StageOf(u)] EXCEPT ![t] = end]
  OBVIOUS
<1>3. Life!Sample(t)
  BY <1>1, <1>2 DEF Life!Sample
<1>4. QED
  BY <1>3 DEF Life!Next

-----------------------------------------------------------------------------
(* Steps of the proxy *)

\* A step that only submits pending turns.
LEMMA SubmissionMoves ==
  ASSUME IInv, IInv', samples' = samples, turned' = turned,
         NEW q, Sends(pendingTurn, q, pendingTurn', ready'),
         \A u \in Requests, b \in BOOLEAN : InQueue(q, u, b) <=> InQueue(ready, u, b)
  PROVE  \A u \in Requests : Moves(u, FALSE)
<1> TAKE u \in Requests
<1>1. CASE u \notin turned
  <2>1. StageOf(u) = "none" /\ StageOf(u)' = "none"
    BY <1>1, StageIs, StageIsNext DEF Staged
  <2> QED
    BY <2>1 DEF Moves
<1>2. CASE u \in turned
  <2>1. \A b \in BOOLEAN : InQueue(ready, u, b) => InQueue(ready, u, b)'
    BY DEF Sends
  <2>2. \A b \in BOOLEAN : InQueue(ready, u, b)' =>
          InQueue(ready, u, b) \/ InTable(pendingTurn, u, b)
    BY DEF Sends
  <2>3. \A b \in BOOLEAN : InTable(pendingTurn, u, b)' => InTable(pendingTurn, u, b)
    BY DEF Sends, InTable
  <2>4. \A b \in BOOLEAN : InTable(pendingTurn, u, b) =>
          InTable(pendingTurn, u, b)' \/ InQueue(ready, u, b)'
    BY DEF Sends, InTable
  <2> QED
    BY <1>2, <2>1, <2>2, <2>3, <2>4, TurnMoves
<1>3. QED
  BY <1>1, <1>2

LEMMA SideSends ==
  ASSUME IInv, NEW r \in inflight, RespondSide(r)
  PROVE  Sends(pendingTurn, ready, pendingTurn', ready')
<1> DEFINE s == r.session
           rest == IF r.done THEN Submittable(pendingTurn, prmTasks, s, TRUE) ELSE {}
<1>1. PICK order \in InTurnOrder(rest) :
        /\ pendingTurn' = WithoutTurns(pendingTurn, s, rest)
        /\ ready' = ready \o SubmitCalls(pendingTurn, prmTasks, s, order)
  BY DEF RespondSide
<1>2. rest \in SUBSET Turns /\ \A n \in rest : pendingTurn[s][n] # NoTurn
  BY DEF Submittable
<1>3. pendingTurn \in Pends /\ prmTasks \in TaskTables /\ s \in Sessions /\ \E X : ready \in Seq(X)
  BY Tables
<1> HIDE DEF rest, s
<1>4. QED
  BY <1>1, <1>2, <1>3, SubmissionSends

LEMMA DoneSends ==
  ASSUME IInv, Plain(ready), RunPrmDone
  PROVE  /\ Sends(pendingTurn, Tail(ready), pendingTurn', ready')
         /\ \A u \in Requests, b \in BOOLEAN : InQueue(Tail(ready), u, b) <=> InQueue(ready, u, b)
         /\ \A i \in DOMAIN Tail(ready) : \E j \in DOMAIN ready : Tail(ready)[i] = ready[j]
<1> DEFINE s == Head(ready).session
           now == Submittable(pendingTurn, prmTasks, s, FALSE)
<1>1. PICK order \in InTurnOrder(now) :
        /\ ready # <<>> /\ Head(ready).kind = "prmDone"
        /\ pendingTurn' = WithoutTurns(pendingTurn, s, now)
        /\ ready' = Tail(ready) \o SubmitCalls(pendingTurn, prmTasks, s, order)
  BY DEF RunPrmDone
<1>2. now \in SUBSET Turns /\ \A n \in now : pendingTurn[s][n] # NoTurn
  BY DEF Submittable
<1>3. /\ ready \in Seq(Callbacks) /\ Tail(ready) \in Seq(Callbacks)
      /\ DOMAIN ready = 1..Len(ready) /\ Len(ready) \in Nat \ {0} /\ Head(ready) = ready[1]
      /\ DOMAIN Tail(ready) = 1..Len(ready) - 1
      /\ \A i \in 1..Len(ready) - 1 : Tail(ready)[i] = ready[i + 1]
  BY <1>1, Tables, EmptySeq, LenProperties, HeadTailProperties
<1>4. s \in Sessions /\ Head(ready).uid = None
  <2>1. 1 \in DOMAIN ready /\ ready[1] \in Callbacks
    BY <1>3, ElementOfSeq
  <2> QED
    BY <1>1, <1>3, <2>1 DEF Callbacks, Plain
<1>5. pendingTurn \in Pends /\ prmTasks \in TaskTables /\ \E X : Tail(ready) \in Seq(X)
  BY <1>3, Tables
<1>6. ASSUME NEW u \in Requests, NEW b \in BOOLEAN
      PROVE  InQueue(Tail(ready), u, b) <=> InQueue(ready, u, b)
  <2>1. u # None
    BY DEF Requests, None
  <2>2. ASSUME NEW i \in DOMAIN ready, ready[i].uid = u
        PROVE  i - 1 \in DOMAIN Tail(ready) /\ Tail(ready)[i - 1] = ready[i]
    <3>1. i # 1
      BY <1>3, <1>4, <2>1, <2>2
    <3> QED
      BY <1>3, <3>1
  <2>3. \A i \in DOMAIN Tail(ready) : i + 1 \in DOMAIN ready
    BY <1>3
  <2> QED
    BY <1>3, <2>2, <2>3 DEF InQueue
<1>7. \A i \in DOMAIN Tail(ready) : \E j \in DOMAIN ready : Tail(ready)[i] = ready[j]
  <2>1. \A i \in DOMAIN Tail(ready) : i + 1 \in DOMAIN ready
    BY <1>3
  <2> QED
    BY <1>3, <2>1
<1> HIDE DEF now, s
<1>8. Sends(pendingTurn, Tail(ready), pendingTurn', ready')
  BY <1>1, <1>2, <1>4, <1>5, SubmissionSends
<1>9. QED
  BY <1>6, <1>7, <1>8

\* A main request opens its turn, and the flushed one is not submitted yet.
LEMMA MainSends ==
  ASSUME IInv, NEW r \in inflight, RespondMain(r)
  PROVE  LET s == r.session
             turn == turnCounts[s] + 1
             new == [uid |-> r.id, hasNext |-> FALSE]
             pend == [FlushTurns(s) EXCEPT ![s][turn] = new]
         IN  /\ s \in Sessions /\ turn \in Turns /\ new # NoTurn
             /\ \A x \in Sessions, n \in Turns :
                  pend[x][n] = IF x = s /\ n = turn THEN new ELSE FlushTurns(s)[x][n]
             /\ Sends(pend, ready, pendingTurn', ready')
             /\ Fires(s) => pendingTurn'[s][pendingRecord[s].turn] = pend[s][pendingRecord[s].turn]
<1> DEFINE s == r.session
           turn == turnCounts[s] + 1
           tasks == FlushTasks(s)
           flushed == FlushTurns(s)
           new == [uid |-> r.id, hasNext |-> FALSE]
           pend == [flushed EXCEPT ![s][turn] = new]
           now == Submittable(pend, tasks, s, FALSE)
           pend2 == WithoutTurns(pend, s, now)
           tasks2 == WithoutTasks(tasks, s, now)
           rest == IF r.done THEN Submittable(pend2, tasks2, s, TRUE) ELSE {}
<1>1. PICK order \in InTurnOrder(now), orderRest \in InTurnOrder(rest) :
        ready' = (ready \o SubmitCalls(pend, tasks, s, order))
                   \o SubmitCalls(pend2, tasks2, s, orderRest)
  BY DEF RespondMain
<1>2. turn \in Turns /\ pendingTurn' = WithoutTurns(pend2, s, rest)
  BY DEF RespondMain
<1>3. s \in Sessions /\ r.id \in Requests
  BY Tables
<1>4. /\ now \in SUBSET Turns /\ \A n \in now : pend[s][n] # NoTurn
      /\ rest \in SUBSET Turns /\ \A n \in rest : pend2[s][n] # NoTurn
      /\ PrmEnabled => \A n \in now : tasks[s][n] # None => verdict[tasks[s][n]] # NoScore
      /\ PrmEnabled => \A n \in rest : tasks2[s][n] # None => verdict[tasks2[s][n]] # NoScore
  BY DEF Submittable
<1> HIDE DEF s, rest, now
<1>5. flushed \in Pends /\ tasks \in TaskTables
  BY <1>3, FlushTables
<1>6. Fires(s) => /\ pendingRecord[s].turn \in Turns
                  /\ tasks[s][pendingRecord[s].turn] # None
                  /\ verdict[tasks[s][pendingRecord[s].turn]] = NoScore
  BY <1>3, FlushedAt
<1> HIDE DEF tasks, flushed, turn
<1>7. new \in TurnData /\ new # NoTurn
  BY <1>3 DEF TurnData, NoTurn, None, Requests
<1> HIDE DEF new
<1>8. /\ pend \in Pends
      /\ \A x \in Sessions, n \in Turns :
           pend[x][n] = IF x = s /\ n = turn THEN new ELSE flushed[x][n]
  BY <1>2, <1>3, <1>5, <1>7 DEF Pends
<1> HIDE DEF pend
<1>9. /\ pend2 \in Pends /\ tasks2 \in TaskTables
      /\ \A x \in Sessions, n \in Turns :
           /\ pend2[x][n] = IF x = s /\ n \in now THEN NoTurn ELSE pend[x][n]
           /\ tasks2[x][n] = IF x = s /\ n \in now THEN None ELSE tasks[x][n]
  BY <1>3, <1>4, <1>5, <1>8, SubmittedAt
<1> DEFINE mid == ready \o SubmitCalls(pend, tasks, s, order)
<1>10. (\E X : mid \in Seq(X)) /\ Sends(pend, ready, pend2, mid)
  <2>1. \E X : ready \in Seq(X)
    BY Tables
  <2> QED
    BY <1>1, <1>3, <1>4, <1>5, <1>8, <2>1, SubmissionSends
<1> HIDE DEF pend2, tasks2
<1>11. Sends(pend2, mid, pendingTurn', ready')
  <2>1. ready' = mid \o SubmitCalls(pend2, tasks2, s, orderRest)
    BY <1>1
  <2> HIDE DEF mid
  <2> QED
    BY <1>1, <1>2, <1>3, <1>4, <1>9, <1>10, <2>1, SubmissionSends
<1> HIDE DEF mid
<1>12. Sends(pend, ready, pendingTurn', ready')
  BY <1>10, <1>11, SendsTwice
<1>13. \A n \in Turns : n \notin rest => pendingTurn'[s][n] = pend2[s][n]
  BY <1>2, <1>3, <1>4, <1>9, SubmittedAt
<1>14. ASSUME Fires(s)
       PROVE  pendingTurn'[s][pendingRecord[s].turn] = pend[s][pendingRecord[s].turn]
  <2>1. pendingRecord[s].turn \notin now
    BY <1>4, <1>6, <1>14 DEF Fires
  <2>2. tasks2[s][pendingRecord[s].turn] = tasks[s][pendingRecord[s].turn]
    BY <1>3, <1>6, <1>9, <1>14, <2>1
  <2>3. pendingRecord[s].turn \notin rest
    BY <1>4, <1>6, <1>14, <2>2 DEF Fires
  <2> QED
    BY <1>3, <1>6, <1>9, <1>13, <1>14, <2>1, <2>3
<1>15. QED
  BY <1>2, <1>3, <1>7, <1>8, <1>12, <1>14 DEF s, turn, new, pend, flushed

LEMMA MainLife ==
  ASSUME IInv, IInv', Orderly, NEW r \in inflight, RespondMain(r)
  PROVE  Life!Next
<1> DEFINE s == r.session
           turn == turnCounts[s] + 1
           new == [uid |-> r.id, hasNext |-> FALSE]
           pend == [FlushTurns(s) EXCEPT ![s][turn] = new]
           rec == pendingRecord[s]
<1>1. /\ s \in Sessions /\ turn \in Turns /\ new # NoTurn
      /\ \A x \in Sessions, n \in Turns :
           pend[x][n] = IF x = s /\ n = turn THEN new ELSE FlushTurns(s)[x][n]
      /\ Sends(pend, ready, pendingTurn', ready')
      /\ Fires(s) => pendingTurn'[s][rec.turn] = pend[s][rec.turn]
  BY MainSends
<1>2. /\ samples' = samples /\ turned' = turned \cup {r.id}
      /\ r.id \in Requests /\ r.id \notin turned
  BY Tables DEF RespondMain, IInv, Ids
<1>3. new.uid = r.id /\ new.hasNext = FALSE
  OBVIOUS
<1> HIDE DEF pend, new
<1>4. \A x \in Sessions, n \in Turns :
        \/ x = s /\ n = turn /\ pend[x][n] = new
        \/ ~(x = s /\ n = turn) /\ pend[x][n] = pendingTurn[x][n]
        \/ /\ ~(x = s /\ n = turn) /\ Fires(s) /\ x = s /\ n = rec.turn
           /\ pendingTurn[x][n] # NoTurn /\ pend[x][n] # NoTurn
           /\ pend[x][n].uid = pendingTurn[x][n].uid /\ pend[x][n].hasNext = TRUE
           /\ pendingTurn'[x][n] = pend[x][n]
  <2>1. \A x \in Sessions, n \in Turns :
          \/ FlushTurns(s)[x][n] = pendingTurn[x][n]
          \/ /\ Fires(s) /\ x = s /\ n = pendingRecord[s].turn /\ pendingTurn[x][n] # NoTurn
             /\ FlushTurns(s)[x][n] # NoTurn
             /\ FlushTurns(s)[x][n].uid = pendingTurn[x][n].uid
             /\ FlushTurns(s)[x][n].hasNext = TRUE
    <3> HIDE DEF s
    <3> QED
      BY <1>1, FlushedTurnsAt, Zenon
  <2> QED
    BY <1>1, <2>1
<1>5. StageOf(r.id) = "none" /\ StageOf(r.id)' \in {"waiting", "dueUnjudged"}
  <2>1. pend[s][turn] = new
    BY <1>1
  <2>2. pendingTurn'[s][turn] = new \/ InQueue(ready', r.id, FALSE)
    BY <1>1, <1>3, <2>1 DEF Sends
  <2>3. CASE pendingTurn'[s][turn] = new
    <3> HIDE DEF s, turn
    <3>1. InTable(pendingTurn', r.id, FALSE)
      BY <1>1, <1>3, <2>3 DEF InTable
    <3> QED
      BY <1>2, <3>1, StageIs, StageIsNext DEF Staged
  <2>4. CASE InQueue(ready', r.id, FALSE)
    BY <1>2, <2>4, StageIs, StageIsNext DEF Staged
  <2> QED
    BY <2>2, <2>3, <2>4
<1>6. Disciplined => pendingTurn[s][turn] = NoTurn
  <2>1. turnCounts[s] \in Nat
    BY <1>1, Tables
  <2>2. Disciplined => s \notin closed
    BY DEF Orderly, Sequential
  <2> QED
    BY <1>1, <2>1, <2>2 DEF Orderly, Numbered
<1>7. ASSUME NEW u \in Requests \ {r.id} PROVE Moves(u, ~Disciplined)
  <2>1. CASE u \notin turned
    <3>1. StageOf(u) = "none" /\ StageOf(u)' = "none"
      BY <1>2, <1>7, <2>1, StageIs, StageIsNext DEF Staged
    <3> QED
      BY <3>1 DEF Moves
  <2>2. CASE u \in turned
    <3>1. \A b \in BOOLEAN : InQueue(ready, u, b) => InQueue(ready, u, b)'
      BY <1>1 DEF Sends
    <3>2. ASSUME NEW b \in BOOLEAN, InQueue(ready, u, b)'
          PROVE  InQueue(ready, u, b) \/ InTable(pendingTurn, u, b)
      <4>1. CASE InTable(pend, u, b)
        <5>1. PICK x \in Sessions, n \in Turns :
                pend[x][n] # NoTurn /\ pend[x][n].uid = u /\ pend[x][n].hasNext = b
          BY <4>1 DEF InTable
        <5>2. pendingTurn'[x][n] # pend[x][n]
          <6>1. u # None
            BY DEF Requests, None
          <6>2. u \in UidsOf(ready')
            BY <3>2, <6>1 DEF InQueue, UidsOf
          <6>3. u \notin UidsIn(pendingTurn')
            BY <6>2 DEF IInv, Once
          <6> QED
            BY <5>1, <6>1, <6>3 DEF UidsIn
        <5>3. pend[x][n] = pendingTurn[x][n]
          BY <1>3, <1>4, <1>7, <5>1, <5>2
        <5> QED
          BY <5>1, <5>3 DEF InTable
      <4>2. QED
        BY <1>1, <3>2, <4>1 DEF Sends
    <3>3. ASSUME NEW b \in BOOLEAN, InTable(pendingTurn, u, b)'
          PROVE  InTable(pendingTurn, u, b) \/ (b /\ InTable(pendingTurn, u, FALSE))
      <4>1. PICK x \in Sessions, n \in Turns :
              pend[x][n] # NoTurn /\ pend[x][n].uid = u /\ pend[x][n].hasNext = b
        BY <1>1, <3>3 DEF InTable, Sends
      <4>2. \/ pend[x][n] = pendingTurn[x][n]
            \/ pendingTurn[x][n] # NoTurn /\ pendingTurn[x][n].uid = u /\ b
        BY <1>3, <1>4, <1>7, <4>1
      <4>3. pendingTurn[x][n].hasNext \in BOOLEAN
        <5>1. pendingTurn[x][n] \in TurnData
          BY Tables DEF Pends
        <5> QED
          BY <5>1, TurnKinds
      <4> QED
        BY <4>1, <4>2, <4>3 DEF InTable
    <3>4. ASSUME NEW b \in BOOLEAN, InTable(pendingTurn, u, b)
          PROVE  \/ InTable(pendingTurn, u, b)' \/ InQueue(ready, u, b)'
                 \/ ~b /\ InTable(pendingTurn, u, TRUE)'
                 \/ ~Disciplined
      <4>1. PICK x \in Sessions, n \in Turns :
              /\ pendingTurn[x][n] # NoTurn /\ pendingTurn[x][n].uid = u
              /\ pendingTurn[x][n].hasNext = b
        BY <3>4 DEF InTable
      <4>2. CASE x = s /\ n = turn
        BY <1>6, <4>1, <4>2
      <4>3. CASE ~(x = s /\ n = turn) /\ pend[x][n] = pendingTurn[x][n]
        <5>1. pendingTurn'[x][n] = pend[x][n] \/ InQueue(ready', u, b)
          BY <1>1, <4>1, <4>3 DEF Sends
        <5> QED
          BY <4>1, <4>3, <5>1 DEF InTable
      <4>4. CASE /\ pend[x][n] # NoTurn /\ pend[x][n].uid = u /\ pend[x][n].hasNext = TRUE
                 /\ pendingTurn'[x][n] = pend[x][n]
        <5>1. InTable(pendingTurn, u, TRUE)'
          BY <4>4 DEF InTable
        <5> QED
          BY <5>1
      <4> QED
        BY <1>4, <4>1, <4>2, <4>3, <4>4
    <3>5. u \in turned'
      BY <1>2, <2>2
    <3>6. (~Disciplined) \in BOOLEAN
      OBVIOUS
    <3> QED
      BY <1>2, <2>2, <3>1, <3>2, <3>3, <3>4, <3>5, <3>6, TurnMoves
  <2> QED
    BY <2>1, <2>2
<1>8. QED
  BY <1>2, <1>5, <1>7, LifeOpens

LEMMA EmptyLife ==
  ASSUME IInv, IInv', NEW r \in inflight, RespondEmpty(r)
  PROVE  Life!Next
<1> DEFINE s == r.session
<1>1. /\ s \in Sessions /\ pendingTurn' = FlushTurns(s)
      /\ samples' = samples /\ turned' = turned /\ ready' = ready
  BY Tables DEF RespondEmpty, sampleVars
<1> HIDE DEF s
<1>2. \A x \in Sessions, n \in Turns :
        \/ pendingTurn'[x][n] = pendingTurn[x][n]
        \/ /\ pendingTurn[x][n] # NoTurn /\ pendingTurn'[x][n] # NoTurn
           /\ pendingTurn'[x][n].uid = pendingTurn[x][n].uid
           /\ pendingTurn'[x][n].hasNext = TRUE
  <2>1. \A x \in Sessions, n \in Turns :
          \/ FlushTurns(s)[x][n] = pendingTurn[x][n]
          \/ /\ Fires(s) /\ x = s /\ n = pendingRecord[s].turn /\ pendingTurn[x][n] # NoTurn
             /\ FlushTurns(s)[x][n] # NoTurn
             /\ FlushTurns(s)[x][n].uid = pendingTurn[x][n].uid
             /\ FlushTurns(s)[x][n].hasNext = TRUE
    BY <1>1, FlushedTurnsAt, Zenon
  <2> QED
    BY <1>1, <2>1
<1>3. \A x \in Sessions, n \in Turns : pendingTurn[x][n].hasNext \in BOOLEAN
  <2>1. \A x \in Sessions, n \in Turns : pendingTurn[x][n] \in TurnData
    BY Tables DEF Pends
  <2> QED
    BY <2>1, TurnKinds
<1>4. ASSUME NEW u \in Requests PROVE Moves(u, FALSE)
  <2>1. CASE u \notin turned
    <3>1. StageOf(u) = "none" /\ StageOf(u)' = "none"
      BY <1>1, <2>1, StageIs, StageIsNext DEF Staged
    <3> QED
      BY <3>1 DEF Moves
  <2>2. CASE u \in turned
    <3>1. \A b \in BOOLEAN : InQueue(ready, u, b)' <=> InQueue(ready, u, b)
      BY <1>1
    <3>2. \A b \in BOOLEAN : InTable(pendingTurn, u, b)' =>
            InTable(pendingTurn, u, b) \/ (b /\ InTable(pendingTurn, u, FALSE))
      BY <1>2, <1>3 DEF InTable
    <3>3. ASSUME NEW b \in BOOLEAN, InTable(pendingTurn, u, b)
          PROVE  InTable(pendingTurn, u, b)' \/ (~b /\ InTable(pendingTurn, u, TRUE)')
      <4>1. PICK x \in Sessions, n \in Turns :
              /\ pendingTurn[x][n] # NoTurn /\ pendingTurn[x][n].uid = u
              /\ pendingTurn[x][n].hasNext = b
        BY <3>3 DEF InTable
      <4>2. CASE pendingTurn'[x][n] = pendingTurn[x][n]
        BY <4>1, <4>2 DEF InTable
      <4>3. CASE /\ pendingTurn'[x][n] # NoTurn /\ pendingTurn'[x][n].uid = u
                 /\ pendingTurn'[x][n].hasNext = TRUE
        <5>1. InTable(pendingTurn, u, TRUE)'
          BY <4>3 DEF InTable
        <5> QED
          BY <5>1
      <4> QED
        BY <1>2, <4>1, <4>2, <4>3
    <3> QED
      BY <1>1, <2>2, <3>1, <3>2, <3>3, TurnMoves
  <2> QED
    BY <2>1, <2>2
<1>5. QED
  BY <1>4, LifeAdvances

LEMMA SubmitLife ==
  ASSUME IInv, IInv', Plain(ready), RunSubmit
  PROVE  Life!Next
<1> DEFINE call == Head(ready)
           sample == [index |-> nextIndex, session |-> call.session, uid |-> call.uid,
                      hasNext |-> call.hasNext, judge |-> call.judge,
                      score |-> call.score, trained |-> Trains(call)]
<1>1. /\ ready # <<>> /\ call.kind = "submit" /\ ready' = Tail(ready)
      /\ samples' = samples \cup {sample}
      /\ pendingTurn' = pendingTurn /\ turned' = turned
  BY DEF RunSubmit, requestVars, turnVars
<1>2. /\ DOMAIN ready = 1..Len(ready) /\ Len(ready) \in Nat \ {0} /\ call = ready[1]
      /\ DOMAIN Tail(ready) = 1..Len(ready) - 1
      /\ \A i \in 1..Len(ready) - 1 : Tail(ready)[i] = ready[i + 1]
  BY <1>1, Tables, EmptySeq, LenProperties, HeadTailProperties
<1>3. 1 \in DOMAIN ready /\ call \in Callbacks
  BY <1>2, Tables, ElementOfSeq
<1>4. call.uid \in Requests /\ call.hasNext \in BOOLEAN
  BY <1>1, <1>2, <1>3 DEF Callbacks, IInv, Once, Distinct
<1> PICK t \in Requests : t = call.uid
  BY <1>4
<1>5. /\ sample.uid = t /\ sample.trained = Trains(call)
      /\ Trains(call) \in BOOLEAN
      /\ (Trains(call) => call.hasNext)
  BY <1>4 DEF Trains
<1> HIDE DEF sample
<1>6. StageOf(t) = IF call.hasNext THEN "dueJudged" ELSE "dueUnjudged"
  <2>1. InQueue(ready, t, call.hasNext)
    BY <1>2, <1>3 DEF InQueue
  <2> QED
    BY <1>4, <2>1, StageIs DEF Staged
<1> HIDE DEF call
<1>7. sample \in samples'
  BY <1>1
<1>8. ASSUME NEW u \in Requests \ {t} PROVE StageOf(u)' = StageOf(u)
  <2>1. \A b \in BOOLEAN : Sampled(u, b)' <=> Sampled(u, b)
    BY <1>1, <1>5 DEF Sampled
  <2>2. ASSUME NEW b \in BOOLEAN PROVE InQueue(ready, u, b)' <=> InQueue(ready, u, b)
    <3>1. ASSUME NEW i \in DOMAIN ready, ready[i].uid = u
          PROVE  i - 1 \in DOMAIN Tail(ready) /\ Tail(ready)[i - 1] = ready[i]
      <4>1. i # 1
        BY <1>2, <3>1
      <4> QED
        BY <1>2, <4>1
    <3>2. \A i \in DOMAIN Tail(ready) : i + 1 \in DOMAIN ready
      BY <1>2
    <3> QED
      BY <1>1, <1>2, <3>1, <3>2 DEF InQueue
  <2>3. \A b \in BOOLEAN : InTable(pendingTurn, u, b)' <=> InTable(pendingTurn, u, b)
    BY <1>1
  <2> QED
    BY <1>1, <2>1, <2>2, <2>3, SameStage
<1>9. CASE Trains(call)
  <2>1. Sampled(t, TRUE)'
    BY <1>5, <1>7, <1>9 DEF Sampled
  <2>2. StageOf(t)' = "trained"
    BY <2>1, StageIsNext DEF Staged
  <2> QED
    BY <1>5, <1>6, <1>8, <1>9, <2>2, LifeSamples
<1>10. CASE ~Trains(call)
  <2>1. Sampled(t, FALSE)'
    BY <1>5, <1>7, <1>10 DEF Sampled
  <2>2. StageOf(t)' = "masked"
    BY <2>1, StageIsNext DEF Staged
  <2> QED
    BY <1>4, <1>6, <1>8, <2>2, LifeSamples
<1>11. QED
  BY <1>9, <1>10

LEMMA SideLife ==
  ASSUME IInv, IInv', NEW r \in inflight, RespondSide(r)
  PROVE  Life!Next
<1>1. Sends(pendingTurn, ready, pendingTurn', ready')
  BY SideSends
<1>2. samples' = samples /\ turned' = turned
  BY DEF RespondSide
<1>3. \A u \in Requests : Moves(u, FALSE)
  BY <1>1, <1>2, SubmissionMoves
<1>4. QED
  BY <1>3, LifeAdvances

LEMMA DoneLife ==
  ASSUME IInv, IInv', Plain(ready), RunPrmDone
  PROVE  Life!Next
<1> DEFINE q == Tail(ready)
<1>1. /\ Sends(pendingTurn, q, pendingTurn', ready')
      /\ \A u \in Requests, b \in BOOLEAN : InQueue(q, u, b) <=> InQueue(ready, u, b)
  BY DoneSends
<1>2. samples' = samples /\ turned' = turned
  BY DEF RunPrmDone, requestVars, sampleVars
<1> HIDE DEF q
<1>3. \A u \in Requests : Moves(u, FALSE)
  BY <1>1, <1>2, SubmissionMoves
<1>4. QED
  BY <1>3, LifeAdvances

\* A step that moves no turn.
LEMMA QuietLife ==
  ASSUME IInv, IInv', samples' = samples, turned' = turned, pendingTurn' = pendingTurn,
         \A u \in Requests, b \in BOOLEAN : InQueue(ready', u, b) <=> InQueue(ready, u, b)
  PROVE  UNCHANGED Stages
<1>1. ASSUME NEW u \in Requests PROVE StageOf(u)' = StageOf(u)
  <2>1. \A b \in BOOLEAN : Sampled(u, b)' <=> Sampled(u, b)
    BY DEF Sampled
  <2>2. \A b \in BOOLEAN : InTable(pendingTurn, u, b)' <=> InTable(pendingTurn, u, b)
    OBVIOUS
  <2> QED
    BY <2>1, <2>2, SameStage
<1>2. QED
  BY <1>1 DEF Stages

LEMMA FinishQuiet ==
  ASSUME IInv, NEW t \in prmRunning, PrmFinish(t)
  PROVE  /\ samples' = samples /\ turned' = turned /\ pendingTurn' = pendingTurn
         /\ \A u \in Requests, b \in BOOLEAN : InQueue(ready', u, b) <=> InQueue(ready, u, b)
         /\ Plain(ready) => Plain(ready')
<1> DEFINE call == PrmDoneCall(t.session)
<1>1. /\ samples' = samples /\ turned' = turned /\ pendingTurn' = pendingTurn
      /\ ready' = Append(ready, call)
  BY DEF PrmFinish, requestVars, sampleVars
<1>2. call.uid = None
  BY DEF PrmDoneCall
<1> HIDE DEF call
<1>3. /\ Len(ready) \in Nat /\ DOMAIN ready = 1..Len(ready)
      /\ DOMAIN ready' = 1..Len(ready) + 1
      /\ \A i \in 1..Len(ready) : ready'[i] = ready[i]
      /\ ready'[Len(ready) + 1] = call
  BY <1>1, Tables, LenProperties, AppendProperties
<1>4. ASSUME NEW u \in Requests, NEW b \in BOOLEAN
      PROVE  InQueue(ready', u, b) <=> InQueue(ready, u, b)
  <2>1. u # None
    BY DEF Requests, None
  <2>2. \A i \in DOMAIN ready : i \in DOMAIN ready'
    BY <1>3
  <2>3. \A i \in DOMAIN ready' : ready'[i].uid = u => i \in DOMAIN ready
    BY <1>2, <1>3, <2>1
  <2> QED
    BY <1>3, <2>2, <2>3 DEF InQueue
<1>5. Plain(ready) => Plain(ready')
  BY <1>2, <1>3 DEF Plain
<1>6. QED
  BY <1>1, <1>4, <1>5

-----------------------------------------------------------------------------
(* The refinement *)

LEMMA NextPlain ==
  ASSUME IInv, Plain(ready), [Next]_vars
  PROVE  Plain(ready')
<1>1. ASSUME NEW pend, NEW q, NEW pend2, Sends(pend, q, pend2, ready'), Plain(q)
      PROVE  Plain(ready')
  BY <1>1 DEF Sends, Plain
<1>2. ASSUME NEW r \in inflight, RespondMain(r) PROVE Plain(ready')
  <2> DEFINE pend == [FlushTurns(r.session) EXCEPT
                        ![r.session][turnCounts[r.session] + 1] = [uid |-> r.id, hasNext |-> FALSE]]
  <2>1. Sends(pend, ready, pendingTurn', ready')
    BY <1>2, MainSends
  <2> HIDE DEF pend
  <2> QED
    BY <1>1, <2>1
<1>3. ASSUME NEW r \in inflight, RespondSide(r) PROVE Plain(ready')
  BY <1>1, <1>3, SideSends
<1>4. CASE RunPrmDone
  <2> DEFINE q == Tail(ready)
  <2>1. Sends(pendingTurn, q, pendingTurn', ready') /\ Plain(q)
    BY <1>4, DoneSends DEF Plain
  <2> HIDE DEF q
  <2> QED
    BY <1>1, <2>1
<1>5. CASE RunSubmit
  <2>1. ready # <<>> /\ ready' = Tail(ready)
    BY <1>5 DEF RunSubmit
  <2>2. /\ DOMAIN ready = 1..Len(ready) /\ Len(ready) \in Nat \ {0}
        /\ DOMAIN Tail(ready) = 1..Len(ready) - 1
        /\ \A i \in 1..Len(ready) - 1 : Tail(ready)[i] = ready[i + 1]
    BY <2>1, Tables, EmptySeq, LenProperties, HeadTailProperties
  <2>3. \A i \in DOMAIN Tail(ready) : i + 1 \in DOMAIN ready
    BY <2>2
  <2> QED
    BY <2>1, <2>2, <2>3 DEF Plain
<1>6. ASSUME NEW t \in prmRunning, PrmFinish(t) PROVE Plain(ready')
  BY <1>6, FinishQuiet
<1>7. CASE UNCHANGED ready
  BY <1>7
<1>8. QED
  BY <1>2, <1>3, <1>4, <1>5, <1>6, <1>7
  DEF Next, ServerNext, WorkerNext, Accept, SglangFails, RespondEmpty, Put,
      Resume, Pause, ClearEvalScores, Take, vars

LEMMA InitLife == Init => Life!Init /\ Plain(ready)
<1> SUFFICES ASSUME Init PROVE Life!Init /\ Plain(ready)
  OBVIOUS
<1>1. ASSUME NEW u \in Requests PROVE StageOf(u) = "none"
  BY DEF Init, StageOf, PendingAt
<1>2. QED
  BY <1>1 DEF Init, Life!Init, Plain

LEMMA NextLife ==
  ASSUME IInv, IInv', Orderly, Plain(ready), [Next]_vars
  PROVE  [Life!Next]_Stages
<1>1. ASSUME samples' = samples, turned' = turned, pendingTurn' = pendingTurn, ready' = ready
      PROVE  UNCHANGED Stages
  BY <1>1, QuietLife
<1>2. ASSUME NEW r \in inflight, RespondMain(r) PROVE Life!Next
  BY <1>2, MainLife
<1>3. ASSUME NEW r \in inflight, RespondEmpty(r) PROVE Life!Next
  BY <1>3, EmptyLife
<1>4. ASSUME NEW r \in inflight, RespondSide(r) PROVE Life!Next
  BY <1>4, SideLife
<1>5. CASE RunPrmDone
  BY <1>5, DoneLife
<1>6. CASE RunSubmit
  BY <1>6, SubmitLife
<1>7. ASSUME NEW t \in prmRunning, PrmFinish(t) PROVE UNCHANGED Stages
  BY <1>7, FinishQuiet, QuietLife
<1>8. CASE \/ \E s \in Sessions, main, done \in BOOLEAN : Accept(s, main, done)
           \/ \E r \in inflight : SglangFails(r)
           \/ \E x \in putting : Put(x)
           \/ WorkerNext
           \/ UNCHANGED vars
  BY <1>1, <1>8 DEF Accept, SglangFails, Failed, Put, WorkerNext, Resume, Pause,
                    ClearEvalScores, Take, vars, requestVars, turnVars, sampleVars
<1>9. QED
  BY <1>2, <1>3, <1>4, <1>5, <1>6, <1>7, <1>8 DEF Next, ServerNext

\* The proxy implements TurnLife: whatever sessions, tasks and callbacks do, a
\* turn only goes through the stages TurnLife allows.  Nothing unjudged trains,
\* nothing is sampled twice or goes back, and with session ids used once
\* nothing is lost (openjordy_api_server.py:432-636).
THEOREM ServerImplementsTurnLife == Spec => LifeSpec
<1> DEFINE P == Plain(ready)
<1>1. Init => Life!Init /\ P
  BY InitLife
<1>2. IInv /\ P /\ [Next]_vars => P'
  BY NextPlain
<1>3. IInv /\ IInv' /\ Orderly /\ P /\ [Next]_vars => [Life!Next]_Stages
  BY NextLife
<1>4. Spec => []IInv /\ []Orderly
  BY ServerSafe, ServerSessions, PTL
<1> HIDE DEF P
<1>5. Spec => []P
  BY <1>1, <1>2, <1>4, PTL DEF Spec
<1>6. IInv /\ IInv' /\ Orderly /\ P /\ [Next]_vars =>
        [Life!Next]_[u \in Requests |-> StageOf(u)]
  BY <1>3 DEF Stages
<1>7. QED
  BY <1>1, <1>4, <1>5, <1>6, PTL DEF Spec, LifeSpec, Life!Spec

\* While session ids are used once no main turn disappears: each is pending,
\* scheduled or a sample, as the class docstring says.
THEOREM DisciplinedTurnsAreKept == Spec => [](Disciplined => NoTurnLost)
<1> DEFINE Kept == Disciplined => \A u \in Requests : StageOf(u) # "lost"
<1>1. Life!Init => Kept
  BY DEF Life!Init
<1>2. Kept /\ [Life!Next]_[u \in Requests |-> StageOf(u)] => Kept'
  <2> SUFFICES ASSUME Kept, [Life!Next]_[u \in Requests |-> StageOf(u)], Disciplined,
                      NEW u \in Requests
               PROVE  StageOf(u)' # "lost"
    OBVIOUS
  <2>1. [x \in Requests |-> StageOf(x)]'[u] = StageOf(u)'
    OBVIOUS
  <2>2. StageOf(u) # "lost"
    OBVIOUS
  <2>3. \A a \in Life!Advances : a[2] # "lost"
    BY DEF Life!Advances
  <2>4. CASE Life!Advance
    BY <2>2, <2>3, <2>4 DEF Life!Advance, Life!Others
  <2>5. ASSUME NEW t \in Requests, Life!Open(t) PROVE StageOf(u)' # "lost"
    <3>1. CASE u = t
      BY <2>5, <3>1 DEF Life!Open
    <3>2. CASE u # t
      <4>1. StageOf(u)' = StageOf(u) \/ <<StageOf(u), StageOf(u)'>> \in Life!Advances
        BY <2>5, <3>2 DEF Life!Open, Life!Others
      <4> QED
        BY <2>2, <2>3, <4>1
    <3> QED
      BY <3>1, <3>2
  <2>6. ASSUME NEW t \in Requests, Life!Sample(t) PROVE StageOf(u)' # "lost"
    BY <2>2, <2>6 DEF Life!Sample
  <2>7. CASE UNCHANGED [x \in Requests |-> StageOf(x)]
    BY <2>1, <2>2, <2>7
  <2> QED
    BY <2>4, <2>5, <2>6, <2>7 DEF Life!Next
<1>3. IInv /\ Kept => (Disciplined => NoTurnLost)
  <2> SUFFICES ASSUME IInv, Kept, Disciplined, NEW u \in turned
               PROVE  u \in PendingUids \cup ReadyUids \cup SampledUids
    BY DEF NoTurnLost
  <2>1. u \in Requests /\ u # None
    BY DEF IInv, TypeOK, Requests, None
  <2>2. StageOf(u) \notin {"none", "lost"}
    BY <2>1, StageIs DEF Staged
  <2>3. \/ \E x \in samples : x.uid = u
        \/ \E i \in DOMAIN ready : ready[i].uid = u
        \/ \E s \in Sessions, n \in Turns : PendingAt(s, n, u)
    BY <2>2 DEF StageOf
  <2> QED
    BY <2>1, <2>3 DEF PendingAt, PendingUids, ReadyUids, SampledUids
<1> HIDE DEF Kept
<1>4. Spec => Life!Spec
  BY ServerImplementsTurnLife DEF LifeSpec
<1>5. QED
  BY <1>1, <1>2, <1>3, <1>4, ServerSafe, PTL DEF Life!Spec
=============================================================================
