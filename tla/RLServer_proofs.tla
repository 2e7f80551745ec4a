--------------------------- MODULE RLServer_proofs ---------------------------
(***************************************************************************)
(* Proofs about RLServer: for any number of sessions, requests and votes,  *)
(* with or without the PRM, recording and disciplined clients, a turn      *)
(* becomes at most one sample and trains on the verdict on itself.         *)
(*                                                                         *)
(* The inductive invariant IInv follows a uid on its way.  Handlers hold   *)
(* uids that nothing else has (Ids, Known); a pending turn that has a next *)
(* state has its own task under its number (Paired), which holds because a *)
(* buffered record matches the pending turn of its number or finds none    *)
(* (RecordsFit); and a verdict, once given, does not change, because a uid *)
(* is judged by one task only (OneJudge).                                  *)
(***************************************************************************)
EXTENDS RLServer, SequenceTheorems, FiniteSetTheorems, WellFoundedInduction, TLAPS

Pends == [Sessions -> [Turns -> TurnData]]
TaskTables == [Sessions -> [Turns -> Requests \cup {None}]]
VerdictTables == [Requests -> Scores \cup {NoScore}]

\* Tables of pending turns and of tasks.
UidsIn(pend) == {pend[s][n].uid : s \in Sessions, n \in Turns} \ {None}
Apart(pend) ==
  \A s1, s2 \in Sessions, n1, n2 \in Turns :
    pend[s1][n1] # NoTurn /\ pend[s1][n1].uid = pend[s2][n2].uid => s1 = s2 /\ n1 = n2
Paired(pend, tasks) ==
  \A s \in Sessions, n \in Turns : pend[s][n].hasNext => tasks[s][n] = pend[s][n].uid
Unused(tasks) == ~PrmEnabled => \A s \in Sessions, n \in Turns : tasks[s][n] = None

\* Sequences of callbacks.
UidsOf(q) == {q[i].uid : i \in DOMAIN q} \ {None}
Distinct(q) ==
  /\ \A i, j \in DOMAIN q : q[i].uid = q[j].uid /\ q[i].uid # None => i = j
  /\ \A i \in DOMAIN q : q[i].kind = "submit" \/ q[i].hasNext => q[i].uid # None
OwnVerdict(q) ==
  \A i \in DOMAIN q : q[i].hasNext => q[i].judge = q[i].uid /\ q[i].score = verdict[q[i].uid]

Ids ==
  /\ \A r \in inflight : r.id <= accepted /\ r.id \notin turned
  /\ \A r1, r2 \in inflight : r1.id = r2.id => r1 = r2
  /\ \A u \in turned : u <= accepted

Known ==
  /\ UidsIn(pendingTurn) \cup UidsOf(ready) \cup SampledUids \subseteq turned
  /\ \A t \in prmRunning : t.uid \in turned
  /\ \A s \in Sessions : pendingRecord[s] # NoRecord => pendingRecord[s].uid \in turned

Once ==
  /\ Apart(pendingTurn)
  /\ Distinct(ready)
  /\ UidsIn(pendingTurn) \cap (UidsOf(ready) \cup SampledUids) = {}
  /\ UidsOf(ready) \cap SampledUids = {}
  /\ \A x, y \in samples : x.uid = y.uid => x = y

RecordsFit ==
  \A s \in Sessions : pendingRecord[s] # NoRecord =>
    LET turn == pendingTurn[s][pendingRecord[s].turn]
    IN  turn = NoTurn \/ turn.uid = pendingRecord[s].uid

OneJudge ==
  /\ \A t \in prmRunning : verdict[t.uid] = NoScore
  /\ \A t1, t2 \in prmRunning : t1.uid = t2.uid => t1 = t2
  /\ \A s \in Sessions : pendingRecord[s] # NoRecord =>
       /\ verdict[pendingRecord[s].uid] = NoScore
       /\ \A t \in prmRunning : t.uid # pendingRecord[s].uid
       /\ \A s2 \in Sessions \ {s} : pendingRecord[s2].uid # pendingRecord[s].uid
  /\ \A u \in Requests \ turned : verdict[u] = NoScore

Rewards ==
  /\ OwnVerdict(ready)
  /\ \A x \in samples : x.hasNext => x.judge = x.uid /\ x.score = verdict[x.uid]
  /\ \A x \in samples : x.trained => x.hasNext

IInv ==
  /\ TypeOK
  /\ Ids
  /\ Known
  /\ Once
  /\ Paired(pendingTurn, prmTasks)
  /\ Unused(prmTasks)
  /\ RecordsFit
  /\ OneJudge
  /\ Rewards

-----------------------------------------------------------------------------
(* Sorted turns *)

\* Among finite sets one contains none of the others; this is what the proofs
\* about sorted sequences use in the place of an induction.
LEMMA MinimalSet ==
  ASSUME NEW S, NEW T, T \subseteq FiniteSubsetsOf(S), T # {}
  PROVE  \E x \in T : \A y \in T : y \subseteq x => y = x
<1>1. IsWellFoundedOn(StrictSubsetOrdering(S), FiniteSubsetsOf(S))
  BY FS_StrictSubsetOrderingWellFounded
<1>2. PICK x \in T : \A y \in T : ~(<<y, x>> \in StrictSubsetOrdering(S))
  BY <1>1, WFMin
<1>3. QED
  BY <1>2 DEF StrictSubsetOrdering, FiniteSubsetsOf

LEMMA GreatestNumber ==
  ASSUME NEW S \in SUBSET Nat, IsFiniteSet(S), S # {}
  PROVE  \E m \in S : \A n \in S : n <= m
<1> DEFINE Unbounded == {T \in FiniteSubsetsOf(S) : T # {} /\ ~\E m \in T : \A n \in T : n <= m}
<1> SUFFICES ASSUME Unbounded # {} PROVE FALSE
  BY DEF FiniteSubsetsOf
<1>1. PICK T \in Unbounded : \A U \in Unbounded : U \subseteq T => U = T
  <2>1. Unbounded \subseteq FiniteSubsetsOf(S)
    OBVIOUS
  <2> HIDE DEF Unbounded
  <2> QED
    BY <2>1, MinimalSet
<1>2. T \subseteq Nat /\ IsFiniteSet(T) /\ T # {}
  BY DEF FiniteSubsetsOf
<1>3. PICK x \in T : TRUE
  BY <1>2
<1>4. IsFiniteSet(T \ {x}) /\ T \ {x} \in SUBSET S /\ T \ {x} # T
  BY <1>2, <1>3, FS_RemoveElement DEF FiniteSubsetsOf
<1>5. T \ {x} \notin Unbounded
  BY <1>1, <1>4
<1>6. T \ {x} # {}
  BY <1>2, <1>3
<1>7. PICK m \in T \ {x} : \A n \in T \ {x} : n <= m
  BY <1>4, <1>5, <1>6 DEF FiniteSubsetsOf
<1>8. \E g \in T : \A n \in T : n <= g
  <2>1. CASE x <= m
    BY <1>7, <2>1
  <2>2. CASE m <= x
    <3>1. \A n \in T : n <= x
      BY <1>2, <1>3, <1>7, <2>2
    <3> QED
      BY <1>3, <3>1
  <2> QED
    BY <1>2, <1>3, <1>7, <2>1, <2>2
<1>9. QED
  BY <1>8

\* There is an order to submit any finite set of turns in.
LEMMA OrderExists ==
  ASSUME NEW S \in SUBSET Nat, IsFiniteSet(S)
  PROVE  InTurnOrder(S) # {}
<1> DEFINE Orderless == {T \in FiniteSubsetsOf(S) : InTurnOrder(T) = {}}
<1> SUFFICES ASSUME Orderless # {} PROVE FALSE
  BY DEF FiniteSubsetsOf
<1>1. PICK T \in Orderless : \A U \in Orderless : U \subseteq T => U = T
  <2>1. Orderless \subseteq FiniteSubsetsOf(S)
    OBVIOUS
  <2> HIDE DEF Orderless
  <2> QED
    BY <2>1, MinimalSet
<1>2. T \subseteq Nat /\ IsFiniteSet(T) /\ Cardinality(T) \in Nat
  BY FS_CardinalityType DEF FiniteSubsetsOf
<1>3. T # {}
  <2> SUFFICES ASSUME T = {} PROVE FALSE
    OBVIOUS
  <2>1. Cardinality(T) = 0
    BY FS_EmptySet
  <2> DEFINE q == [i \in 1..Cardinality(T) |-> i]
  <2>2. q \in [1..Cardinality(T) -> T] /\ DOMAIN q = {}
    BY <2>1
  <2>3. Range(q) = T
    BY <2>2 DEF Range
  <2>4. q \in InTurnOrder(T)
    BY <2>2, <2>3 DEF InTurnOrder
  <2> QED
    BY <2>4
<1>4. PICK m \in T : \A n \in T : n <= m
  BY <1>2, <1>3, GreatestNumber
<1> DEFINE U == T \ {m}
           n == Cardinality(T)
<1>5. IsFiniteSet(U) /\ Cardinality(U) = n - 1 /\ n \in Nat \ {0}
  <2>1. IsFiniteSet(U) /\ Cardinality(U) = n - 1
    BY <1>2, <1>4, FS_RemoveElement
  <2>2. Cardinality(U) \in Nat
    BY <2>1, FS_CardinalityType
  <2> QED
    BY <1>2, <2>1, <2>2
<1>6. U \in FiniteSubsetsOf(S) /\ U # T /\ U \subseteq T
  BY <1>4, <1>5 DEF FiniteSubsetsOf
<1>7. PICK g : g \in InTurnOrder(U)
  BY <1>1, <1>6
<1>8. /\ g \in [1..n - 1 -> U] /\ Range(g) = U
      /\ \A i, j \in 1..n - 1 : i < j => g[i] < g[j]
  BY <1>5, <1>7 DEF InTurnOrder
<1> DEFINE q == [i \in 1..n |-> IF i = n THEN m ELSE g[i]]
<1>9. \A i \in 1..n : i = n \/ i \in 1..n - 1
  BY <1>5
<1>10. q \in [1..n -> T]
  BY <1>4, <1>8, <1>9
<1>11. Range(q) = T
  <2>1. Range(q) \subseteq T
    BY <1>10 DEF Range
  <2>2. ASSUME NEW x \in T PROVE x \in Range(q)
    <3>1. CASE x = m
      BY <1>5, <3>1 DEF Range
    <3>2. CASE x # m
      <4>1. PICK i \in 1..n - 1 : g[i] = x
        BY <1>8, <3>2 DEF Range
      <4>2. i \in 1..n /\ q[i] = x
        BY <1>5, <4>1
      <4> QED
        BY <4>2 DEF Range
    <3> QED
      BY <3>1, <3>2
  <2> QED
    BY <2>1, <2>2
<1>12. \A i, j \in 1..n : i < j => q[i] < q[j]
  <2> SUFFICES ASSUME NEW i \in 1..n, NEW j \in 1..n, i < j PROVE q[i] < q[j]
    OBVIOUS
  <2>1. i \in 1..n - 1 /\ q[i] = g[i] /\ g[i] \in U
    BY <1>5, <1>8
  <2>2. CASE j = n
    <3>1. g[i] \in Nat /\ m \in Nat /\ g[i] # m /\ g[i] <= m
      BY <1>2, <1>4, <2>1
    <3> QED
      BY <2>1, <2>2, <3>1
  <2>3. CASE j # n
    BY <1>5, <1>8, <2>1, <2>3
  <2> QED
    BY <2>2, <2>3
<1>13. q \in InTurnOrder(T)
  BY <1>10, <1>11, <1>12 DEF InTurnOrder
<1>14. QED
  BY <1>13

-----------------------------------------------------------------------------
(* Turns, tasks and sequences of callbacks *)

\* What a member of TurnData is.
LEMMA TurnKinds ==
  ASSUME NEW d \in TurnData
  PROVE  /\ d.uid \in Requests \cup {None} /\ d.hasNext \in BOOLEAN
         /\ d # NoTurn => d.uid \in Requests /\ d.uid # None
         /\ d = NoTurn => d.uid = None /\ d.hasNext = FALSE
<1>1. NoTurn.uid = None /\ NoTurn.hasNext = FALSE
  BY DEF NoTurn
<1>2. CASE d \in [uid : Requests, hasNext : BOOLEAN]
  <2>1. d.uid \in Requests /\ d.uid # None /\ d.hasNext \in BOOLEAN
    BY <1>2 DEF Requests, None
  <2> QED
    BY <1>1, <2>1
<1>3. CASE d = NoTurn
  BY <1>1, <1>3
<1>4. QED
  BY <1>2, <1>3 DEF TurnData

\* What a member of Records is.
LEMMA RecordKinds ==
  ASSUME NEW d \in Records, d # NoRecord
  PROVE  d.turn \in Turns /\ d.uid \in Requests /\ d.uid # None
  BY DEF Records, NoRecord, Requests, None

\* Concatenation keeps uids apart when the parts do not share any.
LEMMA ConcatCalls ==
  ASSUME NEW p \in Seq(Callbacks), NEW q \in Seq(Callbacks),
         Distinct(p), Distinct(q), UidsOf(p) \cap UidsOf(q) = {}
  PROVE  /\ p \o q \in Seq(Callbacks)
         /\ Distinct(p \o q)
         /\ UidsOf(p \o q) \subseteq UidsOf(p) \cup UidsOf(q)
         /\ OwnVerdict(p) /\ OwnVerdict(q) => OwnVerdict(p \o q)
<1>1. /\ DOMAIN p = 1..Len(p) /\ Len(p) \in Nat
      /\ DOMAIN q = 1..Len(q) /\ Len(q) \in Nat
  BY LenProperties
<1>2. /\ p \o q \in Seq(Callbacks) /\ DOMAIN (p \o q) = 1..Len(p) + Len(q)
      /\ \A i \in 1..Len(p) + Len(q) :
           (p \o q)[i] = IF i <= Len(p) THEN p[i] ELSE q[i - Len(p)]
  BY ConcatProperties, LenProperties
<1>3. \A i \in DOMAIN (p \o q) :
        \/ i \in DOMAIN p /\ (p \o q)[i] = p[i]
        \/ i > Len(p) /\ i - Len(p) \in DOMAIN q /\ (p \o q)[i] = q[i - Len(p)]
  BY <1>1, <1>2
<1>4. UidsOf(p \o q) \subseteq UidsOf(p) \cup UidsOf(q)
  BY <1>3 DEF UidsOf
<1>5. Distinct(p \o q)
  <2>0. \A i \in DOMAIN (p \o q) :
          (p \o q)[i].kind = "submit" \/ (p \o q)[i].hasNext => (p \o q)[i].uid # None
    BY <1>3 DEF Distinct
  <2> SUFFICES ASSUME NEW i \in DOMAIN (p \o q), NEW j \in DOMAIN (p \o q),
                      (p \o q)[i].uid = (p \o q)[j].uid, (p \o q)[i].uid # None
               PROVE  i = j
    BY <2>0 DEF Distinct
  <2>1. CASE i \in DOMAIN p /\ (p \o q)[i] = p[i] /\ j \in DOMAIN p /\ (p \o q)[j] = p[j]
    BY <2>1 DEF Distinct
  <2>2. CASE /\ i > Len(p) /\ i - Len(p) \in DOMAIN q /\ (p \o q)[i] = q[i - Len(p)]
             /\ j > Len(p) /\ j - Len(p) \in DOMAIN q /\ (p \o q)[j] = q[j - Len(p)]
    <3>1. i - Len(p) = j - Len(p)
      BY <2>2 DEF Distinct
    <3> QED
      BY <1>1, <1>2, <3>1
  <2>3. CASE /\ i \in DOMAIN p /\ (p \o q)[i] = p[i]
             /\ j - Len(p) \in DOMAIN q /\ (p \o q)[j] = q[j - Len(p)]
    BY <2>3 DEF UidsOf
  <2>4. CASE /\ j \in DOMAIN p /\ (p \o q)[j] = p[j]
             /\ i - Len(p) \in DOMAIN q /\ (p \o q)[i] = q[i - Len(p)]
    BY <2>4 DEF UidsOf
  <2> QED
    BY <1>3, <2>1, <2>2, <2>3, <2>4
<1>6. OwnVerdict(p) /\ OwnVerdict(q) => OwnVerdict(p \o q)
  BY <1>3 DEF OwnVerdict
<1>7. QED
  BY <1>2, <1>4, <1>5, <1>6

\* What a run of _maybe_submit_ready_samples schedules has distinct uids, its rewards
\* are the verdicts on the very turns, and what is left pending shares no uid
\* with it and still has its own tasks.
LEMMA SubmitReady ==
  ASSUME NEW pend \in Pends, NEW tasks \in TaskTables,
         Apart(pend), Paired(pend, tasks), Unused(tasks), verdict \in VerdictTables,
         NEW s \in Sessions, NEW force,
         NEW S \in SUBSET Submittable(pend, tasks, s, force), NEW order \in InTurnOrder(S)
  PROVE  LET calls == SubmitCalls(pend, tasks, s, order)
             pend2 == WithoutTurns(pend, s, S)
             tasks2 == WithoutTasks(tasks, s, S)
         IN  /\ calls \in Seq(Callbacks) /\ Distinct(calls) /\ OwnVerdict(calls)
             /\ UidsOf(calls) \subseteq UidsIn(pend)
             /\ pend2 \in Pends /\ Apart(pend2)
             /\ UidsIn(pend2) \subseteq UidsIn(pend)
             /\ UidsIn(pend2) \cap UidsOf(calls) = {}
             /\ \A r \in Sessions, n \in Turns : pend2[r][n] \in {NoTurn, pend[r][n]}
             /\ tasks2 \in TaskTables /\ Paired(pend2, tasks2) /\ Unused(tasks2)
<1> DEFINE calls == SubmitCalls(pend, tasks, s, order)
           pend2 == WithoutTurns(pend, s, S)
           tasks2 == WithoutTasks(tasks, s, S)
<1>1. /\ S \subseteq Turns
      /\ \A n \in S : /\ pend[s][n] \in TurnData /\ pend[s][n] # NoTurn
                      /\ tasks[s][n] \in Requests \cup {None}
                      /\ tasks[s][n] # None => verdict[tasks[s][n]] \in Scores
  <2>1. \A n \in S : tasks[s][n] # None => verdict[tasks[s][n]] \in Scores
    BY DEF Submittable, Unused, TaskTables, VerdictTables
  <2> QED
    BY <2>1 DEF Submittable, Pends, TaskTables
<1>2. /\ Cardinality(S) \in Nat /\ order \in [1..Cardinality(S) -> S]
      /\ \A i, j \in 1..Cardinality(S) : order[i] = order[j] => i = j
  <2>1. Cardinality(S) \in Nat
    <3>1. IsFiniteSet(Turns)
      BY RequestsAssumption, FS_Interval DEF Turns
    <3> QED
      BY <1>1, <3>1, FS_Subset, FS_CardinalityType
  <2>2. /\ order \in [1..Cardinality(S) -> S]
        /\ \A i, j \in 1..Cardinality(S) : i < j => order[i] < order[j]
    BY DEF InTurnOrder
  <2>3. \A i \in 1..Cardinality(S) : order[i] \in Int
    <3>1. \A n \in S : n \in Int
      BY <1>1 DEF Turns
    <3> QED
      BY <2>2, <3>1
  <2> QED
    BY <2>1, <2>2, <2>3
<1>3. /\ DOMAIN calls = 1..Cardinality(S)
      /\ \A i \in 1..Cardinality(S) :
           calls[i] = SubmitCall(s, pend[s][order[i]], tasks[s][order[i]])
  BY <1>2 DEF SubmitCalls
<1>4. \A n \in S :
        LET call == SubmitCall(s, pend[s][n], tasks[s][n])
        IN  /\ call \in Callbacks
            /\ call.uid = pend[s][n].uid /\ call.hasNext = pend[s][n].hasNext
            /\ call.judge = tasks[s][n]
            /\ tasks[s][n] # None => call.score = verdict[tasks[s][n]]
  <2> TAKE n \in S
  <2>1. /\ pend[s][n].uid \in Requests \cup {None} /\ pend[s][n].hasNext \in BOOLEAN
        /\ tasks[s][n] \in Requests \cup {None}
    BY <1>1, TurnKinds
  <2>2. (IF tasks[s][n] = None THEN 0 ELSE verdict[tasks[s][n]]) \in Scores
    BY <1>1 DEF Scores
  <2> QED
    BY <2>1, <2>2 DEF SubmitCall, Callbacks
<1>5. calls \in Seq(Callbacks)
  <2>1. calls \in [1..Cardinality(S) -> Callbacks]
    BY <1>2, <1>3, <1>4 DEF SubmitCalls
  <2> QED
    BY <1>2, <2>1, SeqDef
<1>6. \A m, n \in S : pend[s][m].uid = pend[s][n].uid => m = n
  BY <1>1 DEF Apart
<1>7. Distinct(calls)
  <2>1. \A n \in S : pend[s][n].uid # None
    BY <1>1, TurnKinds
  <2> QED
    BY <1>2, <1>3, <1>4, <1>6, <2>1 DEF Distinct
<1>8. OwnVerdict(calls)
  <2>1. \A n \in S : pend[s][n].hasNext =>
          tasks[s][n] = pend[s][n].uid /\ tasks[s][n] # None
    BY <1>1, TurnKinds DEF Paired
  <2> QED
    BY <1>2, <1>3, <1>4, <2>1 DEF OwnVerdict
<1>9. UidsOf(calls) \subseteq UidsIn(pend)
  BY <1>1, <1>2, <1>3, <1>4 DEF UidsOf, UidsIn
<1>10. /\ pend2 \in Pends
       /\ \A r \in Sessions, n \in Turns :
            pend2[r][n] = IF r = s /\ n \in S THEN NoTurn ELSE pend[r][n]
  <2>1. NoTurn \in TurnData
    BY DEF TurnData
  <2> QED
    BY <2>1 DEF WithoutTurns, Pends
<1>11. /\ tasks2 \in TaskTables
       /\ \A r \in Sessions, n \in Turns :
            tasks2[r][n] = IF r = s /\ n \in S THEN None ELSE tasks[r][n]
  BY DEF WithoutTasks, TaskTables
<1>12. Apart(pend2) /\ UidsIn(pend2) \subseteq UidsIn(pend)
  <2>1. \A r \in Sessions, n \in Turns : pend2[r][n] = NoTurn \/ pend2[r][n] = pend[r][n]
    BY <1>10
  <2>2. NoTurn.uid = None
    BY DEF NoTurn
  <2>3. \A r \in Sessions, n \in Turns : pend[r][n] # NoTurn => pend[r][n].uid # None
    BY TurnKinds DEF Pends
  <2> QED
    BY <2>1, <2>2, <2>3 DEF Apart, UidsIn
<1>13. UidsIn(pend2) \cap UidsOf(calls) = {}
  <2> SUFFICES ASSUME NEW r \in Sessions, NEW n \in Turns, NEW i \in DOMAIN calls,
                      pend2[r][n].uid = calls[i].uid, calls[i].uid # None
               PROVE  FALSE
    BY DEF UidsIn, UidsOf
  <2>1. pend2[r][n] = pend[r][n] /\ ~(r = s /\ n \in S)
    BY <1>10 DEF NoTurn
  <2>2. order[i] \in S /\ order[i] \in Turns /\ calls[i].uid = pend[s][order[i]].uid
    BY <1>1, <1>2, <1>3, <1>4
  <2>3. pend[s][order[i]] # NoTurn
    BY <1>1, <2>2
  <2> QED
    BY <2>1, <2>2, <2>3 DEF Apart
<1>14. Paired(pend2, tasks2) /\ Unused(tasks2)
  <2>1. NoTurn.hasNext = FALSE
    BY DEF NoTurn
  <2> QED
    BY <1>10, <1>11, <2>1 DEF Paired, Unused
<1>15. QED
  BY <1>5, <1>7, <1>8, <1>9, <1>10, <1>11, <1>12, <1>13, <1>14

\* What a flush leaves in the tables: the same uids, and for the turn that
\* gets its next state the task that judges it.
LEMMA FlushTables ==
  ASSUME IInv, NEW s \in Sessions
  PROVE  /\ FlushTurns(s) \in Pends /\ FlushTasks(s) \in TaskTables
         /\ Apart(FlushTurns(s))
         /\ UidsIn(FlushTurns(s)) \subseteq UidsIn(pendingTurn)
         /\ Paired(FlushTurns(s), FlushTasks(s)) /\ Unused(FlushTasks(s))
         /\ \A r \in Sessions, n \in Turns :
              /\ FlushTurns(s)[r][n] = NoTurn <=> pendingTurn[r][n] = NoTurn
              /\ FlushTurns(s)[r][n].uid = pendingTurn[r][n].uid
<1> DEFINE rec == pendingRecord[s]
           pend == FlushTurns(s)
           tasks == FlushTasks(s)
<1>1. pendingTurn \in Pends /\ prmTasks \in TaskTables /\ rec \in Records
  BY DEF IInv, TypeOK, Pends, TaskTables
<1>2. CASE ~Fires(s)
  <2>1. pend = pendingTurn /\ tasks = prmTasks
    BY <1>2 DEF FlushTurns, FlushTasks
  <2> QED
    BY <1>1, <2>1 DEF IInv, Once
<1>3. CASE Fires(s)
  <2>1. rec.turn \in Turns /\ rec.uid \in Requests /\ PrmEnabled
    BY <1>1, <1>3, RecordKinds DEF Fires
  <2>2. /\ tasks \in TaskTables
        /\ \A r \in Sessions, n \in Turns :
             tasks[r][n] = IF r = s /\ n = rec.turn THEN rec.uid ELSE prmTasks[r][n]
    BY <1>1, <1>3, <2>1 DEF FlushTasks, TaskTables
  <2>3. /\ pend \in Pends
        /\ \A r \in Sessions, n \in Turns :
             /\ (r = s /\ n = rec.turn) \/ pend[r][n] = pendingTurn[r][n]
             /\ pend[r][n] = NoTurn <=> pendingTurn[r][n] = NoTurn
             /\ pend[r][n].uid = pendingTurn[r][n].uid
    <3>1. CASE pendingTurn[s][rec.turn] = NoTurn
      <4>1. pend = pendingTurn
        BY <3>1 DEF FlushTurns
      <4> QED
        BY <1>1, <4>1
    <3>2. CASE pendingTurn[s][rec.turn] # NoTurn
      <4> DEFINE old == pendingTurn[s][rec.turn]
                 new == [old EXCEPT !.hasNext = TRUE]
      <4>1. old \in [uid : Requests, hasNext : BOOLEAN]
        BY <1>1, <2>1, <3>2 DEF Pends, TurnData
      <4>2. new \in TurnData /\ new.uid = old.uid /\ new.uid # None
        <5>1. old.uid \in Requests /\ old.uid # None
          BY <4>1 DEF Requests, None
        <5>2. new \in [uid : Requests, hasNext : BOOLEAN]
          BY <4>1
        <5>3. new.uid = old.uid
          BY <4>1
        <5> QED
          BY <5>1, <5>2, <5>3 DEF TurnData
      <4>3. new # NoTurn
        BY <4>2 DEF NoTurn
      <4>4. pend = [pendingTurn EXCEPT ![s][rec.turn] = new]
        BY <1>1, <1>3, <2>1, <3>2 DEF FlushTurns, Pends
      <4>5. /\ pend \in Pends
            /\ \A r \in Sessions, n \in Turns :
                 pend[r][n] = IF r = s /\ n = rec.turn THEN new ELSE pendingTurn[r][n]
        BY <1>1, <2>1, <4>2, <4>4 DEF Pends
      <4> QED
        BY <3>2, <4>2, <4>3, <4>5
    <3> QED
      BY <3>1, <3>2
  <2>4. Apart(pend)
    BY <2>3 DEF IInv, Once, Apart
  <2>5. UidsIn(pend) \subseteq UidsIn(pendingTurn)
    BY <2>3 DEF UidsIn
  <2>6. Paired(pend, tasks)
    <3>1. pendingTurn[s][rec.turn] = NoTurn \/ pendingTurn[s][rec.turn].uid = rec.uid
      BY <1>3 DEF IInv, RecordsFit, Fires
    <3>2. NoTurn.hasNext = FALSE
      BY DEF NoTurn
    <3>3. \A r \in Sessions, n \in Turns :
            pendingTurn[r][n].hasNext => prmTasks[r][n] = pendingTurn[r][n].uid
      BY DEF IInv, Paired
    <3> QED
      BY <2>1, <2>2, <2>3, <3>1, <3>2, <3>3 DEF Paired
  <2>7. Unused(tasks)
    BY <2>1 DEF Unused
  <2> QED
    BY <2>2, <2>3, <2>4, <2>5, <2>6, <2>7
<1>4. QED
  BY <1>2, <1>3

\* The tasks that run after a flush judge uids that no other task and no
\* record of another session has.
LEMMA FlushJudges ==
  ASSUME IInv, NEW s \in Sessions
  PROVE  /\ FlushRunning(s) \subseteq [session : Sessions, uid : Requests]
         /\ \A t \in FlushRunning(s) : t.uid \in turned /\ verdict[t.uid] = NoScore
         /\ \A t1, t2 \in FlushRunning(s) : t1.uid = t2.uid => t1 = t2
         /\ \A r \in Sessions \ {s} : pendingRecord[r] # NoRecord =>
              \A t \in FlushRunning(s) : t.uid # pendingRecord[r].uid
<1> DEFINE new == [session |-> s, uid |-> pendingRecord[s].uid]
<1>1. /\ prmRunning \subseteq [session : Sessions, uid : Requests]
      /\ \A t \in prmRunning : t.uid \in turned /\ verdict[t.uid] = NoScore
      /\ \A t1, t2 \in prmRunning : t1.uid = t2.uid => t1 = t2
      /\ \A r \in Sessions : pendingRecord[r] # NoRecord =>
           \A t \in prmRunning : t.uid # pendingRecord[r].uid
  BY DEF IInv, TypeOK, Known, OneJudge
<1>2. CASE ~Fires(s)
  BY <1>1, <1>2 DEF FlushRunning
<1>3. CASE Fires(s)
  <2>1. pendingRecord[s] # NoRecord /\ pendingRecord[s] \in Records
    BY <1>3 DEF Fires, IInv, TypeOK
  <2>2. /\ new \in [session : Sessions, uid : Requests]
        /\ new.uid = pendingRecord[s].uid
        /\ new.uid \in turned /\ verdict[new.uid] = NoScore
    BY <2>1, RecordKinds DEF IInv, Known, OneJudge
  <2>3. \A r \in Sessions \ {s} : pendingRecord[r] # NoRecord => new.uid # pendingRecord[r].uid
    BY <2>1, <2>2 DEF IInv, OneJudge
  <2>4. FlushRunning(s) = prmRunning \cup {new}
    BY <1>3 DEF FlushRunning
  <2> QED
    BY <1>1, <2>1, <2>2, <2>3, <2>4
<1>4. QED
  BY <1>2, <1>3

\* Tables and callbacks between which a uid moves on its way to a sample.
Flow(pend, tasks, q) ==
  /\ pend \in Pends /\ Apart(pend)
  /\ tasks \in TaskTables /\ Paired(pend, tasks) /\ Unused(tasks)
  /\ q \in Seq(Callbacks) /\ Distinct(q) /\ OwnVerdict(q)
  /\ UidsIn(pend) \cap (UidsOf(q) \cup SampledUids) = {}
  /\ UidsOf(q) \cap SampledUids = {}

\* The invariant says that the tables and the callbacks flow.
LEMMA InvFlow == IInv => Flow(pendingTurn, prmTasks, ready)
  BY DEF IInv, Flow, Once, Rewards, TypeOK, Pends, TaskTables

\* Callbacks that follow the first one.
LEMMA TailFlow ==
  ASSUME NEW pend, NEW tasks, NEW q, Flow(pend, tasks, q), q # <<>>
  PROVE  Flow(pend, tasks, Tail(q)) /\ UidsOf(Tail(q)) \subseteq UidsOf(q)
<1>1. q \in Seq(Callbacks)
  BY DEF Flow
<1>2. /\ Tail(q) \in Seq(Callbacks)
      /\ \A i \in DOMAIN Tail(q) : i \in Int /\ i + 1 \in DOMAIN q /\ Tail(q)[i] = q[i + 1]
  <2>1. Len(q) \in Nat \ {0} /\ DOMAIN q = 1..Len(q)
    BY <1>1, EmptySeq, LenProperties
  <2>2. /\ Tail(q) \in Seq(Callbacks) /\ Len(Tail(q)) = Len(q) - 1
        /\ \A i \in 1..Len(Tail(q)) : Tail(q)[i] = q[i + 1]
    BY <1>1, HeadTailProperties
  <2>3. DOMAIN Tail(q) = 1..Len(q) - 1
    BY <2>2, LenProperties
  <2> QED
    BY <2>1, <2>2, <2>3
<1>3. UidsOf(Tail(q)) \subseteq UidsOf(q)
  BY <1>2 DEF UidsOf
<1>4. Distinct(Tail(q))
  BY <1>2 DEF Flow, Distinct
<1>5. OwnVerdict(Tail(q))
  BY <1>2 DEF Flow, OwnVerdict
<1>6. QED
  BY <1>2, <1>3, <1>4, <1>5 DEF Flow

\* Submitting turns keeps everything flowing.
LEMMA SubmitFlow ==
  ASSUME NEW pend, NEW tasks, NEW q, Flow(pend, tasks, q), verdict \in VerdictTables,
         NEW s \in Sessions, NEW force,
         NEW S \in SUBSET Submittable(pend, tasks, s, force), NEW order \in InTurnOrder(S)
  PROVE  LET pend2 == WithoutTurns(pend, s, S)
             q2 == q \o SubmitCalls(pend, tasks, s, order)
         IN  /\ Flow(pend2, WithoutTasks(tasks, s, S), q2)
             /\ UidsIn(pend2) \cup UidsOf(q2) \subseteq UidsIn(pend) \cup UidsOf(q)
             /\ \A r \in Sessions, n \in Turns : pend2[r][n] \in {NoTurn, pend[r][n]}
<1> DEFINE calls == SubmitCalls(pend, tasks, s, order)
           pend2 == WithoutTurns(pend, s, S)
           tasks2 == WithoutTasks(tasks, s, S)
<1>1. /\ calls \in Seq(Callbacks) /\ Distinct(calls) /\ OwnVerdict(calls)
      /\ UidsOf(calls) \subseteq UidsIn(pend)
      /\ pend2 \in Pends /\ Apart(pend2)
      /\ UidsIn(pend2) \subseteq UidsIn(pend)
      /\ UidsIn(pend2) \cap UidsOf(calls) = {}
      /\ \A r \in Sessions, n \in Turns : pend2[r][n] \in {NoTurn, pend[r][n]}
      /\ tasks2 \in TaskTables /\ Paired(pend2, tasks2) /\ Unused(tasks2)
  BY SubmitReady DEF Flow
<1>2. /\ q \o calls \in Seq(Callbacks) /\ Distinct(q \o calls) /\ OwnVerdict(q \o calls)
      /\ UidsOf(q \o calls) \subseteq UidsOf(q) \cup UidsOf(calls)
  <2>1. UidsOf(q) \cap UidsOf(calls) = {}
    BY <1>1 DEF Flow
  <2> QED
    BY <1>1, <2>1, ConcatCalls DEF Flow
<1>3. /\ UidsIn(pend2) \cap (UidsOf(q \o calls) \cup SampledUids) = {}
      /\ UidsOf(q \o calls) \cap SampledUids = {}
  BY <1>1, <1>2 DEF Flow
<1>4. QED
  BY <1>1, <1>2, <1>3 DEF Flow

-----------------------------------------------------------------------------
(* Every action preserves IInv *)

\* What is left to show of a step that moves turns and makes no sample.
LEMMA FlowSafe ==
  ASSUME IInv, samples' = samples, verdict' = verdict, turned \subseteq turned',
         Flow(pendingTurn', prmTasks', ready'),
         UidsIn(pendingTurn') \cup UidsOf(ready') \subseteq turned'
  PROVE  /\ Once' /\ Paired(pendingTurn, prmTasks)' /\ Unused(prmTasks)' /\ Rewards'
         /\ (UidsIn(pendingTurn) \cup UidsOf(ready) \cup SampledUids \subseteq turned)'
<1>1. SampledUids' = SampledUids
  BY DEF SampledUids
<1>2. Once'
  BY <1>1 DEF IInv, Once, Flow
<1>3. Paired(pendingTurn, prmTasks)' /\ Unused(prmTasks)'
  BY DEF Flow, Paired, Unused
<1>4. Rewards'
  BY DEF IInv, Flow, Rewards, OwnVerdict
<1>5. SampledUids \subseteq turned
  BY DEF IInv, Known
<1>6. QED
  BY <1>1, <1>2, <1>3, <1>4, <1>5

\* A step that touches no turn, task, callback or sample.
LEMMA QuietSafe ==
  ASSUME IInv, TypeOK', Ids', turned' = turned, ready' = ready, samples' = samples,
         pendingRecord' = pendingRecord, pendingTurn' = pendingTurn, prmTasks' = prmTasks,
         prmRunning' = prmRunning, verdict' = verdict
  PROVE  IInv'
<1>1. Known'
  BY DEF IInv, Known, SampledUids
<1>2. Once'
  BY DEF IInv, Once, SampledUids
<1>3. Paired(pendingTurn, prmTasks)' /\ Unused(prmTasks)'
  BY DEF IInv, Paired, Unused
<1>4. RecordsFit' /\ OneJudge'
  BY DEF IInv, RecordsFit, OneJudge
<1>5. Rewards'
  BY DEF IInv, Rewards, OwnVerdict
<1>6. QED
  BY <1>1, <1>2, <1>3, <1>4, <1>5 DEF IInv

\* Accept opens a request with a fresh id.
LEMMA AcceptSafe ==
  ASSUME IInv, NEW s \in Sessions, NEW main \in BOOLEAN, NEW done \in BOOLEAN,
         Accept(s, main, done)
  PROVE  IInv'
<1> DEFINE new == [id |-> accepted + 1, session |-> s, main |-> main, done |-> done]
<1>1. /\ accepted \in 0..MaxRequests /\ accepted < MaxRequests
      /\ accepted' = accepted + 1 /\ inflight' = inflight \cup {new}
      /\ UNCHANGED <<turned, closed, turnVars, sampleVars, workerVars, ready>>
  BY DEF IInv, TypeOK, Accept
<1>2. accepted' \in 0..MaxRequests /\ accepted + 1 \in Requests
  BY <1>1, RequestsAssumption DEF Requests
<1>3. new \in InFlight /\ new.id = accepted + 1
  BY <1>2 DEF InFlight
<1>4. TypeOK'
  BY <1>1, <1>2, <1>3 DEF IInv, TypeOK, turnVars, sampleVars, workerVars
<1>5. Ids'
  <2>1. \A r \in inflight : r.id \in Int /\ r.id <= accepted /\ r.id \notin turned
    BY DEF IInv, TypeOK, Ids, InFlight, Requests
  <2>2. \A u \in turned : u <= accepted
    BY DEF IInv, Ids
  <2>3. \A r1, r2 \in inflight : r1.id = r2.id => r1 = r2
    BY DEF IInv, Ids
  <2>4. \A u \in turned : u \in Int
    BY DEF IInv, TypeOK, Requests
  <2>5. \A r \in inflight' : r.id <= accepted' /\ r.id \notin turned'
    BY <1>1, <1>3, <2>1, <2>2
  <2>6. \A r1, r2 \in inflight' : r1.id = r2.id => r1 = r2
    BY <1>1, <1>3, <2>1, <2>3
  <2>7. \A u \in turned' : u <= accepted'
    BY <1>1, <2>2, <2>4
  <2> QED
    BY <2>5, <2>6, <2>7 DEF Ids
<1>6. QED
  BY <1>1, <1>4, <1>5, QuietSafe DEF turnVars, sampleVars, workerVars

\* A handler that fails leaves the rest as it was.
LEMMA SglangFailsSafe ==
  ASSUME IInv, NEW r \in inflight, SglangFails(r)
  PROVE  IInv'
<1>1. TypeOK'
  BY DEF IInv, TypeOK, SglangFails, Failed, turnVars, sampleVars, workerVars
<1>2. Ids'
  BY DEF IInv, Ids, SglangFails, Failed
<1>3. QED
  BY <1>1, <1>2, QuietSafe DEF SglangFails, turnVars, sampleVars

\* The executor puts a sample into the queue.
LEMMA PutSafe ==
  ASSUME IInv, NEW x \in putting, Put(x)
  PROVE  IInv'
<1>1. x \in Samples /\ outputQueue' \in Seq(Samples)
  BY DEF IInv, TypeOK, Put
<1>2. TypeOK'
  BY <1>1 DEF IInv, TypeOK, Put, requestVars, turnVars
<1>3. Ids'
  BY DEF IInv, Ids, Put, requestVars
<1>4. QED
  BY <1>2, <1>3, QuietSafe DEF Put, requestVars, turnVars

\* The rollout worker's steps touch the event, the queue and the eval scores.
LEMMA WorkerSafe ==
  ASSUME IInv, WorkerNext
  PROVE  IInv'
<1>1. TypeOK'
  <2>1. CASE Resume
    BY <2>1 DEF IInv, TypeOK, Resume, requestVars, turnVars, sampleVars
  <2>2. CASE Pause
    BY <2>2 DEF IInv, TypeOK, Pause, requestVars, turnVars, sampleVars
  <2>3. CASE ClearEvalScores
    BY <2>3 DEF IInv, TypeOK, ClearEvalScores, requestVars, turnVars, workerVars
  <2>4. CASE Take
    <3>1. outputQueue' \in Seq(Samples)
      BY <2>4, HeadTailProperties DEF IInv, TypeOK, Take
    <3> QED
      BY <2>4, <3>1 DEF IInv, TypeOK, Take, requestVars, turnVars, sampleVars
  <2> QED
    BY <2>1, <2>2, <2>3, <2>4 DEF WorkerNext
<1>2. /\ UNCHANGED <<requestVars, turnVars, ready>> /\ samples' = samples
  BY DEF WorkerNext, Resume, Pause, ClearEvalScores, Take, sampleVars
<1>3. Ids'
  BY <1>2 DEF IInv, Ids, requestVars
<1>4. QED
  BY <1>1, <1>2, <1>3, QuietSafe DEF requestVars, turnVars

\* RunSubmit turns the head of ready into a sample.
LEMMA RunSubmitSafe ==
  ASSUME IInv, RunSubmit
  PROVE  IInv'
<1> DEFINE call == Head(ready)
           sample == [index |-> nextIndex, session |-> call.session, uid |-> call.uid,
                      hasNext |-> call.hasNext, judge |-> call.judge,
                      score |-> call.score, trained |-> Trains(call)]
<1>1. /\ ready \in Seq(Callbacks) /\ ready # <<>> /\ call \in Callbacks
      /\ call = ready[1] /\ 1 \in DOMAIN ready
      /\ ready' \in Seq(Callbacks)
      /\ \A i \in DOMAIN ready' : i + 1 \in DOMAIN ready /\ i \in Int /\ ready'[i] = ready[i + 1]
  <2>1. ready \in Seq(Callbacks) /\ ready # <<>> /\ ready' = Tail(ready)
    BY DEF IInv, TypeOK, RunSubmit
  <2>2. Len(ready) \in Nat \ {0} /\ DOMAIN ready = 1..Len(ready)
    BY <2>1, EmptySeq, LenProperties
  <2>3. /\ Head(ready) \in Callbacks /\ Tail(ready) \in Seq(Callbacks)
        /\ Len(Tail(ready)) = Len(ready) - 1
        /\ \A i \in 1..Len(Tail(ready)) : Tail(ready)[i] = ready[i + 1]
    BY <2>1, HeadTailProperties
  <2>4. DOMAIN ready' = 1..Len(ready) - 1
    BY <2>1, <2>3, LenProperties
  <2> QED
    BY <2>1, <2>2, <2>3, <2>4
<1>2. /\ call.uid \in Requests /\ call.uid \in UidsOf(ready) /\ call.uid \in turned
      /\ call.hasNext \in BOOLEAN /\ call.session \in Sessions
      /\ call.judge \in Requests \cup {None} /\ call.score \in Scores
      /\ Trains(call) \in BOOLEAN
  <2>1. call.kind = "submit" /\ call.uid \in Requests \cup {None}
    BY <1>1 DEF RunSubmit, Callbacks
  <2>2. call.uid # None
    BY <1>1, <2>1 DEF IInv, Once, Distinct
  <2>3. call.uid \in UidsOf(ready)
    BY <1>1, <2>2 DEF UidsOf
  <2> QED
    BY <1>1, <2>1, <2>2, <2>3 DEF Callbacks, Trains, IInv, Known
<1>3. /\ sample \in Samples /\ sample.uid = call.uid /\ sample.hasNext = call.hasNext
      /\ sample.judge = call.judge /\ sample.score = call.score
      /\ sample.trained => sample.hasNext
  BY <1>2 DEF Samples, Trains, IInv, TypeOK
<1>4. /\ samples' = samples \cup {sample} /\ putting' = putting \cup {sample}
      /\ nextIndex' = nextIndex + 1 /\ evalScores' = Append(evalScores, call.score)
      /\ sessionEffective' = [sessionEffective EXCEPT ![call.session] =
                                IF Trains(call) THEN @ + 1 ELSE @]
      /\ UNCHANGED <<requestVars, turnVars, workerVars>>
  BY DEF RunSubmit
<1>5. TypeOK'
  <2>1. sessionEffective' \in [Sessions -> Nat] /\ nextIndex' \in Nat
    <3>1. sessionEffective \in [Sessions -> Nat] /\ nextIndex \in Nat
      BY DEF IInv, TypeOK
    <3>2. /\ sessionEffective[call.session] \in Nat
          /\ sessionEffective[call.session] + 1 \in Nat /\ nextIndex + 1 \in Nat
      BY <1>2, <3>1
    <3> QED
      BY <1>2, <1>4, <3>1, <3>2
  <2>2. evalScores' \in Seq(Scores)
    BY <1>2, <1>4 DEF IInv, TypeOK
  <2> QED
    BY <1>1, <1>3, <1>4, <2>1, <2>2 DEF IInv, TypeOK, requestVars, turnVars, workerVars
<1>6. UidsOf(ready') \subseteq UidsOf(ready) \ {call.uid}
  <2>1. \A i \in DOMAIN ready' : ready'[i].uid # None => ready'[i].uid # call.uid
    BY <1>1 DEF IInv, Once, Distinct
  <2> QED
    BY <1>1, <2>1 DEF UidsOf
<1>7. SampledUids' = SampledUids \cup {call.uid}
  BY <1>3, <1>4 DEF SampledUids
<1>8. Ids' /\ Known'
  BY <1>2, <1>4, <1>6, <1>7 DEF IInv, Ids, Known, requestVars, turnVars
<1>9. Once'
  <2>1. Distinct(ready')
    BY <1>1 DEF IInv, Once, Distinct
  <2>2. \A x, y \in samples' : x.uid = y.uid => x = y
    BY <1>2, <1>3, <1>4 DEF IInv, Once, SampledUids
  <2> QED
    BY <1>2, <1>4, <1>6, <1>7, <2>1, <2>2 DEF IInv, Once, turnVars
<1>10. Paired(pendingTurn, prmTasks)' /\ Unused(prmTasks)' /\ RecordsFit' /\ OneJudge'
  BY <1>4 DEF IInv, Paired, Unused, RecordsFit, OneJudge, requestVars, turnVars
<1>11. Rewards'
  <2>1. OwnVerdict(ready)'
    BY <1>1, <1>4 DEF IInv, Rewards, OwnVerdict, turnVars
  <2>2. call.hasNext => call.judge = call.uid /\ call.score = verdict[call.uid]
    BY <1>1 DEF IInv, Rewards, OwnVerdict
  <2> QED
    BY <1>3, <1>4, <2>1, <2>2 DEF IInv, Rewards, turnVars
<1>12. QED
  BY <1>5, <1>8, <1>9, <1>10, <1>11 DEF IInv

\* The strict plurality of votes is a score.
LEMMA MajorityIsScore ==
  ASSUME NEW votes
  PROVE  MajorityVote(votes) \in Scores
BY DEF MajorityVote, Scores

\* What more than half of the PRM_M votes say is the verdict: failed and
\* unreadable votes count against nobody, and no tie can hide a majority
\* (_majority_vote).
THEOREM MajorityDecides ==
  \A votes \in [1..PrmM -> Scores \cup {NoVote}], v \in Scores :
    2 * Cardinality({i \in 1..PrmM : votes[i] = v}) > PrmM => MajorityVote(votes) = v
<1> TAKE votes \in [1..PrmM -> Scores \cup {NoVote}], v \in Scores
<1> DEFINE says(w) == {i \in DOMAIN votes : votes[i] = w}
           wins(x) == /\ Cardinality(says(x)) > 0
                      /\ \A w \in Scores \ {x} : Cardinality(says(x)) > Cardinality(says(w))
<1> HAVE 2 * Cardinality({i \in 1..PrmM : votes[i] = v}) > PrmM
<1>1. DOMAIN votes = 1..PrmM /\ PrmM \in Nat
  BY RequestsAssumption
<1>2. IsFiniteSet(1..PrmM) /\ Cardinality(1..PrmM) = PrmM
  BY RequestsAssumption, FS_Interval
<1>3. \A w : says(w) \in SUBSET (1..PrmM)
  BY <1>1
<1>4. \A w : IsFiniteSet(says(w)) /\ Cardinality(says(w)) \in Nat
  <2> HIDE DEF says
  <2> QED
    BY <1>2, <1>3, FS_Subset, FS_CardinalityType
<1>5. 2 * Cardinality(says(v)) > PrmM
  BY <1>1
<1>6. ASSUME NEW w \in Scores \ {v} PROVE Cardinality(says(v)) > Cardinality(says(w))
  <2>1. says(v) \cap says(w) = {}
    BY <1>6
  <2> HIDE DEF says
  <2>2. ~(Cardinality(says(v)) + Cardinality(says(w)) > PrmM)
    BY <1>2, <1>3, <2>1, FS_MajoritiesIntersect
  <2> QED
    BY <1>1, <1>4, <1>5, <2>2
<1> HIDE DEF says
<1>7. wins(v)
  BY <1>1, <1>4, <1>5, <1>6
<1>8. ASSUME NEW x \in Scores, wins(x) PROVE x = v
  <2> SUFFICES ASSUME x # v PROVE FALSE
    OBVIOUS
  <2>1. Cardinality(says(x)) > Cardinality(says(v)) /\ Cardinality(says(v)) > Cardinality(says(x))
    BY <1>7, <1>8
  <2> QED
    BY <1>4, <2>1
<1> HIDE DEF wins
<1>9. (CHOOSE x \in Scores : wins(x)) = v
  BY <1>7, <1>8
<1>10. MajorityVote(votes) = IF \E x \in Scores : wins(x) THEN CHOOSE x \in Scores : wins(x) ELSE 0
  BY DEF MajorityVote, wins, says
<1>11. QED
  BY <1>7, <1>9, <1>10

\* A PRM task ends: its uid gets the only verdict it will ever have.
LEMMA PrmFinishSafe ==
  ASSUME IInv, NEW t \in prmRunning, PrmFinish(t)
  PROVE  IInv'
<1>1. PICK score \in Scores : verdict' = [verdict EXCEPT ![t.uid] = score]
  BY MajorityIsScore DEF PrmFinish
<1>2. /\ prmRunning' = prmRunning \ {t} /\ ready' = Append(ready, PrmDoneCall(t.session))
      /\ UNCHANGED <<requestVars, turnCounts, pendingRecord, pendingTurn, prmTasks,
                     sampleVars, workerVars>>
  BY DEF PrmFinish
<1>3. t.session \in Sessions /\ t.uid \in Requests /\ t.uid \in turned
  BY DEF IInv, TypeOK, Known
<1>4. /\ PrmDoneCall(t.session) \in Callbacks
      /\ PrmDoneCall(t.session).uid = None /\ PrmDoneCall(t.session).hasNext = FALSE
      /\ PrmDoneCall(t.session).kind # "submit"
  BY <1>3 DEF PrmDoneCall, Callbacks, None, Scores
<1>5. /\ ready' \in Seq(Callbacks)
      /\ \A i \in DOMAIN ready' :
           (i \in DOMAIN ready /\ ready'[i] = ready[i]) \/ ready'[i] = PrmDoneCall(t.session)
  BY <1>2, <1>4 DEF IInv, TypeOK
<1>6. /\ verdict' \in VerdictTables /\ verdict'[t.uid] \in Scores
      /\ \A u \in Requests \ {t.uid} : verdict'[u] = verdict[u]
  BY <1>1, <1>3 DEF IInv, TypeOK, VerdictTables, Scores, NoScore
<1>7. verdict[t.uid] = NoScore /\ NoScore \notin Scores
  BY DEF IInv, OneJudge, NoScore, Scores
<1>8. TypeOK'
  BY <1>2, <1>5, <1>6
  DEF IInv, TypeOK, VerdictTables, requestVars, sampleVars, workerVars
<1>9. Ids'
  BY <1>2 DEF IInv, Ids, requestVars
<1>10. UidsOf(ready') \subseteq UidsOf(ready)
  BY <1>4, <1>5 DEF UidsOf
<1>11. Known'
  BY <1>2, <1>10 DEF IInv, Known, SampledUids, requestVars, sampleVars
<1>12. Once'
  <2>1. Distinct(ready')
    BY <1>4, <1>5 DEF IInv, Once, Distinct
  <2> QED
    BY <1>2, <1>10, <2>1 DEF IInv, Once, SampledUids, sampleVars
<1>13. Paired(pendingTurn, prmTasks)' /\ Unused(prmTasks)' /\ RecordsFit'
  BY <1>2 DEF IInv, Paired, Unused, RecordsFit
<1>14. OneJudge'
  <2>1. \A x \in prmRunning' : x.uid # t.uid /\ x.uid \in Requests
    BY <1>2 DEF IInv, TypeOK, OneJudge
  <2>2. \A s \in Sessions : pendingRecord[s] # NoRecord =>
          pendingRecord[s].uid # t.uid /\ pendingRecord[s].uid \in Requests
    BY RecordKinds DEF IInv, TypeOK, OneJudge
  <2>3. \A x \in prmRunning' : verdict'[x.uid] = NoScore
    BY <1>2, <1>6, <2>1 DEF IInv, OneJudge
  <2>4. \A u \in Requests \ turned' : verdict'[u] = NoScore
    BY <1>2, <1>3, <1>6 DEF IInv, OneJudge, requestVars
  <2> QED
    BY <1>2, <1>6, <2>2, <2>3, <2>4 DEF IInv, OneJudge
<1>15. Rewards'
  <2>1. OwnVerdict(ready)'
    <3>1. \A i \in DOMAIN ready : ready[i].hasNext =>
            ready[i].uid \in Requests \ {t.uid}
      <4> SUFFICES ASSUME NEW i \in DOMAIN ready, ready[i].hasNext
                   PROVE  ready[i].uid \in Requests \ {t.uid}
        OBVIOUS
      <4>1. ready[i] \in Callbacks
        BY DEF IInv, TypeOK
      <4>2. ready[i].score \in Scores /\ ready[i].uid \in Requests \cup {None}
            /\ ready[i].score = verdict[ready[i].uid]
        BY <4>1 DEF Callbacks, IInv, Rewards, OwnVerdict
      <4>3. ready[i].uid # t.uid
        BY <1>7, <4>2
      <4>4. ready[i].uid # None
        BY DEF IInv, Once, Distinct
      <4> QED
        BY <4>2, <4>3, <4>4
    <3> QED
      BY <1>4, <1>5, <1>6, <3>1 DEF IInv, Rewards, OwnVerdict
  <2>2. \A x \in samples : x.hasNext =>
          x.judge = x.uid /\ x.score = verdict[x.uid] /\ x.uid \in Requests \ {t.uid}
    BY <1>7 DEF IInv, Rewards, TypeOK, Samples
  <2> QED
    BY <1>2, <1>6, <2>1, <2>2 DEF IInv, Rewards, sampleVars
<1>16. QED
  BY <1>8, <1>9, <1>11, <1>12, <1>13, <1>14, <1>15 DEF IInv

\* The done callback of a PRM task submits what is ready.
LEMMA RunPrmDoneSafe ==
  ASSUME IInv, RunPrmDone
  PROVE  IInv'
<1> DEFINE s == Head(ready).session
           now == Submittable(pendingTurn, prmTasks, s, FALSE)
<1>1. PICK order \in InTurnOrder(now) :
        /\ ready # <<>>
        /\ pendingTurn' = WithoutTurns(pendingTurn, s, now)
        /\ prmTasks' = WithoutTasks(prmTasks, s, now)
        /\ ready' = Tail(ready) \o SubmitCalls(pendingTurn, prmTasks, s, order)
        /\ UNCHANGED <<requestVars, turnCounts, pendingRecord, prmRunning, verdict,
                       sampleVars, workerVars>>
  BY DEF RunPrmDone
<1>2. /\ Flow(pendingTurn, prmTasks, Tail(ready)) /\ UidsOf(Tail(ready)) \subseteq UidsOf(ready)
      /\ verdict \in VerdictTables /\ s \in Sessions
  <2>1. ready \in Seq(Callbacks)
    BY DEF IInv, TypeOK
  <2>2. s \in Sessions
    <3>1. Head(ready) \in Callbacks
      BY <1>1, <2>1, HeadTailProperties
    <3> QED
      BY <3>1 DEF Callbacks
  <2> QED
    BY <1>1, <2>2, InvFlow, TailFlow DEF IInv, TypeOK, VerdictTables
<1>3. /\ Flow(pendingTurn', prmTasks', ready')
      /\ UidsIn(pendingTurn') \cup UidsOf(ready') \subseteq UidsIn(pendingTurn) \cup UidsOf(ready)
      /\ \A r \in Sessions, n \in Turns : pendingTurn'[r][n] \in {NoTurn, pendingTurn[r][n]}
  <2>1. now \in SUBSET now
    OBVIOUS
  <2> HIDE DEF s
  <2> QED
    BY <1>1, <1>2, <2>1, SubmitFlow
<1>4. TypeOK'
  BY <1>1, <1>3
  DEF Flow, Pends, TaskTables, IInv, TypeOK, requestVars, sampleVars, workerVars
<1>5. Ids'
  BY <1>1 DEF IInv, Ids, requestVars
<1>6. /\ Once' /\ Paired(pendingTurn, prmTasks)' /\ Unused(prmTasks)' /\ Rewards'
      /\ (UidsIn(pendingTurn) \cup UidsOf(ready) \cup SampledUids \subseteq turned)'
  BY <1>1, <1>3, FlowSafe DEF IInv, Known, requestVars, sampleVars
<1>7. Known' /\ OneJudge'
  BY <1>1, <1>6 DEF IInv, Known, OneJudge, requestVars
<1>8. RecordsFit'
  <2>1. \A r \in Sessions : pendingRecord[r] # NoRecord => pendingRecord[r].turn \in Turns
    BY RecordKinds DEF IInv, TypeOK
  <2> QED
    BY <1>1, <1>3, <2>1 DEF IInv, RecordsFit
<1>9. QED
  BY <1>4, <1>5, <1>6, <1>7, <1>8 DEF IInv

\* A handler that is answered gives up its id, which may be turned then.
LEMMA HandlerIds ==
  ASSUME IInv, NEW r \in inflight, inflight' = inflight \ {r}, accepted' = accepted,
         turned' \in {turned, turned \cup {r.id}}
  PROVE  /\ r.id \in Requests /\ r.id \notin turned /\ r.session \in Sessions
         /\ inflight' \subseteq InFlight /\ turned' \subseteq Requests
         /\ accepted' \in 0..MaxRequests
         /\ Ids'
<1>1. r.id \in Requests /\ r.id \notin turned /\ r.id <= accepted /\ r.session \in Sessions
  BY DEF IInv, TypeOK, Ids, InFlight
<1>2. Ids'
  <2>1. \A x \in inflight' : x \in inflight /\ x.id # r.id
    BY DEF IInv, Ids
  <2> QED
    BY <1>1, <2>1 DEF IInv, Ids
<1>3. QED
  BY <1>1, <1>2 DEF IInv, TypeOK

\* A side request submits at most what session_done forces.
LEMMA RespondSideSafe ==
  ASSUME IInv, NEW r \in inflight, RespondSide(r)
  PROVE  IInv'
<1> DEFINE s == r.session
           rest == IF r.done THEN Submittable(pendingTurn, prmTasks, s, TRUE) ELSE {}
<1>1. PICK order \in InTurnOrder(rest) :
        /\ inflight' = inflight \ {r} /\ accepted' = accepted
        /\ closed' = IF r.done THEN closed \cup {r.session} ELSE closed
        /\ turnCounts' = [turnCounts EXCEPT ![s] = IF r.done THEN 0 ELSE @]
        /\ pendingRecord' = [pendingRecord EXCEPT ![s] = IF r.done THEN NoRecord ELSE @]
        /\ pendingTurn' = WithoutTurns(pendingTurn, s, rest)
        /\ prmTasks' = WithoutTasks(prmTasks, s, rest)
        /\ ready' = ready \o SubmitCalls(pendingTurn, prmTasks, s, order)
        /\ sessionEffective' = [sessionEffective EXCEPT ![s] = IF r.done THEN 0 ELSE @]
        /\ UNCHANGED <<turned, prmRunning, verdict, evalScores, nextIndex, putting,
                       samples, workerVars>>
  BY DEF RespondSide, Answered
<1>2. /\ inflight' \subseteq InFlight /\ accepted' \in 0..MaxRequests /\ s \in Sessions
      /\ Ids'
  BY <1>1, HandlerIds
<1>3. /\ Flow(pendingTurn', prmTasks', ready')
      /\ UidsIn(pendingTurn') \cup UidsOf(ready') \subseteq UidsIn(pendingTurn) \cup UidsOf(ready)
      /\ \A x \in Sessions, n \in Turns : pendingTurn'[x][n] \in {NoTurn, pendingTurn[x][n]}
  <2>1. rest \in SUBSET Submittable(pendingTurn, prmTasks, s, TRUE)
    OBVIOUS
  <2>2. verdict \in VerdictTables
    BY DEF IInv, TypeOK, VerdictTables
  <2> HIDE DEF s, rest
  <2> QED
    BY <1>1, <1>2, <2>1, <2>2, InvFlow, SubmitFlow
<1>4. /\ pendingRecord' \in [Sessions -> Records]
      /\ \A x \in Sessions : pendingRecord'[x] \in {NoRecord, pendingRecord[x]}
  <2>1. NoRecord \in Records
    BY DEF Records
  <2> QED
    BY <1>1, <2>1 DEF IInv, TypeOK
<1>5. TypeOK'
  <2>1. turnCounts' \in [Sessions -> 0..MaxRequests] /\ sessionEffective' \in [Sessions -> Nat]
    <3>1. turnCounts \in [Sessions -> 0..MaxRequests] /\ sessionEffective \in [Sessions -> Nat]
      BY DEF IInv, TypeOK
    <3>2. 0 \in 0..MaxRequests /\ 0 \in Nat
      BY RequestsAssumption
    <3> HIDE DEF s
    <3> QED
      BY <1>1, <1>2, <3>1, <3>2
  <2>2. closed' \subseteq Sessions
    BY <1>1, <1>2 DEF IInv, TypeOK
  <2> QED
    BY <1>1, <1>2, <1>3, <1>4, <2>1, <2>2
    DEF Flow, Pends, TaskTables, IInv, TypeOK, workerVars
<1>6. /\ Once' /\ Paired(pendingTurn, prmTasks)' /\ Unused(prmTasks)' /\ Rewards'
      /\ (UidsIn(pendingTurn) \cup UidsOf(ready) \cup SampledUids \subseteq turned)'
  BY <1>1, <1>3, FlowSafe DEF IInv, Known
<1>7. Known' /\ OneJudge'
  <2>1. \A x \in Sessions : pendingRecord'[x] # NoRecord => pendingRecord'[x] = pendingRecord[x]
    BY <1>4
  <2>2. NoRecord.uid = None /\ \A x \in Sessions :
          pendingRecord[x] # NoRecord => pendingRecord[x].uid # None
    BY RecordKinds DEF IInv, TypeOK, NoRecord
  <2>3. Known'
    <3>1. \A t \in prmRunning : t.uid \in turned
      BY DEF IInv, Known
    <3>2. \A x \in Sessions : pendingRecord'[x] # NoRecord => pendingRecord'[x].uid \in turned
      BY <2>1 DEF IInv, Known
    <3> QED
      BY <1>1, <1>6, <3>1, <3>2 DEF Known
  <2>4. OneJudge'
    BY <1>1, <1>4, <2>1, <2>2 DEF IInv, OneJudge
  <2> QED
    BY <2>3, <2>4
<1>8. RecordsFit'
  <2>1. \A x \in Sessions : pendingRecord[x] # NoRecord => pendingRecord[x].turn \in Turns
    BY RecordKinds DEF IInv, TypeOK
  <2> QED
    BY <1>3, <1>4, <2>1 DEF IInv, RecordsFit
<1>9. QED
  BY <1>2, <1>5, <1>6, <1>7, <1>8 DEF IInv

\* A main request that leaves after the flush.
LEMMA RespondEmptySafe ==
  ASSUME IInv, NEW r \in inflight, RespondEmpty(r)
  PROVE  IInv'
<1> DEFINE s == r.session
<1>1. /\ inflight' = inflight \ {r} /\ accepted' = accepted
      /\ closed' \in {closed, closed \cup {s}}
      /\ prmTasks' = FlushTasks(s) /\ prmRunning' = FlushRunning(s)
      /\ pendingTurn' = FlushTurns(s)
      /\ pendingRecord' = [pendingRecord EXCEPT ![s] = NoRecord]
      /\ UNCHANGED <<turned, turnCounts, verdict, sampleVars, workerVars, ready>>
  BY DEF RespondEmpty, Answered, Failed
<1>2. /\ inflight' \subseteq InFlight /\ accepted' \in 0..MaxRequests /\ s \in Sessions
      /\ Ids'
  BY <1>1, HandlerIds
<1>3. /\ pendingTurn' \in Pends /\ prmTasks' \in TaskTables /\ Apart(pendingTurn')
      /\ UidsIn(pendingTurn') \subseteq UidsIn(pendingTurn)
      /\ Paired(pendingTurn', prmTasks') /\ Unused(prmTasks')
      /\ \A x \in Sessions, n \in Turns :
           /\ pendingTurn'[x][n] = NoTurn <=> pendingTurn[x][n] = NoTurn
           /\ pendingTurn'[x][n].uid = pendingTurn[x][n].uid
  BY <1>1, <1>2, FlushTables
<1>4. /\ prmRunning' \subseteq [session : Sessions, uid : Requests]
      /\ \A t \in prmRunning' : t.uid \in turned /\ verdict[t.uid] = NoScore
      /\ \A t1, t2 \in prmRunning' : t1.uid = t2.uid => t1 = t2
      /\ \A x \in Sessions \ {s} : pendingRecord[x] # NoRecord =>
           \A t \in prmRunning' : t.uid # pendingRecord[x].uid
  BY <1>1, <1>2, FlushJudges
<1>5. /\ pendingRecord' \in [Sessions -> Records]
      /\ pendingRecord'[s] = NoRecord
      /\ \A x \in Sessions \ {s} : pendingRecord'[x] = pendingRecord[x]
  <2>1. NoRecord \in Records
    BY DEF Records
  <2> QED
    BY <1>1, <1>2, <2>1 DEF IInv, TypeOK
<1>6. TypeOK'
  BY <1>1, <1>2, <1>3, <1>4, <1>5
  DEF Pends, TaskTables, IInv, TypeOK, sampleVars, workerVars
<1>7. /\ Once' /\ Paired(pendingTurn, prmTasks)' /\ Unused(prmTasks)' /\ Rewards'
      /\ (UidsIn(pendingTurn) \cup UidsOf(ready) \cup SampledUids \subseteq turned)'
  <2>1. Flow(pendingTurn', prmTasks', ready')
    BY <1>1, <1>3, InvFlow DEF Flow
  <2>2. UidsIn(pendingTurn') \cup UidsOf(ready') \subseteq turned'
    BY <1>1, <1>3 DEF IInv, Known
  <2> QED
    BY <1>1, <2>1, <2>2, FlowSafe DEF sampleVars
<1>8. Known' /\ OneJudge'
  <2>1. \A x \in Sessions : pendingRecord'[x] # NoRecord =>
          x # s /\ pendingRecord'[x] = pendingRecord[x]
    BY <1>5
  <2>2. NoRecord.uid = None /\ \A x \in Sessions \ {s} :
          pendingRecord[x] # NoRecord => pendingRecord[x].uid # None
    BY RecordKinds DEF IInv, TypeOK, NoRecord
  <2>3. Known'
    BY <1>1, <1>4, <1>7, <2>1 DEF IInv, Known
  <2>4. OneJudge'
    BY <1>1, <1>4, <1>5, <2>1, <2>2 DEF IInv, OneJudge
  <2> QED
    BY <2>3, <2>4
<1>9. RecordsFit'
  <2>1. \A x \in Sessions : pendingRecord[x] # NoRecord => pendingRecord[x].turn \in Turns
    BY RecordKinds DEF IInv, TypeOK
  <2> QED
    BY <1>3, <1>5, <2>1 DEF IInv, RecordsFit
<1>10. QED
  BY <1>2, <1>6, <1>7, <1>8, <1>9 DEF IInv

\* A main request: flush, a new turn, and one or two submissions.
LEMMA RespondMainSafe ==
  ASSUME IInv, NEW r \in inflight, RespondMain(r)
  PROVE  IInv'
<1> DEFINE s == r.session
           turn == turnCounts[s] + 1
           tasks == FlushTasks(s)
           new == [uid |-> r.id, hasNext |-> FALSE]
           pend == [FlushTurns(s) EXCEPT ![s][turn] = new]
           now == Submittable(pend, tasks, s, FALSE)
           pend2 == WithoutTurns(pend, s, now)
           tasks2 == WithoutTasks(tasks, s, now)
           rest == IF r.done THEN Submittable(pend2, tasks2, s, TRUE) ELSE {}
           rec == IF RecordEnabled /\ ~r.done THEN [turn |-> turn, uid |-> r.id] ELSE NoRecord
<1>1. PICK order \in InTurnOrder(now), orderRest \in InTurnOrder(rest) :
        ready' = (ready \o SubmitCalls(pend, tasks, s, order))
                   \o SubmitCalls(pend2, tasks2, s, orderRest)
  BY DEF RespondMain
<1>2. /\ turn \in Turns
      /\ inflight' = inflight \ {r} /\ accepted' = accepted
      /\ closed' = IF r.done THEN closed \cup {s} ELSE closed
      /\ turned' = turned \cup {r.id}
      /\ turnCounts' = [turnCounts EXCEPT ![s] = IF r.done THEN 0 ELSE turn]
      /\ pendingRecord' = [pendingRecord EXCEPT ![s] = rec]
      /\ pendingTurn' = WithoutTurns(pend2, s, rest)
      /\ prmTasks' = WithoutTasks(tasks2, s, rest)
      /\ prmRunning' = FlushRunning(s)
      /\ sessionEffective' = [sessionEffective EXCEPT ![s] = IF r.done THEN 0 ELSE @]
      /\ UNCHANGED <<verdict, evalScores, nextIndex, putting, samples, workerVars>>
  BY DEF RespondMain, Answered
<1>3. /\ r.id \in Requests /\ r.id \notin turned /\ s \in Sessions
      /\ inflight' \subseteq InFlight /\ accepted' \in 0..MaxRequests
      /\ turned' \subseteq Requests /\ Ids'
  BY <1>2, HandlerIds
<1> HIDE DEF s
<1>4. /\ Flow(FlushTurns(s), tasks, ready)
      /\ UidsIn(FlushTurns(s)) \subseteq UidsIn(pendingTurn)
      /\ \A x \in Sessions, n \in Turns :
           /\ FlushTurns(s)[x][n] = NoTurn <=> pendingTurn[x][n] = NoTurn
           /\ FlushTurns(s)[x][n].uid = pendingTurn[x][n].uid
  BY <1>3, FlushTables, InvFlow DEF Flow
<1>5. /\ Flow(pend, tasks, ready)
      /\ UidsIn(pend) \subseteq UidsIn(pendingTurn) \cup {r.id}
      /\ pend[s][turn].uid = r.id
      /\ \A x \in Sessions \ {s}, n \in Turns :
           /\ pend[x][n] = NoTurn <=> pendingTurn[x][n] = NoTurn
           /\ pend[x][n].uid = pendingTurn[x][n].uid
  <2>1. UidsIn(pendingTurn) \cup UidsOf(ready) \cup SampledUids \subseteq turned
    BY DEF IInv, Known
  <2>2. /\ pend \in Pends /\ Apart(pend) /\ Paired(pend, tasks)
        /\ UidsIn(pend) \subseteq UidsIn(FlushTurns(s)) \cup {r.id}
        /\ pend[s][turn].uid = r.id
        /\ \A x \in Sessions \ {s}, n \in Turns : pend[x][n] = FlushTurns(s)[x][n]
    <3>1. r.id \notin UidsIn(FlushTurns(s))
      BY <1>3, <1>4, <2>1
    <3>2. /\ FlushTurns(s) \in Pends /\ Apart(FlushTurns(s)) /\ Paired(FlushTurns(s), tasks)
      BY <1>4 DEF Flow
    <3>3. turn \in Turns /\ r.id \in Requests /\ s \in Sessions
      BY <1>2, <1>3
    <3>4. new \in TurnData /\ new.uid = r.id /\ new.uid # None /\ new.hasNext = FALSE
      BY <3>3 DEF TurnData, Requests, None
    <3> HIDE DEF turn, tasks, new
    <3>5. /\ pend \in Pends
          /\ \A x \in Sessions, n \in Turns :
               pend[x][n] = IF x = s /\ n = turn THEN new ELSE FlushTurns(s)[x][n]
      BY <3>2, <3>3, <3>4 DEF Pends
    <3> HIDE DEF pend
    <3>6. \A x \in Sessions, n \in Turns : FlushTurns(s)[x][n].uid # r.id
      BY <3>1, <3>3 DEF UidsIn, Requests, None
    <3>7. Apart(pend)
      BY <3>2, <3>4, <3>5, <3>6 DEF Apart
    <3>8. Paired(pend, tasks)
      BY <3>2, <3>4, <3>5 DEF Paired
    <3>9. UidsIn(pend) \subseteq UidsIn(FlushTurns(s)) \cup {r.id}
      BY <3>4, <3>5 DEF UidsIn
    <3> QED
      BY <3>3, <3>4, <3>5, <3>7, <3>8, <3>9
  <2> HIDE DEF pend, tasks
  <2>3. Flow(pend, tasks, ready)
    BY <1>3, <1>4, <2>1, <2>2 DEF Flow
  <2> QED
    BY <1>4, <2>2, <2>3
<1> HIDE DEF pend, tasks
<1>6. verdict \in VerdictTables
  BY DEF IInv, TypeOK, VerdictTables
<1>7. /\ Flow(pend2, tasks2, ready \o SubmitCalls(pend, tasks, s, order))
      /\ UidsIn(pend2) \cup UidsOf(ready \o SubmitCalls(pend, tasks, s, order))
           \subseteq UidsIn(pend) \cup UidsOf(ready)
      /\ \A x \in Sessions, n \in Turns : pend2[x][n] \in {NoTurn, pend[x][n]}
  <2>1. now \in SUBSET now
    OBVIOUS
  <2> QED
    BY <1>1, <1>3, <1>5, <1>6, <2>1, SubmitFlow
<1> HIDE DEF pend2, tasks2
<1>8. /\ Flow(pendingTurn', prmTasks', ready')
      /\ UidsIn(pendingTurn') \cup UidsOf(ready')
           \subseteq UidsIn(pend2) \cup UidsOf(ready \o SubmitCalls(pend, tasks, s, order))
      /\ \A x \in Sessions, n \in Turns : pendingTurn'[x][n] \in {NoTurn, pend2[x][n]}
  <2>1. rest \in SUBSET Submittable(pend2, tasks2, s, TRUE)
    OBVIOUS
  <2> HIDE DEF rest
  <2> QED
    BY <1>1, <1>2, <1>3, <1>6, <1>7, <2>1, SubmitFlow
<1>9. /\ prmRunning' \subseteq [session : Sessions, uid : Requests]
      /\ \A t \in prmRunning' : t.uid \in turned /\ verdict[t.uid] = NoScore
      /\ \A t1, t2 \in prmRunning' : t1.uid = t2.uid => t1 = t2
      /\ \A x \in Sessions \ {s} : pendingRecord[x] # NoRecord =>
           \A t \in prmRunning' : t.uid # pendingRecord[x].uid
  BY <1>2, <1>3, FlushJudges
<1>10. /\ rec \in Records /\ (rec # NoRecord => rec.turn = turn /\ rec.uid = r.id)
       /\ pendingRecord' \in [Sessions -> Records]
       /\ pendingRecord'[s] = rec
       /\ \A x \in Sessions \ {s} : pendingRecord'[x] = pendingRecord[x]
  <2>1. rec \in Records /\ (rec # NoRecord => rec.turn = turn /\ rec.uid = r.id)
    BY <1>2, <1>3 DEF Records
  <2> HIDE DEF rec
  <2> QED
    BY <1>2, <1>3, <2>1 DEF IInv, TypeOK
<1> HIDE DEF rec, rest
<1>11. TypeOK'
  <2>1. turnCounts' \in [Sessions -> 0..MaxRequests] /\ sessionEffective' \in [Sessions -> Nat]
    <3>1. turnCounts \in [Sessions -> 0..MaxRequests] /\ sessionEffective \in [Sessions -> Nat]
      BY DEF IInv, TypeOK
    <3>2. 0 \in 0..MaxRequests /\ 0 \in Nat /\ turn \in 0..MaxRequests
      BY <1>2, RequestsAssumption DEF Turns
    <3> HIDE DEF turn
    <3> QED
      BY <1>2, <1>3, <3>1, <3>2
  <2>2. closed' \subseteq Sessions
    BY <1>2, <1>3 DEF IInv, TypeOK
  <2> QED
    BY <1>2, <1>3, <1>8, <1>9, <1>10, <2>1, <2>2
    DEF Flow, Pends, TaskTables, IInv, TypeOK, workerVars
<1>12. /\ Once' /\ Paired(pendingTurn, prmTasks)' /\ Unused(prmTasks)' /\ Rewards'
       /\ (UidsIn(pendingTurn) \cup UidsOf(ready) \cup SampledUids \subseteq turned)'
  <2>1. UidsIn(pendingTurn') \cup UidsOf(ready') \subseteq turned'
    BY <1>2, <1>5, <1>7, <1>8 DEF IInv, Known
  <2> QED
    BY <1>2, <1>8, <2>1, FlowSafe
<1>13. Known' /\ OneJudge'
  <2>1. \A x \in Sessions \ {s} : pendingRecord[x] # NoRecord =>
          /\ pendingRecord[x].uid \in turned /\ pendingRecord[x].uid # r.id
          /\ pendingRecord[x].uid # None
    BY <1>3, RecordKinds DEF IInv, TypeOK, Known
  <2>2. NoRecord.uid = None /\ r.id # None
    BY <1>3 DEF NoRecord, None, Requests
  <2>3. Known'
    BY <1>2, <1>9, <1>10, <1>12, <2>1 DEF IInv, Known
  <2>4. \A x \in Sessions : pendingRecord'[x] # NoRecord =>
          /\ verdict[pendingRecord'[x].uid] = NoScore
          /\ \A t \in prmRunning' : t.uid # pendingRecord'[x].uid
          /\ \A y \in Sessions \ {x} : pendingRecord'[y].uid # pendingRecord'[x].uid
    <3>1. verdict[r.id] = NoScore /\ \A t \in prmRunning' : t.uid # r.id
      BY <1>3, <1>9 DEF IInv, OneJudge
    <3>2. \A x \in Sessions \ {s} : pendingRecord[x] # NoRecord =>
            /\ verdict[pendingRecord[x].uid] = NoScore
            /\ \A y \in Sessions \ {x} : pendingRecord[y].uid # pendingRecord[x].uid
      BY DEF IInv, OneJudge
    <3>3. pendingRecord'[s].uid \in {None, r.id}
      BY <1>10, <2>2
    <3>4. \A x \in Sessions \ {s} : pendingRecord'[x].uid # r.id
      BY <1>10, <2>1, <2>2
    <3>5. ASSUME NEW x \in Sessions \ {s}, pendingRecord'[x] # NoRecord
          PROVE  /\ verdict[pendingRecord'[x].uid] = NoScore
                 /\ \A t \in prmRunning' : t.uid # pendingRecord'[x].uid
                 /\ \A y \in Sessions \ {x} : pendingRecord'[y].uid # pendingRecord'[x].uid
      BY <1>9, <1>10, <2>1, <3>2, <3>3, <3>5
    <3>6. pendingRecord'[s] # NoRecord => pendingRecord'[s].uid = r.id
      BY <1>10
    <3> QED
      BY <1>3, <3>1, <3>4, <3>5, <3>6
  <2>5. OneJudge'
    <3>1. \A u \in Requests \ turned' : verdict[u] = NoScore
      BY <1>2 DEF IInv, OneJudge
    <3> QED
      BY <1>2, <1>9, <2>4, <3>1 DEF OneJudge
  <2> QED
    BY <2>3, <2>5
<1>14. RecordsFit'
  <2>1. \A x \in Sessions : pendingRecord[x] # NoRecord => pendingRecord[x].turn \in Turns
    BY RecordKinds DEF IInv, TypeOK
  <2>2. pendingTurn'[s][turn] = NoTurn \/ pendingTurn'[s][turn].uid = r.id
    BY <1>2, <1>3, <1>5, <1>7, <1>8
  <2>3. \A x \in Sessions \ {s}, n \in Turns :
          pendingTurn'[x][n] = NoTurn
            \/ (pendingTurn'[x][n].uid = pendingTurn[x][n].uid /\ pendingTurn[x][n] # NoTurn)
    <3> TAKE x \in Sessions \ {s}, n \in Turns
    <3>1. pendingTurn'[x][n] \in {NoTurn, pend[x][n]}
      BY <1>7, <1>8
    <3>2. pend[x][n] = NoTurn <=> pendingTurn[x][n] = NoTurn
      BY <1>5
    <3>3. pend[x][n].uid = pendingTurn[x][n].uid
      BY <1>5
    <3> QED
      BY <3>1, <3>2, <3>3
  <2> QED
    BY <1>3, <1>10, <2>1, <2>2, <2>3 DEF IInv, RecordsFit
<1>15. QED
  BY <1>3, <1>11, <1>12, <1>13, <1>14 DEF IInv

-----------------------------------------------------------------------------
(* The theorems *)

LEMMA InitSafe == Init => IInv
<1> SUFFICES ASSUME Init PROVE IInv
  OBVIOUS
<1>1. NoRecord \in Records /\ NoTurn \in TurnData /\ NoTurn.uid = None /\ NoTurn.hasNext = FALSE
  BY DEF Records, TurnData, NoTurn
<1>2. TypeOK
  <2>1. 0 \in 0..MaxRequests
    BY RequestsAssumption
  <2>2. /\ <<>> \in Seq(Callbacks) /\ <<>> \in Seq(Scores) /\ <<>> \in Seq(Samples)
    BY EmptySeq
  <2>3. verdict \in VerdictTables /\ pendingTurn \in Pends /\ prmTasks \in TaskTables
    BY <1>1 DEF Init, VerdictTables, Pends, TaskTables
  <2> QED
    BY <1>1, <2>1, <2>2, <2>3 DEF Init, TypeOK, VerdictTables, Pends, TaskTables
<1>3. ready = <<>> /\ DOMAIN ready = {} /\ samples = {} /\ inflight = {} /\ turned = {} /\ prmRunning = {}
  BY DEF Init
<1>4. Ids /\ Known
  BY <1>1, <1>3 DEF Init, Ids, Known, UidsIn, UidsOf, SampledUids
<1>5. Once
  BY <1>1, <1>3 DEF Init, Once, Apart, Distinct, UidsIn, UidsOf, SampledUids
<1>6. Paired(pendingTurn, prmTasks) /\ Unused(prmTasks)
  BY <1>1 DEF Init, Paired, Unused
<1>7. RecordsFit /\ OneJudge /\ Rewards
  BY <1>3 DEF Init, RecordsFit, OneJudge, Rewards, OwnVerdict
<1>8. QED
  BY <1>2, <1>4, <1>5, <1>6, <1>7 DEF IInv

\* Every step of the specification preserves the invariant.
LEMMA NextSafe == IInv /\ [Next]_vars => IInv'
<1> SUFFICES ASSUME IInv, [Next]_vars PROVE IInv'
  OBVIOUS
<1>1. CASE UNCHANGED vars
  <2>1. TypeOK' /\ Ids'
    BY <1>1 DEF IInv, TypeOK, Ids, vars, requestVars, turnVars, sampleVars, workerVars
  <2> QED
    BY <1>1, <2>1, QuietSafe DEF vars, requestVars, turnVars, sampleVars
<1>2. CASE ServerNext
  <2>1. ASSUME NEW s \in Sessions, NEW main \in BOOLEAN, NEW done \in BOOLEAN,
               Accept(s, main, done)
        PROVE  IInv'
    BY <2>1, AcceptSafe
  <2>2. ASSUME NEW r \in inflight, SglangFails(r) PROVE IInv'
    BY <2>2, SglangFailsSafe
  <2>3. ASSUME NEW r \in inflight, RespondEmpty(r) PROVE IInv'
    BY <2>3, RespondEmptySafe
  <2>4. ASSUME NEW r \in inflight, RespondMain(r) PROVE IInv'
    BY <2>4, RespondMainSafe
  <2>5. ASSUME NEW r \in inflight, RespondSide(r) PROVE IInv'
    BY <2>5, RespondSideSafe
  <2>6. ASSUME NEW t \in prmRunning, PrmFinish(t) PROVE IInv'
    BY <2>6, PrmFinishSafe
  <2>7. ASSUME NEW x \in putting, Put(x) PROVE IInv'
    BY <2>7, PutSafe
  <2> QED
    BY <1>2, <2>1, <2>2, <2>3, <2>4, <2>5, <2>6, <2>7, RunPrmDoneSafe, RunSubmitSafe
    DEF ServerNext
<1>3. CASE WorkerNext
  BY <1>3, WorkerSafe
<1>4. QED
  BY <1>1, <1>2, <1>3 DEF Next

\* The inductive invariant holds.
THEOREM ServerSafe == Spec => []IInv
  BY InitSafe, NextSafe, PTL DEF Spec

\* Every variable of the proxy keeps its type, whatever the handlers, the PRM
\* tasks and the executor do.
THEOREM ServerTypeOK == Spec => []TypeOK
  BY ServerSafe, PTL DEF IInv

\* _maybe_submit_ready_samples makes at most one sample of a turn, however the
\* handlers, the done callbacks and session_done call it.
THEOREM ServerAtMostOnce == Spec => []AtMostOnce
<1>1. IInv => AtMostOnce
  BY DEF IInv, Once, AtMostOnce, Apart, Distinct, UidsIn, UidsOf, PendingUids, ReadyUids
<1>2. QED
  BY <1>1, ServerSafe, PTL

\* _submit_turn_sample rewards what trains with the verdict on that very turn,
\* even when session ids come back.
THEOREM ServerTrainedOnOwnVerdict == Spec => []TrainedOnOwnVerdict
<1>1. IInv => TrainedOnOwnVerdict
  BY DEF IInv, Rewards, TrainedOnOwnVerdict
<1>2. QED
  BY <1>1, ServerSafe, PTL
=============================================================================
