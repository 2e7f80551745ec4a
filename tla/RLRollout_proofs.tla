-------------------------- MODULE RLRollout_proofs --------------------------
(***************************************************************************)
(* Proofs about the rollout worker composed with the proxy, for any batch  *)
(* size, queue and sessions.  Every step of the composition is a step of   *)
(* the proxy or leaves it alone, so what is proved of the proxy holds      *)
(* here.  The invariant Gathered adds where samples are on their way to    *)
(* the trainer: each is one of the proxy's, in one place, and no two have  *)
(* the same index.  Phased adds what generate_rollout_openjordy knows      *)
(* where it is: the gate is open from resume to pause only, and data is a  *)
(* full and sorted batch from then on.                                     *)
(***************************************************************************)
EXTENDS RLRollout, RLServerSessions_proofs

OnTheWay == putting \cup ToSet(outputQueue) \cup ToSet(completed) \cup ToSet(data) \cup Returned

Numbers ==
  /\ \A x \in samples : x.index < nextIndex
  /\ \A x, y \in samples : x.index = y.index => x = y

Sorted(group) == \A i, j \in 1..Len(group) : i < j => group[i].index < group[j].index

\* The five places of SampleOnItsWayOnce, pair by pair.
FiveApart(p, q, c, d, r) ==
  /\ p \cap q = {} /\ p \cap c = {} /\ p \cap d = {} /\ p \cap r = {}
  /\ q \cap c = {} /\ q \cap d = {} /\ q \cap r = {}
  /\ c \cap d = {} /\ c \cap r = {}
  /\ d \cap r = {}

BatchesApart == \A i, j \in DOMAIN batches :
  i # j => ToSet(batches[i]) \cap ToSet(batches[j]) = {}

Gathered ==
  /\ Numbers
  /\ OnTheWay \subseteq samples
  /\ FiveApart(putting, ToSet(outputQueue), ToSet(completed), ToSet(data), Returned)
  /\ IsInjective(outputQueue) /\ IsInjective(completed) /\ IsInjective(data)
  /\ BatchesApart

Phased ==
  /\ submissionEnabled <=> phase \in {"polling", "pausing"}
  /\ phase \in {"idle", "resuming"} => data = <<>>
  /\ phase = "polling" => Len(data) < BatchSize
  /\ phase \in {"pausing", "metrics"} => Len(data) = BatchSize /\ Sorted(data)
  /\ \A i \in DOMAIN batches : Len(batches[i]) = BatchSize /\ Sorted(batches[i])

-----------------------------------------------------------------------------
(* Sequences without repetition *)

LEMMA AppendOnce ==
  ASSUME NEW X, NEW q \in Seq(X), NEW x \in X, IsInjective(q), x \notin ToSet(q)
  PROVE  /\ Append(q, x) \in Seq(X) /\ IsInjective(Append(q, x))
         /\ ToSet(Append(q, x)) = ToSet(q) \cup {x}
<1>1. DOMAIN q = 1..Len(q) /\ Len(q) \in Nat
  BY LenProperties
<1>2. /\ Append(q, x) \in Seq(X) /\ DOMAIN Append(q, x) = 1..Len(q) + 1
      /\ \A i \in 1..Len(q) : Append(q, x)[i] = q[i]
      /\ Append(q, x)[Len(q) + 1] = x
  BY AppendProperties, LenProperties
<1>3. \A i \in 1..Len(q) + 1 : i \in 1..Len(q) \/ i = Len(q) + 1
  BY <1>1
<1>4. IsInjective(Append(q, x))
  BY <1>1, <1>2, <1>3 DEF IsInjective, ToSet
<1>5. ToSet(Append(q, x)) = ToSet(q) \cup {x}
  <2>1. \A y \in ToSet(q) : \E i \in 1..Len(q) + 1 : Append(q, x)[i] = y
    BY <1>1, <1>2 DEF ToSet
  <2>2. Len(q) + 1 \in 1..Len(q) + 1
    BY <1>1
  <2> QED
    BY <1>1, <1>2, <1>3, <2>1, <2>2 DEF ToSet
<1>6. QED
  BY <1>2, <1>4, <1>5

LEMMA TakeOnce ==
  ASSUME NEW X, NEW q \in Seq(X), IsInjective(q), q # <<>>
  PROVE  /\ Head(q) \in X /\ Head(q) \in ToSet(q)
         /\ Tail(q) \in Seq(X) /\ IsInjective(Tail(q))
         /\ ToSet(Tail(q)) = ToSet(q) \ {Head(q)}
<1>1. /\ DOMAIN q = 1..Len(q) /\ Len(q) \in Nat \ {0} /\ Head(q) = q[1] /\ Head(q) \in X
      /\ Tail(q) \in Seq(X) /\ DOMAIN Tail(q) = 1..Len(q) - 1
      /\ \A i \in 1..Len(q) - 1 : Tail(q)[i] = q[i + 1]
  BY EmptySeq, LenProperties, HeadTailProperties
<1>2. 1 \in DOMAIN q /\ \A i \in 1..Len(q) - 1 : i + 1 \in DOMAIN q /\ i + 1 # 1
  BY <1>1
<1>3. IsInjective(Tail(q))
  BY <1>1, <1>2 DEF IsInjective
<1>4. ASSUME NEW y \in ToSet(q), y # Head(q) PROVE y \in ToSet(Tail(q))
  <2>1. PICK i \in DOMAIN q : q[i] = y
    BY <1>4 DEF ToSet
  <2>2. i - 1 \in 1..Len(q) - 1 /\ (i - 1) + 1 = i
    BY <1>1, <1>4, <2>1
  <2>3. Tail(q)[i - 1] = y
    BY <1>1, <2>1, <2>2
  <2> QED
    BY <1>1, <2>2, <2>3 DEF ToSet
<1>5. \A y \in ToSet(Tail(q)) : y \in ToSet(q) /\ y # Head(q)
  BY <1>1, <1>2 DEF ToSet, IsInjective
<1>6. Head(q) \in ToSet(q)
  BY <1>1, <1>2 DEF ToSet
<1>7. QED
  BY <1>1, <1>3, <1>4, <1>5, <1>6

\* The first n of q go to the end of p, the others stay.
LEMMA MoveOnce ==
  ASSUME NEW X, NEW p \in Seq(X), NEW q \in Seq(X), IsInjective(p), IsInjective(q),
         ToSet(p) \cap ToSet(q) = {}, NEW n \in 0..Len(q)
  PROVE  LET moved == p \o SubSeq(q, 1, n)
             left == SubSeq(q, n + 1, Len(q))
         IN  /\ moved \in Seq(X) /\ left \in Seq(X)
             /\ IsInjective(moved) /\ IsInjective(left)
             /\ Len(moved) = Len(p) + n
             /\ ToSet(moved) \cap ToSet(left) = {}
             /\ ToSet(moved) \cup ToSet(left) \subseteq ToSet(p) \cup ToSet(q)
<1> DEFINE first == SubSeq(q, 1, n)
           moved == p \o first
           left == SubSeq(q, n + 1, Len(q))
<1>1. /\ DOMAIN p = 1..Len(p) /\ Len(p) \in Nat
      /\ DOMAIN q = 1..Len(q) /\ Len(q) \in Nat /\ n \in Nat /\ n <= Len(q)
  BY LenProperties
<1>2. /\ first \in Seq(X) /\ Len(first) = n
      /\ \A i \in 1..n : first[i] = q[i]
  <2>1. 1 \in 1..Len(q) + 1 /\ n \in 0..Len(q) /\ \A i \in 1..n : 1 + i - 1 = i
    BY <1>1
  <2>2. /\ first \in Seq(X)
        /\ Len(first) = IF 1 <= n THEN n - 1 + 1 ELSE 0
        /\ \A i \in 1..n - 1 + 1 : first[i] = q[1 + i - 1]
    BY <1>1, <2>1, SubSeqProperties
  <2> QED
    BY <1>1, <2>1, <2>2
<1>3. /\ left \in Seq(X) /\ DOMAIN left = 1..Len(q) - n
      /\ \A i \in 1..Len(q) - n : left[i] = q[n + i]
  <2>1. n + 1 \in 1..Len(q) + 1 /\ Len(q) \in n..Len(q)
    BY <1>1
  <2>2. /\ left \in Seq(X)
        /\ Len(left) = IF n + 1 <= Len(q) THEN Len(q) - (n + 1) + 1 ELSE 0
        /\ \A i \in 1..Len(q) - (n + 1) + 1 : left[i] = q[(n + 1) + i - 1]
    BY <1>1, <2>1, SubSeqProperties
  <2> HIDE DEF first, moved, left
  <2>3. Len(left) = Len(q) - n
    <3>1. \A k, m \in Nat : m <= k => k - m = IF m + 1 <= k THEN k - (m + 1) + 1 ELSE 0
      OBVIOUS
    <3>2. Len(q) - n = IF n + 1 <= Len(q) THEN Len(q) - (n + 1) + 1 ELSE 0
      BY <1>1, <3>1
    <3> QED
      BY <2>2, <3>2
  <2>4. \A i \in 1..Len(q) - n : i \in 1..Len(q) - (n + 1) + 1 /\ (n + 1) + i - 1 = n + i
    BY <1>1
  <2>5. DOMAIN left = 1..Len(left)
    BY <2>2, LenProperties
  <2> QED
    BY <2>2, <2>3, <2>4, <2>5
<1> HIDE DEF first, left
<1>4. /\ moved \in Seq(X) /\ Len(moved) = Len(p) + n /\ DOMAIN moved = 1..Len(p) + n
      /\ \A i \in 1..Len(p) + n :
           \/ i \in DOMAIN p /\ moved[i] = p[i]
           \/ i > Len(p) /\ i - Len(p) \in 1..n /\ moved[i] = q[i - Len(p)]
  <2>1. /\ moved \in Seq(X) /\ Len(moved) = Len(p) + n
        /\ \A i \in 1..Len(p) + n : moved[i] = IF i <= Len(p) THEN p[i] ELSE first[i - Len(p)]
    BY <1>2, ConcatProperties
  <2>2. DOMAIN moved = 1..Len(moved)
    BY <2>1, LenProperties
  <2> HIDE DEF moved
  <2>3. \A i \in 1..Len(p) + n : i \in 1..Len(p) \/ (i > Len(p) /\ i - Len(p) \in 1..n)
    BY <1>1
  <2>4. ASSUME NEW i \in 1..Len(p) + n
        PROVE  \/ i \in DOMAIN p /\ moved[i] = p[i]
               \/ i > Len(p) /\ i - Len(p) \in 1..n /\ moved[i] = q[i - Len(p)]
    <3>1. CASE i \in 1..Len(p)
      BY <1>1, <2>1, <3>1
    <3>2. CASE i > Len(p) /\ i - Len(p) \in 1..n
      BY <1>1, <1>2, <2>1, <3>2
    <3> QED
      BY <2>3, <3>1, <3>2
  <2> QED
    BY <2>1, <2>2, <2>4
<1> HIDE DEF moved
<1>5. /\ \A i \in 1..n : i \in DOMAIN q
      /\ \A i \in 1..Len(q) - n : n + i \in DOMAIN q /\ n + i \notin 1..n
  BY <1>1
<1>6. IsInjective(moved)
  <2> SUFFICES ASSUME NEW i \in DOMAIN moved, NEW j \in DOMAIN moved, moved[i] = moved[j]
               PROVE  i = j
    BY DEF IsInjective
  <2>1. CASE i \in DOMAIN p /\ moved[i] = p[i] /\ j \in DOMAIN p /\ moved[j] = p[j]
    BY <2>1 DEF IsInjective
  <2>2. CASE /\ i > Len(p) /\ i - Len(p) \in 1..n /\ moved[i] = q[i - Len(p)]
             /\ j > Len(p) /\ j - Len(p) \in 1..n /\ moved[j] = q[j - Len(p)]
    <3>1. i - Len(p) = j - Len(p)
      BY <1>5, <2>2 DEF IsInjective
    <3> QED
      BY <1>1, <1>4, <3>1
  <2>3. CASE \/ /\ i \in DOMAIN p /\ moved[i] = p[i]
                /\ j - Len(p) \in 1..n /\ moved[j] = q[j - Len(p)]
             \/ /\ j \in DOMAIN p /\ moved[j] = p[j]
                /\ i - Len(p) \in 1..n /\ moved[i] = q[i - Len(p)]
    BY <1>5, <2>3 DEF ToSet
  <2> QED
    BY <1>4, <2>1, <2>2, <2>3
<1>7. IsInjective(left)
  <2>1. \A i, j \in 1..Len(q) - n : n + i = n + j => i = j
    BY <1>1
  <2> QED
    BY <1>3, <1>5, <2>1 DEF IsInjective
<1>8. \A x \in ToSet(moved) : x \in ToSet(p) \/ \E i \in 1..n : x = q[i]
  BY <1>4 DEF ToSet
<1>9. \A x \in ToSet(left) : \E i \in 1..Len(q) - n : x = q[n + i]
  BY <1>3 DEF ToSet
<1>10. ToSet(moved) \cup ToSet(left) \subseteq ToSet(p) \cup ToSet(q)
  BY <1>5, <1>8, <1>9 DEF ToSet
<1>11. ToSet(moved) \cap ToSet(left) = {}
  <2> SUFFICES ASSUME NEW x \in ToSet(moved), x \in ToSet(left) PROVE FALSE
    OBVIOUS
  <2>1. PICK j \in 1..Len(q) - n : x = q[n + j]
    BY <1>9
  <2>2. x \in ToSet(q)
    BY <1>5, <2>1 DEF ToSet
  <2>3. PICK i \in 1..n : x = q[i]
    BY <1>8, <2>2
  <2> QED
    BY <1>5, <2>1, <2>3 DEF IsInjective
<1>12. QED
  BY <1>3, <1>4, <1>6, <1>7, <1>10, <1>11 DEF moved, first, left

\* Sorting a group of samples with different indices.
LEMMA SortOnce ==
  ASSUME NEW g \in Seq(Samples), IsInjective(g),
         \A x, y \in ToSet(g) : x.index = y.index => x = y
  PROVE  /\ ByIndex(g) \in Seq(Samples) /\ IsInjective(ByIndex(g))
         /\ Len(ByIndex(g)) = Len(g) /\ ToSet(ByIndex(g)) = ToSet(g) /\ Sorted(ByIndex(g))
<1> DEFINE n == Len(g)
           I == {x.index : x \in ToSet(g)}
           b == [i \in 1..n |-> g[i].index]
<1>1. n \in Nat /\ DOMAIN g = 1..n /\ \A i \in 1..n : g[i] \in Samples
  BY LenProperties, ElementOfSeq
<1>2. ToSet(g) \subseteq Samples /\ \A x \in ToSet(g) : x.index \in Nat
  BY <1>1 DEF ToSet, Samples
<1>3. IsFiniteSet(I) /\ Cardinality(I) = n /\ I \in SUBSET Nat
  <2>1. b \in Bijection(1..n, I)
    <3>1. b \in [1..n -> I]
      BY <1>1 DEF ToSet
    <3>2. IsInjective(b)
      BY <1>1 DEF IsInjective, ToSet
    <3>3. \A k \in I : \E i \in 1..n : b[i] = k
      BY <1>1 DEF ToSet
    <3> QED
      BY <3>1, <3>2, <3>3 DEF Bijection, Injection, Surjection
  <2>2. IsFiniteSet(1..n) /\ Cardinality(1..n) = n
    BY <1>1, FS_Interval
  <2>3. ExistsBijection(1..n, I)
    BY <2>1 DEF ExistsBijection
  <2> QED
    BY <1>2, <2>2, <2>3, FS_Bijection
<1>4. PICK o : o \in InTurnOrder(I)
  BY <1>3, OrderExists
<1>5. o \in [1..n -> I] /\ Range(o) = I /\ \A i, j \in 1..n : i < j => o[i] < o[j]
  BY <1>3, <1>4 DEF InTurnOrder
<1> DEFINE q == [i \in 1..n |-> CHOOSE x \in ToSet(g) : x.index = o[i]]
<1>6. \A i \in 1..n : q[i] \in ToSet(g) /\ q[i].index = o[i]
  BY <1>5
<1>7. q \in [1..n -> ToSet(g)] /\ \A i, j \in DOMAIN q : i < j => q[i].index < q[j].index
  BY <1>5, <1>6
<1> HIDE DEF q
<1>8. ToSet(q) = ToSet(g)
  <2>1. ASSUME NEW x \in ToSet(g) PROVE x \in ToSet(q)
    <3>1. PICK i \in 1..n : o[i] = x.index
      BY <1>5 DEF Range
    <3>2. q[i] = x
      BY <1>6, <3>1
    <3> QED
      BY <1>7, <3>2 DEF ToSet
  <2> QED
    BY <1>7, <2>1 DEF ToSet
<1> DEFINE sorted == ByIndex(g)
<1>9. /\ sorted \in [1..n -> ToSet(g)] /\ ToSet(sorted) = ToSet(g)
      /\ \A i, j \in DOMAIN sorted : i < j => sorted[i].index < sorted[j].index
  BY <1>7, <1>8 DEF ByIndex
<1> HIDE DEF sorted
<1>10. sorted \in Seq(Samples) /\ Len(sorted) = n
  <2>1. sorted \in [1..n -> Samples]
    BY <1>2, <1>9
  <2>2. sorted \in Seq(Samples)
    BY <1>1, <2>1, SeqDef
  <2> QED
    BY <1>1, <1>9, <2>2, LenProperties
<1>11. \A i \in 1..n : sorted[i].index \in Nat
  BY <1>2, <1>9
<1>12. IsInjective(sorted)
  <2> SUFFICES ASSUME NEW i \in 1..n, NEW j \in 1..n, sorted[i] = sorted[j], i # j PROVE FALSE
    BY <1>9 DEF IsInjective
  <2>1. i < j \/ j < i
    BY <1>1
  <2> QED
    BY <1>9, <1>11, <2>1
<1>13. QED
  BY <1>9, <1>10, <1>12 DEF sorted, Sorted

-----------------------------------------------------------------------------
(* The composition and the proxy *)

\* A step of the composition is a step of the proxy or changes nothing of it.
LEMMA StepOfProxy == [RolloutNext]_allVars => [Next]_vars
<1>1. ServerNext => Next
  BY DEF Next
<1>2. StartRollout \/ ReturnBatch => WorkerNext
  BY DEF StartRollout, ReturnBatch, WorkerNext
<1>3. ResumeSubmission \/ GetGroup \/ PauseSubmission => WorkerNext
  BY DEF ResumeSubmission, GetGroup, PauseSubmission, WorkerNext
<1>4. Assemble => UNCHANGED vars
  BY DEF Assemble
<1>5. QED
  BY <1>1, <1>2, <1>3, <1>4 DEF RolloutNext, WorkerStep, allVars, Next

\* The worker's calls are among those the proxy is proved for: with the worker
\* at its side the proxy implements its own specification.
THEOREM RolloutKeepsProxy == RolloutSpec => Spec
<1>1. RolloutInit => Init
  BY DEF RolloutInit
<1>2. QED
  BY <1>1, StepOfProxy, PTL DEF RolloutSpec, Spec

-----------------------------------------------------------------------------
(* Steps *)

Safe == IInv /\ RolloutTypeOK /\ Gathered /\ Phased

LEMMA Places ==
  ASSUME Safe
  PROVE  /\ putting \subseteq Samples /\ samples \subseteq Samples
         /\ outputQueue \in Seq(Samples) /\ completed \in Seq(Samples) /\ data \in Seq(Samples)
         /\ batches \in Seq(Seq(Samples)) /\ nextIndex \in Nat
  BY DEF Safe, IInv, TypeOK, RolloutTypeOK

\* Steps of the proxy that make no sample and put none.
LEMMA ElsewhereSafe ==
  ASSUME Safe, IInv', UNCHANGED <<submissionEnabled, outputQueue, putting, samples, nextIndex>>,
         UNCHANGED rolloutVars
  PROVE  Safe'
<1>1. UNCHANGED <<phase, completed, data, batches, Returned, OnTheWay>>
  BY DEF rolloutVars, Returned, OnTheWay
<1>2. QED
  BY <1>1 DEF Safe, RolloutTypeOK, Gathered, Numbers, BatchesApart, Phased

LEMMA NewSampleSafe ==
  ASSUME Safe, IInv', RunSubmit, UNCHANGED rolloutVars
  PROVE  Safe'
<1> DEFINE call == Head(ready)
           sample == [index |-> nextIndex, session |-> call.session, uid |-> call.uid,
                      hasNext |-> call.hasNext, judge |-> call.judge,
                      score |-> call.score, trained |-> Trains(call)]
<1>1. /\ samples' = samples \cup {sample} /\ putting' = putting \cup {sample}
      /\ nextIndex' = nextIndex + 1
      /\ UNCHANGED <<submissionEnabled, outputQueue, phase, completed, data, batches, Returned>>
  BY DEF RunSubmit, workerVars, rolloutVars, Returned
<1>2. sample.index = nextIndex
  OBVIOUS
<1> HIDE DEF sample
<1>3. \A x \in samples : x.index \in Nat
  BY Places DEF Samples
<1>4. Numbers' /\ sample \notin samples
  BY <1>1, <1>2, <1>3, Places DEF Safe, Gathered, Numbers
<1>5. OnTheWay' \subseteq samples' /\ sample \notin OnTheWay
  BY <1>1, <1>4 DEF Safe, Gathered, OnTheWay
<1>6. FiveApart(putting, ToSet(outputQueue), ToSet(completed), ToSet(data), Returned)'
  BY <1>1, <1>5 DEF Safe, Gathered, FiveApart, OnTheWay
<1>7. QED
  BY <1>1, <1>4, <1>5, <1>6 DEF Safe, RolloutTypeOK, Gathered, BatchesApart, Phased

LEMMA PutSampleSafe ==
  ASSUME Safe, IInv', NEW x \in putting, Put(x), UNCHANGED rolloutVars
  PROVE  Safe'
<1>1. /\ outputQueue' = Append(outputQueue, x) /\ putting' = putting \ {x}
      /\ UNCHANGED <<submissionEnabled, nextIndex, samples, phase, completed, data, batches, Returned>>
  BY DEF Put, rolloutVars, Returned
<1>2. x \in Samples /\ x \notin ToSet(outputQueue)
  BY Places DEF Safe, Gathered, FiveApart
<1>3. IsInjective(outputQueue)' /\ ToSet(outputQueue)' = ToSet(outputQueue) \cup {x}
  BY <1>1, <1>2, Places, AppendOnce DEF Safe, Gathered
<1>4. OnTheWay' \subseteq samples'
  BY <1>1, <1>3 DEF Safe, Gathered, OnTheWay
<1>5. FiveApart(putting, ToSet(outputQueue), ToSet(completed), ToSet(data), Returned)'
  BY <1>1, <1>3 DEF Safe, Gathered, FiveApart
<1>6. QED
  BY <1>1, <1>3, <1>4, <1>5 DEF Safe, RolloutTypeOK, Gathered, Numbers, BatchesApart, Phased

LEMMA ServerStepSafe ==
  ASSUME Safe, IInv', ServerNext, UNCHANGED rolloutVars
  PROVE  Safe'
<1>1. ASSUME NEW s \in Sessions, NEW main \in BOOLEAN, NEW done \in BOOLEAN, Accept(s, main, done)
      PROVE  Safe'
  BY <1>1, ElsewhereSafe DEF Accept, sampleVars, workerVars
<1>2. ASSUME NEW r \in inflight, \/ SglangFails(r) \/ RespondEmpty(r)
                                 \/ RespondMain(r) \/ RespondSide(r)
      PROVE  Safe'
  BY <1>2, ElsewhereSafe DEF SglangFails, RespondEmpty, RespondMain, RespondSide, sampleVars, workerVars
<1>3. ASSUME NEW t \in prmRunning, PrmFinish(t) PROVE Safe'
  BY <1>3, ElsewhereSafe DEF PrmFinish, sampleVars, workerVars
<1>4. CASE RunPrmDone
  BY <1>4, ElsewhereSafe DEF RunPrmDone, sampleVars, workerVars
<1>5. CASE RunSubmit
  BY <1>5, NewSampleSafe
<1>6. ASSUME NEW x \in putting, Put(x) PROVE Safe'
  BY <1>6, PutSampleSafe
<1>7. QED
  BY <1>1, <1>2, <1>3, <1>4, <1>5, <1>6 DEF ServerNext

LEMMA StartRolloutSafe ==
  ASSUME Safe, IInv', StartRollout
  PROVE  Safe'
<1>1. /\ phase = "idle" /\ phase' = "resuming"
      /\ UNCHANGED <<submissionEnabled, outputQueue, putting, samples, nextIndex,
                     completed, data, batches, Returned, OnTheWay>>
  BY DEF StartRollout, ClearEvalScores, workerVars, Returned, OnTheWay
<1>2. QED
  BY <1>1 DEF Safe, RolloutTypeOK, Phases, Gathered, Numbers, BatchesApart, Phased

LEMMA ResumeSafe ==
  ASSUME Safe, IInv', ResumeSubmission
  PROVE  Safe'
<1>1. /\ phase = "resuming" /\ phase' = "polling" /\ submissionEnabled' = TRUE
      /\ UNCHANGED <<outputQueue, putting, samples, nextIndex,
                     completed, data, batches, Returned, OnTheWay>>
  BY DEF ResumeSubmission, Resume, sampleVars, Returned, OnTheWay
<1>2. Len(data) = 0 /\ BatchSize > 0
  BY <1>1, BatchAssumption, EmptySeq DEF Safe, Phased
<1>3. QED
  BY <1>1, <1>2 DEF Safe, RolloutTypeOK, Phases, Gathered, Numbers, BatchesApart, Phased

LEMMA GetGroupSafe ==
  ASSUME Safe, IInv', GetGroup
  PROVE  Safe'
<1>1. /\ outputQueue # <<>> /\ outputQueue' = Tail(outputQueue)
      /\ completed' = Append(completed, Head(outputQueue))
      /\ UNCHANGED <<submissionEnabled, putting, samples, nextIndex, phase, data, batches, Returned>>
  BY DEF GetGroup, Take, sampleVars, Returned
<1>2. /\ Head(outputQueue) \in Samples /\ Head(outputQueue) \in ToSet(outputQueue)
      /\ IsInjective(outputQueue)'
      /\ ToSet(outputQueue)' = ToSet(outputQueue) \ {Head(outputQueue)}
  BY <1>1, Places, TakeOnce DEF Safe, Gathered
<1>3. Head(outputQueue) \notin ToSet(completed)
  BY <1>2 DEF Safe, Gathered, FiveApart
<1>4. /\ completed' \in Seq(Samples) /\ IsInjective(completed)'
      /\ ToSet(completed)' = ToSet(completed) \cup {Head(outputQueue)}
  BY <1>1, <1>2, <1>3, Places, AppendOnce DEF Safe, Gathered
<1>5. OnTheWay' \subseteq samples'
  BY <1>1, <1>2, <1>4 DEF Safe, Gathered, OnTheWay
<1>6. FiveApart(putting, ToSet(outputQueue), ToSet(completed), ToSet(data), Returned)'
  BY <1>1, <1>2, <1>4 DEF Safe, Gathered, FiveApart
<1>7. QED
  BY <1>1, <1>2, <1>4, <1>5, <1>6
     DEF Safe, RolloutTypeOK, Gathered, Numbers, BatchesApart, Phased

LEMMA AssembleSafe ==
  ASSUME Safe, IInv', Assemble
  PROVE  Safe'
<1> DEFINE missing == BatchSize - Len(data)
           count == IF Len(completed) < missing THEN Len(completed) ELSE missing
           batch == data \o SubSeq(completed, 1, count)
           left == SubSeq(completed, count + 1, Len(completed))
           full == Len(batch) = BatchSize
<1>1. /\ phase = "polling" /\ phase' = IF full THEN "pausing" ELSE "polling"
      /\ data' = IF full THEN ByIndex(batch) ELSE batch
      /\ completed' = IF full THEN <<>> ELSE left
      /\ UNCHANGED <<submissionEnabled, outputQueue, putting, samples, nextIndex, batches, Returned>>
  BY DEF Assemble, vars, workerVars, sampleVars, Returned
<1>2. /\ count \in 0..Len(completed) /\ count <= missing
      /\ Len(data) \in Nat /\ BatchSize \in Nat
  <2>1. Len(data) \in Nat /\ Len(completed) \in Nat /\ BatchSize \in Nat /\ Len(data) < BatchSize
    BY <1>1, Places, LenProperties, BatchAssumption DEF Safe, Phased
  <2> QED
    BY <2>1
<1>3. /\ batch \in Seq(Samples) /\ left \in Seq(Samples)
      /\ IsInjective(batch) /\ IsInjective(left)
      /\ Len(batch) = Len(data) + count
      /\ ToSet(batch) \cap ToSet(left) = {}
      /\ ToSet(batch) \cup ToSet(left) \subseteq ToSet(data) \cup ToSet(completed)
  <2>1. IsInjective(data) /\ IsInjective(completed) /\ ToSet(data) \cap ToSet(completed) = {}
    BY DEF Safe, Gathered, FiveApart
  <2> HIDE DEF count
  <2> QED
    BY <1>2, <2>1, Places, MoveOnce
<1> HIDE DEF batch, left, count, missing
<1>4. ToSet(<<>>) = {} /\ IsInjective(<<>>) /\ <<>> \in Seq(Samples)
  BY DEF ToSet, IsInjective
<1>5. \A x, y \in ToSet(batch) : x.index = y.index => x = y
  BY <1>3 DEF Safe, Gathered, Numbers, OnTheWay
<1>6. /\ ByIndex(batch) \in Seq(Samples) /\ IsInjective(ByIndex(batch))
      /\ Len(ByIndex(batch)) = Len(batch) /\ ToSet(ByIndex(batch)) = ToSet(batch)
      /\ Sorted(ByIndex(batch))
  BY <1>3, <1>5, SortOnce
<1>7. /\ data' \in Seq(Samples) /\ IsInjective(data)' /\ ToSet(data)' = ToSet(batch)
      /\ completed' \in Seq(Samples) /\ IsInjective(completed)'
      /\ ToSet(completed)' \subseteq ToSet(left)
  BY <1>1, <1>3, <1>4, <1>6
<1>8. Phased'
  <2>1. CASE full
    BY <1>1, <1>6, <2>1 DEF Safe, Phased
  <2>2. CASE ~full
    <3>1. Len(batch) < BatchSize
      BY <1>2, <1>3, <2>2 DEF missing
    <3> QED
      BY <1>1, <2>2, <3>1 DEF Safe, Phased
  <2> QED
    BY <2>1, <2>2
<1>9. OnTheWay' \subseteq samples'
  BY <1>1, <1>3, <1>7 DEF Safe, Gathered, OnTheWay
<1>10. FiveApart(putting, ToSet(outputQueue), ToSet(completed), ToSet(data), Returned)'
  <2>1. /\ ToSet(data)' \subseteq ToSet(data) \cup ToSet(completed)
        /\ ToSet(completed)' \subseteq ToSet(data) \cup ToSet(completed)
        /\ ToSet(data)' \cap ToSet(completed)' = {}
    BY <1>3, <1>7
  <2>2. UNCHANGED <<putting, Returned>> /\ ToSet(outputQueue)' = ToSet(outputQueue)
    BY <1>1
  <2> QED
    BY <2>1, <2>2 DEF Safe, Gathered, FiveApart
<1>11. RolloutTypeOK'
  BY <1>1, <1>7 DEF Safe, RolloutTypeOK, Phases
<1>12. QED
  BY <1>1, <1>7, <1>8, <1>9, <1>10, <1>11 DEF Safe, Gathered, Numbers, BatchesApart

LEMMA PauseSafe ==
  ASSUME Safe, IInv', PauseSubmission
  PROVE  Safe'
<1>1. /\ phase = "pausing" /\ phase' = "metrics" /\ submissionEnabled' = FALSE
      /\ UNCHANGED <<outputQueue, putting, samples, nextIndex,
                     completed, data, batches, Returned, OnTheWay>>
  BY DEF PauseSubmission, Pause, sampleVars, Returned, OnTheWay
<1>2. QED
  BY <1>1 DEF Safe, RolloutTypeOK, Phases, Gathered, Numbers, BatchesApart, Phased

LEMMA ReturnSafe ==
  ASSUME Safe, IInv', ReturnBatch
  PROVE  Safe'
<1>1. /\ phase = "metrics" /\ phase' = "idle" /\ data' = <<>> /\ batches' = Append(batches, data)
      /\ UNCHANGED <<submissionEnabled, outputQueue, putting, samples, nextIndex, completed>>
  BY DEF ReturnBatch, ClearEvalScores, workerVars
<1>2. ToSet(<<>>) = {} /\ IsInjective(<<>>) /\ <<>> \in Seq(Samples)
  BY DEF ToSet, IsInjective
<1>3. /\ batches' \in Seq(Seq(Samples)) /\ Len(batches) \in Nat
      /\ DOMAIN batches = 1..Len(batches) /\ DOMAIN batches' = 1..Len(batches) + 1
      /\ \A i \in 1..Len(batches) : batches'[i] = batches[i]
      /\ batches'[Len(batches) + 1] = data
  BY <1>1, Places, AppendProperties, LenProperties
<1>4. \A i \in DOMAIN batches' : \/ i \in DOMAIN batches /\ batches'[i] = batches[i]
                                 \/ i = Len(batches) + 1 /\ batches'[i] = data
  BY <1>3
<1>5. Returned' = Returned \cup ToSet(data)
  <2>1. \A x \in Returned' : x \in Returned \cup ToSet(data)
    BY <1>4 DEF Returned
  <2>2. \A x \in Returned : x \in Returned'
    BY <1>3 DEF Returned
  <2>3. \A x \in ToSet(data) : x \in Returned'
    BY <1>3 DEF Returned
  <2> QED
    BY <2>1, <2>2, <2>3
<1>6. BatchesApart'
  <2>1. \A i \in DOMAIN batches : ToSet(batches[i]) \cap ToSet(data) = {}
    BY DEF Safe, Gathered, FiveApart, Returned
  <2> QED
    BY <1>4, <2>1 DEF Safe, Gathered, BatchesApart
<1>7. OnTheWay' \subseteq samples'
  BY <1>1, <1>2, <1>5 DEF Safe, Gathered, OnTheWay
<1>8. FiveApart(putting, ToSet(outputQueue), ToSet(completed), ToSet(data), Returned)'
  <2>1. ToSet(data)' = {} /\ UNCHANGED <<putting, completed>> /\ ToSet(outputQueue)' = ToSet(outputQueue)
    BY <1>1, <1>2
  <2> QED
    BY <1>5, <2>1 DEF Safe, Gathered, FiveApart
<1>9. Phased'
  BY <1>1, <1>4 DEF Safe, Phased
<1>10. RolloutTypeOK'
  BY <1>1, <1>2, <1>3 DEF Safe, RolloutTypeOK, Phases
<1>11. QED
  BY <1>1, <1>2, <1>6, <1>7, <1>8, <1>9, <1>10 DEF Safe, Gathered, Numbers

LEMMA RolloutInitSafe == RolloutInit => Safe
<1> SUFFICES ASSUME RolloutInit PROVE Safe
  OBVIOUS
<1>1. IInv
  BY InitSafe DEF RolloutInit
<1>2. /\ samples = {} /\ putting = {} /\ outputQueue = <<>> /\ submissionEnabled = FALSE
      /\ completed = <<>> /\ data = <<>> /\ batches = <<>> /\ phase = "idle"
  BY DEF RolloutInit, Init
<1>3. ToSet(<<>>) = {} /\ IsInjective(<<>>) /\ Returned = {}
  BY <1>2 DEF ToSet, IsInjective, Returned
<1>4. RolloutTypeOK
  BY <1>2 DEF RolloutTypeOK, Phases
<1>5. Gathered
  BY <1>2, <1>3 DEF Gathered, Numbers, OnTheWay, FiveApart, BatchesApart
<1>6. QED
  BY <1>1, <1>2, <1>4, <1>5 DEF Safe, Phased

LEMMA RolloutNextSafe == Safe /\ [RolloutNext]_allVars => Safe'
<1> SUFFICES ASSUME Safe, [RolloutNext]_allVars PROVE Safe'
  OBVIOUS
<1>1. IInv'
  BY StepOfProxy, NextSafe DEF Safe
<1>2. CASE UNCHANGED allVars
  BY <1>1, <1>2, ElsewhereSafe DEF allVars, vars, workerVars, sampleVars
<1>3. CASE WorkerStep
  BY <1>1, <1>3, StartRolloutSafe, ResumeSafe, GetGroupSafe, AssembleSafe, PauseSafe, ReturnSafe
     DEF WorkerStep
<1>4. CASE ServerNext /\ UNCHANGED rolloutVars
  BY <1>1, <1>4, ServerStepSafe
<1>5. QED
  BY <1>2, <1>3, <1>4 DEF RolloutNext

-----------------------------------------------------------------------------
(* Theorems *)

\* The inductive invariant of the rollout worker and the proxy.
THEOREM RolloutSafe == RolloutSpec => []Safe
  BY RolloutInitSafe, RolloutNextSafe, PTL DEF RolloutSpec

\* The worker's variables keep their types.
THEOREM RolloutTypes == RolloutSpec => []RolloutTypeOK
  BY RolloutSafe, PTL DEF Safe

\* The samples of _submit_turn_sample, the executor's puts, the queue,
\* completed_groups and the batches are one way: a sample is at one place of it,
\* and no batch repeats one.
THEOREM RolloutTrainsOnce == RolloutSpec => []SampleOnItsWayOnce
<1>1. Safe => SampleOnItsWayOnce
  <2> SUFFICES ASSUME Safe PROVE SampleOnItsWayOnce
    OBVIOUS
  <2> DEFINE places == <<putting, ToSet(outputQueue), ToSet(completed), ToSet(data), Returned>>
  <2>1. DOMAIN places = {1, 2, 3, 4, 5}
    OBVIOUS
  <2>2. \A i, j \in DOMAIN places : i # j => places[i] \cap places[j] = {}
    BY <2>1 DEF Safe, Gathered, FiveApart
  <2> QED
    BY <2>2 DEF Safe, Gathered, BatchesApart, SampleOnItsWayOnce
<1>2. QED
  BY <1>1, RolloutSafe, PTL

\* What generate_rollout_openjordy returns has rollout_batch_size samples,
\* sorted by index, whatever the order of their puts.
THEOREM RolloutBatchesComplete == RolloutSpec => []BatchesComplete
<1>1. Safe => BatchesComplete
  <2>1. \A j \in 1..BatchSize - 1 : j \in 1..BatchSize /\ j + 1 \in 1..BatchSize /\ j < j + 1
    BY BatchAssumption
  <2> QED
    BY <2>1 DEF Safe, Phased, Sorted, BatchesComplete
<1>2. QED
  BY <1>1, RolloutSafe, PTL

\* No request passes the gate of chat_completions between pause_submission and
\* the next resume_submission, while the trainer may update the weights.
THEOREM RolloutPausesBetween == RolloutSpec => PausedBetweenRollouts
<1>1. Safe /\ [RolloutNext]_allVars
        => [accepted' # accepted => phase \notin {"idle", "resuming", "metrics"}]_allVars
  <2> SUFFICES ASSUME Safe, RolloutNext, accepted' # accepted
               PROVE  phase \notin {"idle", "resuming", "metrics"}
    OBVIOUS
  <2>1. ~WorkerNext
    BY DEF WorkerNext, Resume, Pause, ClearEvalScores, Take, requestVars
  <2>2. ServerNext
    BY <2>1 DEF RolloutNext, WorkerStep, StartRollout, ReturnBatch, ResumeSubmission, GetGroup,
                PauseSubmission, WorkerNext, Assemble, vars, requestVars
  <2>3. \E s \in Sessions, main, done \in BOOLEAN : Accept(s, main, done)
    BY <2>2 DEF ServerNext, SglangFails, RespondEmpty, RespondMain, RespondSide, Answered, Failed,
                PrmFinish, RunPrmDone, RunSubmit, Put, requestVars
  <2>4. submissionEnabled
    BY <2>3 DEF Accept
  <2> QED
    BY <2>4 DEF Safe, Phased
<1>2. QED
  BY <1>1, RolloutSafe, PTL DEF RolloutSpec, PausedBetweenRollouts

\* What the trainer gets to train on is rewarded with the verdict on that very
\* turn: the way from the proxy to the batches loses no reward and mixes none up.
THEOREM TrainerGetsOwnVerdicts ==
  RolloutSpec => [](\A x \in Returned : x.trained => x.judge = x.uid /\ x.score = verdict[x.uid])
<1>1. Safe => \A x \in Returned : x.trained => x.judge = x.uid /\ x.score = verdict[x.uid]
  BY DEF Safe, Gathered, OnTheWay, IInv, Rewards
<1>2. QED
  BY <1>1, RolloutSafe, PTL

\* The worker's gate and its polling leave the turns to the proxy: the
\* composition implements TurnLife as the proxy alone does.
THEOREM RolloutImplementsTurnLife == RolloutSpec => LifeSpec
  BY RolloutKeepsProxy, ServerImplementsTurnLife, PTL
=============================================================================
