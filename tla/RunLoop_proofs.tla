--------------------------- MODULE RunLoop_proofs ---------------------------
(***************************************************************************)
(* Proofs about the command lanes under the gateway's run loop, for any    *)
(* sessions, turns, limits and signals.  The invariant Sound says where an *)
(* accepted turn waits (Lined), which promises go together (Staged), that  *)
(* an earlier turn of a session is never overtaken (Ordered), and what the *)
(* table of active tasks and the generations say of the promises           *)
(* (Counted).  Handled says what the handler of a signal knows of the      *)
(* turns that are still under way.                                         *)
(***************************************************************************)
EXTENDS RunLoop, FiniteSetTheorems, TLAPS

Underway == {"queued", "running"}

\* A turn that waits in its session lane, or in the main lane, stands there
\* once, in the order of its session.
Lined(q, out, inn) ==
  /\ \A s \in Sessions : \A i \in 1..Len(q[s]) :
       SessionOf(q[s][i]) = s /\ out[q[s][i]] = "queued"
  /\ \A s \in Sessions : \A i, j \in 1..Len(q[s]) : i < j => q[s][i][2] < q[s][j][2]
  /\ \A c \in Commands : out[c] = "queued" =>
       \E i \in 1..Len(q[SessionOf(c)]) : q[SessionOf(c)][i] = c
  /\ \A i \in 1..Len(q[Main]) : inn[q[Main][i]] = "queued"
  /\ \A i, j \in 1..Len(q[Main]) : i < j =>
       /\ q[Main][i] # q[Main][j]
       /\ SessionOf(q[Main][i]) = SessionOf(q[Main][j]) => q[Main][i][2] < q[Main][j][2]
  /\ \A c \in Commands : inn[c] = "queued" => \E i \in 1..Len(q[Main]) : q[Main][i] = c

Staged(out, inn) ==
  \A c \in Commands :
    /\ out[c] \in {"new", "queued", "cleared", "refused"} => inn[c] = "new"
    /\ out[c] = "running" => inn[c] \in {"queued", "running", "done", "refused"}
    /\ out[c] = "done" => inn[c] \in {"done", "refused"}

Ordered(out, inn) ==
  \A c, d \in Commands : SessionOf(c) = SessionOf(d) /\ d[2] < c[2] =>
    /\ out[c] # "new" => out[d] # "new"
    /\ out[c] \in {"running", "done"} => out[d] # "queued"
    /\ inn[c] \in {"running", "done"} => inn[d] # "queued"

Counted(a, g, out, inn, og, ig) ==
  /\ \A s \in Sessions : \A c \in Commands :
       c \in a[s] <=> SessionOf(c) = s /\ out[c] = "running" /\ og[c] = g[s]
  /\ \A c \in Commands : c \in a[Main] <=> inn[c] = "running" /\ ig[c] = g[Main]
  /\ \A s \in Sessions : \A c, d \in a[s] : c = d
  /\ \A c \in Commands : og[c] <= g[SessionOf(c)] /\ ig[c] <= g[Main]

Typed(q, a, g, limits, out, inn, og, ig) ==
  /\ q \in [Lanes -> Seq(Commands)]
  /\ a \in [Lanes -> SUBSET Commands]
  /\ g \in [Lanes -> Nat]
  /\ limits \in [Lanes -> 1..MaxConcurrent]
  /\ \A s \in Sessions : limits[s] = 1
  /\ out \in [Commands -> Statuses]
  /\ inn \in [Commands -> Statuses]
  /\ og \in [Commands -> Nat]
  /\ ig \in [Commands -> Nat]

Sound(q, a, g, limits, out, inn, og, ig) ==
  /\ Typed(q, a, g, limits, out, inn, og, ig)
  /\ Lined(q, out, inn)
  /\ Staged(out, inn)
  /\ Ordered(out, inn)
  /\ Counted(a, g, out, inn, og, ig)

\* No entry waits in lane l while there is room.
Busy(l, q, a, limits) == q[l] # <<>> => Cardinality(a[l]) >= limits[l]

Handled ==
  /\ gatewayDraining \in BOOLEAN
  /\ shutdown \in {"none", "draining", "closing", "respawning"}
  /\ shutdown \in {"draining", "respawning"} => isRestart
  /\ shutdown # "none" /\ isRestart => gatewayDraining
  /\ timedOut \in BOOLEAN
  /\ ~timedOut => \A c \in Commands : inner[c] \in Underway =>
       /\ outerGen[c] = generation[SessionOf(c)]
       /\ shutdown = "draining" => <<SessionOf(c), c>> \in activeAtStart
       /\ ~(shutdown \in {"closing", "respawning"} /\ isRestart)

LanesSound == Sound(queue, active, generation, maxConcurrent, outer, inner, outerGen, innerGen)

AllBusy == \A l \in Lanes : Busy(l, queue, active, maxConcurrent)

IInv ==
  /\ LanesSound
  /\ AllBusy
  /\ Handled

-----------------------------------------------------------------------------
(* Commands and what a pump starts *)

LEMMA CommandFacts ==
  /\ Main \in Lanes /\ \A s \in Sessions : s \in Lanes /\ s # Main
  /\ \A l \in Lanes : l = Main \/ l \in Sessions
  /\ \A c \in Commands : SessionOf(c) \in Sessions /\ c[2] \in 1..MaxTurns
  /\ \A c, d \in Commands : SessionOf(c) = SessionOf(d) /\ c[2] = d[2] => c = d
BY MainAssumption DEF Lanes, Commands, SessionOf

LEMMA CommandsFinite == IsFiniteSet(Commands)
<1>1. IsFiniteSet(1..MaxTurns)
  BY LimitsAssumption, FS_Interval
<1>2. QED
  BY <1>1, SessionsAssumption, FS_Product DEF Commands

LEMMA RunningFinite ==
  ASSUME NEW running \in SUBSET Commands
  PROVE  IsFiniteSet(running) /\ Cardinality(running) \in Nat
BY CommandsFinite, FS_Subset, FS_CardinalityType

\* The pump starts a prefix of the queue, and leaves nothing while there is room.
LEMMA StartCountFacts ==
  ASSUME NEW q \in Seq(Commands), NEW running \in SUBSET Commands, NEW limit \in Nat
  PROVE  /\ StartCount(q, running, limit) \in 0..Len(q)
         /\ StartCount(q, running, limit) < Len(q) =>
              Cardinality(running) + StartCount(q, running, limit) >= limit
         /\ StartCount(q, running, limit) > 0 =>
              Cardinality(running) + StartCount(q, running, limit) <= limit
<1> DEFINE k == Cardinality(running)
<1> DEFINE m == Len(q)
<1>1. k \in Nat /\ m \in Nat
  BY RunningFinite
<1>2. StartCount(q, running, limit) =
        IF limit - k <= 0 THEN 0 ELSE IF m < limit - k THEN m ELSE limit - k
  BY DEF StartCount
<1> HIDE DEF k, m
<1>3. QED
  BY <1>1, <1>2 DEF k, m

LEMMA WaitingFacts ==
  ASSUME NEW q \in Seq(Commands), NEW running \in SUBSET Commands, NEW limit \in Nat
  PROVE  LET n == StartCount(q, running, limit)
             w == Waiting(q, running, limit)
         IN  /\ w \in Seq(Commands)
             /\ Len(w) = Len(q) - n
             /\ \A i \in 1..Len(w) : n + i \in 1..Len(q) /\ w[i] = q[n + i]
<1> DEFINE n == StartCount(q, running, limit)
<1> DEFINE w == Waiting(q, running, limit)
<1>1. n \in 0..Len(q)
  BY StartCountFacts
<1>2. w = SubSeq(q, n + 1, Len(q))
  BY DEF Waiting
<1> HIDE DEF n, w
<1>3. w \in Seq(Commands) /\ Len(w) = Len(q) - n
  BY <1>1, <1>2
<1>4. \A i \in 1..Len(w) : n + i \in 1..Len(q) /\ w[i] = q[n + i]
  BY <1>1, <1>2, <1>3
<1>5. QED
  BY <1>3, <1>4 DEF n, w

\* With no turn in it twice and none that runs already, a queue from which
\* something is left over has filled its lane.
LEMMA PumpFills ==
  ASSUME NEW q \in Seq(Commands), NEW running \in SUBSET Commands, NEW limit \in Nat,
         \A i, j \in 1..Len(q) : q[i] = q[j] => i = j,
         \A i \in 1..Len(q) : q[i] \notin running,
         Waiting(q, running, limit) # <<>>
  PROVE  Cardinality(running \cup Started(q, running, limit)) >= limit
<1> DEFINE n == StartCount(q, running, limit)
<1> DEFINE S == Started(q, running, limit)
<1>1. n \in 0..Len(q) /\ Len(q) \in Nat
  <2>1. n \in 0..Len(q)
    BY StartCountFacts
  <2>2. QED
    BY <2>1
<1>2. n < Len(q)
  <2>1. Len(Waiting(q, running, limit)) # 0
    BY WaitingFacts
  <2>2. QED
    BY <1>1, <2>1, WaitingFacts
<1>3. Cardinality(running) + n >= limit
  BY <1>2, StartCountFacts
<1>4. S = {q[i] : i \in 1..n}
  BY DEF Started
<1>5. \A i \in 1..n : q[i] \in Commands /\ q[i] \notin running
  BY <1>1
<1> HIDE DEF n, S
<1>6. Cardinality(S) = n /\ IsFiniteSet(S)
  <2> DEFINE f == [i \in 1..n |-> q[i]]
  <2>1. f \in [1..n -> S] /\ \A x \in S : \E i \in 1..n : f[i] = x
    BY <1>4
  <2>2. \A i, j \in 1..n : f[i] = f[j] => i = j
    BY <1>1
  <2>3. f \in Bijection(1..n, S)
    BY <2>1, <2>2 DEF Bijection, Injection, IsInjective, Surjection
  <2>4. IsFiniteSet(1..n) /\ Cardinality(1..n) = n
    BY <1>1, FS_Interval
  <2>5. QED
    BY <2>3, <2>4, FS_Bijection DEF ExistsBijection
<1>7. running \cap S = {}
  BY <1>4, <1>5
<1>8. Cardinality(running \cup S) = Cardinality(running) + n
  <2>1. Cardinality(running \cap S) = 0
    BY <1>7, FS_EmptySet
  <2>2. Cardinality(running \cup S)
          = Cardinality(running) + Cardinality(S) - Cardinality(running \cap S)
    BY <1>6, RunningFinite, FS_Union
  <2>3. QED
    BY <1>1, <1>6, <2>1, <2>2, RunningFinite
<1>9. QED
  BY <1>3, <1>8 DEF n, S

\* An order of a set is a sequence in which each of its members stands once.
LEMMA OrderFacts ==
  ASSUME NEW S \in SUBSET Commands, NEW order \in SetToSeqs(S)
  PROVE  /\ order \in Seq(Commands)
         /\ \A i \in 1..Len(order) : order[i] \in S
         /\ \A i, j \in 1..Len(order) : order[i] = order[j] => i = j
         /\ \A c \in S : \E i \in 1..Len(order) : order[i] = c
<1> DEFINE k == Cardinality(S)
<1>1. k \in Nat /\ IsFiniteSet(S)
  BY RunningFinite
<1>2. order \in [1..k -> S] /\ \A i, j \in 1..k : i # j => order[i] # order[j]
  BY DEF SetToSeqs
<1> HIDE DEF k
<1>3. order \in Seq(S) /\ Len(order) = k
  <2>1. ASSUME NEW m \in Nat, NEW f \in [1..m -> S] PROVE f \in Seq(S) /\ Len(f) = m
    OBVIOUS
  <2>2. QED
    BY <1>1, <1>2, <2>1
<1>4. order \in Injection(1..k, S)
  BY <1>2 DEF Injection, IsInjective
<1>5. Cardinality(1..k) = Cardinality(S)
  BY <1>1, FS_Interval DEF k
<1>6. order \in Surjection(1..k, S)
  BY <1>1, <1>4, <1>5, FS_Injection
<1>7. QED
  BY <1>2, <1>3, <1>6 DEF Surjection

-----------------------------------------------------------------------------
(* drainLane *)

\* What a drain does to one turn: it leaves the queue of its session, in the
\* main lane it starts, or nothing happens to it.
Effect(c, g, draining, out, inn) ==
  \/ /\ outer'[c] = out[c] /\ outerGen'[c] = outerGen[c]
     /\ inner'[c] = inn[c] \/ (inn[c] = "queued" /\ inner'[c] = "running")
  \/ /\ out[c] = "queued" /\ outer'[c] = "running" /\ outerGen'[c] = g[SessionOf(c)]
     /\ IF draining THEN inner'[c] = "refused" ELSE inner'[c] \in Underway

\* Queues with these lines, tables and promises are sound again once any lanes
\* are drained, and a drained lane has filled up.
LEMMA DrainKeeps ==
  ASSUME NEW D \in SUBSET Lanes, NEW q, NEW a, NEW g, NEW limits, NEW draining \in BOOLEAN,
         NEW out, NEW inn,
         Sound(q, a, g, limits, out, inn, outerGen, innerGen),
         DrainLanes(D, q, a, g, limits, draining, out, inn)
  PROVE  /\ Sound(queue', active', g, limits, outer', inner', outerGen', innerGen')
         /\ \A l \in Lanes : l \in D \/ Busy(l, q, a, limits) => Busy(l, queue', active', limits)
         /\ \A c \in Commands : Effect(c, g, draining, out, inn)
<1> DEFINE fresh(s) == Started(q[s], a[s], limits[s])
<1> DEFINE begun == UNION {fresh(s) : s \in D \ {Main}}
<1> DEFINE mainDrained == Main \in D \/ (begun # {} /\ ~draining)
<1>1. PICK order \in SetToSeqs(begun) :
        LET mainQueue == IF draining THEN q[Main] ELSE q[Main] \o order
            mainBegun == IF mainDrained THEN Started(mainQueue, a[Main], limits[Main]) ELSE {}
        IN
        /\ queue' = [l \in Lanes |->
             IF l = Main THEN IF mainDrained THEN Waiting(mainQueue, a[Main], limits[Main])
                                             ELSE mainQueue
             ELSE IF l \in D THEN Waiting(q[l], a[l], limits[l]) ELSE q[l]]
        /\ active' = [l \in Lanes |->
             IF l = Main THEN a[Main] \cup mainBegun
             ELSE IF l \in D THEN a[l] \cup Started(q[l], a[l], limits[l]) ELSE a[l]]
        /\ outer' = [c \in Commands |-> IF c \in begun THEN "running" ELSE out[c]]
        /\ inner' = [c \in Commands |->
             IF c \in mainBegun THEN "running"
             ELSE IF c \notin begun THEN inn[c]
             ELSE IF draining THEN "refused" ELSE "queued"]
        /\ outerGen' = [c \in Commands |->
             IF c \in begun THEN g[SessionOf(c)] ELSE outerGen[c]]
        /\ innerGen' = [c \in Commands |-> IF c \in mainBegun THEN g[Main] ELSE innerGen[c]]
  BY DEF DrainLanes
<1> DEFINE mainQueue == IF draining THEN q[Main] ELSE q[Main] \o order
<1> DEFINE mainBegun == IF mainDrained THEN Started(mainQueue, a[Main], limits[Main]) ELSE {}
<1> DEFINE w(s) == Waiting(q[s], a[s], limits[s])
<1> DEFINE n(s) == StartCount(q[s], a[s], limits[s])
<1> DEFINE N == IF mainDrained THEN StartCount(mainQueue, a[Main], limits[Main]) ELSE 0
<1>2. /\ q \in [Lanes -> Seq(Commands)] /\ a \in [Lanes -> SUBSET Commands]
      /\ g \in [Lanes -> Nat] /\ limits \in [Lanes -> 1..MaxConcurrent]
      /\ out \in [Commands -> Statuses] /\ inn \in [Commands -> Statuses]
      /\ outerGen \in [Commands -> Nat] /\ innerGen \in [Commands -> Nat]
  BY DEF Sound, Typed
<1>3. \A l \in Lanes : limits[l] \in Nat /\ a[l] \in SUBSET Commands /\ q[l] \in Seq(Commands)
  BY <1>2, LimitsAssumption
\* Session lanes
<1>4. ASSUME NEW s \in Sessions
      PROVE  /\ n(s) \in 0..Len(q[s]) /\ n(s) <= 1 /\ (a[s] # {} => n(s) = 0)
             /\ fresh(s) = {q[s][i] : i \in 1..n(s)}
  <2>1. s \in Lanes /\ limits[s] = 1
    BY CommandFacts DEF Sound, Typed
  <2>2. /\ n(s) \in 0..Len(q[s])
        /\ n(s) > 0 => Cardinality(a[s]) + n(s) <= 1
    BY <1>3, <2>1, StartCountFacts
  <2>3. Cardinality(a[s]) \in Nat /\ (a[s] # {} => Cardinality(a[s]) # 0)
    BY <1>3, <2>1, RunningFinite, FS_EmptySet
  <2>4. fresh(s) = {q[s][i] : i \in 1..n(s)}
    BY DEF Started
  <2> HIDE DEF n, fresh
  <2>5. n(s) <= 1 /\ (a[s] # {} => n(s) = 0)
    BY <2>2, <2>3
  <2>6. QED
    BY <2>2, <2>4, <2>5
<1>5. ASSUME NEW s \in Sessions
      PROVE  /\ w(s) \in Seq(Commands)
             /\ \A i \in 1..Len(w(s)) : n(s) + i \in 1..Len(q[s]) /\ w(s)[i] = q[s][n(s) + i]
             /\ Len(w(s)) = Len(q[s]) - n(s)
  <2>1. q[s] \in Seq(Commands) /\ a[s] \in SUBSET Commands /\ limits[s] \in Nat
    BY <1>3, CommandFacts
  <2>2. QED
    BY <2>1, WaitingFacts
<1>6. ASSUME NEW s \in Sessions, NEW c \in fresh(s)
      PROVE  /\ c \in Commands /\ SessionOf(c) = s /\ out[c] = "queued" /\ inn[c] = "new"
             /\ Len(q[s]) >= 1 /\ q[s][1] = c /\ n(s) = 1 /\ a[s] = {}
  <2>1. PICK i \in 1..n(s) : c = q[s][i]
    BY <1>4
  <2>2. i = 1 /\ n(s) = 1 /\ Len(q[s]) >= 1 /\ a[s] = {}
    <3> HIDE DEF n
    <3>1. n(s) \in 0..Len(q[s]) /\ n(s) <= 1 /\ (a[s] # {} => n(s) = 0)
      BY <1>4
    <3>2. Len(q[s]) \in Nat
      BY <1>3, CommandFacts
    <3>3. QED
      BY <3>1, <3>2
  <2>3. c \in Commands
    BY <1>3, <2>1, <2>2, CommandFacts
  <2>4. SessionOf(c) = s /\ out[c] = "queued"
    <3>1. 1 \in 1..Len(q[s])
      BY <1>3, <2>2, CommandFacts
    <3>2. QED
      BY <2>1, <2>2, <3>1 DEF Sound, Lined
  <2>5. QED
    BY <2>1, <2>2, <2>3, <2>4 DEF Sound, Staged
<1>7. ASSUME NEW c \in begun
      PROVE  SessionOf(c) \in Sessions /\ SessionOf(c) \in D /\ c \in fresh(SessionOf(c))
  <2>1. PICK s \in D \ {Main} : c \in fresh(s)
    OBVIOUS
  <2>2. s \in Sessions
    BY CommandFacts
  <2>3. QED
    BY <1>6, <2>1, <2>2
<1>8. \A s \in Sessions : s \in D => fresh(s) \subseteq begun
  BY CommandFacts
<1>9. begun \in SUBSET Commands
  BY <1>6, <1>7
<1> HIDE DEF fresh, begun
\* The main lane
<1>10. /\ order \in Seq(Commands)
       /\ \A i \in 1..Len(order) : order[i] \in begun
       /\ \A i, j \in 1..Len(order) : order[i] = order[j] => i = j
       /\ \A c \in begun : \E i \in 1..Len(order) : order[i] = c
  BY <1>9, OrderFacts
<1> DEFINE old == Len(q[Main])
<1>11. /\ mainQueue \in Seq(Commands) /\ old \in Nat /\ Len(order) \in Nat
       /\ Len(mainQueue) = IF draining THEN old ELSE old + Len(order)
       /\ \A i \in 1..old : mainQueue[i] = q[Main][i]
       /\ \A i \in 1..Len(order) : ~draining => mainQueue[old + i] = order[i]
  BY <1>3, <1>10, CommandFacts
<1>12. \A i \in 1..Len(mainQueue) :
         \/ i \in 1..old /\ mainQueue[i] = q[Main][i] /\ inn[mainQueue[i]] = "queued"
         \/ ~draining /\ i - old \in 1..Len(order) /\ mainQueue[i] = order[i - old]
            /\ mainQueue[i] \in begun
  <2> HIDE DEF mainQueue
  <2> TAKE i \in 1..Len(mainQueue)
  <2>1. CASE i <= old
    <3>1. i \in 1..old
      BY <1>11, <2>1
    <3>2. inn[q[Main][i]] = "queued"
      BY <3>1 DEF Sound, Lined
    <3>3. QED
      BY <1>11, <3>1, <3>2
  <2>2. CASE i > old
    <3>1. ~draining /\ i - old \in 1..Len(order) /\ i = old + (i - old)
      BY <1>11, <2>2
    <3>2. mainQueue[i] = order[i - old]
      BY <1>11, <3>1
    <3>3. QED
      BY <1>10, <3>1, <3>2
  <2>3. QED
    BY <1>11, <2>1, <2>2
<1>13. ASSUME NEW c \in begun
       PROVE  /\ c \in Commands /\ SessionOf(c) \in Sessions /\ SessionOf(c) \in D
              /\ out[c] = "queued" /\ inn[c] = "new"
              /\ Len(q[SessionOf(c)]) >= 1 /\ q[SessionOf(c)][1] = c
              /\ n(SessionOf(c)) = 1 /\ a[SessionOf(c)] = {}
  BY <1>6, <1>7
<1>14. ASSUME NEW c \in Commands, NEW d \in Commands, inn[c] = "queued", d \in begun
       PROVE  c # d /\ (SessionOf(c) = SessionOf(d) => c[2] < d[2])
  <2>1. c # d
    BY <1>13, <1>14
  <2>2. out[c] = "running" /\ out[d] = "queued"
    BY <1>2, <1>13, <1>14 DEF Sound, Staged, Statuses
  <2>3. SessionOf(c) = SessionOf(d) => ~(d[2] < c[2])
    BY <2>2 DEF Sound, Ordered
  <2>4. QED
    BY <2>1, <2>3, CommandFacts
<1>15. \A i, j \in 1..Len(mainQueue) : i < j =>
         /\ mainQueue[i] # mainQueue[j]
         /\ SessionOf(mainQueue[i]) = SessionOf(mainQueue[j]) =>
              mainQueue[i][2] < mainQueue[j][2]
  <2> HIDE DEF mainQueue
  <2> SUFFICES ASSUME NEW i \in 1..Len(mainQueue), NEW j \in 1..Len(mainQueue), i < j
               PROVE  /\ mainQueue[i] # mainQueue[j]
                      /\ SessionOf(mainQueue[i]) = SessionOf(mainQueue[j]) =>
                           mainQueue[i][2] < mainQueue[j][2]
    OBVIOUS
  <2>1. mainQueue[i] \in Commands /\ mainQueue[j] \in Commands
    BY <1>11
  <2>2. CASE j \in 1..old
    <3>1. i \in 1..old
      BY <1>11, <2>2
    <3>2. mainQueue[i] = q[Main][i] /\ mainQueue[j] = q[Main][j]
      BY <1>11, <2>2, <3>1
    <3>3. QED
      BY <2>2, <3>1, <3>2 DEF Sound, Lined
  <2>3. CASE i \in 1..old /\ j \notin 1..old
    BY <1>12, <1>14, <2>1, <2>3
  <2>4. CASE i \notin 1..old /\ j \notin 1..old
    <3>1. /\ i - old \in 1..Len(order) /\ mainQueue[i] = order[i - old] /\ mainQueue[i] \in begun
          /\ j - old \in 1..Len(order) /\ mainQueue[j] = order[j - old] /\ mainQueue[j] \in begun
      BY <1>12, <2>4
    <3>2. i - old # j - old
      BY <1>11
    <3>3. mainQueue[i] # mainQueue[j]
      BY <1>10, <3>1, <3>2
    <3>4. SessionOf(mainQueue[i]) # SessionOf(mainQueue[j])
      BY <1>13, <3>1, <3>3
    <3>5. QED
      BY <3>3, <3>4
  <2>5. QED
    BY <1>11, <2>2, <2>3, <2>4
<1>16. ASSUME NEW c \in Commands, inn[c] = "queued" \/ (c \in begun /\ ~draining)
       PROVE  \E i \in 1..Len(mainQueue) : mainQueue[i] = c
  <2> HIDE DEF mainQueue
  <2>1. CASE inn[c] = "queued"
    <3>1. PICK i \in 1..old : q[Main][i] = c
      BY <2>1 DEF Sound, Lined
    <3>2. i \in 1..Len(mainQueue) /\ mainQueue[i] = c
      BY <1>11, <3>1
    <3>3. QED
      BY <3>2
  <2>2. CASE c \in begun /\ ~draining
    <3>1. PICK i \in 1..Len(order) : order[i] = c
      BY <1>10, <2>2
    <3>2. old + i \in 1..Len(mainQueue) /\ mainQueue[old + i] = c
      BY <1>11, <2>2, <3>1
    <3>3. QED
      BY <3>2
  <2>3. QED
    BY <1>16, <2>1, <2>2
<1>17. /\ N \in 0..Len(mainQueue)
       /\ mainBegun = {mainQueue[i] : i \in 1..N}
       /\ queue'[Main] \in Seq(Commands) /\ Len(queue'[Main]) = Len(mainQueue) - N
       /\ \A i \in 1..Len(queue'[Main]) :
            N + i \in 1..Len(mainQueue) /\ queue'[Main][i] = mainQueue[N + i]
  <2>1. queue'[Main] = IF mainDrained THEN Waiting(mainQueue, a[Main], limits[Main])
                                      ELSE mainQueue
    BY <1>1, CommandFacts
  <2>2. mainQueue \in Seq(Commands) /\ a[Main] \in SUBSET Commands /\ limits[Main] \in Nat
    BY <1>3, <1>11, CommandFacts
  <2> HIDE DEF mainQueue
  <2>3. CASE mainDrained
    <3>1. N = StartCount(mainQueue, a[Main], limits[Main])
      BY <2>3
    <3>2. mainBegun = Started(mainQueue, a[Main], limits[Main])
      BY <2>3
    <3>3. queue'[Main] = Waiting(mainQueue, a[Main], limits[Main])
      BY <2>1, <2>3
    <3> HIDE DEF N, mainBegun, mainDrained
    <3>4. N \in 0..Len(mainQueue)
      BY <2>2, <3>1, StartCountFacts
    <3>5. mainBegun = {mainQueue[i] : i \in 1..N}
      BY <3>1, <3>2 DEF Started
    <3>6. QED
      BY <2>2, <3>1, <3>3, <3>4, <3>5, WaitingFacts
  <2>4. CASE ~mainDrained
    <3>1. N = 0 /\ mainBegun = {} /\ queue'[Main] = mainQueue
      BY <2>1, <2>4
    <3> HIDE DEF N, mainBegun, mainDrained
    <3>2. QED
      BY <2>2, <3>1
  <2>5. QED
    BY <2>3, <2>4
<1>18. /\ active' = [l \in Lanes |->
             IF l = Main THEN a[Main] \cup mainBegun
             ELSE IF l \in D THEN a[l] \cup fresh(l) ELSE a[l]]
       /\ \A s \in Sessions : queue'[s] = IF s \in D THEN w(s) ELSE q[s]
  BY <1>1, CommandFacts DEF fresh
<1>19. ASSUME NEW c \in Commands
       PROVE  /\ outer'[c] = IF c \in begun THEN "running" ELSE out[c]
              /\ inner'[c] = IF c \in mainBegun THEN "running"
                             ELSE IF c \notin begun THEN inn[c]
                             ELSE IF draining THEN "refused" ELSE "queued"
              /\ outerGen'[c] = IF c \in begun THEN g[SessionOf(c)] ELSE outerGen[c]
              /\ innerGen'[c] = IF c \in mainBegun THEN g[Main] ELSE innerGen[c]
  BY <1>1
<1>20. /\ outer' \in [Commands -> Statuses] /\ inner' \in [Commands -> Statuses]
       /\ outerGen' \in [Commands -> Nat] /\ innerGen' \in [Commands -> Nat]
  <2>1. \A c \in Commands : g[SessionOf(c)] \in Nat /\ g[Main] \in Nat
    BY <1>2, CommandFacts
  <2> HIDE DEF mainBegun, mainQueue
  <2>2. QED
    BY <1>1, <1>2, <2>1 DEF Statuses, mainBegun, mainQueue
<1>21. mainDrained \/ (Main \notin D /\ mainQueue = q[Main])
  <2>1. CASE ~mainDrained /\ ~draining
    <3>1. begun = {}
      BY <2>1
    <3>2. Len(order) = 0
      BY <1>10, <3>1
    <3>3. order = <<>>
      BY <1>10, <3>2
    <3>4. QED
      BY <1>3, <2>1, <3>3, CommandFacts
  <2>2. QED
    BY <2>1
<1> HIDE DEF mainQueue, mainBegun, N, mainDrained, n, w
<1>22. \A c \in mainBegun : inn[c] = "queued" \/ (~draining /\ c \in begun)
  <2> TAKE c \in mainBegun
  <2>1. PICK i \in 1..N : c = mainQueue[i]
    BY <1>17
  <2>2. i \in 1..Len(mainQueue)
    BY <1>11, <1>17
  <2>3. QED
    BY <1>12, <2>1, <2>2
<1>23. \A c \in Commands : Effect(c, g, draining, out, inn)
  BY <1>13, <1>19, <1>22 DEF Effect, Underway
\* Types
<1>24. Typed(queue', active', g, limits, outer', inner', outerGen', innerGen')
  <2>1. mainBegun \in SUBSET Commands
    <3>1. \A i \in 1..N : i \in 1..Len(mainQueue)
      BY <1>11, <1>17
    <3>2. QED
      BY <1>11, <1>17, <3>1
  <2>2. ASSUME NEW s \in Sessions PROVE fresh(s) \in SUBSET Commands
    BY <1>6
  <2>3. active' \in [Lanes -> SUBSET Commands]
    BY <1>2, <1>18, <2>1, <2>2, CommandFacts
  <2>4. \A l \in Lanes : queue'[l] \in Seq(Commands)
    BY <1>3, <1>5, <1>17, <1>18, CommandFacts
  <2>5. queue' = [l \in Lanes |-> queue'[l]]
    BY <1>1
  <2>6. queue' \in [Lanes -> Seq(Commands)]
    BY <2>4, <2>5
  <2>7. QED
    BY <1>20, <2>3, <2>6 DEF Sound, Typed
\* Lines: a session lane loses its first m(s) entries, the main lane its first N
<1> DEFINE m(s) == IF s \in D THEN n(s) ELSE 0
<1>25. ASSUME NEW s \in Sessions
       PROVE  /\ q[s] \in Seq(Commands) /\ queue'[s] \in Seq(Commands)
              /\ m(s) \in 0..Len(q[s]) /\ m(s) <= 1
              /\ Len(queue'[s]) = Len(q[s]) - m(s)
              /\ \A i \in 1..Len(queue'[s]) :
                   m(s) + i \in 1..Len(q[s]) /\ queue'[s][i] = q[s][m(s) + i]
  <2>1. q[s] \in Seq(Commands) /\ Len(q[s]) \in Nat
    BY <1>3, CommandFacts
  <2>2. CASE s \in D
    BY <1>4, <1>5, <1>18, <2>1, <2>2
  <2>3. CASE s \notin D
    BY <1>18, <2>1, <2>3
  <2>4. QED
    BY <2>2, <2>3
<1>26. ASSUME NEW s \in Sessions, NEW k \in 1..Len(q[s])
       PROVE  /\ q[s][k] \in Commands /\ SessionOf(q[s][k]) = s /\ out[q[s][k]] = "queued"
              /\ q[s][k] \in begun <=> k <= m(s)
  <2>1. q[s][k] \in Commands /\ SessionOf(q[s][k]) = s /\ out[q[s][k]] = "queued"
    BY <1>25, <1>26 DEF Sound, Lined
  <2>2. ASSUME q[s][k] \in begun PROVE k <= m(s)
    <3>1. q[s][1] = q[s][k] /\ n(s) = 1 /\ s \in D /\ 1 \in 1..Len(q[s])
      BY <1>13, <2>1, <2>2
    <3>2. ~(1 < k)
      <4>1. \A i, j \in 1..Len(q[s]) : i < j => q[s][i][2] < q[s][j][2]
        BY DEF Sound, Lined
      <4>2. q[s][k][2] \in 1..MaxTurns
        BY <2>1, CommandFacts
      <4>3. QED
        BY <3>1, <4>1, <4>2
    <3>3. QED
      BY <3>1, <3>2
  <2>3. ASSUME k <= m(s) PROVE q[s][k] \in begun
    <3>1. s \in D /\ k \in 1..n(s)
      BY <1>25, <2>3
    <3>2. QED
      BY <1>4, <1>8, <3>1
  <2>4. QED
    BY <2>1, <2>2, <2>3
<1>27. ASSUME NEW k \in 1..Len(mainQueue)
       PROVE  mainQueue[k] \in Commands /\ (mainQueue[k] \in mainBegun <=> k <= N)
  <2>1. mainQueue[k] \in Commands
    BY <1>11
  <2>2. ASSUME mainQueue[k] \in mainBegun PROVE k <= N
    <3>1. PICK i \in 1..N : mainQueue[k] = mainQueue[i]
      BY <1>17, <2>2
    <3>2. i \in 1..Len(mainQueue)
      BY <1>11, <1>17
    <3>3. QED
      BY <1>15, <1>17, <3>1, <3>2
  <2>3. QED
    BY <1>17, <2>1, <2>2
<1>28. ASSUME NEW c \in Commands, inner'[c] = "queued"
       PROVE  /\ c \notin mainBegun
              /\ (inn[c] = "queued" /\ c \notin begun) \/ (~draining /\ c \in begun)
              /\ \E i \in 1..Len(mainQueue) : mainQueue[i] = c /\ i > N
  <2>1. /\ c \notin mainBegun
        /\ (inn[c] = "queued" /\ c \notin begun) \/ (~draining /\ c \in begun)
    BY <1>19, <1>28
  <2>2. PICK i \in 1..Len(mainQueue) : mainQueue[i] = c
    BY <1>16, <2>1
  <2>3. i > N
    BY <1>17, <1>27, <2>1, <2>2
  <2>4. QED
    BY <2>1, <2>2, <2>3
<1>29. Lined(queue', outer', inner')
  <2>1. ASSUME NEW s \in Sessions, NEW i \in 1..Len(queue'[s])
        PROVE  SessionOf(queue'[s][i]) = s /\ outer'[queue'[s][i]] = "queued"
    <3>1. /\ m(s) + i \in 1..Len(q[s]) /\ queue'[s][i] = q[s][m(s) + i]
          /\ ~(m(s) + i <= m(s))
      BY <1>25, <2>1
    <3>2. QED
      BY <1>19, <1>26, <3>1
  <2>2. ASSUME NEW s \in Sessions, NEW i \in 1..Len(queue'[s]), NEW j \in 1..Len(queue'[s]), i < j
        PROVE  queue'[s][i][2] < queue'[s][j][2]
    <3>1. /\ m(s) + i \in 1..Len(q[s]) /\ queue'[s][i] = q[s][m(s) + i]
          /\ m(s) + j \in 1..Len(q[s]) /\ queue'[s][j] = q[s][m(s) + j]
          /\ m(s) + i < m(s) + j
      BY <1>25, <2>2
    <3>2. QED
      BY <3>1 DEF Sound, Lined
  <2>3. ASSUME NEW c \in Commands, outer'[c] = "queued"
        PROVE  \E i \in 1..Len(queue'[SessionOf(c)]) : queue'[SessionOf(c)][i] = c
    <3> DEFINE s == SessionOf(c)
    <3>1. s \in Sessions /\ c \notin begun /\ out[c] = "queued"
      BY <1>19, <2>3, CommandFacts
    <3>2. PICK k \in 1..Len(q[s]) : q[s][k] = c
      BY <3>1 DEF Sound, Lined
    <3> HIDE DEF s
    <3>3. k > m(s)
      BY <1>25, <1>26, <3>1, <3>2
    <3>4. k - m(s) \in 1..Len(queue'[s]) /\ m(s) + (k - m(s)) = k
      BY <1>25, <3>1, <3>3
    <3>5. queue'[s][k - m(s)] = c
      BY <1>25, <3>1, <3>2, <3>4
    <3>6. QED
      BY <3>4, <3>5 DEF s
  <2>4. ASSUME NEW i \in 1..Len(queue'[Main])
        PROVE  inner'[queue'[Main][i]] = "queued"
    <3>1. /\ N + i \in 1..Len(mainQueue) /\ queue'[Main][i] = mainQueue[N + i]
          /\ ~(N + i <= N)
      BY <1>17, <2>4
    <3>2. /\ mainQueue[N + i] \in Commands /\ mainQueue[N + i] \notin mainBegun
          /\ \/ inn[mainQueue[N + i]] = "queued"
             \/ ~draining /\ mainQueue[N + i] \in begun
      BY <1>12, <1>27, <3>1
    <3>3. QED
      BY <1>13, <1>19, <3>1, <3>2
  <2>5. ASSUME NEW i \in 1..Len(queue'[Main]), NEW j \in 1..Len(queue'[Main]), i < j
        PROVE  /\ queue'[Main][i] # queue'[Main][j]
               /\ SessionOf(queue'[Main][i]) = SessionOf(queue'[Main][j]) =>
                    queue'[Main][i][2] < queue'[Main][j][2]
    <3>1. /\ N + i \in 1..Len(mainQueue) /\ queue'[Main][i] = mainQueue[N + i]
          /\ N + j \in 1..Len(mainQueue) /\ queue'[Main][j] = mainQueue[N + j]
          /\ N + i < N + j
      BY <1>17, <2>5
    <3>2. QED
      BY <1>15, <3>1
  <2>6. ASSUME NEW c \in Commands, inner'[c] = "queued"
        PROVE  \E i \in 1..Len(queue'[Main]) : queue'[Main][i] = c
    <3>1. PICK k \in 1..Len(mainQueue) : mainQueue[k] = c /\ k > N
      BY <1>28, <2>6
    <3>2. k - N \in 1..Len(queue'[Main]) /\ N + (k - N) = k
      BY <1>11, <1>17, <3>1
    <3>3. queue'[Main][k - N] = c
      BY <1>17, <3>1, <3>2
    <3>4. QED
      BY <3>2, <3>3
  <2>7. QED
    BY <2>1, <2>2, <2>3, <2>4, <2>5, <2>6 DEF Lined
\* Promises
<1>30. Staged(outer', inner')
  <2> SUFFICES ASSUME NEW c \in Commands
               PROVE  /\ outer'[c] \in {"new", "queued", "cleared", "refused"} => inner'[c] = "new"
                      /\ outer'[c] = "running" =>
                           inner'[c] \in {"queued", "running", "done", "refused"}
                      /\ outer'[c] = "done" => inner'[c] \in {"done", "refused"}
    BY DEF Staged
  <2>1. /\ out[c] \in {"new", "queued", "cleared", "refused"} => inn[c] = "new"
        /\ out[c] = "running" => inn[c] \in {"queued", "running", "done", "refused"}
        /\ out[c] = "done" => inn[c] \in {"done", "refused"}
    BY DEF Sound, Staged
  <2>2. Effect(c, g, draining, out, inn) /\ out[c] \in Statuses
    BY <1>2, <1>23
  <2>3. QED
    BY <2>1, <2>2 DEF Effect, Underway, Statuses
<1>31. Ordered(outer', inner')
  <2> SUFFICES ASSUME NEW c \in Commands, NEW d \in Commands,
                      SessionOf(c) = SessionOf(d), d[2] < c[2]
               PROVE  /\ outer'[c] # "new" => outer'[d] # "new"
                      /\ outer'[c] \in {"running", "done"} => outer'[d] # "queued"
                      /\ inner'[c] \in {"running", "done"} => inner'[d] # "queued"
    BY DEF Ordered
  <2>1. /\ out[c] # "new" => out[d] # "new"
        /\ out[c] \in {"running", "done"} => out[d] # "queued"
        /\ inn[c] \in {"running", "done"} => inn[d] # "queued"
    BY DEF Sound, Ordered
  <2>2. SessionOf(c) \in Sessions /\ c[2] \in Int /\ d[2] \in Int
    BY CommandFacts
  <2>3. outer'[c] # "new" => outer'[d] # "new"
    BY <1>13, <1>19, <2>1
  <2>4. ASSUME outer'[c] \in {"running", "done"}, outer'[d] = "queued" PROVE FALSE
    <3>1. out[d] = "queued" /\ d \notin begun
      BY <1>19, <2>4
    <3>2. c \in begun
      BY <1>19, <2>1, <2>4, <3>1
    <3>3. q[SessionOf(c)][1] = c /\ Len(q[SessionOf(c)]) >= 1
      BY <1>13, <3>2
    <3>4. PICK k \in 1..Len(q[SessionOf(c)]) : q[SessionOf(c)][k] = d
      BY <3>1 DEF Sound, Lined
    <3>5. k # 1
      BY <3>1, <3>2, <3>3, <3>4
    <3>6. 1 \in 1..Len(q[SessionOf(c)]) /\ 1 < k
      BY <3>4, <3>5
    <3>7. c[2] < d[2]
      BY <2>2, <3>3, <3>4, <3>6 DEF Sound, Lined
    <3>8. QED
      BY <2>2, <3>7
  <2>5. ASSUME inner'[c] \in {"running", "done"}, inner'[d] = "queued" PROVE FALSE
    <3>1. PICK k \in 1..Len(mainQueue) : mainQueue[k] = d /\ k > N
      BY <1>28, <2>5
    <3>2. (inn[d] = "queued" /\ d \notin begun) \/ d \in begun
      BY <1>28, <2>5
    <3>3. CASE c \in mainBegun
      <4>1. PICK i \in 1..N : c = mainQueue[i]
        BY <1>17, <3>3
      <4>2. i \in 1..Len(mainQueue) /\ i < k
        BY <1>11, <1>17, <3>1, <4>1
      <4>3. c[2] < d[2]
        BY <1>15, <3>1, <4>1, <4>2
      <4>4. QED
        BY <2>2, <4>3
    <3>4. CASE c \notin mainBegun
      <4>1. c \notin begun /\ inn[c] \in {"running", "done"}
        BY <1>19, <2>5, <3>4
      <4>2. out[c] \in {"running", "done"}
        BY <1>2, <4>1 DEF Sound, Staged, Statuses
      <4>3. d \in begun
        BY <2>1, <3>2, <4>1
      <4>4. QED
        BY <1>13, <2>1, <4>2, <4>3
    <3>5. QED
      BY <3>3, <3>4
  <2>6. QED
    BY <2>3, <2>4, <2>5
\* Tables of active tasks
<1>32. Counted(active', g, outer', inner', outerGen', innerGen')
  <2>1. /\ \A s \in Sessions : \A c \in Commands :
             c \in a[s] <=> SessionOf(c) = s /\ out[c] = "running" /\ outerGen[c] = g[s]
        /\ \A c \in Commands : c \in a[Main] <=> inn[c] = "running" /\ innerGen[c] = g[Main]
        /\ \A s \in Sessions : \A c, d \in a[s] : c = d
        /\ \A c \in Commands : outerGen[c] <= g[SessionOf(c)] /\ innerGen[c] <= g[Main]
    BY DEF Sound, Counted
  <2>2. ASSUME NEW s \in Sessions
        PROVE  active'[s] = IF s \in D THEN a[s] \cup fresh(s) ELSE a[s]
    BY <1>18, CommandFacts
  <2>3. active'[Main] = a[Main] \cup mainBegun
    BY <1>18, CommandFacts
  <2>4. ASSUME NEW s \in Sessions, NEW c \in Commands
        PROVE  c \in active'[s] <=>
                 SessionOf(c) = s /\ outer'[c] = "running" /\ outerGen'[c] = g[s]
    <3>1. CASE c \in begun
      <4>1. c \in fresh(SessionOf(c)) /\ SessionOf(c) \in D /\ SessionOf(c) \in Sessions
        BY <1>7, <3>1
      <4>2. outer'[c] = "running" /\ outerGen'[c] = g[SessionOf(c)]
        BY <1>19, <3>1
      <4>3. c \in active'[s] => SessionOf(c) = s
        <5>1. c \in a[s] => SessionOf(c) = s
          BY <2>1
        <5>2. c \in fresh(s) => SessionOf(c) = s
          BY <1>6
        <5>3. QED
          BY <2>2, <5>1, <5>2
      <4>4. QED
        BY <2>2, <4>1, <4>2, <4>3
    <3>2. CASE c \notin begun
      <4>1. s \in D => c \notin fresh(s)
        BY <1>8, <3>2
      <4>2. c \in active'[s] <=> c \in a[s]
        BY <2>2, <4>1
      <4>3. outer'[c] = out[c] /\ outerGen'[c] = outerGen[c]
        BY <1>19, <3>2
      <4>4. QED
        BY <2>1, <4>2, <4>3
    <3>3. QED
      BY <3>1, <3>2
  <2>5. ASSUME NEW c \in Commands
        PROVE  c \in active'[Main] <=> inner'[c] = "running" /\ innerGen'[c] = g[Main]
    <3>1. CASE c \in mainBegun
      BY <1>19, <2>3, <3>1
    <3>2. CASE c \notin mainBegun /\ c \in begun
      BY <1>13, <1>19, <2>1, <2>3, <3>2
    <3>3. CASE c \notin mainBegun /\ c \notin begun
      BY <1>19, <2>1, <2>3, <3>3
    <3>4. QED
      BY <3>1, <3>2, <3>3
  <2>6. ASSUME NEW s \in Sessions, NEW c \in active'[s], NEW d \in active'[s]
        PROVE  c = d
    <3>1. CASE s \in D /\ fresh(s) # {}
      <4>1. a[s] = {} /\ \A x \in fresh(s) : x = q[s][1]
        BY <1>6, <3>1
      <4>2. QED
        BY <2>2, <3>1, <4>1
    <3>2. CASE ~(s \in D /\ fresh(s) # {})
      <4>1. active'[s] = a[s]
        BY <2>2, <3>2
      <4>2. QED
        BY <2>1, <2>6, <4>1
    <3>3. QED
      BY <3>1, <3>2
  <2>7. ASSUME NEW c \in Commands
        PROVE  outerGen'[c] <= g[SessionOf(c)] /\ innerGen'[c] <= g[Main]
    <3>1. g[SessionOf(c)] \in Nat /\ g[Main] \in Nat
      BY <1>2, CommandFacts
    <3>2. QED
      BY <1>19, <2>1, <3>1
  <2>8. QED
    BY <2>4, <2>5, <2>6, <2>7 DEF Counted
\* A drained lane is full or empty
<1>33. ASSUME NEW l \in Lanes, l \in D \/ Busy(l, q, a, limits)
       PROVE  Busy(l, queue', active', limits)
  <2> SUFFICES ASSUME queue'[l] # <<>> PROVE Cardinality(active'[l]) >= limits[l]
    BY DEF Busy
  <2>1. CASE l = Main /\ mainDrained
    <3>1. queue'[Main] = Waiting(mainQueue, a[Main], limits[Main])
      BY <1>1, <2>1, CommandFacts DEF mainQueue, mainDrained
    <3>2. active'[Main] = a[Main] \cup Started(mainQueue, a[Main], limits[Main])
      BY <1>18, <2>1, CommandFacts DEF mainBegun
    <3>3. mainQueue \in Seq(Commands) /\ a[Main] \in SUBSET Commands /\ limits[Main] \in Nat
      BY <1>3, <1>11, CommandFacts
    <3>4. \A i, j \in 1..Len(mainQueue) : mainQueue[i] = mainQueue[j] => i = j
      BY <1>15
    <3>5. \A i \in 1..Len(mainQueue) : mainQueue[i] \notin a[Main]
      <4> TAKE i \in 1..Len(mainQueue)
      <4>1. mainQueue[i] \in Commands /\ inn[mainQueue[i]] # "running"
        BY <1>11, <1>12, <1>13
      <4>2. QED
        BY <4>1 DEF Sound, Counted
    <3>6. QED
      BY <2>1, <3>1, <3>2, <3>3, <3>4, <3>5, PumpFills
  <2>2. CASE l = Main /\ ~mainDrained
    <3>1. queue'[Main] = q[Main] /\ Main \notin D /\ active'[Main] = a[Main]
      BY <1>1, <1>18, <1>21, <2>2, CommandFacts DEF mainQueue, mainDrained, mainBegun
    <3>2. QED
      BY <1>33, <2>2, <3>1 DEF Busy
  <2>3. CASE l \in Sessions /\ l \in D
    <3>1. queue'[l] = Waiting(q[l], a[l], limits[l])
      BY <1>18, <2>3 DEF w
    <3>2. active'[l] = a[l] \cup Started(q[l], a[l], limits[l])
      BY <1>18, <2>3, CommandFacts DEF fresh
    <3>3. q[l] \in Seq(Commands) /\ a[l] \in SUBSET Commands /\ limits[l] \in Nat
      BY <1>3
    <3>4. \A i, j \in 1..Len(q[l]) : q[l][i] = q[l][j] => i = j
      <4>1. \A i, j \in 1..Len(q[l]) : i < j => q[l][i][2] < q[l][j][2]
        BY <2>3 DEF Sound, Lined
      <4>2. \A i \in 1..Len(q[l]) : q[l][i][2] \in 1..MaxTurns
        BY <3>3, CommandFacts
      <4>3. ASSUME NEW i \in 1..Len(q[l]), NEW j \in 1..Len(q[l]), i < j PROVE q[l][i] # q[l][j]
        BY <4>1, <4>2, <4>3
      <4>4. QED
        BY <4>3
    <3>5. \A i \in 1..Len(q[l]) : q[l][i] \notin a[l]
      <4> TAKE i \in 1..Len(q[l])
      <4>1. q[l][i] \in Commands /\ out[q[l][i]] = "queued"
        BY <1>26, <2>3
      <4>2. QED
        BY <2>3, <4>1 DEF Sound, Counted
    <3>6. QED
      BY <3>1, <3>2, <3>3, <3>4, <3>5, PumpFills
  <2>4. CASE l \in Sessions /\ l \notin D
    <3>1. queue'[l] = q[l] /\ active'[l] = a[l]
      BY <1>18, <2>4, CommandFacts
    <3>2. QED
      BY <1>33, <2>4, <3>1 DEF Busy
  <2>5. QED
    BY <2>1, <2>2, <2>3, <2>4, CommandFacts
<1>34. QED
  BY <1>23, <1>24, <1>29, <1>30, <1>31, <1>32, <1>33 DEF Sound

-----------------------------------------------------------------------------
(* The operations on the lanes *)

LEMMA SoundFacts ==
  ASSUME LanesSound
  PROVE  /\ queue \in [Lanes -> Seq(Commands)] /\ active \in [Lanes -> SUBSET Commands]
         /\ generation \in [Lanes -> Nat] /\ maxConcurrent \in [Lanes -> 1..MaxConcurrent]
         /\ \A s \in Sessions : maxConcurrent[s] = 1
         /\ outer \in [Commands -> Statuses] /\ inner \in [Commands -> Statuses]
         /\ outerGen \in [Commands -> Nat] /\ innerGen \in [Commands -> Nat]
         /\ Lined(queue, outer, inner) /\ Staged(outer, inner) /\ Ordered(outer, inner)
         /\ Counted(active, generation, outer, inner, outerGen, innerGen)
BY DEF LanesSound, Sound, Typed

\* Before the lane of a new turn is drained, the turn stands last in it.
LEMMA EnqueueReady ==
  ASSUME LanesSound, NEW c \in Commands, outer[c] = "new",
         \A i \in 1..c[2] - 1 : outer[<<SessionOf(c), i>>] # "new"
  PROVE  Sound([queue EXCEPT ![SessionOf(c)] = Append(@, c)], active, generation, maxConcurrent,
               [outer EXCEPT ![c] = "queued"], inner, outerGen, innerGen)
<1> DEFINE s == SessionOf(c)
<1> DEFINE q == [queue EXCEPT ![s] = Append(@, c)]
<1> DEFINE out == [outer EXCEPT ![c] = "queued"]
<1>1. s \in Sessions /\ s \in Lanes /\ s # Main /\ c[2] \in 1..MaxTurns
  BY CommandFacts
<1>2. /\ queue \in [Lanes -> Seq(Commands)] /\ outer \in [Commands -> Statuses]
      /\ queue[s] \in Seq(Commands)
  BY <1>1, SoundFacts
<1>3. q \in [Lanes -> Seq(Commands)] /\ out \in [Commands -> Statuses]
  BY <1>1, <1>2 DEF Statuses
<1>4. /\ \A l \in Lanes : l # s => q[l] = queue[l]
      /\ Len(q[s]) = Len(queue[s]) + 1 /\ q[s][Len(queue[s]) + 1] = c
      /\ \A i \in 1..Len(queue[s]) : q[s][i] = queue[s][i]
  BY <1>1, <1>2
<1>5. out[c] = "queued" /\ \A d \in Commands : d # c => out[d] = outer[d]
  BY <1>2
<1>6. inner[c] = "new"
  BY SoundFacts DEF Staged
<1>7. \A d \in Commands : SessionOf(d) = s /\ d[2] < c[2] => outer[d] # "new"
  <2> SUFFICES ASSUME NEW d \in Commands, SessionOf(d) = s, d[2] < c[2] PROVE outer[d] # "new"
    OBVIOUS
  <2>1. d = <<s, d[2]>> /\ d[2] \in 1..MaxTurns
    BY DEF Commands, SessionOf
  <2>2. d[2] \in 1..c[2] - 1
    BY <1>1, <2>1
  <2>3. QED
    BY <2>1, <2>2
<1>8. \A d \in Commands : SessionOf(d) = s /\ outer[d] # "new" => d[2] < c[2]
  <2> SUFFICES ASSUME NEW d \in Commands, SessionOf(d) = s, outer[d] # "new" PROVE d[2] < c[2]
    OBVIOUS
  <2>1. ~(c[2] < d[2])
    BY SoundFacts DEF Ordered
  <2>2. c[2] # d[2]
    BY CommandFacts
  <2>3. QED
    BY <1>1, <2>1, <2>2, CommandFacts
<1> HIDE DEF q, out
<1>9. Lined(q, out, inner)
  <2>0. Lined(queue, outer, inner) /\ Len(queue[s]) \in Nat
    BY <1>2, SoundFacts
  <2>1. ASSUME NEW r \in Sessions, NEW i \in 1..Len(q[r])
        PROVE  SessionOf(q[r][i]) = r /\ out[q[r][i]] = "queued"
    <3>1. CASE r = s /\ i = Len(queue[s]) + 1
      BY <1>4, <1>5, <3>1
    <3>2. CASE ~(r = s /\ i = Len(queue[s]) + 1)
      <4>1. i \in 1..Len(queue[r]) /\ q[r][i] = queue[r][i] /\ queue[r] \in Seq(Commands)
        BY <1>2, <1>4, <2>0, <3>2, CommandFacts
      <4>2. SessionOf(queue[r][i]) = r /\ outer[queue[r][i]] = "queued"
        BY <2>0, <4>1 DEF Lined
      <4>3. QED
        BY <1>5, <4>1, <4>2
    <3>3. QED
      BY <3>1, <3>2
  <2>2. ASSUME NEW r \in Sessions, NEW i \in 1..Len(q[r]), NEW j \in 1..Len(q[r]), i < j
        PROVE  q[r][i][2] < q[r][j][2]
    <3>1. CASE r = s /\ j = Len(queue[s]) + 1
      <4>1. i \in 1..Len(queue[s]) /\ q[r][i] = queue[s][i] /\ q[r][j] = c
        BY <1>4, <2>0, <2>2, <3>1
      <4>2. queue[s][i] \in Commands /\ SessionOf(queue[s][i]) = s /\ outer[queue[s][i]] = "queued"
        BY <1>1, <1>2, <2>0, <4>1 DEF Lined
      <4>3. QED
        BY <1>8, <4>1, <4>2
    <3>2. CASE ~(r = s /\ j = Len(queue[s]) + 1)
      <4>1. /\ i \in 1..Len(queue[r]) /\ q[r][i] = queue[r][i]
            /\ j \in 1..Len(queue[r]) /\ q[r][j] = queue[r][j]
        <5>1. r \in Lanes /\ queue[r] \in Seq(Commands) /\ Len(queue[r]) \in Nat
          BY <1>2, CommandFacts
        <5>2. CASE r = s
          BY <1>4, <2>0, <2>2, <3>2, <5>2
        <5>3. CASE r # s
          BY <1>4, <5>1, <5>3
        <5>4. QED
          BY <5>2, <5>3
      <4>2. QED
        BY <2>0, <2>2, <4>1 DEF Lined
    <3>3. QED
      BY <3>1, <3>2
  <2>3. ASSUME NEW d \in Commands, out[d] = "queued"
        PROVE  \E i \in 1..Len(q[SessionOf(d)]) : q[SessionOf(d)][i] = d
    <3>1. CASE d = c
      <4>1. Len(queue[s]) + 1 \in 1..Len(q[s])
        BY <1>4, <2>0
      <4>2. QED
        BY <1>4, <3>1, <4>1
    <3>2. CASE d # c
      <4>1. PICK i \in 1..Len(queue[SessionOf(d)]) : queue[SessionOf(d)][i] = d
        BY <1>5, <2>0, <2>3, <3>2 DEF Lined
      <4>2. i \in 1..Len(q[SessionOf(d)]) /\ q[SessionOf(d)][i] = d
        BY <1>2, <1>4, <2>0, <4>1, CommandFacts
      <4>3. QED
        BY <4>2
    <3>3. QED
      BY <3>1, <3>2
  <2>4. q[Main] = queue[Main]
    BY <1>1, <1>4, CommandFacts
  <2>5. QED
    BY <2>0, <2>1, <2>2, <2>3, <2>4 DEF Lined
<1>10. Staged(out, inner)
  BY <1>5, <1>6, SoundFacts DEF Staged
<1>11. Ordered(out, inner)
  <2>1. Ordered(outer, inner)
    BY SoundFacts
  <2> SUFFICES ASSUME NEW e \in Commands, NEW d \in Commands,
                      SessionOf(e) = SessionOf(d), d[2] < e[2]
               PROVE  /\ out[e] # "new" => out[d] # "new"
                      /\ out[e] \in {"running", "done"} => out[d] # "queued"
                      /\ inner[e] \in {"running", "done"} => inner[d] # "queued"
    BY DEF Ordered
  <2>2. e # d
    BY CommandFacts
  <2>3. CASE e = c
    BY <1>5, <1>7, <2>1, <2>2, <2>3 DEF Ordered
  <2>4. CASE d = c
    <3>1. outer[e] = "new"
      <4>1. outer[e] # "new" => outer[d] # "new"
        BY <2>1 DEF Ordered
      <4>2. QED
        BY <2>4, <4>1
    <3>2. QED
      BY <1>5, <1>6, <2>2, <2>4, <3>1
  <2>5. CASE e # c /\ d # c
    BY <1>5, <2>1, <2>5 DEF Ordered
  <2>6. QED
    BY <2>3, <2>4, <2>5
<1>12. Counted(active, generation, out, inner, outerGen, innerGen)
  <2>1. \A d \in Commands : out[d] = "running" <=> outer[d] = "running"
    BY <1>5
  <2>2. QED
    BY <2>1, SoundFacts DEF Counted
<1>13. QED
  BY <1>3, <1>9, <1>10, <1>11, <1>12, SoundFacts DEF Sound, Typed, q, out

\* A turn whose promise in the main lane is settled stands in no line.
LEMMA TurnSettles ==
  ASSUME LanesSound, NEW c \in Commands, inner[c] = "running"
  PROVE  LET inn == [inner EXCEPT ![c] = "done"]
         IN  /\ inn \in [Commands -> Statuses] /\ inn[c] = "done"
             /\ \A d \in Commands : d # c => inn[d] = inner[d]
             /\ Lined(queue, outer, inn) /\ Staged(outer, inn) /\ Ordered(outer, inn)
<1> DEFINE inn == [inner EXCEPT ![c] = "done"]
<1>1. inn \in [Commands -> Statuses]
  BY SoundFacts DEF Statuses
<1>2. inn[c] = "done" /\ \A d \in Commands : d # c => inn[d] = inner[d]
  BY SoundFacts
<1> HIDE DEF inn
<1>3. Lined(queue, outer, inn)
  <2>1. \A i \in 1..Len(queue[Main]) : queue[Main][i] \in Commands
    BY SoundFacts, CommandFacts
  <2>2. Lined(queue, outer, inner)
    BY SoundFacts
  <2>3. \A i \in 1..Len(queue[Main]) : inn[queue[Main][i]] = "queued"
    BY <1>2, <2>1, <2>2 DEF Lined
  <2>4. \A d \in Commands : inn[d] = "queued" => \E i \in 1..Len(queue[Main]) : queue[Main][i] = d
    BY <1>2, <2>2 DEF Lined
  <2>5. QED
    BY <2>2, <2>3, <2>4 DEF Lined
<1>4. Staged(outer, inn)
  BY <1>2, SoundFacts DEF Staged
<1>5. Ordered(outer, inn)
  BY <1>2, SoundFacts DEF Ordered
<1>6. QED
  BY <1>1, <1>2, <1>3, <1>4, <1>5 DEF inn

LEMMA SessionSettles ==
  ASSUME LanesSound, NEW c \in Commands, outer[c] = "running", inner[c] \in {"done", "refused"}
  PROVE  LET out == [outer EXCEPT ![c] = "done"]
         IN  /\ out \in [Commands -> Statuses] /\ out[c] = "done"
             /\ \A d \in Commands : d # c => out[d] = outer[d]
             /\ Lined(queue, out, inner) /\ Staged(out, inner) /\ Ordered(out, inner)
<1> DEFINE out == [outer EXCEPT ![c] = "done"]
<1>1. out \in [Commands -> Statuses]
  BY SoundFacts DEF Statuses
<1>2. out[c] = "done" /\ \A d \in Commands : d # c => out[d] = outer[d]
  BY SoundFacts
<1> HIDE DEF out
<1>3. Lined(queue, out, inner)
  <2>1. \A s \in Sessions : \A i \in 1..Len(queue[s]) : queue[s][i] \in Commands
    BY SoundFacts, CommandFacts
  <2>2. Lined(queue, outer, inner)
    BY SoundFacts
  <2>3. \A s \in Sessions : \A i \in 1..Len(queue[s]) :
          SessionOf(queue[s][i]) = s /\ out[queue[s][i]] = "queued"
    BY <1>2, <2>1, <2>2 DEF Lined
  <2>4. \A d \in Commands : out[d] = "queued" =>
          \E i \in 1..Len(queue[SessionOf(d)]) : queue[SessionOf(d)][i] = d
    BY <1>2, <2>2 DEF Lined
  <2>5. QED
    BY <2>2, <2>3, <2>4 DEF Lined
<1>4. Staged(out, inner)
  BY <1>2, SoundFacts DEF Staged
<1>5. Ordered(out, inner)
  BY <1>2, SoundFacts DEF Ordered
<1>6. QED
  BY <1>1, <1>2, <1>3, <1>4, <1>5 DEF out

\* How the promises of a turn may move in one step.
Moves(c) ==
  \/ outer'[c] = outer[c] /\ inner'[c] = inner[c]
  \/ /\ outer[c] = "new" /\ inner[c] = "new"
     /\ \/ outer'[c] \in {"queued", "refused"} /\ inner'[c] = "new"
        \/ outer'[c] = "running" /\ inner'[c] \in Underway
  \/ outer[c] = "queued" /\ outer'[c] = "running" /\ inner'[c] \in Underway \cup {"refused"}
  \/ outer[c] = "queued" /\ outer'[c] = "cleared" /\ inner'[c] = inner[c]
  \/ outer'[c] = outer[c] /\ inner[c] = "queued" /\ inner'[c] = "running"
  \/ outer'[c] = outer[c] /\ inner[c] = "running" /\ inner'[c] = "done"
  \/ outer[c] = "running" /\ outer'[c] = "done" /\ inner'[c] = inner[c]

\* A turn that is under way was so before, or its session task has just
\* started in a gateway that accepts commands.
Begins(c, draining) == inner'[c] \in Underway =>
  \/ inner[c] \in Underway /\ outerGen'[c] = outerGen[c]
  \/ ~draining /\ outerGen'[c] = generation'[SessionOf(c)]

LanesKept ==
  /\ LanesSound'
  /\ AllBusy'
  /\ \A c \in Commands : Moves(c)

LEMMA EnqueueStep ==
  ASSUME LanesSound, AllBusy, gatewayDraining \in BOOLEAN, NEW c \in Commands, Enqueue(c)
  PROVE  LanesKept /\ \A d \in Commands : Begins(d, gatewayDraining)
<1> DEFINE s == SessionOf(c)
<1>1. /\ outer[c] = "new" /\ \A i \in 1..c[2] - 1 : outer[<<s, i>>] # "new"
      /\ maxConcurrent' = maxConcurrent /\ generation' = generation
      /\ gatewayDraining' = gatewayDraining
  BY DEF Enqueue
<1>2. s \in Sessions /\ s \in Lanes /\ s # Main /\ inner[c] = "new"
  BY <1>1, CommandFacts, SoundFacts DEF Staged
<1>3. CASE gatewayDraining
  <2>1. /\ outer' = [outer EXCEPT ![c] = "refused"]
        /\ queue' = queue /\ active' = active /\ inner' = inner
        /\ outerGen' = outerGen /\ innerGen' = innerGen
    BY <1>3 DEF Enqueue
  <2>2. /\ outer' \in [Commands -> Statuses] /\ outer'[c] = "refused"
        /\ \A d \in Commands : d # c => outer'[d] = outer[d]
    BY <2>1, SoundFacts DEF Statuses
  <2>3. Lined(queue, outer', inner)
    <3>1. Lined(queue, outer, inner)
      BY SoundFacts
    <3>2. \A r \in Sessions : \A i \in 1..Len(queue[r]) :
            queue[r][i] \in Commands /\ SessionOf(queue[r][i]) = r /\ outer[queue[r][i]] = "queued"
      <4>1. \A r \in Sessions : \A i \in 1..Len(queue[r]) : queue[r][i] \in Commands
        BY SoundFacts, CommandFacts
      <4>2. QED
        BY <3>1, <4>1 DEF Lined
    <3>3. \A r \in Sessions : \A i \in 1..Len(queue[r]) :
            SessionOf(queue[r][i]) = r /\ outer'[queue[r][i]] = "queued"
      BY <1>1, <2>2, <3>2
    <3>4. \A d \in Commands : outer'[d] = "queued" =>
            \E i \in 1..Len(queue[SessionOf(d)]) : queue[SessionOf(d)][i] = d
      BY <2>2, <3>1 DEF Lined
    <3>5. QED
      BY <3>1, <3>3, <3>4 DEF Lined
  <2>4. Staged(outer', inner)
    BY <1>2, <2>2, SoundFacts DEF Staged
  <2>5. Ordered(outer', inner)
    <3> SUFFICES ASSUME NEW e \in Commands, NEW d \in Commands,
                        SessionOf(e) = SessionOf(d), d[2] < e[2]
                 PROVE  /\ outer'[e] # "new" => outer'[d] # "new"
                        /\ outer'[e] \in {"running", "done"} => outer'[d] # "queued"
                        /\ inner[e] \in {"running", "done"} => inner[d] # "queued"
      BY DEF Ordered
    <3>1. /\ outer[e] # "new" => outer[d] # "new"
          /\ outer[e] \in {"running", "done"} => outer[d] # "queued"
          /\ inner[e] \in {"running", "done"} => inner[d] # "queued"
      BY SoundFacts DEF Ordered
    <3>2. e = c => outer[d] # "new"
      <4> SUFFICES ASSUME e = c PROVE outer[d] # "new"
        OBVIOUS
      <4>1. d = <<s, d[2]>> /\ d[2] \in 1..MaxTurns
        BY DEF Commands, SessionOf
      <4>2. d[2] \in 1..c[2] - 1
        BY <4>1, CommandFacts
      <4>3. QED
        BY <1>1, <4>1, <4>2
    <3>3. QED
      BY <2>2, <3>1, <3>2
  <2>6. Counted(active, generation, outer', inner, outerGen, innerGen)
    <3>1. \A d \in Commands : outer'[d] = "running" <=> outer[d] = "running"
      BY <1>1, <2>2
    <3>2. QED
      BY <3>1, SoundFacts DEF Counted
  <2>7. LanesSound'
    BY <1>1, <2>1, <2>2, <2>3, <2>4, <2>5, <2>6, SoundFacts DEF LanesSound, Sound, Typed
  <2>8. \A d \in Commands : Moves(d) /\ Begins(d, gatewayDraining)
    BY <1>1, <1>2, <2>1, <2>2 DEF Moves, Begins
  <2>9. QED
    BY <1>1, <2>1, <2>7, <2>8 DEF LanesKept, AllBusy, Busy
<1>4. CASE ~gatewayDraining
  <2> DEFINE q == [queue EXCEPT ![s] = Append(@, c)]
  <2> DEFINE out == [outer EXCEPT ![c] = "queued"]
  <2>1. DrainLanes({s}, q, active, generation, maxConcurrent, FALSE, out, inner)
    BY <1>4 DEF Enqueue
  <2>2. Sound(q, active, generation, maxConcurrent, out, inner, outerGen, innerGen)
    BY <1>1, EnqueueReady
  <2>3. {s} \in SUBSET Lanes
    BY <1>2
  <2>4. /\ \A l \in Lanes : l # s => q[l] = queue[l]
        /\ out[c] = "queued" /\ \A d \in Commands : d # c => out[d] = outer[d]
    BY <1>2, SoundFacts
  <2> HIDE DEF q, out
  <2>5. /\ Sound(queue', active', generation, maxConcurrent, outer', inner', outerGen', innerGen')
        /\ \A l \in Lanes : l \in {s} \/ Busy(l, q, active, maxConcurrent)
                              => Busy(l, queue', active', maxConcurrent)
        /\ \A d \in Commands : Effect(d, generation, FALSE, out, inner)
    BY <2>1, <2>2, <2>3, DrainKeeps
  <2>6. \A l \in Lanes : Busy(l, queue', active', maxConcurrent)
    <3>1. \A l \in Lanes : l # s => Busy(l, q, active, maxConcurrent)
      BY <2>4 DEF AllBusy, Busy
    <3>2. QED
      BY <2>5, <3>1
  <2>7. \A d \in Commands : Moves(d) /\ Begins(d, gatewayDraining)
    <3> TAKE d \in Commands
    <3>1. Effect(d, generation, FALSE, out, inner)
      BY <2>5
    <3>2. CASE d = c
      BY <1>1, <1>2, <1>4, <2>4, <3>1, <3>2 DEF Effect, Moves, Begins, Underway
    <3>3. CASE d # c
      BY <1>1, <1>4, <2>4, <3>1, <3>3 DEF Effect, Moves, Begins, Underway
    <3>4. QED
      BY <3>2, <3>3
  <2>8. QED
    BY <1>1, <2>5, <2>6, <2>7 DEF LanesKept, LanesSound, AllBusy
<1>5. QED
  BY <1>3, <1>4

LEMMA FinishTurnStep ==
  ASSUME LanesSound, AllBusy, gatewayDraining \in BOOLEAN, NEW c \in Commands, FinishTurn(c)
  PROVE  LanesKept /\ \A d \in Commands : Begins(d, gatewayDraining)
<1> DEFINE inn == [inner EXCEPT ![c] = "done"]
<1>1. /\ inner[c] = "running" /\ maxConcurrent' = maxConcurrent /\ generation' = generation
      /\ gatewayDraining' = gatewayDraining
  BY DEF FinishTurn
<1>2. /\ inn \in [Commands -> Statuses] /\ inn[c] = "done"
      /\ \A d \in Commands : d # c => inn[d] = inner[d]
      /\ Lined(queue, outer, inn) /\ Staged(outer, inn) /\ Ordered(outer, inn)
  BY <1>1, TurnSettles
<1>3. outer[c] = "running"
  BY <1>1, SoundFacts DEF Staged, Statuses
<1>4. CASE innerGen[c] # generation[Main]
  <2>1. /\ inner' = inn /\ queue' = queue /\ active' = active /\ outer' = outer
        /\ outerGen' = outerGen /\ innerGen' = innerGen
    BY <1>4 DEF FinishTurn
  <2> HIDE DEF inn
  <2>2. Counted(active, generation, outer, inn, outerGen, innerGen)
    <3>1. Counted(active, generation, outer, inner, outerGen, innerGen)
      BY SoundFacts
    <3>2. \A d \in Commands : d \in active[Main] <=> inn[d] = "running" /\ innerGen[d] = generation[Main]
      BY <1>2, <1>4, <3>1 DEF Counted
    <3>3. QED
      BY <3>1, <3>2 DEF Counted
  <2>3. LanesSound'
    BY <1>1, <1>2, <2>1, <2>2, SoundFacts DEF LanesSound, Sound, Typed
  <2>4. \A d \in Commands : Moves(d) /\ Begins(d, gatewayDraining)
    BY <1>1, <1>2, <2>1 DEF Moves, Begins, Underway
  <2>5. QED
    BY <1>1, <2>1, <2>3, <2>4 DEF LanesKept, AllBusy, Busy
<1>5. CASE innerGen[c] = generation[Main]
  <2> DEFINE a == [active EXCEPT ![Main] = @ \ {c}]
  <2>1. DrainLanes({Main}, queue, a, generation, maxConcurrent, gatewayDraining, outer, inn)
    BY <1>5 DEF FinishTurn
  <2>2. /\ a \in [Lanes -> SUBSET Commands] /\ a[Main] = active[Main] \ {c}
        /\ \A l \in Lanes : l # Main => a[l] = active[l]
    BY SoundFacts, CommandFacts
  <2> HIDE DEF a, inn
  <2>3. Counted(a, generation, outer, inn, outerGen, innerGen)
    <3>1. Counted(active, generation, outer, inner, outerGen, innerGen)
      BY SoundFacts
    <3>2. \A d \in Commands : d \in a[Main] <=> inn[d] = "running" /\ innerGen[d] = generation[Main]
      BY <1>2, <2>2, <3>1 DEF Counted
    <3>3. \A s \in Sessions : a[s] = active[s]
      BY <2>2, CommandFacts
    <3>4. QED
      BY <3>1, <3>2, <3>3 DEF Counted
  <2>4. Sound(queue, a, generation, maxConcurrent, outer, inn, outerGen, innerGen)
    BY <1>2, <2>2, <2>3, SoundFacts DEF Sound, Typed
  <2>5. {Main} \in SUBSET Lanes
    BY CommandFacts
  <2>6. /\ Sound(queue', active', generation, maxConcurrent, outer', inner', outerGen', innerGen')
        /\ \A l \in Lanes : l \in {Main} \/ Busy(l, queue, a, maxConcurrent)
                              => Busy(l, queue', active', maxConcurrent)
        /\ \A d \in Commands : Effect(d, generation, gatewayDraining, outer, inn)
    BY <2>1, <2>4, <2>5, DrainKeeps
  <2>7. \A l \in Lanes : Busy(l, queue', active', maxConcurrent)
    <3>1. \A l \in Lanes : l # Main => Busy(l, queue, a, maxConcurrent)
      BY <2>2 DEF AllBusy, Busy
    <3>2. QED
      BY <2>6, <3>1
  <2>8. \A d \in Commands : Moves(d) /\ Begins(d, gatewayDraining)
    <3> TAKE d \in Commands
    <3>1. Effect(d, generation, gatewayDraining, outer, inn)
      BY <2>6
    <3>2. CASE d = c
      BY <1>1, <1>2, <1>3, <3>1, <3>2 DEF Effect, Moves, Begins, Underway
    <3>3. CASE d # c
      BY <1>1, <1>2, <3>1, <3>3 DEF Effect, Moves, Begins, Underway
    <3>4. QED
      BY <3>2, <3>3
  <2>9. QED
    BY <1>1, <2>6, <2>7, <2>8 DEF LanesKept, LanesSound, AllBusy
<1>6. QED
  BY <1>4, <1>5

LEMMA FinishSessionStep ==
  ASSUME LanesSound, AllBusy, gatewayDraining \in BOOLEAN, NEW c \in Commands, FinishSession(c)
  PROVE  LanesKept /\ \A d \in Commands : Begins(d, gatewayDraining)
<1> DEFINE s == SessionOf(c)
<1> DEFINE out == [outer EXCEPT ![c] = "done"]
<1>1. /\ outer[c] = "running" /\ inner[c] \in {"done", "refused"}
      /\ maxConcurrent' = maxConcurrent /\ generation' = generation
      /\ gatewayDraining' = gatewayDraining
  BY DEF FinishSession
<1>2. /\ out \in [Commands -> Statuses] /\ out[c] = "done"
      /\ \A d \in Commands : d # c => out[d] = outer[d]
      /\ Lined(queue, out, inner) /\ Staged(out, inner) /\ Ordered(out, inner)
  BY <1>1, SessionSettles
<1>3. s \in Sessions /\ s \in Lanes /\ s # Main
  BY CommandFacts
<1>4. CASE outerGen[c] # generation[s]
  <2>1. /\ outer' = out /\ queue' = queue /\ active' = active /\ inner' = inner
        /\ outerGen' = outerGen /\ innerGen' = innerGen
    BY <1>4 DEF FinishSession
  <2> HIDE DEF out
  <2>2. Counted(active, generation, out, inner, outerGen, innerGen)
    <3>1. Counted(active, generation, outer, inner, outerGen, innerGen)
      BY SoundFacts
    <3>2. \A r \in Sessions : \A d \in Commands :
            d \in active[r] <=> SessionOf(d) = r /\ out[d] = "running" /\ outerGen[d] = generation[r]
      BY <1>2, <1>4, <3>1 DEF Counted
    <3>3. QED
      BY <3>1, <3>2 DEF Counted
  <2>3. LanesSound'
    BY <1>1, <1>2, <2>1, <2>2, SoundFacts DEF LanesSound, Sound, Typed
  <2>4. \A d \in Commands : Moves(d) /\ Begins(d, gatewayDraining)
    BY <1>1, <1>2, <2>1 DEF Moves, Begins, Underway
  <2>5. QED
    BY <1>1, <2>1, <2>3, <2>4 DEF LanesKept, AllBusy, Busy
<1>5. CASE outerGen[c] = generation[s]
  <2> DEFINE a == [active EXCEPT ![s] = @ \ {c}]
  <2>1. DrainLanes({s}, queue, a, generation, maxConcurrent, gatewayDraining, out, inner)
    BY <1>5 DEF FinishSession
  <2>2. /\ a \in [Lanes -> SUBSET Commands] /\ a[s] = active[s] \ {c}
        /\ \A l \in Lanes : l # s => a[l] = active[l]
    BY <1>3, SoundFacts
  <2> HIDE DEF a, out, s
  <2>3. Counted(a, generation, out, inner, outerGen, innerGen)
    <3>1. Counted(active, generation, outer, inner, outerGen, innerGen)
      BY SoundFacts
    <3>2. ASSUME NEW r \in Sessions, NEW d \in Commands
          PROVE  d \in a[r] <=> SessionOf(d) = r /\ out[d] = "running" /\ outerGen[d] = generation[r]
      <4>1. d \in active[r] <=>
              SessionOf(d) = r /\ outer[d] = "running" /\ outerGen[d] = generation[r]
        BY <3>1 DEF Counted
      <4>2. CASE r = s
        BY <1>2, <2>2, <4>1, <4>2
      <4>3. CASE r # s
        <5>1. a[r] = active[r]
          BY <2>2, <4>3, CommandFacts
        <5>2. QED
          BY <1>2, <4>1, <4>3, <5>1 DEF s
      <4>4. QED
        BY <4>2, <4>3
    <3>3. \A r \in Sessions : a[r] \subseteq active[r]
      BY <2>2, CommandFacts
    <3>4. a[Main] = active[Main]
      BY <1>3, <2>2, CommandFacts
    <3>5. QED
      BY <3>1, <3>2, <3>3, <3>4 DEF Counted
  <2>4. Sound(queue, a, generation, maxConcurrent, out, inner, outerGen, innerGen)
    BY <1>2, <2>2, <2>3, SoundFacts DEF Sound, Typed
  <2>5. {s} \in SUBSET Lanes
    BY <1>3
  <2>6. /\ Sound(queue', active', generation, maxConcurrent, outer', inner', outerGen', innerGen')
        /\ \A l \in Lanes : l \in {s} \/ Busy(l, queue, a, maxConcurrent)
                              => Busy(l, queue', active', maxConcurrent)
        /\ \A d \in Commands : Effect(d, generation, gatewayDraining, out, inner)
    BY <2>1, <2>4, <2>5, DrainKeeps
  <2>7. \A l \in Lanes : Busy(l, queue', active', maxConcurrent)
    <3>1. \A l \in Lanes : l # s => Busy(l, queue, a, maxConcurrent)
      BY <2>2 DEF AllBusy, Busy
    <3>2. QED
      BY <2>6, <3>1
  <2>8. \A d \in Commands : Moves(d) /\ Begins(d, gatewayDraining)
    <3> TAKE d \in Commands
    <3>1. Effect(d, generation, gatewayDraining, out, inner)
      BY <2>6
    <3>2. CASE d = c
      BY <1>1, <1>2, <3>1, <3>2 DEF Effect, Moves, Begins, Underway
    <3>3. CASE d # c
      BY <1>1, <1>2, <3>1, <3>3 DEF Effect, Moves, Begins, Underway
    <3>4. QED
      BY <3>2, <3>3
  <2>9. QED
    BY <1>1, <2>6, <2>7, <2>8 DEF LanesKept, LanesSound, AllBusy
<1>6. QED
  BY <1>4, <1>5

LEMMA ClearSessionStep ==
  ASSUME LanesSound, AllBusy, NEW s \in Sessions, ClearSession(s)
  PROVE  LanesKept /\ \A d \in Commands : Begins(d, gatewayDraining)
<1>1. /\ queue' = [queue EXCEPT ![s] = <<>>]
      /\ outer' = [c \in Commands |-> IF c \in ToSet(queue[s]) THEN "cleared" ELSE outer[c]]
      /\ active' = active /\ maxConcurrent' = maxConcurrent /\ generation' = generation
      /\ inner' = inner /\ outerGen' = outerGen /\ innerGen' = innerGen
  BY DEF ClearSession
<1>2. Lined(queue, outer, inner)
  BY SoundFacts
<1>3. ASSUME NEW c \in Commands
      PROVE  c \in ToSet(queue[s]) <=> SessionOf(c) = s /\ outer[c] = "queued"
  <2>1. ToSet(queue[s]) = {queue[s][i] : i \in 1..Len(queue[s])}
    BY SoundFacts, CommandFacts DEF ToSet
  <2>2. QED
    BY <1>2, <2>1 DEF Lined
<1>4. /\ outer' \in [Commands -> Statuses]
      /\ \A c \in Commands : outer'[c] = IF SessionOf(c) = s /\ outer[c] = "queued"
                                         THEN "cleared" ELSE outer[c]
  BY <1>1, <1>3, SoundFacts DEF Statuses
<1>5. /\ queue' \in [Lanes -> Seq(Commands)] /\ Len(queue'[s]) = 0
      /\ \A l \in Lanes : l # s => queue'[l] = queue[l]
  BY <1>1, SoundFacts, CommandFacts
<1>6. Lined(queue', outer', inner)
  <2>1. ASSUME NEW r \in Sessions, NEW i \in 1..Len(queue'[r])
        PROVE  SessionOf(queue'[r][i]) = r /\ outer'[queue'[r][i]] = "queued"
    <3>1. r # s /\ r \in Lanes /\ queue'[r] = queue[r]
      BY <1>5, CommandFacts
    <3>2. queue[r][i] \in Commands
      BY <3>1, SoundFacts
    <3>3. QED
      BY <1>2, <1>4, <3>1, <3>2 DEF Lined
  <2>2. ASSUME NEW r \in Sessions, NEW i \in 1..Len(queue'[r]), NEW j \in 1..Len(queue'[r]), i < j
        PROVE  queue'[r][i][2] < queue'[r][j][2]
    <3>1. r # s /\ queue'[r] = queue[r]
      BY <1>5, CommandFacts
    <3>2. QED
      BY <1>2, <2>2, <3>1 DEF Lined
  <2>3. ASSUME NEW c \in Commands, outer'[c] = "queued"
        PROVE  \E i \in 1..Len(queue'[SessionOf(c)]) : queue'[SessionOf(c)][i] = c
    <3>1. SessionOf(c) # s /\ outer[c] = "queued" /\ queue'[SessionOf(c)] = queue[SessionOf(c)]
      BY <1>4, <1>5, <2>3, CommandFacts
    <3>2. QED
      BY <1>2, <3>1 DEF Lined
  <2>4. queue'[Main] = queue[Main]
    BY <1>5, CommandFacts
  <2>5. QED
    BY <1>2, <2>1, <2>2, <2>3, <2>4 DEF Lined
<1>7. Staged(outer', inner)
  BY <1>4, SoundFacts DEF Staged
<1>8. Ordered(outer', inner)
  BY <1>4, SoundFacts DEF Ordered
<1>9. Counted(active, generation, outer', inner, outerGen, innerGen)
  <2>1. \A c \in Commands : outer'[c] = "running" <=> outer[c] = "running"
    BY <1>4
  <2>2. QED
    BY <2>1, SoundFacts DEF Counted
<1>10. LanesSound'
  BY <1>1, <1>4, <1>5, <1>6, <1>7, <1>8, <1>9, SoundFacts DEF LanesSound, Sound, Typed
<1>11. \A d \in Commands : Moves(d) /\ Begins(d, gatewayDraining)
  BY <1>1, <1>4 DEF Moves, Begins
<1>12. \A l \in Lanes : Busy(l, queue', active', maxConcurrent')
  BY <1>1, <1>5 DEF AllBusy, Busy
<1>13. QED
  BY <1>10, <1>11, <1>12 DEF LanesKept, AllBusy

LEMMA SetConcurrencyStep ==
  ASSUME LanesSound, AllBusy, gatewayDraining \in BOOLEAN,
         NEW limit \in 1..MaxConcurrent, SetConcurrency(limit)
  PROVE  LanesKept /\ \A d \in Commands : Begins(d, gatewayDraining)
<1>1. PICK limits : limits = maxConcurrent'
  OBVIOUS
<1>2. limits = [maxConcurrent EXCEPT ![Main] = limit] /\ generation' = generation
  BY <1>1 DEF SetConcurrency
<1>3. DrainLanes({Main}, queue, active, generation, limits, gatewayDraining, outer, inner)
  BY <1>1 DEF SetConcurrency
<1>4. /\ limits \in [Lanes -> 1..MaxConcurrent] /\ \A s \in Sessions : limits[s] = 1
      /\ \A l \in Lanes : l # Main => limits[l] = maxConcurrent[l]
  BY <1>2, SoundFacts, CommandFacts
<1>5. Sound(queue, active, generation, limits, outer, inner, outerGen, innerGen)
  BY <1>4, SoundFacts DEF Sound, Typed
<1>6. {Main} \in SUBSET Lanes
  BY CommandFacts
<1>7. /\ Sound(queue', active', generation, limits, outer', inner', outerGen', innerGen')
      /\ \A l \in Lanes : l \in {Main} \/ Busy(l, queue, active, limits)
                            => Busy(l, queue', active', limits)
      /\ \A d \in Commands : Effect(d, generation, gatewayDraining, outer, inner)
  BY <1>3, <1>5, <1>6, DrainKeeps
<1>8. \A l \in Lanes : l # Main => Busy(l, queue, active, limits)
  BY <1>4 DEF AllBusy, Busy
<1>9. \A l \in Lanes : Busy(l, queue', active', maxConcurrent')
  BY <1>1, <1>7, <1>8
<1>10. \A d \in Commands : Moves(d) /\ Begins(d, gatewayDraining)
  <2> TAKE d \in Commands
  <2>1. Effect(d, generation, gatewayDraining, outer, inner)
    BY <1>7
  <2>2. QED
    BY <1>2, <2>1 DEF Effect, Moves, Begins, Underway
<1>11. LanesSound'
  BY <1>1, <1>2, <1>7 DEF LanesSound
<1>12. QED
  BY <1>9, <1>10, <1>11 DEF LanesKept, AllBusy

\* Every lane forgets its tasks: a turn of an older generation is not counted.
LEMMA ResetAllLanesStep ==
  ASSUME LanesSound, ResetAllLanes
  PROVE  /\ LanesKept /\ gatewayDraining' = FALSE
         /\ \A d \in Commands : inner[d] \in Underway \/ Begins(d, FALSE)
<1> DEFINE D == {l \in Lanes : queue[l] # <<>>}
<1> DEFINE a == [l \in Lanes |-> {}]
<1>1. PICK g : g = generation'
  OBVIOUS
<1>2. g = [l \in Lanes |-> generation[l] + 1] /\ maxConcurrent' = maxConcurrent
      /\ gatewayDraining' = FALSE
  BY <1>1 DEF ResetAllLanes
<1>3. DrainLanes(D, queue, a, g, maxConcurrent, FALSE, outer, inner)
  BY <1>1 DEF ResetAllLanes
<1>4. D \in SUBSET Lanes /\ \A l \in Lanes : l \notin D => queue[l] = <<>>
  OBVIOUS
<1>5. g \in [Lanes -> Nat] /\ \A l \in Lanes : g[l] = generation[l] + 1
  BY <1>2, SoundFacts
<1>6. a \in [Lanes -> SUBSET Commands] /\ \A l \in Lanes : a[l] = {}
  OBVIOUS
<1> HIDE DEF D, a
<1>7. Counted(a, g, outer, inner, outerGen, innerGen)
  <2>1. ASSUME NEW c \in Commands
        PROVE  /\ outerGen[c] < g[SessionOf(c)] /\ innerGen[c] < g[Main]
               /\ outerGen[c] \in Nat /\ innerGen[c] \in Nat
               /\ g[SessionOf(c)] \in Nat /\ g[Main] \in Nat
    <3>1. outerGen[c] <= generation[SessionOf(c)] /\ innerGen[c] <= generation[Main]
      BY SoundFacts DEF Counted
    <3>2. SessionOf(c) \in Lanes /\ Main \in Lanes
      BY CommandFacts
    <3>3. generation[SessionOf(c)] \in Nat /\ generation[Main] \in Nat
      BY <3>2, SoundFacts
    <3>4. outerGen[c] \in Nat /\ innerGen[c] \in Nat
      BY SoundFacts
    <3>5. QED
      BY <1>5, <3>1, <3>2, <3>3, <3>4
  <2>2. \A s \in Sessions : \A c \in Commands :
          c \in a[s] <=> SessionOf(c) = s /\ outer[c] = "running" /\ outerGen[c] = g[s]
    BY <1>6, <2>1, CommandFacts
  <2>3. \A c \in Commands : c \in a[Main] <=> inner[c] = "running" /\ innerGen[c] = g[Main]
    BY <1>6, <2>1, CommandFacts
  <2>4. \A s \in Sessions : \A c, d \in a[s] : c = d
    BY <1>6, CommandFacts
  <2>5. \A c \in Commands : outerGen[c] <= g[SessionOf(c)] /\ innerGen[c] <= g[Main]
    BY <2>1
  <2>6. QED
    BY <2>2, <2>3, <2>4, <2>5 DEF Counted
<1>8. Sound(queue, a, g, maxConcurrent, outer, inner, outerGen, innerGen)
  BY <1>5, <1>6, <1>7, SoundFacts DEF Sound, Typed
<1>9. /\ Sound(queue', active', g, maxConcurrent, outer', inner', outerGen', innerGen')
      /\ \A l \in Lanes : l \in D \/ Busy(l, queue, a, maxConcurrent)
                            => Busy(l, queue', active', maxConcurrent)
      /\ \A d \in Commands : Effect(d, g, FALSE, outer, inner)
  BY <1>3, <1>4, <1>8, DrainKeeps
<1>10. \A l \in Lanes : Busy(l, queue', active', maxConcurrent')
  BY <1>2, <1>4, <1>9 DEF Busy
<1>11. \A d \in Commands : Moves(d) /\ (inner[d] \in Underway \/ Begins(d, FALSE))
  <2> TAKE d \in Commands
  <2>1. Effect(d, g, FALSE, outer, inner)
    BY <1>9
  <2>2. QED
    BY <1>1, <2>1 DEF Effect, Moves, Begins, Underway
<1>12. LanesSound'
  BY <1>1, <1>2, <1>9 DEF LanesSound
<1>13. QED
  BY <1>2, <1>10, <1>11, <1>12 DEF LanesKept, AllBusy

-----------------------------------------------------------------------------
(* The run loop *)

LEMMA Unmoved ==
  ASSUME LanesSound, AllBusy, UNCHANGED <<queue, active, maxConcurrent, generation>>,
         UNCHANGED promiseVars
  PROVE  LanesKept /\ \A d \in Commands : Begins(d, gatewayDraining)
<1>1. LanesSound'
  BY DEF promiseVars, LanesSound
<1>2. AllBusy'
  BY DEF AllBusy, Busy
<1>3. \A d \in Commands : Moves(d) /\ Begins(d, gatewayDraining)
  BY DEF promiseVars, Moves, Begins
<1>4. QED
  BY <1>1, <1>2, <1>3 DEF LanesKept

LEMMA LaneStep ==
  ASSUME IInv, LaneNext, UNCHANGED loopVars
  PROVE  IInv' /\ \A c \in Commands : Moves(c)
<1>1. LanesSound /\ AllBusy /\ gatewayDraining \in BOOLEAN
  BY DEF IInv, Handled
<1>2. /\ LanesKept /\ \A d \in Commands : Begins(d, gatewayDraining)
      /\ generation' = generation /\ gatewayDraining' = gatewayDraining
  <2>1. ASSUME NEW c \in Commands, Enqueue(c)
        PROVE  /\ LanesKept /\ \A d \in Commands : Begins(d, gatewayDraining)
               /\ generation' = generation /\ gatewayDraining' = gatewayDraining
    BY <1>1, <2>1, EnqueueStep DEF Enqueue
  <2>2. ASSUME NEW c \in Commands, FinishTurn(c)
        PROVE  /\ LanesKept /\ \A d \in Commands : Begins(d, gatewayDraining)
               /\ generation' = generation /\ gatewayDraining' = gatewayDraining
    BY <1>1, <2>2, FinishTurnStep DEF FinishTurn
  <2>3. ASSUME NEW c \in Commands, FinishSession(c)
        PROVE  /\ LanesKept /\ \A d \in Commands : Begins(d, gatewayDraining)
               /\ generation' = generation /\ gatewayDraining' = gatewayDraining
    BY <1>1, <2>3, FinishSessionStep DEF FinishSession
  <2>4. ASSUME NEW s \in Sessions, ClearSession(s)
        PROVE  /\ LanesKept /\ \A d \in Commands : Begins(d, gatewayDraining)
               /\ generation' = generation /\ gatewayDraining' = gatewayDraining
    BY <1>1, <2>4, ClearSessionStep DEF ClearSession
  <2>5. ASSUME NEW limit \in 1..MaxConcurrent, SetConcurrency(limit)
        PROVE  /\ LanesKept /\ \A d \in Commands : Begins(d, gatewayDraining)
               /\ generation' = generation /\ gatewayDraining' = gatewayDraining
    BY <1>1, <2>5, SetConcurrencyStep DEF SetConcurrency
  <2>6. QED
    BY <2>1, <2>2, <2>3, <2>4, <2>5 DEF LaneNext
<1>3. /\ shutdown' = shutdown /\ isRestart' = isRestart /\ timedOut' = timedOut
      /\ activeAtStart' = activeAtStart
  BY DEF loopVars, handlerVars
<1>4. Handled'
  <2>1. ASSUME ~timedOut, NEW c \in Commands, inner'[c] \in Underway
        PROVE  /\ outerGen'[c] = generation[SessionOf(c)]
               /\ shutdown = "draining" => <<SessionOf(c), c>> \in activeAtStart
               /\ ~(shutdown \in {"closing", "respawning"} /\ isRestart)
    <3>1. Begins(c, gatewayDraining) /\ generation' = generation
      BY <1>2
    <3>2. CASE inner[c] \in Underway /\ outerGen'[c] = outerGen[c]
      BY <2>1, <3>2 DEF IInv, Handled
    <3>3. CASE ~gatewayDraining /\ outerGen'[c] = generation[SessionOf(c)]
      BY <3>3 DEF IInv, Handled
    <3>4. QED
      BY <2>1, <3>1, <3>2, <3>3 DEF Begins
  <2>2. QED
    BY <1>2, <1>3, <2>1 DEF IInv, Handled
<1>5. QED
  BY <1>2, <1>4 DEF IInv, LanesKept

LEMMA LoopKeeps ==
  ASSUME IInv, LoopStep
  PROVE  IInv' /\ \A c \in Commands : Moves(c)
<1>1. LanesSound /\ AllBusy
  BY DEF IInv
<1>2. ASSUME UNCHANGED <<queue, active, maxConcurrent, generation>>, UNCHANGED promiseVars
      PROVE  LanesKept
  BY <1>1, <1>2, Unmoved
<1>3. ASSUME UNCHANGED queueVars, UNCHANGED handlerVars, timedOut' = timedOut
      PROVE  IInv' /\ \A c \in Commands : Moves(c)
  <2>1. LanesKept
    BY <1>2, <1>3 DEF queueVars, laneVars
  <2>2. Handled'
    BY <1>3 DEF IInv, Handled, queueVars, laneVars, promiseVars, handlerVars
  <2>3. QED
    BY <2>1, <2>2 DEF IInv, LanesKept
<1>4. CASE StartServer
  BY <1>3, <1>4 DEF StartServer
<1>5. CASE StartFails \/ ForceExit \/ LeaveProcess
  BY <1>3, <1>5 DEF StartFails, ForceExit, LeaveProcess, Exit
<1>6. ASSUME NEW restart \in BOOLEAN, Signal(restart)
      PROVE  IInv' /\ \A c \in Commands : Moves(c)
  <2>1. LanesKept
    BY <1>2, <1>6 DEF Signal
  <2>2. /\ inner' = inner /\ outerGen' = outerGen /\ generation' = generation
        /\ timedOut' = timedOut /\ isRestart' = restart
        /\ gatewayDraining' = (gatewayDraining \/ restart)
        /\ shutdown' = IF restart /\ ActiveTasks # {} THEN "draining" ELSE "closing"
        /\ activeAtStart' = IF restart /\ ActiveTasks # {} THEN ActiveTasks ELSE {}
    BY <1>6 DEF Signal, promiseVars
  <2>3. ASSUME ~timedOut, NEW c \in Commands, inner[c] \in Underway
        PROVE  outerGen[c] = generation[SessionOf(c)] /\ <<SessionOf(c), c>> \in ActiveTasks
    <3>1. outerGen[c] = generation[SessionOf(c)]
      BY <2>3 DEF IInv, Handled
    <3>2. outer[c] = "running"
      BY <1>1, <2>3, SoundFacts DEF Staged, Statuses, Underway
    <3>3. SessionOf(c) \in Sessions /\ SessionOf(c) \in Lanes
      BY CommandFacts
    <3>4. c \in active[SessionOf(c)]
      BY <1>1, <3>1, <3>2, <3>3, SoundFacts DEF Counted
    <3>5. QED
      BY <3>1, <3>3, <3>4 DEF ActiveTasks
  <2>4. Handled'
    <3> HIDE DEF ActiveTasks
    <3>1. gatewayDraining \in BOOLEAN /\ timedOut \in BOOLEAN
      BY DEF IInv, Handled
    <3>2. QED
      BY <1>6, <2>2, <2>3, <3>1 DEF Handled
  <2>5. QED
    BY <2>1, <2>4 DEF IInv, LanesKept
<1>7. CASE DrainEnds
  <2>1. /\ shutdown = "draining" /\ shutdown' = "closing" /\ UNCHANGED queueVars
        /\ isRestart' = isRestart
        /\ timedOut' = (timedOut \/ activeAtStart \cap ActiveTasks # {})
    BY <1>7 DEF DrainEnds
  <2>2. LanesKept
    BY <1>2, <2>1 DEF queueVars, laneVars
  <2>3. ASSUME ~timedOut, activeAtStart \cap ActiveTasks = {}, NEW c \in Commands
        PROVE  inner[c] \notin Underway
    <3> SUFFICES ASSUME inner[c] \in Underway PROVE FALSE
      OBVIOUS
    <3>1. outerGen[c] = generation[SessionOf(c)] /\ <<SessionOf(c), c>> \in activeAtStart
      BY <2>1, <2>3 DEF IInv, Handled
    <3>2. outer[c] = "running"
      BY <1>1, SoundFacts DEF Staged, Statuses, Underway
    <3>3. SessionOf(c) \in Sessions /\ SessionOf(c) \in Lanes
      BY CommandFacts
    <3>4. c \in active[SessionOf(c)]
      BY <1>1, <3>1, <3>2, <3>3, SoundFacts DEF Counted
    <3>5. <<SessionOf(c), c>> \in ActiveTasks
      BY <3>3, <3>4 DEF ActiveTasks
    <3>6. QED
      BY <2>3, <3>1, <3>5
  <2>4. Handled'
    <3>1. inner' = inner /\ outerGen' = outerGen /\ generation' = generation
          /\ gatewayDraining' = gatewayDraining
      BY <2>1 DEF queueVars, laneVars, promiseVars
    <3>2. gatewayDraining \in BOOLEAN /\ timedOut \in BOOLEAN /\ isRestart /\ gatewayDraining
      BY <2>1 DEF IInv, Handled
    <3>3. ~timedOut' => \A c \in Commands : inner'[c] \notin Underway
      BY <2>1, <2>3, <3>1
    <3>4. timedOut' \in BOOLEAN
      BY <2>1, <3>2
    <3>5. QED
      BY <2>1, <3>1, <3>2, <3>3, <3>4 DEF Handled
  <2>5. QED
    BY <2>2, <2>4 DEF IInv, LanesKept
<1>8. CASE Closed
  <2>1. /\ shutdown = "closing" /\ UNCHANGED queueVars
        /\ isRestart' = isRestart /\ timedOut' = timedOut
        /\ IF isRestart THEN shutdown' = "respawning" ELSE shutdown' = shutdown
    BY <1>8 DEF Closed
  <2>2. LanesKept
    BY <1>2, <2>1 DEF queueVars, laneVars
  <2>3. Handled'
    BY <2>1 DEF IInv, Handled, queueVars, laneVars, promiseVars
  <2>4. QED
    BY <2>2, <2>3 DEF IInv, LanesKept
<1>9. CASE RestartInProcess /\ loop # "serving"
  <2>1. shutdown' = "none" /\ UNCHANGED queueVars /\ isRestart' = isRestart /\ timedOut' = timedOut
    BY <1>9 DEF RestartInProcess
  <2>2. LanesKept
    BY <1>2, <2>1 DEF queueVars, laneVars
  <2>3. Handled'
    BY <2>1 DEF IInv, Handled, queueVars, laneVars, promiseVars
  <2>4. QED
    BY <2>2, <2>3 DEF IInv, LanesKept
<1>10. CASE RestartInProcess /\ loop = "serving"
  <2>1. shutdown = "respawning" /\ shutdown' = "none" /\ ResetAllLanes /\ timedOut' = timedOut
    BY <1>10 DEF RestartInProcess
  <2>2. /\ LanesKept /\ gatewayDraining' = FALSE
        /\ \A d \in Commands : inner[d] \in Underway \/ Begins(d, FALSE)
    BY <1>1, <2>1, ResetAllLanesStep
  <2>3. ASSUME ~timedOut, NEW c \in Commands, inner'[c] \in Underway
        PROVE  outerGen'[c] = generation'[SessionOf(c)]
    <3>1. inner[c] \notin Underway
      BY <2>1, <2>3 DEF IInv, Handled
    <3>2. QED
      BY <2>2, <2>3, <3>1 DEF Begins
  <2>4. Handled'
    BY <2>1, <2>2, <2>3 DEF IInv, Handled
  <2>5. QED
    BY <2>2, <2>4 DEF IInv, LanesKept
<1>11. QED
  BY <1>4, <1>5, <1>6, <1>7, <1>8, <1>9, <1>10 DEF LoopStep

LEMMA StepKeeps ==
  ASSUME IInv, [Next]_vars
  PROVE  IInv' /\ \A c \in Commands : Moves(c)
<1>1. CASE LoopStep
  BY <1>1, LoopKeeps
<1>2. CASE LaneNext /\ UNCHANGED loopVars
  BY <1>2, LaneStep
<1>3. CASE UNCHANGED vars
  <2>1. UNCHANGED <<queue, active, maxConcurrent, generation>> /\ UNCHANGED promiseVars
        /\ gatewayDraining' = gatewayDraining /\ UNCHANGED handlerVars /\ timedOut' = timedOut
    BY <1>3 DEF vars, queueVars, laneVars, loopVars
  <2>2. LanesKept
    BY <2>1, Unmoved DEF IInv
  <2>3. Handled'
    BY <2>1 DEF IInv, Handled, promiseVars, handlerVars
  <2>4. QED
    BY <2>2, <2>3 DEF IInv, LanesKept
<1>4. QED
  BY <1>1, <1>2, <1>3 DEF Next

LEMMA StartsSound == Init => IInv
<1> SUFFICES ASSUME Init PROVE IInv
  OBVIOUS
<1> USE DEF Init, QueueInit
<1>1. /\ \A l \in Lanes : queue[l] = <<>> /\ active[l] = {} /\ generation[l] = 0
      /\ \A c \in Commands : /\ outer[c] = "new" /\ inner[c] = "new"
                             /\ outerGen[c] = 0 /\ innerGen[c] = 0
  OBVIOUS
<1>2. Typed(queue, active, generation, maxConcurrent, outer, inner, outerGen, innerGen)
  BY LimitsAssumption, CommandFacts DEF Typed, Statuses
<1>3. Lined(queue, outer, inner)
  BY <1>1, CommandFacts DEF Lined
<1>4. Staged(outer, inner) /\ Ordered(outer, inner)
  BY <1>1 DEF Staged, Ordered
<1>5. Counted(active, generation, outer, inner, outerGen, innerGen)
  BY <1>1, CommandFacts DEF Counted
<1>6. AllBusy
  BY <1>1 DEF AllBusy, Busy
<1>7. Handled
  BY <1>1 DEF Handled, Underway
<1>8. QED
  BY <1>2, <1>3, <1>4, <1>5, <1>6, <1>7 DEF IInv, LanesSound, Sound

-----------------------------------------------------------------------------
(* The theorems *)

\* The invariant of the lanes and the run loop.
THEOREM LanesSafe == Spec => []IInv
<1>1. Init => IInv
  BY StartsSound
<1>2. IInv /\ [Next]_vars => IInv'
  BY StepKeeps
<1>3. QED
  BY <1>1, <1>2, PTL DEF Spec

\* activeTaskIds of a lane is the set of its tasks of the current generation
\* that still run, through every clear, limit change, drain and restart.
THEOREM LanesStayConsistent == Spec => []LanesConsistent
<1>1. IInv => LanesConsistent
  <2> SUFFICES ASSUME IInv PROVE LanesConsistent
    OBVIOUS
  <2>1. LanesSound /\ gatewayDraining \in BOOLEAN
    BY DEF IInv, Handled
  <2>2. ASSUME NEW s \in Sessions
        PROVE  active[s] = {c \in Commands : SessionOf(c) = s /\ outer[c] = "running"
                                               /\ outerGen[c] = generation[s]}
    <3>1. active[s] \in SUBSET Commands
      BY <2>1, SoundFacts, CommandFacts
    <3>2. QED
      BY <2>1, <3>1, SoundFacts DEF Counted
  <2>3. active[Main] = {c \in Commands : inner[c] = "running" /\ innerGen[c] = generation[Main]}
    <3>1. active[Main] \in SUBSET Commands
      BY <2>1, SoundFacts, CommandFacts
    <3>2. QED
      BY <2>1, <3>1, SoundFacts DEF Counted
  <2>4. QED
    BY <2>1, <2>2, <2>3, SoundFacts DEF LanesConsistent
<1>2. QED
  BY <1>1, LanesSafe, PTL

\* An entry waits only in a lane that is full, whatever happened before.
THEOREM NothingStranded == Spec => []NoStrandedEntry
<1>1. IInv => NoStrandedEntry
  BY DEF IInv, AllBusy, Busy, NoStrandedEntry
<1>2. QED
  BY <1>1, LanesSafe, PTL

\* Two turns of a session are under way at once only after a drain gave up.
THEOREM TurnsKeptApart == Spec => []TurnsOverlapOnlyAfterTimeout
<1>1. IInv => TurnsOverlapOnlyAfterTimeout
  <2> SUFFICES ASSUME IInv, ~timedOut, NEW c \in Commands, NEW d \in Commands,
                      SessionOf(c) = SessionOf(d), inner[c] = "running", inner[d] = "running"
               PROVE  c = d
    BY DEF TurnsOverlapOnlyAfterTimeout, IInv, Handled
  <2>1. LanesSound
    BY DEF IInv
  <2>2. outerGen[c] = generation[SessionOf(c)] /\ outerGen[d] = generation[SessionOf(d)]
    BY DEF IInv, Handled, Underway
  <2>3. outer[c] = "running" /\ outer[d] = "running"
    BY <2>1, SoundFacts DEF Staged, Statuses
  <2>4. c \in active[SessionOf(c)] /\ d \in active[SessionOf(c)]
    BY <2>1, <2>2, <2>3, SoundFacts, CommandFacts DEF Counted
  <2>5. QED
    BY <2>1, <2>4, SoundFacts, CommandFacts DEF Counted
<1>2. QED
  BY <1>1, LanesSafe, PTL

-----------------------------------------------------------------------------
(* The lanes implement CommandPromise *)

LEMMA StageMoves ==
  ASSUME LanesSound, LanesSound', NEW c \in Commands, Moves(c)
  PROVE  /\ StageOf(c)' \in Promise!Stages
         /\ StageOf(c)' # StageOf(c) => <<StageOf(c), StageOf(c)'>> \in Promise!Advances
<1>1. /\ outer[c] \in Statuses /\ inner[c] \in Statuses
      /\ outer[c] \in {"new", "queued", "cleared", "refused"} => inner[c] = "new"
      /\ outer[c] = "running" => inner[c] \in {"queued", "running", "done", "refused"}
      /\ outer[c] = "done" => inner[c] \in {"done", "refused"}
  BY SoundFacts DEF Staged
<1>2. StageOf(c)' \in Promise!Stages
  BY DEF StageOf, Promise!Stages
<1>3. CASE outer'[c] = outer[c] /\ inner'[c] = inner[c]
  BY <1>2, <1>3 DEF StageOf
<1>4. CASE /\ outer[c] = "new" /\ inner[c] = "new"
           /\ \/ outer'[c] \in {"queued", "refused"} /\ inner'[c] = "new"
              \/ outer'[c] = "running" /\ inner'[c] \in Underway
  BY <1>2, <1>4 DEF StageOf, Promise!Advances, Underway
<1>5. CASE outer[c] = "queued" /\ outer'[c] = "running" /\ inner'[c] \in Underway \cup {"refused"}
  BY <1>1, <1>2, <1>5 DEF StageOf, Promise!Advances, Underway
<1>6. CASE outer[c] = "queued" /\ outer'[c] = "cleared" /\ inner'[c] = inner[c]
  BY <1>1, <1>2, <1>6 DEF StageOf, Promise!Advances
<1>7. CASE outer'[c] = outer[c] /\ inner[c] = "queued" /\ inner'[c] = "running"
  BY <1>1, <1>2, <1>7 DEF StageOf, Promise!Advances, Statuses
<1>8. CASE outer'[c] = outer[c] /\ inner[c] = "running" /\ inner'[c] = "done"
  BY <1>1, <1>2, <1>8 DEF StageOf, Promise!Advances, Statuses
<1>9. CASE outer[c] = "running" /\ outer'[c] = "done" /\ inner'[c] = inner[c]
  <2>1. Staged(outer', inner')
    BY DEF LanesSound, Sound
  <2>2. inner[c] \in {"done", "refused"}
    BY <1>9, <2>1 DEF Staged
  <2>3. CASE inner[c] = "done"
    <3>1. StageOf(c) = "executed"
      BY <1>9, <2>3 DEF StageOf
    <3>2. StageOf(c)' = "settled"
      BY <1>9, <2>3 DEF StageOf
    <3>3. QED
      BY <1>2, <3>1, <3>2 DEF Promise!Advances
  <2>4. CASE inner[c] = "refused"
    <3>1. StageOf(c) = "rejected" /\ StageOf(c)' = "rejected"
      BY <1>9, <2>4 DEF StageOf
    <3>2. QED
      BY <1>2, <3>1
  <2>5. QED
    BY <2>2, <2>3, <2>4
<1>10. QED
  BY <1>3, <1>4, <1>5, <1>6, <1>7, <1>8, <1>9 DEF Moves

\* No turn begins before an earlier one of its session: it would still be in a
\* line ahead of it.
LEMMA BegunInOrder ==
  ASSUME LanesSound', NEW c \in Commands, NEW d \in Commands,
         SessionOf(c) = SessionOf(d), d[2] < c[2], StageOf(c)' = "executing"
  PROVE  StageOf(d)' \notin {"new", "pending"}
<1>1. /\ Staged(outer', inner') /\ Ordered(outer', inner')
      /\ outer' \in [Commands -> Statuses] /\ inner' \in [Commands -> Statuses]
  BY DEF LanesSound, Sound, Typed
<1>2. inner'[c] = "running"
  BY DEF StageOf
<1>3. outer'[c] = "running"
  BY <1>1, <1>2 DEF Staged, Statuses
<1>4. outer'[d] # "new" /\ outer'[d] # "queued" /\ inner'[d] # "queued"
  BY <1>1, <1>2, <1>3 DEF Ordered
<1>5. /\ outer'[d] \in Statuses
      /\ outer'[d] = "running" => inner'[d] \in {"queued", "running", "done", "refused"}
      /\ outer'[d] = "done" => inner'[d] \in {"done", "refused"}
  BY <1>1 DEF Staged
<1>6. QED
  BY <1>4, <1>5 DEF StageOf, Statuses

LEMMA PromiseStarts == Init => Promise!Init
<1> SUFFICES ASSUME Init PROVE Promise!Init
  OBVIOUS
<1>1. ASSUME NEW s \in Sessions, NEW i \in 1..MaxTurns PROVE StageOf(<<s, i>>) = "new"
  <2>1. <<s, i>> \in Commands
    BY DEF Commands
  <2>2. outer[<<s, i>>] = "new" /\ inner[<<s, i>>] = "new"
    BY <2>1 DEF Init, QueueInit
  <2>3. QED
    BY <2>2 DEF StageOf
<1>2. QED
  BY <1>1 DEF Promise!Init, Promise!Turns

LEMMA PromiseNext ==
  ASSUME LanesSound, LanesSound', \A c \in Commands : Moves(c)
  PROVE  Promise!Next
<1> DEFINE S == [s \in Sessions |-> [i \in 1..MaxTurns |-> StageOf(<<s, i>>)]]
<1>1. ASSUME NEW s \in Sessions, NEW i \in 1..MaxTurns
      PROVE  <<s, i>> \in Commands /\ SessionOf(<<s, i>>) = s /\ <<s, i>>[2] = i
  BY DEF Commands, SessionOf
<1>2. ASSUME NEW s \in Sessions, NEW i \in 1..MaxTurns
      PROVE  S[s][i] = StageOf(<<s, i>>) /\ S'[s][i] = StageOf(<<s, i>>)'
  OBVIOUS
<1>3. S' \in [Sessions -> [1..MaxTurns -> Promise!Stages]]
  BY <1>1, StageMoves
<1>4. ASSUME NEW s \in Sessions, NEW i \in 1..MaxTurns, S'[s][i] # S[s][i]
      PROVE  <<S[s][i], S'[s][i]>> \in Promise!Advances
  BY <1>1, <1>2, <1>4, StageMoves
<1>5. ASSUME NEW s \in Sessions, NEW i \in 1..MaxTurns, S'[s][i] = "executing",
             NEW j \in 1..i - 1
      PROVE  S'[s][j] \notin {"new", "pending"}
  <2>1. j \in 1..MaxTurns /\ j < i
    BY LimitsAssumption
  <2>2. StageOf(<<s, i>>)' = "executing"
    BY <1>2, <1>5
  <2>3. StageOf(<<s, j>>)' \notin {"new", "pending"}
    <3>1. /\ <<s, i>> \in Commands /\ <<s, j>> \in Commands
          /\ SessionOf(<<s, i>>) = SessionOf(<<s, j>>) /\ <<s, j>>[2] < <<s, i>>[2]
      BY <1>1, <2>1
    <3>2. QED
      BY <2>2, <3>1, BegunInOrder
  <2>4. QED
    BY <1>2, <2>1, <2>3
<1> HIDE DEF S
<1>6. /\ S' \in [Sessions -> [1..MaxTurns -> Promise!Stages]]
      /\ \A s \in Sessions, i \in 1..MaxTurns :
           /\ S'[s][i] # S[s][i] => <<S[s][i], S'[s][i]>> \in Promise!Advances
           /\ S'[s][i] = "executing" /\ S[s][i] # "executing" =>
                \A j \in 1..i - 1 : S'[s][j] \notin {"new", "pending"}
  BY <1>3, <1>4, <1>5
<1>7. QED
  BY <1>6 DEF Promise!Next, Promise!Turns, S

\* The lanes implement their promise: for any sessions, limits, clears, drains
\* and restarts, an accepted turn executes at most once, a rejected one never,
\* and the turns of a session begin in the order they were accepted.
THEOREM LanesKeepPromise == Spec => PromiseSpec
<1>1. Init => Promise!Init
  BY PromiseStarts
<1>2. IInv /\ IInv' /\ [Next]_vars =>
        [Promise!Next]_[s \in Sessions |-> [i \in 1..MaxTurns |-> StageOf(<<s, i>>)]]
  BY StepKeeps, PromiseNext DEF IInv
<1>3. QED
  BY <1>1, <1>2, LanesSafe, PTL DEF Spec, PromiseSpec, Promise!Spec
=============================================================================
