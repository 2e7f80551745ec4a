--------------------------- MODULE EnvPool_proofs ---------------------------
(***************************************************************************)
(* Proofs about EnvPool, for every number of clients, environments and     *)
(* leases and with any number of lost responses and faults.  The invariant *)
(* Safe adds to the properties what makes them inductive: which numbers    *)
(* have been used (Fresh), what the threads of close_lease know of their   *)
(* slot (Closers), and which client waits for a running call (Callers).    *)
(* Each action is shown to preserve Safe; the size of the pool comes after *)
(* that, from Safe and the cardinality of what an action adds and removes. *)
(*                                                                         *)
(* The last part is about the time until a response is lost: every lease   *)
(* has its client, operations and resets run on living environments only,  *)
(* and with --reset-on-close a leased environment was touched by the       *)
(* holder of the lease alone.  Each of these fails once a response is      *)
(* lost, so the invariant Reliable holds while lost = 0.  It adds to Safe  *)
(* what a thread knows of its lease (Attended): a call finds it valid for  *)
(* the slot that was looked up, and a close has made it invalid.           *)
(***************************************************************************)
EXTENDS EnvPool, FiniteSetTheorems, TLAPS

ClosePcs == {"resetWait", "resetRun", "release", "replace", "scrap"}
CallPcs == {"opWait", "opRun"}

Fresh ==
  /\ slots \subseteq 1..created
  /\ unclosed \subseteq 1..created
  /\ \A l \in Leases : leaseToEnv[l] # NoEnv => l <= leased
  /\ \A e \in Envs : e > created => slotLease[e] = NoLease
  /\ \A t \in threads : t.env <= created /\ t.lease <= leased
  /\ \A c \in Clients : client[c].lease <= leased

Closers ==
  /\ \A t \in threads : t.pc \in ClosePcs \ {"scrap"} =>
       t.env \in slots /\ busy[t.env] /\ slotLease[t.env] = NoLease
  /\ \A t \in threads : t.pc = "scrap" => t.env \notin slots \cup unclosed
  /\ \A t, u \in threads :
       t.pc \in ClosePcs /\ u.pc \in ClosePcs /\ t.env = u.env => t = u

Callers ==
  /\ \A t \in threads, c \in Clients :
       t.pc \in CallPcs /\ t.lostAs = 0 /\ client[c].lease = t.lease
         => client[c].state = "calling"
  /\ \A t, u \in threads :
       /\ t.pc \in CallPcs /\ t.lostAs = 0
       /\ u.pc \in CallPcs /\ u.lostAs = 0
       /\ t.lease = u.lease
       => t = u
  /\ \A c \in Clients :
       /\ client[c].state \in {"idle", "allocating"} => client[c].lease = NoLease
       /\ client[c].state = "closing" =>
            client[c].lease \in Leases /\ leaseToEnv[client[c].lease] = NoEnv

Safe ==
  /\ TypeOK
  /\ Fresh
  /\ LeasesConsistent
  /\ Closers
  /\ Callers
  /\ HeldLeaseIsValid
  /\ AliveIsAccounted

Rows == [state : ClientStates, lease : Leases \cup {NoLease}]

-----------------------------------------------------------------------------
(* What the helpers of the actions do *)

\* A thread that goes on to pc keeps everything else.
LEMMA MovedThread ==
  ASSUME NEW t \in Threads, NEW pc \in ClosePcs \cup CallPcs, Goto(t, pc)
  PROVE  \E u \in Threads :
           /\ threads' = (threads \ {t}) \cup {u}
           /\ u.lease = t.lease /\ u.env = t.env /\ u.lostAs = t.lostAs /\ u.pc = pc
<1> DEFINE u == [t EXCEPT !.pc = pc]
<1>1. u \in Threads
  BY DEF Threads, ClosePcs, CallPcs
<1>2. u.lease = t.lease /\ u.env = t.env /\ u.lostAs = t.lostAs /\ u.pc = pc
  BY DEF Threads
<1>3. threads' = (threads \ {t}) \cup {u}
  BY DEF Goto
<1>4. QED
  BY <1>1, <1>2, <1>3

\* What a response does to the clients.
LEMMA ClientResponds ==
  ASSUME TypeOK, NEW t \in threads, NEW state \in ClientStates,
         NEW lease \in Leases \cup {NoLease}, Responds(t, state, lease)
  PROVE  /\ client' \in [Clients -> Rows]
         /\ \A d \in Clients :
              \/ client'[d] = client[d]
              \/ /\ t.lostAs = 0 /\ client[d].lease = t.lease
                 /\ client'[d].state = state /\ client'[d].lease = lease
  BY DEF TypeOK, Responds, Rows

\* What a client's own step does to the clients.
LEMMA ClientMoves ==
  ASSUME TypeOK, NEW c \in Clients, NEW state \in ClientStates,
         client' = [client EXCEPT ![c].state = state]
  PROVE  /\ client' \in [Clients -> Rows]
         /\ client'[c].state = state /\ client'[c].lease = client[c].lease
         /\ \A d \in Clients \ {c} : client'[d] = client[d]
  BY DEF TypeOK, Rows

\* Held leases stay valid when nobody gets a new one and no slot of one goes.
LEMMA HeldKept ==
  ASSUME HeldLeaseIsValid,
         \A d \in Clients : client'[d].state \in {"leased", "calling"} =>
           /\ client[d].state \in {"leased", "calling"}
           /\ client'[d].lease = client[d].lease
           /\ leaseToEnv'[client[d].lease] = leaseToEnv[client[d].lease]
           /\ leaseToEnv[client[d].lease] \in slots'
  PROVE  HeldLeaseIsValid'
  BY DEF HeldLeaseIsValid

\* What allocate does: the slots it reaps had no lease, the lease is new, and
\* at most the client that asked holds it.
LEMMA ClientGranted ==
  ASSUME TypeOK, NEW c \in Clients, NEW e \in Envs, NEW R, Grant(c, e, R)
  PROVE  /\ leased + 1 \in Leases /\ leased' = leased + 1
         /\ lost' \in 0..MaxLost
         /\ client' \in [Clients -> Rows]
         /\ \A d \in Clients :
              \/ client'[d] = client[d]
              \/ d = c /\ client'[d].state = "leased" /\ client'[d].lease = leased + 1
         /\ leaseToEnv' = [leaseToEnv EXCEPT ![leased + 1] = e]
         /\ slotLease' = [slotLease EXCEPT ![e] = leased + 1]
         /\ busy' = [busy EXCEPT ![e] = TRUE]
         /\ slots' = R \cup {e}
         /\ threads' = threads /\ user' = user
<1>1. leased + 1 \in Leases /\ leased' = leased + 1
  BY BoundAssumption DEF TypeOK, Grant, Leases
<1>2. lost' \in 0..MaxLost
  BY BoundAssumption DEF TypeOK, Grant
<1>3. /\ client' \in [Clients -> Rows]
      /\ \A d \in Clients :
           \/ client'[d] = client[d]
           \/ d = c /\ client'[d].state = "leased" /\ client'[d].lease = leased + 1
  BY <1>1 DEF TypeOK, Grant, Rows, ClientStates
<1>4. QED
  BY <1>1, <1>2, <1>3 DEF Grant

\* A thread whose client is gone keeps everything but that.
LEMMA LostThread ==
  ASSUME NEW t \in Threads, NEW n \in 0..MaxLost
  PROVE  LET u == [t EXCEPT !.lostAs = n]
         IN  /\ u \in Threads /\ u.lease = t.lease /\ u.env = t.env
             /\ u.lostAs = n /\ u.pc = t.pc
  BY DEF Threads

\* So that faults can be counted.
LEMMA EnvsFinite == \A F \in SUBSET Envs : Cardinality(F) \in Nat
<1>1. IsFiniteSet(Envs)
  BY SizeAssumption, FS_Interval DEF Envs
<1>2. QED
  BY <1>1, FS_Subset, FS_CardinalityType

-----------------------------------------------------------------------------
(* Every action preserves Safe *)

\* Safe is preserved: a client starts an episode.
LEMMA BeginEpisodeSafe ==
  ASSUME Safe, NEW c \in Clients, BeginEpisode(c)
  PROVE  Safe'
<1>c. /\ client' \in [Clients -> Rows]
      /\ client'[c].state = "allocating" /\ client'[c].lease = client[c].lease
      /\ \A d \in Clients \ {c} : client'[d] = client[d]
  BY ClientMoves DEF Safe, BeginEpisode, ClientStates
<1>1. TypeOK'
  BY <1>c
  DEF Safe, BeginEpisode, TypeOK, tables, Envs, Leases, NoLease, Threads, Rows
<1>2. Fresh'
  BY <1>c
  DEF Safe, BeginEpisode, TypeOK, Fresh, tables, Envs, Leases, NoLease,
      Threads
<1>3. LeasesConsistent'
  BY <1>c
  DEF Safe, BeginEpisode, TypeOK, Fresh, LeasesConsistent, Closers, tables,
      Envs, Leases, NoLease, Threads
<1>4. Closers'
  BY <1>c
  DEF Safe, BeginEpisode, TypeOK, Fresh, LeasesConsistent, Closers, tables,
      Envs, Leases, NoLease, Threads, ClosePcs, CallPcs
<1>5. Callers'
  BY <1>c
  DEF Safe, BeginEpisode, TypeOK, Fresh, Callers, HeldLeaseIsValid,
      LeasesConsistent, tables, Envs, Leases, NoLease, Threads, ClosePcs,
      CallPcs
<1>6. HeldLeaseIsValid'
  BY <1>c
  DEF Safe, BeginEpisode, TypeOK, Fresh, LeasesConsistent, Closers, Callers,
      HeldLeaseIsValid, tables, Envs, Leases, NoLease, Threads, ClosePcs,
      CallPcs
<1>7. AliveIsAccounted'
  BY <1>c
  DEF Safe, BeginEpisode, TypeOK, Fresh, Closers, AliveIsAccounted, tables,
      Envs, Leases, NoLease, Threads
<1>8. QED
  BY <1>1, <1>2, <1>3, <1>4, <1>5, <1>6, <1>7 DEF Safe

\* Safe is preserved: allocate on a free slot.
LEMMA AllocateReuseSafe ==
  ASSUME Safe, NEW c \in Clients, AllocateReuse(c)
  PROVE  Safe'
<1>a. PICK D \in SUBSET {x \in slots : ~busy[x]}, e \in slots :
        /\ e \notin D /\ e \in Envs /\ ~busy[e]
        /\ CloseEnvs(D, {}, 0) /\ aged' = aged \ (D \cup {e}) /\ created' = created
        /\ Grant(c, e, slots \ D)
  BY DEF AllocateReuse, Reaps, Reapable, Safe, TypeOK
<1>f. /\ faults' \in 0..MaxFaults
      /\ \E F \in SUBSET D : alive' = alive \ (D \ F) /\ unclosed' = unclosed \cup F
  <2>1. PICK F \in SUBSET D :
          /\ alive' = (alive \ (D \ F)) \cup {} /\ unclosed' = unclosed \cup F
          /\ faults' = faults + Cardinality(F) + 0 /\ faults' <= MaxFaults
    BY <1>a DEF CloseEnvs
  <2>2. Cardinality(F) \in Nat
    BY <1>a, EnvsFinite DEF Safe, TypeOK
  <2>3. faults' \in 0..MaxFaults
    BY <2>1, <2>2, BoundAssumption DEF Safe, TypeOK
  <2> QED
    BY <2>1, <2>3
<1>g. /\ leased + 1 \in Leases /\ leased' = leased + 1
      /\ lost' \in 0..MaxLost
      /\ client' \in [Clients -> Rows]
      /\ \A d \in Clients :
           \/ client'[d] = client[d]
           \/ d = c /\ client'[d].state = "leased" /\ client'[d].lease = leased + 1
      /\ leaseToEnv' = [leaseToEnv EXCEPT ![leased + 1] = e]
      /\ slotLease' = [slotLease EXCEPT ![e] = leased + 1]
      /\ busy' = [busy EXCEPT ![e] = TRUE]
      /\ slots' = (slots \ D) \cup {e}
      /\ threads' = threads /\ user' = user
  BY <1>a, ClientGranted DEF Safe
<1>l. leased \in Nat /\ \A x \in threads : x.lease \in Nat /\ x.lease <= leased
  BY DEF Safe, TypeOK, Fresh, Threads, Leases
<1>h. \A d \in Clients :
        /\ client[d].lease \in Leases \cup {NoLease} /\ client[d].lease <= leased
        /\ client[d].state \in {"leased", "calling"} =>
             /\ client[d].lease \in Leases
             /\ leaseToEnv[client[d].lease] \in slots \ D
  <2>1. \A x \in D : \A l \in Leases : leaseToEnv[l] # x
    BY <1>a, SizeAssumption DEF Safe, LeasesConsistent, TypeOK, Envs, NoEnv
  <2> QED
    BY <2>1 DEF Safe, TypeOK, Fresh, HeldLeaseIsValid
<1>1. TypeOK'
  <2>1. /\ slots' \subseteq Envs /\ alive' \subseteq Envs /\ aged' \subseteq Envs
        /\ unclosed' \subseteq Envs
    BY <1>a, <1>f, <1>g DEF Safe, TypeOK
  <2>2. created' \in 0..MaxCreated /\ leased' \in 0..MaxLeases
    BY <1>a, <1>g, BoundAssumption DEF Safe, TypeOK, Leases
  <2>3. /\ busy' \in [Envs -> BOOLEAN]
        /\ slotLease' \in [Envs -> Leases \cup {NoLease}]
        /\ leaseToEnv' \in [Leases -> Envs \cup {NoEnv}]
    BY <1>a, <1>g DEF Safe, TypeOK
  <2> QED
    BY <1>f, <1>g, <2>1, <2>2, <2>3 DEF Safe, TypeOK, Rows
<1>2. Fresh'
  <2>1. \A x \in Leases : leaseToEnv'[x] # NoEnv => x <= leased'
    BY <1>g, <1>l DEF Safe, TypeOK, Fresh, Leases
  <2>2. \A x \in threads' : x.env <= created' /\ x.lease <= leased'
    BY <1>a, <1>g, <1>l DEF Safe, TypeOK, Fresh, Threads, Envs
  <2>3. \A d \in Clients : client'[d].lease <= leased'
    BY <1>g, <1>h, <1>l DEF Leases, NoLease
  <2>4. slots' \subseteq 1..created'
    BY <1>a, <1>g DEF Safe, TypeOK, Fresh
  <2>5. \A x \in Envs : x > created' => slotLease'[x] = NoLease
    BY <1>a, <1>g DEF Safe, TypeOK, Fresh, Envs
  <2>6. unclosed' \subseteq 1..created'
    BY <1>a, <1>f, <1>g DEF Safe, TypeOK, Fresh
  <2> QED
    BY <2>1, <2>2, <2>3, <2>4, <2>5, <2>6 DEF Fresh
<1>3. LeasesConsistent'
  <2>1. \A x \in D \cup {e} : \A l \in Leases : leaseToEnv[l] # x
    BY <1>a, SizeAssumption DEF Safe, LeasesConsistent, TypeOK, Envs, NoEnv
  <2>2. \A x \in slots : slotLease[x] # leased + 1
    BY <1>l
    DEF Safe, LeasesConsistent, Fresh, TypeOK, NoLease, Leases, NoEnv, Envs
  <2>3. slotLease[e] = NoLease
    BY <1>a, <2>1 DEF Safe, TypeOK, LeasesConsistent, Fresh, Envs
  <2> QED
    BY <1>a, <1>g, <2>1, <2>2 DEF Safe, LeasesConsistent, TypeOK
<1>4. Closers'
  <2>1. \A x \in threads : x.pc \in ClosePcs => x.env # e /\ x.env \notin D
    BY <1>a DEF Safe, Closers, Fresh, TypeOK, Threads, Envs, ClosePcs
  <2> QED
    BY <1>f, <1>g, <2>1 DEF Safe, Closers, TypeOK, Threads, ClosePcs
<1>5. Callers'
  BY <1>g, <1>l, <1>h DEF Safe, Callers
<1>6. HeldLeaseIsValid'
  <2>1. \A d \in Clients : client'[d].state \in {"leased", "calling"} =>
          client'[d].lease \in Leases /\ leaseToEnv'[client'[d].lease] \in slots'
    <3>1. \A d \in Clients : client[d].lease # leased + 1
      BY <1>h, <1>l
    <3> QED
      BY <1>g, <1>h, <3>1 DEF Safe, TypeOK
  <2>2. \A d, x \in Clients :
          /\ client'[d].state \in {"leased", "calling"}
          /\ client'[x].state \in {"leased", "calling"} /\ x # d
          => client'[d].lease # client'[x].lease
    <3>1. \A d \in Clients : client[d].lease # leased + 1
      BY <1>h, <1>l
    <3> QED
      BY <1>g, <3>1 DEF Safe, HeldLeaseIsValid
  <2> QED
    BY <2>1, <2>2 DEF HeldLeaseIsValid, Leases, NoLease
<1>7. AliveIsAccounted'
  <2>1. \A x \in threads : x.pc = "scrap" => x.env \notin D
    BY <1>a DEF Safe, Closers
  <2>2. e \in slots
    BY <1>a
  <2> QED
    BY <1>a, <1>f, <1>g, <2>1, <2>2 DEF Safe, AliveIsAccounted
<1>8. QED
  BY <1>1, <1>2, <1>3, <1>4, <1>5, <1>6, <1>7 DEF Safe

\* Safe is preserved: allocate with a new environment.
LEMMA AllocateNewSafe ==
  ASSUME Safe, NEW c \in Clients, AllocateNew(c)
  PROVE  Safe'
<1>a. PICK D \in SUBSET {x \in slots : ~busy[x]}, e \in Envs \ slots :
        /\ e = created + 1
        /\ CloseEnvs(D, {e}, 0) /\ aged' = aged \ D /\ created' = created + 1
        /\ created + 1 \in 0..MaxCreated
        /\ Grant(c, e, slots \ D)
  <2>1. created + 1 \in Envs \ slots /\ created + 1 \in 0..MaxCreated
    BY SizeAssumption DEF Safe, TypeOK, Fresh, AllocateNew, Envs
  <2> QED
    BY <2>1 DEF AllocateNew, Reaps, Reapable
<1>f. /\ faults' \in 0..MaxFaults
      /\ \E F \in SUBSET D :
           alive' = (alive \ (D \ F)) \cup {e} /\ unclosed' = unclosed \cup F
  <2>1. PICK F \in SUBSET D :
          /\ alive' = (alive \ (D \ F)) \cup {e} /\ unclosed' = unclosed \cup F
          /\ faults' = faults + Cardinality(F) + 0 /\ faults' <= MaxFaults
    BY <1>a DEF CloseEnvs
  <2>2. Cardinality(F) \in Nat
    BY <1>a, EnvsFinite DEF Safe, TypeOK
  <2>3. faults' \in 0..MaxFaults
    BY <2>1, <2>2, BoundAssumption DEF Safe, TypeOK
  <2> QED
    BY <2>1, <2>3
<1>g. /\ leased + 1 \in Leases /\ leased' = leased + 1
      /\ lost' \in 0..MaxLost
      /\ client' \in [Clients -> Rows]
      /\ \A d \in Clients :
           \/ client'[d] = client[d]
           \/ d = c /\ client'[d].state = "leased" /\ client'[d].lease = leased + 1
      /\ leaseToEnv' = [leaseToEnv EXCEPT ![leased + 1] = e]
      /\ slotLease' = [slotLease EXCEPT ![e] = leased + 1]
      /\ busy' = [busy EXCEPT ![e] = TRUE]
      /\ slots' = (slots \ D) \cup {e}
      /\ threads' = threads /\ user' = user
  BY <1>a, ClientGranted DEF Safe
<1>l. leased \in Nat /\ \A x \in threads : x.lease \in Nat /\ x.lease <= leased
  BY DEF Safe, TypeOK, Fresh, Threads, Leases
<1>h. \A d \in Clients :
        /\ client[d].lease \in Leases \cup {NoLease} /\ client[d].lease <= leased
        /\ client[d].state \in {"leased", "calling"} =>
             /\ client[d].lease \in Leases
             /\ leaseToEnv[client[d].lease] \in slots \ D
  <2>1. \A x \in D : \A l \in Leases : leaseToEnv[l] # x
    BY <1>a, SizeAssumption DEF Safe, LeasesConsistent, TypeOK, Envs, NoEnv
  <2> QED
    BY <2>1 DEF Safe, TypeOK, Fresh, HeldLeaseIsValid
<1>1. TypeOK'
  <2>1. /\ slots' \subseteq Envs /\ alive' \subseteq Envs /\ aged' \subseteq Envs
        /\ unclosed' \subseteq Envs
    BY <1>a, <1>f, <1>g DEF Safe, TypeOK
  <2>2. created' \in 0..MaxCreated /\ leased' \in 0..MaxLeases
    BY <1>a, <1>g, BoundAssumption DEF Safe, TypeOK, Leases
  <2>3. /\ busy' \in [Envs -> BOOLEAN]
        /\ slotLease' \in [Envs -> Leases \cup {NoLease}]
        /\ leaseToEnv' \in [Leases -> Envs \cup {NoEnv}]
    BY <1>a, <1>g DEF Safe, TypeOK
  <2> QED
    BY <1>f, <1>g, <2>1, <2>2, <2>3 DEF Safe, TypeOK, Rows
<1>2. Fresh'
  <2>1. \A x \in Leases : leaseToEnv'[x] # NoEnv => x <= leased'
    BY <1>g, <1>l DEF Safe, TypeOK, Fresh, Leases
  <2>2. \A x \in threads' : x.env <= created' /\ x.lease <= leased'
    BY <1>a, <1>g, <1>l DEF Safe, TypeOK, Fresh, Threads, Envs
  <2>3. \A d \in Clients : client'[d].lease <= leased'
    BY <1>g, <1>h, <1>l DEF Leases, NoLease
  <2>4. slots' \subseteq 1..created'
    BY <1>a, <1>g DEF Safe, TypeOK, Fresh
  <2>5. \A x \in Envs : x > created' => slotLease'[x] = NoLease
    BY <1>a, <1>g DEF Safe, TypeOK, Fresh, Envs
  <2>6. unclosed' \subseteq 1..created'
    BY <1>a, <1>f, <1>g DEF Safe, TypeOK, Fresh
  <2> QED
    BY <2>1, <2>2, <2>3, <2>4, <2>5, <2>6 DEF Fresh
<1>3. LeasesConsistent'
  <2>1. \A x \in D \cup {e} : \A l \in Leases : leaseToEnv[l] # x
    BY <1>a, SizeAssumption DEF Safe, LeasesConsistent, TypeOK, Envs, NoEnv
  <2>2. \A x \in slots : slotLease[x] # leased + 1
    BY <1>l
    DEF Safe, LeasesConsistent, Fresh, TypeOK, NoLease, Leases, NoEnv, Envs
  <2>3. slotLease[e] = NoLease
    BY <1>a, <2>1 DEF Safe, TypeOK, LeasesConsistent, Fresh, Envs
  <2>4. ASSUME NEW l \in Leases, leaseToEnv'[l] # NoEnv
        PROVE  /\ leaseToEnv'[l] \in slots' /\ busy'[leaseToEnv'[l]]
               /\ slotLease'[leaseToEnv'[l]] = l
    <3>1. CASE l = leased + 1
      BY <1>a, <1>g, <3>1 DEF Safe, TypeOK
    <3>2. CASE l # leased + 1
      <4>1. leaseToEnv'[l] = leaseToEnv[l]
        BY <1>g, <3>2 DEF Safe, TypeOK
      <4>2. leaseToEnv[l] \in slots \ D /\ leaseToEnv[l] # e
        BY <2>1, <2>4, <4>1 DEF Safe, LeasesConsistent
      <4> QED
        BY <1>a, <1>g, <2>4, <4>1, <4>2 DEF Safe, LeasesConsistent, TypeOK
    <3> QED
      BY <3>1, <3>2
  <2>5. \A x \in slots' : slotLease'[x] # NoLease => leaseToEnv'[slotLease'[x]] = x
    BY <1>a, <1>g, <2>2 DEF Safe, LeasesConsistent, TypeOK
  <2> QED
    BY <2>4, <2>5 DEF LeasesConsistent
<1>4. Closers'
  <2>1. \A x \in threads : x.pc \in ClosePcs => x.env # e /\ x.env \notin D
    BY <1>a DEF Safe, Closers, Fresh, TypeOK, Threads, Envs, ClosePcs
  <2> QED
    BY <1>f, <1>g, <2>1 DEF Safe, Closers, TypeOK, Threads, ClosePcs
<1>5. Callers'
  BY <1>g, <1>l, <1>h DEF Safe, Callers
<1>6. HeldLeaseIsValid'
  <2>1. \A d \in Clients : client'[d].state \in {"leased", "calling"} =>
          client'[d].lease \in Leases /\ leaseToEnv'[client'[d].lease] \in slots'
    <3>1. \A d \in Clients : client[d].lease # leased + 1
      BY <1>h, <1>l
    <3> QED
      BY <1>g, <1>h, <3>1 DEF Safe, TypeOK
  <2>2. \A d, x \in Clients :
          /\ client'[d].state \in {"leased", "calling"}
          /\ client'[x].state \in {"leased", "calling"} /\ x # d
          => client'[d].lease # client'[x].lease
    <3>1. \A d \in Clients : client[d].lease # leased + 1
      BY <1>h, <1>l
    <3> QED
      BY <1>g, <3>1 DEF Safe, HeldLeaseIsValid
  <2> QED
    BY <2>1, <2>2 DEF HeldLeaseIsValid, Leases, NoLease
<1>7. AliveIsAccounted'
  <2>1. \A x \in threads : x.pc = "scrap" => x.env \notin D
    BY <1>a DEF Safe, Closers
  <2>2. e \notin unclosed
    BY <1>a DEF Safe, TypeOK, Fresh
  <2> QED
    BY <1>a, <1>f, <1>g, <2>1, <2>2 DEF Safe, AliveIsAccounted
<1>8. QED
  BY <1>1, <1>2, <1>3, <1>4, <1>5, <1>6, <1>7 DEF Safe

\* Safe is preserved: an allocate that reaps and fails.
LEMMA AllocateFailsSafe ==
  ASSUME Safe, NEW c \in Clients, AllocateFails(c)
  PROVE  Safe'
<1>f. /\ faults' \in 0..MaxFaults
      /\ \E D \in SUBSET {x \in slots : ~busy[x]} : \E F \in SUBSET D :
           /\ slots' = slots \ D /\ aged' = aged \ D
           /\ alive' = alive \ (D \ F) /\ unclosed' = unclosed \cup F
  <2>1. PICK D \in SUBSET {x \in slots : ~busy[x]} :
          /\ slots' = slots \ D /\ aged' = aged \ D
          /\ CloseEnvs(D, {}, IF Cardinality(slots \ D) >= MaxEnvs THEN 0 ELSE 1)
    BY DEF AllocateFails, Reaps, Reapable
  <2>2. PICK F \in SUBSET D, raised \in {0, 1} :
          /\ alive' = (alive \ (D \ F)) \cup {} /\ unclosed' = unclosed \cup F
          /\ faults' = faults + Cardinality(F) + raised /\ faults' <= MaxFaults
    <3>1. PICK raised \in {0, 1} : CloseEnvs(D, {}, raised)
      BY <2>1
    <3> QED
      BY <3>1 DEF CloseEnvs
  <2>3. Cardinality(F) \in Nat
    BY EnvsFinite DEF Safe, TypeOK
  <2>4. faults' \in 0..MaxFaults
    BY <2>2, <2>3, BoundAssumption DEF Safe, TypeOK
  <2> QED
    BY <2>1, <2>2, <2>4
<1>1. TypeOK'
  BY <1>f
  DEF Safe, AllocateFails, Reaps, Reapable, ReapBudget, TypeOK, Envs, Leases,
      NoLease, Threads
<1>2. Fresh'
  BY <1>f
  DEF Safe, AllocateFails, Reaps, Reapable, ReapBudget, TypeOK, Fresh, Envs,
         Leases, NoLease, Threads
<1>3. LeasesConsistent'
  BY DEF Safe, AllocateFails, Reaps, Reapable, ReapBudget, TypeOK, Fresh,
         LeasesConsistent, Closers, Envs, Leases, NoLease, Threads
<1>4. Closers'
  BY <1>f
  DEF Safe, AllocateFails, Reaps, Reapable, ReapBudget, TypeOK, Fresh,
         LeasesConsistent, Closers, Envs, Leases, NoLease, Threads, ClosePcs,
         CallPcs
<1>5. Callers'
  BY DEF Safe, AllocateFails, Reaps, Reapable, ReapBudget, TypeOK, Fresh,
         Callers, HeldLeaseIsValid, LeasesConsistent, Envs, Leases, NoLease,
         Threads, ClosePcs, CallPcs
<1>6. HeldLeaseIsValid'
  <2>1. PICK D \in SUBSET {x \in slots : ~busy[x]} : slots' = slots \ D
    BY DEF AllocateFails, Reaps, Reapable
  <2>2. \A x \in D : \A l \in Leases : leaseToEnv[l] # x
    BY <2>1, SizeAssumption DEF Safe, LeasesConsistent, TypeOK, Envs, NoEnv
  <2>3. \A d \in Clients : client[d].state \in {"leased", "calling"} =>
          client[d].lease \in Leases /\ leaseToEnv[client[d].lease] \in slots
    BY DEF Safe, HeldLeaseIsValid, TypeOK
  <2> QED
    BY <2>1, <2>2, <2>3, HeldKept DEF Safe, AllocateFails
<1>7. AliveIsAccounted'
  <2>1. \A x \in threads : x.pc = "scrap" => x.env \notin slots
    BY DEF Safe, Closers
  <2> QED
    BY <1>f, <2>1 DEF Safe, AliveIsAccounted, AllocateFails
<1>8. QED
  BY <1>1, <1>2, <1>3, <1>4, <1>5, <1>6, <1>7 DEF Safe

\* Safe is preserved: the lookup of a call.
LEMMA CallLookupSafe ==
  ASSUME Safe, NEW c \in Clients, CallLookup(c)
  PROVE  Safe'
<1>c. /\ client' \in [Clients -> Rows]
      /\ client'[c].state = "calling" /\ client'[c].lease = client[c].lease
      /\ \A d \in Clients \ {c} : client'[d] = client[d]
  BY ClientMoves DEF Safe, CallLookup, ClientStates
<1>u. PICK u \in Threads :
        /\ threads' = threads \cup {u}
        /\ u.lease = client[c].lease /\ u.env = leaseToEnv[client[c].lease] /\ u.lostAs = 0
        /\ u.pc = "opWait"
  <2>1. client[c].lease \in Leases /\ leaseToEnv[client[c].lease] \in Envs
    BY DEF Safe, TypeOK, HeldLeaseIsValid, CallLookup
  <2> DEFINE u == [lease |-> client[c].lease, env |-> leaseToEnv[client[c].lease],
                   lostAs |-> 0, pc |-> "opWait"]
  <2>2. u \in Threads
    BY <2>1, BoundAssumption DEF Threads
  <2>3. threads' = threads \cup {u}
    BY DEF CallLookup
  <2> QED
    BY <2>2, <2>3
<1>1. TypeOK'
  BY <1>c, <1>u DEF Safe, TypeOK, CallLookup, tables, Rows
<1>2. Fresh'
  BY <1>c
  DEF Safe, CallLookup, TypeOK, Fresh, tables, Envs, Leases, NoLease, Threads
<1>3. LeasesConsistent'
  BY <1>c
  DEF Safe, CallLookup, TypeOK, Fresh, LeasesConsistent, Closers, tables,
      Envs, Leases, NoLease, Threads
<1>4. Closers'
  BY <1>c
  DEF Safe, CallLookup, TypeOK, Fresh, LeasesConsistent, Closers, tables,
      Envs, Leases, NoLease, Threads, ClosePcs, CallPcs
<1>5. Callers'
  <2>1. client[c].lease \in Leases /\ leaseToEnv[client[c].lease] # NoEnv
    BY <1>u DEF Safe, CallLookup, Threads, Envs, NoEnv
  <2>2. \A d \in Clients \ {c} : client[d].lease # client[c].lease
    BY <2>1
    DEF Safe, TypeOK, Callers, HeldLeaseIsValid, CallLookup, ClientStates,
        NoLease, Leases
  <2>3. \A x \in threads : ~(/\ x.pc \in CallPcs /\ x.lostAs = 0
                             /\ x.lease = client[c].lease)
    BY DEF Safe, Callers, CallLookup
  <2>4. leaseToEnv' = leaseToEnv
    BY DEF CallLookup, tables
  <2> QED
    BY <1>c, <1>u, <2>2, <2>3, <2>4 DEF Safe, Callers
<1>6. HeldLeaseIsValid'
  BY <1>c
  DEF Safe, CallLookup, TypeOK, Fresh, LeasesConsistent, Closers, Callers,
      HeldLeaseIsValid, tables, Envs, Leases, NoLease, Threads, ClosePcs,
      CallPcs
<1>7. AliveIsAccounted'
  BY <1>c
  DEF Safe, CallLookup, TypeOK, Fresh, Closers, AliveIsAccounted, tables,
      Envs, Leases, NoLease, Threads
<1>8. QED
  BY <1>1, <1>2, <1>3, <1>4, <1>5, <1>6, <1>7 DEF Safe

\* Safe is preserved: the first block of close_lease.
LEMMA CloseLookupSafe ==
  ASSUME Safe, NEW c \in Clients, CloseLookup(c)
  PROVE  Safe'
<1>c. /\ client' \in [Clients -> Rows]
      /\ client'[c].state = "closing" /\ client'[c].lease = client[c].lease
      /\ \A d \in Clients \ {c} : client'[d] = client[d]
  BY ClientMoves DEF Safe, CloseLookup, ClientStates
<1>u. PICK u \in Threads :
        /\ threads' = threads \cup {u}
        /\ u.lease = client[c].lease /\ u.env = leaseToEnv[client[c].lease] /\ u.lostAs = 0
        /\ u.pc \in {"resetWait", "release"}
  <2>1. client[c].lease \in Leases /\ leaseToEnv[client[c].lease] \in Envs
    BY DEF Safe, TypeOK, HeldLeaseIsValid, CloseLookup
  <2> DEFINE u == [lease |-> client[c].lease, env |-> leaseToEnv[client[c].lease],
                   lostAs |-> 0, pc |-> IF ResetOnClose THEN "resetWait" ELSE "release"]
  <2>2. u \in Threads
    BY <2>1, BoundAssumption DEF Threads
  <2>3. threads' = threads \cup {u}
    BY DEF CloseLookup
  <2> QED
    BY <2>2, <2>3
<1>e. /\ client[c].lease \in Leases /\ u.env \in slots /\ u.env \in Envs
      /\ slotLease[u.env] = client[c].lease
  BY <1>u
  DEF Safe, TypeOK, LeasesConsistent, HeldLeaseIsValid, CloseLookup, Envs,
      NoEnv
<1>1. TypeOK'
  BY <1>c, <1>u, <1>e DEF Safe, TypeOK, CloseLookup, Rows
<1>2. Fresh'
  BY <1>c DEF Safe, CloseLookup, TypeOK, Fresh, Envs, Leases, NoLease, Threads
<1>3. LeasesConsistent'
  <2>1. /\ leaseToEnv' = [leaseToEnv EXCEPT ![client[c].lease] = NoEnv]
        /\ slotLease' = [slotLease EXCEPT ![u.env] = NoLease]
        /\ busy' = [busy EXCEPT ![u.env] = TRUE] /\ slots' = slots
    BY <1>u DEF CloseLookup
  <2> QED
    BY <1>e, <2>1 DEF Safe, LeasesConsistent, TypeOK
<1>4. Closers'
  <2>1. /\ slotLease' = [slotLease EXCEPT ![u.env] = NoLease]
        /\ busy' = [busy EXCEPT ![u.env] = TRUE] /\ slots' = slots
        /\ unclosed' = unclosed
    BY <1>u DEF CloseLookup
  <2>2. \A x \in threads : x.pc \in ClosePcs => x.env # u.env
    BY <1>e DEF Safe, Closers, NoLease, Leases
  <2> QED
    BY <1>u, <1>e, <2>1, <2>2 DEF Safe, Closers, TypeOK, Threads, ClosePcs
<1>5. Callers'
  <2>1. \A x \in threads : ~(/\ x.pc \in CallPcs /\ x.lostAs = 0
                             /\ x.lease = client[c].lease)
    BY DEF Safe, Callers, CloseLookup
  <2>2. leaseToEnv' = [leaseToEnv EXCEPT ![client[c].lease] = NoEnv]
    BY DEF CloseLookup
  <2>3. \A d \in Clients :
          /\ client'[d].state \in {"idle", "allocating"} => client'[d].lease = NoLease
          /\ client'[d].state = "closing" =>
               client'[d].lease \in Leases /\ leaseToEnv'[client'[d].lease] = NoEnv
    BY <1>c, <1>e, <2>2 DEF Safe, TypeOK, Callers
  <2> QED
    BY <1>c, <1>u, <2>1, <2>3 DEF Safe, Callers, CallPcs
<1>6. HeldLeaseIsValid'
  BY <1>c
  DEF Safe, CloseLookup, TypeOK, Fresh, LeasesConsistent, Closers, Callers,
      HeldLeaseIsValid, Envs, Leases, NoLease, Threads, ClosePcs, CallPcs
<1>7. AliveIsAccounted'
  BY <1>c
  DEF Safe, CloseLookup, TypeOK, Fresh, Closers, AliveIsAccounted, Envs,
      Leases, NoLease, Threads
<1>8. QED
  BY <1>1, <1>2, <1>3, <1>4, <1>5, <1>6, <1>7 DEF Safe

\* Safe is preserved: a call takes the slot lock.
LEMMA CallRunSafe ==
  ASSUME Safe, NEW t \in threads, CallRun(t)
  PROVE  Safe'
<1>t. t \in Threads
  BY DEF Safe, TypeOK
<1>u. PICK u \in Threads :
        /\ threads' = (threads \ {t}) \cup {u}
        /\ u.lease = t.lease /\ u.env = t.env /\ u.lostAs = t.lostAs /\ u.pc = "opRun"
  BY <1>t, MovedThread DEF CallRun, ClosePcs, CallPcs
<1>1. TypeOK'
  BY <1>t, <1>u DEF Safe, CallRun, TypeOK, tables, Envs, Leases, NoLease
<1>2. Fresh'
  BY <1>t, <1>u
  DEF Safe, CallRun, TypeOK, Fresh, tables, Envs, Leases, NoLease, Threads
<1>3. LeasesConsistent'
  BY <1>t, <1>u
  DEF Safe, CallRun, TypeOK, Fresh, LeasesConsistent, Closers, tables, Envs,
      Leases, NoLease, Threads
<1>4. Closers'
  BY <1>t, <1>u
  DEF Safe, CallRun, TypeOK, Fresh, LeasesConsistent, Closers, tables, Envs,
      Leases, NoLease, Threads, ClosePcs, CallPcs
<1>5. Callers'
  BY <1>t, <1>u
  DEF Safe, CallRun, TypeOK, Fresh, Callers, HeldLeaseIsValid,
      LeasesConsistent, tables, Envs, Leases, NoLease, Threads, ClosePcs,
      CallPcs
<1>6. HeldLeaseIsValid'
  BY <1>t, <1>u
  DEF Safe, CallRun, TypeOK, Fresh, LeasesConsistent, Closers, Callers,
      HeldLeaseIsValid, tables, Envs, Leases, NoLease, Threads, ClosePcs,
      CallPcs
<1>7. AliveIsAccounted'
  BY <1>t, <1>u
  DEF Safe, CallRun, TypeOK, Fresh, Closers, AliveIsAccounted, tables, Envs,
      Leases, NoLease, Threads
<1>8. QED
  BY <1>1, <1>2, <1>3, <1>4, <1>5, <1>6, <1>7 DEF Safe

\* Safe is preserved: a call returns.
LEMMA CallReturnSafe ==
  ASSUME Safe, NEW t \in threads, CallReturn(t)
  PROVE  Safe'
<1>t. t \in Threads /\ t.lease \in Leases /\ t.env \in Envs
  BY DEF Safe, TypeOK, Threads
<1>c. /\ client' \in [Clients -> Rows]
      /\ \A d \in Clients :
           \/ client'[d] = client[d]
           \/ /\ t.lostAs = 0 /\ client[d].lease = t.lease
              /\ client'[d].state = "leased" /\ client'[d].lease = t.lease
  BY <1>t, ClientResponds DEF Safe, CallReturn, ClientStates
<1>1. TypeOK'
  BY <1>t, <1>c
  DEF Safe, CallReturn, TypeOK, Envs, Leases, NoLease, Threads, Rows
<1>2. Fresh'
  BY <1>t, <1>c
  DEF Safe, CallReturn, TypeOK, Fresh, Envs, Leases, NoLease, Threads
<1>3. LeasesConsistent'
  BY <1>t, <1>c
  DEF Safe, CallReturn, TypeOK, Fresh, LeasesConsistent, Closers, Envs,
      Leases, NoLease, Threads
<1>4. Closers'
  BY <1>t, <1>c
  DEF Safe, CallReturn, TypeOK, Fresh, LeasesConsistent, Closers, Envs,
      Leases, NoLease, Threads, ClosePcs, CallPcs
<1>5. Callers'
  BY <1>t, <1>c
  DEF Safe, CallReturn, TypeOK, Fresh, Callers, HeldLeaseIsValid,
      LeasesConsistent, Envs, Leases, NoLease, Threads, ClosePcs, CallPcs
<1>6. HeldLeaseIsValid'
  <2>1. ASSUME NEW d \in Clients, client'[d].state \in {"leased", "calling"}
        PROVE  client'[d].lease = client[d].lease
               /\ client[d].state \in {"leased", "calling"}
    BY <1>c, <2>1 DEF Safe, Callers, CallReturn, CallPcs
  <2>2. leaseToEnv' = leaseToEnv /\ slots' = slots
    BY DEF CallReturn
  <2> QED
    BY <2>1, <2>2, HeldKept DEF Safe, HeldLeaseIsValid
<1>7. AliveIsAccounted'
  BY <1>t, <1>c
  DEF Safe, CallReturn, TypeOK, Fresh, Closers, AliveIsAccounted, Envs,
      Leases, NoLease, Threads
<1>8. QED
  BY <1>1, <1>2, <1>3, <1>4, <1>5, <1>6, <1>7 DEF Safe

\* Safe is preserved: close_lease takes the slot lock.
LEMMA ResetRunSafe ==
  ASSUME Safe, NEW t \in threads, ResetRun(t)
  PROVE  Safe'
<1>t. t \in Threads
  BY DEF Safe, TypeOK
<1>u. PICK u \in Threads :
        /\ threads' = (threads \ {t}) \cup {u}
        /\ u.lease = t.lease /\ u.env = t.env /\ u.lostAs = t.lostAs /\ u.pc = "resetRun"
  BY <1>t, MovedThread DEF ResetRun, ClosePcs, CallPcs
<1>1. TypeOK'
  BY <1>t, <1>u DEF Safe, ResetRun, TypeOK, tables, Envs, Leases, NoLease
<1>2. Fresh'
  BY <1>t, <1>u
  DEF Safe, ResetRun, TypeOK, Fresh, tables, Envs, Leases, NoLease, Threads
<1>3. LeasesConsistent'
  BY <1>t, <1>u
  DEF Safe, ResetRun, TypeOK, Fresh, LeasesConsistent, Closers, tables, Envs,
      Leases, NoLease, Threads
<1>4. Closers'
  BY <1>t, <1>u
  DEF Safe, ResetRun, TypeOK, Fresh, LeasesConsistent, Closers, tables, Envs,
      Leases, NoLease, Threads, ClosePcs, CallPcs
<1>5. Callers'
  BY <1>t, <1>u
  DEF Safe, ResetRun, TypeOK, Fresh, Callers, HeldLeaseIsValid,
      LeasesConsistent, tables, Envs, Leases, NoLease, Threads, ClosePcs,
      CallPcs
<1>6. HeldLeaseIsValid'
  BY <1>t, <1>u
  DEF Safe, ResetRun, TypeOK, Fresh, LeasesConsistent, Closers, Callers,
      HeldLeaseIsValid, tables, Envs, Leases, NoLease, Threads, ClosePcs,
      CallPcs
<1>7. AliveIsAccounted'
  BY <1>t, <1>u
  DEF Safe, ResetRun, TypeOK, Fresh, Closers, AliveIsAccounted, tables, Envs,
      Leases, NoLease, Threads
<1>8. QED
  BY <1>1, <1>2, <1>3, <1>4, <1>5, <1>6, <1>7 DEF Safe

\* Safe is preserved: the reset succeeds.
LEMMA ResetReturnsSafe ==
  ASSUME Safe, NEW t \in threads, ResetReturns(t)
  PROVE  Safe'
<1>t. t \in Threads
  BY DEF Safe, TypeOK
<1>u. PICK u \in Threads :
        /\ threads' = (threads \ {t}) \cup {u}
        /\ u.lease = t.lease /\ u.env = t.env /\ u.lostAs = t.lostAs /\ u.pc = "release"
  BY <1>t, MovedThread DEF ResetReturns, ClosePcs, CallPcs
<1>1. TypeOK'
  BY <1>t, <1>u DEF Safe, ResetReturns, TypeOK, tables, Envs, Leases, NoLease
<1>2. Fresh'
  BY <1>t, <1>u
  DEF Safe, ResetReturns, TypeOK, Fresh, tables, Envs, Leases, NoLease,
      Threads
<1>3. LeasesConsistent'
  BY <1>t, <1>u
  DEF Safe, ResetReturns, TypeOK, Fresh, LeasesConsistent, Closers, tables,
      Envs, Leases, NoLease, Threads
<1>4. Closers'
  BY <1>t, <1>u
  DEF Safe, ResetReturns, TypeOK, Fresh, LeasesConsistent, Closers, tables,
      Envs, Leases, NoLease, Threads, ClosePcs, CallPcs
<1>5. Callers'
  BY <1>t, <1>u
  DEF Safe, ResetReturns, TypeOK, Fresh, Callers, HeldLeaseIsValid,
      LeasesConsistent, tables, Envs, Leases, NoLease, Threads, ClosePcs,
      CallPcs
<1>6. HeldLeaseIsValid'
  BY <1>t, <1>u
  DEF Safe, ResetReturns, TypeOK, Fresh, LeasesConsistent, Closers, Callers,
      HeldLeaseIsValid, tables, Envs, Leases, NoLease, Threads, ClosePcs,
      CallPcs
<1>7. AliveIsAccounted'
  BY <1>t, <1>u
  DEF Safe, ResetReturns, TypeOK, Fresh, Closers, AliveIsAccounted, tables,
      Envs, Leases, NoLease, Threads
<1>8. QED
  BY <1>1, <1>2, <1>3, <1>4, <1>5, <1>6, <1>7 DEF Safe

\* Safe is preserved: the reset raises.
LEMMA ResetRaisesSafe ==
  ASSUME Safe, NEW t \in threads, ResetRaises(t)
  PROVE  Safe'
<1>t. t \in Threads
  BY DEF Safe, TypeOK
<1>u. PICK u \in Threads :
        /\ threads' = (threads \ {t}) \cup {u}
        /\ u.lease = t.lease /\ u.env = t.env /\ u.lostAs = t.lostAs /\ u.pc = "replace"
  BY <1>t, MovedThread DEF ResetRaises, ClosePcs, CallPcs
<1>1. TypeOK'
  BY <1>t, <1>u, BoundAssumption
  DEF Safe, ResetRaises, TypeOK, tables, Envs, Leases, NoLease
<1>2. Fresh'
  BY <1>t, <1>u
  DEF Safe, ResetRaises, TypeOK, Fresh, tables, Envs, Leases, NoLease, Threads
<1>3. LeasesConsistent'
  BY <1>t, <1>u
  DEF Safe, ResetRaises, TypeOK, Fresh, LeasesConsistent, Closers, tables,
      Envs, Leases, NoLease, Threads
<1>4. Closers'
  BY <1>t, <1>u
  DEF Safe, ResetRaises, TypeOK, Fresh, LeasesConsistent, Closers, tables,
      Envs, Leases, NoLease, Threads, ClosePcs, CallPcs
<1>5. Callers'
  BY <1>t, <1>u
  DEF Safe, ResetRaises, TypeOK, Fresh, Callers, HeldLeaseIsValid,
      LeasesConsistent, tables, Envs, Leases, NoLease, Threads, ClosePcs,
      CallPcs
<1>6. HeldLeaseIsValid'
  BY <1>t, <1>u
  DEF Safe, ResetRaises, TypeOK, Fresh, LeasesConsistent, Closers, Callers,
      HeldLeaseIsValid, tables, Envs, Leases, NoLease, Threads, ClosePcs,
      CallPcs
<1>7. AliveIsAccounted'
  BY <1>t, <1>u
  DEF Safe, ResetRaises, TypeOK, Fresh, Closers, AliveIsAccounted, tables,
      Envs, Leases, NoLease, Threads
<1>8. QED
  BY <1>1, <1>2, <1>3, <1>4, <1>5, <1>6, <1>7 DEF Safe

\* Safe is preserved: the replacement of a slot.
LEMMA ReplaceSafe ==
  ASSUME Safe, NEW t \in threads, Replace(t)
  PROVE  Safe'
<1>t. t \in Threads
  BY DEF Safe, TypeOK
<1>u. PICK u \in Threads :
        /\ threads' = (threads \ {t}) \cup {u}
        /\ u.lease = t.lease /\ u.env = t.env /\ u.lostAs = t.lostAs /\ u.pc = "scrap"
  BY <1>t, MovedThread DEF Replace, ClosePcs, CallPcs
<1>1. TypeOK'
  <2>1. created + 1 \in 1..MaxCreated
    BY SizeAssumption DEF Safe, TypeOK, Replace
  <2>2. threads' \subseteq Threads
    BY <1>u DEF Safe, TypeOK
  <2>3. /\ slots' \subseteq Envs /\ alive' \subseteq Envs /\ aged' \subseteq Envs
        /\ unclosed' \subseteq Envs
    BY <2>1 DEF Safe, TypeOK, Replace, Envs
  <2>4. created' \in 0..MaxCreated
    BY <2>1 DEF Replace
  <2> QED
    BY <2>2, <2>3, <2>4 DEF Safe, TypeOK, Replace
<1>2. Fresh'
  <2>1. created \in Nat /\ created' = created + 1 /\ leased' = leased
    BY DEF Safe, TypeOK, Replace
  <2>2. slots' \subseteq 1..created'
    <3>1. slots \subseteq 1..created /\ slots' = (slots \ {t.env}) \cup {created + 1}
      BY DEF Safe, Fresh, Replace
    <3>2. 1..created \subseteq 1..created + 1 /\ created + 1 \in 1..created + 1
      BY <2>1
    <3> QED
      BY <2>1, <3>1, <3>2
  <2>3. \A x \in threads' : x.env <= created' /\ x.lease <= leased'
    <3>1. \A x \in threads : x.env \in Nat /\ x.env <= created /\ x.lease <= leased
      BY DEF Safe, TypeOK, Fresh, Threads, Envs
    <3> QED
      BY <1>u, <2>1, <3>1
  <2>4. \A e \in Envs : e > created' => slotLease'[e] = NoLease
    BY <2>1 DEF Safe, Fresh, Replace, Envs
  <2>5. unclosed' \subseteq 1..created'
    BY <2>1 DEF Safe, Fresh, Replace
  <2> QED
    BY <2>1, <2>2, <2>3, <2>4, <2>5 DEF Safe, Fresh, Replace
<1>3. LeasesConsistent'
  <2>1. created + 1 \in Envs /\ slotLease[created + 1] = NoLease
    BY SizeAssumption DEF Safe, TypeOK, Fresh, Replace, Envs
  <2>2. slotLease[t.env] = NoLease
    BY DEF Safe, Closers, Replace, ClosePcs
  <2>3. \A l \in Leases : leaseToEnv[l] # NoEnv => leaseToEnv[l] # t.env
    BY <2>2 DEF Safe, LeasesConsistent, Leases, NoLease
  <2> QED
    BY <2>1, <2>3 DEF Safe, LeasesConsistent, Replace
<1>4. Closers'
  BY <1>t, <1>u
  DEF Safe, Replace, TypeOK, Fresh, LeasesConsistent, Closers, AliveIsAccounted, Envs, Leases,
      NoLease, Threads, ClosePcs, CallPcs
<1>5. Callers'
  BY <1>t, <1>u
  DEF Safe, Replace, TypeOK, Fresh, Callers, HeldLeaseIsValid,
      LeasesConsistent, Envs, Leases, NoLease, Threads, ClosePcs, CallPcs
<1>6. HeldLeaseIsValid'
  <2>1. slotLease[t.env] = NoLease /\ t.env # NoEnv
    BY <1>t DEF Safe, Closers, Replace, ClosePcs, Threads, Envs, NoEnv
  <2>2. \A d \in Clients : client[d].state \in {"leased", "calling"} =>
          leaseToEnv[client[d].lease] \in slots /\ client[d].lease \in Leases
    BY DEF Safe, HeldLeaseIsValid, TypeOK
  <2>3. \A l \in Leases : leaseToEnv[l] # t.env
    BY <2>1 DEF Safe, LeasesConsistent, Leases, NoLease
  <2> QED
    BY <2>2, <2>3, HeldKept DEF Safe, Replace
<1>7. AliveIsAccounted'
  <2>1. t.env \in slots
    BY DEF Safe, Closers, Replace, ClosePcs
  <2>2. {x.env : x \in {y \in threads' : y.pc = "scrap"}}
          = {x.env : x \in {y \in threads : y.pc = "scrap"}} \cup {t.env}
    BY <1>u DEF Replace
  <2>3. created + 1 \notin unclosed
    BY DEF Safe, TypeOK, Fresh
  <2> QED
    BY <2>1, <2>2, <2>3 DEF Safe, AliveIsAccounted, Replace
<1>8. QED
  BY <1>1, <1>2, <1>3, <1>4, <1>5, <1>6, <1>7 DEF Safe

\* Safe is preserved: a replacement that cannot be created.
LEMMA ReplaceRaisesSafe ==
  ASSUME Safe, NEW t \in threads, ReplaceRaises(t)
  PROVE  Safe'
<1>t. t \in Threads /\ t.lease \in Leases /\ t.env \in Envs
  BY DEF Safe, TypeOK, Threads
<1>c. /\ client' \in [Clients -> Rows]
      /\ \A d \in Clients :
           \/ client'[d] = client[d]
           \/ /\ t.lostAs = 0 /\ client[d].lease = t.lease
              /\ client'[d].state = "idle" /\ client'[d].lease = NoLease
  BY <1>t, ClientResponds DEF Safe, ReplaceRaises, ClientStates
<1>1. TypeOK'
  BY <1>t, <1>c, BoundAssumption
  DEF Safe, ReplaceRaises, TypeOK, tables, Envs, Leases, NoLease, Threads,
      Rows
<1>2. Fresh'
  BY <1>t, <1>c
  DEF Safe, ReplaceRaises, TypeOK, Fresh, tables, Envs, Leases, NoLease,
      Threads
<1>3. LeasesConsistent'
  BY <1>t, <1>c
  DEF Safe, ReplaceRaises, TypeOK, Fresh, LeasesConsistent, Closers, tables,
      Envs, Leases, NoLease, Threads
<1>4. Closers'
  BY <1>t, <1>c
  DEF Safe, ReplaceRaises, TypeOK, Fresh, LeasesConsistent, Closers, tables,
      Envs, Leases, NoLease, Threads, ClosePcs, CallPcs
<1>5. Callers'
  BY <1>t, <1>c
  DEF Safe, ReplaceRaises, TypeOK, Fresh, Callers, HeldLeaseIsValid,
      LeasesConsistent, tables, Envs, Leases, NoLease, Threads, ClosePcs,
      CallPcs
<1>6. HeldLeaseIsValid'
  <2>1. \A d \in Clients : client'[d].state \in {"leased", "calling"} =>
          client'[d] = client[d]
    BY <1>c
  <2>2. leaseToEnv' = leaseToEnv /\ slots' = slots
    BY DEF ReplaceRaises, tables
  <2> QED
    BY <2>1, <2>2, HeldKept DEF Safe, HeldLeaseIsValid
<1>7. AliveIsAccounted'
  BY <1>t, <1>c
  DEF Safe, ReplaceRaises, TypeOK, Fresh, Closers, AliveIsAccounted, tables,
      Envs, Leases, NoLease, Threads
<1>8. QED
  BY <1>1, <1>2, <1>3, <1>4, <1>5, <1>6, <1>7 DEF Safe

\* Safe is preserved: the broken environment is closed.
LEMMA ScrapSafe ==
  ASSUME Safe, NEW t \in threads, Scrap(t)
  PROVE  Safe'
<1>t. t \in Threads /\ t.lease \in Leases /\ t.env \in Envs
  BY DEF Safe, TypeOK, Threads
<1>c. /\ client' \in [Clients -> Rows]
      /\ \A d \in Clients :
           \/ client'[d] = client[d]
           \/ /\ t.lostAs = 0 /\ client[d].lease = t.lease
              /\ client'[d].state = "idle" /\ client'[d].lease = NoLease
  BY <1>t, ClientResponds DEF Safe, Scrap, ClientStates
<1>f. /\ faults' \in 0..MaxFaults
      /\ \E F \in SUBSET {t.env} :
           alive' = alive \ ({t.env} \ F) /\ unclosed' = unclosed \cup F
  <2>1. PICK F \in SUBSET {t.env} :
          /\ alive' = (alive \ ({t.env} \ F)) \cup {} /\ unclosed' = unclosed \cup F
          /\ faults' = faults + Cardinality(F) + 0 /\ faults' <= MaxFaults
    BY DEF CloseEnvs, Scrap
  <2>2. Cardinality(F) \in Nat
    BY <1>t, EnvsFinite DEF Safe, TypeOK
  <2>3. faults' \in 0..MaxFaults
    BY <2>1, <2>2, BoundAssumption DEF Safe, TypeOK
  <2> QED
    BY <2>1, <2>3
<1>1. TypeOK'
  BY <1>t, <1>c, <1>f DEF Safe, Scrap, TypeOK, Envs, Leases, NoLease, Threads, Rows
<1>2. Fresh'
  BY <1>t, <1>c, <1>f DEF Safe, Scrap, TypeOK, Fresh, Envs, Leases, NoLease, Threads
<1>3. LeasesConsistent'
  BY <1>t, <1>c
  DEF Safe, Scrap, TypeOK, Fresh, LeasesConsistent, Closers, Envs, Leases,
      NoLease, Threads
<1>4. Closers'
  BY <1>t, <1>c, <1>f
  DEF Safe, Scrap, TypeOK, Fresh, LeasesConsistent, Closers, Envs, Leases,
      NoLease, Threads, ClosePcs, CallPcs
<1>5. Callers'
  BY <1>t, <1>c
  DEF Safe, Scrap, TypeOK, Fresh, Callers, HeldLeaseIsValid, LeasesConsistent,
      Envs, Leases, NoLease, Threads, ClosePcs, CallPcs
<1>6. HeldLeaseIsValid'
  <2>1. \A d \in Clients : client'[d].state \in {"leased", "calling"} =>
          client'[d] = client[d]
    BY <1>c
  <2>2. leaseToEnv' = leaseToEnv /\ slots' = slots
    BY DEF Scrap, tables
  <2> QED
    BY <2>1, <2>2, HeldKept DEF Safe, HeldLeaseIsValid
<1>7. AliveIsAccounted'
  <2>1. t.env \notin slots
    BY DEF Safe, Closers, Scrap
  <2>2. \A x \in threads : x.pc = "scrap" /\ x # t => x.env # t.env
    BY DEF Safe, Closers, Scrap, ClosePcs
  <2>3. threads' = threads \ {t} /\ slots' = slots
    BY DEF Scrap
  <2>4. {x.env : x \in {y \in threads' : y.pc = "scrap"}}
          = {x.env : x \in {y \in threads : y.pc = "scrap"}} \ {t.env}
    BY <2>2, <2>3
  <2>5. t.env \in {x.env : x \in {y \in threads : y.pc = "scrap"}}
    BY DEF Scrap
  <2>6. alive' = slots' \cup unclosed'
                   \cup {x.env : x \in {y \in threads' : y.pc = "scrap"}}
    BY <1>f, <2>1, <2>3, <2>4, <2>5 DEF Safe, Closers, Scrap, AliveIsAccounted
  <2> QED
    BY <1>f, <2>1, <2>3, <2>6 DEF Safe, AliveIsAccounted
<1>8. QED
  BY <1>1, <1>2, <1>3, <1>4, <1>5, <1>6, <1>7 DEF Safe

\* Safe is preserved: the slot is free again.
LEMMA ReleaseSafe ==
  ASSUME Safe, NEW t \in threads, Release(t)
  PROVE  Safe'
<1>t. t \in Threads /\ t.lease \in Leases /\ t.env \in Envs
  BY DEF Safe, TypeOK, Threads
<1>c. /\ client' \in [Clients -> Rows]
      /\ \A d \in Clients :
           \/ client'[d] = client[d]
           \/ /\ t.lostAs = 0 /\ client[d].lease = t.lease
              /\ client'[d].state = "idle" /\ client'[d].lease = NoLease
  BY <1>t, ClientResponds DEF Safe, Release, ClientStates
<1>1. TypeOK'
  BY <1>t, <1>c DEF Safe, Release, TypeOK, Envs, Leases, NoLease, Threads, Rows
<1>2. Fresh'
  <2>1. \A d \in Clients : client'[d].lease <= leased
    BY <1>c DEF Safe, TypeOK, Fresh, NoLease
  <2> QED
    BY <2>1 DEF Safe, Fresh, Release
<1>3. LeasesConsistent'
  <2>1. t.env \in slots /\ slotLease[t.env] = NoLease
    BY DEF Safe, Closers, Release, ClosePcs
  <2>2. busy' = [busy EXCEPT ![t.env] = FALSE]
    BY <2>1 DEF Release
  <2>3. \A l \in Leases : leaseToEnv[l] # t.env
    BY <1>t, <2>1 DEF Safe, LeasesConsistent, NoEnv, Envs, Leases, NoLease
  <2>4. \A e \in Envs : e # t.env => busy'[e] = busy[e]
    BY <2>2 DEF Safe, TypeOK
  <2> QED
    BY <2>3, <2>4 DEF Safe, LeasesConsistent, Release, TypeOK
<1>4. Closers'
  BY <1>t, <1>c, SizeAssumption
  DEF Safe, Release, TypeOK, Fresh, LeasesConsistent, Closers, Envs, Leases,
      NoLease, Threads, ClosePcs, CallPcs
<1>5. Callers'
  BY <1>t, <1>c
  DEF Safe, Release, TypeOK, Fresh, Callers, HeldLeaseIsValid,
      LeasesConsistent, Envs, Leases, NoLease, Threads, ClosePcs, CallPcs
<1>6. HeldLeaseIsValid'
  <2>1. \A d \in Clients : client'[d].state \in {"leased", "calling"} =>
          client'[d] = client[d]
    BY <1>c
  <2>2. leaseToEnv' = leaseToEnv /\ slots' = slots
    BY DEF Release, tables
  <2> QED
    BY <2>1, <2>2, HeldKept DEF Safe, HeldLeaseIsValid
<1>7. AliveIsAccounted'
  BY <1>t, <1>c
  DEF Safe, Release, TypeOK, Fresh, Closers, AliveIsAccounted, Envs, Leases,
      NoLease, Threads
<1>8. QED
  BY <1>1, <1>2, <1>3, <1>4, <1>5, <1>6, <1>7 DEF Safe

\* Safe is preserved: a response is lost.
LEMMA LoseResponseSafe ==
  ASSUME Safe, NEW t \in threads, LoseResponse(t)
  PROVE  Safe'
<1>t. t \in Threads /\ lost + 1 \in 0..MaxLost /\ lost + 1 # 0
  BY BoundAssumption DEF Safe, TypeOK, LoseResponse
<1>u. PICK u \in Threads :
        /\ threads' = (threads \ {t}) \cup {u}
        /\ u.lease = t.lease /\ u.env = t.env /\ u.lostAs = lost + 1 /\ u.pc = t.pc
  BY <1>t, LostThread DEF LoseResponse
<1>c. /\ client' \in [Clients -> Rows]
      /\ \A d \in Clients :
           \/ client'[d] = client[d]
           \/ /\ t.lostAs = 0 /\ client[d].lease = t.lease
              /\ IF t.pc \in CallPcs
                 THEN client'[d].state = "leased" /\ client'[d].lease = t.lease
                 ELSE client'[d].state = "idle" /\ client'[d].lease = NoLease
  <2>1. t.lease \in Leases
    BY <1>t DEF Threads
  <2>2. CASE t.pc \in CallPcs
    BY <2>1, <2>2, ClientResponds DEF Safe, LoseResponse, ClientStates, CallPcs
  <2>3. CASE t.pc \notin CallPcs
    BY <2>3, ClientResponds DEF Safe, LoseResponse, ClientStates, CallPcs
  <2> QED BY <2>2, <2>3
<1>1. TypeOK'
  BY <1>t, <1>u, <1>c
  DEF Safe, LoseResponse, TypeOK, tables, Envs, Leases, NoLease, Threads, Rows
<1>2. Fresh'
  <2>1. t.env <= created /\ t.lease <= leased
    BY DEF Safe, Fresh
  <2>2. \A x \in threads' : x.env <= created /\ x.lease <= leased
    BY <1>u, <2>1 DEF Safe, Fresh
  <2>3. \A d \in Clients : client'[d].lease <= leased
    BY <1>c, <2>1 DEF Safe, TypeOK, Fresh, NoLease
  <2> QED
    BY <2>2, <2>3 DEF Safe, Fresh, LoseResponse, tables
<1>3. LeasesConsistent'
  BY DEF Safe, LoseResponse, TypeOK, Fresh, LeasesConsistent, Closers, tables,
         Envs, Leases, NoLease, Threads
<1>4. Closers'
  <2>1. /\ slots' = slots /\ busy' = busy /\ slotLease' = slotLease
        /\ unclosed' = unclosed
    BY DEF LoseResponse, tables
  <2>2. \A x, y \in threads' :
          x.pc \in ClosePcs /\ y.pc \in ClosePcs /\ x.env = y.env => x = y
    BY <1>u DEF Safe, Closers
  <2> QED
    BY <1>u, <2>1, <2>2 DEF Safe, Closers
<1>5. Callers'
  BY <1>t, <1>u, <1>c
  DEF Safe, LoseResponse, TypeOK, Fresh, Callers, HeldLeaseIsValid,
      LeasesConsistent, tables, Envs, Leases, NoLease, Threads, ClosePcs,
      CallPcs
<1>6. HeldLeaseIsValid'
  <2>1. ASSUME NEW d \in Clients, client'[d].state \in {"leased", "calling"}
        PROVE  client'[d].lease = client[d].lease
               /\ client[d].state \in {"leased", "calling"}
    BY <1>c, <2>1 DEF Safe, Callers
  <2>2. leaseToEnv' = leaseToEnv /\ slots' = slots
    BY DEF LoseResponse, tables
  <2> QED
    BY <2>1, <2>2, HeldKept DEF Safe, HeldLeaseIsValid
<1>7. AliveIsAccounted'
  BY <1>t, <1>u, <1>c
  DEF Safe, LoseResponse, TypeOK, Fresh, Closers, AliveIsAccounted, tables,
      Envs, Leases, NoLease, Threads
<1>8. QED
  BY <1>1, <1>2, <1>3, <1>4, <1>5, <1>6, <1>7 DEF Safe

\* Safe is preserved: a slot grows old.
LEMMA AgeSafe ==
  ASSUME Safe, NEW e \in slots, Age(e)
  PROVE  Safe'
<1>1. TypeOK'
  BY DEF Safe, Age, TypeOK, Envs, Leases, NoLease, Threads
<1>2. Fresh'
  BY DEF Safe, Age, TypeOK, Fresh, Envs, Leases, NoLease, Threads
<1>3. LeasesConsistent'
  BY DEF Safe, Age, TypeOK, Fresh, LeasesConsistent, Closers, Envs, Leases,
         NoLease, Threads
<1>4. Closers'
  BY DEF Safe, Age, TypeOK, Fresh, LeasesConsistent, Closers, Envs, Leases,
         NoLease, Threads, ClosePcs, CallPcs
<1>5. Callers'
  BY DEF Safe, Age, TypeOK, Fresh, Callers, HeldLeaseIsValid, LeasesConsistent,
         Envs, Leases, NoLease, Threads, ClosePcs, CallPcs
<1>6. HeldLeaseIsValid'
  BY DEF Safe, Age, TypeOK, Fresh, LeasesConsistent, Closers, Callers,
         HeldLeaseIsValid, Envs, Leases, NoLease, Threads, ClosePcs, CallPcs
<1>7. AliveIsAccounted'
  BY DEF Safe, Age, TypeOK, Fresh, Closers, AliveIsAccounted, Envs, Leases,
         NoLease, Threads
<1>8. QED
  BY <1>1, <1>2, <1>3, <1>4, <1>5, <1>6, <1>7
  DEF
      Safe
-----------------------------------------------------------------------------
(* The theorems *)

\* The pool of prewarmed, idle environments is safe.
LEMMA InitSafe == Init => Safe
<1> SUFFICES ASSUME Init PROVE Safe
  OBVIOUS
<1>1. TypeOK
  BY SizeAssumption, BoundAssumption
  DEF Init, TypeOK, Envs, Leases, ClientStates, NoLease
<1>2. Fresh
  BY SizeAssumption DEF Init, Fresh, NoEnv, NoLease, Leases, Envs
<1>3. LeasesConsistent
  BY SizeAssumption DEF Init, LeasesConsistent, NoEnv, NoLease, Envs
<1>4. Closers /\ Callers /\ HeldLeaseIsValid
  BY DEF Init, Closers, Callers, HeldLeaseIsValid
<1>5. AliveIsAccounted
  BY DEF Init, AliveIsAccounted
<1>6. QED
  BY <1>1, <1>2, <1>3, <1>4, <1>5 DEF Safe

\* A step of the pool preserves Safe.
LEMMA NextSafe == Safe /\ [Next]_vars => Safe'
<1> SUFFICES ASSUME Safe, [Next]_vars PROVE Safe'
  OBVIOUS
<1>1. ASSUME NEW c \in Clients, ClientStep(c) PROVE Safe'
  BY <1>1, BeginEpisodeSafe, AllocateReuseSafe, AllocateNewSafe,
     AllocateFailsSafe, CallLookupSafe, CloseLookupSafe
  DEF ClientStep
<1>2. ASSUME NEW t \in threads, ThreadStep(t) PROVE Safe'
  BY <1>2, CallRunSafe, CallReturnSafe, ResetRunSafe, ResetReturnsSafe,
     ResetRaisesSafe, ReplaceSafe, ReplaceRaisesSafe, ScrapSafe, ReleaseSafe
  DEF ThreadStep
<1>3. ASSUME NEW t \in threads, LoseResponse(t) PROVE Safe'
  BY <1>3, LoseResponseSafe
<1>4. ASSUME NEW e \in slots, Age(e) PROVE Safe'
  BY <1>4, AgeSafe
<1>5. CASE UNCHANGED vars
  BY <1>5
  DEF vars, tables, Safe, TypeOK, Fresh, LeasesConsistent, Closers, Callers,
      HeldLeaseIsValid, AliveIsAccounted
<1>6. QED
  BY <1>1, <1>2, <1>3, <1>4, <1>5 DEF Next

\* The inductive invariant of the pool holds in every reachable state, whatever
\* the order of its requests, close calls, reaper passes and lost responses.
THEOREM PoolSafe == Spec => []Safe
  BY InitSafe, NextSafe, PTL DEF Spec

\* The type invariant holds for every pool and every number of clients.
THEOREM PoolTypeOK == Spec => []TypeOK
  BY PoolSafe, PTL DEF Safe

\* allocate, close_lease and the reaper keep both tables of leases in step,
\* with lost responses and failing resets: no slot has two leases.
THEOREM PoolLeasesConsistent == Spec => []LeasesConsistent
  BY PoolSafe, PTL DEF Safe

\* A lease that a client holds stays valid until the client closes it.
THEOREM PoolHeldLeaseIsValid == Spec => []HeldLeaseIsValid
  BY PoolSafe, PTL DEF Safe

\* Every environment that was created and not closed can still be found, or
\* its close() raised; and the latter are never in the pool again.
THEOREM PoolAliveIsAccounted == Spec => []AliveIsAccounted
  BY PoolSafe, PTL DEF Safe

\* The slots left by a reaping: how many there are.
LEMMA ReapedSize ==
  ASSUME Safe, PoolSize, NEW D \in Reaps
  PROVE  /\ IsFiniteSet(slots \ D)
         /\ Cardinality(slots \ D) \in Nat
         /\ MinEnvs <= Cardinality(slots \ D) /\ Cardinality(slots \ D) <= MaxEnvs
<1>1. IsFiniteSet(slots) /\ Cardinality(slots) \in Nat
  <2>1. created \in Int /\ slots \subseteq 1..created
    BY DEF Safe, TypeOK, Fresh
  <2>2. IsFiniteSet(1..created)
    BY <2>1, FS_Interval
  <2> QED
    BY <2>1, <2>2, FS_Subset, FS_CardinalityType
<1>2. D \subseteq slots /\ IsFiniteSet(D) /\ Cardinality(D) \in Nat
  BY <1>1, FS_Subset, FS_CardinalityType DEF Reaps, Reapable
<1>3. Cardinality(D) <= ReapBudget
  <2>1. ReapBudget \in Nat
    BY <1>1, SizeAssumption DEF ReapBudget
  <2>2. IsFiniteSet(Reapable) /\ Cardinality(Reapable) \in Nat
    BY <1>1, FS_Subset, FS_CardinalityType DEF Reapable
  <2> QED
    BY <2>1, <2>2 DEF Reaps
<1>4. /\ IsFiniteSet(slots \ D)
      /\ Cardinality(slots \ D) = Cardinality(slots) - Cardinality(D)
  <2>1. slots \cap D = D
    BY <1>2
  <2> QED
    BY <1>1, <2>1, FS_Difference
<1>5. QED
  BY <1>1, <1>2, <1>3, <1>4, SizeAssumption, FS_CardinalityType
  DEF PoolSize, ReapBudget

\* A step keeps the pool between min_envs and max_envs.
LEMMA NextSize == Safe /\ PoolSize /\ [Next]_vars => PoolSize'
<1> SUFFICES ASSUME Safe, PoolSize, [Next]_vars PROVE PoolSize'
  OBVIOUS
<1>1. ASSUME NEW c \in Clients, AllocateReuse(c) PROVE PoolSize'
  <2>1. PICK D \in Reaps : slots' = slots \ D
    BY <1>1 DEF AllocateReuse, Grant
  <2> QED
    BY <2>1, ReapedSize DEF PoolSize
<1>2. ASSUME NEW c \in Clients, AllocateNew(c) PROVE PoolSize'
  <2>1. PICK D \in Reaps :
          slots' = (slots \ D) \cup {created + 1} /\ Cardinality(slots \ D) < MaxEnvs
    BY <1>2 DEF AllocateNew, Grant
  <2>2. created + 1 \notin slots
    BY DEF Safe, TypeOK, Fresh
  <2>3. /\ IsFiniteSet(slots \ D) /\ Cardinality(slots \ D) \in Nat
        /\ MinEnvs <= Cardinality(slots \ D)
    BY <2>1, ReapedSize
  <2>4. created + 1 \notin slots \ D
    BY <2>2
  <2>5. Cardinality(slots') = Cardinality(slots \ D) + 1
    BY <2>1, <2>3, <2>4, FS_AddElement
  <2> QED
    BY <2>1, <2>3, <2>5, SizeAssumption DEF PoolSize
<1>3. ASSUME NEW c \in Clients, AllocateFails(c) PROVE PoolSize'
  <2>1. PICK D \in Reaps : slots' = slots \ D
    BY <1>3 DEF AllocateFails
  <2> QED
    BY <2>1, ReapedSize DEF PoolSize
<1>4. ASSUME NEW t \in threads, Replace(t) PROVE PoolSize'
  <2>1. t.env \in slots /\ created + 1 \notin slots
    BY <1>4 DEF Safe, TypeOK, Fresh, Closers, Replace, ClosePcs
  <2>2. slots' = (slots \ {t.env}) \cup {created + 1}
    BY <1>4 DEF Replace
  <2>3. IsFiniteSet(slots)
    <3>1. created \in Int /\ slots \subseteq 1..created
      BY DEF Safe, TypeOK, Fresh
    <3>2. IsFiniteSet(1..created)
      BY <3>1, FS_Interval
    <3> QED
      BY <3>1, <3>2, FS_Subset
  <2>4. /\ IsFiniteSet(slots \ {t.env})
        /\ Cardinality(slots \ {t.env}) = Cardinality(slots) - 1
    BY <2>1, <2>3, FS_RemoveElement
  <2>5. Cardinality(slots') = Cardinality(slots \ {t.env}) + 1
    BY <2>1, <2>2, <2>4, FS_AddElement
  <2>6. Cardinality(slots) \in Nat
    BY <2>3, FS_CardinalityType
  <2> QED
    BY <2>4, <2>5, <2>6 DEF PoolSize
<1>5. ASSUME slots' = slots PROVE PoolSize'
  BY <1>5 DEF PoolSize
<1>6. QED
  BY <1>1, <1>2, <1>3, <1>4, <1>5
  DEF Next, ClientStep, ThreadStep, vars, tables, BeginEpisode, CallLookup,
      CloseLookup, CallRun, CallReturn, ResetRun, ResetReturns, ResetRaises,
      ReplaceRaises, Scrap, Release, LoseResponse, Age

\* Reaping, creation and replacement keep the pool within its bounds.
THEOREM PoolSizeBounded == Spec => []PoolSize
<1>1. Init => PoolSize
  BY SizeAssumption, FS_Interval DEF Init, PoolSize
<1>2. QED
  BY <1>1, NextSize, PoolSafe, PTL DEF Spec

-----------------------------------------------------------------------------
(* Until a response is lost *)

Attended ==
  /\ \A t \in threads : t.lostAs = 0
  /\ \A t, u \in threads : t.lease = u.lease => t = u
  /\ \A t \in threads : t.pc \in CallPcs => leaseToEnv[t.lease] = t.env
  /\ \A t \in threads : t.pc \in ClosePcs => leaseToEnv[t.lease] = NoEnv

\* Every lease has a client that will close it.
Claimed ==
  \A l \in Leases : leaseToEnv[l] # NoEnv =>
    \E c \in Clients : client[c].state \in {"leased", "calling"} /\ client[c].lease = l

\* Who has touched the environments.
Untouched ==
  /\ \A e \in slots : ~busy[e] => user[e] = Clean
  /\ \A e \in Envs : e > created => user[e] = Clean
  /\ \A t \in threads : t.pc = "release" => user[t.env] = Clean
  /\ \A e \in slots : slotLease[e] # NoLease => user[e] \in {Clean, slotLease[e]}

Reliable ==
  lost = 0 => /\ Attended
              /\ Claimed
              /\ ResetOnClose => Untouched

-----------------------------------------------------------------------------
(* One step *)

\* While no response is lost, the client that asked gets the lease.
LEMMA GrantArrives ==
  ASSUME TypeOK, NEW c \in Clients, NEW e \in Envs, NEW R, Grant(c, e, R), lost' = 0
  PROVE  /\ client' = [client EXCEPT ![c] = [state |-> "leased", lease |-> leased + 1]]
         /\ leased + 1 \in Leases /\ leased' = leased + 1
         /\ leaseToEnv' = [leaseToEnv EXCEPT ![leased + 1] = e]
         /\ slotLease' = [slotLease EXCEPT ![e] = leased + 1]
         /\ busy' = [busy EXCEPT ![e] = TRUE]
         /\ slots' = R \cup {e}
         /\ threads' = threads /\ user' = user
<1>1. lost + 1 # 0
  BY BoundAssumption DEF TypeOK
<1>2. leased + 1 \in Leases
  BY BoundAssumption DEF TypeOK, Grant, Leases
<1>3. QED
  BY <1>1, <1>2 DEF Grant

\* Responses once lost stay lost.
LEMMA LossesStay ==
  ASSUME Safe, Next, lost' = 0
  PROVE  lost = 0 /\ \A t \in threads : ~LoseResponse(t)
<1>1. lost \in Nat
  BY BoundAssumption DEF Safe, TypeOK
<1>2. lost' \in {lost, lost + 1}
  BY DEF Next, ClientStep, ThreadStep, BeginEpisode, AllocateReuse, AllocateNew,
         AllocateFails, Grant, CallLookup, CloseLookup, CallRun, CallReturn,
         ResetRun, ResetReturns, ResetRaises, Replace, ReplaceRaises, Scrap,
         Release, LoseResponse, Age, tables
<1>3. QED
  BY <1>1, <1>2 DEF LoseResponse

\* What an allocation that ends with a lease does.
LEMMA Allocated ==
  ASSUME Safe, NEW c \in Clients, AllocateReuse(c) \/ AllocateNew(c), lost' = 0
  PROVE  \E e \in Envs :
           /\ \/ e \in slots /\ ~busy[e] /\ created' = created
              \/ e = created + 1 /\ e \notin slots /\ created' = created + 1
           /\ client[c].state = "allocating"
           /\ client' = [client EXCEPT ![c] = [state |-> "leased", lease |-> leased + 1]]
           /\ leased + 1 \in Leases
           /\ leaseToEnv[leased + 1] = NoEnv
           /\ leaseToEnv' = [leaseToEnv EXCEPT ![leased + 1] = e]
           /\ slotLease' = [slotLease EXCEPT ![e] = leased + 1]
           /\ busy' = [busy EXCEPT ![e] = TRUE]
           /\ slots' \subseteq slots \cup {e}
           /\ threads' = threads /\ user' = user
<1>1. TypeOK /\ Fresh
  BY DEF Safe
<1>2. CASE AllocateReuse(c)
  <2>1. PICK D \in Reaps, e \in slots :
          e \notin D /\ ~busy[e] /\ Grant(c, e, slots \ D)
    BY <1>2 DEF AllocateReuse
  <2>2. e \in Envs
    BY <1>1 DEF TypeOK
  <2>3. /\ client' = [client EXCEPT ![c] = [state |-> "leased", lease |-> leased + 1]]
        /\ leased + 1 \in Leases
        /\ leaseToEnv' = [leaseToEnv EXCEPT ![leased + 1] = e]
        /\ slotLease' = [slotLease EXCEPT ![e] = leased + 1]
        /\ busy' = [busy EXCEPT ![e] = TRUE]
        /\ slots' = (slots \ D) \cup {e}
        /\ threads' = threads /\ user' = user
    BY <1>1, <2>1, <2>2, GrantArrives
  <2>4. leaseToEnv[leased + 1] = NoEnv
    BY <1>1, <2>3 DEF Fresh, TypeOK
  <2>5. created' = created /\ client[c].state = "allocating"
    BY <1>2 DEF AllocateReuse
  <2>6. slots' \subseteq slots \cup {e}
    BY <2>3
  <2> QED
    BY <2>1, <2>2, <2>3, <2>4, <2>5, <2>6
<1>3. CASE AllocateNew(c)
  <2> DEFINE e == created + 1
  <2>1. PICK D \in Reaps : Grant(c, e, slots \ D)
    BY <1>3 DEF AllocateNew
  <2>2. e \in Envs /\ e \notin slots
    BY <1>1, <1>3, SizeAssumption DEF AllocateNew, TypeOK, Fresh, Envs
  <2>3. created' = e /\ client[c].state = "allocating"
    BY <1>3 DEF AllocateNew
  <2> HIDE DEF e
  <2>4. /\ client' = [client EXCEPT ![c] = [state |-> "leased", lease |-> leased + 1]]
        /\ leased + 1 \in Leases
        /\ leaseToEnv' = [leaseToEnv EXCEPT ![leased + 1] = e]
        /\ slotLease' = [slotLease EXCEPT ![e] = leased + 1]
        /\ busy' = [busy EXCEPT ![e] = TRUE]
        /\ slots' = (slots \ D) \cup {e}
        /\ threads' = threads /\ user' = user
    BY <1>1, <2>1, <2>2, GrantArrives
  <2>5. leaseToEnv[leased + 1] = NoEnv
    BY <1>1, <2>4 DEF Fresh, TypeOK
  <2>6. slots' \subseteq slots \cup {e}
    BY <2>4
  <2>7. e = created + 1
    BY DEF e
  <2> QED
    BY <2>2, <2>3, <2>4, <2>5, <2>6, <2>7
<1>4. QED
  BY <1>2, <1>3

\* Steps of the threads that keep the tables, the users and the clients.
LEMMA ThreadMoves ==
  ASSUME Safe, NEW t \in threads, CallRun(t) \/ ResetRun(t) \/ ResetRaises(t)
  PROVE  \E u \in Threads :
           /\ threads' = (threads \ {t}) \cup {u}
           /\ u.lease = t.lease /\ u.env = t.env /\ u.lostAs = t.lostAs
           /\ u.pc \in CallPcs \cup ClosePcs
           /\ u.pc \in CallPcs <=> t.pc \in CallPcs
           /\ u.pc \in ClosePcs <=> t.pc \in ClosePcs
           /\ u.pc # "release"
           /\ tables' = tables /\ user' = user /\ client' = client
<1>1. t \in Threads
  BY DEF Safe, TypeOK
<1>2. CASE CallRun(t)
  <2>1. Goto(t, "opRun") /\ t.pc \in CallPcs /\ tables' = tables /\ user' = user /\ client' = client
    BY <1>2 DEF CallRun, CallPcs
  <2>2. "opRun" \in CallPcs \cup ClosePcs
    BY DEF CallPcs
  <2> QED
    BY <1>1, <2>1, <2>2, MovedThread DEF CallPcs, ClosePcs
<1>3. CASE ResetRun(t)
  <2>1. Goto(t, "resetRun") /\ t.pc = "resetWait" /\ tables' = tables /\ user' = user /\ client' = client
    BY <1>3 DEF ResetRun
  <2>2. "resetRun" \in CallPcs \cup ClosePcs
    BY DEF ClosePcs
  <2> QED
    BY <1>1, <2>1, <2>2, MovedThread DEF CallPcs, ClosePcs
<1>4. CASE ResetRaises(t)
  <2>1. Goto(t, "replace") /\ t.pc = "resetRun" /\ tables' = tables /\ user' = user /\ client' = client
    BY <1>4 DEF ResetRaises
  <2>2. "replace" \in CallPcs \cup ClosePcs
    BY DEF ClosePcs
  <2> QED
    BY <1>1, <2>1, <2>2, MovedThread DEF CallPcs, ClosePcs
<1>5. QED
  BY <1>2, <1>3, <1>4

\* The end of close_lease: the thread is gone, and so is its client.
LEMMA CloseEnds ==
  ASSUME Safe, Attended, NEW t \in threads,
         ReplaceRaises(t) \/ Scrap(t) \/ Release(t)
  PROVE  /\ t.pc \in ClosePcs /\ leaseToEnv[t.lease] = NoEnv
         /\ threads' = threads \ {t}
         /\ Responds(t, "idle", NoLease)
         /\ slots' = slots /\ slotLease' = slotLease /\ leaseToEnv' = leaseToEnv
         /\ created' = created /\ leased' = leased /\ user' = user
         /\ \/ busy' = busy
            \/ /\ t.pc = "release" /\ t.env \in slots
               /\ busy' = [busy EXCEPT ![t.env] = FALSE]
<1>1. t.pc \in {"replace", "scrap", "release"}
  BY DEF ReplaceRaises, Scrap, Release
<1>2. t.pc \in ClosePcs /\ leaseToEnv[t.lease] = NoEnv
  BY <1>1 DEF ClosePcs, Attended
<1>3. QED
  BY <1>2 DEF ReplaceRaises, Scrap, Release, tables

-----------------------------------------------------------------------------
(* What a thread knows of its lease *)

LEMMA NextAttended ==
  ASSUME Safe, Attended, Next, lost' = 0
  PROVE  Attended'
<1> USE DEF CallPcs, ClosePcs
<1>0. TypeOK /\ lost = 0 /\ \A t \in threads : ~LoseResponse(t)
  BY LossesStay DEF Safe
<1>1. ASSUME NEW c \in Clients, AllocateReuse(c) \/ AllocateNew(c) PROVE Attended'
  <2>1. PICK e \in Envs :
          /\ leased + 1 \in Leases
          /\ leaseToEnv' = [leaseToEnv EXCEPT ![leased + 1] = e]
          /\ threads' = threads
    BY <1>0, <1>1, Allocated
  <2>2. \A t \in threads : t.lease \in Leases /\ t.lease # leased + 1
    BY <1>0 DEF Safe, Fresh, TypeOK, Threads
  <2>3. \A t \in threads : leaseToEnv'[t.lease] = leaseToEnv[t.lease]
    BY <1>0, <2>1, <2>2 DEF TypeOK
  <2> QED
    BY <2>1, <2>3 DEF Attended
<1>2. ASSUME NEW c \in Clients, CallLookup(c) PROVE Attended'
  <2> DEFINE l == client[c].lease
             u == [lease |-> l, env |-> leaseToEnv[l], lostAs |-> 0, pc |-> "opWait"]
  <2>1. \A t \in threads : t.lease # l
    <3>1. leaseToEnv[l] # NoEnv /\ client[c].state = "leased"
      BY <1>0, <1>2 DEF CallLookup, TypeOK, Envs, NoEnv
    <3>2. \A t \in threads : t.pc \in CallPcs \cup ClosePcs
      BY <1>0 DEF TypeOK, Threads
    <3> QED
      BY <3>1, <3>2 DEF Safe, Callers, Attended
  <2>2. threads' = threads \cup {u} /\ leaseToEnv' = leaseToEnv
    BY <1>2 DEF CallLookup, tables
  <2>3. u.lease = l /\ u.env = leaseToEnv[l] /\ u.lostAs = 0 /\ u.pc = "opWait"
    OBVIOUS
  <2> HIDE DEF u, l
  <2> QED
    BY <2>1, <2>2, <2>3 DEF Attended
<1>3. ASSUME NEW c \in Clients, CloseLookup(c) PROVE Attended'
  <2> DEFINE l == client[c].lease
             u == [lease |-> l, env |-> leaseToEnv[l], lostAs |-> 0,
                   pc |-> IF ResetOnClose THEN "resetWait" ELSE "release"]
  <2>1. leaseToEnv[l] # NoEnv /\ client[c].state = "leased" /\ l \in Leases
    BY <1>0, <1>3 DEF CloseLookup, TypeOK, Envs, NoEnv, Safe, HeldLeaseIsValid, NoLease
  <2>2. \A t \in threads : t.lease # l
    <3>1. \A t \in threads : t.pc \in CallPcs \cup ClosePcs
      BY <1>0 DEF TypeOK, Threads
    <3> QED
      BY <2>1, <3>1 DEF Safe, Callers, Attended
  <2>3. threads' = threads \cup {u} /\ leaseToEnv' = [leaseToEnv EXCEPT ![l] = NoEnv]
    BY <1>3 DEF CloseLookup
  <2>4. /\ u.lease = l /\ u.lostAs = 0 /\ u.pc \in ClosePcs /\ u.pc \notin CallPcs
    OBVIOUS
  <2>5. leaseToEnv'[l] = NoEnv /\ \A k \in Leases \ {l} : leaseToEnv'[k] = leaseToEnv[k]
    BY <1>0, <2>1, <2>3 DEF TypeOK
  <2>6. \A t \in threads : t.lease \in Leases \ {l}
    BY <1>0, <2>2 DEF TypeOK, Threads
  <2> HIDE DEF u, l
  <2> QED
    BY <2>3, <2>4, <2>5, <2>6 DEF Attended
<1>4. ASSUME NEW t \in threads, CallRun(t) \/ ResetRun(t) \/ ResetRaises(t)
      PROVE  Attended'
  <2>1. PICK u \in Threads :
           /\ threads' = (threads \ {t}) \cup {u}
           /\ u.lease = t.lease /\ u.env = t.env /\ u.lostAs = t.lostAs
           /\ u.pc \in CallPcs <=> t.pc \in CallPcs
           /\ u.pc \in ClosePcs <=> t.pc \in ClosePcs
           /\ tables' = tables
    BY <1>4, ThreadMoves
  <2> QED
    BY <2>1 DEF Attended, tables
<1>5. ASSUME NEW t \in threads, ResetReturns(t) \/ Replace(t) PROVE Attended'
  <2>1. PICK u \in Threads :
           /\ threads' = (threads \ {t}) \cup {u}
           /\ u.lease = t.lease /\ u.env = t.env /\ u.lostAs = t.lostAs
           /\ u.pc \in ClosePcs /\ u.pc \notin CallPcs /\ t.pc \in ClosePcs
    <3>1. t \in Threads
      BY <1>0 DEF TypeOK
    <3>2. CASE Goto(t, "release") /\ t.pc = "resetRun"
      BY <3>1, <3>2, MovedThread
    <3>3. CASE Goto(t, "scrap") /\ t.pc = "replace"
      BY <3>1, <3>3, MovedThread
    <3> QED
      BY <1>5, <3>2, <3>3 DEF ResetReturns, Replace
  <2>2. leaseToEnv' = leaseToEnv
    BY <1>5 DEF ResetReturns, Replace, tables
  <2> QED
    BY <2>1, <2>2 DEF Attended
<1>6. ASSUME NEW t \in threads, ReplaceRaises(t) \/ Scrap(t) \/ Release(t)
      PROVE  Attended'
  <2>1. threads' = threads \ {t} /\ leaseToEnv' = leaseToEnv
    BY <1>6, CloseEnds
  <2> QED
    BY <2>1 DEF Attended
<1>7. ASSUME NEW t \in threads, CallReturn(t) PROVE Attended'
  BY <1>7 DEF CallReturn, Attended
<1>8. ASSUME threads' = threads, leaseToEnv' = leaseToEnv PROVE Attended'
  BY <1>8 DEF Attended
<1>9. QED
  <2>1. ASSUME NEW c \in Clients, ClientStep(c) PROVE Attended'
    BY <1>1, <1>2, <1>3, <1>8, <2>1 DEF ClientStep, BeginEpisode, AllocateFails, tables
  <2>2. ASSUME NEW t \in threads, ThreadStep(t) PROVE Attended'
    BY <1>4, <1>5, <1>6, <1>7, <2>2 DEF ThreadStep
  <2>3. ASSUME NEW e \in slots, Age(e) PROVE Attended'
    BY <1>8, <2>3 DEF Age
  <2> QED
    BY <1>0, <2>1, <2>2, <2>3 DEF Next

-----------------------------------------------------------------------------
(* Every lease has its client *)

LEMMA NextClaimed ==
  ASSUME Safe, Attended, Claimed, Next, lost' = 0
  PROVE  Claimed'
<1>0. TypeOK /\ lost = 0 /\ \A t \in threads : ~LoseResponse(t)
  BY LossesStay DEF Safe
\* It is enough that who holds a lease keeps it while it is valid.
<1>k. ASSUME \A l \in Leases : leaseToEnv'[l] # NoEnv => leaseToEnv[l] # NoEnv,
             \A d \in Clients :
               \/ client'[d].state \in {"leased", "calling"}
                  /\ client'[d].lease = client[d].lease
               \/ client[d].state \notin {"leased", "calling"}
               \/ client[d].lease \in Leases => leaseToEnv'[client[d].lease] = NoEnv
      PROVE  Claimed'
  BY <1>k DEF Claimed
<1>1. ASSUME NEW c \in Clients, AllocateReuse(c) \/ AllocateNew(c) PROVE Claimed'
  <2>1. PICK e \in Envs :
          /\ client[c].state = "allocating"
          /\ client' = [client EXCEPT ![c] = [state |-> "leased", lease |-> leased + 1]]
          /\ leased + 1 \in Leases
          /\ leaseToEnv' = [leaseToEnv EXCEPT ![leased + 1] = e]
    BY <1>0, <1>1, Allocated
  <2>2. /\ client'[c].state = "leased" /\ client'[c].lease = leased + 1
        /\ \A d \in Clients \ {c} : client'[d] = client[d]
    BY <1>0, <2>1 DEF TypeOK
  <2>3. \A l \in Leases \ {leased + 1} : leaseToEnv'[l] = leaseToEnv[l]
    BY <1>0, <2>1 DEF TypeOK
  <2> QED
    BY <2>1, <2>2, <2>3 DEF Claimed
<1>2. ASSUME NEW c \in Clients, CallLookup(c) PROVE Claimed'
  <2>1. /\ client'[c].state = "calling" /\ client'[c].lease = client[c].lease
        /\ \A d \in Clients \ {c} : client'[d] = client[d]
    BY <1>0, <1>2, ClientMoves DEF CallLookup, ClientStates
  <2>2. leaseToEnv' = leaseToEnv
    BY <1>2 DEF CallLookup, tables
  <2> QED
    BY <1>k, <2>1, <2>2
<1>3. ASSUME NEW c \in Clients, CloseLookup(c) PROVE Claimed'
  <2> DEFINE l == client[c].lease
  <2>1. l \in Leases /\ leaseToEnv' = [leaseToEnv EXCEPT ![l] = NoEnv]
    BY <1>0, <1>3 DEF CloseLookup, TypeOK, Safe, HeldLeaseIsValid, NoLease
  <2>2. leaseToEnv'[l] = NoEnv /\ \A k \in Leases \ {l} : leaseToEnv'[k] = leaseToEnv[k]
    BY <1>0, <2>1 DEF TypeOK
  <2>3. \A d \in Clients \ {c} : client'[d] = client[d]
    BY <1>0, <1>3, ClientMoves DEF CloseLookup, ClientStates
  <2> QED
    BY <1>k, <2>2, <2>3
<1>4. ASSUME NEW t \in threads, ReplaceRaises(t) \/ Scrap(t) \/ Release(t)
      PROVE  Claimed'
  <2>1. /\ leaseToEnv[t.lease] = NoEnv /\ leaseToEnv' = leaseToEnv
        /\ Responds(t, "idle", NoLease)
    BY <1>4, CloseEnds
  <2>2. \A d \in Clients : client'[d] = client[d] \/ client[d].lease = t.lease
    BY <2>1 DEF Responds
  <2> QED
    BY <1>k, <2>1, <2>2
<1>5. ASSUME NEW t \in threads, CallReturn(t) PROVE Claimed'
  <2>1. Responds(t, "leased", t.lease) /\ leaseToEnv' = leaseToEnv
    BY <1>5 DEF CallReturn
  <2>2. \A d \in Clients :
          \/ client'[d] = client[d]
          \/ client'[d].state = "leased" /\ client'[d].lease = client[d].lease
    BY <2>1 DEF Responds
  <2> QED
    BY <1>k, <2>1, <2>2
<1>6. ASSUME client' = client, leaseToEnv' = leaseToEnv PROVE Claimed'
  BY <1>6 DEF Claimed
<1>7. ASSUME NEW c \in Clients, BeginEpisode(c) PROVE Claimed'
  <2>1. /\ \A d \in Clients \ {c} : client'[d] = client[d]
        /\ client[c].state = "idle" /\ leaseToEnv' = leaseToEnv
    BY <1>0, <1>7, ClientMoves DEF BeginEpisode, ClientStates, tables
  <2> QED
    BY <1>k, <2>1
<1>8. QED
  <2>1. ASSUME NEW c \in Clients, ClientStep(c) PROVE Claimed'
    BY <1>1, <1>2, <1>3, <1>6, <1>7, <2>1 DEF ClientStep, AllocateFails
  <2>2. ASSUME NEW t \in threads, ThreadStep(t) PROVE Claimed'
    BY <1>4, <1>5, <1>6, <2>2
    DEF ThreadStep, CallRun, ResetRun, ResetReturns, ResetRaises, Replace, tables
  <2>3. ASSUME NEW e \in slots, Age(e) PROVE Claimed'
    BY <1>6, <2>3 DEF Age
  <2> QED
    BY <1>0, <2>1, <2>2, <2>3 DEF Next

-----------------------------------------------------------------------------
(* Who touches an environment *)

LEMMA NextUntouched ==
  ASSUME Safe, Attended, ResetOnClose, Untouched, Next, lost' = 0
  PROVE  Untouched'
<1>0. /\ TypeOK /\ Fresh /\ Closers /\ LeasesConsistent
      /\ lost = 0 /\ \A t \in threads : ~LoseResponse(t)
  BY LossesStay DEF Safe
<1>t. \A t \in threads : t.env \in Envs /\ t.lease \in Leases /\ t.env <= created
  BY <1>0 DEF TypeOK, Threads, Fresh
<1>1. ASSUME NEW c \in Clients, AllocateReuse(c) \/ AllocateNew(c) PROVE Untouched'
  <2>1. PICK e \in Envs :
          /\ \/ e \in slots /\ ~busy[e] /\ created' = created
             \/ e = created + 1 /\ e \notin slots /\ created' = created + 1
          /\ slotLease' = [slotLease EXCEPT ![e] = leased + 1]
          /\ busy' = [busy EXCEPT ![e] = TRUE]
          /\ slots' \subseteq slots \cup {e}
          /\ threads' = threads /\ user' = user
    BY <1>0, <1>1, Allocated
  <2>2. created \in Nat /\ Envs \subseteq Nat /\ created' >= created
    BY <1>0, <2>1, SizeAssumption DEF TypeOK, Envs
  <2>3. user[e] = Clean
    BY <2>1, <2>2 DEF Untouched
  <2>4. /\ busy'[e] /\ slots' \subseteq Envs
        /\ \A x \in Envs \ {e} : busy'[x] = busy[x] /\ slotLease'[x] = slotLease[x]
    BY <1>0, <2>1 DEF TypeOK
  <2>5. \A x \in Envs : x > created' => x > created
    BY <2>1, <2>2
  <2> QED
    BY <2>1, <2>3, <2>4, <2>5 DEF Untouched
<1>2. ASSUME NEW c \in Clients, CallLookup(c) PROVE Untouched'
  BY <1>2 DEF CallLookup, Untouched, tables
<1>3. ASSUME NEW c \in Clients, CloseLookup(c) PROVE Untouched'
  <2> DEFINE e == leaseToEnv[client[c].lease]
             u == [lease |-> client[c].lease, env |-> e, lostAs |-> 0, pc |-> "resetWait"]
  <2>1. /\ e \in slots /\ e \in Envs
        /\ slotLease' = [slotLease EXCEPT ![e] = NoLease]
        /\ busy' = [busy EXCEPT ![e] = TRUE]
        /\ threads' = threads \cup {u}
        /\ slots' = slots /\ user' = user /\ created' = created
    BY <1>0, <1>3 DEF CloseLookup, TypeOK
  <2>2. u.pc = "resetWait"
    OBVIOUS
  <2> HIDE DEF e, u
  <2>3. /\ busy'[e] /\ slotLease'[e] = NoLease
        /\ \A x \in Envs \ {e} : busy'[x] = busy[x] /\ slotLease'[x] = slotLease[x]
    BY <1>0, <2>1 DEF TypeOK
  <2>4. slots \subseteq Envs
    BY <1>0 DEF TypeOK
  <2> QED
    BY <2>1, <2>2, <2>3, <2>4 DEF Untouched
<1>4. ASSUME NEW t \in threads, CallRun(t) \/ ResetRun(t) \/ ResetRaises(t)
      PROVE  Untouched'
  <2>1. PICK u \in Threads :
           /\ threads' = (threads \ {t}) \cup {u} /\ u.pc # "release"
           /\ tables' = tables /\ user' = user
    BY <1>4, ThreadMoves
  <2> QED
    BY <2>1 DEF Untouched, tables
<1>5. ASSUME NEW t \in threads, ResetReturns(t) PROVE Untouched'
  <2>1. t \in Threads /\ Goto(t, "release") /\ t.pc = "resetRun"
    BY <1>0, <1>5 DEF ResetReturns, TypeOK
  <2>2. PICK u \in Threads :
          threads' = (threads \ {t}) \cup {u} /\ u.env = t.env /\ u.pc = "release"
    BY <2>1, MovedThread DEF ClosePcs
  <2>3. tables' = tables /\ user' = [user EXCEPT ![t.env] = Clean]
    BY <1>5 DEF ResetReturns
  <2>4. \A x \in Envs : user'[x] = IF x = t.env THEN Clean ELSE user[x]
    BY <1>0, <2>3 DEF TypeOK
  <2>5. slots \subseteq Envs
    BY <1>0 DEF TypeOK
  <2> QED
    BY <1>t, <2>2, <2>3, <2>4, <2>5 DEF Untouched, tables
<1>6. ASSUME NEW t \in threads, Replace(t) PROVE Untouched'
  <2>1. t \in Threads /\ Goto(t, "scrap")
    BY <1>0, <1>6 DEF Replace, TypeOK
  <2>2. PICK u \in Threads : threads' = (threads \ {t}) \cup {u} /\ u.pc = "scrap"
    BY <2>1, MovedThread DEF ClosePcs
  <2>3. /\ created' = created + 1 /\ slots' \subseteq slots \cup {created + 1}
        /\ busy' = busy /\ slotLease' = slotLease /\ user' = user
    BY <1>6 DEF Replace
  <2>4. created \in Nat /\ Envs \subseteq Nat /\ created + 1 \in Envs
    BY <1>0, <1>6, SizeAssumption DEF TypeOK, Envs, Replace
  <2>5. user[created + 1] = Clean
    BY <2>4 DEF Untouched
  <2>6. \A x \in Envs : x > created' => x > created
    BY <2>3, <2>4
  <2> QED
    BY <2>2, <2>3, <2>5, <2>6 DEF Untouched
<1>7. ASSUME NEW t \in threads, ReplaceRaises(t) \/ Scrap(t) \/ Release(t)
      PROVE  Untouched'
  <2>1. /\ threads' = threads \ {t}
        /\ slots' = slots /\ slotLease' = slotLease
        /\ created' = created /\ user' = user
        /\ \/ busy' = busy
           \/ t.pc = "release" /\ busy' = [busy EXCEPT ![t.env] = FALSE]
    BY <1>7, CloseEnds
  <2>2. \A x \in slots : ~busy'[x] => ~busy[x] \/ user[x] = Clean
    BY <1>0, <2>1 DEF TypeOK, Untouched
  <2> QED
    BY <2>1, <2>2 DEF Untouched
<1>8. ASSUME NEW t \in threads, CallReturn(t) PROVE Untouched'
  <2>1. t.pc = "opRun" /\ leaseToEnv[t.lease] = t.env
    BY <1>8 DEF CallReturn, Attended, CallPcs
  <2>2. t.env \in slots /\ busy[t.env] /\ slotLease[t.env] = t.lease /\ t.lease # NoLease
    BY <1>0, <1>t, <2>1 DEF LeasesConsistent, Envs, Leases, NoEnv, NoLease
  <2>3. \A u \in threads : u.pc = "release" => u.env # t.env
    BY <1>0, <2>2 DEF Closers, ClosePcs
  <2>4. /\ user' = user \/ user' = [user EXCEPT ![t.env] = t.lease]
        /\ threads' = threads \ {t}
        /\ slots' = slots /\ busy' = busy /\ slotLease' = slotLease /\ created' = created
    BY <1>8 DEF CallReturn
  <2>5. \A x \in Envs : user'[x] = user[x] \/ (x = t.env /\ user'[x] = t.lease)
    <3>1. CASE user' = user
      BY <3>1
    <3>2. CASE user' = [user EXCEPT ![t.env] = t.lease]
      <4>1. DOMAIN user = Envs
        BY <1>0 DEF TypeOK
      <4> QED
        BY <3>2, <4>1
    <3> QED
      BY <2>4, <3>1, <3>2
  <2>6. created \in Nat /\ Envs \subseteq Nat /\ slots \subseteq Envs
    BY <1>0, SizeAssumption DEF TypeOK, Envs
  <2>7. \A x \in Envs : x > created => user'[x] = user[x]
    <3>1. \A x \in Envs : x > created => x # t.env
      BY <1>t, <2>6
    <3> QED
      BY <2>5, <3>1
  <2>8. \A x \in slots : user'[x] = user[x] \/ (x = t.env /\ user'[x] = t.lease)
    BY <2>5, <2>6
  <2>9. \A u \in threads' : u.pc = "release" => user'[u.env] = user[u.env]
    BY <1>t, <2>3, <2>4, <2>5
  <2> QED
    BY <2>2, <2>4, <2>7, <2>8, <2>9 DEF Untouched
<1>9. ASSUME NEW c \in Clients, AllocateFails(c) PROVE Untouched'
  BY <1>9 DEF AllocateFails, Untouched
<1>10. QED
  <2>1. ASSUME NEW c \in Clients, ClientStep(c) PROVE Untouched'
    BY <1>1, <1>2, <1>3, <1>9, <2>1 DEF ClientStep, BeginEpisode, tables, Untouched
  <2>2. ASSUME NEW t \in threads, ThreadStep(t) PROVE Untouched'
    BY <1>4, <1>5, <1>6, <1>7, <1>8, <2>2 DEF ThreadStep
  <2>3. ASSUME NEW e \in slots, Age(e) PROVE Untouched'
    BY <2>3 DEF Age, Untouched
  <2> QED
    BY <1>0, <2>1, <2>2, <2>3 DEF Next

-----------------------------------------------------------------------------
(* The theorems *)

LEMMA InitReliable == Init => Reliable
<1> SUFFICES ASSUME Init PROVE Attended /\ Claimed /\ Untouched
  BY DEF Reliable
<1>1. slots \subseteq Envs
  BY SizeAssumption DEF Init, Envs
<1>2. QED
  BY <1>1 DEF Init, Attended, Claimed, Untouched, Clean

LEMMA NextReliable == Safe /\ Reliable /\ [Next]_vars => Reliable'
<1> SUFFICES ASSUME Safe, Reliable, [Next]_vars, lost' = 0
             PROVE  Attended' /\ Claimed' /\ (ResetOnClose => Untouched')
  BY DEF Reliable
<1>1. CASE Next
  BY <1>1, LossesStay, NextAttended, NextClaimed, NextUntouched DEF Reliable
<1>2. CASE UNCHANGED vars
  BY <1>2 DEF Reliable, Attended, Claimed, Untouched, vars, tables
<1>3. QED
  BY <1>1, <1>2

\* As long as no response was lost, a thread has a valid lease on the slot it
\* calls, every lease has a client, and environments are clean when they are
\* given away.
THEOREM PoolReliable == Spec => []Reliable
  BY InitReliable, NextReliable, PoolSafe, PTL DEF Spec

\* As long as no response was lost, no lease is left without a client that
\* will close it.
THEOREM PoolHasNoOrphans == Spec => []NoOrphanLease
<1>1. Reliable => NoOrphanLease
  BY DEF Reliable, Claimed, NoOrphanLease
<1>2. QED
  BY <1>1, PoolReliable, PTL

\* As long as no response was lost, no operation and no reset runs on an
\* environment that was closed meanwhile, although its thread holds no lock
\* between the lookup and the operation.
THEOREM PoolCallsHitLiveEnvs == Spec => []CallsHitLiveEnvs
<1>1. Safe /\ Reliable => CallsHitLiveEnvs
  <2> SUFFICES ASSUME Safe, Attended, NEW t \in threads, t.pc \in {"opRun", "resetRun"}
               PROVE  t.env \in alive \ unclosed
    BY DEF Reliable, CallsHitLiveEnvs
  <2>1. slots \subseteq alive \ unclosed
    BY DEF Safe, AliveIsAccounted
  <2>2. t.env \in Envs /\ t.lease \in Leases
    BY DEF Safe, TypeOK, Threads
  <2>3. CASE t.pc = "opRun"
    BY <2>1, <2>2, <2>3 DEF Attended, CallPcs, Safe, LeasesConsistent, Envs, NoEnv
  <2>4. CASE t.pc = "resetRun"
    BY <2>1, <2>4 DEF Safe, Closers, ClosePcs
  <2> QED
    BY <2>3, <2>4
<1>2. QED
  BY <1>1, PoolReliable, PoolSafe, PTL

\* As long as no response was lost and slots are reset when they are closed, a
\* leased environment was touched by the holder of the lease alone.
THEOREM PoolLeasedEnvIsClean == Spec => []LeasedEnvIsClean
<1>1. Reliable => LeasedEnvIsClean
  BY DEF Reliable, Untouched, LeasedEnvIsClean
<1>2. QED
  BY <1>1, PoolReliable, PTL
=============================================================================
