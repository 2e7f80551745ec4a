------------------------------- MODULE EnvPool -------------------------------
(***************************************************************************)
(* The pool of desktop environments of gui-rl/env_pool_server.py and the   *)
(* episode runners that lease from it (gui-rl/generate_with_gui.py through *)
(* gui-rl/env_client.py).                                                  *)
(*                                                                         *)
(* Each HTTP request runs on a Flask thread.  The pool lock guards the     *)
(* tables and makes each `with self._lock` block one action; a slot lock   *)
(* guards the environment and is held while an operation runs.  Between    *)
(* the lookup of a slot (pool lock) and the operation (slot lock) a thread *)
(* holds no lock at all.                                                   *)
(*                                                                         *)
(* Environments and leases are numbered in the order of their creation.    *)
(***************************************************************************)
EXTENDS Integers, FiniteSets

CONSTANTS
  Clients,       \* episode runners
  MaxEnvs,       \* --max-envs
  MinEnvs,       \* min(--prewarm-envs, --max-envs), never negative
  ResetOnClose,  \* --reset-on-close
  MaxCreated,    \* bound: environments ever created
  MaxLeases,     \* bound: leases ever given
  MaxLost,       \* bound: responses lost on the way to a client
  MaxFaults      \* bound: resets, creations and closes that raise

ASSUME SizeAssumption ==
  /\ MaxEnvs \in Nat \ {0} /\ MinEnvs \in 0..MaxEnvs
  /\ MaxCreated \in Nat /\ MinEnvs <= MaxCreated
ASSUME BoundAssumption == MaxLeases \in Nat /\ MaxLost \in Nat /\ MaxFaults \in Nat
ASSUME ResetAssumption == ResetOnClose \in BOOLEAN

Envs == 1..MaxCreated
Leases == 1..MaxLeases
NoLease == 0
NoEnv == 0
Clean == 0               \* nobody has touched the environment since its reset

\* A request thread past its first pool-lock block.  lostAs = 0 while the
\* client still waits for the response, else the number of the loss.
Threads == [lease : Leases, env : Envs, lostAs : 0..MaxLost,
            pc : {"opWait", "opRun", "resetWait", "resetRun",
                  "release", "replace", "scrap"}]
ClientStates == {"idle", "allocating", "leased", "calling", "closing"}

VARIABLES
  slots,       \* keys of _slots
  busy,        \* slot.busy
  slotLease,   \* slot.lease_id
  leaseToEnv,  \* _lease_to_env
  aged,        \* slots last used idle_ttl_seconds ago or more
  alive,       \* environments created and not closed
  unclosed,    \* history: environments whose close() raised
  user,        \* the lease whose operations touched the environment last
  threads,     \* request threads at work
  client,      \* what an episode runner does: [state, lease]
  created, leased, lost, faults   \* counters of environments, leases and bounds

tables == <<slots, busy, slotLease, leaseToEnv, aged, alive, unclosed, created, leased>>
vars == <<tables, user, threads, client, lost, faults>>

Init ==
  /\ slots = 1..MinEnvs
  /\ busy = [e \in Envs |-> FALSE]
  /\ slotLease = [e \in Envs |-> NoLease]
  /\ leaseToEnv = [l \in Leases |-> NoEnv]
  /\ aged = {}
  /\ alive = 1..MinEnvs
  /\ unclosed = {}
  /\ user = [e \in Envs |-> Clean]
  /\ threads = {}
  /\ client = [c \in Clients |-> [state |-> "idle", lease |-> NoLease]]
  /\ created = MinEnvs
  /\ leased = 0
  /\ lost = 0
  /\ faults = 0

SlotLocked(e) == \E t \in threads : t.env = e /\ t.pc \in {"opRun", "resetRun"}

\* The client that waits for the response of thread t, if it still does.
Responds(t, state, lease) ==
  client' = [c \in Clients |->
               IF t.lostAs = 0 /\ client[c].lease = t.lease
               THEN [state |-> state, lease |-> lease] ELSE client[c]]

Goto(t, pc) == threads' = (threads \ {t}) \cup {[t EXCEPT !.pc = pc]}

-----------------------------------------------------------------------------
(* allocate *)

\* Mutant of Reapable: busy slots are reaped as well.
ReapableBusy == slots \cap aged

\* The sets of slots _reap_idle_locked may close: idle for too long and not
\* busy, as many as there are while min_envs remain.
Reapable == {e \in slots : ~busy[e] /\ e \in aged}
ReapBudget == IF Cardinality(slots) > MinEnvs THEN Cardinality(slots) - MinEnvs ELSE 0
Reaps ==
  {D \in SUBSET Reapable :
     Cardinality(D) = IF Cardinality(Reapable) < ReapBudget
                      THEN Cardinality(Reapable) ELSE ReapBudget}

\* env.close() on the environments of slots in D.  Where it raises (F) that is
\* logged, and the slot leaves the pool all the same.  In the same step the
\* environments in `new` are created, and `raised` creations raise.
CloseEnvs(D, new, raised) ==
  \E F \in SUBSET D :
    /\ alive' = (alive \ (D \ F)) \cup new
    /\ unclosed' = unclosed \cup F
    /\ faults' = faults + Cardinality(F) + raised
    /\ faults' <= MaxFaults

BeginEpisode(c) ==
  /\ client[c].state = "idle"
  /\ client' = [client EXCEPT ![c].state = "allocating"]
  /\ UNCHANGED <<tables, user, threads, lost, faults>>

\* The lease of slot e reaches the client, or is lost and the client retries.
Grant(c, e, remaining) ==
  /\ leased < MaxLeases
  /\ leased' = leased + 1
  /\ slots' = remaining \cup {e}
  /\ busy' = [busy EXCEPT ![e] = TRUE]
  /\ slotLease' = [slotLease EXCEPT ![e] = leased + 1]
  /\ leaseToEnv' = [leaseToEnv EXCEPT ![leased + 1] = e]
  /\ \/ client' = [client EXCEPT ![c] = [state |-> "leased", lease |-> leased + 1]]
        /\ UNCHANGED lost
     \/ lost < MaxLost /\ lost' = lost + 1 /\ UNCHANGED client
  /\ UNCHANGED <<user, threads>>

\* Mutants of AllocateReuse and AllocateNew: a busy slot is taken; one slot
\* more than max_envs is created.
AllocateReuseBusy(c) ==
  /\ client[c].state = "allocating"
  /\ \E D \in Reaps, e \in slots :
       /\ e \notin D
       /\ CloseEnvs(D, {}, 0)
       /\ aged' = aged \ (D \cup {e})
       /\ Grant(c, e, slots \ D)
  /\ UNCHANGED created
AllocateNewOneMore(c) ==
  /\ client[c].state = "allocating"
  /\ created < MaxCreated
  /\ \E D \in Reaps :
       /\ \A e \in slots \ D : busy[e]
       /\ Cardinality(slots \ D) <= MaxEnvs
       /\ CloseEnvs(D, {created + 1}, 0)
       /\ aged' = aged \ D
       /\ Grant(c, created + 1, slots \ D)
  /\ created' = created + 1

AllocateReuse(c) ==
  /\ client[c].state = "allocating"
  /\ \E D \in Reaps, e \in slots :
       /\ e \notin D /\ ~busy[e]
       /\ CloseEnvs(D, {}, 0)
       /\ aged' = aged \ (D \cup {e})
       /\ Grant(c, e, slots \ D)
  /\ UNCHANGED created

AllocateNew(c) ==
  /\ client[c].state = "allocating"
  /\ created < MaxCreated
  /\ \E D \in Reaps :
       /\ \A e \in slots \ D : busy[e]
       /\ Cardinality(slots \ D) < MaxEnvs
       /\ CloseEnvs(D, {created + 1}, 0)
       /\ aged' = aged \ D
       /\ Grant(c, created + 1, slots \ D)
  /\ created' = created + 1

\* "Pool exhausted", or DesktopEnv() raises: what was reaped stays reaped, the
\* client gets a 500 and tries again.
AllocateFails(c) ==
  /\ client[c].state = "allocating"
  /\ \E D \in Reaps :
       /\ \A e \in slots \ D : busy[e]
       /\ slots' = slots \ D
       /\ aged' = aged \ D
       /\ CloseEnvs(D, {}, IF Cardinality(slots \ D) >= MaxEnvs THEN 0 ELSE 1)
  /\ UNCHANGED <<busy, slotLease, leaseToEnv, created, leased, user, threads,
                 client, lost>>

-----------------------------------------------------------------------------
(* reset, get_obs, step, evaluate, heartbeat, start_recording, end_recording *)

\* _get_slot_by_lease_locked, then the pool lock is released.
CallLookup(c) ==
  LET l == client[c].lease IN
  /\ client[c].state = "leased"
  /\ leaseToEnv[l] \in slots
  /\ threads' = threads \cup
       {[lease |-> l, env |-> leaseToEnv[l], lostAs |-> 0, pc |-> "opWait"]}
  /\ client' = [client EXCEPT ![c].state = "calling"]
  /\ UNCHANGED <<tables, user, lost, faults>>

CallRun(t) ==
  /\ t.pc = "opWait"
  /\ ~SlotLocked(t.env)
  /\ Goto(t, "opRun")
  /\ UNCHANGED <<tables, user, client, lost, faults>>

\* The operation ends; heartbeat, get_obs and evaluate leave the environment
\* as it was, and one that raises does not set last_used_ts.
CallReturn(t) ==
  /\ t.pc = "opRun"
  /\ threads' = threads \ {t}
  /\ \E touched \in BOOLEAN :
       user' = IF touched THEN [user EXCEPT ![t.env] = t.lease] ELSE user
  /\ aged' \in {aged, aged \ {t.env}}
  /\ Responds(t, "leased", t.lease)
  /\ UNCHANGED <<slots, busy, slotLease, leaseToEnv, alive, unclosed, created, leased,
                 lost, faults>>

\* The connection breaks while the thread is at work.  After a call the client
\* retries it or gives up and closes; a close it gives up, for its retries
\* only find an unknown lease.
LoseResponse(t) ==
  /\ t.lostAs = 0
  /\ lost < MaxLost
  /\ lost' = lost + 1
  /\ threads' = (threads \ {t}) \cup {[t EXCEPT !.lostAs = lost + 1]}
  /\ IF t.pc \in {"opWait", "opRun"} THEN Responds(t, "leased", t.lease)
                                     ELSE Responds(t, "idle", NoLease)
  /\ UNCHANGED <<tables, user, faults>>

-----------------------------------------------------------------------------
(* close_lease *)

\* Mutants of CloseLookup: the environment is looked up when its lease is gone
\* from the table; the lease is not forgotten; the slot is not reserved for its
\* reset.
CloseLookupTooLate(c) ==
  LET l == client[c].lease
      e == leaseToEnv[l]
  IN
  /\ client[c].state = "leased"
  /\ e \in slots
  /\ leaseToEnv' = [leaseToEnv EXCEPT ![l] = NoEnv]
  /\ slotLease' = [slotLease EXCEPT ![e] = NoLease]
  /\ busy' = [busy EXCEPT ![e] = TRUE]
  /\ threads' = threads \cup
       {[lease |-> l, env |-> leaseToEnv'[l], lostAs |-> 0,
         pc |-> IF ResetOnClose THEN "resetWait" ELSE "release"]}
  /\ client' = [client EXCEPT ![c].state = "closing"]
  /\ UNCHANGED <<slots, aged, alive, unclosed, created, leased, user, lost, faults>>
CloseLookupKeepsLease(c) ==
  LET l == client[c].lease
      e == leaseToEnv[l]
  IN
  /\ client[c].state = "leased"
  /\ e \in slots
  /\ slotLease' = [slotLease EXCEPT ![e] = NoLease]
  /\ busy' = [busy EXCEPT ![e] = TRUE]
  /\ threads' = threads \cup
       {[lease |-> l, env |-> e, lostAs |-> 0,
         pc |-> IF ResetOnClose THEN "resetWait" ELSE "release"]}
  /\ client' = [client EXCEPT ![c].state = "closing"]
  /\ UNCHANGED <<slots, leaseToEnv, aged, alive, unclosed, created, leased, user, lost, faults>>
CloseLookupUnreserved(c) ==
  LET l == client[c].lease
      e == leaseToEnv[l]
  IN
  /\ client[c].state = "leased"
  /\ e \in slots
  /\ leaseToEnv' = [leaseToEnv EXCEPT ![l] = NoEnv]
  /\ slotLease' = [slotLease EXCEPT ![e] = NoLease]
  /\ busy' = [busy EXCEPT ![e] = FALSE]
  /\ threads' = threads \cup
       {[lease |-> l, env |-> e, lostAs |-> 0,
         pc |-> IF ResetOnClose THEN "resetWait" ELSE "release"]}
  /\ client' = [client EXCEPT ![c].state = "closing"]
  /\ UNCHANGED <<slots, aged, alive, unclosed, created, leased, user, lost, faults>>

\* The lease is forgotten, the slot stays busy while it is reset.
CloseLookup(c) ==
  LET l == client[c].lease
      e == leaseToEnv[l]
  IN
  /\ client[c].state = "leased"
  /\ e \in slots
  /\ leaseToEnv' = [leaseToEnv EXCEPT ![l] = NoEnv]
  /\ slotLease' = [slotLease EXCEPT ![e] = NoLease]
  /\ busy' = [busy EXCEPT ![e] = TRUE]
  /\ threads' = threads \cup
       {[lease |-> l, env |-> e, lostAs |-> 0,
         pc |-> IF ResetOnClose THEN "resetWait" ELSE "release"]}
  /\ client' = [client EXCEPT ![c].state = "closing"]
  /\ UNCHANGED <<slots, aged, alive, unclosed, created, leased, user, lost, faults>>

ResetRun(t) ==
  /\ t.pc = "resetWait"
  /\ ~SlotLocked(t.env)
  /\ Goto(t, "resetRun")
  /\ UNCHANGED <<tables, user, client, lost, faults>>

ResetReturns(t) ==
  /\ t.pc = "resetRun"
  /\ user' = [user EXCEPT ![t.env] = Clean]
  /\ Goto(t, "release")
  /\ UNCHANGED <<tables, client, lost, faults>>

ResetRaises(t) ==
  /\ t.pc = "resetRun"
  /\ faults < MaxFaults
  /\ faults' = faults + 1
  /\ Goto(t, "replace")
  /\ UNCHANGED <<tables, user, client, lost>>

\* Mutants of Replace and Scrap: the replaced slot stays in the pool; close()
\* is not called on the replaced environment.
ReplaceKeepsSlot(t) ==
  /\ t.pc = "replace"
  /\ created < MaxCreated
  /\ created' = created + 1
  /\ slots' = slots \cup {created + 1}
  /\ alive' = alive \cup {created + 1}
  /\ aged' = aged \ {t.env}
  /\ Goto(t, "scrap")
  /\ UNCHANGED <<busy, slotLease, leaseToEnv, unclosed, leased, user, client, lost, faults>>
ScrapUnclosed(t) ==
  /\ t.pc = "scrap"
  /\ ~SlotLocked(t.env)
  /\ threads' = threads \ {t}
  /\ Responds(t, "idle", NoLease)
  /\ UNCHANGED <<tables, user, lost, faults>>

\* A new environment takes the place of the one that could not be reset.
Replace(t) ==
  /\ t.pc = "replace"
  /\ created < MaxCreated
  /\ created' = created + 1
  /\ slots' = (slots \ {t.env}) \cup {created + 1}
  /\ alive' = alive \cup {created + 1}
  /\ aged' = aged \ {t.env}
  /\ Goto(t, "scrap")
  /\ UNCHANGED <<busy, slotLease, leaseToEnv, unclosed, leased, user, client, lost, faults>>

\* DesktopEnv() raises in close_lease: the thread answers 500 and is gone.
ReplaceRaises(t) ==
  /\ t.pc = "replace"
  /\ faults < MaxFaults
  /\ faults' = faults + 1
  /\ threads' = threads \ {t}
  /\ Responds(t, "idle", NoLease)
  /\ UNCHANGED <<tables, user, lost>>

\* The replaced environment is closed.
Scrap(t) ==
  /\ t.pc = "scrap"
  /\ ~SlotLocked(t.env)
  /\ CloseEnvs({t.env}, {}, 0)
  /\ threads' = threads \ {t}
  /\ Responds(t, "idle", NoLease)
  /\ UNCHANGED <<slots, busy, slotLease, leaseToEnv, aged, created, leased, user,
                 lost>>

Release(t) ==
  /\ t.pc = "release"
  /\ threads' = threads \ {t}
  /\ Responds(t, "idle", NoLease)
  /\ IF t.env \in slots
     THEN /\ busy' = [busy EXCEPT ![t.env] = FALSE]
          /\ aged' = aged \ {t.env}
     ELSE UNCHANGED <<busy, aged>>
  /\ UNCHANGED <<slots, slotLease, leaseToEnv, alive, unclosed, created, leased, user,
                 lost, faults>>

\* idle_ttl_seconds pass without a use of a slot.
Age(e) ==
  /\ e \in slots \ aged
  /\ aged' = aged \cup {e}
  /\ UNCHANGED <<slots, busy, slotLease, leaseToEnv, alive, unclosed, created, leased, user,
                 threads, client, lost, faults>>

ThreadStep(t) ==
  \/ CallRun(t) \/ CallReturn(t) \/ ResetRun(t) \/ ResetReturns(t)
  \/ ResetRaises(t) \/ Replace(t) \/ ReplaceRaises(t) \/ Scrap(t) \/ Release(t)

ClientStep(c) ==
  \/ BeginEpisode(c) \/ AllocateReuse(c) \/ AllocateNew(c) \/ AllocateFails(c)
  \/ CallLookup(c) \/ CloseLookup(c)

Next ==
  \/ \E c \in Clients : ClientStep(c)
  \/ \E t \in threads : ThreadStep(t) \/ LoseResponse(t)
  \/ \E e \in slots : Age(e)

Spec == Init /\ [][Next]_vars

\* Request threads run on: operations of an environment and resets end or
\* raise, and a slot lock is granted.  A lease has one thread per value of lostAs.
FairSpec ==
  Spec /\ \A l \in Leases, n \in 0..MaxLost :
            WF_vars(\E t \in threads : t.lease = l /\ t.lostAs = n /\ ThreadStep(t))

-----------------------------------------------------------------------------
(* Properties *)

\* Every variable keeps its type; this is the one type invariant of the module.
TypeOK ==
  /\ slots \subseteq Envs /\ alive \subseteq Envs /\ aged \subseteq Envs
  /\ unclosed \subseteq Envs
  /\ busy \in [Envs -> BOOLEAN]
  /\ slotLease \in [Envs -> Leases \cup {NoLease}]
  /\ leaseToEnv \in [Leases -> Envs \cup {NoEnv}]
  /\ user \in [Envs -> Leases \cup {Clean}]
  /\ threads \subseteq Threads
  /\ client \in [Clients -> [state : ClientStates, lease : Leases \cup {NoLease}]]
  /\ created \in 0..MaxCreated /\ leased \in 0..MaxLeases
  /\ lost \in 0..MaxLost /\ faults \in 0..MaxFaults

\* The two tables say the same: a lease is valid for exactly one slot, which is
\* in the pool, busy, and knows the lease as its own, so no slot is ever leased
\* to two episodes, whatever closes, replacements and allocations overlap.
LeasesConsistent ==
  /\ \A l \in Leases : leaseToEnv[l] # NoEnv =>
       /\ leaseToEnv[l] \in slots
       /\ busy[leaseToEnv[l]]
       /\ slotLease[leaseToEnv[l]] = l
  /\ \A e \in slots : slotLease[e] # NoLease => leaseToEnv[slotLease[e]] = e

\* A client that holds a lease finds its slot, whatever the reaper and other
\* clients do, and two clients never hold the same lease.
HeldLeaseIsValid ==
  \A c \in Clients : client[c].state \in {"leased", "calling"} =>
    /\ client[c].lease # NoLease /\ leaseToEnv[client[c].lease] \in slots
    /\ \A d \in Clients \ {c} :
         client[d].state \in {"leased", "calling"} => client[d].lease # client[c].lease

\* The pool never holds more than max_envs environments, nor, once prewarmed,
\* fewer than min_envs, through reaping, creation and replacement.
PoolSize == MinEnvs <= Cardinality(slots) /\ Cardinality(slots) <= MaxEnvs

\* An environment is leaked only by a close() that raises (it is logged and the
\* slot given up, env_pool_server.py:103-111 and 226-230): any other one that
\* is alive is in the pool or about to be closed by the thread that replaced
\* it, and what raised in close() is never leased again.
AliveIsAccounted ==
  /\ alive = slots \cup unclosed \cup {t.env : t \in {u \in threads : u.pc = "scrap"}}
  /\ slots \cap unclosed = {}

\* While no response is lost, an operation or a reset never runs on an
\* environment that the reaper or a replacement has closed, or tried to close.
CallsHitLiveEnvs ==
  lost = 0 =>
    \A t \in threads : t.pc \in {"opRun", "resetRun"} => t.env \in alive \ unclosed

\* While no response is lost, a leased environment was touched by nobody but the
\* holder of the lease since its reset (the comment at env_pool_server.py:211: a slot is reserved during
\* the reset so that it is never allocated while dirty).
LeasedEnvIsClean ==
  ResetOnClose /\ lost = 0 =>
    \A e \in slots : slotLease[e] # NoLease => user[e] \in {Clean, slotLease[e]}

\* While no response is lost, every lease has a client that will close it.
NoOrphanLease ==
  lost = 0 => \A l \in Leases : leaseToEnv[l] # NoEnv =>
    \E c \in Clients : client[c].state \in {"leased", "calling"} /\ client[c].lease = l

\* A slot is reserved without a lease only while it is reset or replaced: it
\* can be allocated again in the end (the same comment, line 211).
ReservedSlotReturns ==
  \A e \in Envs :
    (e \in slots /\ busy[e] /\ slotLease[e] = NoLease)
      ~> (e \notin slots \/ ~busy[e] \/ slotLease[e] # NoLease)
=============================================================================
