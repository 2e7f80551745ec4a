---------------------------- MODULE GatewayState ----------------------------
(***************************************************************************)
(* The state directory of the gateway under crashes and restarts: what the *)
(* processes keep in it are the lock files of sessions (SessionLock) and   *)
(* the delivery queue (DeliveryQueue).  A process that dies takes its      *)
(* memory along and leaves the files; a gateway that starts cleans stale   *)
(* lock files and recovers pending deliveries beside its new work          *)
(* (src/gateway/server-startup.ts:53, src/gateway/server.impl.ts:705).     *)
(***************************************************************************)
EXTENDS SessionLock, DeliveryQueue

vars == <<processVars, lockVars, deliveryVars>>

Init == ProcessesInit /\ LockInit /\ DeliveryInit

LockTurn(p) ==
  /\ UNCHANGED deliveryVars
  /\ \/ (LockStep(p) /\ UNCHANGED processVars)
     \/ \E t \in TasksOf(p), allowReentrant \in BOOLEAN : Acquire(t, allowReentrant)

DeliveryTurn(p) ==
  /\ UNCHANGED lockVars
  /\ \/ (DeliveryStep(p) /\ UNCHANGED processVars)
     \/ \E m \in Messages : Deliver(m, p)

\* The process is killed, or leaves through process.exit().
Crash(p) == Dies(p) /\ DeliveryCrash(p) /\ LockCrash(p)
Exit(p) == Dies(p) /\ DeliveryCrash(p) /\ LockExit(p)

\* A gateway starts, in a new process or, once its start-up cleanup is over,
\* in the old one; a command starts.  A start leaves the part of the state
\* directory alone that the behaviour is not about.
StartGateway(p) ==
  /\ p \in Gateways
  /\ Starts(p) \/ (sweep[p].at = "over" /\ Restarts(p))
  /\ IF uses = "queue" THEN StartRecovery(p) /\ UNCHANGED lockVars
                       ELSE LockStart(p) /\ UNCHANGED deliveryVars
StartCommand(p) ==
  /\ p \notin Gateways
  /\ Starts(p)
  /\ UNCHANGED <<lockVars, deliveryVars>>

Next ==
  \/ \E p \in Processes : alive[p] /\ (LockTurn(p) \/ DeliveryTurn(p) \/ Crash(p) \/ Exit(p))
  \/ \E p \in Processes : StartGateway(p) \/ StartCommand(p)
  \/ (Age /\ UNCHANGED <<processVars, deliveryVars>>)

Spec == Init /\ [][Next]_vars
=============================================================================
