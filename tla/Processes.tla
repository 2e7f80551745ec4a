----------------------------- MODULE Processes -----------------------------
(***************************************************************************)
(* The processes that share one state directory of the gateway: the        *)
(* gateway itself and commands run beside it.  A process may crash or exit *)
(* and a later one may get the same pid, as it does in a container.        *)
(***************************************************************************)
EXTENDS Integers, FiniteSets

CONSTANTS
  Processes,    \* pids
  Gateways,     \* those that are gateways
  MaxStarts     \* bound: starts of a gateway or a command after the first ones

ASSUME ProcessesAssumption == IsFiniteSet(Processes) /\ Gateways \subseteq Processes
ASSUME BoundsAssumption == MaxStarts \in Nat

VARIABLES
  alive,    \* alive[p]: a process with pid p runs
  life,     \* life[p]: stands for the start time of the latest one
  linux,    \* getProcessStartTime works on this platform
  starts,   \* starts so far, for the bound
  uses,     \* bound: the part of the state directory a behaviour is about
  work      \* acquires or deliveries so far, for the bound

processVars == <<alive, life, linux, starts, uses, work>>

ProcessesInit ==
  /\ alive = [p \in Processes |-> TRUE]
  /\ life = [p \in Processes |-> 1]
  /\ linux \in BOOLEAN
  /\ starts = 0
  /\ uses \in {"locks", "queue"}
  /\ uses = "queue" => linux      \* where the platform makes no difference
  /\ work = 0

\* The two parts share processes and nothing else: they are used one at a time.
Begin(part, most) ==
  /\ uses = part
  /\ work < most
  /\ work' = work + 1
  /\ UNCHANGED <<alive, life, linux, starts, uses>>

Dies(p) ==
  /\ alive[p]
  /\ alive' = [alive EXCEPT ![p] = FALSE]
  /\ UNCHANGED <<life, linux, starts, uses, work>>

\* A new process with pid p.
Starts(p) ==
  /\ ~alive[p]
  /\ starts < MaxStarts
  /\ starts' = starts + 1
  /\ alive' = [alive EXCEPT ![p] = TRUE]
  /\ life' = [life EXCEPT ![p] = @ + 1]
  /\ UNCHANGED <<linux, uses, work>>

\* The in-process restart of a gateway (src/cli/gateway-cli/run-loop.ts).
Restarts(p) ==
  /\ p \in Gateways
  /\ alive[p]
  /\ starts < MaxStarts
  /\ starts' = starts + 1
  /\ UNCHANGED <<alive, life, linux, uses, work>>
=============================================================================
