--------------------------- MODULE DeliveryQueue ---------------------------
(***************************************************************************)
(* The write-ahead queue of outbound messages, of                          *)
(* src/infra/outbound/delivery-queue.ts and deliver.ts of the gateway.  A  *)
(* delivery writes an entry, sends the message and removes the entry; a    *)
(* starting gateway lists and loads the entries it finds and sends them    *)
(* again, in the background, while new deliveries go on.  A live delivery  *)
(* and a recovery pass are both attempts: sending, removing and rewriting  *)
(* the entry are steps of their own, and a crash may come between any two. *)
(* Payloads, channels and hooks are left out; the legacy entries that      *)
(* loadPendingDeliveries migrates are not modelled.                        *)
(***************************************************************************)
EXTENDS Processes

CONSTANTS
  Messages,
  BestEffort,   \* messages whose payload errors do not throw
  Observed,     \* messages whose caller passes onError
  MaxRetries,   \* MAX_RETRIES
  MaxDeliveries,\* bound: live deliveries
  MaxPasses,    \* bound: recovery passes
  MaxAttempts,  \* bound: live deliveries, entries of an earlier gateway and passes
  Nobody        \* no process, no message

ASSUME MessagesAssumption ==
  IsFiniteSet(Messages) /\ BestEffort \subseteq Messages /\ Observed \subseteq Messages
ASSUME RetriesAssumption == MaxRetries \in Nat
ASSUME AttemptsAssumption ==
  MaxDeliveries \in Nat /\ MaxPasses \in Nat /\ MaxAttempts \in Nat
ASSUME ActorsAssumption == Messages \cap Nat = {} /\ Nobody \notin Processes \cup Messages

Passes == 1..MaxPasses
Actors == Messages \cup Passes     \* the live delivery of m is called m

NoEntry == [retry |-> -1, tried |-> FALSE]
Entries == {NoEntry} \cup [retry : Nat, tried : BOOLEAN]
Steps == {"idle", "sending", "acking", "failing", "writing", "parking", "done",
          "listing", "loading"}

VARIABLES
  entry,      \* entry[m]: <id>.json with retryCount and whether lastAttemptAt is set
  failedDir,  \* failed/
  accepted,   \* messages whose entry was written
  step,       \* step[a]: where an attempt is, or the pass between two of them
  host,       \* host[a]: the process a runs in
  target,     \* target[r]: the message pass r attempts
  read,       \* read[a]: the entry as failDelivery has read it
  files,      \* files[r]: messages whose entries pass r has listed and not read
  todo,       \* todo[r]: entries pass r has loaded and not dealt with
  passes,     \* passes so far
  arrivals,   \* history: sends of m that reached the channel: none, 1 or more (2)
  delivered,  \* history: messages a send reported as done
  dropped,    \* history: aborted by the caller, or failed under bestEffort
  excused     \* history: messages that may arrive twice

deliveryVars == <<entry, failedDir, accepted, step, host, target, read, files, todo, passes,
                  arrivals, delivered, dropped, excused>>

\* An earlier gateway may have left entries behind, and one of those that run
\* may have just started.
DeliveryInit ==
  /\ \E earlier \in SUBSET Messages, first \in Gateways \cup {Nobody} :
       /\ uses # "queue" => earlier = {} /\ first = Nobody
       /\ accepted = earlier
       /\ passes = IF first = Nobody THEN 0 ELSE 1
       /\ passes <= MaxPasses
       /\ Cardinality(earlier) + passes <= MaxAttempts
       /\ host = [a \in Actors |-> IF a = passes THEN first ELSE Nobody]
       /\ step = [a \in Actors |-> IF a = passes THEN "listing"
                                 ELSE IF a \in earlier THEN "done" ELSE "idle"]
       /\ \E n \in 0..MaxRetries :
            entry = [m \in Messages |-> IF m \in earlier THEN [retry |-> n, tried |-> n > 0]
                                                         ELSE NoEntry]
  /\ failedDir = {}
  /\ target = [r \in Passes |-> Nobody]
  /\ read = [a \in Actors |-> NoEntry]
  /\ files = [r \in Passes |-> {}]
  /\ todo = [r \in Passes |-> {}]
  /\ arrivals = [m \in Messages |-> 0]
  /\ delivered = {}
  /\ dropped = {}
  /\ excused = {}

Attempting == {"sending", "acking", "failing", "writing", "parking"}
MessageOf(a) == IF a \in Messages THEN a ELSE target[a]
Begun == Cardinality({m \in Messages : step[m] # "idle"}) + passes
AttemptsAt(m) == {a \in Actors : step[a] \in Attempting /\ MessageOf(a) = m}

\* An attempt ends: a delivery is over, a pass goes on.
AttemptEnds(a) ==
  /\ step' = [step EXCEPT ![a] = IF a \in Messages THEN "done" ELSE "idle"]
  /\ target' = [r \in Passes |-> IF r = a THEN Nobody ELSE target[r]]
  /\ host' = IF a \in Messages THEN [host EXCEPT ![a] = Nobody] ELSE host

-----------------------------------------------------------------------------
(* deliverOutboundPayloads *)

\* enqueueDelivery; a failure to write is ignored and the message sent without
\* an entry.
Deliver(m, p) ==
  /\ step[m] = "idle"
  /\ Begun < MaxAttempts
  /\ Begin("queue", MaxDeliveries)
  /\ host' = [host EXCEPT ![m] = p]
  /\ step' = [step EXCEPT ![m] = "sending"]
  /\ \/ /\ entry' = [entry EXCEPT ![m] = [retry |-> 0, tried |-> FALSE]]
        /\ accepted' = accepted \cup {m}
     \/ UNCHANGED <<entry, accepted>>
  /\ UNCHANGED <<failedDir, target, read, files, todo, passes, arrivals, delivered, dropped,
                 excused>>

\* deliverOutboundPayloadsCore: none, part or all of the payloads reach the
\* channel, and it returns or throws.  Under bestEffort an error on a payload
\* does not throw but goes to onError, which a recovery pass does not set; an
\* error may still throw before the first payload or, after the last and
\* whichever of them failed, when the mirror transcript is written.  Only a
\* live delivery has an abort signal.
Send(a, got, ends) ==
  LET m == MessageOf(a)
      live == a \in Messages
      noticed == \/ ends = "threw"
                 \/ ends = "returned" /\ got # "all" /\ live /\ m \in Observed
  IN
  /\ step[a] = "sending"
  /\ got # "all" /\ ends = "returned" => m \in BestEffort
  /\ ends = "aborted" => live /\ got # "all" /\ m \notin BestEffort
  /\ arrivals' = [arrivals EXCEPT ![m] = IF got = "none" \/ @ = 2 THEN @ ELSE @ + 1]
  /\ delivered' = IF got = "all" THEN delivered \cup {m} ELSE delivered
  /\ dropped' = IF got # "all" /\ ~noticed THEN dropped \cup {m} ELSE dropped
  /\ excused' = IF got # "none" /\ noticed THEN excused \cup {m} ELSE excused
  /\ \/ live /\ m \notin accepted /\ AttemptEnds(a)
     \/ /\ ~live \/ m \in accepted
        /\ step' = [step EXCEPT ![a] = IF noticed THEN "failing" ELSE "acking"]
        /\ UNCHANGED <<target, host>>
     \/ /\ ~live /\ ends = "threw"      \* isPermanentDeliveryError
        /\ step' = [step EXCEPT ![a] = "parking"]
        /\ UNCHANGED <<target, host>>
  /\ UNCHANGED <<entry, failedDir, accepted, read, files, todo, passes>>

\* Mutant of Ack: the entry stays.
AckForgotten(a) ==
  /\ step[a] = "acking"
  /\ AttemptEnds(a)
  /\ UNCHANGED <<entry, failedDir, accepted, read, files, todo, passes, arrivals,
                 delivered, dropped, excused>>

\* ackDelivery.  An unlink that fails is ignored by a delivery; a pass takes it
\* for an error of the message.
Ack(a) ==
  /\ step[a] = "acking"
  /\ \/ /\ entry' = [entry EXCEPT ![MessageOf(a)] = NoEntry]
        /\ AttemptEnds(a)
        /\ UNCHANGED excused
     \/ /\ UNCHANGED entry
        /\ excused' = excused \cup {MessageOf(a)}
        /\ IF a \in Messages THEN AttemptEnds(a)
           ELSE step' = [step EXCEPT ![a] = "failing"] /\ UNCHANGED <<target, host>>
  /\ UNCHANGED <<failedDir, accepted, read, files, todo, passes, arrivals,
                 delivered, dropped>>

\* failDelivery reads the entry, which may be gone, ...
FailRead(a) ==
  LET found == entry[MessageOf(a)] # NoEntry IN
  /\ step[a] = "failing"
  /\ IF found THEN step' = [step EXCEPT ![a] = "writing"] /\ UNCHANGED <<target, host>>
              ELSE AttemptEnds(a)
  /\ read' = [read EXCEPT ![a] = entry[MessageOf(a)]]
  /\ UNCHANGED <<entry, failedDir, accepted, files, todo, passes, arrivals,
                 delivered, dropped, excused>>

\* ... and renames the rewritten file over it, or back into the queue if the
\* entry was removed meanwhile; an error is ignored.
FailWrite(a) ==
  LET m == MessageOf(a) IN
  /\ step[a] = "writing"
  /\ \/ entry' = [entry EXCEPT ![m] = [retry |-> read[a].retry + 1, tried |-> TRUE]]
     \/ UNCHANGED entry
  /\ excused' = IF entry[m] = NoEntry THEN excused \cup {m} ELSE excused
  /\ AttemptEnds(a)
  /\ read' = [read EXCEPT ![a] = NoEntry]
  /\ UNCHANGED <<failedDir, accepted, files, todo, passes, arrivals, delivered,
                 dropped>>

-----------------------------------------------------------------------------
(* recoverPendingDeliveries *)

\* A gateway starts, and with it a pass in the background.
StartRecovery(p) ==
  LET r == passes + 1 IN
  /\ passes < MaxPasses
  /\ Begun < MaxAttempts
  /\ passes' = r
  /\ host' = [host EXCEPT ![r] = p]
  /\ step' = [step EXCEPT ![r] = "listing"]
  /\ UNCHANGED <<entry, failedDir, accepted, target, read, files, todo, arrivals,
                 delivered, dropped, excused>>

\* loadPendingDeliveries lists the directory, unless that fails, ...
List(r) ==
  /\ step[r] = "listing"
  /\ \E found \in {{}, {m \in Messages : entry[m] # NoEntry}} :
       /\ files' = [files EXCEPT ![r] = found]
       /\ step' = [step EXCEPT ![r] = IF found = {} THEN "idle" ELSE "loading"]
  /\ UNCHANGED <<entry, failedDir, accepted, host, target, read, todo, passes, arrivals,
                 delivered, dropped, excused>>

\* ... and reads one file after the other; an entry that is gone by then, or
\* cannot be read, is skipped.
LoadEntry(r) ==
  /\ step[r] = "loading"
  /\ \E m \in files[r] :
       /\ files' = [files EXCEPT ![r] = @ \ {m}]
       /\ step' = [step EXCEPT ![r] = IF files[r] = {m} THEN "idle" ELSE "loading"]
       /\ \/ entry[m] # NoEntry /\ todo' = [todo EXCEPT ![r] = @ \cup {<<m, entry[m]>>}]
          \/ UNCHANGED todo
  /\ UNCHANGED <<entry, failedDir, accepted, host, target, read, passes, arrivals,
                 delivered, dropped, excused>>

\* The time budget is spent; the rest waits for the next start.
Deadline(r) ==
  /\ step[r] = "idle"
  /\ todo[r] # {}
  /\ todo' = [todo EXCEPT ![r] = {}]
  /\ UNCHANGED <<entry, failedDir, accepted, step, host, target, read, files, passes,
                 arrivals, delivered, dropped, excused>>

\* The next entry, as it was loaded: it has used up its retries and goes to
\* failed/, or its backoff has not elapsed, or it is attempted.  The first
\* replay after a crash does not wait.  The oldest is next, whichever it is.
NextEntry(r) ==
  /\ step[r] = "idle"
  /\ \E loaded \in todo[r] :
       LET m == loaded[1]
           e == loaded[2]
       IN
       /\ todo' = [todo EXCEPT ![r] = @ \ {loaded}]
       /\ \/ /\ e.retry >= MaxRetries
             /\ step' = [step EXCEPT ![r] = "parking"]
             /\ target' = [target EXCEPT ![r] = m]
             /\ UNCHANGED excused
          \/ /\ e.retry < MaxRetries
             /\ e.tried
             /\ UNCHANGED <<step, target, excused>>
          \/ /\ e.retry < MaxRetries
             /\ step' = [step EXCEPT ![r] = "sending"]
             /\ target' = [target EXCEPT ![r] = m]
             /\ excused' = IF entry[m] # e \/ AttemptsAt(m) # {} THEN excused \cup {m}
                                                               ELSE excused
  /\ UNCHANGED <<entry, failedDir, accepted, host, read, files, passes, arrivals, delivered,
                 dropped>>

\* Mutant of MoveToFailed: the entry is removed instead of renamed.
MoveToFailedRemoves(r) ==
  /\ step[r] = "parking"
  /\ AttemptEnds(r)
  /\ entry' = [entry EXCEPT ![target[r]] = NoEntry]
  /\ UNCHANGED <<failedDir, accepted, read, files, todo, passes, arrivals, delivered, dropped,
                 excused>>

\* moveToFailed; an error, as when the entry is gone, is logged.
MoveToFailed(r) ==
  LET m == target[r] IN
  /\ step[r] = "parking"
  /\ AttemptEnds(r)
  /\ \/ /\ entry[m] # NoEntry
        /\ entry' = [entry EXCEPT ![m] = NoEntry]
        /\ failedDir' = failedDir \cup {m}
     \/ UNCHANGED <<entry, failedDir>>
  /\ UNCHANGED <<accepted, read, files, todo, passes, arrivals, delivered, dropped, excused>>

-----------------------------------------------------------------------------

DeliveryStep(p) ==
  \E a \in Actors :
    /\ host[a] = p
    /\ \/ \E got \in {"none", "part", "all"}, ends \in {"returned", "threw", "aborted"} :
            Send(a, got, ends)
       \/ Ack(a)
       \/ FailRead(a)
       \/ FailWrite(a)
       \/ (a \in Passes /\ (List(a) \/ LoadEntry(a) \/ Deadline(a) \/ NextEntry(a)
                           \/ MoveToFailed(a)))

\* Process p is gone with its attempts; what they sent was sent.
DeliveryCrash(p) ==
  LET lost == {a \in Actors : host[a] = p} IN
  /\ step' = [a \in Actors |-> IF a \in lost THEN "done" ELSE step[a]]
  /\ read' = [a \in Actors |-> IF a \in lost THEN NoEntry ELSE read[a]]
  /\ target' = [r \in Passes |-> IF r \in lost THEN Nobody ELSE target[r]]
  /\ host' = [a \in Actors |-> IF a \in lost THEN Nobody ELSE host[a]]
  /\ files' = [r \in Passes |-> IF r \in lost THEN {} ELSE files[r]]
  /\ todo' = [r \in Passes |-> IF r \in lost THEN {} ELSE todo[r]]
  /\ excused' = excused \cup
       {MessageOf(a) : a \in {b \in lost : step[b] \in Attempting \ {"sending"}}}
  /\ UNCHANGED <<entry, failedDir, accepted, passes, arrivals, delivered, dropped>>

-----------------------------------------------------------------------------
(* Properties *)

\* The state has its types, and the queue forgets nothing: a message whose
\* entry was written and is gone was delivered, or is kept in failed/, or its
\* caller aborted it, or it was a bestEffort message that failed without
\* anybody to notice, whatever crashed and whoever raced with whom.
NothingForgotten ==
  /\ entry \in [Messages -> Entries]
  /\ step \in [Actors -> Steps]
  /\ \A m \in accepted :
       entry[m] = NoEntry => m \in delivered \cup failedDir \cup dropped
  /\ \A m \in dropped : m \in BestEffort \/ step[m] \in {"acking", "done"}

\* A message reaches its channel twice only if an attempt failed after part of
\* it was out, a process died between sending and removing the entry, the
\* entry could not be removed, or two attempts met: a recovery pass took up an
\* entry that another attempt was busy with or had dealt with since the load.
DuplicatesExcused ==
  \A m \in Messages : arrivals[m] > 1 => m \in excused
=============================================================================
