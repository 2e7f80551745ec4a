------------------------ MODULE DeliveryQueue_proofs ------------------------
(***************************************************************************)
(* The proof that the delivery queue forgets nothing, for any messages and *)
(* processes and any number of retries, recovery passes, crashes and       *)
(* restarts.  The invariant Remembered adds what makes NothingForgotten    *)
(* inductive: an attempt removes an entry only when its send was reported  *)
(* as done or given up (Decided), a pass that is busy has a message        *)
(* (Aimed), a failure rewrites an entry it has really read (HasRead), and a *)
(* pass that has not begun has nothing to do (Unbegun).                    *)
(***************************************************************************)
EXTENDS GatewayState, FiniteSetTheorems, TLAPS

Loaded == Messages \X (Entries \ {NoEntry})

QueueTypeOK ==
  /\ entry \in [Messages -> Entries]
  /\ step \in [Actors -> Steps]
  /\ target \in [Passes -> Messages \cup {Nobody}]
  /\ read \in [Actors -> Entries]
  /\ files \in [Passes -> SUBSET Messages]
  /\ todo \in [Passes -> SUBSET Loaded]
  /\ passes \in Nat
  /\ dropped \subseteq Messages

Decided == \A a \in Actors : step[a] = "acking" => MessageOf(a) \in delivered \cup dropped

Aimed == \A r \in Passes : step[r] \in Attempting => target[r] \in Messages

HasRead == \A a \in Actors : step[a] = "writing" => read[a] # NoEntry

Unbegun == \A r \in Passes : r > passes => step[r] \in {"idle", "done"} /\ todo[r] = {}

Remembered ==
  /\ QueueTypeOK
  /\ NothingForgotten
  /\ Decided
  /\ Aimed
  /\ HasRead
  /\ Unbegun

-----------------------------------------------------------------------------
(* Messages, passes and entries *)

\* An attempt is a live delivery or a pass, never both.
LEMMA ActorKinds == Passes \cap Messages = {} /\ Passes \subseteq Nat
BY ActorsAssumption, AttemptsAssumption DEF Passes

\* An entry that is there has a number of retries.
LEMMA EntryKinds ==
  ASSUME NEW e \in Entries, e # NoEntry
  PROVE  e.retry \in Nat
BY DEF Entries, NoEntry

\* A rewritten entry is an entry and is there.
LEMMA Rewritten ==
  ASSUME NEW n \in Nat, NEW tried \in BOOLEAN
  PROVE  [retry |-> n, tried |-> tried] \in Entries \ {NoEntry}
<1>1. [retry |-> n, tried |-> tried].retry = n
  OBVIOUS
<1>2. NoEntry.retry = -1
  BY DEF NoEntry
<1>3. [retry |-> n, tried |-> tried] # NoEntry
  BY <1>1, <1>2
<1>4. QED
  BY <1>3 DEF Entries

\* Whoever is busy is busy with a message.
LEMMA BusyWith ==
  ASSUME QueueTypeOK, Aimed, NEW a \in Actors, step[a] \in Attempting
  PROVE  MessageOf(a) \in Messages
BY DEF MessageOf, Aimed, Actors

-----------------------------------------------------------------------------
(* The invariant holds at the start and is preserved *)

LEMMA RememberedInit == Init => Remembered
<1> SUFFICES ASSUME Init PROVE Remembered
  OBVIOUS
<1> USE DEF Init, DeliveryInit
<1>1. PICK earlier \in SUBSET Messages, first \in Gateways \cup {Nobody} :
        /\ accepted = earlier
        /\ passes = IF first = Nobody THEN 0 ELSE 1
        /\ step = [a \in Actors |-> IF a = passes THEN "listing"
                                  ELSE IF a \in earlier THEN "done" ELSE "idle"]
        /\ \E n \in 0..MaxRetries :
             entry = [m \in Messages |-> IF m \in earlier THEN [retry |-> n, tried |-> n > 0]
                                                          ELSE NoEntry]
  OBVIOUS
<1>2. PICK n \in 0..MaxRetries :
        entry = [m \in Messages |-> IF m \in earlier THEN [retry |-> n, tried |-> n > 0]
                                                     ELSE NoEntry]
  BY <1>1
<1>3. [retry |-> n, tried |-> n > 0] \in Entries \ {NoEntry}
  <2>1. n \in Nat /\ (n > 0) \in BOOLEAN
    BY <1>2, RetriesAssumption
  <2>2. QED
    BY <2>1, Rewritten
<1>4. NoEntry \in Entries
  BY DEF Entries
<1>5. QueueTypeOK
  BY <1>1, <1>2, <1>3, <1>4 DEF QueueTypeOK, Steps
<1>6. \A a \in Actors : step[a] \in {"idle", "done", "listing"}
  BY <1>1
<1>7. Decided /\ Aimed /\ HasRead
  <2>1. \A a \in Actors : step[a] \notin Attempting
    BY <1>6 DEF Attempting
  <2>2. Passes \subseteq Actors
    BY DEF Actors
  <2>3. QED
    BY <2>1, <2>2 DEF Decided, Aimed, HasRead, Attempting
<1>8. \A m \in accepted : entry[m] # NoEntry
  BY <1>1, <1>2, <1>3
<1>9. NothingForgotten
  BY <1>5, <1>8 DEF NothingForgotten, QueueTypeOK
<1>10. Unbegun
  <2> SUFFICES ASSUME NEW r \in Passes, r > passes
               PROVE  step[r] \in {"idle", "done"} /\ todo[r] = {}
    BY DEF Unbegun
  <2>1. r \in Actors /\ r # passes
    BY <1>1, ActorKinds DEF Actors
  <2>2. QED
    BY <1>1, <2>1
<1>11. QED
  BY <1>5, <1>7, <1>9, <1>10 DEF Remembered

LEMMA DeliverStep ==
  ASSUME Remembered, NEW m \in Messages, NEW p \in Processes, Deliver(m, p)
  PROVE  Remembered'
<1> USE ActorKinds
<1>1. m \in Actors /\ step[m] = "idle"
  BY DEF Deliver, Actors
<1>2. step' = [step EXCEPT ![m] = "sending"]
  BY DEF Deliver
<1>3. \/ entry' = [entry EXCEPT ![m] = [retry |-> 0, tried |-> FALSE]] /\ accepted' = accepted \cup {m}
      \/ UNCHANGED <<entry, accepted>>
  BY DEF Deliver
<1>4. UNCHANGED <<failedDir, target, read, files, todo, passes, delivered, dropped>>
  BY DEF Deliver
<1>5. [retry |-> 0, tried |-> FALSE] \in Entries \ {NoEntry}
  BY Rewritten
<1>6. QueueTypeOK'
  BY <1>1, <1>2, <1>3, <1>4, <1>5 DEF Remembered, QueueTypeOK, Steps
<1>7. NothingForgotten'
  <2>1. \A k \in accepted' : entry'[k] = NoEntry => k \in accepted /\ entry[k] = NoEntry
    <3>1. CASE entry' = [entry EXCEPT ![m] = [retry |-> 0, tried |-> FALSE]] /\ accepted' = accepted \cup {m}
      <4>1. entry'[m] # NoEntry
        BY <1>5, <3>1 DEF Remembered, QueueTypeOK
      <4>2. \A k : k # m => entry'[k] = entry[k]
        BY <3>1 DEF Remembered, QueueTypeOK
      <4>3. QED
        BY <3>1, <4>1, <4>2
    <3>2. CASE UNCHANGED <<entry, accepted>>
      BY <3>2
    <3>3. QED
      BY <1>3, <3>1, <3>2
  <2>2. \A k \in dropped' : k \in BestEffort \/ step'[k] \in {"acking", "done"}
    BY <1>1, <1>2, <1>4, MessagesAssumption DEF Remembered, NothingForgotten, QueueTypeOK
  <2>3. QED
    BY <1>4, <1>6, <2>1, <2>2 DEF Remembered, NothingForgotten, QueueTypeOK
<1>8. Decided' /\ Aimed' /\ HasRead'
  BY <1>1, <1>2, <1>4 DEF Remembered, QueueTypeOK, Decided, Aimed, HasRead, MessageOf, Attempting
<1>9. Unbegun'
  BY <1>1, <1>2, <1>4 DEF Remembered, QueueTypeOK, Unbegun, Actors
<1>10. QED
  BY <1>6, <1>7, <1>8, <1>9 DEF Remembered

\* Where an attempt goes on or ends: nothing else of the attempts changes.
LEMMA Moves ==
  ASSUME Remembered, NEW a \in Actors, step[a] \in Attempting,
         NEW s \in Attempting,
         \/ AttemptEnds(a)
         \/ step' = [step EXCEPT ![a] = s] /\ UNCHANGED target
  PROVE  /\ step' \in [Actors -> Steps]
         /\ target' \in [Passes -> Messages \cup {Nobody}]
         /\ \A b \in Actors \ {a} : step'[b] = step[b]
         /\ \A b \in Actors \ {a} : MessageOf(b)' = MessageOf(b)
         /\ step'[a] \in Attempting => step'[a] = s /\ MessageOf(a)' = MessageOf(a)
         /\ step'[a] \notin Attempting => step'[a] = IF a \in Messages THEN "done" ELSE "idle"
         /\ Aimed'
<1> USE ActorKinds
<1>1. step \in [Actors -> Steps] /\ target \in [Passes -> Messages \cup {Nobody}]
  BY DEF Remembered, QueueTypeOK
<1>2. CASE AttemptEnds(a)
  <2>1. step' = [step EXCEPT ![a] = IF a \in Messages THEN "done" ELSE "idle"]
    BY <1>2 DEF AttemptEnds
  <2>2. target' = [r \in Passes |-> IF r = a THEN Nobody ELSE target[r]]
    BY <1>2 DEF AttemptEnds
  <2>3. step' \in [Actors -> Steps] /\ target' \in [Passes -> Messages \cup {Nobody}]
    BY <1>1, <2>1, <2>2 DEF Steps
  <2>4. step'[a] = (IF a \in Messages THEN "done" ELSE "idle") /\ step'[a] \notin Attempting
    BY <1>1, <2>1 DEF Attempting
  <2>5. \A b \in Actors \ {a} : step'[b] = step[b]
    BY <1>1, <2>1
  <2>6. \A b \in Actors \ {a} : MessageOf(b)' = MessageOf(b)
    BY <1>1, <2>2 DEF MessageOf, Actors
  <2>7. Aimed'
    BY <1>1, <2>2, <2>4, <2>5 DEF Remembered, Aimed, Actors
  <2>8. QED
    BY <2>3, <2>4, <2>5, <2>6, <2>7
<1>3. CASE step' = [step EXCEPT ![a] = s] /\ UNCHANGED target
  <2>1. step'[a] = s
    BY <1>1, <1>3
  <2>2. \A b \in Actors \ {a} : step'[b] = step[b]
    BY <1>1, <1>3
  <2>3. \A b \in Actors : MessageOf(b)' = MessageOf(b)
    BY <1>3 DEF MessageOf
  <2>4. step' \in [Actors -> Steps]
    BY <1>1, <1>3 DEF Steps, Attempting
  <2>5. Aimed'
    BY <1>3, <2>1, <2>2 DEF Remembered, Aimed, Actors
  <2>6. QED
    BY <1>1, <1>3, <2>1, <2>2, <2>3, <2>4, <2>5
<1>4. QED
  BY <1>2, <1>3

\* A step of an attempt that leaves the entries alone, forgets no decision and
\* gives up on nobody else's message keeps the invariant.
LEMMA MovesOn ==
  ASSUME Remembered, NEW a \in Actors, step[a] \in Attempting,
         NEW s \in Attempting,
         \/ AttemptEnds(a)
         \/ step' = [step EXCEPT ![a] = s] /\ UNCHANGED target,
         UNCHANGED <<entry, failedDir, accepted, files, todo, passes>>,
         read' \in [Actors -> Entries],
         \A b \in Actors \ {a} : read'[b] = read[b],
         delivered \subseteq delivered', dropped \subseteq dropped',
         step'[a] = "acking" => MessageOf(a) \in delivered' \cup dropped',
         step'[a] = "writing" => read'[a] # NoEntry,
         dropped' \subseteq Messages,
         \A m \in dropped' \ dropped :
           m \in BestEffort \/ (m = a /\ step'[m] \in {"acking", "done"}),
         a \in Messages => a \in BestEffort \/ a \notin dropped \/ step'[a] \in {"acking", "done"}
  PROVE  Remembered'
<1> USE ActorKinds
<1>1. /\ step' \in [Actors -> Steps]
      /\ target' \in [Passes -> Messages \cup {Nobody}]
      /\ \A b \in Actors \ {a} : step'[b] = step[b]
      /\ \A b \in Actors \ {a} : MessageOf(b)' = MessageOf(b)
      /\ step'[a] \in Attempting => step'[a] = s /\ MessageOf(a)' = MessageOf(a)
      /\ Aimed'
  BY Moves
<1>2. QueueTypeOK'
  BY <1>1 DEF Remembered, QueueTypeOK
<1>3. Decided'
  BY <1>1 DEF Remembered, Decided, Attempting
<1>4. HasRead'
  BY <1>1 DEF Remembered, HasRead
<1>5. \A m \in dropped' : m \in BestEffort \/ step'[m] \in {"acking", "done"}
  <2> SUFFICES ASSUME NEW m \in dropped', m \notin BestEffort
               PROVE  step'[m] \in {"acking", "done"}
    OBVIOUS
  <2>1. CASE m \notin dropped
    BY <2>1
  <2>2. CASE m \in dropped
    <3>1. step[m] \in {"acking", "done"}
      BY <2>2 DEF Remembered, NothingForgotten
    <3>2. m \in Messages /\ m \in Actors
      BY DEF Actors
    <3>3. QED
      BY <1>1, <2>2, <3>1, <3>2
  <2>3. QED
    BY <2>1, <2>2
<1>6. NothingForgotten'
  BY <1>1, <1>5 DEF Remembered, NothingForgotten
<1>7. Unbegun'
  BY <1>1 DEF Remembered, Unbegun, Actors, Attempting
<1>8. QED
  BY <1>1, <1>2, <1>3, <1>4, <1>6, <1>7 DEF Remembered

LEMMA SendStep ==
  ASSUME Remembered, NEW a \in Actors, NEW got \in {"none", "part", "all"},
         NEW ends \in {"returned", "threw", "aborted"}, Send(a, got, ends)
  PROVE  Remembered'
<1> USE ActorKinds
<1> DEFINE m == MessageOf(a)
           live == a \in Messages
           noticed == \/ ends = "threw"
                      \/ ends = "returned" /\ got # "all" /\ live /\ m \in Observed
<1>1. /\ step[a] = "sending"
      /\ got # "all" /\ ends = "returned" => m \in BestEffort
      /\ ends = "aborted" => live
      /\ delivered' = IF got = "all" THEN delivered \cup {m} ELSE delivered
      /\ dropped' = IF got # "all" /\ ~noticed THEN dropped \cup {m} ELSE dropped
      /\ \/ live /\ AttemptEnds(a)
         \/ step' = [step EXCEPT ![a] = IF noticed THEN "failing" ELSE "acking"] /\ UNCHANGED target
         \/ ~live /\ ends = "threw" /\ step' = [step EXCEPT ![a] = "parking"] /\ UNCHANGED target
      /\ UNCHANGED <<entry, failedDir, accepted, read, files, todo, passes>>
  BY DEF Send
<1>2. step[a] \in Attempting /\ m \in Messages
  BY <1>1, BusyWith DEF Attempting, Remembered
<1>3. live => m = a
  BY DEF MessageOf
<1>4. \E s \in Attempting :
        /\ \/ AttemptEnds(a)
           \/ step' = [step EXCEPT ![a] = s] /\ UNCHANGED target
        /\ s \in {"failing", "acking", "parking"}
        /\ s = "acking" => ~noticed
        /\ s = "parking" => noticed
        /\ live => AttemptEnds(a) \/ s = IF noticed THEN "failing" ELSE "acking"
  <2> USE DEF Attempting
  <2> HIDE DEF m, live, noticed
  <2>1. CASE live /\ AttemptEnds(a)
    <3>1. WITNESS "failing" \in Attempting
    <3>2. QED
      BY <2>1
  <2>2. CASE /\ step' = [step EXCEPT ![a] = IF noticed THEN "failing" ELSE "acking"]
             /\ UNCHANGED target
    <3>1. WITNESS (IF noticed THEN "failing" ELSE "acking") \in Attempting
    <3>2. QED
      BY <2>2
  <2>3. CASE ~live /\ ends = "threw" /\ step' = [step EXCEPT ![a] = "parking"] /\ UNCHANGED target
    <3>1. WITNESS "parking" \in Attempting
    <3>2. QED
      BY <2>3 DEF noticed
  <2>4. QED
    BY <1>1, <2>1, <2>2, <2>3
<1>5. PICK s \in Attempting :
        /\ \/ AttemptEnds(a)
           \/ step' = [step EXCEPT ![a] = s] /\ UNCHANGED target
        /\ s \in {"failing", "acking", "parking"}
        /\ s = "acking" => ~noticed
        /\ s = "parking" => noticed
        /\ live => AttemptEnds(a) \/ s = IF noticed THEN "failing" ELSE "acking"
  BY <1>4
<1>6. /\ step'[a] \in Attempting => step'[a] = s
      /\ step'[a] \notin Attempting => step'[a] = IF live THEN "done" ELSE "idle"
      /\ live => step'[a] = "done" \/ step'[a] = IF noticed THEN "failing" ELSE "acking"
  <2>1. /\ step'[a] \in Attempting => step'[a] = s
        /\ step'[a] \notin Attempting => step'[a] = IF live THEN "done" ELSE "idle"
    BY <1>2, <1>5, Moves
  <2>2. CASE AttemptEnds(a)
    <3>1. step'[a] = IF live THEN "done" ELSE "idle"
      BY <2>2 DEF AttemptEnds, Remembered, QueueTypeOK
    <3>2. QED
      BY <2>1, <3>1
  <2>3. CASE step' = [step EXCEPT ![a] = s] /\ UNCHANGED target
    <3>1. step'[a] = s
      BY <2>3 DEF Remembered, QueueTypeOK
    <3>2. CASE live
      <4>1. AttemptEnds(a) \/ s = IF noticed THEN "failing" ELSE "acking"
        BY <1>5, <3>2
      <4>2. QED
        BY <2>1, <2>2, <3>1, <3>2, <4>1
    <3>3. QED
      BY <2>1, <3>2
  <2>4. QED
    BY <1>5, <2>2, <2>3
<1>7. step'[a] = "acking" => m \in delivered' \cup dropped'
  <2>1. step'[a] = "acking" => ~noticed
    BY <1>5, <1>6 DEF Attempting
  <2>2. QED
    BY <1>1, <2>1
<1>8. step'[a] # "writing"
  BY <1>5, <1>6 DEF Attempting
<1>9. \A k \in dropped' \ dropped :
        k \in BestEffort \/ (k = a /\ step'[k] \in {"acking", "done"})
  <2> SUFFICES ASSUME NEW k \in dropped' \ dropped, k \notin BestEffort
               PROVE  k = a /\ step'[k] \in {"acking", "done"}
    OBVIOUS
  <2>1. k = m /\ got # "all" /\ ~noticed
    BY <1>1
  <2>2. ends = "aborted" /\ live
    BY <1>1, <2>1
  <2>3. QED
    BY <1>3, <1>6, <2>1, <2>2
<1>10. live => a \in BestEffort \/ a \notin dropped \/ step'[a] \in {"acking", "done"}
  <2>1. a \in dropped => a \in BestEffort \/ step[a] \in {"acking", "done"}
    BY DEF Remembered, NothingForgotten
  <2>2. QED
    BY <1>1, <2>1
<1>11. read' \in [Actors -> Entries] /\ \A b \in Actors \ {a} : read'[b] = read[b]
  BY <1>1 DEF Remembered, QueueTypeOK
<1>12. dropped' \subseteq Messages /\ delivered \subseteq delivered' /\ dropped \subseteq dropped'
  BY <1>1, <1>2 DEF Remembered, QueueTypeOK
<1>13. UNCHANGED <<entry, failedDir, accepted, files, todo, passes>>
  BY <1>1
<1> HIDE DEF m, live, noticed
<1>14. \/ AttemptEnds(a)
       \/ step' = [step EXCEPT ![a] = s] /\ UNCHANGED target
  BY <1>5
<1>15. QED
  BY <1>2, <1>7, <1>8, <1>9, <1>10, <1>11, <1>12, <1>13, <1>14, MovesOn DEF m, live

\* What removes or rewrites the entry of the message of an attempt that ends.
LEMMA EntryChanges ==
  ASSUME Remembered, NEW a \in Actors, step[a] \in Attempting, AttemptEnds(a),
         NEW e \in Entries, entry' = [entry EXCEPT ![MessageOf(a)] = e],
         failedDir \subseteq failedDir', UNCHANGED <<accepted, files, todo, passes, delivered, dropped>>,
         read' \in [Actors -> Entries],
         \A b \in Actors \ {a} : read'[b] = read[b],
         e = NoEntry => MessageOf(a) \in delivered \cup dropped \cup failedDir'
  PROVE  Remembered'
<1> USE ActorKinds
<1>1. MessageOf(a) \in Messages
  BY BusyWith DEF Remembered
<1>2. /\ step' \in [Actors -> Steps]
      /\ target' \in [Passes -> Messages \cup {Nobody}]
      /\ \A b \in Actors \ {a} : step'[b] = step[b]
      /\ \A b \in Actors \ {a} : MessageOf(b)' = MessageOf(b)
      /\ Aimed'
  <2>1. "sending" \in Attempting
    BY DEF Attempting
  <2>2. QED
    BY <2>1, Moves
<1>3. step'[a] = IF a \in Messages THEN "done" ELSE "idle"
  BY DEF AttemptEnds, Remembered, QueueTypeOK
<1>4. QueueTypeOK'
  BY <1>1, <1>2 DEF Remembered, QueueTypeOK
<1>5. Decided' /\ HasRead'
  BY <1>2, <1>3 DEF Remembered, Decided, HasRead
<1>6. \A m \in accepted' : entry'[m] = NoEntry => m \in delivered' \cup failedDir' \cup dropped'
  <2> SUFFICES ASSUME NEW m \in accepted, entry'[m] = NoEntry
               PROVE  m \in delivered \cup failedDir' \cup dropped
    OBVIOUS
  <2>1. CASE m = MessageOf(a)
    <3>1. entry'[m] = e
      BY <1>1, <2>1 DEF Remembered, QueueTypeOK
    <3>2. QED
      BY <2>1, <3>1
  <2>2. CASE m # MessageOf(a)
    <3>1. entry'[m] = entry[m]
      BY <2>2 DEF Remembered, QueueTypeOK
    <3>2. QED
      BY <3>1 DEF Remembered, NothingForgotten
  <2>3. QED
    BY <2>1, <2>2
<1>7. \A m \in dropped' : m \in BestEffort \/ step'[m] \in {"acking", "done"}
  <2> SUFFICES ASSUME NEW m \in dropped, m \notin BestEffort
               PROVE  step'[m] \in {"acking", "done"}
    OBVIOUS
  <2>1. m \in Messages /\ m \in Actors
    BY DEF Actors, Remembered, QueueTypeOK
  <2>2. step[m] \in {"acking", "done"}
    BY DEF Remembered, NothingForgotten
  <2>3. CASE m = a
    BY <1>3, <2>1, <2>3
  <2>4. CASE m # a
    BY <1>2, <2>1, <2>2, <2>4
  <2>5. QED
    BY <2>3, <2>4
<1>8. Unbegun'
  BY <1>2 DEF Remembered, Unbegun, Actors, Attempting
<1>9. QED
  BY <1>2, <1>4, <1>5, <1>6, <1>7, <1>8 DEF Remembered, NothingForgotten, QueueTypeOK

\* A step of a pass between two attempts that leaves the entries and the
\* attempts alone keeps the invariant.
LEMMA OthersStep ==
  ASSUME Remembered, UNCHANGED <<entry, failedDir, accepted, target, read, delivered, dropped>>,
         \/ UNCHANGED step
         \/ \E r \in Passes, s \in {"idle", "listing", "loading"} :
              step[r] \notin Attempting /\ step' = [step EXCEPT ![r] = s],
         files' \in [Passes -> SUBSET Messages], todo' \in [Passes -> SUBSET Loaded],
         passes' \in Nat, Unbegun'
  PROVE  Remembered'
<1> USE ActorKinds
<1>1. CASE UNCHANGED step
  BY <1>1 DEF Remembered, QueueTypeOK, NothingForgotten, Decided, Aimed, HasRead, MessageOf
<1>2. CASE \E r \in Passes, s \in {"idle", "listing", "loading"} :
             step[r] \notin Attempting /\ step' = [step EXCEPT ![r] = s]
  <2>1. PICK r \in Passes, s \in {"idle", "listing", "loading"} :
               step[r] \notin Attempting /\ step' = [step EXCEPT ![r] = s]
    BY <1>2
  <2>2. r \in Actors /\ r \notin Messages
    BY DEF Actors
  <2>3. step'[r] = s /\ \A b \in Actors \ {r} : step'[b] = step[b]
    BY <2>1, <2>2 DEF Remembered, QueueTypeOK
  <2>4. \A b \in Actors : step'[b] \in Attempting => step'[b] = step[b]
    BY <2>3 DEF Attempting
  <2>5. \A b \in Actors : MessageOf(b)' = MessageOf(b)
    BY DEF MessageOf
  <2>6. QueueTypeOK'
    BY <2>1, <2>2 DEF Remembered, QueueTypeOK, Steps
  <2>7. Decided' /\ HasRead'
    BY <2>3, <2>5 DEF Remembered, Decided, HasRead
  <2>8. Aimed'
    BY <2>4 DEF Remembered, Aimed, Actors
  <2>9. \A k \in dropped : step'[k] = step[k]
    BY <2>2, <2>3 DEF Remembered, QueueTypeOK, Actors
  <2>10. NothingForgotten'
    BY <2>6, <2>9 DEF Remembered, NothingForgotten, QueueTypeOK
  <2>11. QED
    BY <2>6, <2>7, <2>8, <2>10 DEF Remembered
<1>3. QED
  BY <1>1, <1>2

LEMMA AckStep ==
  ASSUME Remembered, NEW a \in Actors, Ack(a)
  PROVE  Remembered'
<1> USE ActorKinds
<1>1. step[a] = "acking" /\ step[a] \in Attempting
  BY DEF Ack, Attempting
<1>2. MessageOf(a) \in delivered \cup dropped
  BY <1>1 DEF Remembered, Decided
<1>3. UNCHANGED <<failedDir, accepted, read, files, todo, passes, delivered, dropped>>
  BY DEF Ack
<1>4. /\ read' \in [Actors -> Entries]
      /\ \A b \in Actors \ {a} : read'[b] = read[b]
      /\ dropped' \subseteq Messages
  BY <1>3 DEF Remembered, QueueTypeOK
<1>5. CASE entry' = [entry EXCEPT ![MessageOf(a)] = NoEntry] /\ AttemptEnds(a)
  <2>1. NoEntry \in Entries
    BY DEF Entries
  <2>2. QED
    BY <1>1, <1>2, <1>3, <1>4, <1>5, <2>1, EntryChanges
<1>6. CASE /\ UNCHANGED entry
           /\ IF a \in Messages THEN AttemptEnds(a)
              ELSE step' = [step EXCEPT ![a] = "failing"] /\ UNCHANGED target
  <2>1. "failing" \in Attempting
    BY DEF Attempting
  <2>2. step'[a] = IF a \in Messages THEN "done" ELSE "failing"
    BY <1>6 DEF AttemptEnds, Remembered, QueueTypeOK
  <2>3. \/ AttemptEnds(a)
        \/ step' = [step EXCEPT ![a] = "failing"] /\ UNCHANGED target
    BY <1>6
  <2>4. step'[a] # "acking" /\ step'[a] # "writing"
    BY <2>2
  <2>5. a \in Messages => step'[a] \in {"acking", "done"}
    BY <2>2
  <2>6. UNCHANGED <<entry, failedDir, accepted, files, todo, passes>>
    BY <1>3, <1>6
  <2>7. delivered \subseteq delivered' /\ dropped \subseteq dropped' /\ dropped' \ dropped = {}
    BY <1>3
  <2>8. QED
    BY <1>1, <1>4, <2>1, <2>3, <2>4, <2>5, <2>6, <2>7, MovesOn
<1>7. QED
  BY <1>5, <1>6 DEF Ack

LEMMA FailReadStep ==
  ASSUME Remembered, NEW a \in Actors, FailRead(a)
  PROVE  Remembered'
<1> USE ActorKinds
<1>1. step[a] = "failing" /\ step[a] \in Attempting
  BY DEF FailRead, Attempting
<1>2. MessageOf(a) \in Messages
  BY <1>1, BusyWith DEF Remembered
<1>3. /\ UNCHANGED <<entry, failedDir, accepted, files, todo, passes>>
      /\ delivered \subseteq delivered' /\ dropped \subseteq dropped'
      /\ dropped' \ dropped = {} /\ dropped' \subseteq Messages
  BY DEF FailRead, Remembered, QueueTypeOK
<1>4. read' = [read EXCEPT ![a] = entry[MessageOf(a)]]
  BY DEF FailRead
<1>5. /\ read' \in [Actors -> Entries]
      /\ \A b \in Actors \ {a} : read'[b] = read[b]
      /\ read'[a] = entry[MessageOf(a)]
  BY <1>2, <1>4 DEF Remembered, QueueTypeOK
<1>6. "writing" \in Attempting
  BY DEF Attempting
<1>7. \/ entry[MessageOf(a)] # NoEntry /\ step' = [step EXCEPT ![a] = "writing"] /\ UNCHANGED target
      \/ AttemptEnds(a)
  BY DEF FailRead
<1>8. /\ step'[a] \in {"writing", "done", "idle"}
      /\ step'[a] = "writing" => entry[MessageOf(a)] # NoEntry
  BY <1>7 DEF AttemptEnds, Remembered, QueueTypeOK
<1>9. a \in Messages => a \in BestEffort \/ a \notin dropped
  BY <1>1 DEF Remembered, NothingForgotten
<1>10. step'[a] # "acking"
  BY <1>8
<1>11. step'[a] = "writing" => read'[a] # NoEntry
  BY <1>5, <1>8
<1>12. QED
  BY <1>1, <1>3, <1>5, <1>6, <1>7, <1>9, <1>10, <1>11, MovesOn

LEMMA FailWriteStep ==
  ASSUME Remembered, NEW a \in Actors, FailWrite(a)
  PROVE  Remembered'
<1> USE ActorKinds
<1>1. step[a] = "writing" /\ step[a] \in Attempting /\ AttemptEnds(a)
  BY DEF FailWrite, Attempting
<1>2. UNCHANGED <<failedDir, accepted, files, todo, passes, delivered, dropped>>
  BY DEF FailWrite
<1>3. read' = [read EXCEPT ![a] = NoEntry]
  BY DEF FailWrite
<1>4. NoEntry \in Entries
  BY DEF Entries
<1>5. read' \in [Actors -> Entries] /\ \A b \in Actors \ {a} : read'[b] = read[b]
  BY <1>3, <1>4 DEF Remembered, QueueTypeOK
<1>6. CASE entry' = [entry EXCEPT ![MessageOf(a)] = [retry |-> read[a].retry + 1, tried |-> TRUE]]
  <2>1. read[a] \in Entries /\ read[a] # NoEntry
    BY <1>1 DEF Remembered, QueueTypeOK, HasRead
  <2>2. read[a].retry + 1 \in Nat
    BY <2>1, EntryKinds
  <2>3. [retry |-> read[a].retry + 1, tried |-> TRUE] \in Entries \ {NoEntry}
    BY <2>2, Rewritten
  <2>4. QED
    BY <1>1, <1>2, <1>5, <1>6, <2>3, EntryChanges
<1>7. CASE UNCHANGED entry
  <2>1. step'[a] \in {"done", "idle"}
    BY <1>1 DEF AttemptEnds, Remembered, QueueTypeOK
  <2>2. a \in Messages => a \in BestEffort \/ a \notin dropped
    BY <1>1 DEF Remembered, NothingForgotten
  <2>3. "failing" \in Attempting
    BY DEF Attempting
  <2>4. step'[a] # "acking" /\ step'[a] # "writing"
    BY <2>1
  <2>5. dropped' \subseteq Messages /\ dropped' \ dropped = {} /\ dropped \subseteq dropped'
    BY <1>2 DEF Remembered, QueueTypeOK
  <2>6. QED
    BY <1>1, <1>2, <1>5, <1>7, <2>2, <2>3, <2>4, <2>5, MovesOn
<1>8. QED
  BY <1>6, <1>7 DEF FailWrite

LEMMA MoveToFailedStep ==
  ASSUME Remembered, NEW r \in Passes, MoveToFailed(r)
  PROVE  Remembered'
<1> USE ActorKinds
<1>1. step[r] = "parking" /\ step[r] \in Attempting /\ AttemptEnds(r)
  BY DEF MoveToFailed, Attempting
<1>2. r \in Actors /\ r \notin Messages /\ MessageOf(r) = target[r]
  BY DEF Actors, MessageOf
<1>3. UNCHANGED <<accepted, read, files, todo, passes, delivered, dropped>>
  BY DEF MoveToFailed
<1>4. read' \in [Actors -> Entries] /\ \A b \in Actors \ {r} : read'[b] = read[b]
  BY <1>3 DEF Remembered, QueueTypeOK
<1>5. CASE /\ entry' = [entry EXCEPT ![target[r]] = NoEntry]
           /\ failedDir' = failedDir \cup {target[r]}
  <2>1. NoEntry \in Entries
    BY DEF Entries
  <2>2. QED
    BY <1>1, <1>2, <1>3, <1>4, <1>5, <2>1, EntryChanges
<1>6. CASE UNCHANGED <<entry, failedDir>>
  <2>1. step'[r] = "idle"
    BY <1>1, <1>2 DEF AttemptEnds, Remembered, QueueTypeOK
  <2>2. dropped' \subseteq Messages /\ dropped' \ dropped = {} /\ dropped \subseteq dropped'
    BY <1>3 DEF Remembered, QueueTypeOK
  <2>3. step'[r] # "acking" /\ step'[r] # "writing"
    BY <2>1
  <2>4. QED
    BY <1>1, <1>2, <1>3, <1>4, <1>6, <2>2, <2>3, MovesOn
<1>7. QED
  BY <1>5, <1>6 DEF MoveToFailed

LEMMA NextEntryStep ==
  ASSUME Remembered, NEW r \in Passes, NextEntry(r)
  PROVE  Remembered'
<1> USE ActorKinds
<1>0. PICK loaded \in todo[r] :
        /\ step[r] = "idle"
        /\ todo' = [todo EXCEPT ![r] = @ \ {loaded}]
        /\ \/ UNCHANGED <<step, target>>
           \/ \E s \in {"parking", "sending"} :
                /\ step' = [step EXCEPT ![r] = s]
                /\ target' = [target EXCEPT ![r] = loaded[1]]
        /\ UNCHANGED <<entry, failedDir, accepted, read, files, passes, delivered, dropped>>
  BY DEF NextEntry
<1> DEFINE m == loaded[1]
<1>1. /\ step[r] = "idle"
      /\ todo' = [todo EXCEPT ![r] = @ \ {loaded}]
      /\ \/ UNCHANGED <<step, target>>
         \/ \E s \in {"parking", "sending"} :
              /\ step' = [step EXCEPT ![r] = s]
              /\ target' = [target EXCEPT ![r] = m]
      /\ UNCHANGED <<entry, failedDir, accepted, read, files, passes, delivered, dropped>>
  BY <1>0
<1>2. loaded \in Loaded
  BY DEF Remembered, QueueTypeOK
<1>3. \A q \in Passes : todo'[q] \subseteq todo[q]
  BY <1>1 DEF Remembered, QueueTypeOK
<1>4. m \in Messages
  BY <1>2 DEF Loaded
<1>5. todo' \in [Passes -> SUBSET Loaded]
  BY <1>1 DEF Remembered, QueueTypeOK
<1>9. r <= passes
  <2>1. todo[r] # {} /\ r \in Nat /\ passes \in Nat
    BY DEF Remembered, QueueTypeOK
  <2>2. QED
    BY <2>1 DEF Remembered, Unbegun
<1> HIDE DEF m
<1>6. CASE UNCHANGED <<step, target>>
  <2>1. Unbegun'
    BY <1>1, <1>3, <1>6 DEF Remembered, Unbegun
  <2>2. QED
    BY <1>1, <1>5, <1>6, <2>1, OthersStep DEF Remembered, QueueTypeOK
<1>7. CASE \E s \in {"parking", "sending"} :
             /\ step' = [step EXCEPT ![r] = s]
             /\ target' = [target EXCEPT ![r] = m]
  <2>1. PICK s \in {"parking", "sending"} :
             /\ step' = [step EXCEPT ![r] = s]
             /\ target' = [target EXCEPT ![r] = m]
    BY <1>7
  <2>2. r \in Actors /\ r \notin Messages
    BY DEF Actors
  <2>3. step'[r] = s /\ target'[r] = m
    BY <2>1, <2>2 DEF Remembered, QueueTypeOK
  <2>4. /\ \A b \in Actors \ {r} : step'[b] = step[b]
        /\ \A b \in Passes \ {r} : target'[b] = target[b]
        /\ \A b \in Actors \ {r} : MessageOf(b)' = MessageOf(b)
    BY <2>1 DEF Remembered, QueueTypeOK, MessageOf, Actors
  <2>5. QueueTypeOK'
    BY <1>1, <1>4, <1>5, <2>1, <2>2 DEF Remembered, QueueTypeOK, Steps
  <2>6. Decided'
    BY <1>1, <2>3, <2>4 DEF Remembered, Decided
  <2>7. Aimed'
    BY <1>4, <2>3, <2>4, <2>2 DEF Remembered, Aimed, Actors
  <2>8. HasRead'
    BY <1>1, <2>3, <2>4 DEF Remembered, HasRead
  <2>9. \A k \in dropped : step'[k] = step[k]
    BY <2>2, <2>4 DEF Remembered, QueueTypeOK, Actors
  <2>10. Unbegun'
    <3> SUFFICES ASSUME NEW q \in Passes, q > passes
                 PROVE  step'[q] \in {"idle", "done"} /\ todo'[q] = {}
      BY <1>1 DEF Unbegun
    <3>1. q # r /\ q \in Actors
      BY <1>9 DEF Actors, Remembered, QueueTypeOK
    <3>2. QED
      BY <1>3, <2>4, <3>1 DEF Remembered, Unbegun
  <2>11. QED
    BY <1>1, <2>5, <2>6, <2>7, <2>8, <2>9, <2>10 DEF Remembered, NothingForgotten, QueueTypeOK
<1>8. QED
  BY <1>1, <1>6, <1>7

LEMMA DeadlineStep ==
  ASSUME Remembered, NEW r \in Passes, Deadline(r)
  PROVE  Remembered'
<1>1. todo' \in [Passes -> SUBSET Loaded] /\ \A q \in Passes : todo'[q] \subseteq todo[q]
  BY DEF Deadline, Remembered, QueueTypeOK
<1>2. Unbegun'
  BY <1>1 DEF Deadline, Remembered, Unbegun
<1>3. QED
  BY <1>1, <1>2, OthersStep DEF Deadline, Remembered, QueueTypeOK

LEMMA StartRecoveryStep ==
  ASSUME Remembered, NEW p \in Processes, StartRecovery(p)
  PROVE  Remembered'
<1> USE ActorKinds
<1> DEFINE r == passes + 1
<1>1. /\ passes < MaxPasses /\ passes' = r
      /\ step' = [step EXCEPT ![r] = "listing"]
      /\ UNCHANGED <<entry, failedDir, accepted, target, read, files, todo, delivered, dropped>>
  BY DEF StartRecovery
<1>2. r \in Passes /\ r \in Nat /\ r > passes
  BY <1>1, AttemptsAssumption DEF Passes, Remembered, QueueTypeOK
<1>3. step[r] \notin Attempting
  BY <1>2 DEF Remembered, Unbegun, Attempting
<1>4. \A q \in Passes : q > r => q > passes /\ q # r
  BY <1>2 DEF Remembered, QueueTypeOK
<1> HIDE DEF r
<1>5. Unbegun'
  <2> SUFFICES ASSUME NEW q \in Passes, q > r
               PROVE  step'[q] \in {"idle", "done"} /\ todo[q] = {}
    BY <1>1 DEF Unbegun
  <2>1. q \in Actors /\ step'[q] = step[q]
    BY <1>1, <1>4 DEF Actors, Remembered, QueueTypeOK
  <2>2. QED
    BY <1>4, <2>1 DEF Remembered, Unbegun
<1>6. files' \in [Passes -> SUBSET Messages] /\ todo' \in [Passes -> SUBSET Loaded]
  BY <1>1 DEF Remembered, QueueTypeOK
<1>7. \E q \in Passes, s \in {"idle", "listing", "loading"} :
        step[q] \notin Attempting /\ step' = [step EXCEPT ![q] = s]
  BY <1>1, <1>2, <1>3
<1>8. QED
  BY <1>1, <1>2, <1>5, <1>6, <1>7, OthersStep

LEMMA ListStep ==
  ASSUME Remembered, NEW r \in Passes, List(r)
  PROVE  Remembered'
<1> USE ActorKinds
<1>1. PICK found \in {{}, {m \in Messages : entry[m] # NoEntry}} :
        /\ files' = [files EXCEPT ![r] = found]
        /\ step' = [step EXCEPT ![r] = IF found = {} THEN "idle" ELSE "loading"]
  BY DEF List
<1>2. step[r] = "listing" /\ step[r] \notin Attempting
      /\ UNCHANGED <<entry, failedDir, accepted, target, read, todo, passes, delivered, dropped>>
  BY DEF List, Attempting
<1>3. files' \in [Passes -> SUBSET Messages] /\ todo' \in [Passes -> SUBSET Loaded]
      /\ passes' \in Nat
  BY <1>1, <1>2 DEF Remembered, QueueTypeOK
<1>4. Unbegun'
  BY <1>1, <1>2 DEF Remembered, QueueTypeOK, Unbegun, Actors
<1>5. \E q \in Passes, s \in {"idle", "listing", "loading"} :
        step[q] \notin Attempting /\ step' = [step EXCEPT ![q] = s]
  BY <1>1, <1>2
<1>6. QED
  BY <1>2, <1>3, <1>4, <1>5, OthersStep

LEMMA LoadEntryStep ==
  ASSUME Remembered, NEW r \in Passes, LoadEntry(r)
  PROVE  Remembered'
<1> USE ActorKinds
<1>1. PICK m \in files[r] :
        /\ files' = [files EXCEPT ![r] = @ \ {m}]
        /\ step' = [step EXCEPT ![r] = IF files[r] = {m} THEN "idle" ELSE "loading"]
        /\ \/ entry[m] # NoEntry /\ todo' = [todo EXCEPT ![r] = @ \cup {<<m, entry[m]>>}]
           \/ UNCHANGED todo
  BY DEF LoadEntry
<1>2. step[r] = "loading" /\ step[r] \notin Attempting
      /\ UNCHANGED <<entry, failedDir, accepted, target, read, passes, delivered, dropped>>
  BY DEF LoadEntry, Attempting
<1>3. m \in Messages
  BY DEF Remembered, QueueTypeOK
<1>4. entry[m] # NoEntry => <<m, entry[m]>> \in Loaded
  BY <1>3 DEF Loaded, Remembered, QueueTypeOK
<1>5. todo' \in [Passes -> SUBSET Loaded]
  BY <1>1, <1>4 DEF Remembered, QueueTypeOK
<1>6. files' \in [Passes -> SUBSET Messages] /\ passes' \in Nat
  BY <1>1, <1>2 DEF Remembered, QueueTypeOK
<1>7. \A q \in Passes \ {r} : q \in Actors /\ step'[q] = step[q] /\ todo'[q] = todo[q]
  BY <1>1 DEF Remembered, QueueTypeOK, Actors
<1>8. Unbegun'
  BY <1>2, <1>7 DEF Remembered, Unbegun
<1>9. \E q \in Passes, s \in {"idle", "listing", "loading"} :
        step[q] \notin Attempting /\ step' = [step EXCEPT ![q] = s]
  BY <1>1, <1>2
<1>10. QED
  BY <1>2, <1>5, <1>6, <1>8, <1>9, OthersStep

\* A crash ends the attempts of a process and touches no entry.
LEMMA CrashStep ==
  ASSUME Remembered, NEW p \in Processes, DeliveryCrash(p)
  PROVE  Remembered'
<1> USE ActorKinds
<1> DEFINE lost == {a \in Actors : host[a] = p}
<1>1. /\ step' = [a \in Actors |-> IF a \in lost THEN "done" ELSE step[a]]
      /\ read' = [a \in Actors |-> IF a \in lost THEN NoEntry ELSE read[a]]
      /\ target' = [r \in Passes |-> IF r \in lost THEN Nobody ELSE target[r]]
      /\ files' = [r \in Passes |-> IF r \in lost THEN {} ELSE files[r]]
      /\ todo' = [r \in Passes |-> IF r \in lost THEN {} ELSE todo[r]]
      /\ UNCHANGED <<entry, failedDir, accepted, passes, delivered, dropped>>
  BY DEF DeliveryCrash
<1> HIDE DEF lost
<1>2. NoEntry \in Entries /\ "done" \in Steps
  BY DEF Entries, Steps
<1>3. QueueTypeOK'
  BY <1>1, <1>2 DEF Remembered, QueueTypeOK
<1>4. \A a \in Actors : step'[a] # "done" =>
        /\ a \notin lost
        /\ step'[a] = step[a] /\ read'[a] = read[a] /\ MessageOf(a)' = MessageOf(a)
  BY <1>1 DEF MessageOf, Actors
<1>5. Decided' /\ HasRead'
  BY <1>1, <1>4 DEF Remembered, Decided, HasRead
<1>6. Aimed'
  <2> SUFFICES ASSUME NEW r \in Passes, step'[r] \in Attempting
               PROVE  target'[r] \in Messages
    BY DEF Aimed, Attempting
  <2>1. r \in Actors /\ step'[r] # "done"
    BY DEF Actors, Attempting
  <2>2. r \notin lost /\ step[r] \in Attempting
    BY <1>4, <2>1
  <2>3. QED
    BY <1>1, <2>2 DEF Remembered, Aimed
<1>7. \A m \in dropped : step'[m] \in {step[m], "done"}
  BY <1>1 DEF Remembered, QueueTypeOK, Actors
<1>8. Unbegun'
  BY <1>1 DEF Remembered, Unbegun, Actors
<1>9. QED
  BY <1>1, <1>3, <1>5, <1>6, <1>7, <1>8 DEF Remembered, NothingForgotten, QueueTypeOK

-----------------------------------------------------------------------------
(* The composition with processes and locks *)

LEMMA RememberedNext == Remembered /\ [Next]_vars => Remembered'
<1> SUFFICES ASSUME Remembered, [Next]_vars PROVE Remembered'
  OBVIOUS
<1>1. ASSUME UNCHANGED deliveryVars PROVE Remembered'
  BY <1>1, OthersStep DEF deliveryVars, Remembered, QueueTypeOK, Unbegun
<1>2. CASE UNCHANGED vars
  BY <1>1, <1>2 DEF vars
<1>3. ASSUME NEW p \in Processes, LockTurn(p) PROVE Remembered'
  BY <1>1, <1>3 DEF LockTurn
<1>4. ASSUME NEW p \in Processes, DeliveryTurn(p) PROVE Remembered'
  <2>1. ASSUME NEW m \in Messages, Deliver(m, p) PROVE Remembered'
    BY <2>1, DeliverStep
  <2>2. ASSUME NEW a \in Actors, NEW got \in {"none", "part", "all"},
               NEW ends \in {"returned", "threw", "aborted"}, Send(a, got, ends)
        PROVE  Remembered'
    BY <2>2, SendStep
  <2>3. ASSUME NEW a \in Actors, Ack(a) \/ FailRead(a) \/ FailWrite(a) PROVE Remembered'
    BY <2>3, AckStep, FailReadStep, FailWriteStep
  <2>4. ASSUME NEW r \in Passes,
               List(r) \/ LoadEntry(r) \/ Deadline(r) \/ NextEntry(r) \/ MoveToFailed(r)
        PROVE  Remembered'
    BY <2>4, ListStep, LoadEntryStep, DeadlineStep, NextEntryStep, MoveToFailedStep
  <2>5. QED
    BY <1>4, <2>1, <2>2, <2>3, <2>4 DEF DeliveryTurn, DeliveryStep
<1>5. ASSUME NEW p \in Processes, Crash(p) \/ Exit(p) PROVE Remembered'
  BY <1>5, CrashStep DEF Crash, Exit
<1>6. ASSUME NEW p \in Processes, StartGateway(p) PROVE Remembered'
  BY <1>1, <1>6, StartRecoveryStep DEF StartGateway
<1>7. ASSUME NEW p \in Processes, StartCommand(p) PROVE Remembered'
  BY <1>1, <1>7 DEF StartCommand
<1>8. CASE Age /\ UNCHANGED <<processVars, deliveryVars>>
  BY <1>1, <1>8
<1>9. QED
  BY <1>2, <1>3, <1>4, <1>5, <1>6, <1>7, <1>8 DEF Next

\* A message whose entry was written is never lost: whatever the processes do
\* and wherever they crash, its entry is in the queue or in failed/, or it was
\* delivered, or its caller gave it up.
THEOREM QueueForgetsNothing == Spec => []NothingForgotten
<1>1. Remembered => NothingForgotten
  BY DEF Remembered
<1>2. QED
  BY RememberedInit, RememberedNext, <1>1, PTL DEF Spec

-----------------------------------------------------------------------------
(* Duplicates.  As long as nothing excuses a message, at most one attempt  *)
(* is busy with it (Alone), and once it has reached its channel nobody is  *)
(* about to send it and its entry is gone or being removed (SentOnce).     *)

Busy == Attempting \ {"parking"}

Untouched == \A m \in Messages : step[m] = "idle" =>
  /\ entry[m] = NoEntry /\ arrivals[m] = 0
  /\ \A r \in Passes :
       /\ step[r] \in Attempting => target[r] # m
       /\ \A x \in todo[r] : x[1] # m

Written ==
  /\ \A m \in Messages : entry[m] # NoEntry => m \in accepted
  /\ \A a \in Actors : step[a] = "writing" => MessageOf(a) \in accepted

Alone == \A a, b \in Actors :
  /\ step[a] \in Busy /\ step[b] \in Busy
  /\ MessageOf(a) = MessageOf(b) /\ MessageOf(a) \notin excused
  => a = b

SentOnce == \A m \in Messages \ excused : arrivals[m] > 0 =>
  /\ \A a \in Actors : step[a] = "sending" => MessageOf(a) # m
  /\ \/ entry[m] = NoEntry
     \/ \E a \in Actors : step[a] = "acking" /\ MessageOf(a) = m

Once ==
  /\ Remembered
  /\ arrivals \in [Messages -> 0..2]
  /\ Untouched
  /\ Written
  /\ Alone
  /\ SentOnce
  /\ DuplicatesExcused

LEMMA OnceInit == Init => Once
<1> SUFFICES ASSUME Init PROVE Once
  OBVIOUS
<1>1. Remembered
  BY RememberedInit
<1>2. PICK earlier \in SUBSET Messages, first \in Gateways \cup {Nobody} :
        /\ accepted = earlier
        /\ passes = IF first = Nobody THEN 0 ELSE 1
        /\ step = [a \in Actors |-> IF a = passes THEN "listing"
                                  ELSE IF a \in earlier THEN "done" ELSE "idle"]
        /\ \E n \in 0..MaxRetries :
             entry = [m \in Messages |-> IF m \in earlier THEN [retry |-> n, tried |-> n > 0]
                                                          ELSE NoEntry]
  BY DEF Init, DeliveryInit
<1>3. arrivals = [m \in Messages |-> 0] /\ todo = [r \in Passes |-> {}]
  BY DEF Init, DeliveryInit
<1>4. \A a \in Actors : step[a] \notin Attempting
  BY <1>2 DEF Attempting
<1>5. \A m \in Messages : m \notin earlier => entry[m] = NoEntry
  BY <1>2
<1>6. Messages \subseteq Actors /\ Passes \subseteq Actors
  BY DEF Actors
<1>7. \A m \in Messages : step[m] = "idle" => m \notin earlier
  BY <1>2, <1>6
<1>8. Untouched
  BY <1>3, <1>4, <1>5, <1>6, <1>7 DEF Untouched
<1>9. Written /\ Alone /\ SentOnce /\ DuplicatesExcused
  BY <1>2, <1>3, <1>4, <1>5 DEF Written, Alone, SentOnce, DuplicatesExcused, Busy, Attempting
<1>10. QED
  BY <1>1, <1>3, <1>8, <1>9 DEF Once

\* A step of an attempt at message k keeps the invariant if it does so for k.
LEMMA OnceMoves ==
  ASSUME Once, Remembered', NEW a \in Actors, step[a] \in Attempting,
         NEW s \in Attempting,
         \/ AttemptEnds(a)
         \/ step' = [step EXCEPT ![a] = s] /\ UNCHANGED target,
         step[a] = "parking" => AttemptEnds(a),
         UNCHANGED <<todo, accepted>>, excused \subseteq excused',
         arrivals' \in [Messages -> 0..2],
         NEW k \in Messages, k = MessageOf(a),
         \A m \in Messages \ {k} : entry'[m] = entry[m] /\ arrivals'[m] = arrivals[m],
         entry'[k] # NoEntry \/ step'[a] = "writing" => k \in accepted,
         k \notin excused' /\ arrivals'[k] > 0 =>
           /\ arrivals'[k] = 1
           /\ step'[a] # "sending"
           /\ \A b \in Actors \ {a} : step[b] = "sending" => MessageOf(b) # k
           /\ \/ entry'[k] = NoEntry
              \/ step'[a] = "acking"
              \/ \E b \in Actors \ {a} : step[b] = "acking" /\ MessageOf(b) = k
  PROVE  Once'
<1> USE ActorKinds
<1>1. /\ \A b \in Actors \ {a} : step'[b] = step[b]
      /\ \A b \in Actors \ {a} : MessageOf(b)' = MessageOf(b)
      /\ step'[a] \in Attempting => step'[a] = s /\ MessageOf(a)' = MessageOf(a)
      /\ step'[a] \notin Attempting => step'[a] = IF a \in Messages THEN "done" ELSE "idle"
  BY Moves DEF Once
<1>2. \A b \in Actors : step'[b] \in Attempting => step[b] \in Attempting /\ MessageOf(b)' = MessageOf(b)
  BY <1>1
<1>3. Untouched'
  <2> SUFFICES ASSUME NEW m \in Messages, step'[m] = "idle"
               PROVE  /\ entry'[m] = NoEntry /\ arrivals'[m] = 0
                      /\ \A r \in Passes :
                           /\ step'[r] \in Attempting => target'[r] # m
                           /\ \A x \in todo[r] : x[1] # m
    BY DEF Untouched
  <2>1. m \in Actors /\ m # a /\ step[m] = "idle"
    <3>1. m \in Actors
      BY DEF Actors
    <3>2. m # a
      BY <1>1 DEF Attempting
    <3>3. QED
      BY <1>1, <3>1, <3>2
  <2>2. k # m
    BY <2>1 DEF Once, Untouched, MessageOf, Actors
  <2>3. \A r \in Passes : step'[r] \in Attempting => target'[r] # m
    <3> SUFFICES ASSUME NEW r \in Passes, step'[r] \in Attempting PROVE target'[r] # m
      OBVIOUS
    <3>1. r \in Actors /\ r \notin Messages
      BY DEF Actors
    <3>2. step[r] \in Attempting /\ MessageOf(r)' = MessageOf(r)
      BY <1>2, <3>1
    <3>3. target'[r] = target[r]
      BY <3>1, <3>2 DEF MessageOf
    <3>4. QED
      BY <2>1, <3>2, <3>3 DEF Once, Untouched
  <2>4. QED
    BY <2>1, <2>2, <2>3 DEF Once, Untouched
<1>4. Written'
  <2>1. \A m \in Messages : entry'[m] # NoEntry => m \in accepted
    BY DEF Once, Written
  <2>2. \A b \in Actors \ {a} : step'[b] = "writing" => MessageOf(b)' \in accepted
    BY <1>1 DEF Once, Written
  <2>3. step'[a] = "writing" => MessageOf(a)' \in accepted
    BY <1>1 DEF Attempting
  <2>4. QED
    BY <2>1, <2>2, <2>3 DEF Written
<1>5. Alone'
  <2>1. \A b \in Actors : step'[b] \in Busy => step[b] \in Busy /\ MessageOf(b)' = MessageOf(b)
    <3>1. CASE step[a] = "parking"
      <4>1. step'[a] \notin Attempting
        BY <3>1 DEF AttemptEnds, Attempting, Once, Remembered, QueueTypeOK
      <4>2. QED
        BY <1>1, <4>1 DEF Busy
    <3>2. CASE step[a] # "parking"
      BY <1>1, <3>2 DEF Busy
    <3>3. QED
      BY <3>1, <3>2
  <2>2. QED
    BY <2>1 DEF Once, Alone
<1>6. SentOnce'
  <2> SUFFICES ASSUME NEW m \in Messages, m \notin excused', arrivals'[m] > 0
               PROVE  /\ \A b \in Actors : step'[b] = "sending" => MessageOf(b)' # m
                      /\ \/ entry'[m] = NoEntry
                         \/ \E b \in Actors : step'[b] = "acking" /\ MessageOf(b)' = m
    BY DEF SentOnce
  <2>1. CASE m = k
    <3>1. \A b \in Actors : step'[b] = "sending" => MessageOf(b)' # m
      BY <1>1, <2>1
    <3>2. CASE entry'[k] = NoEntry
      BY <2>1, <3>1, <3>2
    <3>3. CASE step'[a] = "acking"
      BY <1>1, <2>1, <3>1, <3>3 DEF Attempting
    <3>4. CASE \E b \in Actors \ {a} : step[b] = "acking" /\ MessageOf(b) = k
      BY <1>1, <2>1, <3>1, <3>4
    <3>5. QED
      BY <2>1, <3>2, <3>3, <3>4
  <2>2. CASE m # k
    <3>1. m \in Messages \ excused /\ arrivals[m] > 0 /\ entry'[m] = entry[m]
      BY <2>2
    <3>2. \A b \in Actors : step'[b] = "sending" => MessageOf(b)' # m
      BY <1>1, <2>2, <3>1 DEF Once, SentOnce, Attempting
    <3>3. \A b \in Actors : MessageOf(b) = m => b # a
      BY <2>2
    <3>4. QED
      BY <1>1, <3>1, <3>2, <3>3 DEF Once, SentOnce
  <2>3. QED
    BY <2>1, <2>2
<1>7. DuplicatesExcused'
  BY DEF Once, DuplicatesExcused
<1>8. QED
  BY <1>3, <1>4, <1>5, <1>6, <1>7 DEF Once

\* While an attempt is busy with a message that nothing excuses, the message
\* has reached its channel only if the attempt is about to remove the entry,
\* or the entry is gone.
LEMMA BusyAlone ==
  ASSUME Once, NEW a \in Actors, step[a] \in Busy, MessageOf(a) \notin excused
  PROVE  /\ \A b \in Actors \ {a} : step[b] \in Busy => MessageOf(b) # MessageOf(a)
         /\ step[a] = "sending" => arrivals[MessageOf(a)] = 0
         /\ step[a] # "acking" /\ arrivals[MessageOf(a)] > 0 => entry[MessageOf(a)] = NoEntry
         /\ arrivals[MessageOf(a)] \in {0, 1}
<1>1. MessageOf(a) \in Messages
  BY BusyWith DEF Once, Remembered, Busy
<1>2. \A b \in Actors \ {a} : step[b] \in Busy => MessageOf(b) # MessageOf(a)
  BY DEF Once, Alone
<1>3. step[a] = "sending" => arrivals[MessageOf(a)] = 0
  BY <1>1 DEF Once, SentOnce
<1>4. step[a] # "acking" /\ arrivals[MessageOf(a)] > 0 => entry[MessageOf(a)] = NoEntry
  BY <1>1, <1>2 DEF Once, SentOnce, Busy, Attempting
<1>5. arrivals[MessageOf(a)] \in {0, 1}
  BY <1>1 DEF Once, DuplicatesExcused
<1>6. QED
  BY <1>2, <1>3, <1>4, <1>5

LEMMA OnceSend ==
  ASSUME Once, NEW a \in Actors, NEW got \in {"none", "part", "all"},
         NEW ends \in {"returned", "threw", "aborted"}, Send(a, got, ends)
  PROVE  Once'
<1> USE ActorKinds
<1> DEFINE m == MessageOf(a)
           live == a \in Messages
           noticed == \/ ends = "threw"
                      \/ ends = "returned" /\ got # "all" /\ live /\ m \in Observed
<1>1. /\ step[a] = "sending"
      /\ arrivals' = [arrivals EXCEPT ![m] = IF got = "none" \/ @ = 2 THEN @ ELSE @ + 1]
      /\ excused' = IF got # "none" /\ noticed THEN excused \cup {m} ELSE excused
      /\ \/ live /\ m \notin accepted /\ AttemptEnds(a)
         \/ step' = [step EXCEPT ![a] = IF noticed THEN "failing" ELSE "acking"] /\ UNCHANGED target
         \/ ~live /\ ends = "threw" /\ step' = [step EXCEPT ![a] = "parking"] /\ UNCHANGED target
      /\ UNCHANGED <<entry, failedDir, accepted, read, files, todo, passes>>
  BY DEF Send
<1>2. step[a] \in Attempting /\ step[a] \in Busy /\ m \in Messages
  BY <1>1, BusyWith DEF Attempting, Busy, Once, Remembered
<1>3. Remembered'
  BY SendStep DEF Once
<1>4. arrivals' \in [Messages -> 0..2] /\ \A k \in Messages \ {m} : arrivals'[k] = arrivals[k]
  BY <1>1, <1>2 DEF Once
<1>5. m \notin excused' => /\ arrivals[m] = 0
                          /\ \A b \in Actors \ {a} : step[b] = "sending" => MessageOf(b) # m
  <2>1. m \notin excused' => m \notin excused
    BY <1>1
  <2>2. QED
    BY <1>1, <1>2, <2>1, BusyAlone DEF Busy, Attempting
<1>6. m \notin excused' /\ arrivals'[m] > 0 => arrivals'[m] = 1 /\ ~noticed
  <2> HIDE DEF noticed
  <2>1. arrivals'[m] = IF got = "none" \/ arrivals[m] = 2 THEN arrivals[m] ELSE arrivals[m] + 1
    BY <1>1, <1>2 DEF Once
  <2>2. QED
    BY <1>1, <1>5, <2>1
<1>7. entry[m] # NoEntry => m \in accepted
  BY <1>2 DEF Once, Written
<1> HIDE DEF m, live, noticed
<1>8. CASE live /\ m \notin accepted /\ AttemptEnds(a)
  <2>1. step'[a] = "done"
    BY <1>8 DEF AttemptEnds, Once, Remembered, QueueTypeOK, live
  <2>2. entry[m] = NoEntry
    BY <1>7, <1>8
  <2>3. QED
    BY <1>1, <1>2, <1>3, <1>4, <1>5, <1>6, <1>7, <1>8, <2>1, <2>2, OnceMoves DEF m
<1>9. CASE step' = [step EXCEPT ![a] = IF noticed THEN "failing" ELSE "acking"] /\ UNCHANGED target
  <2> DEFINE s == IF noticed THEN "failing" ELSE "acking"
  <2>1. step'[a] = s
    BY <1>9 DEF Once, Remembered, QueueTypeOK
  <2>2. s \in Attempting /\ s # "sending" /\ s # "writing" /\ (~noticed => s = "acking")
    BY DEF Attempting
  <2> HIDE DEF s
  <2>3. step' = [step EXCEPT ![a] = s] /\ UNCHANGED target
    BY <1>9 DEF s
  <2>4. QED
    BY <1>1, <1>2, <1>3, <1>4, <1>5, <1>6, <1>7, <2>1, <2>2, <2>3, OnceMoves DEF m
<1>10. CASE ~live /\ ends = "threw" /\ step' = [step EXCEPT ![a] = "parking"] /\ UNCHANGED target
  <2>1. step'[a] = "parking"
    BY <1>10 DEF Once, Remembered, QueueTypeOK
  <2>2. noticed
    BY <1>10 DEF noticed
  <2>3. "parking" \in Attempting
    BY DEF Attempting
  <2>4. QED
    BY <1>1, <1>2, <1>3, <1>4, <1>5, <1>6, <1>7, <1>10, <2>1, <2>2, <2>3, OnceMoves DEF m
<1>11. QED
  BY <1>1, <1>8, <1>9, <1>10

LEMMA OnceAck ==
  ASSUME Once, NEW a \in Actors, Ack(a)
  PROVE  Once'
<1> USE ActorKinds
<1> DEFINE m == MessageOf(a)
<1>1. step[a] = "acking" /\ step[a] \in Attempting /\ step[a] \in Busy
  BY DEF Ack, Attempting, Busy
<1>2. m \in Messages
  BY <1>1, BusyWith DEF Once, Remembered
<1>3. Remembered'
  BY AckStep DEF Once
<1>4. UNCHANGED <<accepted, todo, arrivals>>
  BY DEF Ack
<1>5. arrivals' \in [Messages -> 0..2] /\ \A k \in Messages \ {m} : arrivals'[k] = arrivals[k]
  BY <1>4 DEF Once
<1>6. m \notin excused => /\ arrivals[m] \in {0, 1}
                         /\ \A b \in Actors \ {a} : step[b] = "sending" => MessageOf(b) # m
  BY <1>1, BusyAlone DEF Busy, Attempting
<1>7. "failing" \in Attempting
  BY DEF Attempting
<1> HIDE DEF m
<1>8. CASE entry' = [entry EXCEPT ![m] = NoEntry] /\ AttemptEnds(a) /\ UNCHANGED excused
  <2>1. step'[a] \in {"done", "idle"}
    BY <1>8 DEF AttemptEnds, Once, Remembered, QueueTypeOK
  <2>2. entry'[m] = NoEntry /\ \A k \in Messages \ {m} : entry'[k] = entry[k]
    BY <1>2, <1>8 DEF Once, Remembered, QueueTypeOK
  <2>3. QED
    BY <1>1, <1>2, <1>3, <1>4, <1>5, <1>6, <1>7, <1>8, <2>1, <2>2, OnceMoves DEF m
<1>9. CASE /\ UNCHANGED entry /\ excused' = excused \cup {m}
           /\ IF a \in Messages THEN AttemptEnds(a)
              ELSE step' = [step EXCEPT ![a] = "failing"] /\ UNCHANGED target
  <2>1. step'[a] \in {"done", "failing"}
    BY <1>9 DEF AttemptEnds, Once, Remembered, QueueTypeOK
  <2>2. entry'[m] # NoEntry => m \in accepted
    BY <1>2, <1>9 DEF Once, Written
  <2>3. QED
    BY <1>1, <1>2, <1>3, <1>4, <1>5, <1>7, <1>9, <2>1, <2>2, OnceMoves DEF m
<1>10. QED
  BY <1>8, <1>9 DEF Ack, m

LEMMA OnceFail ==
  ASSUME Once, NEW a \in Actors, FailRead(a) \/ FailWrite(a)
  PROVE  Once'
<1> USE ActorKinds
<1> DEFINE m == MessageOf(a)
<1>1. step[a] \in {"failing", "writing"} /\ step[a] \in Attempting /\ step[a] \in Busy
  BY DEF FailRead, FailWrite, Attempting, Busy
<1>2. m \in Messages
  BY <1>1, BusyWith DEF Once, Remembered
<1>3. Remembered'
  BY FailReadStep, FailWriteStep DEF Once
<1>4. UNCHANGED <<accepted, todo, arrivals>> /\ excused \subseteq excused'
  BY DEF FailRead, FailWrite
<1>5. arrivals' \in [Messages -> 0..2] /\ \A k \in Messages \ {m} : arrivals'[k] = arrivals[k]
  BY <1>4 DEF Once
<1>6. m \notin excused => arrivals[m] = 0 \/ (arrivals[m] = 1 /\ entry[m] = NoEntry)
  BY <1>1, BusyAlone DEF Busy, Attempting
<1>10. m \notin excused => \A b \in Actors \ {a} : step[b] = "sending" => MessageOf(b) # m
  BY <1>1, BusyAlone DEF Busy, Attempting
<1>7. "writing" \in Attempting
  BY DEF Attempting
<1> HIDE DEF m
<1>8. CASE FailRead(a)
  <2>1. UNCHANGED <<entry, excused>>
    BY <1>8 DEF FailRead
  <2>2. \/ entry[m] # NoEntry /\ step' = [step EXCEPT ![a] = "writing"] /\ UNCHANGED target
        \/ entry[m] = NoEntry /\ AttemptEnds(a)
    BY <1>8 DEF FailRead, m
  <2>3. /\ step'[a] \in {"writing", "done", "idle"}
        /\ step'[a] = "writing" => entry[m] # NoEntry
    BY <2>2 DEF AttemptEnds, Once, Remembered, QueueTypeOK
  <2>4. entry[m] # NoEntry => m \in accepted
    BY <1>2 DEF Once, Written
  <2>5. /\ step[a] # "parking" /\ step'[a] # "sending"
        /\ entry'[m] # NoEntry \/ step'[a] = "writing" => m \in accepted
        /\ \A k \in Messages \ {m} : entry'[k] = entry[k]
    BY <1>1, <2>1, <2>3, <2>4
  <2>6. m \notin excused' /\ arrivals'[m] > 0 =>
          /\ arrivals'[m] = 1
          /\ \A b \in Actors \ {a} : step[b] = "sending" => MessageOf(b) # m
          /\ entry'[m] = NoEntry
    <3> SUFFICES ASSUME m \notin excused', arrivals'[m] > 0
                 PROVE  /\ arrivals'[m] = 1
                        /\ \A b \in Actors \ {a} : step[b] = "sending" => MessageOf(b) # m
                        /\ entry'[m] = NoEntry
      OBVIOUS
    <3>1. arrivals' = arrivals /\ entry' = entry /\ excused' = excused
      BY <1>4, <2>1
    <3>2. arrivals[m] = 1
      BY <1>6, <3>1
    <3>3. QED
      BY <1>6, <1>10, <3>1, <3>2
  <2>7. \/ AttemptEnds(a)
        \/ step' = [step EXCEPT ![a] = "writing"] /\ UNCHANGED target
    BY <2>2
  <2>8. m = MessageOf(a) /\ UNCHANGED <<todo, accepted>> /\ excused \subseteq excused'
    BY <1>4 DEF m
  <2>9. QED
    BY <1>1, <1>2, <1>3, <1>5, <1>7, <2>5, <2>6, <2>7, <2>8, OnceMoves
<1>9. CASE FailWrite(a)
  <2>1. AttemptEnds(a) /\ step[a] = "writing" /\ m \in accepted
    BY <1>9 DEF FailWrite, Once, Written, m
  <2>2. step'[a] \in {"done", "idle"}
    BY <2>1 DEF AttemptEnds, Once, Remembered, QueueTypeOK
  <2>3. \A k \in Messages \ {m} : entry'[k] = entry[k]
    BY <1>9 DEF FailWrite, Once, Remembered, QueueTypeOK, m
  <2>4. entry[m] = NoEntry => m \in excused'
    BY <1>9 DEF FailWrite, m
  <2>5. m \notin excused' => arrivals'[m] = 0
    <3> SUFFICES ASSUME m \notin excused' PROVE arrivals'[m] = 0
      OBVIOUS
    <3>1. arrivals' = arrivals
      BY <1>4
    <3>2. m \notin excused /\ entry[m] # NoEntry
      BY <1>4, <2>4
    <3>3. QED
      BY <1>6, <3>1, <3>2
  <2>6. QED
    BY <1>1, <1>2, <1>3, <1>4, <1>5, <1>7, <2>1, <2>2, <2>3, <2>5, OnceMoves DEF m
<1>11. QED
  BY <1>8, <1>9

LEMMA OncePark ==
  ASSUME Once, NEW r \in Passes, MoveToFailed(r)
  PROVE  Once'
<1> USE ActorKinds
<1> DEFINE m == target[r]
<1>1. /\ step[r] = "parking" /\ step[r] \in Attempting /\ AttemptEnds(r)
      /\ UNCHANGED <<accepted, todo, arrivals, excused>>
  BY DEF MoveToFailed, Attempting
<1>2. m \in Messages
  BY <1>1 DEF Once, Remembered, Aimed
<1>3. r \in Actors /\ r \notin Messages /\ MessageOf(r) = m
  BY DEF Actors, MessageOf
<1>4. Remembered'
  BY MoveToFailedStep DEF Once
<1>5. step'[r] = "idle" /\ "sending" \in Attempting
  BY <1>1, <1>3 DEF AttemptEnds, Once, Remembered, QueueTypeOK, Attempting
<1>6. /\ arrivals' \in [Messages -> 0..2]
      /\ \A k \in Messages \ {m} : arrivals'[k] = arrivals[k] /\ entry'[k] = entry[k]
      /\ entry'[m] \in {entry[m], NoEntry}
  BY <1>1, <1>2 DEF MoveToFailed, Once, Remembered, QueueTypeOK
<1>7. entry'[m] # NoEntry => m \in accepted
  BY <1>2, <1>6 DEF Once, Written
<1>8. m \notin excused /\ arrivals[m] > 0 =>
        /\ arrivals[m] = 1
        /\ \A b \in Actors \ {r} : step[b] = "sending" => MessageOf(b) # m
        /\ \/ entry'[m] = NoEntry
           \/ \E b \in Actors \ {r} : step[b] = "acking" /\ MessageOf(b) = m
  BY <1>1, <1>2, <1>6 DEF Once, SentOnce, DuplicatesExcused
<1> HIDE DEF m
<1>9. QED
  BY <1>1, <1>2, <1>3, <1>4, <1>5, <1>6, <1>7, <1>8, OnceMoves

LEMMA OnceDeliver ==
  ASSUME Once, NEW m \in Messages, NEW p \in Processes, Deliver(m, p)
  PROVE  Once'
<1> USE ActorKinds
<1>1. /\ m \in Actors /\ step[m] = "idle"
      /\ step' = [step EXCEPT ![m] = "sending"]
      /\ UNCHANGED <<target, todo, arrivals, excused>>
  BY DEF Deliver, Actors
<1>2. Remembered'
  BY DeliverStep DEF Once
<1>3. step'[m] = "sending" /\ \A b \in Actors \ {m} : step'[b] = step[b]
  BY <1>1 DEF Once, Remembered, QueueTypeOK
<1>4. \A b \in Actors : MessageOf(b)' = MessageOf(b)
  BY <1>1 DEF MessageOf
<1>5. /\ \A k \in Messages \ {m} : entry'[k] = entry[k]
      /\ accepted \subseteq accepted'
      /\ entry'[m] # NoEntry => m \in accepted'
  BY DEF Deliver, Once, Remembered, QueueTypeOK, Untouched
<1>6. MessageOf(m) = m /\ arrivals[m] = 0
  BY <1>1 DEF Once, Untouched, MessageOf
<1>7. \A b \in Actors \ {m} : step[b] \in Attempting => MessageOf(b) # m
  BY <1>1 DEF Once, Untouched, MessageOf, Actors
<1>8. Untouched'
  <2> SUFFICES ASSUME NEW k \in Messages, step'[k] = "idle"
               PROVE  /\ entry'[k] = NoEntry /\ arrivals'[k] = 0
                      /\ \A r \in Passes :
                           /\ step'[r] \in Attempting => target'[r] # k
                           /\ \A x \in todo'[r] : x[1] # k
    BY DEF Untouched
  <2>1. k # m /\ step[k] = "idle"
    BY <1>3 DEF Actors
  <2>2. \A r \in Passes : step'[r] = step[r]
    BY <1>3 DEF Actors
  <2>3. UNCHANGED <<target, todo, arrivals>>
    BY <1>1
  <2>4. QED
    BY <1>5, <2>1, <2>2, <2>3 DEF Once, Untouched
<1>9. Written'
  BY <1>3, <1>4, <1>5 DEF Once, Written
<1>10. Alone'
  BY <1>1, <1>3, <1>4, <1>6, <1>7 DEF Once, Alone, Busy
<1>11. SentOnce'
  <2> SUFFICES ASSUME NEW k \in Messages, k \notin excused, arrivals[k] > 0
               PROVE  /\ \A b \in Actors : step'[b] = "sending" => MessageOf(b)' # k
                      /\ \/ entry'[k] = NoEntry
                         \/ \E b \in Actors : step'[b] = "acking" /\ MessageOf(b)' = k
    BY <1>1 DEF SentOnce
  <2>1. k # m
    BY <1>6
  <2>2. \A b \in Actors : step'[b] = "sending" => MessageOf(b)' # k
    BY <1>3, <1>4, <1>6, <2>1 DEF Once, SentOnce
  <2>3. entry'[k] = entry[k]
    BY <1>5, <2>1
  <2>4. ASSUME NEW b \in Actors, step[b] = "acking", MessageOf(b) = k
        PROVE  step'[b] = "acking" /\ MessageOf(b)' = k
    BY <1>1, <1>3, <1>4, <2>4
  <2>5. QED
    BY <2>2, <2>3, <2>4 DEF Once, SentOnce
<1>12. DuplicatesExcused' /\ arrivals' \in [Messages -> 0..2]
  BY <1>1 DEF Once, DuplicatesExcused
<1>13. QED
  BY <1>2, <1>8, <1>9, <1>10, <1>11, <1>12 DEF Once

\* A step that leaves the attempts and the entries alone, and loads only
\* messages whose entry is there.
LEMMA OnceOthers ==
  ASSUME Once, Remembered',
         UNCHANGED <<entry, accepted, target, arrivals>>, excused \subseteq excused',
         \A a \in Actors : \/ step'[a] = step[a]
                          \/ /\ a \in Passes
                             /\ step[a] \notin Attempting /\ step'[a] \notin Attempting,
         \A r \in Passes : \A x \in todo'[r] :
           entry[x[1]] # NoEntry \/ \E y \in todo[r] : x[1] = y[1]
  PROVE  Once'
<1> USE ActorKinds
<1>1. \A a \in Actors : MessageOf(a)' = MessageOf(a)
  BY DEF MessageOf
<1>0. /\ \A a \in Actors : step'[a] \in Attempting => step'[a] = step[a]
      /\ \A a \in Actors : step[a] \in Attempting => step'[a] = step[a]
      /\ \A m \in Messages : step'[m] = step[m]
      /\ Passes \subseteq Actors
  BY DEF Actors
<1>2. Untouched'
  <2> SUFFICES ASSUME NEW m \in Messages, step[m] = "idle"
               PROVE  /\ entry[m] = NoEntry /\ arrivals[m] = 0
                      /\ \A r \in Passes :
                           /\ step'[r] \in Attempting => target[r] # m
                           /\ \A x \in todo'[r] : x[1] # m
    BY <1>0 DEF Untouched
  <2>1. /\ entry[m] = NoEntry /\ arrivals[m] = 0
        /\ \A r \in Passes :
             /\ step[r] \in Attempting => target[r] # m
             /\ \A x \in todo[r] : x[1] # m
    BY DEF Once, Untouched
  <2>2. QED
    BY <1>0, <2>1
<1>3. Written' /\ DuplicatesExcused' /\ arrivals' \in [Messages -> 0..2]
  BY <1>0, <1>1 DEF Once, Written, DuplicatesExcused, Attempting
<1>4. Alone'
  BY <1>0, <1>1 DEF Once, Alone, Busy
<1>5. SentOnce'
  <2>1. Messages \ excused' \subseteq Messages \ excused
    OBVIOUS
  <2>2. QED
    BY <1>0, <1>1, <2>1 DEF Once, SentOnce, Attempting
<1>6. QED
  BY <1>2, <1>3, <1>4, <1>5 DEF Once

LEMMA OnceNextEntry ==
  ASSUME Once, NEW r \in Passes, NextEntry(r)
  PROVE  Once'
<1> USE ActorKinds
<1>0. PICK loaded \in todo[r] :
        /\ step[r] = "idle"
        /\ todo' = [todo EXCEPT ![r] = @ \ {loaded}]
        /\ \/ UNCHANGED <<step, target, excused>>
           \/ /\ step' = [step EXCEPT ![r] = "parking"] /\ target' = [target EXCEPT ![r] = loaded[1]]
              /\ UNCHANGED excused
           \/ /\ step' = [step EXCEPT ![r] = "sending"] /\ target' = [target EXCEPT ![r] = loaded[1]]
              /\ excused' = IF entry[loaded[1]] # loaded[2] \/ AttemptsAt(loaded[1]) # {}
                            THEN excused \cup {loaded[1]} ELSE excused
        /\ UNCHANGED <<entry, accepted, arrivals>>
  BY DEF NextEntry
<1> DEFINE m == loaded[1]
           e == loaded[2]
<1>1. /\ step[r] = "idle"
      /\ todo' = [todo EXCEPT ![r] = @ \ {loaded}]
      /\ \/ UNCHANGED <<step, target, excused>>
         \/ /\ step' = [step EXCEPT ![r] = "parking"] /\ target' = [target EXCEPT ![r] = m]
            /\ UNCHANGED excused
         \/ /\ step' = [step EXCEPT ![r] = "sending"] /\ target' = [target EXCEPT ![r] = m]
            /\ excused' = IF entry[m] # e \/ AttemptsAt(m) # {} THEN excused \cup {m} ELSE excused
      /\ UNCHANGED <<entry, accepted, arrivals>>
  BY <1>0
<1>2. Remembered'
  BY NextEntryStep DEF Once
<1>3. loaded \in Loaded
  BY DEF Once, Remembered, QueueTypeOK
<1>5. m \in Messages /\ e # NoEntry
  BY <1>3 DEF Loaded
<1>7. \A q \in Passes : todo'[q] \subseteq todo[q]
  BY <1>1 DEF Once, Remembered, QueueTypeOK
<1>8. step[m] # "idle"
  BY <1>5 DEF Once, Untouched
<1> HIDE DEF m, e
<1>9. CASE UNCHANGED <<step, target, excused>>
  BY <1>1, <1>2, <1>7, <1>9, OnceOthers
<1>10. CASE /\ \/ /\ step' = [step EXCEPT ![r] = "parking"]
                  /\ UNCHANGED excused
               \/ /\ step' = [step EXCEPT ![r] = "sending"]
                  /\ excused' = IF entry[m] # e \/ AttemptsAt(m) # {} THEN excused \cup {m} ELSE excused
            /\ target' = [target EXCEPT ![r] = m]
  <2>1. r \in Actors /\ r \notin Messages
    BY DEF Actors
  <2>2. /\ step'[r] \in {"parking", "sending"}
        /\ step'[r] = "sending" => step' = [step EXCEPT ![r] = "sending"]
        /\ target'[r] = m /\ MessageOf(r)' = m
    BY <1>10, <2>1 DEF Once, Remembered, QueueTypeOK, MessageOf
  <2>3. /\ \A b \in Actors \ {r} : step'[b] = step[b]
        /\ \A b \in Passes \ {r} : target'[b] = target[b]
        /\ \A b \in Actors \ {r} : MessageOf(b)' = MessageOf(b)
    BY <1>10 DEF Once, Remembered, QueueTypeOK, MessageOf, Actors
  <2>4. excused \subseteq excused'
    BY <1>10
  <2>5. step'[r] = "sending" /\ m \notin excused' => entry[m] # NoEntry /\ AttemptsAt(m) = {}
    BY <1>5, <1>10, <2>1, <2>2 DEF Once, Remembered, QueueTypeOK
  <2>6. Untouched'
    <3> SUFFICES ASSUME NEW k \in Messages, step'[k] = "idle"
                 PROVE  /\ entry'[k] = NoEntry /\ arrivals'[k] = 0
                        /\ \A q \in Passes :
                             /\ step'[q] \in Attempting => target'[q] # k
                             /\ \A x \in todo'[q] : x[1] # k
      BY DEF Untouched
    <3>1. k # r /\ step[k] = "idle" /\ k # m
      BY <1>8, <2>1, <2>3 DEF Actors
    <3>2. \A q \in Passes \ {r} : step'[q] = step[q] /\ target'[q] = target[q]
      BY <2>3 DEF Actors
    <3>3. \A q \in Passes : step'[q] \in Attempting => target'[q] # k
      BY <2>2, <3>1, <3>2 DEF Once, Untouched
    <3>4. \A q \in Passes : \A x \in todo'[q] : x[1] # k
      BY <1>7, <3>1 DEF Once, Untouched
    <3>5. QED
      BY <1>1, <3>1, <3>3, <3>4 DEF Once, Untouched
  <2>7. Written'
    BY <1>1, <2>1, <2>2, <2>3 DEF Once, Written
  <2>8. Alone'
    <3>1. \A b \in Actors \ {r} : step[b] \in Attempting => b \in AttemptsAt(MessageOf(b))
      BY DEF AttemptsAt
    <3>2. QED
      BY <2>1, <2>2, <2>3, <2>4, <2>5, <3>1 DEF Once, Alone, Busy
  <2>9. SentOnce'
    <3> SUFFICES ASSUME NEW k \in Messages, k \notin excused', arrivals[k] > 0
                 PROVE  /\ \A b \in Actors : step'[b] = "sending" => MessageOf(b)' # k
                        /\ \/ entry[k] = NoEntry
                           \/ \E b \in Actors : step'[b] = "acking" /\ MessageOf(b)' = k
      BY <1>1 DEF SentOnce
    <3>1. k \in Messages \ excused
      BY <2>4
    <3>2. ASSUME NEW b \in Actors, step[b] = "acking", MessageOf(b) = k
          PROVE  step'[b] = "acking" /\ MessageOf(b)' = k /\ b \in AttemptsAt(k)
      BY <1>1, <2>3, <3>2 DEF AttemptsAt, Attempting
    <3>3. step'[r] = "sending" => k # m
      BY <2>5, <3>1, <3>2 DEF Once, SentOnce
    <3>4. \A b \in Actors : step'[b] = "sending" => MessageOf(b)' # k
      BY <2>2, <2>3, <3>1, <3>3 DEF Once, SentOnce
    <3>5. QED
      BY <3>1, <3>2, <3>4 DEF Once, SentOnce
  <2>10. DuplicatesExcused' /\ arrivals' \in [Messages -> 0..2]
    BY <1>1, <2>4 DEF Once, DuplicatesExcused
  <2>11. QED
    BY <1>2, <2>6, <2>7, <2>8, <2>9, <2>10 DEF Once
<1>11. QED
  BY <1>1, <1>9, <1>10 DEF m, e

LEMMA OnceDeadline ==
  ASSUME Once, NEW r \in Passes, Deadline(r)
  PROVE  Once'
<1>1. Remembered'
  BY DeadlineStep DEF Once
<1>2. todo' = [todo EXCEPT ![r] = {}]
  BY DEF Deadline
<1>3. \A q \in Passes : todo'[q] \subseteq todo[q]
  BY <1>2 DEF Once, Remembered, QueueTypeOK
<1>4. UNCHANGED <<entry, accepted, step, target, arrivals>> /\ excused \subseteq excused'
  BY DEF Deadline
<1>5. QED
  BY <1>1, <1>3, <1>4, OnceOthers

LEMMA OnceStartRecovery ==
  ASSUME Once, NEW p \in Processes, StartRecovery(p)
  PROVE  Once'
<1> USE ActorKinds
<1> DEFINE r == passes + 1
<1>1. Remembered'
  BY StartRecoveryStep DEF Once
<1>2. /\ passes < MaxPasses
      /\ step' = [step EXCEPT ![r] = "listing"]
      /\ UNCHANGED <<entry, accepted, target, arrivals, todo, excused>>
  BY DEF StartRecovery
<1>3. r \in Passes /\ r > passes /\ r \in Actors
  BY <1>2, AttemptsAssumption DEF Passes, Once, Remembered, QueueTypeOK, Actors
<1>4. step[r] \notin Attempting
  BY <1>3 DEF Once, Remembered, Unbegun, Attempting
<1> HIDE DEF r
<1>5. step'[r] = "listing" /\ \A b \in Actors \ {r} : step'[b] = step[b]
  BY <1>2, <1>3 DEF Once, Remembered, QueueTypeOK
<1>6. \A a \in Actors : \/ step'[a] = step[a]
                       \/ /\ a \in Passes
                          /\ step[a] \notin Attempting /\ step'[a] \notin Attempting
  BY <1>3, <1>4, <1>5 DEF Attempting
<1>7. QED
  BY <1>1, <1>2, <1>6, OnceOthers

LEMMA OnceLoads ==
  ASSUME Once, NEW r \in Passes, List(r) \/ LoadEntry(r)
  PROVE  Once'
<1> USE ActorKinds
<1>1. Remembered'
  BY ListStep, LoadEntryStep DEF Once
<1>2. /\ step[r] \in {"listing", "loading"}
      /\ \E s \in {"idle", "loading"} : step' = [step EXCEPT ![r] = s]
      /\ UNCHANGED <<entry, accepted, target, arrivals, excused>>
  BY DEF List, LoadEntry
<1>3. /\ step'[r] \in {"idle", "loading"}
      /\ \A b \in Actors \ {r} : step'[b] = step[b]
  BY <1>2 DEF Once, Remembered, QueueTypeOK, Actors
<1>4. \A a \in Actors : \/ step'[a] = step[a]
                       \/ /\ a \in Passes
                          /\ step[a] \notin Attempting /\ step'[a] \notin Attempting
  BY <1>2, <1>3 DEF Attempting
<1>5. \A q \in Passes : \A x \in todo'[q] :
        entry[x[1]] # NoEntry \/ \E y \in todo[q] : x[1] = y[1]
  <2>1. CASE UNCHANGED todo
    BY <2>1
  <2>2. CASE \E m \in files[r] :
               entry[m] # NoEntry /\ todo' = [todo EXCEPT ![r] = @ \cup {<<m, entry[m]>>}]
    <3>1. PICK m \in files[r] :
               entry[m] # NoEntry /\ todo' = [todo EXCEPT ![r] = @ \cup {<<m, entry[m]>>}]
      BY <2>2
    <3>2. \A q \in Passes : \A x \in todo'[q] : x = <<m, entry[m]>> \/ x \in todo[q]
      BY <3>1 DEF Once, Remembered, QueueTypeOK
    <3>3. QED
      BY <3>1, <3>2
  <2>3. QED
    BY <2>1, <2>2 DEF List, LoadEntry
<1>6. QED
  BY <1>1, <1>2, <1>4, <1>5, OnceOthers

LEMMA OnceCrash ==
  ASSUME Once, NEW p \in Processes, DeliveryCrash(p)
  PROVE  Once'
<1> USE ActorKinds
<1> DEFINE lost == {a \in Actors : host[a] = p}
<1>1. /\ step' = [a \in Actors |-> IF a \in lost THEN "done" ELSE step[a]]
      /\ target' = [r \in Passes |-> IF r \in lost THEN Nobody ELSE target[r]]
      /\ todo' = [r \in Passes |-> IF r \in lost THEN {} ELSE todo[r]]
      /\ excused' = excused \cup
           {MessageOf(a) : a \in {b \in lost : step[b] \in Attempting \ {"sending"}}}
      /\ UNCHANGED <<entry, accepted, arrivals>>
  BY DEF DeliveryCrash
<1>2. lost \subseteq Actors
  OBVIOUS
<1> HIDE DEF lost
<1>3. Remembered'
  BY CrashStep DEF Once
<1>4. \A a \in Actors : step'[a] # "done" =>
        a \notin lost /\ step'[a] = step[a] /\ MessageOf(a)' = MessageOf(a)
  BY <1>1 DEF MessageOf, Actors
<1>5. \A a \in Actors \ lost : step'[a] = step[a] /\ MessageOf(a)' = MessageOf(a)
  BY <1>1 DEF MessageOf, Actors
<1>6. excused \subseteq excused' /\ \A a \in lost : step[a] = "acking" => MessageOf(a) \in excused'
  BY <1>1 DEF Attempting
<1>7. Untouched'
  <2> SUFFICES ASSUME NEW m \in Messages, step'[m] = "idle"
               PROVE  /\ entry'[m] = NoEntry /\ arrivals'[m] = 0
                      /\ \A r \in Passes :
                           /\ step'[r] \in Attempting => target'[r] # m
                           /\ \A x \in todo'[r] : x[1] # m
    BY DEF Untouched
  <2>1. step[m] = "idle"
    BY <1>4 DEF Actors
  <2>2. ASSUME NEW r \in Passes, step'[r] \in Attempting PROVE target'[r] # m
    <3>1. r \in Actors /\ step'[r] # "done"
      BY <2>2 DEF Actors, Attempting
    <3>2. r \notin lost /\ step[r] \in Attempting
      BY <1>4, <2>2, <3>1
    <3>3. QED
      BY <1>1, <2>1, <3>2 DEF Once, Untouched
  <2>3. ASSUME NEW r \in Passes, NEW x \in todo'[r] PROVE x[1] # m
    BY <1>1, <2>1, <2>3 DEF Once, Untouched
  <2>4. QED
    BY <1>1, <2>1, <2>2, <2>3 DEF Once, Untouched
<1>8. Written' /\ DuplicatesExcused' /\ arrivals' \in [Messages -> 0..2]
  BY <1>1, <1>4, <1>6 DEF Once, Written, DuplicatesExcused
<1>9. Alone'
  BY <1>4, <1>6 DEF Once, Alone, Busy, Attempting
<1>10. SentOnce'
  <2> SUFFICES ASSUME NEW m \in Messages, m \notin excused', arrivals[m] > 0
               PROVE  /\ \A b \in Actors : step'[b] = "sending" => MessageOf(b)' # m
                      /\ \/ entry[m] = NoEntry
                         \/ \E b \in Actors : step'[b] = "acking" /\ MessageOf(b)' = m
    BY <1>1 DEF SentOnce
  <2>1. m \in Messages \ excused
    BY <1>6
  <2>2. \A b \in Actors : step'[b] = "sending" => MessageOf(b)' # m
    BY <1>4, <2>1 DEF Once, SentOnce
  <2>3. ASSUME NEW b \in Actors, step[b] = "acking", MessageOf(b) = m
        PROVE  step'[b] = "acking" /\ MessageOf(b)' = m
    BY <1>5, <1>6, <2>3
  <2>4. QED
    BY <2>1, <2>2, <2>3 DEF Once, SentOnce
<1>11. QED
  BY <1>3, <1>7, <1>8, <1>9, <1>10 DEF Once

LEMMA OnceNext == Once /\ [Next]_vars => Once'
<1> SUFFICES ASSUME Once, [Next]_vars PROVE Once'
  OBVIOUS
<1>1. ASSUME UNCHANGED deliveryVars PROVE Once'
  <2>1. Remembered'
    BY <1>1, OthersStep DEF deliveryVars, Once, Remembered, QueueTypeOK, Unbegun
  <2>2. UNCHANGED <<entry, accepted, step, target, arrivals, todo>> /\ excused \subseteq excused'
    BY <1>1 DEF deliveryVars
  <2>3. QED
    BY <2>1, <2>2, OnceOthers
<1>2. CASE UNCHANGED vars
  BY <1>1, <1>2 DEF vars
<1>3. ASSUME NEW p \in Processes, LockTurn(p) PROVE Once'
  BY <1>1, <1>3 DEF LockTurn
<1>4. ASSUME NEW p \in Processes, DeliveryTurn(p) PROVE Once'
  <2>1. ASSUME NEW m \in Messages, Deliver(m, p) PROVE Once'
    BY <2>1, OnceDeliver
  <2>2. ASSUME NEW a \in Actors, NEW got \in {"none", "part", "all"},
               NEW ends \in {"returned", "threw", "aborted"}, Send(a, got, ends)
        PROVE  Once'
    BY <2>2, OnceSend
  <2>3. ASSUME NEW a \in Actors, Ack(a) \/ FailRead(a) \/ FailWrite(a) PROVE Once'
    BY <2>3, OnceAck, OnceFail
  <2>4. ASSUME NEW r \in Passes,
               List(r) \/ LoadEntry(r) \/ Deadline(r) \/ NextEntry(r) \/ MoveToFailed(r)
        PROVE  Once'
    BY <2>4, OnceLoads, OnceDeadline, OnceNextEntry, OncePark
  <2>5. QED
    BY <1>4, <2>1, <2>2, <2>3, <2>4 DEF DeliveryTurn, DeliveryStep
<1>5. ASSUME NEW p \in Processes, Crash(p) \/ Exit(p) PROVE Once'
  BY <1>5, OnceCrash DEF Crash, Exit
<1>6. ASSUME NEW p \in Processes, StartGateway(p) PROVE Once'
  BY <1>1, <1>6, OnceStartRecovery DEF StartGateway
<1>7. ASSUME NEW p \in Processes, StartCommand(p) PROVE Once'
  BY <1>1, <1>7 DEF StartCommand
<1>8. CASE Age /\ UNCHANGED <<processVars, deliveryVars>>
  BY <1>1, <1>8
<1>9. QED
  BY <1>2, <1>3, <1>4, <1>5, <1>6, <1>7, <1>8 DEF Next

\* No message reaches its channel twice unless one of the listed causes
\* excuses it, for any number of passes, processes, crashes and retries: two
\* attempts never meet at a message unnoticed, and an entry never outlives a
\* send that nobody is still answering for.
THEOREM QueueSendsOnce == Spec => []DuplicatesExcused
<1>1. Once => DuplicatesExcused
  BY DEF Once
<1>2. QED
  BY OnceInit, OnceNext, <1>1, PTL DEF Spec
=============================================================================
