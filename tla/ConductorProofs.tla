--------------------------- MODULE ConductorProofs ---------------------------
(***************************************************************************)
(* The safety properties of Conductor, that its queue implements           *)
(* SerialQueue, what its pipeline, TurnPipeline, promises of refused and   *)
(* of cut turns and of the handlers of plugins, and the safety of its pool *)
(* of processes, SessionProcessPool; for any messages, depth of the queue, *)
(* plugins, sessions, concurrent calls and capacity of the pool.           *)
(***************************************************************************)
EXTENDS Conductor, TurnPipeline, SessionProcessPool, FiniteSetTheorems,
        WellFoundedInduction, TLAPS

Elements(s) == {s[i] : i \in DOMAIN s}
Distinct(s) == \A i, j \in DOMAIN s : s[i] = s[j] => i = j

(* Appending a new element to a sequence without repetitions. *)
LEMMA AppendDistinct ==
  ASSUME NEW S, NEW s \in Seq(S), NEW e \in S, Distinct(s), e \notin Elements(s)
  PROVE  /\ Append(s, e) \in Seq(S)
         /\ Distinct(Append(s, e))
         /\ Elements(Append(s, e)) = Elements(s) \union {e}
<1> DEFINE t == Append(s, e)
<1>1. t \in Seq(S) /\ Len(t) = Len(s) + 1 /\ t[Len(s) + 1] = e
  OBVIOUS
<1>2. DOMAIN t = 1 .. Len(s) + 1 /\ DOMAIN s = 1 .. Len(s) /\ Len(s) \in Nat
  OBVIOUS
<1>3. \A i \in 1 .. Len(s) : t[i] = s[i]
  OBVIOUS
<1>4. Distinct(t)
  BY <1>1, <1>2, <1>3 DEF Distinct, Elements
<1>5. Elements(t) = Elements(s) \union {e}
  BY <1>1, <1>2, <1>3 DEF Elements
<1> QED BY <1>1, <1>4, <1>5

(* Removing the head of a sequence without repetitions. *)
LEMMA TailDistinct ==
  ASSUME NEW S, NEW s \in Seq(S), Distinct(s), s # <<>>
  PROVE  /\ Head(s) \in S /\ Tail(s) \in Seq(S) /\ Len(Tail(s)) = Len(s) - 1
         /\ Distinct(Tail(s))
         /\ Head(s) \in Elements(s)
         /\ Elements(Tail(s)) = Elements(s) \ {Head(s)}
<1> DEFINE t == Tail(s)
<1>1. t \in Seq(S) /\ Len(t) = Len(s) - 1 /\ Len(s) \in Nat /\ Len(s) > 0 /\ Head(s) = s[1]
  OBVIOUS
<1>2. DOMAIN t = 1 .. Len(s) - 1 /\ DOMAIN s = 1 .. Len(s)
  BY <1>1
<1>3. \A i \in 1 .. Len(s) - 1 : t[i] = s[i + 1]
  BY <1>1
<1>4. Distinct(t)
  BY <1>1, <1>2, <1>3 DEF Distinct
<1>5. Elements(t) \subseteq Elements(s) \ {Head(s)}
  BY <1>1, <1>2, <1>3 DEF Elements, Distinct
<1>6. Elements(s) \ {Head(s)} \subseteq Elements(t)
  <2> SUFFICES ASSUME NEW i \in 2 .. Len(s) PROVE s[i] \in Elements(t)
    BY <1>1, <1>2 DEF Elements
  <2>1. i - 1 \in 1 .. Len(s) - 1 /\ t[i - 1] = s[i]
    BY <1>1, <1>3
  <2> QED BY <2>1, <1>2 DEF Elements
<1>7. Head(s) \in S /\ Head(s) \in Elements(s)
  BY <1>1, <1>2 DEF Elements
<1> QED BY <1>1, <1>4, <1>5, <1>6, <1>7

-----------------------------------------------------------------------------
(* What a step of a message's turn does: it moves on, its spawn is over, or *)
(* it ends.                                                                *)
MovesOn(m) ==
  /\ pc[m] \in Stage \ {"spawning"}
  /\ \E s \in Stage : Goto(m, s) /\ (pc'[m] = "spawning" => s = "spawning")
  /\ UNCHANGED <<extraction, extractors>>
  /\ \/ UNCHANGED spawnPromise /\ pc'[m] # "spawning"
     \/ spawnPromise = NoOne /\ spawnPromise' = m /\ pc'[m] = "spawning" /\ extraction # "alive"

Over(m) ==
  /\ pc[m] \in Stage \ {"spawning"}
  /\ \E r \in {"answered", "failed"} : Ends(m, r)

LEMMA TurnCases ==
  ASSUME TypeOK, NEW m \in Messages, Turn(m)
  PROVE  MovesOn(m) \/ Spawned(m) \/ Over(m)
<1> USE DEF Stage
<1>1. CASE Rejected(m) \/ Fails(m) \/ Stored(m)
  BY <1>1 DEF Rejected, Fails, Stored, Over
<1>2. CASE Prepared(m) \/ Resolved(m) \/ Answered(m)
  BY <1>2 DEF Prepared, Resolved, Answered, MovesOn, Goto, TypeOK, extracting
<1>3. CASE Unresolved(m)
  BY <1>3 DEF Unresolved, MovesOn, Over, Goto, TypeOK, extracting
<1>4. CASE Extract(m)
  BY <1>4 DEF Extract, SpawnsAlone, MovesOn, Goto, TypeOK
<1> QED BY <1>1, <1>2, <1>3, <1>4 DEF Turn

(* Of the queue only Enqueue, ShutdownBegins and the end of a queued        *)
(* message know anything.                                                  *)
QueueTyped ==
  /\ messageQueue \in Seq(Queued) /\ Distinct(messageQueue)
  /\ Elements(messageQueue) = {m \in Messages : pc[m] = "queued"}

(* The conductor's pointer to the extraction process, the spawn under way  *)
(* and the processes that run agree.                                       *)
ExtractionExact ==
  /\ \A m \in Messages : pc[m] = "spawning" <=> spawnPromise = m
  /\ spawnPromise # NoOne => extraction # "alive"
  /\ extraction = "alive" => extractors # 0
  /\ OneExtractor

LEMMA EndOfQueued ==
  ASSUME TypeOK, NEW m \in Queued, Over(m)
  PROVE  /\ QueueTyped'
         /\ pc' \in [Messages -> {"new", "queued", "ended"} \union Stage]
         /\ messageQueue = <<>> => /\ messageQueue' = <<>> /\ processing' = FALSE
                                   /\ Executing' = Executing \ {m}
         /\ messageQueue # <<>> => /\ messageQueue' = Tail(messageQueue) /\ processing' = TRUE
                                   /\ Head(messageQueue) \in Queued
                                   /\ Executing' = (Executing \ {m}) \union {Head(messageQueue)}
         /\ \A n \in Messages : pc'[n] = "spawning" <=> pc[n] = "spawning"
<1>1. PICK r \in {"answered", "failed"} : Ends(m, r)
  BY DEF Over
<1>2. /\ ProcessQueue
      /\ pc' = [n \in Messages |-> IF n = m THEN "ended"
                                   ELSE IF n = Successor THEN "preparing" ELSE pc[n]]
  BY <1>1, MessagesAssumption DEF Ends
<1>3. QueueTyped /\ m \in Messages /\ pc[m] \in Stage \ {"spawning"}
  BY DEF TypeOK, QueueTyped, Waiting, Elements, Distinct, Messages, Over
<1>4. CASE messageQueue = <<>>
  <2>1. Successor = NoOne /\ messageQueue' = <<>> /\ processing' = FALSE
    BY <1>2, <1>4 DEF Successor, ProcessQueue
  <2>2. pc' = [pc EXCEPT ![m] = "ended"]
    BY <1>2, <2>1, MessagesAssumption DEF TypeOK, Messages
  <2>3. {n \in Messages : pc'[n] = "queued"} = {n \in Messages : pc[n] = "queued"}
    BY <1>3, <2>2 DEF TypeOK, Stage
  <2>4. QueueTyped'
    BY <1>3, <1>4, <2>1, <2>3 DEF QueueTyped
  <2>5. Executing' = Executing \ {m}
    BY <1>3, <2>2 DEF TypeOK, Stage, Executing, Messages
  <2>6. \A n \in Messages : pc'[n] = "spawning" <=> pc[n] = "spawning"
    BY <1>3, <2>2 DEF TypeOK
  <2>7. pc' \in [Messages -> {"new", "queued", "ended"} \union Stage]
    BY <2>2 DEF TypeOK
  <2> QED BY <1>4, <2>1, <2>4, <2>5, <2>6, <2>7
<1>5. CASE messageQueue # <<>>
  <2> DEFINE h == Head(messageQueue)
  <2>1. Successor = h /\ messageQueue' = Tail(messageQueue) /\ processing' = TRUE
    BY <1>2, <1>5 DEF Successor, ProcessQueue
  <2>2. /\ h \in Queued /\ Tail(messageQueue) \in Seq(Queued)
        /\ Distinct(Tail(messageQueue)) /\ h \in Elements(messageQueue)
        /\ Elements(Tail(messageQueue)) = Elements(messageQueue) \ {h}
    BY <1>3, <1>5, TailDistinct DEF QueueTyped
  <2>3. h \in Messages /\ pc[h] = "queued" /\ h # m
    BY <1>3, <2>2 DEF QueueTyped, Stage
  <2>4. pc' = [n \in Messages |-> IF n = m THEN "ended" ELSE IF n = h THEN "preparing" ELSE pc[n]]
    BY <1>2, <2>1
  <2> HIDE DEF h
  <2>5. {n \in Messages : pc'[n] = "queued"} = {n \in Messages : pc[n] = "queued"} \ {h}
    BY <1>3, <2>3, <2>4 DEF TypeOK, Stage
  <2>6. QueueTyped'
    <3> USE DEF h
    <3> QED BY <1>3, <2>1, <2>2, <2>5 DEF QueueTyped
  <2>7. Executing' = (Executing \ {m}) \union {h}
    BY <1>3, <2>2, <2>3, <2>4 DEF TypeOK, Stage, Executing, Messages
  <2>8. \A n \in Messages : pc'[n] = "spawning" <=> pc[n] = "spawning"
    BY <1>3, <2>3, <2>4 DEF TypeOK
  <2>9. pc' \in [Messages -> {"new", "queued", "ended"} \union Stage]
    BY <2>4 DEF TypeOK, Stage
  <2> QED BY <1>5, <2>1, <2>2, <2>6, <2>7, <2>8, <2>9 DEF h
<1> QED BY <1>4, <1>5
-----------------------------------------------------------------------------
(* Every variable has its type, the queue holds what waits, each once, and  *)
(* the extraction processes are counted right.                             *)
TypedAndExact == TypeOK /\ ExtractionExact

LEMMA TypedAndExactInvariant == Spec => []TypedAndExact
<1>1. Init => TypedAndExact
  <2> SUFFICES ASSUME Init PROVE TypedAndExact
    OBVIOUS
  <2>1. Waiting = {} /\ {m \in Messages : pc[m] = "queued"} = {}
    BY DEF Init, Waiting
  <2>2. <<>> \in Seq(Queued) /\ DOMAIN messageQueue = {}
    BY DEF Init
  <2>3. TypeOK
    BY <2>1, <2>2 DEF Init, TypeOK, Phase, Outcome
  <2>4. ExtractionExact
    BY MessagesAssumption DEF Init, ExtractionExact, OneExtractor, Messages
  <2> QED BY <2>3, <2>4 DEF TypedAndExact
<1>2. TypedAndExact /\ [Next]_vars => TypedAndExact'
  <2> SUFFICES ASSUME TypeOK, ExtractionExact, [Next]_vars PROVE TypeOK' /\ ExtractionExact'
    BY DEF TypedAndExact
  <2> DEFINE PcTyped == pc \in [Messages -> {"new", "queued", "ended"} \union Stage]
             Rest == /\ phase \in Phase /\ backend \in BOOLEAN /\ memory \in BOOLEAN
                     /\ processing \in BOOLEAN /\ outcome \in [Messages -> Outcome]
                     /\ aborted \subseteq Streamed
                     /\ extraction \in {"none", "alive", "dead"}
                     /\ spawnPromise \in Messages \union {NoOne} /\ extractors \in Nat
  <2>1. QueueTyped /\ PcTyped /\ Rest
    BY DEF TypeOK, QueueTyped, Waiting, Elements, Distinct
  <2>2. ASSUME QueueTyped', PcTyped', Rest', ExtractionExact' PROVE TypeOK' /\ ExtractionExact'
    BY <2>2 DEF TypeOK, QueueTyped, Waiting, Elements, Distinct
  <2>3. ASSUME UNCHANGED messageQueue, PcTyped',
               \A n \in Messages : pc'[n] = "queued" <=> pc[n] = "queued"
        PROVE  QueueTyped'
    BY <2>1, <2>3 DEF QueueTyped
  <2> HIDE DEF PcTyped, Rest
  <2> USE DEF Stage, Outcome
  <2>4. CASE Initialize
    <3>1. PcTyped' /\ Rest' /\ \A n \in Messages : pc'[n] = pc[n]
      BY <2>1, <2>4 DEF Initialize, extracting, Phase, PcTyped, Rest
    <3>2. ExtractionExact'
      BY <2>4 DEF ExtractionExact, OneExtractor, Initialize, extracting
    <3> QED BY <2>2, <2>3, <2>4, <3>1, <3>2 DEF Initialize
  <2>5. CASE ExtractionDies
    <3>1. extractors # 0 /\ extractors \in Nat
      BY <2>1, <2>5 DEF ExtractionDies, ExtractionExact, Rest
    <3>2. PcTyped' /\ Rest' /\ \A n \in Messages : pc'[n] = pc[n]
      BY <2>1, <2>5, <3>1 DEF ExtractionDies, given, PcTyped, Rest
    <3>3. ExtractionExact'
      BY <2>1, <2>5, <3>1 DEF ExtractionExact, OneExtractor, ExtractionDies
    <3> QED BY <2>2, <2>3, <2>5, <3>2, <3>3 DEF ExtractionDies
  <2>6. ASSUME NEW m \in Queued, Enqueue(m) PROVE TypeOK' /\ ExtractionExact'
    <3>1. m \in Messages /\ pc[m] = "new" /\ m \notin Elements(messageQueue)
      BY <2>1, <2>6 DEF Enqueue, QueueTyped, Messages
    <3>2. pc' = [pc EXCEPT ![m] = "queued"]
      BY <2>6 DEF Enqueue
    <3>3. {n \in Messages : pc'[n] = "queued"} = {n \in Messages : pc[n] = "queued"} \union {m}
      BY <2>1, <3>1, <3>2 DEF PcTyped
    <3>4. QueueTyped'
      BY <2>1, <2>6, <3>1, <3>3, AppendDistinct DEF Enqueue, QueueTyped
    <3>5. PcTyped' /\ Rest'
      BY <2>1, <2>6 DEF Enqueue, given, extracting, PcTyped, Rest
    <3>6. ExtractionExact'
      BY <2>1, <2>6, <3>1, <3>2 DEF ExtractionExact, OneExtractor, Enqueue, extracting, PcTyped
    <3> QED BY <2>2, <3>4, <3>5, <3>6
  <2>7. ASSUME NEW m \in Messages, Refused(m) \/ Execute(m) \/ Stream(m) PROVE TypeOK' /\ ExtractionExact'
    <3>1. pc[m] = "new" /\ UNCHANGED <<messageQueue, phase, extraction, spawnPromise, extractors>>
      BY <2>7 DEF Refused, Execute, Stream, extracting
    <3>2. pc' = [pc EXCEPT ![m] = "ended"] \/ pc' = [pc EXCEPT ![m] = "preparing"]
      BY <2>7 DEF Refused, Execute, Stream
    <3>3. PcTyped' /\ Rest'
      BY <2>1, <2>7, <3>1, <3>2 DEF Refused, Execute, Stream, given, PcTyped, Rest
    <3>4. \A n \in Messages : (pc'[n] = "queued" <=> pc[n] = "queued")
                              /\ (pc'[n] = "spawning" <=> pc[n] = "spawning")
      BY <2>1, <3>1, <3>2 DEF PcTyped
    <3>5. ExtractionExact'
      BY <3>1, <3>4 DEF ExtractionExact, OneExtractor
    <3> QED BY <2>2, <2>3, <3>1, <3>3, <3>4, <3>5
  <2>8. ASSUME NEW m \in Messages, MovesOn(m) PROVE TypeOK' /\ ExtractionExact'
    <3>1. PICK s \in Stage : Goto(m, s)
      BY <2>8 DEF MovesOn
    <3>2. pc[m] \in Stage \ {"spawning"} /\ pc' = [pc EXCEPT ![m] = s]
      BY <2>8, <3>1 DEF MovesOn, Goto
    <3>3. PcTyped' /\ Rest'
      BY <2>1, <2>8, <3>1 DEF MovesOn, Goto, given, PcTyped, Rest
    <3>4. \A n \in Messages : pc'[n] = "queued" <=> pc[n] = "queued"
      BY <2>1, <3>2 DEF PcTyped
    <3>5. ExtractionExact'
      BY <2>1, <2>8, <3>1, <3>2, MessagesAssumption
        DEF MovesOn, Goto, ExtractionExact, OneExtractor, PcTyped, Messages
    <3> QED BY <2>2, <2>3, <3>1, <3>3, <3>4, <3>5 DEF Goto
  <2>9. ASSUME NEW m \in Messages, Spawned(m) PROVE TypeOK' /\ ExtractionExact'
    <3>1. /\ pc[m] = "spawning" /\ spawnPromise = m /\ spawnPromise # NoOne /\ extraction # "alive"
          /\ \A n \in Messages : pc[n] = "spawning" => n = m
      BY <2>9, MessagesAssumption DEF Spawned, ExtractionExact, Messages
    <3>2. pc' = [n \in Messages |-> IF n = m \/ pc[n] = "awaiting" THEN "storing" ELSE pc[n]]
      BY <2>9 DEF Spawned
    <3>3. PcTyped' /\ Rest'
      BY <2>1, <2>9, <3>2 DEF Spawned, given, PcTyped, Rest
    <3>4. \A n \in Messages : (pc'[n] = "queued" <=> pc[n] = "queued") /\ pc'[n] # "spawning"
      BY <3>1, <3>2
    <3>5. ExtractionExact'
      BY <2>1, <2>9, <3>1, <3>4, MessagesAssumption
        DEF Spawned, ExtractionExact, OneExtractor, Rest, Messages
    <3> QED BY <2>2, <2>3, <2>9, <3>3, <3>4, <3>5 DEF Spawned
  <2>10. ASSUME NEW m \in Messages, Over(m) PROVE TypeOK' /\ ExtractionExact'
    <3>1. PICK r \in {"answered", "failed"} : Ends(m, r)
      BY <2>10 DEF Over
    <3>2. UNCHANGED <<phase, extraction, spawnPromise, extractors>>
      BY <3>1 DEF Ends, extracting
    <3>3. CASE m \in Queued
      <4>1. QueueTyped' /\ PcTyped' /\ \A n \in Messages : pc'[n] = "spawning" <=> pc[n] = "spawning"
        BY <2>10, <3>3, EndOfQueued DEF PcTyped
      <4>2. processing' \in BOOLEAN
        BY <2>10, <3>3, EndOfQueued
      <4>3. Rest'
        BY <2>1, <3>1, <4>2 DEF Ends, given, extracting, Rest
      <4>4. ExtractionExact'
        BY <3>2, <4>1 DEF ExtractionExact, OneExtractor
      <4> QED BY <2>2, <4>1, <4>3, <4>4
    <3>4. CASE m \in Streamed
      <4>1. pc' = [pc EXCEPT ![m] = "ended"] /\ UNCHANGED <<messageQueue, processing>>
        BY <3>1, <3>4, MessagesAssumption DEF Ends
      <4>2. PcTyped' /\ Rest'
        BY <2>1, <3>1, <4>1 DEF Ends, given, extracting, PcTyped, Rest
      <4>3. \A n \in Messages : (pc'[n] = "queued" <=> pc[n] = "queued")
                                /\ (pc'[n] = "spawning" <=> pc[n] = "spawning")
        BY <2>1, <2>10, <4>1 DEF Over, PcTyped
      <4>4. ExtractionExact'
        BY <3>2, <4>3 DEF ExtractionExact, OneExtractor
      <4> QED BY <2>2, <2>3, <4>1, <4>2, <4>3, <4>4
    <3> QED BY <3>3, <3>4 DEF Messages
  <2>11. CASE ShutdownBegins
    <3>1. Waiting = {m \in Messages : pc[m] = "queued"}
      BY DEF TypeOK
    <3>2. pc' = [m \in Messages |-> IF m \in Waiting THEN "ended" ELSE pc[m]]
      BY <2>11 DEF ShutdownBegins
    <3>3. \A n \in Messages : pc'[n] # "queued" /\ (pc'[n] = "spawning" <=> pc[n] = "spawning")
      BY <3>1, <3>2
    <3>4. QueueTyped'
      BY <2>11, <3>3 DEF ShutdownBegins, QueueTyped, Elements, Distinct
    <3>5. PcTyped' /\ Rest'
      BY <2>1, <2>11, <3>2 DEF ShutdownBegins, RejectQueue, given, extracting, Phase, PcTyped, Rest
    <3>6. ExtractionExact'
      BY <2>11, <3>3 DEF ShutdownBegins, ExtractionExact, OneExtractor, extracting
    <3> QED BY <2>2, <3>4, <3>5, <3>6
  <2>12. CASE StopExtraction \/ ForgetExtraction \/ ShutdownEnds
    <3>1. UNCHANGED <<messageQueue, pc>> /\ PcTyped' /\ \A n \in Messages : pc'[n] = pc[n]
      BY <2>1, <2>12 DEF StopExtraction, ForgetExtraction, ShutdownEnds, PcTyped
    <3>2. extraction = "alive" => extractors - 1 \in Nat
      BY <2>1 DEF ExtractionExact, Rest
    <3>3. Rest'
      BY <2>1, <2>12, <3>2 DEF StopExtraction, ForgetExtraction, ShutdownEnds, given, extracting, Phase, Rest
    <3>4. ExtractionExact'
      BY <2>1, <2>12, <3>1
        DEF StopExtraction, ForgetExtraction, ShutdownEnds, ExtractionExact, OneExtractor, extracting, Rest
    <3> QED BY <2>2, <2>3, <3>1, <3>3, <3>4
  <2>13. CASE UNCHANGED vars
    <3>1. QueueTyped' /\ PcTyped' /\ Rest' /\ ExtractionExact'
      BY <2>1, <2>13 DEF vars, QueueTyped, PcTyped, Rest, ExtractionExact, OneExtractor, Elements, Distinct
    <3> QED BY <2>2, <3>1
  <2>14. ASSUME NEW m \in Messages, Turn(m) PROVE TypeOK' /\ ExtractionExact'
    BY <2>8, <2>9, <2>10, <2>14, TurnCases
  <2> QED BY <2>4, <2>5, <2>6, <2>7, <2>11, <2>12, <2>13, <2>14 DEF Next, Messages
<1> QED BY <1>1, <1>2, PTL DEF Spec

(* Every variable has its type, and the queue holds each waiting message once. *)
THEOREM TypeCorrect == Spec => []TypeOK
<1>1. TypedAndExact => TypeOK
  BY DEF TypedAndExact
<1> QED BY <1>1, TypedAndExactInvariant, PTL

(* Until the shutdown no more than one extraction process runs, and it is   *)
(* the one the conductor points to.                                         *)
THEOREM ExtractorCorrect == Spec => []OneExtractor
<1>1. TypedAndExact => OneExtractor
  BY DEF TypedAndExact, ExtractionExact
<1> QED BY <1>1, TypedAndExactInvariant, PTL
-----------------------------------------------------------------------------
(* In every step but the four below the queue sees nothing change.         *)
SameForQueue ==
  /\ UNCHANGED <<messageQueue, processing>>
  /\ (phase \in {"new", "up"})' <=> phase \in {"new", "up"}
  /\ \A m \in Queued : /\ outcome'[m] = outcome[m]
                       /\ pc'[m] \in Stage <=> pc[m] \in Stage
                       /\ pc'[m] = "new" <=> pc[m] = "new"

LEMMA QueueSteps ==
  ASSUME TypeOK, [Next]_vars
  PROVE  \/ SameForQueue \/ ShutdownBegins
         \/ \E m \in Queued : Enqueue(m) \/ Execute(m) \/ Refused(m) \/ Over(m)
<1> USE DEF Stage
<1> SUFFICES ASSUME ~ShutdownBegins,
                    \A m \in Queued : ~(Enqueue(m) \/ Execute(m) \/ Refused(m) \/ Over(m))
             PROVE  SameForQueue
  OBVIOUS
<1>1. pc \in [Messages -> {"new", "queued", "ended"} \union Stage] /\ outcome \in [Messages -> Outcome]
  BY DEF TypeOK
<1>2. CASE Initialize \/ ExtractionDies \/ StopExtraction \/ ForgetExtraction \/ ShutdownEnds \/ UNCHANGED vars
  BY <1>2 DEF Initialize, ExtractionDies, StopExtraction, ForgetExtraction, ShutdownEnds, vars, SameForQueue
<1>3. ASSUME NEW m \in Streamed, Stream(m) \/ Refused(m) \/ Over(m) PROVE SameForQueue
  <2>1. m \in Messages /\ m \notin Queued
    BY MessagesAssumption DEF Messages
  <2>2. UNCHANGED <<messageQueue, processing, phase>>
    BY <1>3, <2>1 DEF Stream, Refused, Over, Ends
  <2>3. \E s \in Stage \union {"ended"} : pc' = [pc EXCEPT ![m] = s]
    BY <1>3, <2>1 DEF Stream, Refused, Over, Ends
  <2>4. outcome' = outcome \/ \E r \in Outcome : outcome' = [outcome EXCEPT ![m] = r]
    BY <1>3 DEF Stream, Refused, Over, Ends, Outcome
  <2> QED BY <1>1, <2>1, <2>2, <2>3, <2>4 DEF SameForQueue, Messages
<1>4. ASSUME NEW m \in Messages, MovesOn(m) PROVE SameForQueue
  BY <1>1, <1>4 DEF MovesOn, Goto, SameForQueue, Messages
<1>5. ASSUME NEW m \in Messages, Spawned(m) PROVE SameForQueue
  <2>1. pc' = [n \in Messages |-> IF n = m \/ pc[n] = "awaiting" THEN "storing" ELSE pc[n]]
    BY <1>5 DEF Spawned
  <2>2. \A n \in Messages : /\ pc'[n] \in Stage <=> pc[n] \in Stage
                           /\ pc'[n] = "new" <=> pc[n] = "new"
    BY <1>1, <1>5, <2>1 DEF Spawned
  <2> QED BY <1>5, <2>2 DEF Spawned, SameForQueue, Messages
<1> QED BY <1>2, <1>3, <1>4, <1>5, TurnCases DEF Next, Messages

(* What waits in the queue waits for a message that is being executed.      *)
LEMMA QueueInvariant == Spec => [](TypeOK /\ QueueIsServed)
<1>1. Init => QueueIsServed
  BY DEF Init, QueueIsServed, Executing, Messages, Stage
<1>2. TypeOK /\ QueueIsServed /\ [Next]_vars => QueueIsServed'
  <2> SUFFICES ASSUME TypeOK, QueueIsServed, [Next]_vars PROVE QueueIsServed'
    OBVIOUS
  <2>1. CASE SameForQueue
    <3>1. Executing' = Executing
      BY <2>1 DEF SameForQueue, Executing
    <3> QED BY <2>1, <3>1 DEF SameForQueue, QueueIsServed
  <2>2. CASE ShutdownBegins
    BY <2>2 DEF ShutdownBegins, QueueIsServed
  <2>3. ASSUME NEW m \in Queued, Enqueue(m) \/ Refused(m) PROVE QueueIsServed'
    <3>1. Executing' = Executing /\ UNCHANGED <<phase, processing>>
      BY <2>3 DEF Enqueue, Refused, Executing, TypeOK, Stage, Messages
    <3>2. messageQueue' # <<>> => processing
      BY <2>3 DEF Enqueue, Refused, QueueIsServed
    <3> QED BY <3>1, <3>2 DEF QueueIsServed
  <2>4. ASSUME NEW m \in Queued, Execute(m) PROVE QueueIsServed'
    <3>1. Executing' = Executing \union {m} /\ processing' = TRUE /\ UNCHANGED phase /\ ~processing
      BY <2>4 DEF Execute, MayExecute, Executing, TypeOK, Stage, Messages
    <3> QED BY <3>1 DEF QueueIsServed
  <2>5. ASSUME NEW m \in Queued, Over(m) PROVE QueueIsServed'
    <3>1. UNCHANGED phase /\ m \in Executing
      BY <2>5 DEF Over, Ends, Executing
    <3>2. CASE messageQueue = <<>>
      BY <2>5, <3>1, <3>2, EndOfQueued DEF QueueIsServed
    <3>3. CASE messageQueue # <<>>
      BY <2>5, <3>1, <3>3, EndOfQueued DEF QueueIsServed
    <3> QED BY <3>2, <3>3
  <2> QED BY <2>1, <2>2, <2>3, <2>4, <2>5, QueueSteps
<1> QED BY <1>1, <1>2, TypeCorrect, PTL DEF Spec

(* A message never waits in the queue of an idle conductor, and until the   *)
(* shutdown one message at a time is executed.                              *)
THEOREM QueueCorrect == Spec => []QueueIsServed
BY QueueInvariant, PTL

(* The caller of a message that has not come in was told nothing. *)
NewIsUntold == \A m \in Queued : pc[m] = "new" => outcome[m] = "none"

LEMMA NewIsUntoldInvariant == Spec => []NewIsUntold
<1>1. Init => NewIsUntold
  BY DEF Init, NewIsUntold, Messages
<1>2. TypeOK /\ NewIsUntold /\ [Next]_vars => NewIsUntold'
  <2> SUFFICES ASSUME TypeOK, NewIsUntold, [Next]_vars, NEW n \in Queued, pc'[n] = "new"
               PROVE  outcome'[n] = "none"
    BY DEF NewIsUntold
  <2>1. n \in Messages /\ (pc[n] = "new" => outcome[n] = "none")
    BY DEF Messages, NewIsUntold
  <2>2. CASE SameForQueue
    BY <2>1, <2>2 DEF SameForQueue
  <2>3. CASE ShutdownBegins
    BY <2>1, <2>3 DEF ShutdownBegins, RejectQueue
  <2>4. ASSUME NEW m \in Queued, Enqueue(m) \/ Execute(m) \/ Refused(m) PROVE outcome'[n] = "none"
    BY <2>1, <2>4 DEF Enqueue, Execute, Refused, TypeOK, Messages
  <2>5. ASSUME NEW m \in Queued, Over(m) PROVE outcome'[n] = "none"
    <3>1. PICK r \in {"answered", "failed"} : Ends(m, r)
      BY <2>5 DEF Over
    <3>2. pc' = [k \in Messages |-> IF k = m THEN "ended"
                                   ELSE IF k = Successor THEN "preparing" ELSE pc[k]]
      BY <3>1, MessagesAssumption DEF Ends
    <3>3. n # m /\ pc[n] = "new"
      BY <2>1, <3>2
    <3> QED BY <2>1, <3>1, <3>3 DEF Ends, TypeOK
  <2> QED BY <2>2, <2>3, <2>4, <2>5, QueueSteps
<1> QED BY <1>1, <1>2, TypeCorrect, PTL DEF Spec

(* handleMessage() is the serial queue of SerialQueue.tla.                  *)
THEOREM Refinement == Spec => ImplementsSerialQueue
<1> USE DEF Queue!Unknown, Queue!InLine
<1>1. Init => Queue!Init
  BY DEF Init, Queue!Init, Executing, Messages, Stage
<1>2. TypeOK /\ QueueIsServed /\ NewIsUntold /\ [Next]_vars => [Queue!Next]_Queue!svars
  <2> SUFFICES ASSUME TypeOK, QueueIsServed, NewIsUntold, [Next]_vars PROVE [Queue!Next]_Queue!svars
    OBVIOUS
  <2> DEFINE Told == [m \in Queued |-> outcome[m]]
             Open == phase \in {"new", "up"}
  <2>1. CASE SameForQueue
    <3>1. Executing' = Executing /\ Told' = Told /\ Open' = Open /\ messageQueue' = messageQueue
      BY <2>1 DEF SameForQueue, Executing
    <3> QED BY <3>1 DEF Queue!svars
  <2>2. /\ {messageQueue[i] : i \in DOMAIN messageQueue} = Waiting
        /\ \A m \in Queued : pc[m] = "new" => m \notin Waiting \union Executing
    BY DEF Waiting, Executing, TypeOK, Messages, Stage
  <2>3. CASE ShutdownBegins
    <3>1. Executing' = Executing /\ Open /\ ~Open'
      BY <2>3 DEF ShutdownBegins, Executing, TypeOK, Stage, Messages
    <3>2. Told' = [m \in Queued |-> IF m \in Waiting THEN "refused" ELSE Told[m]]
      BY <2>3 DEF ShutdownBegins, RejectQueue, Messages
    <3>3. Queue!Close
      BY <2>2, <2>3, <3>1, <3>2 DEF ShutdownBegins, Queue!Close
    <3> QED BY <3>3 DEF Queue!Next
  <2>4. ASSUME NEW m \in Queued, Enqueue(m), outcome[m] = "none" PROVE Queue!LineUp(m)
    <3>1. Executing' = Executing /\ Told' = Told /\ Open' = Open
      BY <2>4 DEF Enqueue, Executing, TypeOK, Stage, Messages
    <3> QED BY <2>2, <2>4, <3>1 DEF Enqueue, QueueIsServed, Queue!LineUp
  <2>5. ASSUME NEW m \in Queued, Refused(m), outcome[m] = "none" PROVE Queue!Refuse(m)
    <3>1. Executing' = Executing /\ Open' = Open /\ messageQueue' = messageQueue
      BY <2>5 DEF Refused, Executing, TypeOK, Stage, Messages
    <3>2. Told' = [Told EXCEPT ![m] = "refused"]
      BY <2>5 DEF Refused, TypeOK, Messages
    <3> QED BY <2>2, <2>5, <3>1, <3>2 DEF Refused, Queue!Refuse
  <2>6. ASSUME NEW m \in Queued, Execute(m), outcome[m] = "none" PROVE Queue!Start(m)
    <3>1. Executing' = Executing \union {m} /\ Told' = Told /\ Open' = Open /\ messageQueue' = messageQueue
      BY <2>6 DEF Execute, Executing, TypeOK, Stage, Messages
    <3>2. messageQueue = <<>> /\ (Open => Executing = {})
      BY <2>6 DEF Execute, MayExecute, QueueIsServed
    <3> QED BY <2>2, <2>6, <3>1, <3>2 DEF Execute, Queue!Start
  <2>7. ASSUME NEW m \in Queued, Over(m) PROVE Queue!End(m)
    <3>1. PICK r \in {"answered", "failed"} : Ends(m, r)
      BY <2>7 DEF Over
    <3>2. Told' = [Told EXCEPT ![m] = r] /\ Open' = Open /\ m \in Executing
      BY <2>7, <3>1 DEF Over, Ends, Executing, TypeOK, Messages
    <3>3. \E o \in Queue!Final : Told' = [Told EXCEPT ![m] = o]
      BY <3>2 DEF Queue!Final
    <3>4. CASE messageQueue = <<>>
      BY <2>7, <3>2, <3>3, <3>4, EndOfQueued DEF Queue!End
    <3>5. CASE messageQueue # <<>>
      BY <2>7, <3>2, <3>3, <3>5, EndOfQueued DEF Queue!End
    <3> QED BY <3>4, <3>5
  <2>8. \A m \in Queued : pc[m] = "new" => outcome[m] = "none"
    BY DEF NewIsUntold
  <2> QED BY <2>1, <2>3, <2>4, <2>5, <2>6, <2>7, <2>8, QueueSteps
        DEF Enqueue, Refused, Execute, Queue!Next
<1> QED BY <1>1, <1>2, QueueInvariant, NewIsUntoldInvariant, PTL DEF Spec, ImplementsSerialQueue, Queue!Spec

-----------------------------------------------------------------------------
(***************************************************************************)
(* The conductor's pipeline, TurnPipeline: what refusals and cuts promise  *)
(* of a turn, for any number of turns, of plugins with any hooks and       *)
(* priorities, and of system actions.                                      *)
(***************************************************************************)
(* The stages a turn passes once it was told to be over, or needs no event. *)
AfterTheEnd == {"ending", "after_response", "act", "extractor", "before_store",
                "extract", "question", "answered"}

TurnTypes ==
  /\ stage \in [Turns -> TurnStage]
  /\ value \in [Turns -> {"given", "null", "changed"}]
  /\ acted \in [Turns -> Nat]
  /\ stored \in [Turns -> SUBSET {"question", "entities", "reply"}]

(* Nothing is asked, done or stored ahead of its stage. *)
InOrder ==
  \A t \in Turns :
    /\ stage[t] \in {"new", "before_message"} => t \notin asked /\ acted[t] = 0
    /\ stage[t] \notin {"answered", "done"} => stored[t] = {}

(* While a hook that can refuse runs, the turn is refused exactly if the   *)
(* waterfall's current value is null; a refused turn goes no further.      *)
RefusalIsValue ==
  \A t \in Turns :
    /\ stage[t] = "before_message" => (t \in refused <=> value[t] = "null")
    /\ t \in refused => stage[t] \in {"before_message", "done"}
    /\ stage[t] = "before_store" => (t \in vetoed <=> value[t] = "null")
    /\ t \in vetoed => stage[t] \in {"before_store", "done"}

(* A streamed turn gets to its hooks and actions only through an event     *)
(* that was heard.                                                         *)
OverBeforeTheEnd ==
  \A t \in Turns : kind[t] = "streamed" /\ stage[t] \in AfterTheEnd => t \in over

TurnInv == TurnTypes /\ InOrder /\ RefusalIsValue /\ OverBeforeTheEnd
           /\ RefusalsHold /\ CutLeavesNoTrace

(* The same, turn by turn. *)
TurnOK(t) ==
  /\ stage[t] \in {"new", "before_message"} => t \notin asked /\ acted[t] = 0
  /\ stage[t] \notin {"answered", "done"} => stored[t] = {}
  /\ stage[t] = "before_message" => (t \in refused <=> value[t] = "null")
  /\ t \in refused => stage[t] \in {"before_message", "done"}
  /\ stage[t] = "before_store" => (t \in vetoed <=> value[t] = "null")
  /\ t \in vetoed => stage[t] \in {"before_store", "done"}
  /\ kind[t] = "streamed" /\ stage[t] \in AfterTheEnd => t \in over
  /\ t \in refused => t \notin asked /\ acted[t] = 0
  /\ t \in refused \union vetoed => stored[t] = {}
  /\ kind[t] = "streamed" /\ t \notin over => acted[t] = 0 /\ stored[t] = {}

LEMMA TurnByTurn == TurnInv <=> TurnTypes /\ \A t \in Turns : TurnOK(t)
BY DEF TurnInv, InOrder, RefusalIsValue, OverBeforeTheEnd, RefusalsHold,
   CutLeavesNoTrace, TurnOK

LEMMA TurnByTurnNext == TurnInv' <=> (TurnTypes /\ \A t \in Turns : TurnOK(t))'
BY TurnByTurn, PTL

(* What a step of turn t leaves of turn u. *)
Untouched(u) ==
  /\ stage'[u] = stage[u] /\ value'[u] = value[u] /\ acted'[u] = acted[u]
  /\ stored'[u] = stored[u] /\ kind'[u] = kind[u]
  /\ u \in asked' <=> u \in asked
  /\ u \in refused' <=> u \in refused
  /\ u \in vetoed' <=> u \in vetoed
  /\ u \in over' <=> u \in over

LEMMA UntouchedStays ==
  ASSUME NEW u \in Turns, TurnOK(u), Untouched(u)
  PROVE  TurnOK(u)'
BY DEF TurnOK, Untouched

(* A step from one stage to another, with a hook's handlers or without.    *)
LEMMA Enters ==
  ASSUME TurnTypes, NEW t \in Turns, NEW where \in TurnStage,
         Goes(t, where) \/ Emit(t, where)
  PROVE  /\ stage' \in [Turns -> TurnStage] /\ value' \in [Turns -> {"given", "null", "changed"}]
         /\ stage'[t] = where /\ value'[t] = "given"
         /\ \A u \in Turns \ {t} : stage'[u] = stage[u] /\ value'[u] = value[u]
BY DEF TurnTypes, Goes, Emit, To

(* A step of turn t that only enters a stage, or also hears its last event *)
(* or asks a backend.                                                      *)
LEMMA EntersOnly ==
  ASSUME TurnInv, NEW t \in Turns, NEW where \in TurnStage,
         Goes(t, where) \/ Emit(t, where),
         UNCHANGED <<kind, refused, vetoed, acted, stored>>,
         over' \in {over, over \union {t}}, asked' \in {asked, asked \union {t}},
         stage[t] # "done", stage[t] = "answered" => where = "done",
         where \notin {"new", "answered"},
         where = "before_message" => stage[t] = "new",
         where # "done" => t \notin refused /\ t \notin vetoed,
         asked' # asked => t \notin refused /\ where \notin {"new", "before_message"},
         kind[t] = "streamed" /\ where \in AfterTheEnd => t \in over'
  PROVE  TurnInv'
<1>1. TurnTypes /\ TurnOK(t) /\ \A u \in Turns : TurnOK(u)
  BY TurnByTurn
<1>2. /\ stage' \in [Turns -> TurnStage] /\ value' \in [Turns -> {"given", "null", "changed"}]
      /\ stage'[t] = where /\ value'[t] = "given"
      /\ \A u \in Turns \ {t} : stage'[u] = stage[u] /\ value'[u] = value[u]
  BY <1>1, Enters
<1>3. TurnTypes'
  BY <1>1, <1>2 DEF TurnTypes
<1>4. \A u \in Turns \ {t} : Untouched(u)
  BY <1>2 DEF Untouched
<1>5. TurnOK(t)'
  BY <1>1, <1>2 DEF TurnOK
<1> QED BY <1>1, <1>3, <1>4, <1>5, UntouchedStays, TurnByTurnNext

LEMMA TurnInvKept == TurnInv /\ [TurnNext]_turnVars => TurnInv'
<1> SUFFICES ASSUME TurnInv, [TurnNext]_turnVars PROVE TurnInv'
  OBVIOUS
<1>1. TurnTypes /\ \A u \in Turns : TurnOK(u)
  BY TurnByTurn
<1>2. ASSUME UNCHANGED <<kind, stage, value, over, refused, vetoed, asked, acted, stored>>
      PROVE  TurnInv'
  BY <1>1, <1>2, UntouchedStays, TurnByTurnNext DEF TurnTypes, Untouched
<1>3. CASE PluginStep \/ UNCHANGED turnVars
  BY <1>2, <1>3 DEF PluginStep, turnVars, fixed, ghosts
<1>4. ASSUME NEW t \in Turns, TurnStep(t) PROVE TurnInv'
  <2>1. TurnOK(t) /\ stage[t] \in TurnStage /\ kind' = kind
    BY <1>1, <1>4 DEF TurnTypes, TurnStep, fixed, Begin,
       Handle, Prepare, Searched, Augmented,
       Dispatch, Ask, Chunk, LeaveCut, LastEvent,
       Throws, EventTooMany, EndOfStream, Filtered,
       Act, ActionsDone, ExtractorReady, StoreFiltered,
       Extracted, StoreQuestion, StoreReply, Cut
  <2>2. CASE Chunk(t) \/ Cut(t)
    BY <1>2, <2>1, <2>2 DEF Chunk, Cut, ghosts
  <2>3. CASE Handle(t)
    <3>1. /\ stage[t] \in HookName
          /\ UNCHANGED <<stage, over, asked, acted, stored>>
      BY <2>3 DEF Handle
    <3>2. \/ UNCHANGED <<value, refused, vetoed>>
          \/ \E answer \in {"null", "changed"} :
               /\ value' = [value EXCEPT ![t] = answer]
               /\ refused' = IF stage[t] = "before_message"
                             THEN IF answer = "null" THEN refused \union {t} ELSE refused \ {t}
                             ELSE refused
               /\ vetoed' = IF stage[t] = "before_store"
                            THEN IF answer = "null" THEN vetoed \union {t} ELSE vetoed \ {t}
                            ELSE vetoed
      BY <2>3 DEF Handle, AnswerOf, Marked
    <3>3. CASE UNCHANGED <<value, refused, vetoed>>
      BY <1>2, <2>1, <3>1, <3>3
    <3>4. ASSUME NEW answer \in {"null", "changed"},
                 value' = [value EXCEPT ![t] = answer],
                 refused' = IF stage[t] = "before_message"
                            THEN IF answer = "null" THEN refused \union {t} ELSE refused \ {t}
                            ELSE refused,
                 vetoed' = IF stage[t] = "before_store"
                           THEN IF answer = "null" THEN vetoed \union {t} ELSE vetoed \ {t}
                           ELSE vetoed
          PROVE  TurnInv'
      <4>1. /\ value' \in [Turns -> {"given", "null", "changed"}] /\ value'[t] = answer
            /\ \A u \in Turns \ {t} : value'[u] = value[u]
        BY <1>1, <3>4 DEF TurnTypes
      <4>2. TurnTypes' /\ \A u \in Turns \ {t} : Untouched(u)
        BY <1>1, <2>1, <3>1, <3>4, <4>1 DEF TurnTypes, Untouched
      <4>3. TurnOK(t)'
        BY <2>1, <3>1, <3>4, <4>1 DEF TurnOK, HookName
      <4> QED BY <1>1, <4>2, <4>3, UntouchedStays, TurnByTurnNext
    <3> QED BY <3>2, <3>3, <3>4
  <2>4. CASE Act(t)
    <3>1. /\ stage[t] = "act" /\ acted' = [acted EXCEPT ![t] = @ + 1]
          /\ UNCHANGED <<kind, stage, value, over, refused, vetoed, asked, stored>>
      BY <2>4 DEF Act, fixed, ghosts
    <3>2. /\ acted' \in [Turns -> Nat] /\ \A u \in Turns \ {t} : acted'[u] = acted[u]
      BY <1>1, <3>1 DEF TurnTypes
    <3>3. TurnTypes' /\ \A u \in Turns \ {t} : Untouched(u)
      BY <1>1, <3>1, <3>2 DEF TurnTypes, Untouched
    <3>4. TurnOK(t)'
      BY <2>1, <3>1 DEF TurnOK, AfterTheEnd
    <3> QED BY <1>1, <3>3, <3>4, UntouchedStays, TurnByTurnNext
  <2>5. CASE StoreQuestion(t) \/ StoreReply(t)
    <3>1. /\ stage[t] \in {"question", "answered"}
          /\ \E where \in {"answered", "done"} : Goes(t, where)
          /\ UNCHANGED <<kind, over, refused, vetoed, asked, acted>>
      BY <2>5 DEF StoreQuestion, StoreReply, fixed, ghosts
    <3>2. /\ stored' \in [Turns -> SUBSET {"question", "entities", "reply"}]
          /\ \A u \in Turns \ {t} : stored'[u] = stored[u]
      <4>1. stored' = stored \/ \E what \in SUBSET {"question", "entities", "reply"} :
                                  stored' = [stored EXCEPT ![t] = what]
        BY <1>1, <2>5 DEF StoreQuestion, StoreReply, TurnTypes
      <4> QED BY <1>1, <4>1 DEF TurnTypes
    <3>3. PICK where \in {"answered", "done"} : Goes(t, where)
      BY <3>1
    <3>4. /\ stage' \in [Turns -> TurnStage] /\ value' \in [Turns -> {"given", "null", "changed"}]
          /\ stage'[t] \in {"answered", "done"}
          /\ \A u \in Turns \ {t} : stage'[u] = stage[u] /\ value'[u] = value[u]
      BY <1>1, <3>3, Enters DEF TurnStage
    <3>5. TurnTypes' /\ \A u \in Turns \ {t} : Untouched(u)
      BY <1>1, <3>1, <3>2, <3>4 DEF TurnTypes, Untouched
    <3>6. TurnOK(t)'
      BY <2>1, <3>1, <3>4 DEF TurnOK, AfterTheEnd
    <3> QED BY <1>1, <3>5, <3>6, UntouchedStays, TurnByTurnNext
  <2> DEFINE Unrefused == t \notin refused /\ t \notin vetoed
  <2>6. stage[t] \notin {"before_message", "before_store", "done"} => Unrefused
    BY <2>1 DEF TurnOK
  <2>7. /\ HookName \subseteq TurnStage
        /\ {"done", "search", "resolve", "agent", "backend", "ending", "act", "extractor",
            "extract", "question"} \subseteq TurnStage
    BY DEF TurnStage
  <2>8. ASSUME NEW where \in TurnStage, Goes(t, where) \/ Emit(t, where),
               UNCHANGED <<kind, ghosts, acted, stored>>,
               stage[t] # "done", stage[t] = "answered" => where = "done",
               where \notin {"new", "answered"},
               where = "before_message" => stage[t] = "new",
               where # "done" => Unrefused,
               kind[t] = "streamed" /\ where \in AfterTheEnd => t \in over
        PROVE  TurnInv'
    BY <2>8, EntersOnly DEF ghosts
  <2>9. CASE Begin(t)
    BY <2>1, <2>6, <2>7, <2>8, <2>9 DEF Begin, HookName, AfterTheEnd
  <2>10. CASE Prepare(t)
    <3>1. IsRejected(t) <=> t \in refused
      BY <2>1, <2>10 DEF Prepare, Ran, IsRejected, TurnOK
    <3>2. t \notin vetoed
      BY <2>1, <2>10 DEF Prepare, Ran, TurnOK
    <3> QED BY <2>1, <2>7, <2>8, <2>10, <3>1, <3>2 DEF Prepare, Ran, AfterTheEnd
  <2>11. CASE Searched(t) \/ Augmented(t)
    BY <2>1, <2>6, <2>7, <2>8, <2>11 DEF Searched, Augmented, Ran,
       HookName, AfterTheEnd
  <2>12. CASE Dispatch(t)
    <3>1. stage[t] = "resolve" /\ UNCHANGED <<kind, over, refused, vetoed, acted, stored>>
      BY <2>1, <2>12 DEF Dispatch
    <3>2. CASE Goes(t, "agent") /\ asked' = asked \union {t}
      BY <2>1, <2>6, <2>7, <3>1, <3>2, EntersOnly DEF AfterTheEnd
    <3>3. CASE UNCHANGED asked /\ (Emit(t, "before_response") \/ Goes(t, "done"))
      BY <2>1, <2>6, <2>7, <2>8, <3>1, <3>3 DEF HookName, AfterTheEnd, ghosts
    <3>4. CASE UNCHANGED asked /\ kind[t] = "queued" /\ Emit(t, "after_response")
      BY <2>1, <2>6, <2>7, <2>8, <3>1, <3>4 DEF HookName, ghosts
    <3> QED BY <2>12, <3>2, <3>3, <3>4 DEF Dispatch
  <2>13. CASE Ask(t)
    BY <2>1, <2>6, <2>7, <2>13, EntersOnly DEF Ask, Ran, AfterTheEnd
  <2>14. CASE LeaveCut(t) \/ Throws(t) \/ EventTooMany(t)
    <3>1. stage[t] \in {"agent", "backend", "ending"} /\ UNCHANGED <<ghosts, acted, stored>>
      BY <2>14 DEF LeaveCut, Throws, EventTooMany, Answering
    <3>2. Goes(t, "done") \/ (kind[t] = "queued" /\ Emit(t, "after_response"))
      BY <2>14 DEF LeaveCut, Throws, EventTooMany
    <3>3. CASE Goes(t, "done")
      BY <2>1, <2>7, <2>8, <3>1, <3>3 DEF AfterTheEnd
    <3>4. CASE kind[t] = "queued" /\ Emit(t, "after_response")
      BY <2>1, <2>6, <2>7, <2>8, <3>1, <3>4 DEF HookName
    <3> QED BY <3>2, <3>3, <3>4
  <2>15. CASE LastEvent(t)
    <3>1. over' = over \union {t} /\ Goes(t, "ending") /\ stage[t] \in {"agent", "backend"}
          /\ UNCHANGED <<refused, vetoed, asked, acted, stored>>
      BY <2>15 DEF LastEvent, Listens, Answering
    <3> QED BY <2>1, <2>6, <2>7, <3>1, EntersOnly
  <2>16. stage[t] \in AfterTheEnd /\ kind[t] = "streamed" => t \in over
    BY <2>1 DEF TurnOK
  <2>17. CASE EndOfStream(t) \/ Filtered(t) \/ ActionsDone(t)
    <3>1. /\ stage[t] \in {"ending", "after_response", "act"}
          /\ \E where \in {"after_response", "act", "extractor", "done"} :
               Goes(t, where) \/ Emit(t, where)
          /\ UNCHANGED <<ghosts, acted, stored>>
      BY <2>17 DEF EndOfStream, Filtered, ActionsDone, Ran,
         Store
    <3> QED BY <2>1, <2>6, <2>7, <2>8, <2>16, <3>1 DEF HookName, AfterTheEnd
  <2>18. CASE ExtractorReady(t) \/ Extracted(t)
    BY <2>1, <2>6, <2>7, <2>8, <2>16, <2>18 DEF ExtractorReady, Extracted,
       HookName, AfterTheEnd
  <2>19. CASE StoreFiltered(t)
    <3>1. SkipsStore(t) <=> t \in vetoed
      BY <2>1, <2>19 DEF StoreFiltered, Ran, SkipsStore, TurnOK
    <3>2. t \notin refused
      BY <2>1, <2>19 DEF StoreFiltered, Ran, TurnOK
    <3> QED BY <2>1, <2>7, <2>8, <2>16, <2>19, <3>1, <3>2 DEF StoreFiltered,
       Ran, AfterTheEnd
  <2> QED BY <1>4, <2>2, <2>3, <2>4, <2>5, <2>9, <2>10, <2>11, <2>12, <2>13, <2>14, <2>15,
             <2>17, <2>18, <2>19 DEF TurnStep
<1> QED BY <1>3, <1>4 DEF TurnNext

LEMMA TurnsCorrect == TurnSpec => []TurnInv
<1>1. TurnInit => TurnInv
  <2> SUFFICES ASSUME TurnInit PROVE TurnInv
    OBVIOUS
  <2>1. \A t \in Turns : /\ stage[t] = "new" /\ stored[t] = {} /\ acted[t] = 0
                         /\ t \notin refused /\ t \notin vetoed /\ t \notin asked
    BY DEF TurnInit
  <2>2. TurnTypes
    BY DEF TurnInit, TurnTypes, TurnStage
  <2>3. \A t \in Turns : TurnOK(t)
    BY <2>1 DEF TurnOK, AfterTheEnd
  <2> QED BY <2>2, <2>3, TurnByTurn
<1> QED BY <1>1, TurnInvKept, PTL DEF TurnSpec

(***************************************************************************)
(* A message that `before_message` rejected, the rejection not undone by a *)
(* later handler, reaches no agent and no backend, has no system action    *)
(* executed and is not remembered; a turn that `before_store` vetoed is    *)
(* not remembered (the checks for null after the waterfalls).              *)
(***************************************************************************)
THEOREM RefusalsCorrect == TurnSpec => []RefusalsHold
<1>1. TurnInv => RefusalsHold
  BY DEF TurnInv
<1> QED BY <1>1, TurnsCorrect, PTL

(***************************************************************************)
(* A streamed turn that is cut before its last event was heard executes no *)
(* system action and stores nothing: no path leads from an aborted signal  *)
(* to finalizeResponse() or storeConversation().                           *)
(***************************************************************************)
THEOREM CutCorrect == TurnSpec => []CutLeavesNoTrace
<1>1. TurnInv => CutLeavesNoTrace
  BY DEF TurnInv
<1> QED BY <1>1, TurnsCorrect, PTL

-----------------------------------------------------------------------------
(* A plugin on which no calls overlapped has at most one call under way,   *)
(* its declared handlers exactly as long as it is loading or loaded, and   *)
(* otherwise none that bears its name.                                     *)
Declared(p) == {r \in RegistrationsOf(p) : r.how = "declared"}

PluginInOrder(p) ==
  /\ loading[p] + unloading[p] <= 1
  /\ loading[p] > 0 => listed[p] = "absent"
  /\ unloading[p] > 0 => listed[p] # "absent"
  /\ IF loading[p] > 0 \/ listed[p] = "loaded"
     THEN \E r \in handlers : Declared(p) = {r}
     ELSE RegistrationsOf(p) = {}

HandlersInv ==
  /\ loading \in [Plugins -> Nat] /\ unloading \in [Plugins -> Nat]
  /\ listed \in [Plugins -> {"absent", "loaded", "error"}]
  /\ \A p \in Plugins \ raced : PluginInOrder(p)

(* What the boot leaves, as TurnInit says it.                              *)
BootedWith(boot, own, place) ==
  LET made == [plugin : boot, how : {"declared"}] \union own IN
  /\ listed = [p \in Plugins |-> IF p \in boot THEN "loaded" ELSE "absent"]
  /\ handlers = {[plugin |-> m.plugin, how |-> m.how, place |-> place[m]] : m \in made}

(* A step that leaves a plugin alone. *)
LEMMA PluginStays ==
  ASSUME NEW p \in Plugins, PluginInOrder(p), loading'[p] = loading[p],
         unloading'[p] = unloading[p], listed'[p] = listed[p],
         \A r : r.plugin = p => (r \in handlers' <=> r \in handlers)
  PROVE  PluginInOrder(p)'
<1>1. RegistrationsOf(p)' = RegistrationsOf(p) /\ Declared(p)' = Declared(p)
  BY DEF RegistrationsOf, Declared
<1>2. \A r : Declared(p) = {r} => (r \in handlers /\ r \in handlers')
  BY <1>1 DEF RegistrationsOf, Declared
<1> QED BY <1>1, <1>2 DEF PluginInOrder

(* Calls that begin while another is under way are noted. *)
LEMMA OverlapNoted ==
  ASSUME HandlersInv, NEW p \in Plugins, raced' = Overlaps(p), p \notin raced'
  PROVE  p \notin raced /\ PluginInOrder(p) /\ loading[p] = 0 /\ unloading[p] = 0
<1>1. loading[p] \in Nat /\ unloading[p] \in Nat
  BY DEF HandlersInv
<1>2. p \notin raced /\ ~(loading[p] + unloading[p] > 0)
  BY DEF Overlaps
<1> QED BY <1>1, <1>2 DEF HandlersInv

LEMMA RegistersOne ==
  ASSUME NEW p \in Plugins, NEW how, handlers' = Registered(p, how)
  PROVE  /\ RegistrationsOf(p) = {} /\ how = "declared" => \E r \in handlers' : Declared(p)' = {r}
         /\ how # "declared" => Declared(p)' = Declared(p)
         /\ handlers \subseteq handlers'
         /\ \A r : r.plugin # p => (r \in handlers' <=> r \in handlers)
<1> DEFINE place == 1 + Max({0} \union {r.place : r \in handlers})
           new == [plugin |-> p, how |-> how, place |-> place]
<1>1. handlers' = handlers \union {new}
  BY DEF Registered
<1> HIDE DEF place
<1>2. new.plugin = p /\ new.how = how
  OBVIOUS
<1> HIDE DEF new
<1>3. RegistrationsOf(p) = {} /\ how = "declared" => Declared(p)' = {new}
  BY <1>1, <1>2 DEF RegistrationsOf, Declared
<1>4. how # "declared" => Declared(p)' = Declared(p)
  BY <1>1, <1>2 DEF RegistrationsOf, Declared
<1> QED BY <1>1, <1>2, <1>3, <1>4

LEMMA UnregistersAll ==
  ASSUME NEW p \in Plugins, handlers' = UnregisterPlugin(p)
  PROVE  /\ RegistrationsOf(p)' = {}
         /\ \A r : r.plugin # p => (r \in handlers' <=> r \in handlers)
BY DEF UnregisterPlugin, RegistrationsOf

LEMMA HandlersKept == HandlersInv /\ [TurnNext]_turnVars => HandlersInv'
<1> SUFFICES ASSUME HandlersInv, [TurnNext]_turnVars PROVE HandlersInv'
  OBVIOUS
<1>1. ASSUME UNCHANGED <<listed, handlers, loading, unloading, raced>>
      PROVE  HandlersInv'
  BY <1>1 DEF HandlersInv, PluginInOrder, RegistrationsOf, Declared
(* A call on p: the others stay as they are. *)
<1>2. ASSUME NEW p \in Plugins, raced \subseteq raced', raced' \subseteq raced \union {p},
             loading' \in [Plugins -> Nat], unloading' \in [Plugins -> Nat],
             listed' \in [Plugins -> {"absent", "loaded", "error"}],
             \A q \in Plugins \ {p} : /\ loading'[q] = loading[q]
                                      /\ unloading'[q] = unloading[q]
                                      /\ listed'[q] = listed[q],
             \A r : r.plugin # p => (r \in handlers' <=> r \in handlers),
             p \notin raced' => PluginInOrder(p)'
      PROVE  HandlersInv'
  <2>1. ASSUME NEW q \in Plugins \ {p}, q \notin raced' PROVE PluginInOrder(q)'
    <3>1. PluginInOrder(q)
      BY <1>2, <2>1 DEF HandlersInv
    <3> QED BY <1>2, <2>1, <3>1, PluginStays
  <2> QED BY <1>2, <2>1 DEF HandlersInv
<1>3. ASSUME NEW p \in Plugins, Load(p) PROVE HandlersInv'
  <2>1. /\ listed[p] = "absent" /\ raced' = Overlaps(p) /\ handlers' = Registered(p, "declared")
        /\ loading' = [loading EXCEPT ![p] = @ + 1] /\ UNCHANGED <<listed, unloading>>
    BY <1>3 DEF Load
  <2>2. /\ loading' \in [Plugins -> Nat] /\ loading'[p] = loading[p] + 1
        /\ \A q \in Plugins \ {p} : loading'[q] = loading[q]
    BY <2>1 DEF HandlersInv
  <2>3. raced \subseteq raced' /\ raced' \subseteq raced \union {p}
    BY <2>1 DEF Overlaps
  <2>4. p \notin raced' => PluginInOrder(p)'
    <3>1. SUFFICES ASSUME p \notin raced' PROVE PluginInOrder(p)'
      OBVIOUS
    <3>2. PluginInOrder(p) /\ loading[p] = 0 /\ unloading[p] = 0
      BY <2>1, <3>1, OverlapNoted
    <3>3. \E r \in handlers' : Declared(p)' = {r}
      BY <2>1, <3>2, RegistersOne DEF PluginInOrder
    <3> QED BY <2>1, <2>2, <3>2, <3>3 DEF PluginInOrder
  <2> QED BY <1>2, <2>1, <2>2, <2>3, <2>4, RegistersOne DEF HandlersInv
<1>10. ASSUME NEW p \in Plugins, NEW how \in Own, InitializeRegisters(p, how) PROVE HandlersInv'
  <2>1. /\ loading[p] > 0 /\ handlers' = Registered(p, how) /\ how # "declared"
        /\ UNCHANGED <<listed, loading, unloading, raced>>
    BY <1>10 DEF InitializeRegisters, Own
  <2>2. p \notin raced' => PluginInOrder(p)'
    <3> SUFFICES ASSUME p \notin raced' PROVE PluginInOrder(p)'
      OBVIOUS
    <3>1. PluginInOrder(p)
      BY <2>1 DEF HandlersInv
    <3>2. Declared(p)' = Declared(p) /\ handlers \subseteq handlers'
      BY <2>1, RegistersOne
    <3> QED BY <2>1, <3>1, <3>2 DEF PluginInOrder
  <2>3. \A r : r.plugin # p => (r \in handlers' <=> r \in handlers)
    BY <2>1, RegistersOne
  <2> QED BY <1>2, <2>1, <2>2, <2>3 DEF HandlersInv
<1>4. ASSUME NEW p \in Plugins, NEW status \in {"loaded", "error"}, LoadEnds(p, status)
      PROVE  HandlersInv'
  <2>1. /\ loading[p] > 0 /\ loading' = [loading EXCEPT ![p] = @ - 1]
        /\ listed' = [listed EXCEPT ![p] = status] /\ UNCHANGED <<unloading, raced>>
        /\ handlers' = IF status = "error" THEN UnregisterPlugin(p) ELSE handlers
    BY <1>4 DEF LoadEnds
  <2>2. /\ loading' \in [Plugins -> Nat] /\ loading'[p] = loading[p] - 1
        /\ listed' \in [Plugins -> {"absent", "loaded", "error"}] /\ listed'[p] = status
        /\ \A q \in Plugins \ {p} : loading'[q] = loading[q] /\ listed'[q] = listed[q]
        /\ loading[p] \in Nat /\ unloading[p] \in Nat
    BY <2>1 DEF HandlersInv
  <2>3. \A r : r.plugin # p => (r \in handlers' <=> r \in handlers)
    BY <2>1, UnregistersAll
  <2>4. p \notin raced' => PluginInOrder(p)'
    <3>1. SUFFICES ASSUME p \notin raced' PROVE PluginInOrder(p)'
      OBVIOUS
    <3>2. PluginInOrder(p)
      BY <2>1, <3>1 DEF HandlersInv
    <3>3. loading'[p] = 0 /\ unloading'[p] = 0
      BY <2>1, <2>2, <3>2 DEF PluginInOrder
    <3>4. CASE status = "error"
      BY <2>1, <2>2, <3>3, <3>4, UnregistersAll DEF PluginInOrder
    <3>5. CASE status = "loaded"
      <4>1. Declared(p)' = Declared(p) /\ handlers' = handlers
        BY <2>1, <3>5 DEF RegistrationsOf, Declared
      <4> QED BY <2>1, <2>2, <3>2, <3>3, <3>5, <4>1 DEF PluginInOrder
    <3> QED BY <3>4, <3>5
  <2> QED BY <1>2, <2>1, <2>2, <2>3, <2>4 DEF HandlersInv
<1>5. ASSUME NEW p \in Plugins, listed[p] # "absent", raced' = Overlaps(p),
             unloading' = [unloading EXCEPT ![p] = @ + 1],
             UNCHANGED <<listed, handlers, loading>>
      PROVE  HandlersInv'
  <2>1. /\ unloading' \in [Plugins -> Nat] /\ unloading'[p] = unloading[p] + 1
        /\ \A q \in Plugins \ {p} : unloading'[q] = unloading[q]
    BY <1>5 DEF HandlersInv
  <2>2. raced \subseteq raced' /\ raced' \subseteq raced \union {p}
    BY <1>5 DEF Overlaps
  <2>3. p \notin raced' => PluginInOrder(p)'
    <3>1. SUFFICES ASSUME p \notin raced' PROVE PluginInOrder(p)'
      OBVIOUS
    <3>2. PluginInOrder(p) /\ loading[p] = 0 /\ unloading[p] = 0
      BY <1>5, <3>1, OverlapNoted
    <3>3. RegistrationsOf(p)' = RegistrationsOf(p) /\ Declared(p)' = Declared(p)
      BY <1>5 DEF RegistrationsOf, Declared
    <3> QED BY <1>5, <2>1, <3>2, <3>3 DEF PluginInOrder
  <2> QED BY <1>2, <1>5, <2>1, <2>2, <2>3 DEF HandlersInv
<1>6. ASSUME NEW p \in Plugins, Unloaded(p) PROVE HandlersInv'
  <2>1. /\ unloading[p] > 0 /\ unloading' = [unloading EXCEPT ![p] = @ - 1]
        /\ listed' = [listed EXCEPT ![p] = "absent"] /\ UNCHANGED <<loading, raced>>
        /\ handlers' = UnregisterPlugin(p)
    BY <1>6 DEF Unloaded
  <2>2. /\ unloading' \in [Plugins -> Nat] /\ unloading'[p] = unloading[p] - 1
        /\ listed' \in [Plugins -> {"absent", "loaded", "error"}] /\ listed'[p] = "absent"
        /\ \A q \in Plugins \ {p} : unloading'[q] = unloading[q] /\ listed'[q] = listed[q]
        /\ loading[p] \in Nat /\ unloading[p] \in Nat
    BY <2>1 DEF HandlersInv
  <2>3. /\ \A r : r.plugin # p => (r \in handlers' <=> r \in handlers)
        /\ RegistrationsOf(p)' = {}
    BY <2>1, UnregistersAll
  <2>4. p \notin raced' => PluginInOrder(p)'
    BY <2>1, <2>2, <2>3 DEF HandlersInv, PluginInOrder
  <2> QED BY <1>2, <2>1, <2>2, <2>3, <2>4 DEF HandlersInv
<1>7. CASE PluginStep
  <2>1. CASE \E p \in Plugins : Load(p) \/ Unloaded(p)
    BY <1>3, <1>6, <2>1
  <2>2. CASE \E p \in Plugins : LoadEnds(p, "loaded") \/ LoadEnds(p, "error")
    BY <1>4, <2>2
  <2>3. CASE \E p \in Plugins : Unload(p)
    BY <1>5, <2>3 DEF Unload
  <2>4. CASE ShutdownUnloads
    <3> DEFINE h == Head(unloadList)
    <3>1. /\ listed[h] # "absent" /\ raced' = Overlaps(h)
          /\ unloading' = [unloading EXCEPT ![h] = @ + 1]
          /\ UNCHANGED <<listed, handlers, loading>>
      BY <2>4 DEF ShutdownUnloads
    <3> HIDE DEF h
    <3>2. CASE h \in Plugins
      BY <1>5, <3>1, <3>2
    (* The names come from `listed`, but the proof can do without that. *)
    <3>3. CASE h \notin Plugins
      <4>1. unloading' = unloading
        BY <3>1, <3>3 DEF HandlersInv
      <4>2. \A p \in Plugins : p \notin raced' => p \notin raced
        BY <3>1 DEF Overlaps
      <4>3. ASSUME NEW p \in Plugins \ raced' PROVE PluginInOrder(p)'
        <5>1. PluginInOrder(p)
          BY <4>2, <4>3 DEF HandlersInv
        <5> QED BY <3>1, <4>1, <4>3, <5>1, PluginStays
      <4> QED BY <3>1, <4>1, <4>3 DEF HandlersInv
    <3> QED BY <3>2, <3>3
  <2>5. CASE Shutdown \/ ShutdownOver
    BY <1>1, <2>5 DEF Shutdown, ShutdownOver
  <2>6. CASE \E p \in Plugins, how \in Own : InitializeRegisters(p, how)
    BY <1>10, <2>6
  <2> QED BY <1>7, <2>1, <2>2, <2>3, <2>4, <2>5, <2>6 DEF PluginStep
<1>8. ASSUME NEW t \in Turns, TurnStep(t) PROVE UNCHANGED plugs
  BY <1>8 DEF TurnStep, Begin, Handle, Prepare, Searched, Augmented, Dispatch, Ask,
     Chunk, LeaveCut, LastEvent, Throws, EventTooMany, EndOfStream, Filtered, Act,
     ActionsDone, ExtractorReady, StoreFiltered, Extracted, StoreQuestion, StoreReply, Cut
<1>9. CASE UNCHANGED plugs
  BY <1>1, <1>9 DEF plugs
<1> QED BY <1>7, <1>8, <1>9 DEF TurnNext, turnVars

(***************************************************************************)
(* A plugin has its declared handlers registered, once, exactly as long as *)
(* it is being loaded or is listed as loaded: neither a failed load nor an *)
(* unload, by its own call or by the shutdown, leaves a handler behind     *)
(* that bears its name, those that its initialize() registered included.   *)
(* Handlers that initialize() registers without a name stay; and plugins   *)
(* on which such calls overlapped are left out.                            *)
(***************************************************************************)
THEOREM HandlersCorrect == TurnSpec => []HandlersFollowPlugins
<1>1. TurnInit => HandlersInv
  <2> SUFFICES ASSUME TurnInit PROVE HandlersInv
    OBVIOUS
  <2>1. PICK boot \in SUBSET Plugins :
          \E own \in SUBSET [plugin : boot \intersect Registering, how : Own] :
          LET made == [plugin : boot, how : {"declared"}] \union own IN
          \E place \in [made -> 1 .. Cardinality(made)] :
            /\ Cardinality(made) <= MaxHandlers /\ IsInjective(place)
            /\ \A m \in own : place[[plugin |-> m.plugin, how |-> "declared"]] < place[m]
            /\ listed = [p \in Plugins |-> IF p \in boot THEN "loaded" ELSE "absent"]
            /\ handlers = {[plugin |-> m.plugin, how |-> m.how, place |-> place[m]] : m \in made}
    BY Zenon DEF TurnInit
  <2>2. PICK own \in SUBSET [plugin : boot \intersect Registering, how : Own] :
          LET made == [plugin : boot, how : {"declared"}] \union own IN
          \E place \in [made -> 1 .. Cardinality(made)] :
            /\ Cardinality(made) <= MaxHandlers /\ IsInjective(place)
            /\ \A m \in own : place[[plugin |-> m.plugin, how |-> "declared"]] < place[m]
            /\ listed = [p \in Plugins |-> IF p \in boot THEN "loaded" ELSE "absent"]
            /\ handlers = {[plugin |-> m.plugin, how |-> m.how, place |-> place[m]] : m \in made}
    BY <2>1, Zenon
  <2>3. PICK place : BootedWith(boot, own, place)
    BY <2>2, Zenon DEF BootedWith
  <2> DEFINE declaration(p) == [plugin |-> p, how |-> "declared",
                                place |-> place[[plugin |-> p, how |-> "declared"]]]
  <2>8. ASSUME NEW p \in boot
        PROVE  /\ listed[p] = "loaded" /\ declaration(p) \in handlers
               /\ Declared(p) = {declaration(p)}
    <3>1. \A m \in own : m.how # "declared"
      BY DEF Own
    <3>2. [plugin |-> p, how |-> "declared"] \in [plugin : boot, how : {"declared"}]
      OBVIOUS
    <3>3. declaration(p) \in handlers
      BY <2>3, <3>2 DEF BootedWith
    <3>4. \A q \in handlers : q.plugin = p /\ q.how = "declared" => q = declaration(p)
      BY <2>3, <3>1 DEF BootedWith
    <3> QED BY <2>3, <3>3, <3>4 DEF BootedWith, Declared, RegistrationsOf
  <2>9. ASSUME NEW p \in Plugins \ boot PROVE listed[p] = "absent" /\ RegistrationsOf(p) = {}
    BY <2>3 DEF BootedWith, RegistrationsOf
  <2> HIDE DEF declaration
  <2>4. \A p \in Plugins : loading[p] = 0 /\ unloading[p] = 0
    BY DEF TurnInit
  <2>5. loading \in [Plugins -> Nat] /\ unloading \in [Plugins -> Nat]
    BY DEF TurnInit
  <2>6. listed \in [Plugins -> {"absent", "loaded", "error"}]
    BY <2>3 DEF BootedWith
  <2>7. ASSUME NEW p \in Plugins PROVE PluginInOrder(p)
    <3>1. CASE p \in boot
      BY <2>4, <2>8, <3>1 DEF PluginInOrder
    <3>2. CASE p \notin boot
      BY <2>4, <2>9, <3>2 DEF PluginInOrder
    <3> QED BY <3>1, <3>2
  <2> QED BY <2>5, <2>6, <2>7 DEF HandlersInv
<1>2. HandlersInv => HandlersFollowPlugins
  <2> SUFFICES ASSUME HandlersInv, NEW p \in Plugins \ raced
               PROVE  IF loading[p] > 0 \/ listed[p] = "loaded"
                      THEN Cardinality(Declared(p)) = 1 ELSE RegistrationsOf(p) = {}
    BY DEF HandlersFollowPlugins, Declared
  <2>1. \A r : Cardinality({r}) = 1
    BY FS_Singleton
  <2>2. PluginInOrder(p)
    BY DEF HandlersInv
  <2>3. CASE loading[p] > 0 \/ listed[p] = "loaded"
    BY <2>1, <2>2, <2>3 DEF PluginInOrder
  <2>4. CASE ~(loading[p] > 0 \/ listed[p] = "loaded")
    BY <2>2, <2>4 DEF PluginInOrder
  <2> QED BY <2>3, <2>4
<1> QED BY <1>1, <1>2, HandlersKept, PTL DEF TurnSpec

-----------------------------------------------------------------------------
(* What RemoveFirst(s, e) is, for an e that occurs: the sequence without    *)
(* one of its places, the first that holds e.                               *)
LEMMA RemoveFirstPlace ==
  ASSUME NEW S, NEW s \in Seq(S), NEW e, \E i \in 1 .. Len(s) : s[i] = e
  PROVE  \E k \in 1 .. Len(s) :
           /\ s[k] = e
           /\ RemoveFirst(s, e) \in Seq(S)
           /\ Len(RemoveFirst(s, e)) = Len(s) - 1
           /\ \A i \in 1 .. Len(s) - 1 :
                RemoveFirst(s, e)[i] = IF i < k THEN s[i] ELSE s[i + 1]
<1> DEFINE I == {i \in 1 .. Len(s) : s[i] = e}
           k == CHOOSE x \in I : \A y \in I : x =< y
           r == SubSeq(s, 1, k - 1) \o SubSeq(s, k + 1, Len(s))
<1>1. Len(s) \in Nat
  OBVIOUS
<1>2. \E x \in I : \A y \in I : x =< y
  <2>1. I \subseteq Nat /\ I # {}
    BY <1>1
  <2>2. PICK x \in I : \A y \in I : <<y, x>> \notin OpToRel(<, Nat)
    <3> HIDE DEF I
    <3> QED BY <2>1, WFMin, NatLessThanWellFounded
  <2>3. \A y \in I : x \in Nat /\ y \in Nat /\ ~(y < x)
    BY <2>1, <2>2 DEF OpToRel
  <2> QED BY <2>3
<1>3. k \in I
  BY <1>2
<1>4. I # {}
  BY <1>2
<1>5. RemoveFirst(s, e) = r
  BY <1>4 DEF RemoveFirst, RemoveAt, SelectInSeq, Min
<1> HIDE DEF k
<1>6. k \in 1 .. Len(s) /\ s[k] = e
  BY <1>3
<1>7. /\ SubSeq(s, 1, k - 1) \in Seq(S)
      /\ Len(SubSeq(s, 1, k - 1)) = k - 1
      /\ \A i \in 1 .. k - 1 : SubSeq(s, 1, k - 1)[i] = s[i]
  BY <1>1, <1>6
<1>8. /\ SubSeq(s, k + 1, Len(s)) \in Seq(S)
      /\ Len(SubSeq(s, k + 1, Len(s))) = Len(s) - k
      /\ \A i \in 1 .. Len(s) - k : SubSeq(s, k + 1, Len(s))[i] = s[k + i]
  BY <1>1, <1>6
<1>9. /\ r \in Seq(S)
      /\ Len(r) = Len(s) - 1
      /\ \A i \in 1 .. Len(s) - 1 : r[i] = IF i < k THEN s[i] ELSE s[i + 1]
  <2> DEFINE a == SubSeq(s, 1, k - 1)
             b == SubSeq(s, k + 1, Len(s))
  <2>1. /\ a \in Seq(S) /\ b \in Seq(S) /\ Len(a) = k - 1 /\ Len(b) = Len(s) - k
        /\ \A i \in 1 .. k - 1 : a[i] = s[i]
        /\ \A i \in 1 .. Len(s) - k : b[i] = s[k + i]
    BY <1>7, <1>8
  <2> HIDE DEF a, b
  <2>2. \A i \in 1 .. Len(a) + Len(b) :
          (a \o b)[i] = IF i <= Len(a) THEN a[i] ELSE b[i - Len(a)]
    BY <2>1
  <2>3. a \o b \in Seq(S) /\ Len(a \o b) = Len(s) - 1
    <3>1. \A u, v \in Seq(S) : u \o v \in Seq(S) /\ Len(u \o v) = Len(u) + Len(v)
      OBVIOUS
    <3>2. a \o b \in Seq(S) /\ Len(a \o b) = Len(a) + Len(b)
      BY <2>1, <3>1
    <3> QED BY <1>1, <1>6, <2>1, <3>2
  <2>4. ASSUME NEW i \in 1 .. Len(s) - 1
        PROVE  (a \o b)[i] = IF i < k THEN s[i] ELSE s[i + 1]
    <3>1. CASE i < k
      <4>1. i \in 1 .. k - 1 /\ i <= Len(a) /\ i \in 1 .. Len(a) + Len(b)
        BY <1>1, <1>6, <2>1, <3>1
      <4> QED BY <2>1, <2>2, <3>1, <4>1
    <3>2. CASE i >= k
      <4>1. /\ i - (k - 1) \in 1 .. Len(s) - k /\ ~(i <= Len(a))
            /\ i \in 1 .. Len(a) + Len(b) /\ k + (i - (k - 1)) = i + 1
        BY <1>1, <1>6, <2>1, <3>2
      <4>2. (a \o b)[i] = b[i - (k - 1)]
        BY <2>1, <2>2, <4>1
      <4>3. b[i - (k - 1)] = s[k + (i - (k - 1))]
        BY <2>1, <4>1
      <4>4. ~(i < k)
        BY <1>1, <1>6, <3>2
      <4>5. s[k + (i - (k - 1))] = s[i + 1]
        BY <4>1
      <4>6. (a \o b)[i] = s[i + 1]
        BY <4>2, <4>3, <4>5, Zenon
      <4> QED BY <4>4, <4>6, Zenon
    <3>3. i < k \/ i >= k
      BY <1>1, <1>6
    <3> QED BY <3>1, <3>2, <3>3
  <2> QED BY <2>3, <2>4 DEF a, b
<1> QED BY <1>5, <1>6, <1>9

(* RemoveFirst(s, e) whatever e is: no longer than s, nothing new in it.    *)
LEMMA RemoveFirstType ==
  ASSUME NEW S, NEW s \in Seq(S), NEW e
  PROVE  RemoveFirst(s, e) \in Seq(S)
<1>1. CASE \E i \in 1 .. Len(s) : s[i] = e
  BY <1>1, RemoveFirstPlace
<1>2. CASE ~ \E i \in 1 .. Len(s) : s[i] = e
  BY <1>2 DEF RemoveFirst
<1> QED BY <1>1, <1>2

(* RemoveFirst(s, e) where e occurs once: the others stay.                  *)
LEMMA RemoveFirstDistinct ==
  ASSUME NEW S, NEW s \in Seq(S), NEW e \in Elements(s), Distinct(s)
  PROVE  /\ RemoveFirst(s, e) \in Seq(S)
         /\ Len(RemoveFirst(s, e)) = Len(s) - 1
         /\ Distinct(RemoveFirst(s, e))
         /\ Elements(RemoveFirst(s, e)) = Elements(s) \ {e}
<1> DEFINE r == RemoveFirst(s, e)
<1>1. Len(s) \in Nat /\ DOMAIN s = 1 .. Len(s)
  OBVIOUS
<1>2. PICK k \in 1 .. Len(s) :
        /\ s[k] = e
        /\ r \in Seq(S)
        /\ Len(r) = Len(s) - 1
        /\ \A i \in 1 .. Len(s) - 1 : r[i] = IF i < k THEN s[i] ELSE s[i + 1]
  <2>1. \E i \in 1 .. Len(s) : s[i] = e
    BY <1>1 DEF Elements
  <2> QED BY <2>1, RemoveFirstPlace
<1> HIDE DEF r
<1>3. DOMAIN r = 1 .. Len(s) - 1
  BY <1>2
<1>4. \A i, j \in 1 .. Len(s) : s[i] = s[j] => i = j
  BY <1>1 DEF Distinct
<1>5. Distinct(r)
  <2>1. \A i, j \in 1 .. Len(s) - 1 : r[i] = r[j] => i = j
    BY <1>1, <1>2, <1>4
  <2> QED BY <1>3, <2>1 DEF Distinct
<1>6. ASSUME NEW x \in Elements(r) PROVE x \in Elements(s) \ {e}
  <2>1. PICK i \in 1 .. Len(s) - 1 : r[i] = x
    BY <1>3 DEF Elements
  <2>2. PICK j \in 1 .. Len(s) : s[j] = x /\ j # k
    BY <1>1, <1>2, <2>1
  <2> QED BY <1>1, <1>2, <1>4, <2>2 DEF Elements
<1>7. ASSUME NEW x \in Elements(s) \ {e} PROVE x \in Elements(r)
  <2>1. PICK j \in 1 .. Len(s) : s[j] = x
    BY <1>1 DEF Elements
  <2>2. j # k
    BY <1>2, <2>1
  <2>3. CASE j < k
    <3>1. j \in 1 .. Len(s) - 1 /\ r[j] = x
      BY <1>1, <1>2, <2>1, <2>3
    <3> QED BY <1>3, <3>1 DEF Elements
  <2>4. CASE j > k
    <3>1. j - 1 \in 1 .. Len(s) - 1 /\ ~(j - 1 < k) /\ (j - 1) + 1 = j
      BY <1>1, <2>4
    <3>2. r[j - 1] = x
      BY <1>2, <2>1, <3>1
    <3> QED BY <1>3, <3>1, <3>2 DEF Elements
  <2> QED BY <2>2, <2>3, <2>4
<1> QED BY <1>2, <1>5, <1>6, <1>7 DEF r

-----------------------------------------------------------------------------
(* The pool of backend processes.  Its type invariant, with the agreement   *)
(* of the map's parts in terms of the elements of the order.                *)
PoolTypes ==
  /\ order \in Seq(Sessions)
  /\ proc \in [Sessions -> Process \union {None}]
  /\ overrides \in [Sessions -> Configs \union {None}]
  /\ alive \subseteq Process /\ late \subseteq Process
  /\ call \in [Calls -> CallState]
  /\ used \in Seq(Sessions)
  /\ closing \in BOOLEAN
  /\ disturbed \subseteq Sessions

MapAgrees ==
  /\ Distinct(order)
  /\ Elements(order) = {s \in Sessions : Pooled(s)}

LEMMA PoolTypeParts == PoolTypeOK <=> PoolTypes /\ MapAgrees
<1>1. ASSUME order \in Seq(Sessions)
      PROVE  /\ DOMAIN order = 1 .. Len(order)
             /\ Elements(order) \subseteq Sessions
             /\ \A s : s \in Elements(order) <=> \E i \in 1 .. Len(order) : order[i] = s
  BY <1>1 DEF Elements
<1>2. ASSUME order \in Seq(Sessions)
      PROVE  Elements(order) = {s \in Sessions : Pooled(s)}
               <=> \A s \in Sessions : Pooled(s) <=> \E i \in 1 .. Len(order) : order[i] = s
  <2> HIDE DEF Pooled
  <2> QED BY <1>1, <1>2
<1>3. ASSUME order \in Seq(Sessions)
      PROVE  Distinct(order)
               <=> \A i, j \in 1 .. Len(order) : order[i] = order[j] => i = j
  BY <1>1, <1>3 DEF Distinct
<1> QED BY <1>2, <1>3 DEF PoolTypeOK, PoolTypes, MapAgrees

(* Calls under way for the same session have disturbed it, and so has a     *)
(* call under way for a session that meanwhile got an entry.                *)
OverlapsAreNoted ==
  /\ \A c, d \in Pending :
       c # d /\ call[c].session = call[d].session => call[c].session \in disturbed
  /\ \A c \in Pending : Pooled(call[c].session) => call[c].session \in disturbed

(* While a shutdown waits, the pooled processes that run joined it then.    *)
LateOnly == closing => \A s \in Sessions : proc[s] \in alive => proc[s] \in late

(* What `configOverrides` may hold for s, at each stage of a getOrCreate.   *)
RecordOf(s) ==
  /\ ~Pooled(s) /\ PendingFor(s) = {} => overrides[s] = None
  /\ Pooled(s) => overrides[s] \in {None, proc[s].with}
  /\ \A c \in PendingFor(s) :
       /\ call[c].pc # "spawning" /\ call[c].with = None => overrides[s] = None
       /\ call[c].pc = "spawning" => overrides[s] \in {None, call[c].with}

RecordsFit == \A s \in Sessions \ disturbed : RecordOf(s)

ProcessPoolInv ==
  PoolTypes /\ MapAgrees /\ BoundedOvershoot /\ OverlapsAreNoted /\ LateOnly /\ RecordsFit

(* Sets of calls are finite, so they can be counted.                        *)
LEMMA CallsCounted ==
  ASSUME NEW Q, Q \subseteq Calls
  PROVE  /\ IsFiniteSet(Q) /\ Cardinality(Q) \in Nat
         /\ Cardinality(Q) <= Cardinality(Calls) /\ Cardinality(Calls) \in Nat
BY SetsAssumption, FS_Subset, FS_CardinalityType

(* The states of a call under way.                                          *)
LEMMA PendingState ==
  ASSUME PoolTypes, NEW c \in Calls
  PROVE  /\ c \in Pending <=> call[c] # Idle
         /\ c \in Pending =>
              /\ call[c] \in [pc : {"evicting", "ready", "spawning"}, session : Sessions,
                              with : Configs \union {None}]
              /\ call[c].session \in Sessions
              /\ call[c].with \in Configs \union {None}
BY DEF PoolTypes, CallState, Idle, Pending

(* What MustSpawn does to the map: the session's own entry is gone, and so  *)
(* is the oldest other one if the pool was full; no process leaves running. *)
LEMMA RoomIsMade ==
  ASSUME PoolTypes, MapAgrees,
         NEW c \in Calls, NEW s \in Sessions, NEW o \in Configs \union {None},
         MustSpawn(c, s, o)
  PROVE  /\ order' \in Seq(Sessions)
         /\ proc' \in [Sessions -> Process \union {None}]
         /\ overrides' \in [Sessions -> Configs \union {None}]
         /\ MapAgrees'
         /\ Len(order') <= MaxProcesses - 1 \/ Len(order') <= Len(order) - 1
         /\ alive' \subseteq alive
         /\ proc'[s] = None
         /\ Pooled(s) /\ o = None => overrides'[s] = None
         /\ overrides'[s] \in {overrides[s], None}
         /\ \A t \in Sessions \ {s} :
              \/ proc'[t] = proc[t] /\ overrides'[t] = overrides[t]
              \/ proc'[t] = None /\ overrides'[t] = None
         /\ \A t \in Sessions : proc[t] \in alive' => proc'[t] = proc[t]
<1> DEFINE stale  == Pooled(s) /\ Changed(s, o)
           others == IF Pooled(s) THEN RemoveFirst(order, s) ELSE order
           kept   == IF Pooled(s) /\ ~stale THEN Forget(overrides, s) ELSE overrides
           procs  == [proc EXCEPT ![s] = None]
           live   == IF stale THEN Stop(alive, proc[s]) ELSE alive
<1>1. Len(order) \in Nat /\ MaxProcesses \in Nat \ {0}
  BY MaxProcessesAssumption DEF PoolTypes
<1>2. /\ others \in Seq(Sessions) /\ Distinct(others)
      /\ Elements(others) = Elements(order) \ {s}
      /\ Len(others) <= Len(order)
  <2>1. CASE Pooled(s)
    <3>1. s \in Elements(order)
      BY <2>1 DEF MapAgrees
    <3> QED BY <1>1, <2>1, <3>1, RemoveFirstDistinct DEF PoolTypes, MapAgrees
  <2>2. CASE ~Pooled(s)
    BY <1>1, <2>2 DEF PoolTypes, MapAgrees
  <2> QED BY <2>1, <2>2
<1>3. /\ kept \in [Sessions -> Configs \union {None}]
      /\ \A t \in Sessions \ {s} : kept[t] = overrides[t]
      /\ kept[s] \in {overrides[s], None}
      /\ Pooled(s) /\ o = None => kept[s] = None
  BY DEF PoolTypes, Forget, Changed
<1>4. /\ procs \in [Sessions -> Process \union {None}]
      /\ procs[s] = None
      /\ \A t \in Sessions \ {s} : procs[t] = proc[t]
  BY DEF PoolTypes
<1>5. live \subseteq alive /\ proc[s] \notin live
  <2>1. ~(Pooled(s) /\ proc[s] \in alive /\ ~Changed(s, o))
    BY DEF MustSpawn
  <2>2. None \notin alive
    BY SetsAssumption DEF PoolTypes
  <2> QED BY <2>1, <2>2 DEF Stop, Pooled
<1>6. Elements(others) = {t \in Sessions : procs[t] # None}
  BY <1>2, <1>4 DEF MapAgrees, Pooled
<1>7. CASE Full(Len(others)) /\ others # <<>>
  <2>1. /\ order' = Tail(others)
        /\ proc' = [procs EXCEPT ![Head(others)] = None]
        /\ overrides' = Forget(kept, Head(others))
        /\ alive' = Stop(live, proc[Head(others)])
    BY <1>7 DEF MustSpawn
  <2> HIDE DEF others, kept, procs, live
  <2>2. /\ Tail(others) \in Seq(Sessions) /\ Len(Tail(others)) = Len(others) - 1
        /\ Head(others) \in Elements(others) /\ Head(others) \in Sessions
        /\ Distinct(Tail(others))
        /\ Elements(Tail(others)) = Elements(others) \ {Head(others)}
    BY <1>2, <1>7, TailDistinct
  <2>3. Head(others) # s
    BY <1>2, <2>2
  <2>4. /\ order' \in Seq(Sessions)
        /\ Len(order') <= Len(order) - 1
    BY <1>1, <1>2, <2>1, <2>2
  <2>5. /\ proc' \in [Sessions -> Process \union {None}]
        /\ proc'[s] = None /\ proc'[Head(others)] = None
        /\ \A t \in Sessions \ {s, Head(others)} : proc'[t] = proc[t]
    BY <1>4, <2>1, <2>2
  <2>6. /\ overrides' \in [Sessions -> Configs \union {None}]
        /\ overrides'[s] = kept[s] /\ overrides'[Head(others)] = None
        /\ \A t \in Sessions \ {s, Head(others)} : overrides'[t] = overrides[t]
    BY <1>3, <2>1, <2>2, <2>3 DEF Forget
  <2>7. Distinct(order') /\ Elements(order') = {t \in Sessions : proc'[t] # None}
    <3>1. {t \in Sessions : proc'[t] # None}
            = {t \in Sessions : procs[t] # None} \ {Head(others)}
      BY <1>4, <2>2, <2>5
    <3> QED BY <1>6, <2>1, <2>2, <3>1
  <2>8. alive' \subseteq live /\ proc[Head(others)] \notin alive'
    BY <2>1 DEF Stop
  <2>9. \A t \in Sessions : proc[t] \in alive' => proc'[t] = proc[t]
    BY <1>5, <2>5, <2>8
  <2> QED BY <1>3, <1>5, <2>2, <2>4, <2>5, <2>6, <2>7, <2>8, <2>9 DEF MapAgrees, Pooled
<1>8. CASE ~(Full(Len(others)) /\ others # <<>>)
  <2>1. order' = others /\ proc' = procs /\ overrides' = kept /\ alive' = live
    BY <1>8 DEF MustSpawn
  <2> HIDE DEF others, kept, procs, live
  <2>2. Len(others) <= MaxProcesses - 1
    <3>1. others = <<>> => Len(others) = 0
      OBVIOUS
    <3> QED BY <1>1, <1>2, <1>8, <3>1 DEF Full
  <2>3. \A t \in Sessions : proc[t] \in alive' => proc'[t] = proc[t]
    BY <1>4, <1>5, <2>1
  <2> QED BY <1>2, <1>3, <1>4, <1>5, <1>6, <2>1, <2>2, <2>3 DEF MapAgrees, Pooled
<1> QED BY <1>7, <1>8

(* A getOrCreate that must spawn.                                           *)
LEMMA MustSpawnKeeps ==
  ASSUME ProcessPoolInv,
         NEW c \in Calls, NEW s \in Sessions, NEW o \in Configs \union {None},
         MustSpawn(c, s, o)
  PROVE  ProcessPoolInv'
<1> USE DEF ProcessPoolInv
<1>1. /\ order' \in Seq(Sessions)
      /\ proc' \in [Sessions -> Process \union {None}]
      /\ overrides' \in [Sessions -> Configs \union {None}]
      /\ MapAgrees'
      /\ Len(order') <= MaxProcesses - 1 \/ Len(order') <= Len(order) - 1
      /\ alive' \subseteq alive
      /\ proc'[s] = None
      /\ Pooled(s) /\ o = None => overrides'[s] = None
      /\ overrides'[s] \in {overrides[s], None}
      /\ \A t \in Sessions \ {s} :
           \/ proc'[t] = proc[t] /\ overrides'[t] = overrides[t]
           \/ proc'[t] = None /\ overrides'[t] = None
      /\ \A t \in Sessions : proc[t] \in alive' => proc'[t] = proc[t]
  BY RoomIsMade
<1>2. PICK await \in {"evicting", "ready"} : StartCall(c, s, o, await)
  BY DEF MustSpawn
<1>3. UNCHANGED <<closing, late, used>> /\ call[c] = Idle
  BY DEF MustSpawn
<1>4. /\ call' \in [Calls -> CallState]
      /\ call'[c] = [pc |-> await, session |-> s, with |-> o]
      /\ \A d \in Calls \ {c} : call'[d] = call[d]
  BY <1>2 DEF StartCall, PoolTypes, CallState
<1>5. disturbed' = IF PendingFor(s) # {} THEN disturbed \union {s} ELSE disturbed
  BY <1>2 DEF StartCall
<1>6. PoolTypes'
  BY <1>1, <1>3, <1>4, <1>5 DEF PoolTypes
<1>7. c \notin Pending /\ Pending' = Pending \union {c}
  BY <1>2, <1>3, <1>4 DEF Pending, Idle
<1>8. BoundedOvershoot'
  <2>1. Len(order) \in Nat /\ Len(order') \in Nat /\ MaxProcesses \in Nat
    BY <1>1, MaxProcessesAssumption DEF PoolTypes
  <2>2. /\ IsFiniteSet(Pending) /\ Cardinality(Pending) \in Nat /\ Cardinality(Calls) \in Nat
        /\ Cardinality(Pending \union {c}) <= Cardinality(Calls)
        /\ Cardinality(Pending \union {c}) \in Nat
    BY CallsCounted DEF Pending
  <2>3. Cardinality(Pending') = Cardinality(Pending) + 1
    BY <1>7, <2>2, FS_AddElement
  <2> QED BY <1>1, <1>7, <2>1, <2>2, <2>3 DEF BoundedOvershoot
<1>9. \A t \in Sessions : t \in disturbed => t \in disturbed'
  BY <1>5
<1>10. \A d \in Pending : /\ d # c /\ call'[d] = call[d] /\ call[d].session \in Sessions
                          /\ call[d].session = s => s \in disturbed'
  BY <1>4, <1>5, <1>7, PendingState DEF PendingFor, Pending
<1>11. OverlapsAreNoted'
  <2>1. ASSUME NEW d \in Pending', NEW e \in Pending', d # e,
               call'[d].session = call'[e].session
        PROVE  call'[d].session \in disturbed'
    <3>1. CASE d \in Pending /\ e \in Pending
      BY <1>9, <1>10, <2>1, <3>1 DEF OverlapsAreNoted
    <3>2. CASE d = c \/ e = c
      BY <1>4, <1>7, <1>10, <2>1, <3>2
    <3> QED BY <1>7, <3>1, <3>2
  <2>2. ASSUME NEW d \in Pending', proc'[call'[d].session] # None
        PROVE  call'[d].session \in disturbed'
    <3>1. d \in Pending
      BY <1>1, <1>4, <1>7, <2>2
    <3>2. call[d].session # s /\ proc[call[d].session] # None
      BY <1>1, <1>10, <2>2, <3>1
    <3> QED BY <1>9, <1>10, <3>1, <3>2 DEF OverlapsAreNoted, Pooled
  <2> QED BY <2>1, <2>2 DEF OverlapsAreNoted, Pooled
<1>12. LateOnly'
  <2>1. None \notin alive
    BY SetsAssumption DEF PoolTypes
  <2> QED BY <1>1, <1>3, <2>1 DEF LateOnly
<1>13. RecordsFit'
  <2>1. ASSUME NEW t \in Sessions \ {s}, t \notin disturbed' PROVE RecordOf(t)'
    <3>1. t \notin disturbed /\ RecordOf(t)
      BY <1>9, <2>1 DEF RecordsFit
    <3>2. \A d \in PendingFor(t)' : d \in PendingFor(t) /\ call'[d] = call[d]
      BY <1>4, <1>7, <1>10 DEF PendingFor
    <3>3. PendingFor(t) \subseteq PendingFor(t)'
      BY <1>7, <1>10 DEF PendingFor
    <3> QED BY <1>1, <3>1, <3>2, <3>3 DEF RecordOf, Pooled
  <2>2. ASSUME s \notin disturbed' PROVE RecordOf(s)'
    <3>1. s \notin disturbed /\ PendingFor(s) = {}
      BY <1>5, <2>2
    <3>2. RecordOf(s)
      BY <3>1 DEF RecordsFit
    <3>3. PendingFor(s)' = {c}
      BY <1>4, <1>7, <1>10, <3>1 DEF PendingFor
    <3>4. o = None => overrides'[s] = None
      BY <1>1, <3>1, <3>2 DEF RecordOf
    <3>5. call'[c].with = o /\ call'[c].pc # "spawning"
      BY <1>4
    <3> QED BY <1>1, <3>3, <3>4, <3>5 DEF RecordOf, Pooled
  <2> QED BY <2>1, <2>2 DEF RecordsFit
<1> QED BY <1>1, <1>6, <1>8, <1>11, <1>12, <1>13

(* Other steps of a call.                                                   *)
LEMMA CallSpawnKeeps ==
  ASSUME ProcessPoolInv, NEW c \in Calls, CallSpawn(c)
  PROVE  ProcessPoolInv'
<1> USE DEF ProcessPoolInv
<1> DEFINE s == call[c].session
<1>1. /\ c \in Pending /\ s \in Sessions /\ call[c].with \in Configs \union {None}
      /\ call[c] \in [pc : {"evicting", "ready", "spawning"}, session : Sessions,
                      with : Configs \union {None}]
  BY PendingState DEF CallSpawn, Pending, Idle
<1>2. /\ call' \in [Calls -> CallState]
      /\ call'[c] = [pc |-> "spawning", session |-> s, with |-> call[c].with]
      /\ \A d \in Calls \ {c} : call'[d] = call[d]
  BY <1>1 DEF CallSpawn, PoolTypes, CallState
<1>3. /\ overrides' \in [Sessions -> Configs \union {None}]
      /\ overrides'[s] = IF call[c].with = None THEN overrides[s] ELSE call[c].with
      /\ \A t \in Sessions \ {s} : overrides'[t] = overrides[t]
  BY <1>1 DEF CallSpawn, PoolTypes
<1>4. UNCHANGED <<order, proc, alive, closing, late, used, disturbed>>
  BY DEF CallSpawn
<1>5. PoolTypes' /\ MapAgrees' /\ LateOnly'
  BY <1>2, <1>3, <1>4 DEF PoolTypes, MapAgrees, LateOnly, Pooled
<1>6. /\ Pending' = Pending
      /\ \A d \in Calls : call'[d].session = call[d].session /\ call'[d].with = call[d].with
  BY <1>1, <1>2 DEF Pending
<1>7. BoundedOvershoot' /\ OverlapsAreNoted'
  BY <1>4, <1>6 DEF BoundedOvershoot, OverlapsAreNoted, Pooled, Pending
<1>8. \A t \in Sessions : PendingFor(t)' = PendingFor(t)
  BY <1>6 DEF PendingFor, Pending
<1>9. RecordsFit'
  <2> SUFFICES ASSUME NEW t \in Sessions, t \notin disturbed, RecordOf(t) PROVE RecordOf(t)'
    BY <1>4 DEF RecordsFit
  <2>1. CASE t # s
    <3>1. \A d \in PendingFor(t) : call'[d] = call[d]
      BY <1>2, <2>1 DEF PendingFor, Pending
    <3> QED BY <1>3, <1>4, <1>8, <2>1, <3>1 DEF RecordOf, Pooled
  <2>2. CASE t = s
    <3>1. PendingFor(t) = {c} /\ ~Pooled(t)
      BY <1>1, <2>2 DEF OverlapsAreNoted, PendingFor
    <3>2. call[c].pc # "spawning"
      BY DEF CallSpawn
    <3>3. overrides'[t] \in {None, call[c].with}
      BY <1>3, <2>2, <3>1, <3>2 DEF RecordOf
    <3> QED BY <1>2, <1>4, <1>8, <3>1, <3>3 DEF RecordOf, Pooled
  <2> QED BY <2>1, <2>2
<1> QED BY <1>5, <1>7, <1>9

(* A call that ends: what it leaves of the calls under way.                 *)
LEMMA CallEnds ==
  ASSUME PoolTypes, NEW c \in Calls, call[c].pc = "spawning",
         call' = [call EXCEPT ![c] = Idle]
  PROVE  /\ call' \in [Calls -> CallState]
         /\ c \in Pending /\ Pending' = Pending \ {c}
         /\ \A d \in Pending' : call'[d] = call[d]
         /\ \A s \in Sessions : PendingFor(s)' = PendingFor(s) \ {c}
         /\ Cardinality(Pending') = Cardinality(Pending) - 1
<1>1. /\ call' \in [Calls -> CallState] /\ call'[c] = Idle
      /\ \A d \in Calls \ {c} : call'[d] = call[d]
  BY DEF PoolTypes, CallState
<1>2. c \in Pending /\ Pending' = Pending \ {c}
  BY <1>1 DEF Pending, Idle
<1>3. \A s \in Sessions : PendingFor(s)' = PendingFor(s) \ {c}
  BY <1>1, <1>2 DEF PendingFor, Pending
<1>4. Cardinality(Pending') = Cardinality(Pending) - 1
  <2>1. IsFiniteSet(Pending)
    BY CallsCounted DEF Pending
  <2> QED BY <1>2, <2>1, FS_RemoveElement
<1> QED BY <1>1, <1>2, <1>3, <1>4 DEF Pending

LEMMA ProcessSpawnedKeeps ==
  ASSUME ProcessPoolInv, NEW c \in Calls, NEW h \in Handles, ProcessSpawned(c, h)
  PROVE  ProcessPoolInv'
<1> USE DEF ProcessPoolInv
<1> DEFINE s == call[c].session
           p == [handle |-> h, with |-> call[c].with]
<1>1. /\ call[c].pc = "spawning" /\ call' = [call EXCEPT ![c] = Idle]
      /\ UNCHANGED <<overrides, closing, disturbed>>
  BY DEF ProcessSpawned
<1>2. /\ call' \in [Calls -> CallState]
      /\ c \in Pending /\ Pending' = Pending \ {c}
      /\ \A d \in Pending' : call'[d] = call[d]
      /\ \A t \in Sessions : PendingFor(t)' = PendingFor(t) \ {c}
      /\ Cardinality(Pending') = Cardinality(Pending) - 1
  BY <1>1, CallEnds
<1>3. s \in Sessions /\ call[c].with \in Configs \union {None} /\ p \in Process /\ p # None
  BY <1>2, PendingState, SetsAssumption DEF Pending, Process
<1>4. /\ proc' \in [Sessions -> Process \union {None}] /\ proc'[s] = p
      /\ \A t \in Sessions \ {s} : proc'[t] = proc[t]
  BY <1>3 DEF ProcessSpawned, PoolTypes
<1>5. order' \in Seq(Sessions) /\ MapAgrees' /\ Len(order') <= Len(order) + 1
  <2>1. CASE Pooled(s)
    <3>1. order' = order
      BY <2>1 DEF ProcessSpawned, SetKey
    <3> QED BY <1>3, <1>4, <2>1, <3>1 DEF MapAgrees, Pooled, PoolTypes
  <2>2. CASE ~Pooled(s)
    <3>1. order' = Append(order, s)
      BY <2>2 DEF ProcessSpawned, SetKey
    <3>2. s \notin Elements(order)
      BY <2>2 DEF MapAgrees
    <3>3. /\ order' \in Seq(Sessions) /\ Distinct(order')
          /\ Elements(order') = Elements(order) \union {s}
      BY <1>3, <3>1, <3>2, AppendDistinct DEF MapAgrees, PoolTypes
    <3>4. Len(order') <= Len(order) + 1
      BY <1>3, <3>1 DEF PoolTypes
    <3> QED BY <1>3, <1>4, <3>3, <3>4 DEF MapAgrees, Pooled
  <2> QED BY <2>1, <2>2
<1>6. PoolTypes'
  <2>1. used' \in Seq(Sessions)
    BY <1>3, RemoveFirstType DEF ProcessSpawned, Touch, PoolTypes
  <2>2. alive' \subseteq Process /\ late' \subseteq Process
    BY <1>3 DEF ProcessSpawned, PoolTypes
  <2> QED BY <1>1, <1>2, <1>4, <1>5, <2>1, <2>2 DEF PoolTypes
<1>7. BoundedOvershoot'
  <2>1. Len(order) \in Nat /\ Len(order') \in Nat /\ MaxProcesses \in Nat
    BY <1>5, MaxProcessesAssumption DEF PoolTypes
  <2>2. Cardinality(Pending) \in Nat /\ Cardinality(Calls) \in Nat
    BY CallsCounted DEF Pending
  <2> QED BY <1>2, <1>5, <2>1, <2>2 DEF BoundedOvershoot
<1>8. OverlapsAreNoted'
  <2>1. \A d \in Pending' : d \in Pending /\ d # c /\ call[d].session \in Sessions
    BY <1>2, PendingState DEF Pending
  <2>2. \A d \in Pending' : call[d].session = s => s \in disturbed
    BY <1>2, <2>1 DEF OverlapsAreNoted
  <2> QED BY <1>1, <1>2, <1>4, <2>1, <2>2 DEF OverlapsAreNoted, Pooled
<1>9. LateOnly'
  <2>1. alive' = alive \union {p} /\ late' = (IF closing THEN late \union {p} ELSE late)
    BY DEF ProcessSpawned
  <2>2. \A t \in Sessions : proc[t] # p
    BY <1>3, SetsAssumption DEF ProcessSpawned, PooledProcs
  <2> QED BY <1>1, <1>4, <2>1, <2>2 DEF LateOnly
<1>10. RecordsFit'
  <2> SUFFICES ASSUME NEW t \in Sessions, t \notin disturbed, RecordOf(t) PROVE RecordOf(t)'
    BY <1>1 DEF RecordsFit
  <2>1. CASE t # s
    <3>1. PendingFor(t)' = PendingFor(t)
      BY <1>2, <2>1 DEF PendingFor
    <3>2. \A d \in PendingFor(t) : call'[d] = call[d]
      BY <1>2, <2>1 DEF PendingFor
    <3> QED BY <1>1, <1>4, <2>1, <3>1, <3>2 DEF RecordOf, Pooled
  <2>2. CASE t = s
    <3>1. PendingFor(t) = {c}
      BY <1>2, <2>2 DEF OverlapsAreNoted, PendingFor
    <3>2. PendingFor(t)' = {}
      BY <1>2, <3>1
    <3>3. overrides'[t] \in {None, proc'[t].with} /\ proc'[t] # None
      BY <1>1, <1>3, <1>4, <2>2, <3>1 DEF RecordOf
    <3> QED BY <3>2, <3>3 DEF RecordOf, Pooled
  <2> QED BY <2>1, <2>2
<1> QED BY <1>5, <1>6, <1>7, <1>8, <1>9, <1>10

LEMMA SpawnFailsKeeps ==
  ASSUME ProcessPoolInv, NEW c \in Calls, SpawnFails(c)
  PROVE  ProcessPoolInv'
<1> USE DEF ProcessPoolInv
<1> DEFINE s == call[c].session
<1>1. /\ call[c].pc = "spawning" /\ call' = [call EXCEPT ![c] = Idle]
      /\ disturbed' = disturbed \union {s}
      /\ UNCHANGED <<order, proc, overrides, alive, closing, late, used>>
  BY DEF SpawnFails
<1>2. /\ call' \in [Calls -> CallState]
      /\ c \in Pending /\ Pending' = Pending \ {c}
      /\ \A d \in Pending' : call'[d] = call[d]
      /\ \A t \in Sessions : PendingFor(t)' = PendingFor(t) \ {c}
      /\ Cardinality(Pending') = Cardinality(Pending) - 1
  BY <1>1, CallEnds
<1>3. s \in Sessions
  BY <1>2, PendingState DEF Pending
<1>4. PoolTypes' /\ MapAgrees' /\ LateOnly'
  BY <1>1, <1>2, <1>3 DEF PoolTypes, MapAgrees, LateOnly, Pooled
<1>5. BoundedOvershoot'
  <2>1. Len(order) \in Nat /\ MaxProcesses \in Nat
    BY MaxProcessesAssumption DEF PoolTypes
  <2>2. Cardinality(Pending) \in Nat /\ Cardinality(Calls) \in Nat
    BY CallsCounted DEF Pending
  <2> QED BY <1>1, <1>2, <2>1, <2>2 DEF BoundedOvershoot
<1>6. OverlapsAreNoted'
  BY <1>1, <1>2 DEF OverlapsAreNoted, Pooled
<1>7. RecordsFit'
  <2> SUFFICES ASSUME NEW t \in Sessions, t \notin disturbed, t # s, RecordOf(t)
               PROVE  RecordOf(t)'
    BY <1>1 DEF RecordsFit
  <2>1. PendingFor(t)' = PendingFor(t)
    BY <1>2 DEF PendingFor
  <2>2. \A d \in PendingFor(t) : call'[d] = call[d]
    BY <1>2 DEF PendingFor
  <2> QED BY <1>1, <2>1, <2>2 DEF RecordOf, Pooled
<1> QED BY <1>4, <1>5, <1>6, <1>7

(* Steps that leave the calls alone.                                        *)
LEMMA CallsUntouched ==
  ASSUME ProcessPoolInv, UNCHANGED <<call, disturbed>>,
         order' \in Seq(Sessions), proc' \in [Sessions -> Process \union {None}],
         Len(order') <= Len(order),
         overrides' \in [Sessions -> Configs \union {None}],
         \A t \in Sessions :
           \/ proc'[t] = proc[t] /\ overrides'[t] = overrides[t]
           \/ proc'[t] = None /\ overrides'[t] = None
  PROVE  BoundedOvershoot' /\ OverlapsAreNoted' /\ RecordsFit'
<1> USE DEF ProcessPoolInv
<1>1. Pending' = Pending /\ \A t \in Sessions : PendingFor(t)' = PendingFor(t)
  BY DEF Pending, PendingFor
<1>2. BoundedOvershoot'
  <2>1. Len(order) \in Nat /\ Len(order') \in Nat /\ MaxProcesses \in Nat
    BY MaxProcessesAssumption DEF PoolTypes
  <2>2. Cardinality(Pending) \in Nat /\ Cardinality(Calls) \in Nat
    BY CallsCounted DEF Pending
  <2> QED BY <1>1, <2>1, <2>2 DEF BoundedOvershoot
<1>3. OverlapsAreNoted'
  <2>1. \A c \in Pending : call[c].session \in Sessions
    BY PendingState DEF Pending
  <2> QED BY <1>1, <2>1 DEF OverlapsAreNoted, Pooled
<1>4. ASSUME NEW t \in Sessions, t \notin disturbed, RecordOf(t) PROVE RecordOf(t)'
  <2>1. CASE proc'[t] = proc[t] /\ overrides'[t] = overrides[t]
    BY <1>1, <1>4, <2>1 DEF RecordOf, Pooled
  <2>2. CASE proc'[t] = None /\ overrides'[t] = None
    BY <1>1, <2>2 DEF RecordOf, Pooled
  <2> QED BY <2>1, <2>2
<1> QED BY <1>2, <1>3, <1>4 DEF RecordsFit

LEMMA ReuseKeeps ==
  ASSUME ProcessPoolInv,
         NEW c \in Calls, NEW s \in Sessions, NEW o \in Configs \union {None},
         Reuse(c, s, o)
  PROVE  ProcessPoolInv'
<1> USE DEF ProcessPoolInv
<1>1. /\ Pooled(s) /\ order' = Append(RemoveFirst(order, s), s)
      /\ used' = Append(RemoveFirst(used, s), s)
      /\ UNCHANGED <<proc, overrides, alive, call, closing, late, disturbed>>
  BY DEF Reuse, MoveToTail, Touch
<1>2. s \in Elements(order)
  BY <1>1 DEF MapAgrees
<1>3. /\ RemoveFirst(order, s) \in Seq(Sessions)
      /\ Len(RemoveFirst(order, s)) = Len(order) - 1
      /\ Distinct(RemoveFirst(order, s))
      /\ Elements(RemoveFirst(order, s)) = Elements(order) \ {s}
  BY <1>2, RemoveFirstDistinct DEF PoolTypes, MapAgrees
<1>4. /\ order' \in Seq(Sessions) /\ Distinct(order')
      /\ Elements(order') = Elements(order)
  <2> DEFINE r == RemoveFirst(order, s)
  <2>1. r \in Seq(Sessions) /\ Distinct(r) /\ s \notin Elements(r)
    BY <1>3
  <2>2. /\ Append(r, s) \in Seq(Sessions) /\ Distinct(Append(r, s))
        /\ Elements(Append(r, s)) = Elements(r) \union {s}
    <3> HIDE DEF r
    <3> QED BY <2>1, AppendDistinct
  <2> QED BY <1>1, <1>2, <1>3, <2>2
<1>5. Len(order') = Len(order)
  BY <1>1, <1>3 DEF PoolTypes
<1>6. used' \in Seq(Sessions)
  BY <1>1, RemoveFirstType DEF PoolTypes
<1>7. PoolTypes' /\ MapAgrees' /\ LateOnly'
  BY <1>1, <1>4, <1>6 DEF PoolTypes, MapAgrees, LateOnly, Pooled
<1>8. BoundedOvershoot' /\ OverlapsAreNoted' /\ RecordsFit'
  <2>1. Len(order') <= Len(order)
    BY <1>5 DEF PoolTypes
  <2> QED BY <1>1, <1>4, <2>1, CallsUntouched DEF PoolTypes
<1> QED BY <1>7, <1>8

LEMMA InvalidateKeeps ==
  ASSUME ProcessPoolInv, NEW s \in Sessions, Invalidate(s)
  PROVE  ProcessPoolInv'
<1> USE DEF ProcessPoolInv
<1>1. /\ Pooled(s) /\ order' = RemoveFirst(order, s)
      /\ alive' = alive \ {proc[s]}
      /\ proc' = [proc EXCEPT ![s] = None]
      /\ overrides' = [overrides EXCEPT ![s] = None]
      /\ UNCHANGED <<call, closing, late, used, disturbed>>
  BY DEF Invalidate, Stop, Forget
<1>2. s \in Elements(order)
  BY <1>1 DEF MapAgrees
<1>3. /\ order' \in Seq(Sessions) /\ Len(order') = Len(order) - 1
      /\ Distinct(order') /\ Elements(order') = Elements(order) \ {s}
  BY <1>1, <1>2, RemoveFirstDistinct DEF PoolTypes, MapAgrees
<1>4. /\ proc' \in [Sessions -> Process \union {None}] /\ proc'[s] = None
      /\ overrides' \in [Sessions -> Configs \union {None}] /\ overrides'[s] = None
      /\ \A t \in Sessions \ {s} : proc'[t] = proc[t] /\ overrides'[t] = overrides[t]
  BY <1>1 DEF PoolTypes
<1>5. PoolTypes' /\ MapAgrees'
  BY <1>1, <1>3, <1>4 DEF PoolTypes, MapAgrees, Pooled
<1>6. LateOnly'
  <2>1. None \notin alive
    BY SetsAssumption DEF PoolTypes
  <2> QED BY <1>1, <1>4, <2>1 DEF LateOnly
<1>7. BoundedOvershoot' /\ OverlapsAreNoted' /\ RecordsFit'
  <2>1. Len(order') <= Len(order)
    BY <1>3 DEF PoolTypes
  <2> QED BY <1>1, <1>3, <1>4, <2>1, CallsUntouched
<1> QED BY <1>5, <1>6, <1>7

LEMMA ShutdownKeeps ==
  ASSUME ProcessPoolInv, StartShutdown \/ FinishShutdown \/ \E p \in alive : Die(p)
  PROVE  ProcessPoolInv'
<1> USE DEF ProcessPoolInv
<1>1. CASE StartShutdown \/ \E p \in alive : Die(p)
  <2>1. /\ UNCHANGED <<order, proc, overrides, call, used, disturbed>>
        /\ alive' \subseteq alive
    BY <1>1 DEF StartShutdown, Die
  <2>2. PoolTypes' /\ MapAgrees'
    BY <1>1, <2>1 DEF StartShutdown, Die, PoolTypes, MapAgrees, Pooled
  <2>3. LateOnly'
    <3>1. CASE StartShutdown
      <4>1. \A s \in Sessions : proc[s] \notin alive'
        BY <3>1, SetsAssumption DEF StartShutdown, PooledProcs, PoolTypes
      <4> QED BY <2>1, <4>1 DEF LateOnly
    <3>2. CASE \E p \in alive : Die(p)
      BY <2>1, <3>2 DEF Die, LateOnly
    <3> QED BY <1>1, <3>1, <3>2
  <2>4. BoundedOvershoot' /\ OverlapsAreNoted' /\ RecordsFit'
    <3>1. Len(order') <= Len(order)
      BY <2>1 DEF PoolTypes
    <3> QED BY <2>1, <3>1, CallsUntouched DEF PoolTypes
  <2> QED BY <2>2, <2>3, <2>4
<1>2. CASE FinishShutdown
  <2>1. /\ closing' = FALSE /\ late' = {} /\ order' = <<>>
        /\ proc' = [s \in Sessions |-> None] /\ overrides' = [s \in Sessions |-> None]
        /\ UNCHANGED <<alive, call, used, disturbed>>
    BY <1>2 DEF FinishShutdown
  <2>2. /\ order' \in Seq(Sessions) /\ Len(order') = 0 /\ Len(order) \in Nat
        /\ Distinct(order') /\ Elements(order') = {}
    BY <2>1 DEF Distinct, Elements, PoolTypes
  <2>3. PoolTypes' /\ MapAgrees' /\ LateOnly'
    BY <2>1, <2>2 DEF PoolTypes, MapAgrees, LateOnly, Pooled
  <2>4. Len(order') <= Len(order)
    BY <2>2
  <2>5. BoundedOvershoot' /\ OverlapsAreNoted' /\ RecordsFit'
    BY <2>1, <2>2, <2>4, CallsUntouched
  <2> QED BY <2>3, <2>5
<1> QED BY <1>1, <1>2

LEMMA PoolIsSound == PoolSpec => []ProcessPoolInv
<1>1. PoolInit => ProcessPoolInv
  <2> SUFFICES ASSUME PoolInit PROVE ProcessPoolInv
    OBVIOUS
  <2>1. /\ order \in Seq(Sessions) /\ used \in Seq(Sessions) /\ Len(order) = 0
        /\ Distinct(order) /\ Elements(order) = {}
    BY DEF PoolInit, Distinct, Elements
  <2>2. PoolTypes /\ MapAgrees
    BY <2>1 DEF PoolInit, PoolTypes, MapAgrees, Pooled, CallState
  <2>3. Pending = {}
    BY DEF PoolInit, Pending, Idle
  <2>4. BoundedOvershoot
    <3>1. Cardinality({}) = 0 /\ Cardinality(Calls) \in Nat /\ Cardinality(Calls) # 0
      BY SetsAssumption, FS_EmptySet, FS_CardinalityType
    <3> QED BY <2>1, <2>3, <3>1, MaxProcessesAssumption DEF BoundedOvershoot
  <2>5. OverlapsAreNoted /\ LateOnly
    BY <2>3 DEF PoolInit, OverlapsAreNoted, LateOnly
  <2>6. RecordsFit
    BY <2>3 DEF PoolInit, RecordsFit, RecordOf, PendingFor, Pooled
  <2> QED BY <2>2, <2>4, <2>5, <2>6 DEF ProcessPoolInv
<1>2. ASSUME ProcessPoolInv, [PoolNext]_poolVars PROVE ProcessPoolInv'
  <2>1. CASE UNCHANGED poolVars
    <3>1. UNCHANGED <<order, proc, overrides, alive, call, closing, used, late, disturbed>>
      BY <2>1 DEF poolVars
    <3>2. Len(order') <= Len(order)
      BY <1>2, <3>1 DEF ProcessPoolInv, PoolTypes
    <3>3. BoundedOvershoot' /\ OverlapsAreNoted' /\ RecordsFit'
      BY <1>2, <3>1, <3>2, CallsUntouched DEF ProcessPoolInv, PoolTypes
    <3> QED BY <1>2, <3>1, <3>3 DEF ProcessPoolInv, PoolTypes, MapAgrees, LateOnly, Pooled
  <2> QED BY <1>2, <2>1, ReuseKeeps, MustSpawnKeeps, CallSpawnKeeps, SpawnFailsKeeps,
             ProcessSpawnedKeeps, InvalidateKeeps, ShutdownKeeps DEF PoolNext
<1> QED BY <1>1, <1>2, PTL DEF PoolSpec

(* The pool's variables have their types and the parts of its map agree: a  *)
(* session is at most once in the order, and is there just if it is pooled  *)
(* (processes and configOverrides, session-process-pool.ts).                *)
THEOREM PoolTypeCorrect == PoolSpec => []PoolTypeOK
<1>1. ProcessPoolInv => PoolTypeOK
  BY PoolTypeParts DEF ProcessPoolInv
<1> QED BY <1>1, PoolIsSound, PTL

(* Entries and calls that may still add one never exceed the capacity by    *)
(* more than the number of concurrent calls less one: evictOldestIfNeeded   *)
(* checks the size before the spawn that fills the place.                   *)
THEOREM OvershootCorrect == PoolSpec => []BoundedOvershoot
<1>1. ProcessPoolInv => BoundedOvershoot
  BY DEF ProcessPoolInv
<1> QED BY <1>1, PoolIsSound, PTL

(* The overrides recorded for a pooled session are those its process was    *)
(* spawned with, unless its calls overlapped or a spawn of it failed.       *)
THEOREM RecordCorrect == PoolSpec => []RecordedIsRunning
<1>1. ProcessPoolInv => RecordedIsRunning
  BY DEF ProcessPoolInv, RecordsFit, RecordOf, RecordedIsRunning
<1> QED BY <1>1, PoolIsSound, PTL

(* A step takes a live process out of the pool without stopping it only     *)
(* when it joined the pool during the shutdown that clears the map, or when *)
(* overlapping calls for its session each spawned one.                      *)
THEOREM DroppedCorrect == PoolSpec => DroppedOnlyByRace
<1> DEFINE Kept(s) == Pooled(s) /\ proc[s] \in alive /\ proc[s] \in alive' =>
                        \/ proc[s] \in PooledProcs'
                        \/ proc[s] \in late
                        \/ s \in disturbed
<1>1. ASSUME ProcessPoolInv, [PoolNext]_poolVars, NEW s \in Sessions PROVE Kept(s)
  <2> USE <1>1 DEF ProcessPoolInv
  <2>1. \A t \in Sessions : Pooled(s) /\ proc'[t] = proc[s] => proc[s] \in PooledProcs'
    BY DEF PooledProcs, Pooled
  <2>2. CASE proc'[s] = proc[s]
    BY <2>1, <2>2
  <2>3. ASSUME NEW c \in Calls, NEW t \in Sessions, NEW o \in Configs \union {None},
               MustSpawn(c, t, o)
        PROVE  Kept(s)
    <3>1. proc[s] \in alive' => proc'[s] = proc[s]
      BY <2>3, RoomIsMade
    <3> QED BY <2>1, <3>1
  <2>4. ASSUME NEW c \in Calls, NEW h \in Handles, ProcessSpawned(c, h)
        PROVE  Kept(s)
    <3>1. c \in Pending /\ call[c].session \in Sessions
      BY <2>4, PendingState DEF ProcessSpawned, Pending
    <3>2. proc'[s] = proc[s] \/ s = call[c].session
      BY <2>4, <3>1 DEF ProcessSpawned, PoolTypes
    <3> QED BY <2>2, <3>1, <3>2 DEF OverlapsAreNoted
  <2>5. ASSUME NEW t \in Sessions, Invalidate(t) PROVE Kept(s)
    <3>1. proc'[s] = proc[s] \/ s = t
      BY <2>5 DEF Invalidate, PoolTypes
    <3> QED BY <2>2, <2>5, <3>1 DEF Invalidate, Stop
  <2>6. CASE FinishShutdown
    BY <2>6 DEF FinishShutdown, LateOnly
  <2>7. ASSUME UNCHANGED proc PROVE Kept(s)
    BY <2>2, <2>7
  <2> QED BY <2>3, <2>4, <2>5, <2>6, <2>7 DEF PoolNext, Reuse, CallSpawn, SpawnFails,
             StartShutdown, Die, poolVars
<1>2. ProcessPoolInv /\ [PoolNext]_poolVars => \A s \in Sessions : Kept(s)
  <2> HIDE DEF Kept
  <2> QED BY <1>1
<1> QED BY <1>2, PoolIsSound, PTL DEF PoolSpec, DroppedOnlyByRace
-----------------------------------------------------------------------------
(* The order of use.  x comes before y in s. *)
Precedes(s, x, y) == \E i, j \in DOMAIN s : i < j /\ s[i] = x /\ s[j] = y

(* Taking an element out leaves the others in their order, ... *)
LEMMA RemovedPrecedes ==
  ASSUME NEW S, NEW s \in Seq(S), Distinct(s), NEW e, NEW x, NEW y
  PROVE  /\ Precedes(RemoveFirst(s, e), x, y) => Precedes(s, x, y)
         /\ Precedes(s, x, y) /\ x # e /\ y # e => Precedes(RemoveFirst(s, e), x, y)
<1>1. Len(s) \in Nat /\ DOMAIN s = 1 .. Len(s)
  OBVIOUS
<1>2. CASE e \notin Elements(s)
  BY <1>1, <1>2 DEF RemoveFirst, Elements
<1>3. CASE e \in Elements(s)
  <2> DEFINE r == RemoveFirst(s, e)
             n == Len(s)
  <2>1. PICK k \in 1 .. n :
          /\ s[k] = e
          /\ r \in Seq(S)
          /\ Len(r) = n - 1
          /\ \A i \in 1 .. n - 1 : r[i] = IF i < k THEN s[i] ELSE s[i + 1]
    <3>1. \E i \in 1 .. Len(s) : s[i] = e
      BY <1>1, <1>3 DEF Elements
    <3> QED BY <3>1, RemoveFirstPlace
  <2> HIDE DEF r, n
  <2>2. n \in Nat /\ DOMAIN s = 1 .. n /\ DOMAIN r = 1 .. n - 1
    BY <1>1, <2>1 DEF n
  <2>3. ASSUME Precedes(r, x, y) PROVE Precedes(s, x, y)
    <3>1. PICK i \in 1 .. n - 1 : \E j \in 1 .. n - 1 : i < j /\ r[i] = x /\ r[j] = y
      BY <2>2, <2>3 DEF Precedes
    <3>2. PICK j \in 1 .. n - 1 : i < j /\ r[i] = x /\ r[j] = y
      BY <3>1
    <3> DEFINE a == IF i < k THEN i ELSE i + 1
               b == IF j < k THEN j ELSE j + 1
    <3>3. a \in 1 .. n /\ b \in 1 .. n /\ a < b
      BY <2>1, <2>2, <3>2
    <3>4. s[a] = x /\ s[b] = y
      BY <2>1, <3>2
    <3> HIDE DEF a, b
    <3> QED BY <2>2, <3>3, <3>4 DEF Precedes
  <2>4. ASSUME Precedes(s, x, y), x # e, y # e PROVE Precedes(r, x, y)
    <3>1. PICK i \in 1 .. n : \E j \in 1 .. n : i < j /\ s[i] = x /\ s[j] = y
      BY <2>2, <2>4 DEF Precedes
    <3>2. PICK j \in 1 .. n : i < j /\ s[i] = x /\ s[j] = y
      BY <3>1
    <3> DEFINE a == IF i < k THEN i ELSE i - 1
               b == IF j < k THEN j ELSE j - 1
    <3>3. i # k /\ j # k
      BY <2>1, <2>4, <3>2
    <3>4. /\ a \in 1 .. n - 1 /\ b \in 1 .. n - 1 /\ a < b
          /\ a < k => a = i
          /\ ~(a < k) => a + 1 = i
          /\ b < k => b = j
          /\ ~(b < k) => b + 1 = j
      BY <2>1, <2>2, <3>2, <3>3
    <3> HIDE DEF a, b
    <3>5. r[a] = x
      BY <2>1, <3>2, <3>4
    <3>6. r[b] = y
      BY <2>1, <3>2, <3>4
    <3> QED BY <2>2, <3>4, <3>5, <3>6 DEF Precedes
  <2> QED BY <2>3, <2>4 DEF r
<1> QED BY <1>2, <1>3

(* ... and so does taking away the first; one put at the end comes last.   *)
LEMMA TailPrecedes ==
  ASSUME NEW S, NEW s \in Seq(S), s # <<>>, NEW x, NEW y, Precedes(Tail(s), x, y)
  PROVE  Precedes(s, x, y)
<1> DEFINE t == Tail(s)
           n == Len(s)
<1>1. /\ n \in Nat /\ DOMAIN s = 1 .. n /\ DOMAIN t = 1 .. n - 1
      /\ \A i \in 1 .. n - 1 : t[i] = s[i + 1]
  OBVIOUS
<1> HIDE DEF t, n
<1>2. PICK i \in 1 .. n - 1 : \E j \in 1 .. n - 1 : i < j /\ t[i] = x /\ t[j] = y
  BY <1>1 DEF Precedes, t
<1>3. PICK j \in 1 .. n - 1 : i < j /\ t[i] = x /\ t[j] = y
  BY <1>2
<1>4. /\ i + 1 \in 1 .. n /\ j + 1 \in 1 .. n /\ i + 1 < j + 1
      /\ s[i + 1] = x /\ s[j + 1] = y
  BY <1>1, <1>3
<1> QED BY <1>1, <1>4 DEF Precedes

LEMMA AppendPrecedes ==
  ASSUME NEW S, NEW s \in Seq(S), NEW e \in S, NEW x, NEW y
  PROVE  Precedes(Append(s, e), x, y) <=> Precedes(s, x, y) \/ (x \in Elements(s) /\ y = e)
<1> DEFINE t == Append(s, e)
           n == Len(s)
<1>1. /\ n \in Nat /\ DOMAIN s = 1 .. n /\ DOMAIN t = 1 .. n + 1
      /\ t[n + 1] = e /\ \A i \in 1 .. n : t[i] = s[i]
  OBVIOUS
<1> HIDE DEF t, n
<1>2. ASSUME Precedes(t, x, y) PROVE Precedes(s, x, y) \/ (x \in Elements(s) /\ y = e)
  <2>1. PICK i \in 1 .. n + 1 : \E j \in 1 .. n + 1 : i < j /\ t[i] = x /\ t[j] = y
    BY <1>1, <1>2 DEF Precedes
  <2>2. PICK j \in 1 .. n + 1 : i < j /\ t[i] = x /\ t[j] = y
    BY <2>1
  <2>3. i \in 1 .. n /\ s[i] = x
    BY <1>1, <2>2
  <2>4. CASE j = n + 1
    BY <1>1, <2>2, <2>3, <2>4 DEF Elements
  <2>5. CASE j # n + 1
    <3>1. j \in 1 .. n /\ s[j] = y
      BY <1>1, <2>2, <2>5
    <3>2. i < j
      BY <2>2
    <3>3. Precedes(s, x, y)
      BY <1>1, <2>3, <3>1, <3>2 DEF Precedes
    <3> QED BY <3>3
  <2> QED BY <2>4, <2>5
<1>3. ASSUME Precedes(s, x, y) PROVE Precedes(t, x, y)
  <2>1. PICK i \in 1 .. n : \E j \in 1 .. n : i < j /\ s[i] = x /\ s[j] = y
    BY <1>1, <1>3 DEF Precedes
  <2>2. PICK j \in 1 .. n : i < j /\ s[i] = x /\ s[j] = y
    BY <2>1
  <2>3. i \in 1 .. n + 1 /\ j \in 1 .. n + 1 /\ t[i] = x /\ t[j] = y
    BY <1>1, <2>2
  <2> QED BY <1>1, <2>2, <2>3 DEF Precedes
<1>4. ASSUME x \in Elements(s), y = e PROVE Precedes(t, x, y)
  <2>1. PICK i \in 1 .. n : s[i] = x
    BY <1>1, <1>4 DEF Elements
  <2>2. i \in 1 .. n + 1 /\ n + 1 \in 1 .. n + 1 /\ i < n + 1 /\ t[i] = x /\ t[n + 1] = y
    BY <1>1, <1>4, <2>1
  <2> QED BY <1>1, <2>2 DEF Precedes
<1> QED BY <1>2, <1>3, <1>4 DEF t

(* The order of the map is that of the last uses, but for sessions that     *)
(* were disturbed, and each pooled session has been used.                   *)
UseIsKnown == Distinct(used) /\ Elements(order) \subseteq Elements(used)

OrderIsUse ==
  \A x, y : Precedes(order, x, y) /\ x \notin disturbed => Precedes(used, x, y)

UseInv == UseIsKnown /\ OrderIsUse

(* A session that has been served is the last one used. *)
LEMMA TouchMoves ==
  ASSUME PoolTypes, UseInv, NEW s \in Sessions, Touch(s)
  PROVE  /\ Distinct(used') /\ Elements(used') = Elements(used) \cup {s}
         /\ \A x, y : Precedes(used, x, y) /\ x # s /\ y # s => Precedes(used', x, y)
         /\ \A x \in Elements(used) \ {s} : Precedes(used', x, s)
<1> DEFINE r == RemoveFirst(used, s)
<1>1. used \in Seq(Sessions) /\ Distinct(used) /\ used' = Append(r, s)
  BY DEF PoolTypes, UseInv, UseIsKnown, Touch
<1>2. r \in Seq(Sessions) /\ Distinct(r) /\ Elements(r) = Elements(used) \ {s}
  <2>1. CASE s \in Elements(used)
    BY <1>1, <2>1, RemoveFirstDistinct
  <2>2. CASE s \notin Elements(used)
    <3>1. r = used
      BY <1>1, <2>2 DEF RemoveFirst, Elements
    <3> QED BY <1>1, <2>2, <3>1
  <2> QED BY <2>1, <2>2
<1>3. \A x, y : Precedes(used, x, y) /\ x # s /\ y # s => Precedes(r, x, y)
  BY <1>1, RemovedPrecedes
<1> HIDE DEF r
<1>4. /\ Distinct(Append(r, s)) /\ Elements(Append(r, s)) = Elements(r) \cup {s}
  BY <1>2, AppendDistinct
<1>5. \A x, y : Precedes(Append(r, s), x, y) <=>
                  Precedes(r, x, y) \/ (x \in Elements(r) /\ y = s)
  <2>1. r \in Seq(Sessions)
    BY <1>2
  <2> SUFFICES ASSUME NEW x, NEW y
               PROVE  Precedes(Append(r, s), x, y) <=>
                        Precedes(r, x, y) \/ (x \in Elements(r) /\ y = s)
    OBVIOUS
  <2> QED BY <2>1, AppendPrecedes
<1> QED BY <1>1, <1>2, <1>3, <1>4, <1>5

(* Nothing is served, and the map loses entries or none. *)
LEMMA FewerKept ==
  ASSUME UseInv, UNCHANGED used, disturbed \subseteq disturbed',
         Elements(order') \subseteq Elements(order),
         \A x, y : Precedes(order', x, y) => Precedes(order, x, y)
  PROVE  UseInv'
BY DEF UseInv, UseIsKnown, OrderIsUse

LEMMA ReuseInOrder ==
  ASSUME ProcessPoolInv, UseInv, NEW c \in Calls, NEW s \in Sessions,
         NEW o \in Configs \union {None}, Reuse(c, s, o)
  PROVE  UseInv'
<1> DEFINE r == RemoveFirst(order, s)
<1>1. order \in Seq(Sessions) /\ Distinct(order) /\ s \in Elements(order)
  BY DEF ProcessPoolInv, PoolTypes, MapAgrees, Reuse
<1>2. r \in Seq(Sessions) /\ Distinct(r) /\ Elements(r) = Elements(order) \ {s}
  BY <1>1, RemoveFirstDistinct
<1>3. \A x, y : Precedes(r, x, y) => Precedes(order, x, y)
  BY <1>1, RemovedPrecedes
<1> HIDE DEF r
<1>4. \A x, y : Precedes(Append(r, s), x, y) <=>
                  Precedes(r, x, y) \/ (x \in Elements(r) /\ y = s)
  <2>1. r \in Seq(Sessions)
    BY <1>2
  <2> SUFFICES ASSUME NEW x, NEW y
               PROVE  Precedes(Append(r, s), x, y) <=>
                        Precedes(r, x, y) \/ (x \in Elements(r) /\ y = s)
    OBVIOUS
  <2> QED BY <2>1, AppendPrecedes
<1>5. Distinct(Append(r, s)) /\ Elements(Append(r, s)) = Elements(r) \cup {s}
  BY <1>2, AppendDistinct
<1>6. order' = Append(r, s) /\ disturbed' = disturbed /\ Touch(s)
  BY DEF Reuse, MoveToTail, r
<1>7. /\ Distinct(used') /\ Elements(used') = Elements(used) \cup {s}
      /\ \A x, y : Precedes(used, x, y) /\ x # s /\ y # s => Precedes(used', x, y)
      /\ \A x \in Elements(used) \ {s} : Precedes(used', x, s)
  BY <1>6, TouchMoves DEF ProcessPoolInv
<1>8. \A x, y : Precedes(r, x, y) => x \in Elements(r) /\ y \in Elements(r)
  BY DEF Precedes, Elements
<1>9. UseIsKnown'
  BY <1>2, <1>5, <1>6, <1>7 DEF UseInv, UseIsKnown
<1>10. ASSUME NEW x, NEW y, Precedes(order', x, y), x \notin disturbed'
       PROVE  Precedes(used', x, y)
  <2>1. CASE Precedes(r, x, y)
    <3>1. x # s /\ y # s /\ Precedes(order, x, y) /\ x \notin disturbed
      BY <1>2, <1>3, <1>6, <1>8, <1>10, <2>1
    <3> QED BY <1>7, <3>1 DEF UseInv, OrderIsUse
  <2>2. CASE x \in Elements(r) /\ y = s
    BY <1>2, <1>7, <2>2 DEF UseInv, UseIsKnown
  <2> QED BY <1>4, <1>6, <1>10, <2>1, <2>2
<1> QED BY <1>9, <1>10 DEF UseInv, OrderIsUse

(* A spawned process takes the last place, unless its session already has   *)
(* one: then it has been disturbed.                                         *)
LEMMA SpawnedInOrder ==
  ASSUME ProcessPoolInv, UseInv, NEW c \in Calls, NEW h \in Handles, ProcessSpawned(c, h)
  PROVE  UseInv'
<1> DEFINE s == call[c].session
<1>1. s \in Sessions /\ c \in Pending
  BY PendingState DEF ProcessPoolInv, ProcessSpawned, Pending
<1> HIDE DEF s
<1>2. /\ order' = SetKey(order, s) /\ disturbed' = disturbed /\ Touch(s)
  BY DEF ProcessSpawned, s
<1>3. Pooled(s) => s \in disturbed
  BY <1>1 DEF ProcessPoolInv, OverlapsAreNoted, s
<1>4. /\ Distinct(used') /\ Elements(used') = Elements(used) \cup {s}
      /\ \A x, y : Precedes(used, x, y) /\ x # s /\ y # s => Precedes(used', x, y)
      /\ \A x \in Elements(used) \ {s} : Precedes(used', x, s)
  BY <1>1, <1>2, TouchMoves DEF ProcessPoolInv
<1>5. order \in Seq(Sessions) /\ Elements(order) = {t \in Sessions : Pooled(t)}
  BY DEF ProcessPoolInv, PoolTypes, MapAgrees
<1>6. \A x, y : Precedes(order, x, y) => x \in Elements(order) /\ y \in Elements(order)
  BY DEF Precedes, Elements
<1>7. ASSUME NEW x, NEW y, Precedes(order, x, y), x \notin disturbed PROVE Precedes(used', x, y)
  <2>1. Precedes(used, x, y) /\ x \in Elements(order) /\ x # s
    BY <1>1, <1>3, <1>5, <1>6, <1>7 DEF UseInv, OrderIsUse
  <2>2. CASE y = s
    BY <1>4, <2>1, <2>2 DEF UseInv, UseIsKnown
  <2>3. CASE y # s
    BY <1>4, <2>1, <2>3
  <2> QED BY <2>2, <2>3
<1>8. CASE Pooled(s)
  <2>1. order' = order
    BY <1>2, <1>8 DEF SetKey
  <2> QED BY <1>2, <1>4, <1>7, <2>1 DEF UseInv, UseIsKnown, OrderIsUse
<1>9. CASE ~Pooled(s)
  <2>1. order' = Append(order, s) /\ s \notin Elements(order)
    BY <1>2, <1>5, <1>9 DEF SetKey
  <2>2. Elements(order') = Elements(order) \cup {s}
    BY <1>1, <1>5, <2>1, AppendDistinct DEF ProcessPoolInv, MapAgrees
  <2>3. ASSUME NEW x, NEW y, Precedes(order', x, y), x \notin disturbed'
        PROVE  Precedes(used', x, y)
    <3>1. Precedes(order, x, y) \/ (x \in Elements(order) /\ y = s)
      <4>1. order \in Seq(Sessions) /\ Precedes(Append(order, s), x, y)
        BY <1>5, <2>1, <2>3
      <4> QED BY <1>1, <4>1, AppendPrecedes
    <3>2. CASE Precedes(order, x, y)
      BY <1>2, <1>7, <2>3, <3>2
    <3>3. CASE x \in Elements(order) /\ y = s
      BY <1>4, <2>1, <3>3 DEF UseInv, UseIsKnown
    <3> QED BY <3>1, <3>2, <3>3
  <2> QED BY <1>4, <2>2, <2>3 DEF UseInv, UseIsKnown, OrderIsUse
<1> QED BY <1>8, <1>9

LEMMA UseStep ==
  ASSUME ProcessPoolInv, UseInv, [PoolNext]_poolVars
  PROVE  UseInv'
<1>1. order \in Seq(Sessions) /\ Distinct(order)
  BY DEF ProcessPoolInv, PoolTypes, MapAgrees
<1>2. \A s \in Elements(order) :
        LET r == RemoveFirst(order, s)
        IN  /\ r \in Seq(Sessions) /\ Elements(r) \subseteq Elements(order)
            /\ \A x, y : Precedes(r, x, y) => Precedes(order, x, y)
  BY <1>1, RemoveFirstDistinct, RemovedPrecedes
<1>3. ASSUME NEW c \in Calls, NEW s \in Sessions, NEW o \in Configs \union {None},
             MustSpawn(c, s, o)
      PROVE  UseInv'
  <2> DEFINE others == IF Pooled(s) THEN RemoveFirst(order, s) ELSE order
  <2>1. Pooled(s) => s \in Elements(order)
    BY DEF ProcessPoolInv, MapAgrees
  <2>2. /\ others \in Seq(Sessions) /\ Elements(others) \subseteq Elements(order)
        /\ \A x, y : Precedes(others, x, y) => Precedes(order, x, y)
    <3>1. CASE Pooled(s)
      BY <1>2, <2>1, <3>1
    <3>2. CASE ~Pooled(s)
      BY <1>1, <3>2
    <3> QED BY <3>1, <3>2
  <2>3. /\ order' = others \/ (others # <<>> /\ order' = Tail(others))
        /\ used' = used /\ disturbed \subseteq disturbed'
    BY <1>3 DEF MustSpawn, StartCall
  <2> HIDE DEF others
  <2>4. CASE order' = others
    BY <2>2, <2>3, <2>4, FewerKept
  <2>5. CASE others # <<>> /\ order' = Tail(others)
    <3>1. \A x, y : Precedes(Tail(others), x, y) => Precedes(others, x, y)
      BY <2>2, <2>5, TailPrecedes
    <3>2. Elements(Tail(others)) \subseteq Elements(others)
      <4>1. \A i \in DOMAIN Tail(others) :
              i + 1 \in DOMAIN others /\ Tail(others)[i] = others[i + 1]
        BY <2>2, <2>5
      <4> QED BY <4>1 DEF Elements
    <3> QED BY <2>2, <2>3, <2>5, <3>1, <3>2, FewerKept
  <2> QED BY <2>3, <2>4, <2>5
<1>4. ASSUME NEW s \in Sessions, Invalidate(s) PROVE UseInv'
  <2>1. s \in Elements(order) /\ order' = RemoveFirst(order, s)
        /\ used' = used /\ disturbed' = disturbed
    BY <1>4 DEF ProcessPoolInv, MapAgrees, Invalidate
  <2> QED BY <1>2, <2>1, FewerKept
<1>5. CASE FinishShutdown
  <2>1. Elements(order') = {} /\ \A x, y : ~Precedes(order', x, y)
    BY <1>5 DEF FinishShutdown, Elements, Precedes
  <2> QED BY <1>5, <2>1, FewerKept DEF FinishShutdown
<1>6. ASSUME UNCHANGED <<order, used>>, disturbed \subseteq disturbed' PROVE UseInv'
  BY <1>6 DEF UseInv, UseIsKnown, OrderIsUse
<1>7. CASE \E c \in Calls : CallSpawn(c) \/ SpawnFails(c)
  BY <1>6, <1>7 DEF CallSpawn, SpawnFails
<1>8. CASE StartShutdown \/ \E p \in alive : Die(p)
  BY <1>6, <1>8 DEF StartShutdown, Die
<1>9. CASE UNCHANGED poolVars
  BY <1>6, <1>9 DEF poolVars
<1> QED BY <1>3, <1>4, <1>5, <1>7, <1>8, <1>9, ReuseInOrder, SpawnedInOrder DEF PoolNext

(* The place of a session in the order of use is what the property looks up. *)
LEMMA UseEnough == ProcessPoolInv /\ UseInv => LeastRecentFirst
<1> SUFFICES ASSUME ProcessPoolInv, UseInv,
                    NEW i \in 1 .. Len(order), NEW j \in 1 .. Len(order),
                    i < j, order[i] \notin disturbed
             PROVE  SelectInSeq(used, LAMBDA s : s = order[i]) <
                      SelectInSeq(used, LAMBDA s : s = order[j])
  BY DEF LeastRecentFirst
<1>1. /\ used \in Seq(Sessions) /\ DOMAIN used = 1 .. Len(used) /\ Distinct(used)
      /\ DOMAIN order = 1 .. Len(order)
  BY DEF ProcessPoolInv, PoolTypes, UseInv, UseIsKnown
<1>2. ASSUME NEW x, NEW k \in 1 .. Len(used), used[k] = x
      PROVE  LET I == {m \in 1 .. Len(used) : used[m] = x} IN I # {} /\ Min(I) = k
  <2>1. {m \in 1 .. Len(used) : used[m] = x} = {k}
    BY <1>1, <1>2 DEF Distinct
  <2>2. Min({k}) = k
    <3>1. k \in Nat
      BY <1>1
    <3> QED BY <3>1 DEF Min
  <2> QED BY <2>1, <2>2
<1>3. Precedes(order, order[i], order[j])
  BY <1>1 DEF Precedes
<1>4. Precedes(used, order[i], order[j])
  BY <1>3 DEF UseInv, OrderIsUse
<1>5. PICK k \in 1 .. Len(used) : \E l \in 1 .. Len(used) :
        k < l /\ used[k] = order[i] /\ used[l] = order[j]
  BY <1>1, <1>4 DEF Precedes
<1>6. PICK l \in 1 .. Len(used) : k < l /\ used[k] = order[i] /\ used[l] = order[j]
  BY <1>5
<1>7. /\ SelectInSeq(used, LAMBDA s : s = order[i]) = k
      /\ SelectInSeq(used, LAMBDA s : s = order[j]) = l
  BY <1>2, <1>6 DEF SelectInSeq
<1> QED BY <1>6, <1>7

(* The entry to be evicted next is the least recently used one, except for  *)
(* sessions whose calls overlapped or whose spawn failed: getOrCreate moves *)
(* an entry it finds to the tail, and set() puts a new one there.           *)
THEOREM RecencyCorrect == PoolSpec => []LeastRecentFirst
<1>1. PoolInit => UseInv
  <2> SUFFICES ASSUME PoolInit PROVE UseInv
    OBVIOUS
  <2>1. order = <<>> /\ used = <<>>
    BY DEF PoolInit
  <2> QED BY <2>1 DEF UseInv, UseIsKnown, OrderIsUse, Distinct, Elements, Precedes
<1>2. ProcessPoolInv /\ UseInv /\ [PoolNext]_poolVars => UseInv'
  BY UseStep
<1> QED BY <1>1, <1>2, PoolIsSound, UseEnough, PTL DEF PoolSpec
=============================================================================
