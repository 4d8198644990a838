------------------------------ MODULE Conductor ------------------------------
(***************************************************************************)
(* packages/conductor/src/conductor.ts: the messages it is given, through  *)
(* the queue of handleMessage() or streamed past it, and its shutdown.     *)
(*                                                                         *)
(* A message is prepared (hooks, memory search), answered by an agent or   *)
(* by the backend process of its session, and finalized (hooks, system     *)
(* actions, memory); the memory is stored with the help of one more        *)
(* process, spawned when first needed, which extracts entities.  All       *)
(* messages here are of one session.  Its process comes from the pool of   *)
(* SessionProcessPool.tla, of which this module sees the answer only.      *)
(*                                                                         *)
(* External: the hooks, the memory, the backends and the agents, all of    *)
(* which may fail, and the consumer of a stream, who may leave.            *)
(***************************************************************************)
EXTENDS Naturals, Sequences, FiniteSets

CONSTANTS
  Queued,         \* bound: the messages given to handleMessage()
  Streamed,       \* bound: those given to handleMessageStreaming()
  MaxQueueDepth,  \* maxQueueDepth
  NoOne           \* no message

ASSUME MessagesAssumption ==
  /\ IsFiniteSet(Queued) /\ IsFiniteSet(Streamed)
  /\ Queued \intersect Streamed = {} /\ NoOne \notin Queued \union Streamed
ASSUME DepthAssumption == MaxQueueDepth \in Nat

VARIABLES
  phase,         \* initialize() and the steps of shutdown()
  backend,       \* a backend was found at initialize()
  memory,        \* memoryConnected
  messageQueue,
  processing,
  pc,            \* where each message is
  outcome,       \* what its caller was told
  aborted,       \* the streams whose signal is aborted
  extraction,    \* extractionProcess
  spawnPromise,  \* extractionSpawnPromise: the message that spawns
  extractors     \* extraction processes that run

vars == <<phase, backend, memory, messageQueue, processing, pc, outcome,
          aborted, extraction, spawnPromise, extractors>>
given == <<backend, memory, aborted>>
extracting == <<extraction, spawnPromise, extractors>>

Messages == Queued \union Streamed
Phase == {"new", "up", "backend", "extraction", "sessions", "down"}
Stage == {"preparing", "resolving", "delegating", "sending", "finalizing",
          "spawning", "awaiting", "storing"}
Outcome == {"none", "answered", "failed", "refused"}

Init ==
  /\ phase = "new" /\ backend = FALSE /\ memory = FALSE
  /\ messageQueue = <<>> /\ processing = FALSE
  /\ pc = [m \in Messages |-> "new"]
  /\ outcome = [m \in Messages |-> "none"]
  /\ aborted = {}
  /\ extraction = "none" /\ spawnPromise = NoOne /\ extractors = 0

Waiting == {messageQueue[i] : i \in DOMAIN messageQueue}
Executing == {m \in Queued : pc[m] \in Stage}
Initialized == phase \notin {"new", "down"}

-----------------------------------------------------------------------------
(* The primary backend spawns, or else the fallback, or neither.           *)
Initialize ==
  /\ phase = "new"
  /\ phase' = "up"
  /\ backend' \in BOOLEAN /\ memory' \in BOOLEAN
  /\ UNCHANGED <<aborted, messageQueue, processing, pc, outcome, extracting>>

(* handleMessage() or handleMessageStreaming() throws at once: it is not   *)
(* initialized, the delegation is too deep, the queue is full, or the      *)
(* signal is aborted already.                                              *)
Refused(m) ==
  /\ pc[m] = "new"
  /\ pc' = [pc EXCEPT ![m] = "ended"]
  /\ outcome' = [outcome EXCEPT ![m] = "refused"]
  /\ UNCHANGED <<phase, given, messageQueue, processing, extracting>>

(* Some definitions are preceded by a faulty variant of themselves, used in *)
(* no action: a plausible mistake that a property below would expose.       *)

MayExecuteIfNoneWaits == messageQueue = <<>>
MayExecute == ~processing

(* handleMessage(): it waits while another is processed, if there is room. *)
Enqueue(m) ==
  /\ pc[m] = "new" /\ Initialized
  /\ processing /\ Len(messageQueue) < MaxQueueDepth
  /\ messageQueue' = Append(messageQueue, m)
  /\ pc' = [pc EXCEPT ![m] = "queued"]
  /\ UNCHANGED <<phase, given, processing, outcome, extracting>>

Execute(m) ==
  /\ pc[m] = "new" /\ Initialized
  /\ MayExecute
  /\ processing' = TRUE
  /\ pc' = [pc EXCEPT ![m] = "preparing"]
  /\ UNCHANGED <<phase, given, messageQueue, outcome, extracting>>

(* handleMessageStreaming() knows no queue.  websocket.ts aborts the        *)
(* session's last stream first, but does not wait for its end.              *)
Stream(m) ==
  /\ pc[m] = "new" /\ Initialized
  /\ aborted' = aborted \union {n \in Streamed : pc[n] \in Stage}
  /\ pc' = [pc EXCEPT ![m] = "preparing"]
  /\ UNCHANGED <<phase, backend, memory, messageQueue, processing, outcome, extracting>>

-----------------------------------------------------------------------------
Successor == IF messageQueue = <<>> THEN NoOne ELSE Head(messageQueue)

(* processing = false; processQueue() *)
ProcessQueue ==
  /\ processing' = (messageQueue # <<>>)
  /\ messageQueue' = IF messageQueue = <<>> THEN <<>> ELSE Tail(messageQueue)

(* The message is over.  If it was a queued one, the next one starts in the *)
(* same step; the end of a stream starts none.                             *)
Ends(m, result) ==
  /\ outcome' = [outcome EXCEPT ![m] = result]
  /\ \/ /\ m \in Queued
        /\ ProcessQueue
        /\ pc' = [n \in Messages |-> IF n = m THEN "ended"
                                     ELSE IF n = Successor THEN "preparing" ELSE pc[n]]
     \/ /\ m \in Streamed
        /\ pc' = [pc EXCEPT ![m] = "ended"]
        /\ UNCHANGED <<messageQueue, processing>>
  /\ UNCHANGED <<phase, given, extracting>>

Goto(m, stage) ==
  /\ pc' = [pc EXCEPT ![m] = stage]
  /\ UNCHANGED <<phase, given, messageQueue, processing, outcome>>

(* A plugin rejects the message: an answer of its own, or a stream's error. *)
Rejected(m) ==
  /\ pc[m] = "preparing"
  /\ Ends(m, IF m \in Queued THEN "answered" ELSE "failed")

(* It goes to its target agent, or to the session's process.               *)
Prepared(m) ==
  /\ pc[m] = "preparing"
  /\ Goto(m, "delegating") \/ Goto(m, "resolving")
  /\ UNCHANGED extracting

(* The process is sent the message, unless the signal is aborted by then.  *)
Resolved(m) ==
  /\ pc[m] = "resolving" /\ backend /\ m \notin aborted
  /\ Goto(m, "sending")
  /\ UNCHANGED extracting

(* No backend, or its process did not spawn: a fixed answer, which the      *)
(* streaming path does not finalize.                                       *)
Unresolved(m) ==
  /\ pc[m] = "resolving"
  /\ IF m \in Queued THEN Goto(m, "finalizing") /\ UNCHANGED extracting
     ELSE Ends(m, "answered")

(* An answer; for a queued message an error of the backend is one too.     *)
Answered(m) ==
  /\ pc[m] \in {"delegating", "sending"}
  /\ Goto(m, "finalizing")
  /\ UNCHANGED extracting

(* An error, an aborted signal, a hook that throws, a consumer who leaves. *)
Fails(m) ==
  /\ pc[m] \in {"preparing", "resolving", "delegating", "finalizing"}
     \/ (pc[m] = "sending" /\ m \in Streamed)
  /\ Ends(m, "failed")

-----------------------------------------------------------------------------
SpawnsAlways == TRUE
SpawnsAlone == spawnPromise = NoOne

(* finalizeResponse(), up to the store of the conversation: the extraction  *)
(* process is there, is being spawned for another, or is spawned for m.     *)
Extract(m) ==
  /\ pc[m] = "finalizing" /\ memory /\ backend
  /\ UNCHANGED <<extraction, extractors>>
  /\ \/ extraction = "alive" /\ Goto(m, "storing") /\ UNCHANGED spawnPromise
     \/ extraction # "alive" /\ ~SpawnsAlone /\ Goto(m, "awaiting") /\ UNCHANGED spawnPromise
     \/ extraction # "alive" /\ SpawnsAlone /\ Goto(m, "spawning") /\ spawnPromise' = m

(* The spawn is over: m and those that awaited it go on.                   *)
Spawned(m) ==
  /\ pc[m] = "spawning"
  /\ \/ extraction' = "alive" /\ extractors' = extractors + 1
     \/ UNCHANGED <<extraction, extractors>>
  /\ spawnPromise' = NoOne
  /\ pc' = [n \in Messages |-> IF n = m \/ pc[n] = "awaiting" THEN "storing" ELSE pc[n]]
  /\ UNCHANGED <<phase, given, messageQueue, processing, outcome>>

Stored(m) ==
  /\ \/ pc[m] = "storing"
     \/ pc[m] = "finalizing" /\ ~(memory /\ backend)
  /\ Ends(m, "answered")

ExtractionDies ==
  /\ extraction = "alive"
  /\ extraction' = "dead"
  /\ extractors' = extractors - 1
  /\ UNCHANGED <<phase, given, messageQueue, processing, pc, outcome, spawnPromise>>

-----------------------------------------------------------------------------
LeaveUnsettled == UNCHANGED outcome

RejectQueue ==
  outcome' = [m \in Messages |-> IF m \in Waiting THEN "refused" ELSE outcome[m]]

(* shutdown(): the queue is rejected and `processing` is cleared, whatever  *)
(* is being executed; then the processes are stopped one after the other,   *)
(* and only at the end are calls refused.                                  *)
ShutdownBegins ==
  /\ phase = "up"
  /\ phase' = "backend"
  /\ messageQueue' = <<>> /\ processing' = FALSE
  /\ pc' = [m \in Messages |-> IF m \in Waiting THEN "ended" ELSE pc[m]]
  /\ RejectQueue
  /\ UNCHANGED <<given, extracting>>

StopExtraction ==
  /\ phase = "backend"
  /\ IF extraction = "none" THEN phase' = "sessions" ELSE phase' = "extraction"
  /\ extraction' = IF extraction = "alive" THEN "dead" ELSE extraction
  /\ extractors' = IF extraction = "alive" THEN extractors - 1 ELSE extractors
  /\ UNCHANGED <<given, messageQueue, processing, pc, outcome, spawnPromise>>

ForgetExtraction ==
  /\ phase = "extraction"
  /\ phase' = "sessions"
  /\ extraction' = "none"
  /\ UNCHANGED <<given, messageQueue, processing, pc, outcome, spawnPromise, extractors>>

ShutdownEnds ==
  /\ phase = "sessions"
  /\ phase' = "down"
  /\ UNCHANGED <<given, messageQueue, processing, pc, outcome, extracting>>

Turn(m) ==
  \/ Rejected(m) \/ Prepared(m) \/ Resolved(m) \/ Unresolved(m) \/ Answered(m)
  \/ Fails(m) \/ Extract(m) \/ Spawned(m) \/ Stored(m)

Next ==
  \/ Initialize \/ ExtractionDies
  \/ \E m \in Queued : Enqueue(m) \/ Execute(m)
  \/ \E m \in Streamed : Stream(m)
  \/ \E m \in Messages : Refused(m) \/ Turn(m)
  \/ ShutdownBegins \/ StopExtraction \/ ForgetExtraction \/ ShutdownEnds

Spec == Init /\ [][Next]_vars

-----------------------------------------------------------------------------
(* Every variable has its type, and what waits is queued, once.            *)
TypeOK ==
  /\ phase \in Phase /\ backend \in BOOLEAN /\ memory \in BOOLEAN
  /\ messageQueue \in Seq(Queued) /\ processing \in BOOLEAN
  /\ Waiting = {m \in Messages : pc[m] = "queued"}
  /\ \A i, j \in DOMAIN messageQueue : messageQueue[i] = messageQueue[j] => i = j
  /\ pc \in [Messages -> {"new", "queued", "ended"} \union Stage]
  /\ outcome \in [Messages -> Outcome]
  /\ aborted \subseteq Streamed
  /\ extraction \in {"none", "alive", "dead"}
  /\ spawnPromise \in Messages \union {NoOne}
  /\ extractors \in Nat

(* What waits in the queue waits for a message being executed, which will   *)
(* start it when it ends: handleMessage() reads the flag that executeMessage *)
(* and shutdown() write, and a message left in the queue of an idle conductor *)
(* would never be answered.  Until the shutdown the flag is exact.          *)
QueueIsServed ==
  /\ messageQueue # <<>> => processing
  /\ processing => Executing # {}
  /\ phase \in {"new", "up"} =>
       (Executing # {} => processing) /\ \A m, n \in Executing : m = n

(* Until the shutdown at most one extraction process runs, and it is the    *)
(* one the conductor will stop: concurrent messages share one spawn.        *)
OneExtractor ==
  phase \in {"new", "up"} => extractors = IF extraction = "alive" THEN 1 ELSE 0

(* handleMessage() is the serial queue of SerialQueue.tla, for any          *)
(* interleaving with streams and with the shutdown.                         *)
Queue == INSTANCE SerialQueue WITH
  Messages <- Queued, Depth <- MaxQueueDepth,
  line <- messageQueue, executing <- Executing,
  outcome <- [m \in Queued |-> outcome[m]], open <- phase \in {"new", "up"}
ImplementsSerialQueue == Queue!Spec

(* docs/SPEC.md:291, of the backend process of a session: "Serial message   *)
(* queue (one message at a time per session)".                              *)
OneMessagePerSession == Cardinality({m \in Streamed : pc[m] = "sending"}) <= 1
=============================================================================
