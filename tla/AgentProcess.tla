----------------------------- MODULE AgentProcess -----------------------------
(***************************************************************************)
(* One agent: packages/agent-manager/src/agent-process.ts.                 *)
(*                                                                         *)
(* An agent owns a backend process, serves sendMessage() calls one at a    *)
(* time through a queue, streams replies beside that queue, and stops      *)
(* itself after an idle period.  Every method is asynchronous: calls of    *)
(* different clients interleave wherever one waits for the backend (send,  *)
(* a stream's next event, stop, spawn) or for the idle timer.  A step of   *)
(* this module is the code between two such waits.                         *)
(*                                                                         *)
(* The backend is external: a send or a stream succeeds or fails at any    *)
(* time, also after stop() of its process; stop() kills the process at     *)
(* once and returns later; spawn() delivers a live process or fails.  The  *)
(* idle timeout is enabled, as it is by default.                           *)
(***************************************************************************)
EXTENDS Naturals, Sequences, FiniteSets

CONSTANTS
  Sends,    \* calls of sendMessage
  Streams,  \* calls of sendMessageStreaming
  Ops,      \* bound: start, stop and restart calls under way at a time
  Handles,  \* bound: backend processes, reused once dead
  None      \* no backend process

ASSUME NoneAssumption == None \notin Handles
ASSUME OpsAssumption == Ops # {}

VARIABLES
  status,      \* _status
  processing,  \* processing
  queue,       \* messageQueue
  timer,       \* is idleTimer armed?
  bp,          \* backendProcess
  alive,       \* backend processes that run
  send,        \* where each sendMessage call is
  stream,      \* where each sendMessageStreaming call is
  op,          \* where each start, stop or restart call is
  revived,     \* ghost: the agent left STOPPED while a send was in flight
  overlap      \* ghost: calls of op under way that were under way with another

calls == <<send, stream, op>>
vars  == <<status, processing, queue, timer, bp, alive, calls, revived, overlap>>

Status == {"STOPPED", "IDLE", "BUSY", "ERROR"}
SendState == {"new", "queued", "running", "done", "failed", "rejected"}
StreamState == {"new", "running", "done", "failed", "abandoned"}
OpState == {"idle", "stopping", "restarting", "starting"}

Init ==
  /\ status = "STOPPED" /\ processing = FALSE /\ queue = <<>>
  /\ timer = FALSE /\ bp = None /\ alive = {}
  /\ send = [m \in Sends |-> "new"]
  /\ stream = [s \in Streams |-> "new"]
  /\ op = [x \in Ops |-> "idle"]
  /\ revived = FALSE /\ overlap = {}

Accepting == status \notin {"STOPPED", "ERROR"}
Running == {m \in Sends : send[m] = "running"}
Busy == {x \in Ops : op[x] # "idle"}
Stopping == {x \in Ops : op[x] \in {"stopping", "restarting"}}

-----------------------------------------------------------------------------
(* Some definitions are preceded by a faulty variant of themselves, used in *)
(* no action: a plausible mistake that a property below would expose.       *)

(* _status = IDLE and resetIdleTimer(), always together. *)
BecomeIdle == status' = "IDLE" /\ timer' = TRUE

(* execute(m) up to its await, given the other calls' states. *)
Execute(m, others) ==
  /\ timer' = FALSE
  /\ IF bp = None
     THEN /\ status' = "ERROR" /\ processing' = FALSE
          /\ send' = [others EXCEPT ![m] = "failed"]
     ELSE /\ status' = "BUSY" /\ processing' = TRUE
          /\ send' = [others EXCEPT ![m] = "running"]

MustQueueNever == FALSE

(* sendMessage() finds another message in process. *)
MustQueue == processing

(* sendMessage(m). *)
Send(m) ==
  /\ send[m] = "new"
  /\ \/ /\ ~Accepting
        /\ send' = [send EXCEPT ![m] = "rejected"]
        /\ UNCHANGED <<status, processing, queue, timer>>
     \/ /\ Accepting /\ MustQueue
        /\ send' = [send EXCEPT ![m] = "queued"]
        /\ queue' = Append(queue, m)
        /\ UNCHANGED <<status, processing, timer>>
     \/ /\ Accepting /\ ~MustQueue
        /\ Execute(m, send)
        /\ UNCHANGED queue
  /\ UNCHANGED <<bp, alive, stream, op>>

(* processQueue() finds a message. *)
Drain == queue # <<>>

KeepProcessing == UNCHANGED processing

StopProcessing == processing' = FALSE

(* The backend answers m: the next message starts in the same step. *)
SendSucceeds(m) ==
  /\ send[m] = "running"
  /\ IF Drain
     THEN /\ queue' = Tail(queue)
          /\ Execute(Head(queue), [send EXCEPT ![m] = "done"])
     ELSE /\ BecomeIdle
          /\ StopProcessing
          /\ send' = [send EXCEPT ![m] = "done"]
          /\ UNCHANGED queue
  /\ UNCHANGED <<bp, alive, stream, op>>

(* The backend fails m: the agent is in error and the queue is left alone. *)
SendFails(m) ==
  /\ send[m] = "running"
  /\ status' = "ERROR"
  /\ StopProcessing
  /\ send' = [send EXCEPT ![m] = "failed"]
  /\ UNCHANGED <<queue, timer, bp, alive, stream, op>>

-----------------------------------------------------------------------------
(* sendMessageStreaming(s): it ignores `processing` and the queue. *)
StartStream(s) ==
  /\ stream[s] = "new"
  /\ IF Accepting /\ bp # None
     THEN /\ status' = "BUSY" /\ timer' = FALSE
          /\ stream' = [stream EXCEPT ![s] = "running"]
     ELSE /\ stream' = [stream EXCEPT ![s] = "failed"]
          /\ UNCHANGED <<status, timer>>
  /\ UNCHANGED <<processing, queue, bp, alive, send, op>>

StreamEnds(s) ==
  /\ stream[s] = "running"
  /\ BecomeIdle
  /\ stream' = [stream EXCEPT ![s] = "done"]
  /\ UNCHANGED <<processing, queue, bp, alive, send, op>>

StreamThrows(s) ==
  /\ stream[s] = "running"
  /\ status' = "ERROR"
  /\ stream' = [stream EXCEPT ![s] = "failed"]
  /\ UNCHANGED <<processing, queue, timer, bp, alive, send, op>>

(* The consumer leaves its loop (the client cancelled): the generator is    *)
(* returned at its yield, and no code of this class runs.                   *)
StreamAbandoned(s) ==
  /\ stream[s] = "running"
  /\ stream' = [stream EXCEPT ![s] = "abandoned"]
  /\ UNCHANGED <<status, processing, queue, timer, bp, alive, send, op>>

-----------------------------------------------------------------------------
(* start(): callers start an agent that is new or that they have stopped.  *)
(* In the other states start() throws and changes nothing.                 *)
Start(x) ==
  /\ op[x] = "idle"
  /\ status \in {"STOPPED", "ERROR"} /\ bp \notin alive
  /\ op' = [op EXCEPT ![x] = "starting"]
  /\ UNCHANGED <<status, processing, queue, timer, bp, alive, send, stream>>

DropWaiting == UNCHANGED send

(* stop() empties the queue ... *)
QueueReset == queue' = <<>>

(* ... once it has rejected the calls that wait in it. *)
RejectWaiting ==
  send' = [m \in Sends |-> IF \E i \in 1 .. Len(queue) : queue[i] = m THEN "rejected"
                           ELSE send[m]]

(* The rest of stop() or restart() once the backend's stop returned; a     *)
(* restart forgets the process and calls start(), which accepts a STOPPED   *)
(* agent.                                                                   *)
Stopped(x, pc) ==
  /\ status' = "STOPPED"
  /\ RejectWaiting
  /\ QueueReset
  /\ StopProcessing
  /\ IF pc = "restarting"
     THEN bp' = None /\ op' = [op EXCEPT ![x] = "starting"]
     ELSE UNCHANGED bp /\ op' = [op EXCEPT ![x] = "idle"]

StopLeavesRunning(h) == UNCHANGED alive

(* The backend's stop() kills the process before it returns. *)
Kill(h) == alive' = alive \ {h}

(* stop() or restart() up to the await of the backend's stop; without a    *)
(* backend process there is nothing to wait for.                           *)
Stop(x, pc) ==
  /\ op[x] = "idle"
  /\ timer' = FALSE
  /\ IF bp = None
     THEN Stopped(x, pc) /\ UNCHANGED alive
     ELSE /\ Kill(bp)
          /\ op' = [op EXCEPT ![x] = pc]
          /\ UNCHANGED <<status, processing, queue, bp, send>>
  /\ UNCHANGED stream

StopSettles(x) ==
  /\ x \in Stopping
  /\ Stopped(x, op[x])
  /\ UNCHANGED <<timer, alive, stream>>

Spawned(x, h) ==
  /\ op[x] = "starting"
  /\ h \notin alive /\ h # bp
  /\ bp' = h
  /\ alive' = alive \union {h}
  /\ BecomeIdle
  /\ op' = [op EXCEPT ![x] = "idle"]
  /\ UNCHANGED <<processing, queue, send, stream>>

SpawnFails(x) ==
  /\ op[x] = "starting"
  /\ status' = "ERROR"
  /\ op' = [op EXCEPT ![x] = "idle"]
  /\ UNCHANGED <<processing, queue, timer, bp, alive, send, stream>>

IdleTimeoutOnlyLogs(x) == timer /\ status = "IDLE" /\ timer' = FALSE
  /\ UNCHANGED <<status, processing, queue, bp, alive, calls>>

(* The idle timer's callback: an idle agent stops itself. *)
IdleStops(x) ==
  /\ timer /\ status = "IDLE"
  /\ Stop(x, "stopping")

IdleIgnored ==
  /\ timer /\ status # "IDLE"
  /\ timer' = FALSE
  /\ UNCHANGED <<status, processing, queue, bp, alive, calls>>

-----------------------------------------------------------------------------
Step ==
  \/ \E m \in Sends : Send(m) \/ SendSucceeds(m) \/ SendFails(m)
  \/ \E s \in Streams : StartStream(s) \/ StreamEnds(s) \/ StreamThrows(s) \/ StreamAbandoned(s)
  \/ \E x \in Ops : \/ Start(x) \/ Stop(x, "stopping") \/ Stop(x, "restarting")
                    \/ StopSettles(x) \/ SpawnFails(x) \/ IdleStops(x)
                    \/ \E h \in Handles : Spawned(x, h)
  \/ IdleIgnored

History ==
  /\ revived' = (revived \/ (status = "STOPPED" /\ status' # "STOPPED"
                             /\ Running \intersect Running' # {}))
  /\ overlap' = {x \in Busy' : x \in overlap \/ Busy' # {x}}

Next == Step /\ History

(* The backend answers or fails a send it was given, its stop and spawn     *)
(* return, and the idle timer fires; clients owe nothing.                   *)
Fairness ==
  /\ \A m \in Sends : WF_vars((SendSucceeds(m) \/ SendFails(m)) /\ History)
  /\ \A x \in Ops : WF_vars((\/ StopSettles(x) \/ SpawnFails(x)
                             \/ \E h \in Handles : Spawned(x, h)) /\ History)
  /\ WF_vars((\E x \in Ops : IdleStops(x)) /\ History)

Spec == Init /\ [][Next]_vars
FairSpec == Spec /\ Fairness

-----------------------------------------------------------------------------
(* Every variable has its type. *)
TypeOK ==
  /\ status \in Status
  /\ processing \in BOOLEAN /\ timer \in BOOLEAN /\ revived \in BOOLEAN
  /\ queue \in Seq(Sends)
  /\ bp \in Handles \union {None} /\ alive \subseteq Handles
  /\ send \in [Sends -> SendState]
  /\ stream \in [Streams -> StreamState]
  /\ op \in [Ops -> OpState] /\ overlap \subseteq Busy

(* The agent serves one message at a time, whatever stops, idle timeouts,   *)
(* failures and streams happen meanwhile, until it is brought back from     *)
(* STOPPED while a send of its former life is still in flight.              *)
SerialUnlessRevived ==
  ~revived => \A m, n \in Running : m = n

(* The `processing` flag is never left set with nothing in process: no      *)
(* later message would ever run again.                                      *)
NoLockout == processing => Running # {}

(* The calls that wait are those in the queue, each once: none is forgotten *)
(* by a stop, none is answered twice.                                       *)
QueueHoldsWaiting ==
  /\ \A m \in Sends : send[m] = "queued" <=> \E i \in 1 .. Len(queue) : queue[i] = m
  /\ \A i, j \in 1 .. Len(queue) : queue[i] = queue[j] => i = j

(* Messages are left waiting with nothing in process only when the agent    *)
(* goes into error; every other way to finish a message starts the next.    *)
DrainUnlessError ==
  [][processing /\ ~processing' /\ queue' # <<>> => status' = "ERROR"]_vars

(* An idle agent has its idle timer armed, unless it is being stopped.      *)
IdleHasTimer == status = "IDLE" /\ Stopping = {} => timer

(* A live backend process is replaced or forgotten only by calls to start,  *)
(* stop or restart the agent that have overlapped.                          *)
ProcessLostOnlyByOverlap ==
  [][bp # None /\ bp \in alive /\ bp \in alive' /\ bp' # bp => overlap # {}]_vars

(* An idle agent does not stay idle: work arrives or the timeout stops it.  *)
IdleAgentStops == status = "IDLE" ~> status # "IDLE"

(* A call in the queue is run or rejected, unless the one in process fails  *)
(* and strands it (DrainUnlessError: nothing else does).                    *)
QueuedIsServed ==
  \A m \in Sends : send[m] = "queued" ~> (send[m] # "queued" \/ ~processing)

(* README.md: "idle timeout auto-shutdown".  An agent that is up and has    *)
(* no work at all is about to be stopped.                                   *)
IdleShutdownArmed ==
  /\ status \in {"IDLE", "BUSY"} /\ Busy = {}
  /\ Running = {} /\ \A s \in Streams : stream[s] # "running"
  => timer
=============================================================================
