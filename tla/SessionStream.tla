---------------------------- MODULE SessionStream ----------------------------
(***************************************************************************)
(* The chat WebSocket of one session: packages/server/src/websocket.ts     *)
(* with the reply buffer of stream-buffer.ts.                              *)
(*                                                                         *)
(* Each chat message starts a STREAM that relays what the conductor's      *)
(* generator yields to every client of the session.  Streams of the same   *)
(* session overlap: the handler of message n + 1 runs while the loop of    *)
(* message n is suspended on its generator.  A step of this module is the  *)
(* code between two suspensions: one client frame, one generator event,    *)
(* one timer callback.                                                     *)
(*                                                                         *)
(* The conductor is seen through its generator: any number of chunks, a    *)
(* complete or an error event, a return or a throw, in any order.  A reply *)
(* is abstracted to the number of its chunks.                              *)
(***************************************************************************)
EXTENDS Naturals, Sequences, FiniteSets

CONSTANTS
  Clients,      \* browser connections of this session
  MaxClients,   \* MAX_WS_CLIENTS
  MaxMessages,  \* bound: chat messages sent in a behaviour
  MaxChunks     \* bound: chunks in one reply

ASSUME ClientsAssumption == IsFiniteSet(Clients)
ASSUME BoundsAssumption ==
  /\ MaxClients \in Nat \ {0}
  /\ MaxMessages \in Nat
  /\ MaxChunks \in Nat \ {0}

(* Messages are numbered in the order they reach the server; a stream, its *)
(* buffer and its abort controller bear the number of their message.       *)
Ids == 1 .. MaxMessages
None == 0

VARIABLES
  sweeping,        \* is the buffers' cleanup interval running?
  clients,         \* the set `clients` of the handler
  statusInterval,  \* is the agent status broadcast timer running?
  exists,          \* has the session been created?
  sessionClients,  \* sessionClientsMap.get(sessionId)
  sent,            \* number of chat messages received so far
  stream,          \* the local state of streamConductorResponse, per message
  buf,             \* the StreamBuffer object of each message
  buffer,          \* bufferManager's entry for the session
  aborted,         \* messages whose AbortController has fired
  controller,      \* sessionAbortControllers' entry for the session
  history,         \* the session's rows in the message table
  seen,            \* ghost: chunks of the current buffer each client has
  cancelled        \* ghost: messages whose buffer a CANCEL has marked

conns   == <<clients, statusInterval, exists, sessionClients>>
streams == <<sweeping, sent, stream, buf, buffer, aborted, controller>>
vars    == <<conns, streams, history, seen, cancelled>>

Outcome == {"none", "complete", "error"}
BufferStatus == {"streaming", "complete", "error", "abandoned"}
StreamState == [pc        : {"new", "open", "ended"},
                outcome   : Outcome,     \* completeSent / errorSent
                acc       : 0 .. MaxChunks,
                timer     : BOOLEAN,     \* is the stream timeout armed?
                terminals : Nat,         \* COMPLETE and ERROR frames broadcast
                errors    : Nat]         \* ERROR frames to the asker alone
BufferState == [status : BufferStatus, content : 0 .. MaxChunks]
Row == [role : {"user", "assistant"}, msg : Ids, content : 0 .. MaxChunks]

NewStream == [pc |-> "new", outcome |-> "none", acc |-> 0,
              timer |-> FALSE, terminals |-> 0, errors |-> 0]
NewBuffer == [status |-> "streaming", content |-> 0]

Init ==
  /\ sweeping = TRUE
  /\ clients = {} /\ statusInterval = FALSE
  /\ exists \in BOOLEAN        \* created through the REST route, or not yet
  /\ sessionClients = {}
  /\ sent = 0
  /\ stream = [m \in Ids |-> NewStream]
  /\ buf = [m \in Ids |-> NewBuffer]
  /\ buffer = None /\ controller = None /\ aborted = {}
  /\ history = <<>>
  /\ seen = [c \in Clients |-> 0]
  /\ cancelled = {}

-----------------------------------------------------------------------------
(* Some definitions are preceded by a faulty variant of themselves, used in  *)
(* no action: a plausible mistake that a property below would expose.       *)

ReplaysOnlyWhileStreaming(m) == m # None /\ buf[m].status = "streaming"

(* What open() replays to a client that (re)joins the session. *)
Replayable(m) == m # None /\ (buf[m].content > 0 \/ buf[m].status = "streaming")

Connect(c) ==
  /\ c \notin clients
  /\ Cardinality(clients) < MaxClients
  /\ clients' = clients \union {c}
  /\ statusInterval' = (statusInterval \/ clients = {})

(* open(ws) of a connection that carries the session id.  A refused        *)
(* connection changes nothing.                                             *)
Open(c) ==
  /\ Connect(c)
  /\ exists
  /\ sessionClients' = sessionClients \union {c}
  /\ seen' = [seen EXCEPT ![c] = IF Replayable(buffer) THEN buf[buffer].content ELSE 0]
  /\ UNCHANGED <<exists, streams, history, cancelled>>

(* open(ws) of a connection without a session id, which its first message  *)
(* will create.  (Once the session exists such a connection belongs to     *)
(* another one: it is not followed here.)                                  *)
OpenBlank(c) ==
  /\ Connect(c)
  /\ ~exists
  /\ UNCHANGED <<exists, sessionClients, streams, history, seen, cancelled>>

Disconnect(c) ==
  /\ clients' = clients \ {c}
  /\ statusInterval' = (statusInterval /\ clients # {c})

LeaveSession(c) == sessionClients' = sessionClients \ {c}

Close(c) ==
  /\ c \in clients
  /\ Disconnect(c)
  /\ LeaveSession(c)
  /\ seen' = [seen EXCEPT ![c] = 0]
  /\ UNCHANGED <<exists, streams, history, cancelled>>

AbortNothing == UNCHANGED aborted

(* abort() of the session's controller, if there is one. *)
AbortCurrent == aborted' = aborted \union ({controller} \ {None})

(* The synchronous part of streamConductorResponse. *)
StartStream(m) == stream' = [stream EXCEPT ![m].pc = "open", ![m].timer = TRUE]

(* handleConductorMessage up to the first await: the session is created    *)
(* for a blank connection, the user's row is written, the buffer replaced  *)
(* and the previous stream aborted.                                        *)
Message(c) ==
  LET m == sent + 1 IN
  /\ c \in clients
  /\ c \in sessionClients \/ ~exists
  /\ m <= MaxMessages
  /\ sent' = m
  /\ exists' = TRUE
  /\ sessionClients' = sessionClients \union {c}
  /\ history' = Append(history, [role |-> "user", msg |-> m, content |-> 0])
  /\ buf' = [b \in Ids |-> IF b = buffer /\ buf[b].status = "streaming"
                           THEN [buf[b] EXCEPT !.status = "abandoned"]
                           ELSE buf[b]]
  /\ buffer' = m
  /\ AbortCurrent
  /\ controller' = m
  /\ StartStream(m)
  /\ seen' = [d \in Clients |-> 0]
  /\ UNCHANGED <<clients, statusInterval, sweeping, cancelled>>

(* markComplete() and markError() of a buffer. *)
Mark(m, status) == buf' = [buf EXCEPT ![m].status = status]

(* A CANCEL frame. *)
Cancel(c) ==
  /\ c \in sessionClients
  /\ AbortCurrent
  /\ controller' = None
  /\ IF buffer # None /\ buf[buffer].status = "streaming"
     THEN /\ Mark(buffer, "error")
          /\ cancelled' = cancelled \union {buffer}
     ELSE UNCHANGED <<buf, cancelled>>
  /\ UNCHANGED <<conns, sweeping, sent, stream, buffer, history, seen>>

-----------------------------------------------------------------------------
UnansweredWhileOpen(m) == stream[m].pc = "open"

(* Neither completeSent nor errorSent. *)
Unanswered(m) == stream[m].outcome = "none"

(* The relay loop of message m takes an event only while no terminal frame *)
(* was sent and the signal has not fired; otherwise it breaks (Finish).    *)
Relaying(m) == stream[m].pc = "open" /\ Unanswered(m) /\ m \notin aborted

(* broadcastMsg of a terminal frame after markComplete() or markError(). *)
Terminate(m, outcome) ==
  /\ stream' = [stream EXCEPT ![m].outcome = outcome, ![m].terminals = @ + 1]
  /\ Mark(m, outcome)

Chunk(m) ==
  /\ Relaying(m)
  /\ stream[m].acc < MaxChunks
  /\ stream' = [stream EXCEPT ![m].acc = @ + 1]
  /\ buf' = [buf EXCEPT ![m].content = @ + 1]
  /\ seen' = [c \in Clients |-> IF c \in sessionClients THEN seen[c] + 1 ELSE seen[c]]
  /\ UNCHANGED <<conns, sweeping, sent, buffer, aborted, controller, history, cancelled>>

CompleteEvent(m) ==
  /\ Relaying(m)
  /\ Terminate(m, "complete")
  /\ UNCHANGED <<conns, sweeping, sent, buffer, aborted, controller, history, seen, cancelled>>

(* handleStreamError: an error after some content completes the reply. *)
ErrorEvent(m) ==
  /\ Relaying(m)
  /\ Terminate(m, IF stream[m].acc > 0 THEN "complete" ELSE "error")
  /\ UNCHANGED <<conns, sweeping, sent, buffer, aborted, controller, history, seen, cancelled>>

(* The stream timeout.  It neither aborts the generator nor ends the loop. *)
Timeout(m) ==
  /\ stream[m].pc = "open" /\ stream[m].timer
  /\ IF Unanswered(m)
     THEN /\ stream' = [stream EXCEPT ![m].timer = FALSE, ![m].outcome = "error",
                                      ![m].terminals = @ + 1]
          /\ Mark(m, "error")
     ELSE /\ stream' = [stream EXCEPT ![m].timer = FALSE]
          /\ UNCHANGED buf
  /\ UNCHANGED <<conns, sweeping, sent, buffer, aborted, controller, history, seen, cancelled>>

(* The finally block of the loop: an unanswered stream gets its terminal   *)
(* frame, whatever ended the loop.                                         *)
Closing(m) == IF stream[m].acc > 0 THEN "complete" ELSE "error"
EndLoop(m, errors) ==
  stream' = [stream EXCEPT ![m].pc = "ended", ![m].timer = FALSE,
               ![m].terminals = IF Unanswered(m) THEN @ + 1 ELSE @,
               ![m].errors = @ + errors]

ReleaseAnyController(m) == controller' = None

(* The finally block of handleConductorMessage. *)
ReleaseController(m) == controller' = IF controller = m THEN None ELSE controller

(* The loop broke or the generator returned; the reply is persisted. *)
Finish(m) ==
  /\ stream[m].pc = "open"
  /\ EndLoop(m, 0)
  /\ IF Unanswered(m) THEN Mark(m, Closing(m)) ELSE UNCHANGED buf
  /\ history' = IF stream[m].acc > 0
                THEN Append(history, [role |-> "assistant", msg |-> m,
                                      content |-> stream[m].acc])
                ELSE history
  /\ ReleaseController(m)
  /\ UNCHANGED <<conns, sweeping, sent, buffer, aborted, seen, cancelled>>

(* The generator threw: the finally block of the loop first, and then the  *)
(* catch of handleConductorMessage marks the buffer once more and sends an *)
(* error to the connection that asked.  The reply is not persisted.        *)
Throw(m) ==
  /\ stream[m].pc = "open"
  /\ EndLoop(m, 1)
  /\ Mark(m, "error")
  /\ ReleaseController(m)
  /\ UNCHANGED <<conns, sweeping, sent, buffer, aborted, history, seen, cancelled>>

ExpirableOnlyIfComplete(m) == buf[m].status = "complete"

(* A buffer with a completion time, which every mark sets. *)
Expirable(m) == buf[m].status # "streaming"

(* bufferManager.cleanup() past the buffer's time to live. *)
Cleanup ==
  /\ sweeping /\ buffer # None
  /\ Expirable(buffer)
  /\ buffer' = None
  /\ UNCHANGED <<conns, sweeping, sent, stream, buf, aborted, controller, history, seen, cancelled>>

(* shutdown() of the handler.  The HTTP server stops listening only at the *)
(* very end of the boot file's shutdown, so clients may still come back.   *)
Shutdown ==
  /\ sweeping' = FALSE
  /\ statusInterval' = FALSE
  /\ buffer' = None
  /\ AbortCurrent
  /\ controller' = None
  /\ clients' = {} /\ sessionClients' = {}
  /\ seen' = [c \in Clients |-> 0]
  /\ UNCHANGED <<exists, sent, stream, buf, history, cancelled>>

-----------------------------------------------------------------------------
Stream(m) == \/ Chunk(m) \/ CompleteEvent(m) \/ ErrorEvent(m)
             \/ Timeout(m) \/ Finish(m) \/ Throw(m)

Next ==
  \/ \E c \in Clients : Open(c) \/ OpenBlank(c) \/ Close(c) \/ Message(c) \/ Cancel(c)
  \/ \E m \in Ids : Stream(m)
  \/ Cleanup
  \/ Shutdown

(* Timers fire.  Nothing is assumed of the conductor's generator. *)
Fairness == WF_vars(Cleanup) /\ \A m \in Ids : WF_vars(Timeout(m))

Spec == Init /\ [][Next]_vars
FairSpec == Spec /\ Fairness

-----------------------------------------------------------------------------
(* Every variable has its type. *)
TypeOK ==
  /\ clients \subseteq Clients /\ sessionClients \subseteq clients
  /\ statusInterval \in BOOLEAN /\ exists \in BOOLEAN /\ sweeping \in BOOLEAN
  /\ sent \in 0 .. MaxMessages
  /\ stream \in [Ids -> StreamState]
  /\ buf \in [Ids -> BufferState]
  /\ buffer \in Ids \union {None} /\ controller \in Ids \union {None}
  /\ aborted \subseteq Ids /\ cancelled \subseteq Ids
  /\ history \in Seq(Row)
  /\ seen \in [Clients -> Nat]

(* The session's controller entry is that of the one stream still able to   *)
(* speak: at most one stream per session is live, a CANCEL always reaches   *)
(* it, and the cleanup of an older handler never drops the entry of a newer *)
(* one (the identity test in the finally block of handleConductorMessage).  *)
ControllerTracksLive ==
  \A m \in Ids : controller = m <=> stream[m].pc = "open" /\ m \notin aborted

(* Every client of the session, whether it was there all along or joined    *)
(* half-way, holds exactly the text of the session's buffer: open() replays *)
(* what was missed, and nothing is delivered twice or skipped.              *)
ReplayConsistent ==
  buffer # None => \A c \in sessionClients : seen[c] = buf[buffer].content

(* The reply of a stream that was neither cancelled nor superseded answers  *)
(* the last question stored before it: only the late partial reply of an    *)
(* aborted stream can stand between the two.                                *)
ReplyFollowsQuestion ==
  \A i \in 1 .. Len(history) :
    history[i].role = "assistant" /\ history[i].msg \notin aborted =>
      \E j \in 1 .. i - 1 :
        /\ history[j].role = "user" /\ history[j].msg = history[i].msg
        /\ \A k \in j + 1 .. i - 1 :
             history[k].role = "assistant" /\ history[k].msg \in aborted

(* Every buffer is given up some time while the cleanup interval runs: each *)
(* path that silences a stream also takes its buffer out of "streaming".    *)
BufferReleased ==
  \A m \in Ids : (buffer = m) ~> (buffer # m \/ ~sweeping)

(* The abstract session that the streams implement; there is no abstract   *)
(* phase for a stream that broadcasts two terminal frames, ends with none, *)
(* or sends its asker an error of its own before its end, or two of them.  *)
Phase(m) ==
  LET pc == stream[m].pc
      terminals == stream[m].terminals
      errors == stream[m].errors
  IN  CASE pc = "new" -> "new"
        [] pc = "open" /\ terminals = 0 /\ errors = 0 ->
             IF m \in aborted THEN "cut" ELSE "open"
        [] pc = "open" /\ terminals = 1 /\ errors = 0 -> "said"
        [] pc = "ended" /\ terminals = 1 /\ errors <= 1 -> "ended"
        [] OTHER -> "wrong"
Service == INSTANCE SessionService WITH
             members <- sessionClients, current <- buffer,
             phase <- [m \in Ids |-> Phase(m)],
             len <- [m \in Ids |-> buf[m].content],
             erred <- {m \in Ids : stream[m].errors > 0}

(* Seen from a browser, overlapping relay loops with their controllers,     *)
(* buffers and timers are one stream at a time: a new question cuts the     *)
(* stream before it, what is buffered is the newest reply, and every        *)
(* question has exactly one terminal frame broadcast, whichever of a        *)
(* complete event, an error event, the timeout, an abort, a return or a     *)
(* throw came first, and even if the generator never yields again.  Only a  *)
(* throw adds an error, one and to the asker alone, after the end.          *)
ImplementsService == Service!ServiceSpec

(* websocket.ts on CANCEL: "Mark the stream buffer as error so reconnecting *)
(* clients don't replay".                                                   *)
CancelledNotReplayed == \A m \in cancelled : buffer = m => ~Replayable(m)

(* websocket.ts in handleConductorMessage: "Fetch conversation history      *)
(* before persisting the current message so we get only prior turns".  A    *)
(* turn the clients were told is complete is a prior turn: its reply is in  *)
(* the history that the next message reads.                                 *)
CompletedTurnsAreStored ==
  [][\A m \in Ids : sent' = m + 1 /\ sent = m
                    /\ stream[m].outcome = "complete" /\ stream[m].acc > 0 =>
       \E i \in 1 .. Len(history) : history[i].role = "assistant" /\ history[i].msg = m]_vars
=============================================================================
