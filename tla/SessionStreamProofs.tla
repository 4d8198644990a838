------------------------- MODULE SessionStreamProofs -------------------------
(***************************************************************************)
(* Safety of the chat WebSocket of a session, for any number of clients,   *)
(* messages and chunks, and the refinement of SessionService: the streams  *)
(* that overlap in the server are one stream at a time to its clients.     *)
(***************************************************************************)
EXTENDS SessionStream, TLAPS

(* A stream that its controller can still stop. *)
Opened(m) == stream[m].pc = "open"
Live(m) == Opened(m) /\ m \notin aborted

(* Messages that have not been sent are untouched. *)
NewIsUntouched ==
  \A m \in Ids :
    /\ stream[m].pc = "new" <=> m > sent
    /\ m > sent => stream[m] = NewStream /\ buf[m] = NewBuffer /\ m \notin aborted

(* A stream has given a terminal frame exactly if it has an outcome or has *)
(* ended, and never a second one; it tells its asker of at most one error  *)
(* of its own, when it ends.  What it has accumulated is what it has       *)
(* buffered, and a live stream without an outcome has its buffer open.     *)
StreamsAreSound ==
  \A m \in Ids :
    /\ buf[m].content = stream[m].acc
    /\ Opened(m) => stream[m].terminals = IF Unanswered(m) THEN 0 ELSE 1
    /\ stream[m].pc = "ended" => stream[m].terminals = 1
    /\ stream[m].errors = 0 \/ (stream[m].pc = "ended" /\ stream[m].errors = 1)
    /\ Live(m) /\ Unanswered(m) => buf[m].status = "streaming"

(* The controller, and with it the only live stream, is of the newest      *)
(* message, and so is the session's buffer as long as it is kept.          *)
NewestIsCurrent ==
  controller \in {None, sent} /\ buffer \in {None, sent}

(* While the newest stream is open, only rows of aborted streams have been *)
(* stored after its question.                                              *)
QuestionIsLast ==
  \A m \in Ids : m = sent /\ Opened(m) =>
    \E j \in 1 .. Len(history) :
      /\ history[j].role = "user" /\ history[j].msg = m
      /\ \A k \in j + 1 .. Len(history) :
           history[k].role = "assistant" /\ history[k].msg \in aborted

StreamInv ==
  TypeOK /\ ControllerTracksLive /\ NewIsUntouched /\ StreamsAreSound /\ NewestIsCurrent

HistoryInv == QuestionIsLast /\ ReplyFollowsQuestion

-----------------------------------------------------------------------------
(* What the steps do to the records of a stream and its buffer. *)

LEMMA Fields ==
  ASSUME TypeOK, NEW m \in Ids
  PROVE  /\ stream[m] \in StreamState /\ buf[m] \in BufferState
         /\ stream[m].acc \in 0 .. MaxChunks /\ buf[m].content \in 0 .. MaxChunks
         /\ stream[m].terminals \in Nat /\ stream[m].terminals + 1 \in Nat
         /\ stream[m].errors \in Nat
         /\ stream[m].outcome \in Outcome /\ stream[m].pc \in {"new", "open", "ended"}
  BY BoundsAssumption DEF TypeOK, StreamState, BufferState

(* All streams but m, or all buffers but that of m, stay as they are. *)
OtherStreamsStay(m) == \A n \in Ids \ {m} : stream'[n] = stream[n]
OtherBuffersStay(m) == \A n \in Ids \ {m} : buf'[n] = buf[n]

LEMMA Ends ==
  ASSUME TypeOK, NEW m \in Ids, NEW errors \in {0, 1}, EndLoop(m, errors)
  PROVE  /\ stream' \in [Ids -> StreamState] /\ OtherStreamsStay(m)
         /\ stream'[m].pc = "ended"
         /\ stream'[m].outcome = stream[m].outcome /\ stream'[m].acc = stream[m].acc
         /\ stream'[m].terminals = IF Unanswered(m) THEN stream[m].terminals + 1
                                   ELSE stream[m].terminals
         /\ stream'[m].errors = stream[m].errors + errors
<1> DEFINE told == IF Unanswered(m) THEN stream[m].terminals + 1 ELSE stream[m].terminals
           failed == stream[m].errors + errors
           after == [stream[m] EXCEPT !.pc = "ended", !.timer = FALSE, !.terminals = told,
                                      !.errors = failed]
<1>1. stream[m] \in StreamState /\ told \in Nat /\ failed \in Nat
  BY Fields
<1>2. /\ after \in StreamState /\ after.pc = "ended" /\ after.terminals = told
      /\ after.outcome = stream[m].outcome /\ after.acc = stream[m].acc
      /\ after.errors = failed
  <2> HIDE DEF told, failed
  <2> QED BY <1>1 DEF StreamState
<1>3. stream' = [stream EXCEPT ![m] = after] /\ stream \in [Ids -> StreamState]
  BY DEF EndLoop, TypeOK
<1> HIDE DEF told, failed, after
<1>4. stream' \in [Ids -> StreamState] /\ OtherStreamsStay(m) /\ stream'[m] = after
  BY <1>2, <1>3 DEF OtherStreamsStay
<1>5. /\ told = IF Unanswered(m) THEN stream[m].terminals + 1 ELSE stream[m].terminals
      /\ failed = stream[m].errors + errors
  BY DEF told, failed
<1> QED BY <1>2, <1>4, <1>5

LEMMA Marks ==
  ASSUME TypeOK, NEW m \in Ids, NEW status \in BufferStatus, Mark(m, status)
  PROVE  /\ buf' \in [Ids -> BufferState] /\ OtherBuffersStay(m)
         /\ buf'[m].status = status /\ buf'[m].content = buf[m].content
  BY Fields DEF TypeOK, Mark, BufferState, OtherBuffersStay

LEMMA Terminates ==
  ASSUME TypeOK, NEW m \in Ids, NEW outcome \in {"complete", "error"}, Terminate(m, outcome)
  PROVE  /\ stream' \in [Ids -> StreamState] /\ OtherStreamsStay(m)
         /\ stream'[m].pc = stream[m].pc /\ stream'[m].acc = stream[m].acc
         /\ stream'[m].outcome = outcome /\ stream'[m].errors = stream[m].errors
         /\ stream'[m].terminals = stream[m].terminals + 1
         /\ buf' \in [Ids -> BufferState] /\ OtherBuffersStay(m)
         /\ buf'[m].content = buf[m].content
<1>1. Mark(m, outcome) /\ outcome \in BufferStatus /\ outcome \in Outcome
  BY DEF Terminate, BufferStatus, Outcome
<1>2. /\ stream' \in [Ids -> StreamState] /\ OtherStreamsStay(m)
      /\ stream'[m].pc = stream[m].pc /\ stream'[m].acc = stream[m].acc
      /\ stream'[m].outcome = outcome /\ stream'[m].errors = stream[m].errors
      /\ stream'[m].terminals = stream[m].terminals + 1
  BY <1>1, Fields DEF TypeOK, Terminate, StreamState, OtherStreamsStay
<1> QED BY <1>1, <1>2, Marks

(* The timeout answers a stream that has no outcome, and only such a one.  *)
LEMMA TimesOut ==
  ASSUME TypeOK, NEW m \in Ids, Timeout(m)
  PROVE  /\ stream' \in [Ids -> StreamState] /\ OtherStreamsStay(m)
         /\ stream'[m].pc = stream[m].pc /\ stream'[m].acc = stream[m].acc
         /\ stream'[m].errors = stream[m].errors
         /\ buf' \in [Ids -> BufferState] /\ OtherBuffersStay(m)
         /\ buf'[m].content = buf[m].content
         /\ IF Unanswered(m)
            THEN /\ stream'[m].outcome = "error"
                 /\ stream'[m].terminals = stream[m].terminals + 1
            ELSE /\ stream'[m].outcome = stream[m].outcome
                 /\ stream'[m].terminals = stream[m].terminals /\ buf' = buf
<1>1. CASE Unanswered(m)
  <2>1. /\ Mark(m, "error") /\ "error" \in BufferStatus /\ "error" \in Outcome
        /\ stream' = [stream EXCEPT ![m].timer = FALSE, ![m].outcome = "error",
                                    ![m].terminals = @ + 1]
    BY <1>1 DEF Timeout, BufferStatus, Outcome
  <2>2. /\ stream' \in [Ids -> StreamState] /\ OtherStreamsStay(m)
        /\ stream'[m].pc = stream[m].pc /\ stream'[m].acc = stream[m].acc
        /\ stream'[m].errors = stream[m].errors
        /\ stream'[m].outcome = "error"
        /\ stream'[m].terminals = stream[m].terminals + 1
    BY <2>1, Fields DEF TypeOK, StreamState, OtherStreamsStay
  <2> QED BY <1>1, <2>1, <2>2, Marks
<1>2. CASE ~Unanswered(m)
  <2>1. buf' = buf /\ stream' = [stream EXCEPT ![m].timer = FALSE]
    BY <1>2 DEF Timeout
  <2>2. /\ stream' \in [Ids -> StreamState] /\ OtherStreamsStay(m)
        /\ stream'[m].pc = stream[m].pc /\ stream'[m].acc = stream[m].acc
        /\ stream'[m].errors = stream[m].errors
        /\ stream'[m].outcome = stream[m].outcome
        /\ stream'[m].terminals = stream[m].terminals
    BY <2>1, Fields DEF TypeOK, StreamState, OtherStreamsStay
  <2> QED BY <1>2, <2>1, <2>2 DEF TypeOK, OtherBuffersStay
<1> QED BY <1>1, <1>2

LEMMA Says ==
  ASSUME StreamInv, NEW m \in Ids, Chunk(m)
  PROVE  /\ stream' \in [Ids -> StreamState] /\ OtherStreamsStay(m)
         /\ stream'[m].pc = stream[m].pc /\ stream'[m].outcome = stream[m].outcome
         /\ stream'[m].terminals = stream[m].terminals
         /\ stream'[m].acc = stream[m].acc + 1 /\ stream'[m].errors = stream[m].errors
         /\ buf' \in [Ids -> BufferState] /\ OtherBuffersStay(m)
         /\ buf'[m].content = buf[m].content + 1 /\ buf'[m].status = buf[m].status
<1>1. TypeOK /\ stream[m].acc + 1 \in 0 .. MaxChunks /\ buf[m].content = stream[m].acc
  BY Fields, BoundsAssumption DEF StreamInv, StreamsAreSound, Chunk
<1>2. /\ stream' \in [Ids -> StreamState] /\ OtherStreamsStay(m)
      /\ stream'[m].pc = stream[m].pc /\ stream'[m].outcome = stream[m].outcome
      /\ stream'[m].terminals = stream[m].terminals
      /\ stream'[m].acc = stream[m].acc + 1 /\ stream'[m].errors = stream[m].errors
  BY <1>1, Fields DEF TypeOK, Chunk, StreamState, OtherStreamsStay
<1>3. /\ buf' \in [Ids -> BufferState] /\ OtherBuffersStay(m)
      /\ buf'[m].content = buf[m].content + 1 /\ buf'[m].status = buf[m].status
  BY <1>1, Fields DEF TypeOK, Chunk, BufferState, OtherBuffersStay
<1> QED BY <1>2, <1>3

(* A new message finds an untouched stream, cuts the one before and leaves *)
(* what was buffered as it is.                                             *)
LEMMA Asks ==
  ASSUME StreamInv, NEW c \in Clients, Message(c), NEW m, m = sent + 1
  PROVE  /\ m \in Ids /\ sent' = m
         /\ stream' \in [Ids -> StreamState] /\ OtherStreamsStay(m)
         /\ stream'[m].pc = "open" /\ stream'[m].outcome = "none"
         /\ stream'[m].terminals = 0 /\ stream'[m].acc = 0 /\ stream'[m].errors = 0
         /\ buf' \in [Ids -> BufferState] /\ buf'[m] = NewBuffer
         /\ \A n \in Ids : /\ buf'[n].content = buf[n].content
                           /\ buf'[n].status # buf[n].status => n = buffer
<1>1. m \in Ids /\ sent' = m /\ TypeOK
  BY BoundsAssumption DEF StreamInv, TypeOK, Message, Ids
<1>2. stream[m] = NewStream /\ buf[m] = NewBuffer /\ buffer # m
  BY <1>1 DEF StreamInv, TypeOK, NewIsUntouched, NewestIsCurrent, Ids, None
<1>3. /\ stream' \in [Ids -> StreamState] /\ OtherStreamsStay(m)
      /\ stream'[m].pc = "open" /\ stream'[m].outcome = "none"
      /\ stream'[m].terminals = 0 /\ stream'[m].acc = 0 /\ stream'[m].errors = 0
  <2>1. stream' = [stream EXCEPT ![m].pc = "open", ![m].timer = TRUE]
    BY DEF Message, StartStream
  <2>2. /\ stream[m].outcome = "none" /\ stream[m].terminals = 0 /\ stream[m].acc = 0
        /\ stream[m].errors = 0
    BY <1>2 DEF NewStream
  <2> DEFINE after == [stream[m] EXCEPT !.pc = "open", !.timer = TRUE]
  <2>3. stream[m] \in StreamState
    BY <1>1, Fields
  <2>4. /\ after \in StreamState /\ after.pc = "open" /\ after.outcome = "none"
        /\ after.terminals = 0 /\ after.acc = 0 /\ after.errors = 0
    BY <2>2, <2>3 DEF StreamState
  <2>5. stream' = [stream EXCEPT ![m] = after] /\ stream \in [Ids -> StreamState]
    BY <1>1, <2>1 DEF TypeOK
  <2> HIDE DEF after
  <2>6. stream' \in [Ids -> StreamState] /\ OtherStreamsStay(m) /\ stream'[m] = after
    BY <1>1, <2>4, <2>5 DEF OtherStreamsStay
  <2> QED BY <2>4, <2>6
<1>4. /\ buf' \in [Ids -> BufferState] /\ buf'[m] = NewBuffer
      /\ \A n \in Ids : /\ buf'[n].content = buf[n].content
                        /\ buf'[n].status # buf[n].status => n = buffer
  BY <1>1, <1>2, Fields DEF TypeOK, Message, BufferState, BufferStatus
<1> QED BY <1>1, <1>3, <1>4

-----------------------------------------------------------------------------
(* The streams, their controller and the session's buffer. *)

(* StreamInv but for the types. *)
StreamParts ==
  ControllerTracksLive /\ NewIsUntouched /\ StreamsAreSound /\ NewestIsCurrent

LEMMA ConnectionStep ==
  ASSUME StreamInv, NEW c \in Clients, Open(c) \/ OpenBlank(c) \/ Close(c)
  PROVE  StreamInv'
<1>1. TypeOK
  BY DEF StreamInv
<1>2. UNCHANGED <<streams, history, cancelled>>
  BY DEF Open, OpenBlank, Close
<1>3. /\ clients' \subseteq Clients /\ sessionClients' \subseteq clients'
      /\ statusInterval' \in BOOLEAN /\ exists' \in BOOLEAN
  BY <1>1 DEF TypeOK, Open, OpenBlank, Close, Connect, Disconnect, LeaveSession
<1>4. seen' \in [Clients -> Nat]
  <2>1. buffer # None => buf[buffer].content \in Nat
    BY <1>1, Fields, BoundsAssumption DEF TypeOK
  <2>2. CASE Open(c)
    BY <1>1, <2>1, <2>2 DEF TypeOK, Open, Replayable
  <2>3. CASE OpenBlank(c) \/ Close(c)
    BY <1>1, <2>3 DEF TypeOK, OpenBlank, Close
  <2> QED BY <2>2, <2>3
<1>5. TypeOK'
  BY <1>1, <1>2, <1>3, <1>4 DEF TypeOK, streams
<1>6. StreamParts'
  BY <1>2 DEF StreamInv, StreamParts, streams, ControllerTracksLive, NewIsUntouched,
     StreamsAreSound, NewestIsCurrent, Opened, Live, Unanswered
<1> QED BY <1>5, <1>6 DEF StreamInv, StreamParts

LEMMA MessageStep ==
  ASSUME StreamInv, NEW c \in Clients, Message(c)
  PROVE  StreamInv'
<1> DEFINE m == sent + 1
<1>1. /\ m \in Ids /\ sent' = m
      /\ stream' \in [Ids -> StreamState] /\ OtherStreamsStay(m)
      /\ stream'[m].pc = "open" /\ stream'[m].outcome = "none"
      /\ stream'[m].terminals = 0 /\ stream'[m].acc = 0 /\ stream'[m].errors = 0
      /\ buf' \in [Ids -> BufferState] /\ buf'[m] = NewBuffer
      /\ \A n \in Ids : /\ buf'[n].content = buf[n].content
                        /\ buf'[n].status # buf[n].status => n = buffer
  BY Asks
<1>2. /\ buffer' = m /\ controller' = m /\ AbortCurrent
      /\ clients' = clients /\ sessionClients' = sessionClients \union {c} /\ c \in clients
      /\ UNCHANGED <<statusInterval, sweeping, cancelled>> /\ exists' = TRUE
      /\ history' = Append(history, [role |-> "user", msg |-> m, content |-> 0])
      /\ seen' = [d \in Clients |-> 0]
  BY DEF Message
<1> HIDE DEF m
<1>3. TypeOK /\ StreamParts
  BY DEF StreamInv, StreamParts
<1>4. [role |-> "user", msg |-> m, content |-> 0] \in Row
  BY <1>1, BoundsAssumption DEF Row
<1>5. TypeOK'
  <2>1. history' \in Seq(Row)
    BY <1>2, <1>3, <1>4 DEF TypeOK
  <2>2. aborted' \subseteq Ids
    BY <1>2, <1>3 DEF TypeOK, AbortCurrent
  <2>3. clients' \subseteq Clients /\ sessionClients' \subseteq clients'
    BY <1>2, <1>3 DEF TypeOK
  <2>4. seen' \in [Clients -> Nat]
    BY <1>2
  <2>5. sent' \in 0 .. MaxMessages
    BY <1>1 DEF Ids
  <2> QED BY <1>1, <1>2, <1>3, <2>1, <2>2, <2>3, <2>4, <2>5 DEF TypeOK
<1>6. sent \in Nat /\ m = sent + 1 /\ m # None
  BY <1>1, <1>3 DEF TypeOK, m, Ids, None
<1>7. aborted' = aborted \union ({controller} \ {None}) /\ controller \in {None, sent}
  BY <1>2, <1>3 DEF AbortCurrent, StreamParts, NewestIsCurrent
<1>8. ControllerTracksLive' /\ NewIsUntouched' /\ NewestIsCurrent'
  <2>1. \A n \in Ids \ {m} : stream'[n] = stream[n] /\ (controller = n <=> stream[n].pc = "open" /\ n \notin aborted)
    BY <1>1, <1>3 DEF OtherStreamsStay, StreamParts, ControllerTracksLive
  <2>2. m \notin aborted' /\ \A n \in Ids : n > m => n \notin aborted'
    BY <1>1, <1>3, <1>6, <1>7 DEF StreamParts, NewIsUntouched, Ids, None
  <2>3. ControllerTracksLive'
    BY <1>1, <1>2, <1>7, <2>1, <2>2 DEF ControllerTracksLive, Ids, None
  <2>4. \A n \in Ids : n > m => buf'[n] = buf[n]
    BY <1>2, <1>3, <1>6 DEF Message, StreamParts, NewestIsCurrent, TypeOK, BufferState, Ids, None
  <2>5. NewIsUntouched'
    BY <1>1, <1>3, <1>6, <2>1, <2>2, <2>4 DEF StreamParts, NewIsUntouched, Ids
  <2> QED BY <1>1, <1>2, <2>3, <2>5 DEF NewestIsCurrent
<1>9. StreamsAreSound'
  <2> SUFFICES ASSUME NEW n \in Ids
      PROVE /\ buf'[n].content = stream'[n].acc
            /\ Opened(n)' => stream'[n].terminals = IF Unanswered(n)' THEN 0 ELSE 1
            /\ stream'[n].pc = "ended" => stream'[n].terminals = 1
            /\ stream'[n].errors = 0 \/ (stream'[n].pc = "ended" /\ stream'[n].errors = 1)
            /\ Live(n)' /\ Unanswered(n)' => buf'[n].status = "streaming"
    BY DEF StreamsAreSound
  <2>1. CASE n = m
    BY <1>1, <2>1 DEF NewBuffer, Opened, Unanswered
  <2>2. CASE n # m
    <3>1. stream'[n] = stream[n]
      BY <1>1, <2>2 DEF OtherStreamsStay
    <3>2. ~Live(n)'
      BY <1>2, <1>8, <2>2 DEF ControllerTracksLive, Live, Opened
    <3> QED BY <1>1, <1>3, <3>1, <3>2 DEF StreamParts, StreamsAreSound, Opened, Unanswered
  <2> QED BY <2>1, <2>2
<1> QED BY <1>5, <1>8, <1>9 DEF StreamInv

(* A CANCEL, and the shutdown of the handler. *)
LEMMA AbortStep ==
  ASSUME StreamInv, (\E c \in Clients : Cancel(c)) \/ Shutdown
  PROVE  StreamInv'
<1>1. TypeOK /\ StreamParts
  BY DEF StreamInv, StreamParts
<1>2. /\ stream' = stream /\ sent' = sent /\ AbortCurrent /\ controller' = None
      /\ buffer' \in {buffer, None} /\ UNCHANGED <<exists, history>>
      /\ sweeping' \in {sweeping, FALSE} /\ statusInterval' \in {statusInterval, FALSE}
      /\ clients' \in {clients, {}} /\ sessionClients' \subseteq clients'
      /\ seen' \in {seen, [c \in Clients |-> 0]}
  BY <1>1 DEF Cancel, Shutdown, conns, TypeOK
<1>3. /\ buf' \in [Ids -> BufferState] /\ cancelled' \subseteq Ids
      /\ \A n \in Ids : /\ buf'[n].content = buf[n].content
                        /\ buf'[n] # buf[n] => n = buffer
  <2>1. CASE buf' = buf /\ cancelled' = cancelled
    BY <1>1, <2>1 DEF TypeOK
  <2>2. CASE buffer # None /\ Mark(buffer, "error") /\ cancelled' = cancelled \union {buffer}
    <3>1. buffer \in Ids /\ "error" \in BufferStatus
      BY <1>1, <2>2 DEF TypeOK, BufferStatus
    <3> QED BY <1>1, <2>2, <3>1, Marks DEF TypeOK, OtherBuffersStay
  <2> QED BY <2>1, <2>2 DEF Cancel, Shutdown
<1>4. aborted' = aborted \union ({controller} \ {None}) /\ controller \in {None, sent}
  BY <1>1, <1>2 DEF AbortCurrent, StreamParts, NewestIsCurrent
<1>5. TypeOK'
  <2>1. aborted' \subseteq Ids
    BY <1>1, <1>4 DEF TypeOK
  <2>2. clients' \subseteq Clients /\ sessionClients' \subseteq clients'
    BY <1>1, <1>2 DEF TypeOK
  <2>3. seen' \in [Clients -> Nat]
    BY <1>1, <1>2 DEF TypeOK
  <2>4. statusInterval' \in BOOLEAN /\ sweeping' \in BOOLEAN /\ buffer' \in Ids \union {None}
    BY <1>1, <1>2 DEF TypeOK
  <2> QED BY <1>1, <1>2, <1>3, <2>1, <2>2, <2>3, <2>4 DEF TypeOK
<1>6. \A n \in Ids : ~(stream'[n].pc = "open" /\ n \notin aborted')
  BY <1>1, <1>2, <1>4 DEF StreamParts, ControllerTracksLive, Ids, None
<1>7. ControllerTracksLive' /\ NewestIsCurrent'
  BY <1>1, <1>2, <1>6 DEF StreamParts, ControllerTracksLive, NewestIsCurrent, Ids, None
<1>8. NewIsUntouched'
  BY <1>1, <1>2, <1>3, <1>4 DEF TypeOK, StreamParts, NewIsUntouched, NewestIsCurrent, Ids, None
<1>9. StreamsAreSound'
  BY <1>1, <1>2, <1>3, <1>6 DEF StreamParts, StreamsAreSound, Opened, Live, Unanswered
<1> QED BY <1>5, <1>7, <1>8, <1>9 DEF StreamInv

(* The steps of a stream leave everything else alone. *)
LEMMA StreamFrame ==
  ASSUME StreamInv, NEW m \in Ids, Stream(m)
  PROVE  /\ UNCHANGED <<conns, sweeping, sent, buffer, aborted, cancelled>>
         /\ stream[m].pc = "open" /\ m <= sent
<1>1. UNCHANGED <<conns, sweeping, sent, buffer, aborted, cancelled>> /\ stream[m].pc = "open"
  BY DEF Stream, Chunk, CompleteEvent, ErrorEvent, Timeout, Finish, Throw, Relaying
<1>2. m <= sent
  BY <1>1 DEF StreamInv, NewIsUntouched, TypeOK, Ids
<1> QED BY <1>1, <1>2

(* What a step of stream m leaves of it. *)
StreamAfter(m) ==
  /\ stream' \in [Ids -> StreamState] /\ OtherStreamsStay(m)
  /\ buf' \in [Ids -> BufferState] /\ OtherBuffersStay(m)
  /\ buf'[m].content = stream'[m].acc
  /\ Opened(m)' => stream'[m].terminals = IF Unanswered(m)' THEN 0 ELSE 1
  /\ stream'[m].pc \in {"open", "ended"}
  /\ stream'[m].pc = "ended" => stream'[m].terminals = 1
  /\ stream'[m].errors = 0 \/ (stream'[m].pc = "ended" /\ stream'[m].errors = 1)
  /\ Opened(m)' /\ Unanswered(m)' => buf'[m].status = buf[m].status /\ Unanswered(m)
  /\ controller' = IF stream'[m].pc = "open" \/ controller # m THEN controller ELSE None

LEMMA StreamStep ==
  ASSUME StreamInv, NEW m \in Ids, Stream(m)
  PROVE  StreamInv'
<1>1. TypeOK /\ StreamParts
  BY DEF StreamInv, StreamParts
<1>2. /\ UNCHANGED <<conns, sweeping, sent, buffer, aborted, cancelled>>
      /\ stream[m].pc = "open" /\ m <= sent
  BY StreamFrame
<1>3. StreamAfter(m)
  <2>1. /\ stream[m].terminals = IF Unanswered(m) THEN 0 ELSE 1
        /\ buf[m].content = stream[m].acc /\ stream[m].errors = 0
    BY <1>1, <1>2 DEF StreamParts, StreamsAreSound, Opened
  <2>2. CASE Chunk(m)
    <3>1. controller' = controller
      BY <2>2 DEF Chunk
    <3> QED BY <1>2, <2>1, <2>2, <3>1, Says DEF StreamAfter, Opened, Unanswered
  <2>3. ASSUME NEW outcome \in {"complete", "error"}, Terminate(m, outcome), Unanswered(m),
               controller' = controller
        PROVE  StreamAfter(m)
    BY <1>1, <1>2, <2>1, <2>3, Terminates DEF StreamAfter, Opened, Unanswered
  <2>4. CASE CompleteEvent(m) \/ ErrorEvent(m)
    BY <2>3, <2>4 DEF CompleteEvent, ErrorEvent, Relaying
  <2>5. CASE Timeout(m)
    <3>1. controller' = controller
      BY <2>5 DEF Timeout
    <3> QED BY <1>1, <1>2, <2>1, <2>5, <3>1, TimesOut DEF StreamAfter, Opened, Unanswered
  <2>6. CASE Finish(m) \/ Throw(m)
    <3>1. (EndLoop(m, 0) \/ EndLoop(m, 1)) /\ ReleaseController(m)
      BY <2>6 DEF Finish, Throw
    <3>2. buf' = buf \/ \E status \in BufferStatus : Mark(m, status)
      BY <2>6 DEF Finish, Throw, Closing, BufferStatus
    <3>3. /\ buf' \in [Ids -> BufferState] /\ OtherBuffersStay(m)
          /\ buf'[m].content = buf[m].content
      BY <1>1, <3>2, Marks DEF TypeOK, OtherBuffersStay
    <3> QED BY <1>1, <2>1, <3>1, <3>3, Ends DEF StreamAfter, Opened, ReleaseController
  <2> QED BY <2>2, <2>4, <2>5, <2>6 DEF Stream
<1>4. history' \in Seq(Row)
  <2>1. stream[m].acc \in 0 .. MaxChunks
    BY <1>1, Fields
  <2>2. [role |-> "assistant", msg |-> m, content |-> stream[m].acc] \in Row
    BY <2>1 DEF Row
  <2>3. history' \in {history, Append(history, [role |-> "assistant", msg |-> m, content |-> stream[m].acc])}
    BY DEF Stream, Chunk, CompleteEvent, ErrorEvent, Timeout, Finish, Throw
  <2> QED BY <1>1, <2>2, <2>3 DEF TypeOK
<1>5. seen' \in [Clients -> Nat]
  BY <1>1 DEF TypeOK, Stream, Chunk, CompleteEvent, ErrorEvent, Timeout, Finish, Throw
<1>6. TypeOK'
  BY <1>1, <1>2, <1>3, <1>4, <1>5 DEF StreamAfter, TypeOK, conns
<1>7. ControllerTracksLive'
  BY <1>1, <1>2, <1>3 DEF StreamAfter, StreamParts, ControllerTracksLive, OtherStreamsStay, Ids, None
<1>8. NewIsUntouched' /\ NewestIsCurrent'
  BY <1>1, <1>2, <1>3 DEF StreamAfter, StreamParts, NewIsUntouched, NewestIsCurrent, OtherStreamsStay,
     OtherBuffersStay, TypeOK, Ids, None
<1>9. StreamsAreSound'
  BY <1>1, <1>2, <1>3 DEF StreamAfter, StreamParts, StreamsAreSound, OtherStreamsStay, OtherBuffersStay,
     Opened, Live, Unanswered
<1> QED BY <1>6, <1>7, <1>8, <1>9 DEF StreamInv

LEMMA StreamInvKept == StreamInv /\ [Next]_vars => StreamInv'
<1> SUFFICES ASSUME StreamInv, [Next]_vars PROVE StreamInv'
  OBVIOUS
<1>1. ASSUME NEW c \in Clients, Open(c) \/ OpenBlank(c) \/ Close(c) PROVE StreamInv'
  BY <1>1, ConnectionStep
<1>2. ASSUME NEW c \in Clients, Message(c) PROVE StreamInv'
  BY <1>2, MessageStep
<1>3. CASE (\E c \in Clients : Cancel(c)) \/ Shutdown
  BY <1>3, AbortStep
<1>4. ASSUME NEW m \in Ids, Stream(m) PROVE StreamInv'
  BY <1>4, StreamStep
<1>5. CASE Cleanup \/ UNCHANGED vars
  <2>1. /\ UNCHANGED <<conns, sweeping, sent, stream, buf, aborted, controller>>
        /\ UNCHANGED <<history, seen, cancelled>> /\ buffer' \in {buffer, None}
    BY <1>5 DEF Cleanup, vars, streams
  <2> QED BY <2>1 DEF StreamInv, TypeOK, conns, ControllerTracksLive, NewIsUntouched,
       StreamsAreSound, NewestIsCurrent, Opened, Live, Unanswered
<1> QED BY <1>1, <1>2, <1>3, <1>4, <1>5 DEF Next

(* The streams, their controller and their buffers are what they should be. *)
LEMMA StreamsCorrect == Spec => []StreamInv
<1>1. Init => StreamInv
  <2> SUFFICES ASSUME Init PROVE StreamInv
    OBVIOUS
  <2>1. NewStream \in StreamState /\ NewBuffer \in BufferState
    BY BoundsAssumption DEF NewStream, NewBuffer, StreamState, BufferState, BufferStatus, Outcome
  <2>2. TypeOK
    <3>1. stream \in [Ids -> StreamState] /\ buf \in [Ids -> BufferState]
      BY <2>1 DEF Init
    <3>2. history \in Seq(Row) /\ seen \in [Clients -> Nat] /\ sent \in 0 .. MaxMessages
      BY BoundsAssumption DEF Init
    <3> QED BY <3>1, <3>2 DEF Init, TypeOK
  <2>3. \A m \in Ids : /\ stream[m] = NewStream /\ stream[m].pc = "new" /\ stream[m].acc = 0
                       /\ stream[m].errors = 0
                       /\ buf[m] = NewBuffer /\ buf[m].content = 0
    BY DEF Init, NewStream, NewBuffer
  <2> QED BY <2>2, <2>3 DEF Init, StreamInv, ControllerTracksLive, NewIsUntouched,
       StreamsAreSound, NewestIsCurrent, Opened, Live, Ids, None
<1> QED BY <1>1, StreamInvKept, PTL DEF Spec

(***************************************************************************)
(* Every variable has its type (TypeOK of the run session_stream).         *)
(***************************************************************************)
THEOREM TypeCorrect == Spec => []TypeOK
<1>1. StreamInv => TypeOK
  BY DEF StreamInv
<1> QED BY <1>1, StreamsCorrect, PTL

(***************************************************************************)
(* The controller that a CANCEL or a new message fires is that of the one  *)
(* stream still able to speak: handleConductorMessage, whose finally block *)
(* drops the entry only if it is still its own, never loses the entry of a *)
(* newer stream.                                                           *)
(***************************************************************************)
THEOREM ControllerCorrect == Spec => []ControllerTracksLive
<1>1. StreamInv => ControllerTracksLive
  BY DEF StreamInv
<1> QED BY <1>1, StreamsCorrect, PTL

-----------------------------------------------------------------------------
(* What the clients hold of the buffered reply. *)

(* A stream that may still say a chunk is the newest, and if the session   *)
(* has a buffer it is that of this stream.                                 *)
LEMMA OnlyTheNewestSpeaks ==
  ASSUME StreamInv, NEW m \in Ids, Live(m)
  PROVE  m = sent /\ controller = m /\ buffer \in {None, m}
BY DEF StreamInv, ControllerTracksLive, NewestIsCurrent, Live, Opened, Ids, None

LEMMA ReplayKept == StreamInv /\ ReplayConsistent /\ [Next]_vars => ReplayConsistent'
<1> SUFFICES ASSUME StreamInv, ReplayConsistent, [Next]_vars PROVE ReplayConsistent'
  OBVIOUS
<1>1. TypeOK /\ \A n \in Ids : buf[n].content \in Nat
  BY Fields, BoundsAssumption DEF StreamInv
<1>2. ASSUME NEW c \in Clients, Open(c) PROVE ReplayConsistent'
  <2>1. buffer # None => seen'[c] = buf[buffer].content
    BY <1>1, <1>2 DEF Open, Replayable, TypeOK
  <2>2. \A d \in Clients \ {c} : seen'[d] = seen[d]
    BY <1>1, <1>2 DEF Open, TypeOK
  <2> QED BY <1>1, <1>2, <2>1, <2>2 DEF ReplayConsistent, Open, streams, TypeOK
<1>3. ASSUME NEW c \in Clients, OpenBlank(c) \/ Close(c) PROVE ReplayConsistent'
  BY <1>1, <1>3 DEF ReplayConsistent, OpenBlank, Close, Connect, Disconnect, LeaveSession, streams, TypeOK
<1>4. ASSUME NEW c \in Clients, Message(c) PROVE ReplayConsistent'
  <2> DEFINE m == sent + 1
  <2>1. buffer' = m /\ buf'[m].content = 0
    <3>1. buffer' = m /\ m = sent + 1
      BY <1>4 DEF Message
    <3> HIDE DEF m
    <3>2. buf'[m] = NewBuffer
      BY <1>4, <3>1, Asks
    <3> QED BY <3>1, <3>2 DEF NewBuffer
  <2>2. sessionClients' \subseteq Clients /\ \A d \in Clients : seen'[d] = 0
    BY <1>1, <1>4 DEF Message, TypeOK
  <2> QED BY <2>1, <2>2 DEF ReplayConsistent
<1>5. ASSUME NEW c \in Clients, Cancel(c) PROVE ReplayConsistent'
  <2>1. UNCHANGED <<sessionClients, buffer, seen>>
    BY <1>5 DEF Cancel, conns
  <2>2. buffer # None => buf'[buffer].content = buf[buffer].content
    BY <1>1, <1>5, Marks DEF Cancel, TypeOK, BufferStatus
  <2> QED BY <2>1, <2>2 DEF ReplayConsistent
<1>6. ASSUME NEW m \in Ids, Chunk(m) PROVE ReplayConsistent'
  <2>1. buffer \in {None, m}
    BY <1>6, OnlyTheNewestSpeaks DEF Chunk, Relaying, Live, Opened
  <2>2. \A c \in sessionClients : c \in Clients /\ seen'[c] = seen[c] + 1
    BY <1>1, <1>6 DEF Chunk, TypeOK
  <2>3. UNCHANGED <<sessionClients, buffer>> /\ buf'[m].content = buf[m].content + 1
    BY <1>6, Says DEF Chunk, conns
  <2> QED BY <2>1, <2>2, <2>3 DEF ReplayConsistent
<1>7. ASSUME NEW m \in Ids, CompleteEvent(m) \/ ErrorEvent(m) \/ Timeout(m) \/ Finish(m) \/ Throw(m)
      PROVE  ReplayConsistent'
  <2>1. UNCHANGED <<sessionClients, buffer, seen>>
    BY <1>7 DEF CompleteEvent, ErrorEvent, Timeout, Finish, Throw, conns
  <2>2. buf' = buf \/ \E status \in BufferStatus : Mark(m, status)
    BY <1>7 DEF CompleteEvent, ErrorEvent, Timeout, Finish, Throw, Terminate, Closing, BufferStatus
  <2>3. \A n \in Ids : buf'[n].content = buf[n].content
    BY <1>1, <2>2, Marks DEF OtherBuffersStay
  <2> QED BY <1>1, <2>1, <2>3 DEF ReplayConsistent, TypeOK
<1>8. CASE Cleanup \/ Shutdown
  BY <1>8 DEF ReplayConsistent, Cleanup, Shutdown
<1>9. CASE UNCHANGED vars
  BY <1>9 DEF ReplayConsistent, vars, conns, streams
<1> QED BY <1>2, <1>3, <1>4, <1>5, <1>6, <1>7, <1>8, <1>9 DEF Next, Stream

(***************************************************************************)
(* Every client of the session, whenever it joined, holds exactly the text *)
(* of the session's buffer: what open() replays and what the relay loop    *)
(* broadcasts add up, nothing twice and nothing skipped.                   *)
(***************************************************************************)
THEOREM ReplayCorrect == Spec => []ReplayConsistent
<1>1. Init => ReplayConsistent
  BY DEF Init, ReplayConsistent
<1> QED BY <1>1, StreamsCorrect, ReplayKept, PTL DEF Spec

-----------------------------------------------------------------------------
(* The order of the stored rows. *)

LEMMA HistoryKept == StreamInv /\ HistoryInv /\ [Next]_vars => HistoryInv'
<1> SUFFICES ASSUME StreamInv, HistoryInv, [Next]_vars PROVE HistoryInv'
  OBVIOUS
<1>1. TypeOK /\ history \in Seq(Row) /\ Len(history) \in Nat
  BY DEF StreamInv, TypeOK
<1>2. ASSUME NEW c \in Clients, Message(c) PROVE HistoryInv'
  <2>1. /\ sent' = sent + 1 /\ sent \in Nat /\ aborted \subseteq aborted'
        /\ history' = Append(history, [role |-> "user", msg |-> sent + 1, content |-> 0])
    BY <1>1, <1>2 DEF Message, AbortCurrent, TypeOK
  <2>2. /\ Len(history') = Len(history) + 1
        /\ \A i \in 1 .. Len(history) : history'[i] = history[i]
        /\ history'[Len(history) + 1].role = "user" /\ history'[Len(history) + 1].msg = sent'
    BY <1>1, <2>1
  <2>3. QuestionIsLast'
    BY <1>1, <2>2 DEF QuestionIsLast
  <2>4. ReplyFollowsQuestion'
    BY <1>1, <2>1, <2>2 DEF HistoryInv, ReplyFollowsQuestion
  <2> QED BY <2>3, <2>4 DEF HistoryInv
<1>3. ASSUME NEW m \in Ids, Finish(m), stream[m].acc > 0 PROVE HistoryInv'
  <2>1. /\ aborted' = aborted /\ sent' = sent /\ stream'[m].pc = "ended" /\ OtherStreamsStay(m)
        /\ history' = Append(history, [role |-> "assistant", msg |-> m, content |-> stream[m].acc])
    BY <1>1, <1>3, Ends DEF Finish
  <2>2. /\ Len(history') = Len(history) + 1
        /\ \A i \in 1 .. Len(history) : history'[i] = history[i]
        /\ history'[Len(history) + 1].role = "assistant" /\ history'[Len(history) + 1].msg = m
    BY <1>1, <2>1
  <2>3. m \in aborted \/ m = sent
    BY <1>3, OnlyTheNewestSpeaks DEF Finish, Live, Opened
  <2>4. QuestionIsLast'
    <3> SUFFICES ASSUME NEW n \in Ids, n = sent, Opened(n)'
        PROVE  \E j \in 1 .. Len(history') :
                 /\ history'[j].role = "user" /\ history'[j].msg = n
                 /\ \A k \in j + 1 .. Len(history') :
                      history'[k].role = "assistant" /\ history'[k].msg \in aborted'
      BY <2>1 DEF QuestionIsLast
    <3>1. n # m /\ Opened(n) /\ m \in aborted
      BY <2>1, <2>3 DEF Opened, OtherStreamsStay
    <3>2. PICK j \in 1 .. Len(history) :
            /\ history[j].role = "user" /\ history[j].msg = n
            /\ \A k \in j + 1 .. Len(history) :
                 history[k].role = "assistant" /\ history[k].msg \in aborted
      BY <3>1 DEF HistoryInv, QuestionIsLast
    <3>3. \A k \in j + 1 .. Len(history') :
            history'[k].role = "assistant" /\ history'[k].msg \in aborted'
      <4> TAKE k \in j + 1 .. Len(history')
      <4>1. k \in j + 1 .. Len(history) \/ k = Len(history) + 1
        BY <1>1, <2>2
      <4> QED BY <1>1, <2>1, <2>2, <3>1, <3>2, <4>1
    <3> QED BY <1>1, <2>2, <3>2, <3>3
  <2>5. ReplyFollowsQuestion'
    <3> SUFFICES ASSUME NEW i \in 1 .. Len(history'),
                        history'[i].role = "assistant", history'[i].msg \notin aborted'
        PROVE  \E j \in 1 .. i - 1 :
                 /\ history'[j].role = "user" /\ history'[j].msg = history'[i].msg
                 /\ \A k \in j + 1 .. i - 1 :
                      history'[k].role = "assistant" /\ history'[k].msg \in aborted'
      BY Zenon DEF ReplyFollowsQuestion
    <3>1. CASE i \in 1 .. Len(history)
      <4>1. history'[i] = history[i] /\ aborted' = aborted
        BY <2>1, <2>2, <3>1
      <4>2. PICK j \in 1 .. i - 1 :
              /\ history[j].role = "user" /\ history[j].msg = history[i].msg
              /\ \A k \in j + 1 .. i - 1 :
                   history[k].role = "assistant" /\ history[k].msg \in aborted
        BY <3>1, <4>1 DEF HistoryInv, ReplyFollowsQuestion
      <4>3. \A k \in 1 .. i - 1 : k \in 1 .. Len(history)
        BY <1>1, <3>1
      <4> QED BY <1>1, <2>2, <3>1, <4>1, <4>2, <4>3
    <3>2. CASE i = Len(history) + 1
      <4>1. m = sent /\ Opened(m) /\ history'[i].msg = m
        BY <1>3, <2>1, <2>2, <2>3, <3>2 DEF Finish, Opened
      <4>2. PICK j \in 1 .. Len(history) :
              /\ history[j].role = "user" /\ history[j].msg = m
              /\ \A k \in j + 1 .. Len(history) :
                   history[k].role = "assistant" /\ history[k].msg \in aborted
        BY <4>1 DEF HistoryInv, QuestionIsLast
      <4>3. i - 1 = Len(history) /\ aborted' = aborted
        BY <1>1, <2>1, <3>2
      <4>4. j \in 1 .. i - 1 /\ history'[j].role = "user" /\ history'[j].msg = history'[i].msg
        BY <1>1, <2>2, <4>1, <4>2, <4>3
      <4>5. \A k \in j + 1 .. i - 1 : history'[k] = history[k]
        BY <1>1, <2>2, <4>2, <4>3
      <4>6. \A k \in j + 1 .. i - 1 :
              history'[k].role = "assistant" /\ history'[k].msg \in aborted'
        BY <4>2, <4>3, <4>5
      <4> QED BY <4>4, <4>6
    <3>3. i \in 1 .. Len(history) \/ i = Len(history) + 1
      BY <1>1, <2>2
    <3> QED BY <3>1, <3>2, <3>3
  <2> QED BY <2>4, <2>5 DEF HistoryInv
<1>4. ASSUME history' = history, sent' = sent, aborted \subseteq aborted',
             \A n \in Ids : Opened(n)' => Opened(n)
      PROVE  HistoryInv'
  <2>1. QuestionIsLast'
    BY <1>4 DEF HistoryInv, QuestionIsLast
  <2>2. ReplyFollowsQuestion'
    BY <1>4 DEF HistoryInv, ReplyFollowsQuestion
  <2> QED BY <2>1, <2>2 DEF HistoryInv
<1>5. ASSUME NEW c \in Clients, Open(c) \/ OpenBlank(c) \/ Close(c) \/ Cancel(c) PROVE HistoryInv'
  BY <1>4, <1>5 DEF Open, OpenBlank, Close, Cancel, AbortCurrent, streams, Opened
<1>6. ASSUME NEW m \in Ids, Stream(m), ~(Finish(m) /\ stream[m].acc > 0) PROVE HistoryInv'
  <2>1. history' = history
    BY <1>6 DEF Stream, Chunk, CompleteEvent, ErrorEvent, Timeout, Finish, Throw
  <2>2. sent' = sent /\ aborted' = aborted /\ Opened(m)
    BY <1>6, StreamFrame DEF Opened
  <2>3. OtherStreamsStay(m)
    <3>1. ASSUME NEW outcome, stream' = [stream EXCEPT ![m].outcome = outcome, ![m].terminals = @ + 1]
          PROVE  OtherStreamsStay(m)
      BY <1>1, <3>1 DEF TypeOK, OtherStreamsStay
    <3>2. CASE CompleteEvent(m) \/ ErrorEvent(m)
      BY <3>1, <3>2 DEF CompleteEvent, ErrorEvent, Terminate
    <3> QED BY <1>1, <1>6, <3>2, Says, TimesOut, Ends DEF Stream, Finish, Throw
  <2> QED BY <1>4, <2>1, <2>2, <2>3 DEF Opened, OtherStreamsStay
<1>7. CASE Cleanup \/ Shutdown \/ UNCHANGED vars
  BY <1>4, <1>7 DEF Cleanup, Shutdown, AbortCurrent, vars, conns, streams, Opened
<1> QED BY <1>2, <1>3, <1>5, <1>6, <1>7 DEF Next

(***************************************************************************)
(* The stored reply of a stream that was neither cancelled nor superseded  *)
(* answers the last question stored before it; between the two stand only  *)
(* late partial replies of aborted streams.                                *)
(***************************************************************************)
THEOREM HistoryCorrect == Spec => []ReplyFollowsQuestion
<1>1. Init => HistoryInv
  BY DEF Init, HistoryInv, QuestionIsLast, ReplyFollowsQuestion, Opened, Ids
<1>2. HistoryInv => ReplyFollowsQuestion
  BY DEF HistoryInv
<1> QED BY <1>1, <1>2, StreamsCorrect, HistoryKept, PTL DEF Spec

-----------------------------------------------------------------------------
(* The refinement of SessionService. *)

(* What the abstract phase of a stream stands for: none is "wrong". *)
PhasesAreRight ==
  \A m \in Ids :
    /\ Phase(m) = "new" <=> stream[m].pc = "new"
    /\ Phase(m) = "open" <=> Live(m) /\ Unanswered(m)
    /\ Phase(m) = "cut" <=> Opened(m) /\ m \in aborted /\ Unanswered(m)
    /\ Phase(m) = "said" <=> Opened(m) /\ ~Unanswered(m)
    /\ Phase(m) = "ended" <=> stream[m].pc = "ended"
    /\ Phase(m) \in {"new", "open", "cut", "said", "ended"}

LEMMA PhaseOf == StreamInv => PhasesAreRight
<1> SUFFICES ASSUME StreamInv, NEW m \in Ids
    PROVE  /\ Phase(m) = "new" <=> stream[m].pc = "new"
           /\ Phase(m) = "open" <=> Live(m) /\ Unanswered(m)
           /\ Phase(m) = "cut" <=> Opened(m) /\ m \in aborted /\ Unanswered(m)
           /\ Phase(m) = "said" <=> Opened(m) /\ ~Unanswered(m)
           /\ Phase(m) = "ended" <=> stream[m].pc = "ended"
           /\ Phase(m) \in {"new", "open", "cut", "said", "ended"}
  BY DEF PhasesAreRight
<1>1. /\ stream[m].pc \in {"new", "open", "ended"}
      /\ Opened(m) => stream[m].terminals = IF Unanswered(m) THEN 0 ELSE 1
      /\ stream[m].pc = "ended" => stream[m].terminals = 1
      /\ stream[m].errors = 0 \/ (stream[m].pc = "ended" /\ stream[m].errors = 1)
  BY Fields DEF StreamInv, StreamsAreSound
<1> QED BY <1>1 DEF Phase, Live, Opened

LEMMA PhaseOfNext == StreamInv' => PhasesAreRight'
BY PhaseOf, PTL

(* The phases of the abstract streams, the chunks each of them has said    *)
(* and the streams that told their asker of an error.                      *)
Phases == [m \in Ids |-> Phase(m)]
Lengths == [m \in Ids |-> buf[m].content]
Erred == {m \in Ids : stream[m].errors > 0}

(* A phase depends on the stream and its signal, nothing else. *)
LEMMA PhaseStays ==
  ASSUME NEW m, stream'[m] = stream[m], m \in aborted' <=> m \in aborted
  PROVE  Phase(m)' = Phase(m)
BY DEF Phase

(* Aborting the current stream is the abstract cut. *)
LEMMA AbortCuts ==
  ASSUME StreamInv, AbortCurrent, NEW m \in Ids, stream'[m] = stream[m], PhasesAreRight'
  PROVE  Phase(m)' = IF Phase(m) = "open" THEN "cut" ELSE Phase(m)
<1>1. aborted' = aborted \union ({controller} \ {None})
  BY DEF AbortCurrent
<1>2. m \in aborted' <=> m \in aborted \/ Live(m)
  BY <1>1 DEF StreamInv, ControllerTracksLive, Live, Opened, Ids, None
<1>3. CASE Phase(m) = "open"
  BY <1>2, <1>3, PhaseOf DEF PhasesAreRight, Live, Opened, Unanswered
<1>4. CASE Phase(m) # "open" /\ Live(m)
  BY <1>2, <1>4, PhaseOf DEF PhasesAreRight, Live, Opened, Unanswered
<1>5. CASE ~Live(m)
  BY <1>2, <1>5, PhaseStays, PhaseOf DEF PhasesAreRight
<1> QED BY <1>3, <1>4, <1>5

LEMMA ConnectionImplements ==
  ASSUME StreamInv, NEW c \in Clients, Open(c) \/ OpenBlank(c) \/ Close(c)
  PROVE  Service!Join(c) \/ Service!Leave(c) \/ UNCHANGED Service!service
<1>1. UNCHANGED streams
  BY DEF Open, OpenBlank, Close
<1>2. Phases' = Phases /\ Lengths' = Lengths /\ Erred' = Erred
  BY <1>1, PhaseStays DEF streams, Phases, Lengths, Erred
<1>3. CASE Open(c)
  BY <1>1, <1>2, <1>3 DEF StreamInv, TypeOK, Open, Connect, streams, Phases, Lengths, Erred, Service!Join
<1>4. CASE Close(c)
  BY <1>1, <1>2, <1>4 DEF Close, LeaveSession, streams, Phases, Lengths, Erred, Service!Leave
<1>5. CASE OpenBlank(c)
  BY <1>1, <1>2, <1>5 DEF OpenBlank, streams, Phases, Lengths, Erred, Service!service
<1> QED BY <1>3, <1>4, <1>5

LEMMA MessageImplements ==
  ASSUME StreamInv, StreamInv', NEW c \in Clients, Message(c)
  PROVE  Service!Ask(c)
<1>1. PICK m : m = sent + 1
  OBVIOUS
<1>2. /\ m \in Ids /\ sent' = m /\ m <= MaxMessages /\ sent \in Nat
      /\ OtherStreamsStay(m) /\ stream'[m].pc = "open" /\ stream'[m].outcome = "none"
      /\ stream'[m].errors = 0 /\ stream[m].errors = 0
      /\ \A n \in Ids : buf'[n].content = buf[n].content
  <2>1. m <= MaxMessages /\ sent \in Nat
    BY <1>1 DEF Message, StreamInv, TypeOK
  <2>2. m \in Ids /\ m > sent
    BY <1>1, <2>1, Asks
  <2>3. stream[m].errors = 0
    BY <2>2 DEF StreamInv, NewIsUntouched, NewStream
  <2> QED BY <1>1, <2>1, <2>3, Asks
<1>3. /\ c \in sessionClients \/ ~exists
      /\ exists' = TRUE /\ sessionClients' = sessionClients \union {c}
      /\ AbortCurrent /\ buffer' = m /\ controller' = m
  BY <1>1 DEF Message
<1>4. Lengths' = Lengths /\ Erred' = Erred
  BY <1>2 DEF Lengths, Erred, OtherStreamsStay
<1>5. Phases' = [[n \in Ids |-> IF Phases[n] = "open" THEN "cut" ELSE Phases[n]] EXCEPT ![m] = "open"]
  <2>1. Phase(m)' = "open"
    <3>1. ControllerTracksLive' /\ PhasesAreRight'
      BY PhaseOfNext DEF StreamInv
    <3>2. m \notin aborted' /\ Live(m)' /\ Unanswered(m)'
      BY <1>2, <1>3, <3>1 DEF ControllerTracksLive, Live, Opened, Unanswered
    <3> QED BY <1>2, <3>1, <3>2 DEF PhasesAreRight
  <2>2. \A n \in Ids \ {m} : Phase(n)' = IF Phase(n) = "open" THEN "cut" ELSE Phase(n)
    BY <1>2, <1>3, AbortCuts, PhaseOfNext DEF OtherStreamsStay
  <2>3. Phases' = [n \in Ids |-> IF n = m THEN "open"
                                 ELSE IF Phase(n) = "open" THEN "cut" ELSE Phase(n)]
    BY <2>1, <2>2 DEF Phases
  <2> QED BY <1>2, <2>3 DEF Phases
<1>6. sent < MaxMessages
  BY <1>1, <1>2, BoundsAssumption
<1> QED BY <1>1, <1>2, <1>3, <1>4, <1>5, <1>6
     DEF Phases, Lengths, Erred, Service!Ask, Service!Cut, Service!Ids, Ids

LEMMA AbortImplements ==
  ASSUME StreamInv, StreamInv', (\E c \in Clients : Cancel(c)) \/ Shutdown
  PROVE  (\E c \in Clients : Service!Cancel(c)) \/ Service!Shutdown
<1>1. Phases' = [n \in Ids |-> IF Phases[n] = "open" THEN "cut" ELSE Phases[n]]
  <2>1. AbortCurrent /\ stream' = stream
    BY DEF Cancel, Shutdown
  <2>2. \A n \in Ids : Phase(n)' = IF Phase(n) = "open" THEN "cut" ELSE Phase(n)
    BY <2>1, AbortCuts, PhaseOfNext
  <2> QED BY <2>2 DEF Phases
<1>2. Lengths' = Lengths /\ Erred' = Erred
  <2>1. buf' = buf \/ (buffer # None /\ Mark(buffer, "error"))
    BY DEF Cancel, Shutdown
  <2>2. \A n \in Ids : buf'[n].content = buf[n].content
    BY <2>1, Marks DEF StreamInv, TypeOK, BufferStatus, OtherBuffersStay
  <2>3. stream' = stream
    BY DEF Cancel, Shutdown
  <2> QED BY <2>2, <2>3 DEF Lengths, Erred
<1>3. ASSUME NEW c \in Clients, Cancel(c) PROVE Service!Cancel(c)
  BY <1>1, <1>2, <1>3 DEF Cancel, conns, Phases, Lengths, Erred, Service!Cancel, Service!Cut, Service!Ids, Ids
<1>4. CASE Shutdown
  BY <1>1, <1>2, <1>4 DEF Shutdown, Phases, Lengths, Erred, None, Service!Shutdown, Service!Cut, Service!Ids, Ids, Service!NoReply
<1> QED BY <1>3, <1>4

(* A step of stream m that says nothing moves at most the phase of m. *)
LEMMA StreamMoves ==
  ASSUME StreamInv, NEW m \in Ids, Stream(m), NEW to,
         OtherStreamsStay(m), \A n \in Ids : buf'[n].content = buf[n].content,
         Phase(m)' = to
  PROVE  Service!Moves(m, to)
<1>1. UNCHANGED <<conns, sent, buffer, aborted>>
  BY StreamFrame
<1>2. Phases' = [Phases EXCEPT ![m] = to]
  BY <1>1, PhaseStays DEF Phases, OtherStreamsStay
<1>3. Lengths' = Lengths
  BY DEF Lengths
<1> QED BY <1>1, <1>2, <1>3 DEF conns, Phases, Lengths, Service!Moves

LEMMA StreamImplements ==
  ASSUME StreamInv, StreamInv', NEW m \in Ids, Stream(m)
  PROVE  \/ Service!Say(m) \/ Service!Complete(m) \/ Service!Fail(m)
         \/ Service!End(m) \/ Service!EndWithError(m)
         \/ UNCHANGED Service!service
<1>1. /\ UNCHANGED <<conns, sweeping, sent, buffer, aborted, cancelled>>
      /\ Opened(m) /\ TypeOK
  BY StreamFrame DEF Opened, StreamInv
<1>2. PhasesAreRight /\ PhasesAreRight'
  BY PhaseOf, PhaseOfNext
<1>3. Phases[m] = Phase(m)
  BY DEF Phases
<1>4. CASE Chunk(m)
  <2>1. /\ OtherStreamsStay(m) /\ OtherBuffersStay(m) /\ buf'[m].content = buf[m].content + 1
        /\ stream'[m].pc = stream[m].pc /\ stream'[m].outcome = stream[m].outcome
        /\ stream'[m].errors = stream[m].errors
    BY <1>4, Says
  <2>2. Phase(m) = "open" /\ Phase(m)' = "open"
    BY <1>1, <1>2, <1>4, <2>1 DEF PhasesAreRight, Chunk, Relaying, Live, Opened, Unanswered
  <2>3. Phases' = Phases
    BY <1>1, <2>1, <2>2, PhaseStays DEF Phases, OtherStreamsStay
  <2>4. Lengths' = [Lengths EXCEPT ![m] = @ + 1]
    BY <2>1 DEF Lengths, OtherBuffersStay
  <2>5. Lengths[m] < MaxChunks
    BY <1>4 DEF StreamInv, StreamsAreSound, Chunk, Lengths
  <2>6. Erred' = Erred
    BY <2>1 DEF Erred, OtherStreamsStay
  <2>7. Service!Say(m)
    BY <1>1, <1>3, <2>2, <2>3, <2>4, <2>5, <2>6 DEF conns, Phases, Lengths, Erred, Service!Say
  <2> QED BY <2>7
<1>5. ASSUME NEW outcome \in {"complete", "error"}, Relaying(m), Terminate(m, outcome)
      PROVE  Service!Moves(m, "said") /\ Phases[m] = "open" /\ Erred' = Erred
  <2>1. /\ OtherStreamsStay(m) /\ \A n \in Ids : buf'[n].content = buf[n].content
        /\ stream'[m].pc = stream[m].pc /\ stream'[m].outcome # "none"
        /\ stream'[m].errors = stream[m].errors
    BY <1>1, <1>5, Terminates DEF OtherBuffersStay
  <2>2. Phase(m)' = "said" /\ Phase(m) = "open"
    BY <1>1, <1>2, <1>5, <2>1 DEF PhasesAreRight, Relaying, Live, Opened, Unanswered
  <2>3. Erred' = Erred
    BY <2>1 DEF Erred, OtherStreamsStay
  <2> QED BY <1>3, <2>1, <2>2, <2>3, StreamMoves
<1>6. CASE CompleteEvent(m)
  BY <1>5, <1>6 DEF CompleteEvent, Phases, Erred, Service!Complete
<1>7. CASE ErrorEvent(m)
  BY <1>5, <1>7 DEF ErrorEvent, Phases, Erred, Service!Fail, Service!Unanswered
<1>8. CASE Timeout(m)
  <2>1. /\ OtherStreamsStay(m) /\ \A n \in Ids : buf'[n].content = buf[n].content
        /\ stream'[m].pc = stream[m].pc /\ stream'[m].outcome # "none"
        /\ stream'[m].errors = stream[m].errors
    BY <1>1, <1>8, TimesOut DEF OtherBuffersStay, Unanswered
  <2>2. Phase(m)' = "said"
    BY <1>1, <1>2, <2>1 DEF PhasesAreRight, Opened, Unanswered
  <2>5. Erred' = Erred
    BY <2>1 DEF Erred, OtherStreamsStay
  <2>3. CASE Unanswered(m)
    <3>1. Phases[m] \in {"open", "cut"}
      BY <1>1, <1>2, <1>3, <2>3 DEF PhasesAreRight, Live
    <3>2. Service!Moves(m, "said")
      BY <2>1, <2>2, StreamMoves
    <3> QED BY <2>5, <3>1, <3>2 DEF Phases, Erred, Service!Fail, Service!Unanswered
  <2>4. CASE ~Unanswered(m)
    <3>1. Phase(m) = "said"
      BY <1>1, <1>2, <2>4 DEF PhasesAreRight
    <3>2. Phases' = Phases /\ Lengths' = Lengths
      BY <1>1, <2>1, <2>2, <3>1, PhaseStays DEF Phases, Lengths, OtherStreamsStay
    <3> QED BY <1>1, <2>5, <3>2 DEF conns, Phases, Lengths, Erred, Service!service
  <2> QED BY <2>3, <2>4
<1>9. ASSUME NEW errors \in {0, 1}, EndLoop(m, errors),
             buf' = buf \/ \E status \in BufferStatus : Mark(m, status)
      PROVE  /\ Service!Ends(m)
             /\ Erred' = IF errors = 0 THEN Erred ELSE Erred \union {m}
  <2>1. /\ OtherStreamsStay(m) /\ \A n \in Ids : buf'[n].content = buf[n].content
        /\ stream'[m].pc = "ended" /\ stream'[m].errors = stream[m].errors + errors
    BY <1>1, <1>9, Ends, Marks DEF OtherBuffersStay
  <2>2. Phase(m)' = "ended" /\ Phase(m) \in {"open", "cut", "said"}
    BY <1>1, <1>2, <2>1 DEF PhasesAreRight, Live
  <2>3. Service!Moves(m, "ended")
    BY <2>1, <2>2, StreamMoves
  <2>4. Service!Ends(m)
    BY <1>3, <2>2, <2>3 DEF Phases, Service!Ends
  <2>5. stream[m].errors = 0
    BY <1>1 DEF StreamInv, StreamsAreSound, Opened
  <2>6. Erred' = IF errors = 0 THEN Erred ELSE Erred \union {m}
    BY <2>1, <2>5 DEF Erred, OtherStreamsStay
  <2> QED BY <2>4, <2>6
<1>10. CASE Finish(m)
  <2>1. EndLoop(m, 0) /\ (buf' = buf \/ \E status \in BufferStatus : Mark(m, status))
    BY <1>10 DEF Finish, Closing, BufferStatus
  <2> QED BY <1>9, <2>1 DEF Erred, Service!End
<1>11. CASE Throw(m)
  <2>1. EndLoop(m, 1) /\ (buf' = buf \/ \E status \in BufferStatus : Mark(m, status))
    BY <1>11 DEF Throw, BufferStatus
  <2> QED BY <1>9, <2>1 DEF Erred, Service!EndWithError
<1> QED BY <1>4, <1>6, <1>7, <1>8, <1>10, <1>11 DEF Stream

LEMMA CleanupImplements ==
  ASSUME StreamInv, Cleanup
  PROVE  Service!Expire
<1>1. UNCHANGED <<conns, sent, stream, buf, aborted>> /\ buffer # None /\ buffer' = None
  BY DEF Cleanup
<1>2. Phases' = Phases /\ Lengths' = Lengths /\ Erred' = Erred
  BY <1>1, PhaseStays DEF Phases, Lengths, Erred
<1>3. buffer \in Ids /\ Phases[buffer] # "open"
  <2>1. buffer \in Ids /\ buf[buffer].status # "streaming"
    BY <1>1 DEF Cleanup, Expirable, StreamInv, TypeOK
  <2> QED BY <2>1, PhaseOf DEF StreamInv, StreamsAreSound, PhasesAreRight, Phases
<1> QED BY <1>1, <1>2, <1>3 DEF conns, Phases, Lengths, Erred, None, Service!Expire, Service!Streaming, Service!NoReply

(***************************************************************************)
(* The relay loops of a session, with their controllers, buffers and       *)
(* timers, implement SessionService: seen by the clients there is one      *)
(* stream at a time, the newest reply is the buffered one, and no question *)
(* is broadcast a second terminal frame or ends without one.  The error    *)
(* that handleConductorMessage sends after a throw goes to the asker       *)
(* alone, once, and after the end.  (That every question does get a        *)
(* terminal frame is a liveness property, left to the run session_stream.) *)
(***************************************************************************)
THEOREM ServiceImplemented == Spec => Service!ServiceInit /\ [][Service!ServiceNext]_(Service!service)
<1>1. Init => Service!ServiceInit
  <2> SUFFICES ASSUME Init PROVE Service!ServiceInit
    OBVIOUS
  <2>1. \A m \in Ids : Phase(m) = "new" /\ buf[m].content = 0 /\ ~(stream[m].errors > 0)
    BY DEF Init, Phase, NewStream, NewBuffer
  <2> QED BY <2>1 DEF Init, None, Service!ServiceInit, Service!Ids, Service!NoReply, Ids
<1>2. StreamInv /\ StreamInv' /\ [Next]_vars => [Service!ServiceNext]_(Service!service)
  <2> SUFFICES ASSUME StreamInv, StreamInv', [Next]_vars
      PROVE  Service!ServiceNext \/ UNCHANGED Service!service
    OBVIOUS
  <2>1. ASSUME NEW c \in Clients, Open(c) \/ OpenBlank(c) \/ Close(c)
        PROVE  Service!ServiceNext \/ UNCHANGED Service!service
    BY <2>1, ConnectionImplements DEF Service!ServiceNext
  <2>2. ASSUME NEW c \in Clients, Message(c) PROVE Service!ServiceNext
    BY <2>2, MessageImplements DEF Service!ServiceNext
  <2>3. CASE (\E c \in Clients : Cancel(c)) \/ Shutdown
    BY <2>3, AbortImplements DEF Service!ServiceNext
  <2>4. ASSUME NEW m \in Ids, Stream(m) PROVE Service!ServiceNext \/ UNCHANGED Service!service
    BY <2>4, StreamImplements DEF Service!ServiceNext, Service!Ids, Ids
  <2>5. CASE Cleanup
    BY <2>5, CleanupImplements DEF Service!ServiceNext
  <2>6. CASE UNCHANGED vars
    <3>1. UNCHANGED <<exists, sessionClients, sent, stream, aborted, buf, buffer>>
      BY <2>6 DEF vars, conns, streams
    <3>2. Phases' = Phases /\ Lengths' = Lengths /\ Erred' = Erred
      BY <3>1, PhaseStays DEF Phases, Lengths, Erred
    <3> QED BY <3>1, <3>2 DEF Phases, Lengths, Erred, Service!service
  <2> QED BY <2>1, <2>2, <2>3, <2>4, <2>5, <2>6 DEF Next
<1> QED BY <1>1, <1>2, StreamsCorrect, PTL DEF Spec
=============================================================================
