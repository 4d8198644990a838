---------------------------- MODULE SessionService ----------------------------
(***************************************************************************)
(* What the server promises to the clients of one chat session: an         *)
(* abstract specification of SessionStream, and the server of ChatClient.  *)
(* A message starts a stream and cuts the one before; a stream says chunks *)
(* while it is open and gives everyone one terminal frame, after which the *)
(* connection that asked may be sent one error of its own; the newest      *)
(* reply is kept for those who join later, until it expires.               *)
(***************************************************************************)
EXTENDS Naturals

CONSTANTS Clients, MaxMessages, MaxChunks

Ids == 1 .. MaxMessages
NoReply == 0

VARIABLES
  exists,   \* has the session been created?
  members,  \* the connections in the session
  sent,     \* number of messages so far
  phase,    \* new, open, cut (aborted), said (terminal frame given), ended
  len,      \* number of chunks said, per message
  current,  \* the message whose reply is buffered
  erred     \* messages whose asker was sent an error of its own at the end
service == <<exists, members, sent, phase, len, current, erred>>

ServiceInit ==
  /\ exists \in BOOLEAN
  /\ members = {} /\ sent = 0 /\ current = NoReply
  /\ phase = [m \in Ids |-> "new"]
  /\ len = [m \in Ids |-> 0]
  /\ erred = {}

(* What a client that joins is told of the buffered reply. *)
Streaming == current # NoReply /\ phase[current] = "open"
Replayable == current # NoReply /\ (len[current] > 0 \/ Streaming)

Join(c) ==
  /\ exists /\ c \notin members
  /\ members' = members \union {c}
  /\ UNCHANGED <<exists, sent, phase, len, current, erred>>

Leave(c) ==
  /\ members' = members \ {c}
  /\ UNCHANGED <<exists, sent, phase, len, current, erred>>

Cut == [m \in Ids |-> IF phase[m] = "open" THEN "cut" ELSE phase[m]]

Ask(c) ==
  /\ c \in members \/ ~exists
  /\ sent < MaxMessages
  /\ exists' = TRUE
  /\ members' = members \union {c}
  /\ sent' = sent + 1
  /\ phase' = [Cut EXCEPT ![sent + 1] = "open"]
  /\ current' = sent + 1
  /\ UNCHANGED <<len, erred>>

Cancel(c) ==
  /\ c \in members
  /\ phase' = Cut
  /\ UNCHANGED <<exists, members, sent, len, current, erred>>

Say(m) ==
  /\ phase[m] = "open" /\ len[m] < MaxChunks
  /\ len' = [len EXCEPT ![m] = @ + 1]
  /\ UNCHANGED <<exists, members, sent, phase, current, erred>>

(* A terminal frame, after which the stream may linger. *)
Unanswered(m) == phase[m] \in {"open", "cut"}
Moves(m, to) ==
  /\ phase' = [phase EXCEPT ![m] = to]
  /\ UNCHANGED <<exists, members, sent, len, current>>

Complete(m) == phase[m] = "open" /\ Moves(m, "said") /\ UNCHANGED erred
Fail(m) == Unanswered(m) /\ Moves(m, "said") /\ UNCHANGED erred

(* The end of a stream; an unanswered one gives its terminal frame.  If it *)
(* ends in an exception, its asker alone is told of that, too.             *)
Ends(m) == phase[m] \in {"open", "cut", "said"} /\ Moves(m, "ended")
End(m) == Ends(m) /\ UNCHANGED erred
EndWithError(m) == Ends(m) /\ erred' = erred \union {m}

Expire ==
  /\ current # NoReply /\ ~Streaming
  /\ current' = NoReply
  /\ UNCHANGED <<exists, members, sent, phase, len, erred>>

Shutdown ==
  /\ members' = {} /\ current' = NoReply
  /\ phase' = Cut
  /\ UNCHANGED <<exists, sent, len, erred>>

Answer(m) == Unanswered(m) /\ (Complete(m) \/ Fail(m) \/ End(m) \/ EndWithError(m))

ServiceNext ==
  \/ \E c \in Clients : Join(c) \/ Leave(c) \/ Ask(c) \/ Cancel(c)
  \/ \E m \in Ids : Say(m) \/ Complete(m) \/ Fail(m) \/ End(m) \/ EndWithError(m)
  \/ Expire \/ Shutdown

ServiceSpec == ServiceInit /\ [][ServiceNext]_service /\ \A m \in Ids : WF_service(Answer(m))
=============================================================================
