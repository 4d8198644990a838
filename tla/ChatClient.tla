------------------------------ MODULE ChatClient ------------------------------
(***************************************************************************)
(* One browser tab of the dashboard on the chat WebSocket of a session:    *)
(* hooks/use-websocket.ts with the input of components/chat, composed with *)
(* the server as SessionService specifies it, which SessionStream is shown *)
(* to implement.  The connection is a pair of FIFO queues that a drop      *)
(* empties; the tab reconnects by itself and the server replays the        *)
(* buffered reply.  Other tabs of the session speak to the server too;     *)
(* only their effect on this tab is followed.                              *)
(*                                                                         *)
(* A chunk is known by its message and its number; message 0 stands for    *)
(* the answers to slash commands.  Bubbles are abstracted to the one under *)
(* construction, if any, and to the chunks put on the screen.              *)
(***************************************************************************)
EXTENDS SessionService, Sequences

CONSTANTS
  Tab,          \* the followed tab, one of Clients
  MaxExtras,    \* bound: slash commands of this tab and status frames for it
  MaxWire       \* bound: frames under way in one direction

ASSUME TabAssumption == Tab \in Clients
ASSUME TabBoundsAssumption ==
  {MaxMessages, MaxChunks, MaxExtras} \subseteq Nat /\ MaxWire \in Nat \ {0, 1}

VARIABLES
  hasUrl,      \* was the page opened with a session id (wsUrl)?
  link,        \* the tab's socket
  wire,        \* frames under way to the tab
  uplink,      \* frames under way to the server
  requester,   \* messages whose handler holds the tab's present socket
  extras,      \* slash commands and conductor_status frames so far
  processing,  \* the state isProcessing
  muted,       \* cancelledRef
  spinner,     \* is processingIdRef set?
  live,        \* is accumulatorRef set?
  shown,       \* ghost: chunks of the current reply put on the screen
  dropped      \* ghost: has one been ignored since it was (re)joined?

net    == <<hasUrl, link, wire, uplink, requester, extras>>
screen == <<processing, muted, spinner, live, shown, dropped>>
cvars  == <<service, net, screen>>

Piece(m, k) == [msg |-> m, num |-> k]
Frame(type, m, k) == [type |-> type, piece |-> Piece(m, k)]
Pieces(m, n) == {Piece(m, k) : k \in 1 .. n}

ClientInit ==
  /\ exists \in BOOLEAN /\ hasUrl = exists
  /\ members = IF exists THEN Clients \ {Tab} ELSE {}
  /\ sent = 0 /\ current = NoReply
  /\ phase = [m \in Ids |-> "new"] /\ len = [m \in Ids |-> 0] /\ erred = {}
  /\ link = "down" /\ wire = <<>> /\ uplink = <<>>
  /\ requester = {}
  /\ extras = 0
  /\ processing = FALSE /\ muted = FALSE /\ spinner = FALSE
  /\ live = FALSE
  /\ shown = {} /\ dropped = FALSE

-----------------------------------------------------------------------------
(* The connection. *)

ResumeStreamingOnly ==
  IF Streaming THEN <<Frame("resume", current, len[current])>> ELSE <<>>

(* The stream_resume frame of open(). *)
Resume ==
  IF ~Replayable THEN <<>>
  ELSE <<Frame(IF Streaming THEN "resume" ELSE "replay", current, len[current])>>

(* connect() of a page that knows its session, up to the server's open().  *)
Connect ==
  /\ link = "down" /\ hasUrl
  /\ Join(Tab)
  /\ link' = "up" /\ wire' = Resume /\ dropped' = FALSE
  /\ UNCHANGED <<hasUrl, uplink, requester, extras, processing, muted,
                 spinner, live, shown>>

(* connect() of a page opened as a new chat: the URL is that of the first  *)
(* render, whatever session_init has told since.                           *)
ConnectBlank ==
  /\ link = "down" /\ ~hasUrl
  /\ ~exists
  /\ link' = "up"
  /\ UNCHANGED <<service, hasUrl, wire, uplink, requester, extras, screen>>

(* The same once the session exists: the tab is in no session any more and *)
(* its next message will create another one.  It is not followed further.  *)
GoAstray ==
  /\ link = "down" /\ ~hasUrl /\ exists
  /\ link' = "astray"
  /\ UNCHANGED <<service, hasUrl, wire, uplink, requester, extras, screen>>

FinaliseBubbles == UNCHANGED processing /\ spinner' = FALSE /\ live' = FALSE

(* What onclose, handleComplete, handleError and a cancel reset. *)
Finalise == processing' = FALSE /\ spinner' = FALSE /\ live' = FALSE

(* close() at the server. *)
LeavesSession == Leave(Tab)

(* The connection breaks; what is under way is lost. *)
Drop ==
  /\ link = "up"
  /\ LeavesSession
  /\ link' = "down" /\ wire' = <<>> /\ uplink' = <<>> /\ requester' = {}
  /\ Finalise
  /\ UNCHANGED <<hasUrl, extras, muted, shown, dropped>>

-----------------------------------------------------------------------------
(* The user. *)

(* sendMessage re-arms the guard that a cancel has set. *)
Unmute == muted' = FALSE

Sends(type) ==
  /\ link = "up" /\ Len(uplink) < MaxWire
  /\ uplink' = Append(uplink, type)

Queued == Len(SelectSeq(uplink, LAMBDA f : f = "message"))

(* A question: the form is disabled while isProcessing. *)
Send ==
  /\ ~processing
  /\ sent + Queued < MaxMessages
  /\ Sends("message")
  /\ Unmute
  /\ processing' = TRUE
  /\ UNCHANGED <<service, hasUrl, link, wire, requester, extras,
                 spinner, live, shown, dropped>>

(* A slash command: sent silently, from the autocomplete list and from the *)
(* model selector even while isProcessing.                                 *)
Slash ==
  /\ extras < MaxExtras /\ extras' = extras + 1
  /\ Sends("slash")
  /\ Unmute
  /\ UNCHANGED <<service, hasUrl, link, wire, requester, processing,
                 spinner, live, shown, dropped>>

(* The local half of cancelProcessing. *)
Mute == muted' = TRUE /\ Finalise

CancelProcessing ==
  /\ processing
  /\ Sends("cancel")
  /\ Mute
  /\ UNCHANGED <<service, hasUrl, link, wire, requester, extras, shown, dropped>>

-----------------------------------------------------------------------------
(* The server takes the tab's frames in order. *)

Transmit(frames) == Len(wire \o frames) <= MaxWire /\ wire' = wire \o frames

Takes(type) == uplink # <<>> /\ Head(uplink) = type /\ uplink' = Tail(uplink)

TakeMessage ==
  /\ Takes("message")
  /\ Ask(Tab)
  /\ requester' = requester \union {sent + 1}
  /\ shown' = {} /\ dropped' = FALSE
  /\ UNCHANGED <<hasUrl, link, wire, extras, processing, muted, spinner, live>>

TakeCancel ==
  /\ Takes("cancel")
  /\ Cancel(Tab)
  /\ UNCHANGED <<hasUrl, link, wire, requester, extras, screen>>

(* handleSlashCommand: a chunk and a complete frame, for this socket only. *)
TakeSlash ==
  /\ Takes("slash")
  /\ Transmit(<<Frame("chunk", 0, 0), Frame("complete", 0, 0)>>)
  /\ UNCHANGED <<service, hasUrl, link, requester, extras, screen>>

(* broadcastMsg, seen from the tab. *)
Broadcast(frames) == IF Tab \in members THEN Transmit(frames) ELSE UNCHANGED wire

ClosingOnlyIfSaid(m) ==
  IF Unanswered(m) /\ len[m] > 0 THEN <<Frame("complete", m, 0)>> ELSE <<>>

(* The frame that ends a stream without a complete event: an error, unless *)
(* something has been said.                                                *)
Closing(m) ==
  IF ~Unanswered(m) THEN <<>>
  ELSE <<Frame(IF len[m] > 0 THEN "complete" ELSE "error", m, 0)>>

(* sendWSError to the requesting socket. *)
ErrorForTab(m) == IF m \in requester THEN <<Frame("error", m, 0)>> ELSE <<>>

(* The relay loop of a message: a chunk, a complete event, an error event  *)
(* or the stream timeout, the end of the loop, a throw of the generator    *)
(* (sendWSError for the requesting socket).                                *)
Relays(m) ==
  /\ \/ Say(m) /\ Broadcast(<<Frame("chunk", m, len[m] + 1)>>)
     \/ Complete(m) /\ Broadcast(<<Frame("complete", m, 0)>>)
     \/ Fail(m) /\ Broadcast(<<Frame("error", m, 0)>>)
     \/ End(m) /\ Broadcast(Closing(m))
     \/ EndWithError(m) /\ Broadcast(Closing(m) \o ErrorForTab(m))
  /\ UNCHANGED <<hasUrl, link, uplink, requester, extras, screen>>

(* onEvent of the conductor: to the requesting socket, buffered nowhere. *)
Status(m) ==
  /\ phase[m] \in {"open", "cut", "said"} /\ m \in requester
  /\ extras < MaxExtras /\ extras' = extras + 1
  /\ Transmit(<<Frame("status", m, 0)>>)
  /\ UNCHANGED <<service, hasUrl, link, uplink, requester, screen>>

(* Other tabs of the session, there all along: their screens are not       *)
(* followed.                                                               *)
OtherTab(c) ==
  /\ \/ Cancel(c) /\ UNCHANGED <<shown, dropped>>
     \/ c \in members /\ Ask(c) /\ shown' = {} /\ dropped' = FALSE
  /\ UNCHANGED <<net, processing, muted, spinner, live>>

Expires == Expire /\ UNCHANGED <<net, screen>>

-----------------------------------------------------------------------------
(* The tab takes the server's frames in order: ws.onmessage. *)

Receives(types) ==
  /\ link = "up" /\ wire # <<>>
  /\ Head(wire).type \in types
  /\ wire' = Tail(wire)

Now == Head(wire).piece

Show(pieces) == shown' = shown \union {p \in pieces : p.msg = current}

(* handleChunk. *)
HandleChunk ==
  /\ Receives({"chunk"})
  /\ IF muted
     THEN /\ dropped' = (dropped \/ Now.msg = current)
          /\ UNCHANGED <<spinner, live, shown>>
     ELSE /\ live' = TRUE
          /\ spinner' = (spinner /\ live)
          /\ Show({Now})
          /\ UNCHANGED dropped
  /\ UNCHANGED <<service, hasUrl, link, uplink, requester, extras, processing, muted>>

(* handleComplete. *)
HandleComplete ==
  /\ Receives({"complete"})
  /\ IF muted THEN UNCHANGED <<processing, spinner, live>> ELSE Finalise
  /\ UNCHANGED <<service, hasUrl, link, uplink, requester, extras, muted, shown, dropped>>

(* handleError: not guarded by cancelledRef. *)
HandleError ==
  /\ Receives({"error"})
  /\ Finalise
  /\ UNCHANGED <<service, hasUrl, link, uplink, requester, extras, muted, shown, dropped>>

(* handleConductorStatus: a placeholder, unless there is one. *)
HandleConductorStatus ==
  /\ Receives({"status"})
  /\ spinner' = (spinner \/ ~muted)
  /\ UNCHANGED <<service, hasUrl, link, uplink, requester, extras, processing,
                 muted, live, shown, dropped>>

(* stream_resume of a reply under way: not guarded by cancelledRef. *)
HandleResume ==
  /\ Receives({"resume"})
  /\ processing' = TRUE
  /\ IF Now.num > 0
     THEN live' = TRUE /\ UNCHANGED spinner
     ELSE spinner' = TRUE /\ UNCHANGED live
  /\ Show(Pieces(Now.msg, Now.num))
  /\ UNCHANGED <<service, hasUrl, link, uplink, requester, extras, muted, dropped>>

(* stream_resume of a finished reply: one more message. *)
HandleReplay ==
  /\ Receives({"replay"})
  /\ Show(Pieces(Now.msg, Now.num))
  /\ UNCHANGED <<service, hasUrl, link, uplink, requester, extras, processing,
                 muted, spinner, live, dropped>>

OnMessage == \/ HandleChunk \/ HandleComplete \/ HandleError
             \/ HandleConductorStatus \/ HandleResume \/ HandleReplay

ServerTakes == TakeMessage \/ TakeCancel \/ TakeSlash

ClientNext ==
  \/ Connect \/ ConnectBlank \/ GoAstray \/ Drop
  \/ Send \/ Slash \/ CancelProcessing
  \/ ServerTakes
  \/ \E m \in Ids : Relays(m) \/ Status(m)
  \/ \E c \in Clients \ {Tab} : OtherTab(c)
  \/ Expires
  \/ OnMessage

(* Frames are delivered while the connection lasts, the tab reconnects,    *)
(* and the server's timers fire; nothing is assumed of the user, of the    *)
(* conductor or of the network.                                            *)
ClientFairness ==
  /\ WF_cvars(OnMessage) /\ WF_cvars(ServerTakes) /\ WF_cvars(Connect \/ ConnectBlank)
  /\ \A m \in Ids : WF_cvars(Relays(m) /\ Answer(m))

ClientSpec == ClientInit /\ [][ClientNext]_cvars /\ ClientFairness

-----------------------------------------------------------------------------
(* Every variable has its type, and the tab is in the session only while   *)
(* its socket is up.                                                       *)
ClientTypeOK ==
  /\ hasUrl \in BOOLEAN /\ link \in {"down", "up", "astray"}
  /\ wire \in Seq([type : {"chunk", "complete", "error", "status", "resume", "replay"},
                   piece : [msg : 0 .. MaxMessages, num : 0 .. MaxChunks]])
  /\ uplink \in Seq({"message", "cancel", "slash"})
  /\ requester \subseteq Ids /\ extras \in 0 .. MaxExtras
  /\ {processing, muted, spinner, live} \subseteq BOOLEAN
  /\ dropped \in BOOLEAN
  /\ Tab \in members => link = "up"

(* Across drops, reconnections, cancels, other tabs and stale frames, a tab *)
(* that has taken all its frames has shown every chunk of the session's     *)
(* reply so far; only what came while it was cancelled may be missing.      *)
EveryChunkShown ==
  link = "up" /\ Tab \in members /\ wire = <<>> /\ uplink = <<>>
    /\ current # NoReply /\ ~dropped
  => Pieces(current, len[current]) \subseteq shown

(* A tab that is processing has a reason to wait: its question or an        *)
(* answer's last frame is under way, or a stream will still send it one.    *)
(* Nothing that ends the wait can be lost without the connection.           *)
WaitHasReason ==
  processing /\ ~muted =>
    \/ \E i \in 1 .. Len(uplink) : uplink[i] # "cancel"
    \/ \E i \in 1 .. Len(wire) : wire[i].type \in {"complete", "error"}
    \/ Tab \in members /\ \E m \in Ids : Unanswered(m)

(* The input does not stay locked: whatever is lost or late, a tab that     *)
(* waits is answered, disconnected or cancelled.  (A tab that has cancelled *)
(* and is resumed after a drop that lost the cancel ignores the answer, and *)
(* waits until its user cancels again.)                                     *)
ProcessingEnds == processing /\ ~muted ~> ~processing

(* docs/SPEC.md: "When a client reconnects, it receives a STREAM_RESUME     *)
(* message replaying all buffered chunks so far."                           *)
ReconnectResumes ==
  [][link = "down" /\ link' # "down" /\ Replayable => wire' = Resume]_cvars

=============================================================================
