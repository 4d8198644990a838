--------------------------- MODULE BackendProcess ---------------------------
(***************************************************************************)
(* packages/agent-manager/src/backends: what stands behind an agent or a   *)
(* chat session.  claude, codex and gemini spawn one CLI child per         *)
(* message, ollama makes one HTTP request, pi talks to one child for all.  *)
(* Each keeps a single slot (_process, _abortController), whatever the     *)
(* number of sends under way, and they do overlap: a question that         *)
(* replaces the one being answered does not wait for its end.              *)
(*                                                                         *)
(* A child is known by the message it was spawned for.  External: what the *)
(* children print, when they exit, and the callers.  A consumer may leave  *)
(* at any event without an abort, as the relay of websocket.ts does past   *)
(* its time-out; send() is a stream that nobody aborts.                    *)
(***************************************************************************)
EXTENDS Naturals, Sequences

CONSTANTS
  Flavors,    \* the backends considered
  Messages,   \* bound: the sends
  MaxLines,   \* bound: lines a child prints before its last one
  None        \* no child

ASSUME FlavorsAssumption == Flavors \subseteq {"claude", "codex", "gemini", "ollama", "pi"}
ASSUME NoneAssumption == None \notin Messages
ASSUME LinesAssumption == MaxLines \in Nat

VARIABLES
  flavor,   \* which backend this is
  alive,    \* _alive
  slot,     \* whose child is in _process, or request in _abortController
  native,   \* has a session id been captured?
  ensured,  \* pi: is _ensuring set?
  todo,     \* pi: messages the child has not answered
  pipe,     \* pi: lines of stdout nobody has read
  lineBuffer,  \* pi: _lineBuffer, lines read and not taken
  reads,    \* pi: messages that await a reader.read()
  child,    \* [Messages -> ChildState]
  gen,      \* [Messages -> GenState]: each call of sendStreaming()
  waits,    \* the child whose exit it awaits
  lines,    \* lines of each answer, its last one aside
  ends,     \* terminal events it has yielded, thrown errors included
  aborted,  \* messages whose signal is aborted
  loose,    \* ghost: sends that overlapped, spawned too late, or were left
            \*   before another began
  foreign   \* ghost: sends that took what another's child said

pi == <<ensured, todo, pipe, lineBuffer, reads>>
vars == <<flavor, alive, slot, native, pi, child, gen, waits, lines, ends,
          aborted, loose, foreign>>

ChildState == {"none", "running", "killed", "dead"}
GenState == {"new", "writing", "reading", "exiting", "done", "left"}
StdoutLine == [of : Messages, last : BOOLEAN]

Active == {m \in Messages : gen[m] \in {"writing", "reading", "exiting"}}
Left == {m \in Messages : gen[m] = "left"}

Init ==
  /\ flavor \in Flavors
  /\ alive = TRUE /\ slot = None /\ native = FALSE
  /\ ensured = FALSE /\ todo = <<>> /\ pipe = <<>> /\ lineBuffer = <<>>
  /\ reads = {}
  /\ child = [m \in Messages |-> "none"]
  /\ gen = [m \in Messages |-> "new"]
  /\ waits = [m \in Messages |-> None]
  /\ lines = [m \in Messages |-> 0]
  /\ ends = [m \in Messages |-> 0]
  /\ aborted = {} /\ loose = {} /\ foreign = {}

-----------------------------------------------------------------------------
(* The beginning of a stream. *)

Ending(m) == ends' = [ends EXCEPT ![m] = @ + 1]
Goes(m, to) == gen' = [gen EXCEPT ![m] = to]
Becomes(m, state) == child' = [child EXCEPT ![m] = state]

(* `Process is not alive`, or an aborted signal. *)
Refuse(m) ==
  /\ gen[m] = "new" /\ (~alive \/ m \in aborted)
  /\ Ending(m) /\ Goes(m, "done")
  /\ UNCHANGED <<flavor, alive, slot, native, pi, child, waits, lines,
                 aborted, loose, foreign>>

Begins(m) == gen[m] = "new" /\ alive /\ m \notin aborted

Crossed(m) ==
  loose \union Left \union (IF Active = {} THEN {} ELSE Active \union {m})

SpawnUnrecorded(m) == Becomes(m, "running") /\ Goes(m, "reading") /\ UNCHANGED slot

(* Bun.spawn(), fetch(): the slot now holds this child. *)
Spawn(m) == Becomes(m, "running") /\ slot' = m /\ Goes(m, "reading")

StartChild(m) ==
  /\ Begins(m)
  /\ flavor \in {"claude", "codex", "ollama"} \/ (flavor = "gemini" /\ native)
  /\ Spawn(m)
  /\ loose' = Crossed(m)
  /\ UNCHANGED <<flavor, alive, native, pi, waits, lines, ends, aborted, foreign>>

(* The CLI is not installed, or the connection is refused: the request's   *)
(* controller stays in the slot.                                           *)
StartFails(m) ==
  /\ Begins(m) /\ flavor # "pi"
  /\ Ending(m) /\ Goes(m, "done")
  /\ slot' = IF flavor = "ollama" THEN m ELSE slot
  /\ loose' = Crossed(m)
  /\ UNCHANGED <<flavor, alive, native, pi, child, waits, lines, aborted, foreign>>

(* gemini writes its system prompt to a file first ...                     *)
WritePrompt(m) ==
  /\ Begins(m) /\ flavor = "gemini" /\ ~native
  /\ Goes(m, "writing")
  /\ loose' = Crossed(m)
  /\ UNCHANGED <<flavor, alive, slot, native, pi, child, waits, lines, ends,
                 aborted, foreign>>

(* ... and then spawns, with no second look at the signal, whose abort     *)
(* event may be over, nor at _alive.                                       *)
PromptWritten(m) ==
  /\ gen[m] = "writing"
  /\ Spawn(m)
  /\ loose' = IF alive /\ m \notin aborted THEN loose ELSE loose \union {m}
  /\ UNCHANGED <<flavor, alive, native, pi, waits, lines, ends, aborted, foreign>>

(* pi spawns for its first message only: ensureProcess() never clears      *)
(* _ensuring, as its assignment comes after the reset.                     *)
StartPi(m) ==
  /\ Begins(m) /\ flavor = "pi"
  /\ ensured' = TRUE
  /\ loose' = Crossed(m)
  /\ \/ ~ensured /\ Spawn(m) /\ todo' = <<m>> /\ UNCHANGED ends
     \/ /\ slot = None
        /\ Ending(m) /\ Goes(m, "done")
        /\ UNCHANGED <<slot, child, todo>>
     \/ /\ slot # None
        /\ Goes(m, "reading")
        /\ todo' = IF child[slot] = "running" THEN Append(todo, m) ELSE todo
        /\ UNCHANGED <<slot, child, ends>>
  /\ UNCHANGED <<flavor, alive, native, pipe, lineBuffer, reads, waits, lines,
                 aborted, foreign>>

-----------------------------------------------------------------------------
(* Reading the answer of a child of its own. *)

Reads(m) == gen[m] = "reading" /\ flavor # "pi"

(* ollama's `finally`. *)
Release(m) ==
  IF flavor = "ollama" THEN slot' = None /\ Becomes(m, "dead")
  ELSE UNCHANGED <<slot, child>>

(* The signal is looked at when a line has come. *)
LineAborted(m) ==
  /\ Reads(m) /\ m \in aborted /\ (lines[m] < MaxLines \/ child[m] = "running")
  /\ Ending(m) /\ Goes(m, "done") /\ Release(m)
  /\ UNCHANGED <<flavor, alive, native, pi, waits, lines, aborted, loose, foreign>>

(* A chunk, a tool event or the like; codex and gemini name the session.   *)
Event(m) ==
  /\ Reads(m) /\ m \notin aborted /\ lines[m] < MaxLines
  /\ lines' = [lines EXCEPT ![m] = @ + 1]
  /\ native' \in IF flavor \in {"codex", "gemini"} THEN {native, TRUE} ELSE {native}
  /\ UNCHANGED <<flavor, alive, pi, child, waits, ends, aborted, loose, foreign>>

Line(m) == Event(m) /\ UNCHANGED <<slot, gen>>

(* generator.return() at that event: nothing is killed, and only ollama    *)
(* has a `finally` that empties the slot, which does not end the request.  *)
LeftAtEvent(m) ==
  /\ Event(m)
  /\ Goes(m, "left")
  /\ slot' = IF flavor = "ollama" THEN None ELSE slot

AwaitsSlot(m) == slot

(* claude keeps its child in a local, codex and gemini look it up again.   *)
AwaitedBy(m) == IF flavor = "claude" THEN m ELSE slot

(* `this._process.exited` of an empty slot is a TypeError: one more error. *)
Await(m, yielded) ==
  IF AwaitedBy(m) = None
  THEN /\ Goes(m, "done") /\ ends' = [ends EXCEPT ![m] = @ + yielded + 1]
       /\ UNCHANGED waits
  ELSE /\ Goes(m, "exiting") /\ ends' = [ends EXCEPT ![m] = @ + yielded]
       /\ waits' = [waits EXCEPT ![m] = AwaitedBy(m)]

(* A `result` line, or gemini's `error`: the last event, but the child has *)
(* yet to exit ...                                                         *)
LastEvent(m) ==
  /\ Reads(m) /\ m \notin aborted /\ flavor \in {"claude", "gemini"}
  /\ native' = (native \/ flavor = "claude")
  /\ UNCHANGED <<flavor, alive, slot, pi, child, lines, aborted, loose, foreign>>

ResultLine(m) == LastEvent(m) /\ Await(m, 1)

(* ... which is awaited by a generator that is not left there.             *)
LeftAtEnd(m) ==
  /\ LastEvent(m)
  /\ Ending(m) /\ Goes(m, "left")
  /\ UNCHANGED waits

(* ollama's `done`, an error in a line, a broken or an aborted body.       *)
ResponseEnds(m) ==
  /\ Reads(m) /\ flavor = "ollama"
  /\ Ending(m) /\ Goes(m, "done") /\ Release(m)
  /\ UNCHANGED <<flavor, alive, native, pi, waits, lines, aborted, loose, foreign>>

(* The end of stdout. *)
EndOfOutput(m) ==
  /\ Reads(m) /\ flavor # "ollama" /\ child[m] = "dead"
  /\ Await(m, 0)
  /\ UNCHANGED <<flavor, alive, slot, native, pi, child, lines, aborted, loose, foreign>>

FinalizeOnce(m) == IF ends[m] = 0 THEN Ending(m) ELSE UNCHANGED ends

(* The awaited child has exited; finalizeProcess() if nothing has ended    *)
(* the stream yet.                                                         *)
Exited(m) ==
  /\ gen[m] = "exiting" /\ child[waits[m]] = "dead"
  /\ slot' = None
  /\ Goes(m, "done")
  /\ FinalizeOnce(m)
  /\ foreign' = IF waits[m] # m THEN foreign \union {m} ELSE foreign
  /\ UNCHANGED <<flavor, alive, native, pi, child, waits, lines, aborted, loose>>

-----------------------------------------------------------------------------
(* Reading pi's one stdout, through one reader and one line buffer.        *)

ReadsPi(m) == gen[m] = "reading" /\ flavor = "pi"

(* The child prints one more line of the answer it is at, or the last one. *)
Prints(last) ==
  /\ flavor = "pi" /\ slot # None /\ child[slot] = "running" /\ todo # <<>>
  /\ LET origin == Head(todo)
     IN /\ last \/ lines[origin] < MaxLines
        /\ lines' = IF last THEN lines ELSE [lines EXCEPT ![origin] = @ + 1]
        /\ pipe' = Append(pipe, [of |-> origin, last |-> last])
  /\ todo' = IF last THEN Tail(todo) ELSE todo
  /\ UNCHANGED <<flavor, alive, slot, native, ensured, lineBuffer, reads, child,
                 gen, waits, ends, aborted, loose, foreign>>

(* The signal is looked at between two lines. *)
Looks(m) == ReadsPi(m) /\ m \notin reads

PiAborted(m) ==
  /\ Looks(m) /\ m \in aborted
  /\ Ending(m) /\ Goes(m, "done")
  /\ UNCHANGED <<flavor, alive, slot, native, pi, child, waits, lines,
                 aborted, loose, foreign>>

(* reader.read(), as the buffer holds no line.  stop() takes the reader.   *)
PiAwaits(m) ==
  /\ Looks(m) /\ m \notin aborted /\ alive /\ lineBuffer = <<>>
  /\ reads' = reads \union {m}
  /\ UNCHANGED <<flavor, alive, slot, native, ensured, todo, pipe, lineBuffer,
                 child, gen, waits, lines, ends, aborted, loose, foreign>>

(* m takes the first of `all` the lines read, and is left at its event if  *)
(* `leaves`; the others stay in the buffer, where no pending read looks.   *)
TakesFirst(m, all, leaves) ==
  LET line == Head(all)
  IN /\ lineBuffer' = Tail(all)
     /\ reads' = reads \ {m}
     /\ foreign' = IF line.of # m THEN foreign \union {m} ELSE foreign
     /\ IF line.last THEN Ending(m) /\ Goes(m, "done")
        ELSE /\ UNCHANGED ends
             /\ IF leaves THEN Goes(m, "left") ELSE UNCHANGED gen
     /\ UNCHANGED <<flavor, alive, slot, native, ensured, todo, child, waits,
                    lines, aborted, loose>>

FromBuffer(m, leaves) ==
  /\ Looks(m) /\ m \notin aborted /\ alive /\ lineBuffer # <<>>
  /\ TakesFirst(m, lineBuffer, leaves)
  /\ UNCHANGED pipe

(* A read resolves with all that is there.  (A part of a line sends its    *)
(* reader back to the end of the queue, so any of them may be the next.)   *)
FromPipe(m, leaves) ==
  /\ ReadsPi(m) /\ m \in reads /\ alive /\ pipe # <<>>
  /\ m \in aborted => ~leaves
  /\ TakesFirst(m, lineBuffer \o pipe, leaves)
  /\ pipe' = <<>>

ReaderLost(m) ==
  m \in reads /\ pipe = <<>> /\ slot \in {c \in Messages : child[c] = "dead"}

(* Its child has died, or stop() has released the reader. *)
ReaderClosed(m) == ~alive \/ ReaderLost(m)

PiClosed(m) ==
  /\ ReadsPi(m) /\ ReaderClosed(m)
  /\ Ending(m) /\ Goes(m, "done")
  /\ reads' = reads \ {m}
  /\ UNCHANGED <<flavor, alive, slot, native, ensured, todo, pipe, lineBuffer,
                 child, waits, lines, aborted, loose, foreign>>

-----------------------------------------------------------------------------
(* The child exits, killed or not. *)
ChildExits(m) ==
  /\ child[m] \in {"running", "killed"} /\ (flavor # "ollama" \/ gen[m] = "left")
  /\ Becomes(m, "dead")
  /\ UNCHANGED <<flavor, alive, slot, native, pi, gen, waits, lines, ends,
                 aborted, loose, foreign>>

Kill(c) ==
  child' = IF c # None /\ child[c] = "running" THEN [child EXCEPT ![c] = "killed"]
           ELSE child

AbortSlot(m) == Kill(slot)

(* onAbort, while its listener is there: claude and ollama have their own  *)
(* child at hand, codex and gemini look into the slot, pi kills nothing.   *)
OnAbort(m) ==
  IF gen[m] \notin {"reading", "exiting"} \/ flavor = "pi" THEN UNCHANGED child
  ELSE IF flavor \in {"codex", "gemini"} THEN AbortSlot(m)
  ELSE Kill(m)

Abort(m) ==
  /\ m \notin aborted /\ gen[m] \notin {"done", "left"}
  /\ aborted' = aborted \union {m}
  /\ OnAbort(m)
  /\ UNCHANGED <<flavor, alive, slot, native, pi, gen, waits, lines, ends,
                 loose, foreign>>

(* stop(): a child that has exited stays in the slot. *)
Stop ==
  /\ alive
  /\ alive' = FALSE
  /\ Kill(slot)
  /\ slot' = IF slot # None /\ flavor # "ollama" /\ child[slot] = "dead"
             THEN slot ELSE None
  /\ UNCHANGED <<flavor, native, pi, gen, waits, lines, ends, aborted, loose, foreign>>

GoesOn(m) == \/ PromptWritten(m) \/ EndOfOutput(m) \/ Exited(m)
             \/ ResponseEnds(m)
             \/ PiAborted(m) \/ PiAwaits(m) \/ PiClosed(m)
             \/ FromBuffer(m, FALSE) \/ FromPipe(m, FALSE)

Next ==
  \/ \E m \in Messages :
       \/ Refuse(m) \/ StartChild(m) \/ StartFails(m) \/ WritePrompt(m) \/ StartPi(m)
       \/ LineAborted(m) \/ Line(m) \/ ResultLine(m)
       \/ LeftAtEvent(m) \/ LeftAtEnd(m)
       \/ FromBuffer(m, TRUE) \/ FromPipe(m, TRUE)
       \/ GoesOn(m)
       \/ ChildExits(m) \/ Abort(m)
  \/ \E last \in BOOLEAN : Prints(last)
  \/ Stop

(* A generator goes on when it can.  A child exits some day: it has        *)
(* answered, or it was killed.  A pi child answers instead.                *)
Fairness ==
  /\ \A m \in Messages : WF_vars(GoesOn(m)) /\ WF_vars(flavor # "pi" /\ ChildExits(m))
  /\ WF_vars(Prints(TRUE))

Spec == Init /\ [][Next]_vars /\ Fairness

-----------------------------------------------------------------------------
(* Every variable has its type. *)
TypeOK ==
  /\ flavor \in Flavors /\ alive \in BOOLEAN /\ native \in BOOLEAN
  /\ slot \in Messages \union {None}
  /\ ensured \in BOOLEAN /\ todo \in Seq(Messages) /\ reads \subseteq Messages
  /\ pipe \in Seq(StdoutLine) /\ lineBuffer \in Seq(StdoutLine)
  /\ child \in [Messages -> ChildState] /\ gen \in [Messages -> GenState]
  /\ waits \in [Messages -> Messages \union {None}]
  /\ lines \in [Messages -> 0 .. MaxLines] /\ ends \in [Messages -> 0 .. 2]
  /\ aborted \subseteq Messages /\ loose \subseteq Messages
  /\ foreign \subseteq Messages

(* stop() leaves nothing running behind it as long as the sends took       *)
(* turns: only a child of sends that overlapped (the end of one empties    *)
(* the slot of the other), one that gemini spawned after its prompt was    *)
(* written too late, or one whose stream was left without an abort (the    *)
(* relay past its time-out, gemini's send() at an error) can outlive it,   *)
(* the last once another send has taken the slot, or ollama's `finally`    *)
(* has emptied it.  pi's one child cannot.                                 *)
StopReachesChild ==
  ~alive => \A m \in Messages : child[m] = "running" =>
    \/ m \in loose /\ flavor # "pi"
    \/ m \in Left /\ flavor = "ollama"

(* An aborted stream that has ended has killed its child; codex and gemini *)
(* miss it, or kill another's, only when sends overlapped or the abort     *)
(* came while the prompt was written.                                      *)
CancelReachesChild ==
  \A m \in aborted :
    gen[m] = "done" /\ child[m] = "running" /\ flavor # "pi"
      => flavor \in {"codex", "gemini"} /\ m \in loose

(* A stream that is over has told so exactly once, whatever was aborted,   *)
(* killed or stopped; only gemini's, when another send or stop() has       *)
(* emptied the slot, may add an error to its `complete`.                   *)
OneEnding ==
  \A m \in Messages :
    /\ gen[m] = "done" => ends[m] >= 1
    /\ ends[m] > 1 => flavor = "gemini" /\ (m \in loose \/ ~alive)

(* What a stream reports is of its own child.  codex and gemini report the *)
(* exit of another's only when sends overlapped; with pi, which reads one  *)
(* stdout for all, an earlier overlap, abort or time-out leaves an answer  *)
(* to be taken for the next one's.                                         *)
OwnAnswer ==
  \A m \in foreign :
    \/ flavor \in {"codex", "gemini"} /\ m \in loose
    \/ flavor = "pi" /\ loose \union ((aborted \union Left) \ {m}) # {}

Starved(m) == m \in reads /\ lineBuffer # <<>>

(* Every stream that began comes to an end, and none waits for ever on an  *)
(* emptied slot or on another's child; but of pi's messages that overlap   *)
(* one may await a read for ever while the line that would end it lies in  *)
(* the buffer, where the one that read it left it.                         *)
StreamsEnd ==
  \A m \in Messages : m \in Active ~>
    gen[m] \in {"done", "left"} \/ (flavor = "pi" /\ m \in loose /\ Starved(m))

=============================================================================
