--------------------------- MODULE ChatEndsProofs ---------------------------
(***************************************************************************)
(* Safety of the two ends of a chat: the backends behind it (children,     *)
(* slots, endings and answers, for any set of backends and of messages and *)
(* any number of lines), and the browser's tab before it (what it shows    *)
(* and waits for, for any number of messages, chunks and reconnections).   *)
(* The two share no state: each is proved of its own specification.        *)
(***************************************************************************)
EXTENDS BackendProcess, ChatClient, FiniteSets, FiniteSetTheorems, TLAPS

(* A stream has no child before it reads, each backend has its stages, and *)
(* an ending has been told at most once before the child's exit.           *)
Stages ==
  \A m \in Messages :
    /\ gen[m] \in {"new", "writing"} => child[m] = "none"
    /\ gen[m] = "writing" => flavor = "gemini"
    /\ gen[m] = "exiting" => flavor \in {"claude", "codex", "gemini"}
    /\ gen[m] \in {"new", "writing", "reading"} => ends[m] = 0
    /\ gen[m] = "exiting" => ends[m] \in {0, 1}

(* Streams under way at the same time are all loose, and so is one that    *)
(* was left before another began.                                          *)
OverlapIsLoose ==
  \A m \in Active, n \in Active \union Left : m # n => n \in loose

(* The slot of a backend that is not stopped holds the one child that runs *)
(* without being loose; but for pi's, such a child has a reader, or was    *)
(* left by it.  ollama's does not hold a request that was left.            *)
SlotHoldsChild ==
  \A m \in Messages : child[m] = "running" /\ m \notin loose =>
    \/ slot = m /\ alive /\ (flavor = "pi" \/ m \in Active \union Left)
    \/ m \in Left /\ flavor = "ollama"

(* A reader that is not loose finds its own child in the slot, or nothing  *)
(* after stop(), and so it never awaits the exit of another's.             *)
SlotIsOwn ==
  \A m \in Messages :
    /\ gen[m] = "reading" /\ flavor # "pi" /\ m \notin loose =>
         slot = m \/ (slot = None /\ ~alive)
    /\ gen[m] = "exiting" =>
         waits[m] \in Messages /\ (waits[m] = m \/ (flavor # "claude" /\ m \in loose))

(* An abort has reached the child, unless it is loose. *)
AbortsReach ==
  \A m \in aborted :
    gen[m] \in {"reading", "exiting", "done"} /\ child[m] = "running" /\ flavor # "pi"
      => flavor \in {"codex", "gemini"} /\ m \in loose

(* pi: one child for all the messages, and only readers. *)
PiStages ==
  flavor = "pi" =>
    /\ \A m \in Messages : gen[m] \in {"new", "reading", "done", "left"}
    /\ ~ensured => slot = None /\ Active = {} /\ \A m \in Messages : child[m] = "none"
    /\ \A m \in Messages : child[m] = "running" => slot = m /\ alive

(* pi, as long as no two messages overlapped and no reader has left before *)
(* its answer was complete: what was printed and not taken is of the one   *)
(* reader, its last line comes last, and nothing is left when it has gone. *)
Of(m, stdout) ==
  \A i \in 1 .. Len(stdout) :
    stdout[i].of = m /\ (stdout[i].last => i = Len(stdout) /\ todo = <<>>)

Quiet == flavor = "pi" /\ alive /\ loose = {} /\ Left = {} /\ aborted \subseteq Active
Owes ==
  /\ \A m \in Active : /\ Of(m, lineBuffer) /\ Of(m, pipe)
                       /\ \A i \in 1 .. Len(lineBuffer) : lineBuffer[i].last => pipe = <<>>
                       /\ m \in reads => lineBuffer = <<>>
                       /\ slot # None /\ child[slot] = "running" =>
                            todo = <<>> \/ todo = <<m>>
  /\ Active = {} => /\ lineBuffer = <<>> /\ pipe = <<>>
                    /\ slot # None /\ child[slot] = "running" => todo = <<>>
PiOwes == Quiet => Owes

Children == OverlapIsLoose /\ SlotHoldsChild /\ SlotIsOwn /\ AbortsReach
BackendInv == TypeOK /\ Stages /\ PiStages /\ OneEnding /\ Children

-----------------------------------------------------------------------------
(* The streams under way, after one begins, goes on or ends. *)
LEMMA StreamEnds ==
  ASSUME TypeOK, NEW m \in Messages, Goes(m, "done")
  PROVE  Active' = Active \ {m}
BY DEF TypeOK, Goes, Active, GenState

LEMMA StreamGoes ==
  ASSUME TypeOK, NEW m \in Messages, NEW to \in {"writing", "reading", "exiting"},
         Goes(m, to)
  PROVE  Active' = Active \union {m}
BY DEF TypeOK, Goes, Active, GenState

-----------------------------------------------------------------------------
(* The invariant of the children holds at first and in every step.         *)
LEMMA InitBackend == Init => BackendInv
<1> SUFFICES ASSUME Init PROVE BackendInv
  OBVIOUS
<1>1. TypeOK
  <2>1. 0 \in 0 .. MaxLines /\ 0 \in 0 .. 2
    BY LinesAssumption
  <2>2. lines \in [Messages -> 0 .. MaxLines] /\ ends \in [Messages -> 0 .. 2]
    BY <2>1 DEF Init
  <2>3. <<>> \in Seq(Messages) /\ <<>> \in Seq(StdoutLine)
    OBVIOUS
  <2>4. /\ child \in [Messages -> ChildState] /\ gen \in [Messages -> GenState]
        /\ waits \in [Messages -> Messages \union {None}]
    BY DEF Init, ChildState, GenState
  <2>5. /\ flavor \in Flavors /\ alive \in BOOLEAN /\ native \in BOOLEAN
        /\ slot \in Messages \union {None} /\ ensured \in BOOLEAN /\ reads \subseteq Messages
        /\ todo = <<>> /\ pipe = <<>> /\ lineBuffer = <<>>
        /\ aborted \subseteq Messages /\ loose \subseteq Messages /\ foreign \subseteq Messages
    BY DEF Init
  <2> QED BY <2>2, <2>3, <2>4, <2>5 DEF TypeOK
<1>2. Active = {}
  BY DEF Init, Active, Left
<1>3. Stages /\ PiStages /\ OneEnding
  BY <1>2 DEF Init, Stages, PiStages, OneEnding
<1>4. Children
  BY <1>2 DEF Init, Children, OverlapIsLoose, SlotHoldsChild, SlotIsOwn, AbortsReach
<1> QED BY <1>1, <1>3, <1>4 DEF BackendInv

LEMMA RefuseKeeps ==
  ASSUME BackendInv, NEW m \in Messages, Refuse(m)
  PROVE  BackendInv'
<1>a. 0 .. 2 = {0, 1, 2}
  OBVIOUS
<1> USE FlavorsAssumption, NoneAssumption, LinesAssumption DEF BackendInv, Children
<1>1. TypeOK'
  BY <1>a DEF Refuse, Ending, Goes, pi, TypeOK, Stages, Active, Left, ChildState, GenState
<1>2. Stages'
  BY DEF Refuse, Ending, Goes, pi, Stages, TypeOK, ChildState, GenState
<1>3. PiStages'
  BY DEF Refuse, Ending, Goes, pi, PiStages, Stages, TypeOK, Active, Left,
         ChildState, GenState
<1>4. OneEnding'
  BY DEF Refuse, Ending, Goes, pi, OneEnding, Stages, SlotIsOwn, TypeOK,
         ChildState, GenState
<1>5. OverlapIsLoose'
  BY DEF Refuse, Ending, Goes, pi, OverlapIsLoose, TypeOK, Active, Left, ChildState,
         GenState
<1>6. SlotHoldsChild'
  BY DEF Refuse, Ending, Goes, pi, SlotHoldsChild, OverlapIsLoose, SlotIsOwn,
         AbortsReach, Stages, PiStages, TypeOK, Active, Left, ChildState, GenState
<1>7. SlotIsOwn'
  BY DEF Refuse, Ending, Goes, pi, SlotIsOwn, OverlapIsLoose, Stages, TypeOK,
         Active, Left, ChildState, GenState
<1>8. AbortsReach'
  BY DEF Refuse, Ending, Goes, pi, AbortsReach, SlotHoldsChild, OverlapIsLoose,
         Stages, TypeOK, Active, Left, ChildState, GenState
<1> QED BY <1>1, <1>2, <1>3, <1>4, <1>5, <1>6, <1>7, <1>8

LEMMA StartChildKeeps ==
  ASSUME BackendInv, NEW m \in Messages, StartChild(m)
  PROVE  BackendInv'
<1>a. 0 .. 2 = {0, 1, 2}
  OBVIOUS
<1> USE FlavorsAssumption, NoneAssumption, LinesAssumption DEF BackendInv, Children
<1>1. TypeOK'
  BY <1>a DEF StartChild, Begins, Spawn, Becomes, Goes, Crossed, pi, TypeOK, Stages,
         Active, Left, ChildState, GenState
<1>2. Stages'
  BY DEF StartChild, Begins, Spawn, Becomes, Goes, Crossed, pi, Stages, TypeOK,
         ChildState, GenState
<1>3. PiStages'
  BY DEF StartChild, Begins, Spawn, Becomes, Goes, Crossed, pi, PiStages,
         Stages, TypeOK, Active, Left, ChildState, GenState
<1>4. OneEnding'
  BY DEF StartChild, Begins, Spawn, Becomes, Goes, Crossed, pi, OneEnding,
         Stages, SlotIsOwn, TypeOK, ChildState, GenState
<1>5. OverlapIsLoose'
  BY DEF StartChild, Begins, Spawn, Becomes, Goes, Crossed, pi, OverlapIsLoose,
         TypeOK, Active, Left, ChildState, GenState
<1>6. SlotHoldsChild'
  BY DEF StartChild, Begins, Spawn, Becomes, Goes, Crossed, pi, SlotHoldsChild,
         OverlapIsLoose, SlotIsOwn, AbortsReach, Stages, PiStages, TypeOK,
         Active, Left, ChildState, GenState
<1>7. SlotIsOwn'
  BY DEF StartChild, Begins, Spawn, Becomes, Goes, Crossed, pi, SlotIsOwn,
         OverlapIsLoose, Stages, TypeOK, Active, Left, ChildState, GenState
<1>8. AbortsReach'
  BY DEF StartChild, Begins, Spawn, Becomes, Goes, Crossed, pi, AbortsReach,
         SlotHoldsChild, OverlapIsLoose, Stages, TypeOK, Active, Left, ChildState,
         GenState
<1> QED BY <1>1, <1>2, <1>3, <1>4, <1>5, <1>6, <1>7, <1>8

LEMMA StartFailsKeeps ==
  ASSUME BackendInv, NEW m \in Messages, StartFails(m)
  PROVE  BackendInv'
<1>a. 0 .. 2 = {0, 1, 2}
  OBVIOUS
<1> USE FlavorsAssumption, NoneAssumption, LinesAssumption DEF BackendInv, Children
<1>1. TypeOK'
  BY <1>a DEF StartFails, Begins, Ending, Goes, Crossed, pi, TypeOK, Stages, Active, Left,
         ChildState, GenState
<1>2. Stages'
  BY DEF StartFails, Begins, Ending, Goes, Crossed, pi, Stages, TypeOK,
         ChildState, GenState
<1>3. PiStages'
  BY DEF StartFails, Begins, Ending, Goes, Crossed, pi, PiStages, Stages,
         TypeOK, Active, Left, ChildState, GenState
<1>4. OneEnding'
  BY DEF StartFails, Begins, Ending, Goes, Crossed, pi, OneEnding, Stages,
         SlotIsOwn, TypeOK, ChildState, GenState
<1>5. OverlapIsLoose'
  BY DEF StartFails, Begins, Ending, Goes, Crossed, pi, OverlapIsLoose, TypeOK,
         Active, Left, ChildState, GenState
<1>6. SlotHoldsChild'
  BY DEF StartFails, Begins, Ending, Goes, Crossed, pi, SlotHoldsChild,
         OverlapIsLoose, SlotIsOwn, AbortsReach, Stages, PiStages, TypeOK,
         Active, Left, ChildState, GenState
<1>7. SlotIsOwn'
  BY DEF StartFails, Begins, Ending, Goes, Crossed, pi, SlotIsOwn,
         OverlapIsLoose, Stages, TypeOK, Active, Left, ChildState, GenState
<1>8. AbortsReach'
  BY DEF StartFails, Begins, Ending, Goes, Crossed, pi, AbortsReach,
         SlotHoldsChild, OverlapIsLoose, Stages, TypeOK, Active, Left, ChildState,
         GenState
<1> QED BY <1>1, <1>2, <1>3, <1>4, <1>5, <1>6, <1>7, <1>8

LEMMA WritePromptKeeps ==
  ASSUME BackendInv, NEW m \in Messages, WritePrompt(m)
  PROVE  BackendInv'
<1>a. 0 .. 2 = {0, 1, 2}
  OBVIOUS
<1> USE FlavorsAssumption, NoneAssumption, LinesAssumption DEF BackendInv, Children
<1>1. TypeOK'
  BY <1>a DEF WritePrompt, Begins, Goes, Crossed, pi, TypeOK, Stages, Active, Left,
         ChildState, GenState
<1>2. Stages'
  BY DEF WritePrompt, Begins, Goes, Crossed, pi, Stages, TypeOK, ChildState,
         GenState
<1>3. PiStages'
  BY DEF WritePrompt, Begins, Goes, Crossed, pi, PiStages, Stages, TypeOK,
         Active, Left, ChildState, GenState
<1>4. OneEnding'
  BY DEF WritePrompt, Begins, Goes, Crossed, pi, OneEnding, Stages, SlotIsOwn,
         TypeOK, ChildState, GenState
<1>5. OverlapIsLoose'
  BY DEF WritePrompt, Begins, Goes, Crossed, pi, OverlapIsLoose, TypeOK,
         Active, Left, ChildState, GenState
<1>6. SlotHoldsChild'
  BY DEF WritePrompt, Begins, Goes, Crossed, pi, SlotHoldsChild,
         OverlapIsLoose, SlotIsOwn, AbortsReach, Stages, PiStages, TypeOK,
         Active, Left, ChildState, GenState
<1>7. SlotIsOwn'
  BY DEF WritePrompt, Begins, Goes, Crossed, pi, SlotIsOwn, OverlapIsLoose,
         Stages, TypeOK, Active, Left, ChildState, GenState
<1>8. AbortsReach'
  BY DEF WritePrompt, Begins, Goes, Crossed, pi, AbortsReach, SlotHoldsChild,
         OverlapIsLoose, Stages, TypeOK, Active, Left, ChildState, GenState
<1> QED BY <1>1, <1>2, <1>3, <1>4, <1>5, <1>6, <1>7, <1>8

LEMMA PromptWrittenKeeps ==
  ASSUME BackendInv, NEW m \in Messages, PromptWritten(m)
  PROVE  BackendInv'
<1>a. 0 .. 2 = {0, 1, 2}
  OBVIOUS
<1> USE FlavorsAssumption, NoneAssumption, LinesAssumption DEF BackendInv, Children
<1>1. TypeOK'
  BY <1>a DEF PromptWritten, Spawn, Becomes, Goes, pi, TypeOK, Stages, Active, Left,
         ChildState, GenState
<1>2. Stages'
  BY DEF PromptWritten, Spawn, Becomes, Goes, pi, Stages, TypeOK, ChildState,
         GenState
<1>3. PiStages'
  BY DEF PromptWritten, Spawn, Becomes, Goes, pi, PiStages, Stages, TypeOK,
         Active, Left, ChildState, GenState
<1>4. OneEnding'
  BY DEF PromptWritten, Spawn, Becomes, Goes, pi, OneEnding, Stages, SlotIsOwn,
         TypeOK, ChildState, GenState
<1>5. OverlapIsLoose'
  BY DEF PromptWritten, Spawn, Becomes, Goes, pi, OverlapIsLoose, TypeOK,
         Active, Left, ChildState, GenState
<1>6. SlotHoldsChild'
  BY DEF PromptWritten, Spawn, Becomes, Goes, pi, SlotHoldsChild,
         OverlapIsLoose, SlotIsOwn, AbortsReach, Stages, PiStages, TypeOK,
         Active, Left, ChildState, GenState
<1>7. SlotIsOwn'
  BY DEF PromptWritten, Spawn, Becomes, Goes, pi, SlotIsOwn, OverlapIsLoose,
         Stages, TypeOK, Active, Left, ChildState, GenState
<1>8. AbortsReach'
  BY DEF PromptWritten, Spawn, Becomes, Goes, pi, AbortsReach, SlotHoldsChild,
         OverlapIsLoose, Stages, TypeOK, Active, Left, ChildState, GenState
<1> QED BY <1>1, <1>2, <1>3, <1>4, <1>5, <1>6, <1>7, <1>8

LEMMA StartPiKeeps ==
  ASSUME BackendInv, NEW m \in Messages, StartPi(m)
  PROVE  BackendInv'
<1>a. 0 .. 2 = {0, 1, 2}
  OBVIOUS
<1> USE FlavorsAssumption, NoneAssumption, LinesAssumption DEF BackendInv, Children
<1>1. TypeOK'
  <2>1. loose' \subseteq Messages
    BY DEF StartPi, Crossed, Active, Left, TypeOK
  <2>2. todo' \in Seq(Messages) /\ ensured' \in BOOLEAN
    <3>1. <<m>> \in Seq(Messages) /\ Append(todo, m) \in Seq(Messages)
      BY DEF TypeOK
    <3> QED BY <3>1 DEF StartPi, TypeOK
  <2>3. /\ slot' \in Messages \union {None} /\ child' \in [Messages -> ChildState]
        /\ gen' \in [Messages -> GenState] /\ ends' \in [Messages -> 0 .. 2]
    <3>1. ends[m] = 0
      BY DEF StartPi, Begins, Stages
    <3>2. child' \in [Messages -> ChildState] /\ slot' \in Messages \union {None}
      BY DEF StartPi, Spawn, Becomes, TypeOK, ChildState
    <3>3. gen' \in [Messages -> GenState]
      BY DEF StartPi, Spawn, Goes, TypeOK, GenState
    <3>4. PICK k \in 0 .. 2 : ends' = [ends EXCEPT ![m] = k] \/ ends' = ends
      BY <3>1 DEF StartPi, Ending
    <3>5. ends' \in [Messages -> 0 .. 2]
      BY <3>4 DEF TypeOK
    <3> QED BY <3>2, <3>3, <3>5
  <2> QED BY <2>1, <2>2, <2>3 DEF StartPi, TypeOK
<1>2. Stages'
  BY DEF StartPi, Begins, Spawn, Ending, Becomes, Goes, Crossed, Stages,
         TypeOK, ChildState, GenState
<1>3. PiStages'
  BY DEF StartPi, Begins, Spawn, Ending, Becomes, Goes, Crossed, PiStages,
         Stages, TypeOK, Active, Left, ChildState, GenState
<1>4. OneEnding'
  <2>1. flavor' = flavor /\ alive' = alive /\ loose \subseteq loose'
    BY DEF StartPi, Crossed
  <2>2. \/ gen' = [gen EXCEPT ![m] = "reading"] /\ ends' = ends
        \/ gen' = [gen EXCEPT ![m] = "done"] /\ ends' = [ends EXCEPT ![m] = @ + 1]
    BY DEF StartPi, Spawn, Goes, Ending
  <2>3. ends[m] = 0 /\ gen \in [Messages -> GenState] /\ ends \in [Messages -> 0 .. 2]
    BY DEF StartPi, Begins, Stages, TypeOK
  <2>4. /\ gen'[m] = "reading" \/ (gen'[m] = "done" /\ ends'[m] = 1)
        /\ ends'[m] \in {0, 1}
        /\ \A n \in Messages \ {m} : gen'[n] = gen[n] /\ ends'[n] = ends[n]
    BY <2>2, <2>3
  <2>5. ASSUME NEW n \in Messages
        PROVE  /\ gen'[n] = "done" => ends'[n] >= 1
               /\ ends'[n] > 1 => flavor' = "gemini" /\ (n \in loose' \/ ~alive')
    <3>1. CASE n = m
      BY <2>4, <3>1
    <3>2. CASE n # m
      BY <2>1, <2>4, <3>2 DEF OneEnding
    <3> QED BY <3>1, <3>2
  <2> QED BY <2>5 DEF OneEnding
<1>5. OverlapIsLoose'
  BY DEF StartPi, Begins, Spawn, Ending, Becomes, Goes, Crossed,
         OverlapIsLoose, TypeOK, Active, Left, ChildState, GenState
<1>6. SlotHoldsChild'
  BY DEF StartPi, Begins, Spawn, Ending, Becomes, Goes, Crossed,
         SlotHoldsChild, OverlapIsLoose, SlotIsOwn, AbortsReach, Stages,
         PiStages, TypeOK, Active, Left, ChildState, GenState
<1>7. SlotIsOwn'
  BY DEF StartPi, Begins, Spawn, Ending, Becomes, Goes, Crossed, SlotIsOwn,
         OverlapIsLoose, Stages, TypeOK, Active, Left, ChildState, GenState
<1>8. AbortsReach'
  BY DEF StartPi, Begins, Spawn, Ending, Becomes, Goes, Crossed, AbortsReach,
         SlotHoldsChild, OverlapIsLoose, Stages, TypeOK, Active, Left, ChildState,
         GenState
<1> QED BY <1>1, <1>2, <1>3, <1>4, <1>5, <1>6, <1>7, <1>8

LEMMA LineAbortedKeeps ==
  ASSUME BackendInv, NEW m \in Messages, LineAborted(m)
  PROVE  BackendInv'
<1>a. 0 .. 2 = {0, 1, 2}
  OBVIOUS
<1> USE FlavorsAssumption, NoneAssumption, LinesAssumption DEF BackendInv, Children
<1>1. TypeOK'
  BY <1>a DEF LineAborted, Reads, Ending, Goes, Release, Becomes, pi, TypeOK,
         Stages, Active, Left, ChildState, GenState
<1>2. Stages'
  BY DEF LineAborted, Reads, Ending, Goes, Release, Becomes, pi, Stages,
         TypeOK, ChildState, GenState
<1>3. PiStages'
  BY DEF LineAborted, Reads, Ending, Goes, Release, Becomes, pi, PiStages,
         Stages, TypeOK, Active, Left, ChildState, GenState
<1>4. OneEnding'
  BY DEF LineAborted, Reads, Ending, Goes, Release, Becomes, pi, OneEnding,
         Stages, SlotIsOwn, TypeOK, ChildState, GenState
<1>5. OverlapIsLoose'
  BY DEF LineAborted, Reads, Ending, Goes, Release, Becomes, pi,
         OverlapIsLoose, TypeOK, Active, Left, ChildState, GenState
<1>6. SlotHoldsChild'
  BY DEF LineAborted, Reads, Ending, Goes, Release, Becomes, pi,
         SlotHoldsChild, OverlapIsLoose, SlotIsOwn, AbortsReach, Stages,
         PiStages, TypeOK, Active, Left, ChildState, GenState
<1>7. SlotIsOwn'
  BY DEF LineAborted, Reads, Ending, Goes, Release, Becomes, pi, SlotIsOwn,
         OverlapIsLoose, Stages, TypeOK, Active, Left, ChildState, GenState
<1>8. AbortsReach'
  BY DEF LineAborted, Reads, Ending, Goes, Release, Becomes, pi, AbortsReach,
         SlotHoldsChild, OverlapIsLoose, Stages, TypeOK, Active, Left, ChildState,
         GenState
<1> QED BY <1>1, <1>2, <1>3, <1>4, <1>5, <1>6, <1>7, <1>8

LEMMA LineKeeps ==
  ASSUME BackendInv, NEW m \in Messages, Line(m)
  PROVE  BackendInv'
<1>a. 0 .. 2 = {0, 1, 2}
  OBVIOUS
<1> USE FlavorsAssumption, NoneAssumption, LinesAssumption DEF BackendInv, Children
<1>1. TypeOK'
  <2>1. native' \in BOOLEAN
    BY DEF Line, Event, TypeOK
  <2>2. lines' \in [Messages -> 0 .. MaxLines]
    BY DEF Line, Event, TypeOK
  <2> QED BY <2>1, <2>2 DEF Line, Event, pi, TypeOK
<1>2. Stages'
  BY DEF Line, Event, Reads, pi, Stages, TypeOK, ChildState, GenState
<1>3. PiStages'
  BY DEF Line, Event, Reads, pi, PiStages, Stages, TypeOK, Active, Left, ChildState,
         GenState
<1>4. OneEnding'
  BY DEF Line, Event, Reads, pi, OneEnding, Stages, SlotIsOwn, TypeOK, ChildState,
         GenState
<1>5. OverlapIsLoose'
  BY DEF Line, Event, Reads, pi, OverlapIsLoose, TypeOK, Active, Left, ChildState, GenState
<1>6. SlotHoldsChild'
  BY DEF Line, Event, Reads, pi, SlotHoldsChild, OverlapIsLoose, SlotIsOwn,
         AbortsReach, Stages, PiStages, TypeOK, Active, Left, ChildState, GenState
<1>7. SlotIsOwn'
  BY DEF Line, Event, Reads, pi, SlotIsOwn, OverlapIsLoose, Stages, TypeOK, Active, Left,
         ChildState, GenState
<1>8. AbortsReach'
  BY DEF Line, Event, Reads, pi, AbortsReach, SlotHoldsChild, OverlapIsLoose, Stages,
         TypeOK, Active, Left, ChildState, GenState
<1> QED BY <1>1, <1>2, <1>3, <1>4, <1>5, <1>6, <1>7, <1>8

LEMMA ResultLineKeeps ==
  ASSUME BackendInv, NEW m \in Messages, ResultLine(m)
  PROVE  BackendInv'
<1>a. 0 .. 2 = {0, 1, 2}
  OBVIOUS
<1> USE FlavorsAssumption, NoneAssumption, LinesAssumption DEF BackendInv, Children
<1>1. TypeOK'
  <2>1. native' \in BOOLEAN
    BY DEF ResultLine, LastEvent, TypeOK
  <2>2. waits' \in [Messages -> Messages \union {None}]
    BY DEF ResultLine, LastEvent, Await, AwaitedBy, TypeOK
  <2>3. gen' \in [Messages -> GenState]
    BY DEF ResultLine, LastEvent, Await, Goes, TypeOK, GenState
  <2>4. ends' \in [Messages -> 0 .. 2]
    <3>1. ends[m] = 0
      BY DEF ResultLine, LastEvent, Reads, Stages
    <3>2. PICK k \in 0 .. 2 : ends' = [ends EXCEPT ![m] = k]
      BY <3>1 DEF ResultLine, LastEvent, Await
    <3> QED BY <3>2 DEF TypeOK
  <2> QED BY <2>1, <2>2, <2>3, <2>4 DEF ResultLine, LastEvent, pi, TypeOK
<1>b. /\ gen[m] = "reading" /\ ends[m] = 0 /\ flavor \in {"claude", "gemini"}
      /\ flavor' = flavor /\ child' = child
      /\ \/ /\ gen' = [gen EXCEPT ![m] = "done"] /\ ends' = [ends EXCEPT ![m] = 2]
            /\ slot = None /\ flavor = "gemini"
         \/ gen' = [gen EXCEPT ![m] = "exiting"] /\ ends' = [ends EXCEPT ![m] = 1]
  <2>1. gen[m] = "reading" /\ flavor \in {"claude", "gemini"}
    BY DEF ResultLine, LastEvent, Reads
  <2>2. ends[m] = 0
    BY <2>1 DEF Stages
  <2>3. 0 + 1 = 1 /\ 0 + 1 + 1 = 2
    OBVIOUS
  <2>4. AwaitedBy(m) = None => slot = None /\ flavor = "gemini"
    BY <2>1 DEF AwaitedBy
  <2> QED BY <2>1, <2>2, <2>3, <2>4 DEF ResultLine, LastEvent, Await, Goes
<1>2. Stages'
  <2>1. gen \in [Messages -> GenState] /\ ends \in [Messages -> 0 .. 2]
    BY DEF TypeOK
  <2>2. /\ gen'[m] \in {"done", "exiting"} /\ (gen'[m] = "exiting" => ends'[m] = 1)
        /\ \A n \in Messages \ {m} : gen'[n] = gen[n] /\ ends'[n] = ends[n]
    BY <1>b, <2>1
  <2>3. child' = child /\ flavor' = flavor
    BY <1>b
  <2> QED BY <1>b, <2>2, <2>3 DEF Stages
<1>3. PiStages'
  BY DEF ResultLine, LastEvent, Reads, Await, AwaitedBy, Goes, pi, PiStages, Stages,
         TypeOK, Active, Left, ChildState, GenState
<1>4. OneEnding'
  <2>1. alive' = alive /\ loose' = loose
    BY DEF ResultLine, LastEvent
  <2>2. slot = None /\ m \notin loose => ~alive
    BY <1>b DEF SlotIsOwn, TypeOK
  <2>3. (gen'[m] = "done" /\ ends'[m] = 2 /\ slot = None /\ flavor = "gemini")
           \/ (gen'[m] = "exiting" /\ ends'[m] = 1)
    BY <1>b DEF TypeOK
  <2>4. \A n \in Messages \ {m} : gen'[n] = gen[n] /\ ends'[n] = ends[n]
    BY <1>b DEF TypeOK
  <2>5. ASSUME NEW n \in Messages
        PROVE  /\ gen'[n] = "done" => ends'[n] >= 1
               /\ ends'[n] > 1 => flavor' = "gemini" /\ (n \in loose' \/ ~alive')
    <3>1. CASE n = m
      BY <1>b, <2>1, <2>2, <2>3, <3>1
    <3>2. CASE n # m
      BY <1>b, <2>1, <2>4, <3>2 DEF OneEnding
    <3> QED BY <3>1, <3>2
  <2> QED BY <2>5 DEF OneEnding
<1>5. OverlapIsLoose'
  <2>1. Active' \subseteq Active
    BY DEF ResultLine, LastEvent, Reads, Await, Goes, Active, Left, TypeOK, GenState
  <2>2. Left' \subseteq Left
    BY <1>b DEF Left, TypeOK
  <2>3. loose' = loose
    BY DEF ResultLine, LastEvent
  <2> QED BY <2>1, <2>2, <2>3 DEF OverlapIsLoose
<1>6. SlotHoldsChild'
  BY DEF ResultLine, LastEvent, Reads, Await, AwaitedBy, Goes, pi, SlotHoldsChild,
         OverlapIsLoose, SlotIsOwn, AbortsReach, Stages, PiStages, TypeOK,
         Active, Left, ChildState, GenState
<1>7. SlotIsOwn'
  BY DEF ResultLine, LastEvent, Reads, Await, AwaitedBy, Goes, pi, SlotIsOwn,
         OverlapIsLoose, Stages, TypeOK, Active, Left, ChildState, GenState
<1>8. AbortsReach'
  BY DEF ResultLine, LastEvent, Reads, Await, AwaitedBy, Goes, pi, AbortsReach,
         SlotHoldsChild, OverlapIsLoose, Stages, TypeOK, Active, Left, ChildState,
         GenState
<1> QED BY <1>1, <1>2, <1>3, <1>4, <1>5, <1>6, <1>7, <1>8

LEMMA LeftAtEventKeeps ==
  ASSUME BackendInv, NEW m \in Messages, LeftAtEvent(m)
  PROVE  BackendInv'
<1>a. 0 .. 2 = {0, 1, 2}
  OBVIOUS
<1> USE FlavorsAssumption, NoneAssumption, LinesAssumption DEF BackendInv, Children
<1>1. TypeOK'
  <2>1. lines' \in [Messages -> 0 .. MaxLines]
    BY DEF LeftAtEvent, Event, TypeOK
  <2>2. gen' \in [Messages -> GenState] /\ native' \in BOOLEAN
    BY DEF LeftAtEvent, Event, Goes, TypeOK, GenState
  <2>3. slot' \in Messages \union {None}
    BY DEF LeftAtEvent, TypeOK
  <2> QED BY <2>1, <2>2, <2>3 DEF LeftAtEvent, Event, pi, TypeOK
<1>2. Stages'
  BY DEF LeftAtEvent, Event, Reads, Ending, Goes, pi, Stages, TypeOK, ChildState,
         GenState
<1>3. PiStages'
  BY DEF LeftAtEvent, Event, Reads, Ending, Goes, pi, PiStages, Stages, TypeOK, Active, Left,
         ChildState, GenState
<1>4. OneEnding'
  BY DEF LeftAtEvent, Event, Reads, Ending, Goes, pi, OneEnding, Stages, SlotIsOwn,
         TypeOK, ChildState, GenState
<1>b. /\ Active' = Active \ {m} /\ Left' = Left \union {m} /\ m \in Active
      /\ loose' = loose
  BY DEF LeftAtEvent, Event, Reads, Goes, TypeOK, Active, Left, GenState
<1>5. OverlapIsLoose'
  BY <1>b DEF OverlapIsLoose
<1>6. SlotHoldsChild'
  BY DEF LeftAtEvent, Event, Reads, Ending, Goes, pi, SlotHoldsChild, OverlapIsLoose,
         SlotIsOwn, AbortsReach, Stages, PiStages, TypeOK, Active, Left, ChildState, GenState
<1>7. SlotIsOwn'
  BY DEF LeftAtEvent, Event, Reads, Ending, Goes, pi, SlotIsOwn, OverlapIsLoose, Stages,
         TypeOK, Active, Left, ChildState, GenState
<1>8. AbortsReach'
  BY DEF LeftAtEvent, Event, Reads, Ending, Goes, pi, AbortsReach, SlotHoldsChild,
         OverlapIsLoose, Stages, TypeOK, Active, Left, ChildState, GenState
<1> QED BY <1>1, <1>2, <1>3, <1>4, <1>5, <1>6, <1>7, <1>8

LEMMA LeftAtEndKeeps ==
  ASSUME BackendInv, NEW m \in Messages, LeftAtEnd(m)
  PROVE  BackendInv'
<1>a. 0 .. 2 = {0, 1, 2}
  OBVIOUS
<1> USE FlavorsAssumption, NoneAssumption, LinesAssumption DEF BackendInv, Children
<1>1. TypeOK'
  BY <1>a DEF LeftAtEnd, LastEvent, Reads, Ending, Goes, pi, TypeOK, Stages, Active, Left,
         ChildState, GenState
<1>2. Stages'
  BY DEF LeftAtEnd, LastEvent, Reads, Ending, Goes, pi, Stages, TypeOK, ChildState,
         GenState
<1>3. PiStages'
  BY DEF LeftAtEnd, LastEvent, Reads, Ending, Goes, pi, PiStages, Stages, TypeOK, Active, Left,
         ChildState, GenState
<1>4. OneEnding'
  BY DEF LeftAtEnd, LastEvent, Reads, Ending, Goes, pi, OneEnding, Stages, SlotIsOwn,
         TypeOK, ChildState, GenState
<1>b. /\ Active' = Active \ {m} /\ Left' = Left \union {m} /\ m \in Active
      /\ loose' = loose
  BY DEF LeftAtEnd, LastEvent, Reads, Goes, TypeOK, Active, Left, GenState
<1>5. OverlapIsLoose'
  BY <1>b DEF OverlapIsLoose
<1>6. SlotHoldsChild'
  BY DEF LeftAtEnd, LastEvent, Reads, Ending, Goes, pi, SlotHoldsChild, OverlapIsLoose,
         SlotIsOwn, AbortsReach, Stages, PiStages, TypeOK, Active, Left, ChildState, GenState
<1>7. SlotIsOwn'
  BY DEF LeftAtEnd, LastEvent, Reads, Ending, Goes, pi, SlotIsOwn, OverlapIsLoose, Stages,
         TypeOK, Active, Left, ChildState, GenState
<1>8. AbortsReach'
  BY DEF LeftAtEnd, LastEvent, Reads, Ending, Goes, pi, AbortsReach, SlotHoldsChild,
         OverlapIsLoose, Stages, TypeOK, Active, Left, ChildState, GenState
<1> QED BY <1>1, <1>2, <1>3, <1>4, <1>5, <1>6, <1>7, <1>8

LEMMA ResponseEndsKeeps ==
  ASSUME BackendInv, NEW m \in Messages, ResponseEnds(m)
  PROVE  BackendInv'
<1>a. 0 .. 2 = {0, 1, 2}
  OBVIOUS
<1> USE FlavorsAssumption, NoneAssumption, LinesAssumption DEF BackendInv, Children
<1>1. TypeOK'
  <2>1. ends[m] = 0 /\ ends \in [Messages -> 0 .. 2]
    BY DEF ResponseEnds, Reads, Stages, TypeOK
  <2>2. ends' \in [Messages -> 0 .. 2]
    BY <1>a, <2>1 DEF ResponseEnds, Ending
  <2>3. gen' \in [Messages -> GenState]
    BY DEF ResponseEnds, Goes, TypeOK, GenState
  <2>4. slot' \in Messages \union {None} /\ child' \in [Messages -> ChildState]
    BY DEF ResponseEnds, Release, Becomes, TypeOK, ChildState
  <2> QED BY <2>2, <2>3, <2>4 DEF ResponseEnds, pi, TypeOK
<1>2. Stages'
  BY DEF ResponseEnds, Reads, Ending, Goes, Release, Becomes, pi, Stages,
         TypeOK, ChildState, GenState
<1>3. PiStages'
  BY DEF ResponseEnds, Reads, Ending, Goes, Release, Becomes, pi, PiStages,
         Stages, TypeOK, Active, Left, ChildState, GenState
<1>4. OneEnding'
  BY DEF ResponseEnds, Reads, Ending, Goes, Release, Becomes, pi, OneEnding,
         Stages, SlotIsOwn, TypeOK, ChildState, GenState
<1>5. OverlapIsLoose'
  BY DEF ResponseEnds, Reads, Ending, Goes, Release, Becomes, pi,
         OverlapIsLoose, TypeOK, Active, Left, ChildState, GenState
<1>6. SlotHoldsChild'
  BY DEF ResponseEnds, Reads, Ending, Goes, Release, Becomes, pi,
         SlotHoldsChild, OverlapIsLoose, SlotIsOwn, AbortsReach, Stages,
         PiStages, TypeOK, Active, Left, ChildState, GenState
<1>7. SlotIsOwn'
  BY DEF ResponseEnds, Reads, Ending, Goes, Release, Becomes, pi, SlotIsOwn,
         OverlapIsLoose, Stages, TypeOK, Active, Left, ChildState, GenState
<1>8. AbortsReach'
  BY DEF ResponseEnds, Reads, Ending, Goes, Release, Becomes, pi, AbortsReach,
         SlotHoldsChild, OverlapIsLoose, Stages, TypeOK, Active, Left, ChildState,
         GenState
<1> QED BY <1>1, <1>2, <1>3, <1>4, <1>5, <1>6, <1>7, <1>8

LEMMA EndOfOutputKeeps ==
  ASSUME BackendInv, NEW m \in Messages, EndOfOutput(m)
  PROVE  BackendInv'
<1>a. 0 .. 2 = {0, 1, 2}
  OBVIOUS
<1> USE FlavorsAssumption, NoneAssumption, LinesAssumption DEF BackendInv, Children
<1>1. TypeOK'
  <2>1. native' \in BOOLEAN
    BY DEF EndOfOutput, TypeOK
  <2>2. waits' \in [Messages -> Messages \union {None}]
    BY DEF EndOfOutput, Await, AwaitedBy, TypeOK
  <2>3. gen' \in [Messages -> GenState]
    BY DEF EndOfOutput, Await, Goes, TypeOK, GenState
  <2>4. ends' \in [Messages -> 0 .. 2]
    <3>1. ends[m] = 0
      BY DEF EndOfOutput, Reads, Stages
    <3>2. PICK k \in 0 .. 2 : ends' = [ends EXCEPT ![m] = k]
      BY <3>1 DEF EndOfOutput, Await
    <3> QED BY <3>2 DEF TypeOK
  <2> QED BY <2>1, <2>2, <2>3, <2>4 DEF EndOfOutput, pi, TypeOK
<1>2. Stages'
  BY DEF EndOfOutput, Reads, Await, AwaitedBy, Goes, pi, Stages, TypeOK,
         ChildState, GenState
<1>3. PiStages'
  BY DEF EndOfOutput, Reads, Await, AwaitedBy, Goes, pi, PiStages, Stages,
         TypeOK, Active, Left, ChildState, GenState
<1>4. OneEnding'
  <2>1. CASE AwaitedBy(m) = None
    <3>1. ends[m] = 0
      BY DEF EndOfOutput, Reads, Stages
    <3>2. gen' = [gen EXCEPT ![m] = "done"] /\ ends' = [ends EXCEPT ![m] = 1]
      BY <2>1, <3>1 DEF EndOfOutput, Await, Goes, TypeOK
    <3> QED BY <3>2 DEF EndOfOutput, OneEnding, TypeOK
  <2>2. CASE AwaitedBy(m) # None
    <3>1. ends' = [ends EXCEPT ![m] = @ + 0] /\ ends \in [Messages -> 0 .. 2]
      BY <2>2 DEF EndOfOutput, Await, TypeOK
    <3>2. ends' = ends
      BY <3>1
    <3>3. gen' = [gen EXCEPT ![m] = "exiting"] /\ gen \in [Messages -> GenState]
      BY <2>2 DEF EndOfOutput, Await, Goes, TypeOK
    <3>4. \A n \in Messages : gen'[n] = "done" => gen[n] = "done"
      BY <3>3
    <3> QED BY <3>2, <3>4 DEF EndOfOutput, OneEnding
  <2> QED BY <2>1, <2>2
<1>5. OverlapIsLoose'
  BY DEF EndOfOutput, Reads, Await, AwaitedBy, Goes, pi, OverlapIsLoose,
         TypeOK, Active, Left, ChildState, GenState
<1>6. SlotHoldsChild'
  BY DEF EndOfOutput, Reads, Await, AwaitedBy, Goes, pi, SlotHoldsChild,
         OverlapIsLoose, SlotIsOwn, AbortsReach, Stages, PiStages, TypeOK,
         Active, Left, ChildState, GenState
<1>7. SlotIsOwn'
  BY DEF EndOfOutput, Reads, Await, AwaitedBy, Goes, pi, SlotIsOwn,
         OverlapIsLoose, Stages, TypeOK, Active, Left, ChildState, GenState
<1>8. AbortsReach'
  BY DEF EndOfOutput, Reads, Await, AwaitedBy, Goes, pi, AbortsReach,
         SlotHoldsChild, OverlapIsLoose, Stages, TypeOK, Active, Left, ChildState,
         GenState
<1> QED BY <1>1, <1>2, <1>3, <1>4, <1>5, <1>6, <1>7, <1>8

LEMMA ExitedKeeps ==
  ASSUME BackendInv, NEW m \in Messages, Exited(m)
  PROVE  BackendInv'
<1>a. 0 .. 2 = {0, 1, 2}
  OBVIOUS
<1> USE FlavorsAssumption, NoneAssumption, LinesAssumption DEF BackendInv, Children
<1>1. TypeOK'
  <2>1. /\ gen' \in [Messages -> GenState] /\ foreign' \subseteq Messages
        /\ slot' \in Messages \union {None}
    BY DEF Exited, Goes, TypeOK, GenState
  <2>2. ends' \in [Messages -> 0 .. 2]
    <3>1. ends \in [Messages -> 0 .. 2]
      BY DEF TypeOK
    <3>2. ends' = ends \/ (ends[m] = 0 /\ ends' = [ends EXCEPT ![m] = @ + 1])
      BY DEF Exited, FinalizeOnce, Ending
    <3> QED BY <1>a, <3>1, <3>2
  <2> QED BY <2>1, <2>2 DEF Exited, pi, TypeOK
<1>2. Stages'
  BY DEF Exited, Goes, FinalizeOnce, Ending, pi, Stages, TypeOK, ChildState,
         GenState
<1>3. PiStages'
  BY DEF Exited, Goes, FinalizeOnce, Ending, pi, PiStages, Stages, TypeOK,
         Active, Left, ChildState, GenState
<1>4. OneEnding'
  BY DEF Exited, Goes, FinalizeOnce, Ending, pi, OneEnding, Stages, SlotIsOwn,
         TypeOK, ChildState, GenState
<1>5. OverlapIsLoose'
  BY DEF Exited, Goes, FinalizeOnce, Ending, pi, OverlapIsLoose, TypeOK,
         Active, Left, ChildState, GenState
<1>6. SlotHoldsChild'
  BY DEF Exited, Goes, FinalizeOnce, Ending, pi, SlotHoldsChild,
         OverlapIsLoose, SlotIsOwn, AbortsReach, Stages, PiStages, TypeOK,
         Active, Left, ChildState, GenState
<1>7. SlotIsOwn'
  BY DEF Exited, Goes, FinalizeOnce, Ending, pi, SlotIsOwn, OverlapIsLoose,
         Stages, TypeOK, Active, Left, ChildState, GenState
<1>8. AbortsReach'
  BY DEF Exited, Goes, FinalizeOnce, Ending, pi, AbortsReach, SlotHoldsChild,
         OverlapIsLoose, Stages, TypeOK, Active, Left, ChildState, GenState
<1> QED BY <1>1, <1>2, <1>3, <1>4, <1>5, <1>6, <1>7, <1>8

LEMMA PrintsKeeps ==
  ASSUME BackendInv, NEW last \in BOOLEAN, Prints(last)
  PROVE  BackendInv'
<1>a. 0 .. 2 = {0, 1, 2}
  OBVIOUS
<1> USE FlavorsAssumption, NoneAssumption, LinesAssumption DEF BackendInv, Children
<1>1. TypeOK'
  <2>1. Head(todo) \in Messages /\ Tail(todo) \in Seq(Messages)
    BY DEF Prints, TypeOK
  <2>2. lines' \in [Messages -> 0 .. MaxLines]
    BY <2>1 DEF Prints, TypeOK
  <2>3. [of |-> Head(todo), last |-> last] \in StdoutLine
    BY <2>1 DEF StdoutLine
  <2>4. pipe' \in Seq(StdoutLine) /\ todo' \in Seq(Messages)
    BY <2>1, <2>3 DEF Prints, TypeOK
  <2> QED BY <2>2, <2>4 DEF Prints, TypeOK
<1>2. Stages'
  BY DEF Prints, Stages, TypeOK,
         ChildState, GenState
<1>3. PiStages'
  BY DEF Prints, PiStages, Stages, TypeOK, Active, Left,
         ChildState, GenState
<1>4. OneEnding'
  BY DEF Prints, OneEnding, Stages, SlotIsOwn, TypeOK,
         ChildState, GenState
<1>5. OverlapIsLoose'
  BY DEF Prints, OverlapIsLoose, TypeOK, Active, Left,
         ChildState, GenState
<1>6. SlotHoldsChild'
  BY DEF Prints, SlotHoldsChild, OverlapIsLoose, SlotIsOwn,
         AbortsReach, Stages, PiStages, TypeOK, Active, Left,
         ChildState, GenState
<1>7. SlotIsOwn'
  BY DEF Prints, SlotIsOwn, OverlapIsLoose, Stages, TypeOK, Active, Left,
         ChildState, GenState
<1>8. AbortsReach'
  BY DEF Prints, AbortsReach, SlotHoldsChild, OverlapIsLoose,
         Stages, TypeOK, Active, Left,
         ChildState, GenState
<1> QED BY <1>1, <1>2, <1>3, <1>4, <1>5, <1>6, <1>7, <1>8

LEMMA PiAbortedKeeps ==
  ASSUME BackendInv, NEW m \in Messages, PiAborted(m)
  PROVE  BackendInv'
<1>a. 0 .. 2 = {0, 1, 2}
  OBVIOUS
<1> USE FlavorsAssumption, NoneAssumption, LinesAssumption DEF BackendInv, Children
<1>1. TypeOK'
  BY <1>a DEF PiAborted, Looks, ReadsPi, Ending, Goes, pi, TypeOK, Stages, GenState
<1>2. Stages'
  BY DEF PiAborted, Looks, ReadsPi, Ending, Goes, pi, Stages, TypeOK,
         ChildState, GenState
<1>3. PiStages'
  BY DEF PiAborted, Looks, ReadsPi, Ending, Goes, pi, PiStages, Stages, TypeOK, Active, Left,
         ChildState, GenState
<1>4. OneEnding'
  BY DEF PiAborted, Looks, ReadsPi, Ending, Goes, pi, OneEnding, Stages, SlotIsOwn, TypeOK,
         ChildState, GenState
<1>5. OverlapIsLoose'
  BY DEF PiAborted, Looks, ReadsPi, Ending, Goes, pi, OverlapIsLoose, TypeOK, Active, Left,
         ChildState, GenState
<1>6. SlotHoldsChild'
  BY DEF PiAborted, Looks, ReadsPi, Ending, Goes, pi, SlotHoldsChild, OverlapIsLoose, SlotIsOwn,
         AbortsReach, Stages, PiStages, TypeOK, Active, Left,
         ChildState, GenState
<1>7. SlotIsOwn'
  BY DEF PiAborted, Looks, ReadsPi, Ending, Goes, pi, SlotIsOwn, OverlapIsLoose, Stages, TypeOK, Active, Left,
         ChildState, GenState
<1>8. AbortsReach'
  BY DEF PiAborted, Looks, ReadsPi, Ending, Goes, pi, AbortsReach, SlotHoldsChild, OverlapIsLoose,
         Stages, TypeOK, Active, Left,
         ChildState, GenState
<1> QED BY <1>1, <1>2, <1>3, <1>4, <1>5, <1>6, <1>7, <1>8

LEMMA PiAwaitsKeeps ==
  ASSUME BackendInv, NEW m \in Messages, PiAwaits(m)
  PROVE  BackendInv'
<1>a. 0 .. 2 = {0, 1, 2}
  OBVIOUS
<1> USE FlavorsAssumption, NoneAssumption, LinesAssumption DEF BackendInv, Children
<1>1. TypeOK'
  BY DEF PiAwaits, TypeOK
<1>2. Stages'
  BY DEF PiAwaits, Stages, TypeOK,
         ChildState, GenState
<1>3. PiStages'
  BY DEF PiAwaits, PiStages, Stages, TypeOK, Active, Left,
         ChildState, GenState
<1>4. OneEnding'
  BY DEF PiAwaits, OneEnding, Stages, SlotIsOwn, TypeOK,
         ChildState, GenState
<1>5. OverlapIsLoose'
  BY DEF PiAwaits, OverlapIsLoose, TypeOK, Active, Left,
         ChildState, GenState
<1>6. SlotHoldsChild'
  BY DEF PiAwaits, SlotHoldsChild, OverlapIsLoose, SlotIsOwn,
         AbortsReach, Stages, PiStages, TypeOK, Active, Left,
         ChildState, GenState
<1>7. SlotIsOwn'
  BY DEF PiAwaits, SlotIsOwn, OverlapIsLoose, Stages, TypeOK, Active, Left,
         ChildState, GenState
<1>8. AbortsReach'
  BY DEF PiAwaits, AbortsReach, SlotHoldsChild, OverlapIsLoose,
         Stages, TypeOK, Active, Left,
         ChildState, GenState
<1> QED BY <1>1, <1>2, <1>3, <1>4, <1>5, <1>6, <1>7, <1>8

LEMMA TakesFirstKeeps ==
  ASSUME BackendInv, NEW m \in Messages, NEW leaves \in BOOLEAN, NEW all \in Seq(StdoutLine),
         all # <<>>, ReadsPi(m), TakesFirst(m, all, leaves), pipe' \in {pipe, <<>>}
  PROVE  BackendInv'
<1>a. 0 .. 2 = {0, 1, 2}
  OBVIOUS
<1> USE FlavorsAssumption, NoneAssumption, LinesAssumption DEF BackendInv, Children
<1>1. TypeOK'
  <2>1. Tail(all) \in Seq(StdoutLine) /\ Head(all) \in StdoutLine
    OBVIOUS
  <2>2. pipe' \in Seq(StdoutLine) /\ lineBuffer' \in Seq(StdoutLine)
    <3>1. lineBuffer' = Tail(all) /\ pipe \in Seq(StdoutLine)
      BY DEF TakesFirst, TypeOK
    <3>2. <<>> \in Seq(StdoutLine)
      OBVIOUS
    <3> QED BY <2>1, <3>1, <3>2
  <2>3. gen' \in [Messages -> GenState] /\ ends' \in [Messages -> 0 .. 2]
    <3>1. ends[m] = 0
      BY DEF ReadsPi, Stages
    <3>2. PICK k \in 0 .. 2 : ends' = [ends EXCEPT ![m] = k] \/ ends' = ends
      BY <3>1 DEF TakesFirst, Ending
    <3>3. ends' \in [Messages -> 0 .. 2]
      <4>1. ends \in [Messages -> 0 .. 2]
        BY DEF TypeOK
      <4> QED BY <3>2, <4>1
    <3> QED BY <3>3 DEF TakesFirst, Goes, TypeOK, GenState
  <2>4. reads' \subseteq Messages /\ foreign' \subseteq Messages
    BY DEF TakesFirst, TypeOK
  <2> QED BY <2>2, <2>3, <2>4 DEF TakesFirst, TypeOK
<1>2. Stages'
  BY DEF TakesFirst, ReadsPi, Ending, Goes, Stages, TypeOK,
         ChildState, GenState
<1>3. PiStages'
  BY DEF TakesFirst, ReadsPi, Ending, Goes, PiStages, Stages, TypeOK, Active, Left,
         ChildState, GenState
<1>b. /\ gen[m] = "reading" /\ ends[m] = 0 /\ m \in Active
      /\ gen \in [Messages -> GenState] /\ ends \in [Messages -> 0 .. 2]
  BY DEF ReadsPi, Stages, Active, TypeOK
<1>c. \/ gen' = [gen EXCEPT ![m] = "done"] /\ ends' = [ends EXCEPT ![m] = @ + 1]
      \/ gen' = [gen EXCEPT ![m] = "left"] /\ ends' = ends
      \/ gen' = gen /\ ends' = ends
  BY DEF TakesFirst, Goes, Ending
<1>d. loose' = loose /\ alive' = alive /\ flavor' = flavor
  BY DEF TakesFirst
<1>4. OneEnding'
  <2>1. /\ gen'[m] = "done" => ends'[m] = 1
        /\ ends'[m] \in {0, 1}
        /\ \A n \in Messages \ {m} : gen'[n] = gen[n] /\ ends'[n] = ends[n]
    BY <1>b, <1>c
  <2>2. ASSUME NEW n \in Messages
        PROVE  /\ gen'[n] = "done" => ends'[n] >= 1
               /\ ends'[n] > 1 => flavor' = "gemini" /\ (n \in loose' \/ ~alive')
    <3>1. CASE n = m
      BY <2>1, <3>1
    <3>2. CASE n # m
      BY <1>d, <2>1, <3>2 DEF OneEnding
    <3> QED BY <3>1, <3>2
  <2> QED BY <2>2 DEF OneEnding
<1>5. OverlapIsLoose'
  <2>1. Active' \subseteq Active
    BY <1>b, <1>c DEF Active, Left
  <2>2. Left' \subseteq Left \union {m}
    BY <1>b, <1>c DEF Left
  <2> QED BY <1>b, <1>d, <2>1, <2>2 DEF OverlapIsLoose
<1>6. SlotHoldsChild'
  BY DEF TakesFirst, ReadsPi, Ending, Goes, SlotHoldsChild, OverlapIsLoose, SlotIsOwn,
         AbortsReach, Stages, PiStages, TypeOK, Active, Left,
         ChildState, GenState
<1>7. SlotIsOwn'
  BY DEF TakesFirst, ReadsPi, Ending, Goes, SlotIsOwn, OverlapIsLoose, Stages, TypeOK, Active, Left,
         ChildState, GenState
<1>8. AbortsReach'
  BY DEF TakesFirst, ReadsPi, Ending, Goes, AbortsReach, SlotHoldsChild, OverlapIsLoose,
         Stages, TypeOK, Active, Left,
         ChildState, GenState
<1> QED BY <1>1, <1>2, <1>3, <1>4, <1>5, <1>6, <1>7, <1>8

LEMMA FromKeeps ==
  ASSUME BackendInv, NEW m \in Messages, NEW leaves \in BOOLEAN,
         FromBuffer(m, leaves) \/ FromPipe(m, leaves)
  PROVE  BackendInv'
<1>1. lineBuffer \in Seq(StdoutLine) /\ pipe \in Seq(StdoutLine) /\ ReadsPi(m)
  BY DEF BackendInv, TypeOK, FromBuffer, FromPipe, Looks
<1>2. CASE FromBuffer(m, leaves)
  BY <1>1, <1>2, TakesFirstKeeps DEF FromBuffer
<1>3. CASE FromPipe(m, leaves)
  <2>1. lineBuffer \o pipe \in Seq(StdoutLine)
    BY <1>1
  <2>2. lineBuffer \o pipe # <<>>
    <3>1. pipe # <<>>
      BY <1>3 DEF FromPipe
    <3>2. Len(pipe) > 0 /\ Len(lineBuffer \o pipe) = Len(lineBuffer) + Len(pipe)
      BY <1>1, <3>1
    <3>3. Len(lineBuffer) \in Nat
      BY <1>1
    <3> QED BY <3>2, <3>3
  <2> QED BY <1>1, <1>3, <2>1, <2>2, TakesFirstKeeps DEF FromPipe
<1> QED BY <1>2, <1>3

LEMMA PiClosedKeeps ==
  ASSUME BackendInv, NEW m \in Messages, PiClosed(m)
  PROVE  BackendInv'
<1>a. 0 .. 2 = {0, 1, 2}
  OBVIOUS
<1> USE FlavorsAssumption, NoneAssumption, LinesAssumption DEF BackendInv, Children
<1>1. TypeOK'
  BY <1>a DEF PiClosed, ReadsPi, Ending, Goes, pi, TypeOK,
         Stages, Active, Left, ChildState, GenState
<1>2. Stages'
  BY DEF PiClosed, ReadsPi, Ending, Goes, pi, Stages,
         TypeOK, ChildState, GenState
<1>3. PiStages'
  BY DEF PiClosed, ReadsPi, Ending, Goes, pi,
         PiStages, Stages, TypeOK, Active, Left, ChildState, GenState
<1>4. OneEnding'
  BY DEF PiClosed, ReadsPi, Ending, Goes, pi,
         OneEnding, Stages, SlotIsOwn, TypeOK, ChildState, GenState
<1>5. OverlapIsLoose'
  BY DEF PiClosed, ReadsPi, Ending, Goes, pi,
         OverlapIsLoose, TypeOK, Active, Left, ChildState, GenState
<1>6. SlotHoldsChild'
  BY DEF PiClosed, ReadsPi, Ending, Goes, pi,
         SlotHoldsChild, OverlapIsLoose, SlotIsOwn, AbortsReach, Stages,
         PiStages, TypeOK, Active, Left, ChildState, GenState
<1>7. SlotIsOwn'
  BY DEF PiClosed, ReadsPi, Ending, Goes, pi,
         SlotIsOwn, OverlapIsLoose, Stages, TypeOK, Active, Left, ChildState,
         GenState
<1>8. AbortsReach'
  BY DEF PiClosed, ReadsPi, Ending, Goes, pi,
         AbortsReach, SlotHoldsChild, OverlapIsLoose, Stages, TypeOK, Active, Left,
         ChildState, GenState
<1> QED BY <1>1, <1>2, <1>3, <1>4, <1>5, <1>6, <1>7, <1>8

LEMMA ChildExitsKeeps ==
  ASSUME BackendInv, NEW m \in Messages, ChildExits(m)
  PROVE  BackendInv'
<1>a. 0 .. 2 = {0, 1, 2}
  OBVIOUS
<1> USE FlavorsAssumption, NoneAssumption, LinesAssumption DEF BackendInv, Children
<1>1. TypeOK'
  BY <1>a DEF ChildExits, Becomes, pi, TypeOK, Stages, Active, Left, ChildState, GenState
<1>2. Stages'
  BY DEF ChildExits, Becomes, pi, Stages, TypeOK, ChildState, GenState
<1>3. PiStages'
  BY DEF ChildExits, Becomes, pi, PiStages, Stages, TypeOK, Active, Left, ChildState,
         GenState
<1>4. OneEnding'
  BY DEF ChildExits, Becomes, pi, OneEnding, Stages, SlotIsOwn, TypeOK,
         ChildState, GenState
<1>5. OverlapIsLoose'
  BY DEF ChildExits, Becomes, pi, OverlapIsLoose, TypeOK, Active, Left, ChildState,
         GenState
<1>6. SlotHoldsChild'
  BY DEF ChildExits, Becomes, pi, SlotHoldsChild, OverlapIsLoose, SlotIsOwn,
         AbortsReach, Stages, PiStages, TypeOK, Active, Left, ChildState, GenState
<1>7. SlotIsOwn'
  BY DEF ChildExits, Becomes, pi, SlotIsOwn, OverlapIsLoose, Stages, TypeOK,
         Active, Left, ChildState, GenState
<1>8. AbortsReach'
  BY DEF ChildExits, Becomes, pi, AbortsReach, SlotHoldsChild, OverlapIsLoose,
         Stages, TypeOK, Active, Left, ChildState, GenState
<1> QED BY <1>1, <1>2, <1>3, <1>4, <1>5, <1>6, <1>7, <1>8

LEMMA AbortKeeps ==
  ASSUME BackendInv, NEW m \in Messages, Abort(m)
  PROVE  BackendInv'
<1>a. 0 .. 2 = {0, 1, 2}
  OBVIOUS
<1> USE FlavorsAssumption, NoneAssumption, LinesAssumption DEF BackendInv, Children
<1>1. TypeOK'
  <2>1. child' \in [Messages -> ChildState]
    BY DEF Abort, OnAbort, AbortSlot, Kill, TypeOK, ChildState
  <2> QED BY <2>1 DEF Abort, pi, TypeOK
<1>2. Stages'
  BY DEF Abort, OnAbort, AbortSlot, Kill, pi, Stages, TypeOK, ChildState,
         GenState
<1>3. PiStages'
  BY DEF Abort, OnAbort, AbortSlot, Kill, pi, PiStages, Stages, TypeOK, Active, Left,
         ChildState, GenState
<1>4. OneEnding'
  BY DEF Abort, OnAbort, AbortSlot, Kill, pi, OneEnding, Stages, SlotIsOwn,
         TypeOK, ChildState, GenState
<1>5. OverlapIsLoose'
  BY DEF Abort, OnAbort, AbortSlot, Kill, pi, OverlapIsLoose, TypeOK, Active, Left,
         ChildState, GenState
<1>6. SlotHoldsChild'
  BY DEF Abort, OnAbort, AbortSlot, Kill, pi, SlotHoldsChild, OverlapIsLoose,
         SlotIsOwn, AbortsReach, Stages, PiStages, TypeOK, Active, Left, ChildState,
         GenState
<1>7. SlotIsOwn'
  BY DEF Abort, OnAbort, AbortSlot, Kill, pi, SlotIsOwn, OverlapIsLoose,
         Stages, TypeOK, Active, Left, ChildState, GenState
<1>8. AbortsReach'
  BY DEF Abort, OnAbort, AbortSlot, Kill, pi, AbortsReach, SlotHoldsChild,
         OverlapIsLoose, Stages, TypeOK, Active, Left, ChildState, GenState
<1> QED BY <1>1, <1>2, <1>3, <1>4, <1>5, <1>6, <1>7, <1>8

LEMMA StopKeeps ==
  ASSUME BackendInv, Stop
  PROVE  BackendInv'
<1> USE FlavorsAssumption, NoneAssumption, LinesAssumption DEF BackendInv, Children
<1>1. TypeOK'
  BY DEF Stop, Kill, pi, TypeOK, Stages, Active, Left, ChildState, GenState
<1>2. Stages'
  BY DEF Stop, Kill, pi, Stages, TypeOK, ChildState, GenState
<1>3. PiStages'
  BY DEF Stop, Kill, pi, PiStages, Stages, TypeOK, Active, Left, ChildState, GenState
<1>4. OneEnding'
  BY DEF Stop, Kill, pi, OneEnding, Stages, SlotIsOwn, TypeOK, ChildState,
         GenState
<1>5. OverlapIsLoose'
  BY DEF Stop, Kill, pi, OverlapIsLoose, TypeOK, Active, Left, ChildState, GenState
<1>6. SlotHoldsChild'
  BY DEF Stop, Kill, pi, SlotHoldsChild, OverlapIsLoose, SlotIsOwn,
         AbortsReach, Stages, PiStages, TypeOK, Active, Left, ChildState, GenState
<1>7. SlotIsOwn'
  BY DEF Stop, Kill, pi, SlotIsOwn, OverlapIsLoose, Stages, TypeOK, Active, Left,
         ChildState, GenState
<1>8. AbortsReach'
  BY DEF Stop, Kill, pi, AbortsReach, SlotHoldsChild, OverlapIsLoose, Stages,
         TypeOK, Active, Left, ChildState, GenState
<1> QED BY <1>1, <1>2, <1>3, <1>4, <1>5, <1>6, <1>7, <1>8

-----------------------------------------------------------------------------
LEMMA NextBackend == BackendInv /\ [Next]_vars => BackendInv'
<1> SUFFICES ASSUME BackendInv, [Next]_vars PROVE BackendInv'
  OBVIOUS
<1>1. ASSUME NEW m \in Messages, GoesOn(m) PROVE BackendInv'
  BY <1>1, PromptWrittenKeeps, EndOfOutputKeeps, ExitedKeeps, ResponseEndsKeeps,
     PiAbortedKeeps, PiAwaitsKeeps, PiClosedKeeps, FromKeeps DEF GoesOn
<1>2. ASSUME NEW m \in Messages,
             \/ Refuse(m) \/ StartChild(m) \/ StartFails(m) \/ WritePrompt(m) \/ StartPi(m)
             \/ LineAborted(m) \/ Line(m) \/ ResultLine(m)
             \/ LeftAtEvent(m) \/ LeftAtEnd(m)
             \/ FromBuffer(m, TRUE) \/ FromPipe(m, TRUE) \/ ChildExits(m) \/ Abort(m)
      PROVE  BackendInv'
  BY <1>2, RefuseKeeps, StartChildKeeps, StartFailsKeeps, WritePromptKeeps, StartPiKeeps,
     LineAbortedKeeps, LineKeeps, ResultLineKeeps, LeftAtEventKeeps, LeftAtEndKeeps,
     FromKeeps, ChildExitsKeeps, AbortKeeps
<1>3. CASE UNCHANGED vars
  BY <1>3 DEF vars, pi, BackendInv, TypeOK, Stages, PiStages, OneEnding, Children,
              OverlapIsLoose, SlotHoldsChild, SlotIsOwn, AbortsReach, Active, Left
<1> QED BY <1>1, <1>2, <1>3, PrintsKeeps, StopKeeps DEF Next

-----------------------------------------------------------------------------
(* What pi's child owes, and whose answer a stream reports.                *)

LEMMA StepKeepsHistory ==
  ASSUME BackendInv, [Next]_vars
  PROVE  /\ flavor' = flavor /\ loose \subseteq loose' /\ aborted \subseteq aborted'
         /\ Left \subseteq Left'
<1>1. flavor' = flavor /\ loose \subseteq loose' /\ aborted \subseteq aborted'
  <2>1. ASSUME NEW m \in Messages,
               \/ Refuse(m) \/ StartChild(m) \/ StartFails(m) \/ WritePrompt(m) \/ StartPi(m)
        PROVE  flavor' = flavor /\ loose \subseteq loose' /\ aborted \subseteq aborted'
    BY <2>1 DEF Refuse, StartChild, StartFails, WritePrompt, StartPi, Crossed
  <2>2. ASSUME NEW m \in Messages, GoesOn(m)
        PROVE  flavor' = flavor /\ loose \subseteq loose' /\ aborted \subseteq aborted'
    BY <2>2 DEF GoesOn, PromptWritten, EndOfOutput, Exited, ResponseEnds, PiAborted, PiAwaits,
                PiClosed, FromBuffer, FromPipe, TakesFirst
  <2>3. ASSUME NEW m \in Messages,
               \/ LineAborted(m) \/ Line(m) \/ ResultLine(m) \/ LeftAtEvent(m) \/ LeftAtEnd(m)
               \/ FromBuffer(m, TRUE) \/ FromPipe(m, TRUE) \/ ChildExits(m) \/ Abort(m)
        PROVE  flavor' = flavor /\ loose \subseteq loose' /\ aborted \subseteq aborted'
    BY <2>3 DEF LineAborted, Line, ResultLine, LeftAtEvent, LeftAtEnd, Event, LastEvent,
                FromBuffer, FromPipe, TakesFirst, ChildExits, Abort
  <2>4. CASE Stop \/ (\E last \in BOOLEAN : Prints(last)) \/ UNCHANGED vars
    BY <2>4 DEF Stop, Prints, vars
  <2> QED BY <2>1, <2>2, <2>3, <2>4 DEF Next
<1>2. ASSUME NEW n \in Left PROVE gen'[n] = "left"
  <2>1. n \in Messages /\ gen[n] = "left" /\ gen \in [Messages -> GenState]
    BY DEF Left, BackendInv, TypeOK
  <2>2. gen' = gen \/ \E m \in Messages : gen[m] # "left" /\ \E to \in GenState : Goes(m, to)
    <3>1. ASSUME NEW m \in Messages, GoesOn(m)
          PROVE  gen' = gen \/ (gen[m] # "left" /\ \E to \in GenState : Goes(m, to))
      BY <3>1 DEF GoesOn, PromptWritten, Spawn, EndOfOutput, Reads, Await, Exited, ResponseEnds,
                  PiAborted, Looks, ReadsPi, PiAwaits, PiClosed, FromBuffer, FromPipe, TakesFirst,
                  GenState
    <3>2. ASSUME NEW m \in Messages,
                 \/ Refuse(m) \/ StartChild(m) \/ StartFails(m) \/ WritePrompt(m) \/ StartPi(m)
          PROVE  gen[m] # "left" /\ \E to \in GenState : Goes(m, to)
      BY <3>2 DEF Refuse, StartChild, StartFails, WritePrompt, StartPi, Begins, Spawn, GenState
    <3>3. ASSUME NEW m \in Messages,
                 \/ LineAborted(m) \/ Line(m) \/ ResultLine(m)
                 \/ LeftAtEvent(m) \/ LeftAtEnd(m)
          PROVE  gen' = gen \/ (gen[m] # "left" /\ \E to \in GenState : Goes(m, to))
      BY <3>3 DEF LineAborted, Line, ResultLine, LeftAtEvent, LeftAtEnd, Event, LastEvent,
                  Reads, Await, GenState
    <3>4. ASSUME NEW m \in Messages,
                 \/ FromBuffer(m, TRUE) \/ FromPipe(m, TRUE) \/ ChildExits(m) \/ Abort(m)
          PROVE  gen' = gen \/ (gen[m] # "left" /\ \E to \in GenState : Goes(m, to))
      BY <3>4 DEF FromBuffer, FromPipe, TakesFirst, Looks, ReadsPi, ChildExits, Abort, GenState
    <3>5. CASE Stop \/ (\E last \in BOOLEAN : Prints(last)) \/ UNCHANGED vars
      BY <3>5 DEF Stop, Prints, vars
    <3> QED BY <3>1, <3>2, <3>3, <3>4, <3>5 DEF Next
  <2> QED BY <2>1, <2>2 DEF Goes
<1>3. Left \subseteq Left'
  BY <1>2 DEF Left
<1> QED BY <1>1, <1>3

(* Only pi's child owes anything. *)
LEMMA NotPi ==
  ASSUME BackendInv, NEW m \in Messages,
         \/ StartChild(m) \/ StartFails(m) \/ WritePrompt(m) \/ PromptWritten(m)
         \/ LineAborted(m) \/ Line(m) \/ ResultLine(m) \/ LeftAtEvent(m) \/ LeftAtEnd(m)
         \/ ResponseEnds(m) \/ EndOfOutput(m) \/ Exited(m)
  PROVE  PiOwes'
<1>1. flavor # "pi"
  BY DEF StartChild, StartFails, WritePrompt, PromptWritten, LineAborted, Line, ResultLine,
         LeftAtEvent, LeftAtEnd, Event, LastEvent, ResponseEnds, EndOfOutput, Exited, Reads,
         BackendInv, Stages
<1>2. flavor' = flavor
  BY DEF StartChild, StartFails, WritePrompt, PromptWritten, LineAborted, Line, ResultLine,
         LeftAtEvent, LeftAtEnd, Event, LastEvent, ResponseEnds, EndOfOutput, Exited
<1> QED BY <1>1, <1>2 DEF PiOwes, Quiet

LEMMA StartPiOwes ==
  ASSUME BackendInv, PiOwes, NEW m \in Messages, StartPi(m)
  PROVE  PiOwes'
<1> SUFFICES ASSUME Quiet' PROVE Owes'
  BY DEF PiOwes
<1>1. /\ flavor = "pi" /\ alive /\ m \notin Active /\ m \notin aborted /\ m \notin Left
      /\ UNCHANGED <<flavor, alive, aborted, pipe, lineBuffer, reads>>
  BY DEF StartPi, Begins, Active, Left
<1>2. Active = {} /\ loose = {} /\ Left = {}
  BY DEF Quiet, StartPi, Crossed
<1>3. aborted = {}
  <2>1. Active' \subseteq {m}
    BY <1>2, StreamEnds, StreamGoes DEF StartPi, Spawn, BackendInv
  <2> QED BY <1>1, <2>1 DEF Quiet
<1>4. lineBuffer = <<>> /\ pipe = <<>> /\ (slot # None /\ child[slot] = "running" => todo = <<>>)
  BY <1>1, <1>2, <1>3 DEF PiOwes, Quiet, Owes
<1>5. lineBuffer' = <<>> /\ pipe' = <<>>
  BY <1>1, <1>4
<1>6. CASE ~ensured /\ Spawn(m) /\ todo' = <<m>>
  <2>1. Active' = {m}
    BY <1>2, <1>6, StreamGoes DEF Spawn, BackendInv
  <2> QED BY <1>5, <1>6, <2>1 DEF Owes, Of
<1>7. CASE slot = None /\ Goes(m, "done") /\ UNCHANGED <<slot, child, todo>>
  <2>1. Active' = {}
    BY <1>2, <1>7, StreamEnds DEF BackendInv
  <2> QED BY <1>5, <1>7, <2>1 DEF Owes
<1>8. CASE /\ slot # None /\ UNCHANGED <<slot, child>> /\ Goes(m, "reading")
           /\ todo' = IF child[slot] = "running" THEN Append(todo, m) ELSE todo
  <2>1. Active' = {m}
    BY <1>2, <1>8, StreamGoes DEF BackendInv
  <2>2. child[slot] = "running" => todo' = <<m>>
    BY <1>4, <1>8
  <2> QED BY <1>5, <1>8, <2>1, <2>2 DEF Owes, Of
<1> QED BY <1>6, <1>7, <1>8 DEF StartPi

LEMMA PrintsOwes ==
  ASSUME BackendInv, PiOwes, NEW last \in BOOLEAN, Prints(last)
  PROVE  PiOwes'
<1> SUFFICES ASSUME Quiet' PROVE Owes'
  BY DEF PiOwes
<1>1. /\ UNCHANGED <<flavor, alive, aborted, loose, gen, reads, lineBuffer, slot, child>>
      /\ slot # None /\ child[slot] = "running" /\ todo # <<>>
  BY DEF Prints
<1>2. Active' = Active /\ Left' = Left
  BY <1>1 DEF Active, Left
<1>3. Quiet
  BY <1>1, <1>2 DEF Quiet
<1>4. Owes
  BY <1>3 DEF PiOwes
<1>5. Active # {}
  BY <1>1, <1>4 DEF Owes
<1>6. ASSUME NEW m \in Active
      PROVE  /\ Of(m, lineBuffer)' /\ Of(m, pipe)'
             /\ \A i \in 1 .. Len(lineBuffer') : lineBuffer'[i].last => pipe' = <<>>
             /\ m \in reads' => lineBuffer' = <<>>
             /\ slot' # None /\ child'[slot'] = "running" => todo' = <<>> \/ todo' = <<m>>
  <2>1. todo = <<m>> /\ Of(m, lineBuffer) /\ Of(m, pipe) /\ (m \in reads => lineBuffer = <<>>)
    BY <1>1, <1>4 DEF Owes
  <2>2. pipe' = Append(pipe, [of |-> m, last |-> last])
    BY <2>1 DEF Prints
  <2>3. todo' = IF last THEN <<>> ELSE <<m>>
    BY <2>1 DEF Prints
  <2>4. pipe \in Seq(StdoutLine) /\ lineBuffer \in Seq(StdoutLine)
    BY DEF BackendInv, TypeOK
  <2>5. ASSUME NEW i \in 1 .. Len(pipe) PROVE pipe[i].of = m /\ ~pipe[i].last
    BY <2>1, <2>5 DEF Of
  <2>6. ASSUME NEW i \in 1 .. Len(lineBuffer) PROVE lineBuffer[i].of = m /\ ~lineBuffer[i].last
    BY <2>1, <2>6 DEF Of
  <2>7. Of(m, pipe)'
    <3> SUFFICES ASSUME NEW i \in 1 .. Len(pipe')
                 PROVE  pipe'[i].of = m /\ (pipe'[i].last => i = Len(pipe') /\ todo' = <<>>)
      BY DEF Of
    <3>1. Len(pipe') = Len(pipe) + 1 /\ Len(pipe) \in Nat
      BY <2>2, <2>4
    <3>2. CASE i \in 1 .. Len(pipe)
      <4>1. pipe'[i] = pipe[i]
        BY <2>2, <2>4, <3>2
      <4> QED BY <2>5, <3>2, <4>1
    <3>3. CASE i = Len(pipe) + 1
      <4>1. pipe'[i] = [of |-> m, last |-> last]
        BY <2>2, <2>4, <3>3
      <4> QED BY <2>3, <3>1, <3>3, <4>1
    <3> QED BY <3>1, <3>2, <3>3
  <2>8. Of(m, lineBuffer)'
    BY <1>1, <2>6 DEF Of
  <2> QED BY <1>1, <2>1, <2>3, <2>6, <2>7, <2>8
<1> QED BY <1>2, <1>5, <1>6 DEF Owes

(* The reader that takes a line, alone and not disturbed, takes its own.   *)
LEMMA TakesOwn ==
  ASSUME BackendInv, Owes, NEW m \in Messages, NEW leaves \in BOOLEAN,
         FromBuffer(m, leaves) \/ FromPipe(m, leaves)
  PROVE  \E all \in Seq(StdoutLine) :
           /\ all # <<>> /\ Of(m, all) /\ TakesFirst(m, all, leaves)
           /\ \A i \in 1 .. Len(all) : all[i].last => pipe' = <<>>
           /\ Of(m, pipe')
<1>1. m \in Active /\ lineBuffer \in Seq(StdoutLine) /\ pipe \in Seq(StdoutLine)
  BY DEF FromBuffer, FromPipe, Looks, ReadsPi, Active, BackendInv, TypeOK
<1>2. /\ Of(m, lineBuffer) /\ Of(m, pipe) /\ (m \in reads => lineBuffer = <<>>)
      /\ \A i \in 1 .. Len(lineBuffer) : lineBuffer[i].last => pipe = <<>>
  BY <1>1 DEF Owes
<1>3. CASE FromBuffer(m, leaves)
  BY <1>1, <1>2, <1>3 DEF FromBuffer
<1>4. CASE FromPipe(m, leaves)
  <2>1. lineBuffer \o pipe = pipe
    BY <1>1, <1>2, <1>4 DEF FromPipe
  <2>2. Of(m, <<>>)
    BY DEF Of
  <2> QED BY <1>1, <1>2, <1>4, <2>1, <2>2 DEF FromPipe
<1> QED BY <1>3, <1>4

LEMMA TakesOwes ==
  ASSUME BackendInv, PiOwes, NEW m \in Messages, NEW leaves \in BOOLEAN,
         FromBuffer(m, leaves) \/ FromPipe(m, leaves)
  PROVE  PiOwes'
<1> SUFFICES ASSUME Quiet' PROVE Owes'
  BY DEF PiOwes
<1>1. /\ UNCHANGED <<flavor, alive, aborted, loose, todo, slot, child>>
      /\ m \in Active /\ m \notin Left
  BY DEF FromBuffer, FromPipe, TakesFirst, Looks, ReadsPi, Active, Left
<1>2. /\ \A n \in Messages \ {m} : gen'[n] = gen[n]
      /\ gen'[m] \in {"done", "left", gen[m]}
  BY DEF FromBuffer, FromPipe, TakesFirst, Goes, BackendInv, TypeOK
<1>3. Left \subseteq Left' /\ Active' \subseteq Active /\ Active \ {m} \subseteq Active'
  BY <1>1, <1>2 DEF Left, Active
<1>4. Quiet
  BY <1>1, <1>3 DEF Quiet
<1>5. Owes
  BY <1>4 DEF PiOwes
<1>6. Active = {m}
  BY <1>1, <1>4 DEF Quiet, OverlapIsLoose, Children, BackendInv
<1>7. PICK all \in Seq(StdoutLine) :
        /\ all # <<>> /\ Of(m, all) /\ TakesFirst(m, all, leaves)
        /\ \A i \in 1 .. Len(all) : all[i].last => pipe' = <<>>
        /\ Of(m, pipe')
  BY <1>5, TakesOwn
<1>8. /\ Len(all) \in Nat /\ Len(all) > 0 /\ Head(all) = all[1]
      /\ Tail(all) \in Seq(StdoutLine) /\ Len(Tail(all)) = Len(all) - 1
      /\ \A i \in 1 .. Len(all) - 1 : Tail(all)[i] = all[i + 1]
  BY <1>7
<1>9. lineBuffer' = Tail(all) /\ reads' = reads \ {m}
  BY <1>7 DEF TakesFirst
<1>10. CASE Head(all).last
  <2>1. Len(all) = 1 /\ todo = <<>> /\ pipe' = <<>>
    <3>1. 1 \in 1 .. Len(all) /\ all[1].last
      BY <1>8, <1>10
    <3>2. 1 = Len(all) /\ todo = <<>>
      BY <1>7, <3>1 DEF Of
    <3> QED BY <1>7, <3>1, <3>2
  <2>2. lineBuffer' = <<>>
    BY <1>8, <1>9, <2>1
  <2>3. Goes(m, "done")
    BY <1>7, <1>10 DEF TakesFirst
  <2>4. Active' = {}
    BY <1>6, <2>3, StreamEnds DEF BackendInv
  <2> QED BY <1>1, <2>1, <2>2, <2>4 DEF Owes
<1>11. CASE ~Head(all).last
  <2>1. UNCHANGED gen
    <3>1. ASSUME Goes(m, "left") PROVE FALSE
      BY <3>1 DEF Quiet, Left, Goes, BackendInv, TypeOK
    <3> QED BY <1>7, <1>11, <3>1 DEF TakesFirst
  <2>2. Active' = {m}
    BY <1>6, <2>1 DEF Active
  <2>3. Of(m, lineBuffer)'
    <3> SUFFICES ASSUME NEW i \in 1 .. Len(lineBuffer')
                 PROVE  /\ lineBuffer'[i].of = m
                        /\ lineBuffer'[i].last => i = Len(lineBuffer') /\ todo' = <<>>
      BY DEF Of
    <3>1. lineBuffer'[i] = all[i + 1] /\ i + 1 \in 1 .. Len(all)
      BY <1>8, <1>9
    <3>2. all[i + 1].of = m /\ (all[i + 1].last => i + 1 = Len(all) /\ todo = <<>>)
      BY <1>7, <3>1 DEF Of
    <3>3. Len(lineBuffer') = Len(all) - 1 /\ Len(all) \in Nat
      BY <1>8, <1>9
    <3> QED BY <1>1, <3>1, <3>2, <3>3
  <2>4. \A i \in 1 .. Len(lineBuffer') : lineBuffer'[i].last => pipe' = <<>>
    <3> SUFFICES ASSUME NEW i \in 1 .. Len(lineBuffer'), lineBuffer'[i].last PROVE pipe' = <<>>
      OBVIOUS
    <3>1. lineBuffer'[i] = all[i + 1] /\ i + 1 \in 1 .. Len(all)
      BY <1>8, <1>9
    <3> QED BY <1>7, <3>1
  <2>5. slot # None /\ child[slot] = "running" => todo = <<>> \/ todo = <<m>>
    BY <1>5, <1>6 DEF Owes
  <2>6. Of(m, pipe)'
    BY <1>1, <1>7 DEF Of
  <2> QED BY <1>1, <1>9, <2>2, <2>3, <2>4, <2>5, <2>6 DEF Owes
<1> QED BY <1>10, <1>11

LEMMA OtherPiOwes ==
  ASSUME BackendInv, PiOwes,
         \/ Stop
         \/ \E m \in Messages : \/ Refuse(m) \/ PiAborted(m) \/ PiAwaits(m) \/ PiClosed(m)
                              \/ ChildExits(m) \/ Abort(m)
  PROVE  PiOwes'
<1> SUFFICES ASSUME Quiet' PROVE Owes'
  BY DEF PiOwes
<1> USE NoneAssumption DEF BackendInv
<1>1. CASE Stop
  BY <1>1 DEF Stop, Quiet
<1>2. ASSUME NEW m \in Messages, Refuse(m) PROVE Owes'
  <2>1. Active' = Active /\ Left' = Left
    BY <1>2 DEF Refuse, Goes, Active, Left, TypeOK, GenState
  <2>2. Quiet
    BY <1>2, <2>1 DEF Refuse, Quiet
  <2> QED BY <1>2, <2>1, <2>2 DEF Refuse, PiOwes, Owes, Of, pi
<1>3. ASSUME NEW m \in Messages, PiAborted(m) PROVE Owes'
  <2>1. Active' = Active \ {m}
    BY <1>3, StreamEnds DEF PiAborted
  <2> QED BY <1>3, <2>1 DEF PiAborted, Quiet
<1>4. ASSUME NEW m \in Messages, PiAwaits(m) PROVE Owes'
  <2>1. Active' = Active /\ Left' = Left
    BY <1>4 DEF PiAwaits, Active, Left
  <2>2. Quiet /\ lineBuffer = <<>>
    BY <1>4, <2>1 DEF PiAwaits, Quiet
  <2> QED BY <1>4, <2>1, <2>2 DEF PiAwaits, PiOwes, Owes, Of
<1>5. ASSUME NEW m \in Messages, PiClosed(m) PROVE Owes'
  <2>1. Active' = Active \ {m} /\ m \in Active
    BY <1>5, StreamEnds DEF PiClosed, ReadsPi, Active
  <2>2. Left' = Left
    BY <1>5 DEF PiClosed, ReadsPi, Goes, Left, TypeOK, GenState
  <2>3. Quiet
    BY <1>5, <2>1, <2>2 DEF PiClosed, Quiet
  <2>4. Active = {m}
    BY <2>1, <2>3 DEF Quiet, OverlapIsLoose, Children
  <2>5. Owes /\ ReaderLost(m)
    BY <1>5, <2>3 DEF PiClosed, ReaderClosed, PiOwes, Quiet
  <2>6. lineBuffer = <<>> /\ pipe = <<>> /\ child[slot] # "running"
    BY <2>4, <2>5 DEF Owes, ReaderLost
  <2>7. Active' = {}
    BY <2>1, <2>4
  <2> QED BY <1>5, <2>6, <2>7 DEF PiClosed, Owes
<1>6. ASSUME NEW m \in Messages, ChildExits(m) PROVE Owes'
  <2>1. Active' = Active /\ Left' = Left
    BY <1>6 DEF ChildExits, Active, Left
  <2>2. Quiet
    BY <1>6, <2>1 DEF ChildExits, Quiet
  <2>3. \A n \in Messages : child'[n] = "running" => child[n] = "running"
    BY <1>6 DEF ChildExits, Becomes, TypeOK
  <2>4. slot \in Messages \union {None} /\ slot' = slot
    BY <1>6 DEF ChildExits, TypeOK
  <2> QED BY <1>6, <2>1, <2>2, <2>3, <2>4 DEF ChildExits, PiOwes, Owes, Of, pi
<1>7. ASSUME NEW m \in Messages, Abort(m) PROVE Owes'
  <2>1. Active' = Active /\ Left' = Left
    BY <1>7 DEF Abort, Active, Left
  <2>2. Quiet
    BY <1>7, <2>1 DEF Abort, Quiet
  <2>3. child' = child
    BY <1>7, <2>2 DEF Abort, OnAbort, Quiet
  <2> QED BY <1>7, <2>1, <2>2, <2>3 DEF Abort, PiOwes, Owes, Of, pi
<1> QED BY <1>1, <1>2, <1>3, <1>4, <1>5, <1>6, <1>7

LEMMA NextOwes == BackendInv /\ PiOwes /\ [Next]_vars => PiOwes'
<1> SUFFICES ASSUME BackendInv, PiOwes, [Next]_vars PROVE PiOwes'
  OBVIOUS
<1>1. ASSUME NEW m \in Messages, NEW leaves \in BOOLEAN,
             StartPi(m) \/ FromBuffer(m, leaves) \/ FromPipe(m, leaves)
      PROVE  PiOwes'
  BY <1>1, StartPiOwes, TakesOwes
<1>2. CASE UNCHANGED vars
  BY <1>2 DEF vars, pi, PiOwes, Quiet, Owes, Of, Active, Left
<1> QED BY <1>1, <1>2, NotPi, OtherPiOwes, PrintsOwes DEF Next, GoesOn

LEMMA NextOwnAnswer == BackendInv /\ PiOwes /\ OwnAnswer /\ [Next]_vars => OwnAnswer'
<1> SUFFICES ASSUME BackendInv, PiOwes, OwnAnswer, [Next]_vars PROVE OwnAnswer'
  OBVIOUS
<1>1. /\ flavor' = flavor /\ loose \subseteq loose' /\ aborted \subseteq aborted'
      /\ Left \subseteq Left'
  BY StepKeepsHistory
<1>2. CASE foreign' = foreign
  BY <1>1, <1>2 DEF OwnAnswer
<1>3. ASSUME NEW m \in Messages, Exited(m) PROVE OwnAnswer'
  <2>1. waits[m] = m \/ (flavor \in {"codex", "gemini"} /\ m \in loose)
    BY <1>3 DEF Exited, BackendInv, Children, Stages, SlotIsOwn
  <2> QED BY <1>1, <1>3, <2>1 DEF Exited, OwnAnswer
<1>4. ASSUME NEW m \in Messages, NEW leaves \in BOOLEAN,
             FromBuffer(m, leaves) \/ FromPipe(m, leaves)
      PROVE  OwnAnswer'
  <2>1. flavor = "pi" /\ alive /\ m \in Active /\ m \notin Left
    BY <1>4 DEF FromBuffer, FromPipe, Looks, ReadsPi, Active, Left
  <2>2. foreign' \subseteq foreign \union {m}
    BY <1>4 DEF FromBuffer, FromPipe, TakesFirst
  <2>3. CASE loose \union ((aborted \union Left) \ {m}) # {}
    <3>1. loose' \union ((aborted' \union Left') \ {m}) # {}
      BY <1>1, <2>3
    <3> QED BY <1>1, <2>1, <2>2, <3>1 DEF OwnAnswer
  <2>4. CASE loose \union ((aborted \union Left) \ {m}) = {}
    <3>1. Quiet
      BY <2>1, <2>4 DEF Quiet
    <3>2. PICK all \in Seq(StdoutLine) : all # <<>> /\ Of(m, all) /\ TakesFirst(m, all, leaves)
      BY <1>4, <3>1, TakesOwn DEF PiOwes
    <3>3. Head(all).of = m
      BY <3>2 DEF Of
    <3>4. foreign' = foreign
      BY <3>2, <3>3 DEF TakesFirst
    <3> QED BY <1>2, <3>4
  <2> QED BY <2>3, <2>4
<1>5. \/ foreign' = foreign
      \/ \E m \in Messages : \/ Exited(m)
                             \/ \E leaves \in BOOLEAN : FromBuffer(m, leaves) \/ FromPipe(m, leaves)
  BY DEF Next, vars, GoesOn, Refuse, StartChild, StartFails, WritePrompt, PromptWritten, StartPi,
         LineAborted, Line, ResultLine, LeftAtEvent, LeftAtEnd, Event, LastEvent, ResponseEnds,
         EndOfOutput, Prints, PiAborted, PiAwaits, PiClosed, ChildExits, Abort, Stop
<1> QED BY <1>2, <1>3, <1>4, <1>5

-----------------------------------------------------------------------------
(* The theorems. *)

LEMMA BackendAlways == Spec => []BackendInv
<1>1. BackendInv /\ [Next]_vars => BackendInv'
  BY NextBackend
<1> QED BY <1>1, InitBackend, PTL DEF Spec

(* Every variable of a backend has its type. *)
THEOREM TypeCorrect == Spec => []TypeOK
<1>1. BackendInv => TypeOK
  BY DEF BackendInv
<1> QED BY <1>1, BackendAlways, PTL

(* A stop leaves no child running whose stream neither overlapped another  *)
(* nor was left before another began, and none at all of pi's.             *)
THEOREM StopCorrect == Spec => []StopReachesChild
<1>1. BackendInv => StopReachesChild
  BY DEF BackendInv, Children, SlotHoldsChild, PiStages, StopReachesChild
<1> QED BY <1>1, BackendAlways, PTL

(* A cancelled stream that is over has killed its child; codex and gemini  *)
(* miss it only when the send was not alone.                               *)
THEOREM CancelCorrect == Spec => []CancelReachesChild
<1>1. BackendInv => CancelReachesChild
  BY DEF BackendInv, Children, AbortsReach, CancelReachesChild
<1> QED BY <1>1, BackendAlways, PTL

(* A stream that is over has ended once; gemini's may end twice.           *)
THEOREM EndingCorrect == Spec => []OneEnding
<1>1. BackendInv => OneEnding
  BY DEF BackendInv
<1> QED BY <1>1, BackendAlways, PTL

(* A stream reports its own child's answer, but where codex's or gemini's  *)
(* sends overlapped and, with pi, where some overlapped or an earlier one  *)
(* was aborted or left.                                                    *)
THEOREM AnswerCorrect == Spec => []OwnAnswer
<1>1. Init => PiOwes /\ OwnAnswer
  BY DEF Init, PiOwes, Quiet, Owes, Active, OwnAnswer
<1>2. BackendInv /\ PiOwes /\ OwnAnswer /\ [Next]_vars => PiOwes' /\ OwnAnswer'
  BY NextOwes, NextOwnAnswer
<1> QED BY <1>1, <1>2, BackendAlways, PTL DEF Spec

-----------------------------------------------------------------------------
(* The other end of a chat: the browser's tab, ChatClient.                  *)

FrameSet == [type : {"chunk", "complete", "error", "status", "resume", "replay"},
             piece : [msg : 0 .. MaxMessages, num : 0 .. MaxChunks]]

(* Messages that have not come in are untouched; the reply that is kept is  *)
(* that of one that has.                                                    *)
ServiceInv ==
  /\ sent \in 0 .. MaxMessages /\ current \in 0 .. sent
  /\ phase \in [Ids -> {"new", "open", "cut", "said", "ended"}]
  /\ len \in [Ids -> 0 .. MaxChunks]
  /\ \A m \in Ids : m > sent => phase[m] = "new" /\ len[m] = 0

(* A tab without a connection waits for nothing and has nothing under way.  *)
OnlyWhenUp ==
  link # "up" =>
    /\ Tab \notin members /\ ~processing
    /\ wire = <<>> /\ uplink = <<>> /\ requester = {}

(* A frame that ends the wait, what makes one sure to come, and a request   *)
(* that will get one.                                                       *)
EndsWait(f) == f.type \in {"complete", "error"}
AnswerDue == Tab \in members /\ \E m \in Ids : Unanswered(m)
AnswerComes == \E i \in DOMAIN wire : EndsWait(wire[i])
Asks == \E i \in DOMAIN uplink : uplink[i] # "cancel"

(* A stream_resume frame under way starts a wait that has a reason.         *)
ResumeHasReason ==
  \A i \in DOMAIN wire : wire[i].type = "resume" =>
    AnswerDue \/ \E j \in DOMAIN wire : j > i /\ EndsWait(wire[j])

(* WaitHasReason in these terms.                                            *)
AnswerIsSure == processing /\ ~muted => Asks \/ AnswerComes \/ AnswerDue

WaitInv ==
  ClientTypeOK /\ ServiceInv /\ OnlyWhenUp /\ ResumeHasReason /\ AnswerIsSure

(* The chunks that are shown when frame f is taken.                         *)
Carried(f) ==
  IF f.type = "chunk" THEN {f.piece}
  ELSE IF f.type \in {"resume", "replay"} THEN Pieces(f.piece.msg, f.piece.num) ELSE {}

(* Every chunk of the reply is shown or on its way, unless one was ignored  *)
(* since the tab joined (cancelledRef).                                     *)
ChunksArrive ==
  Tab \in members /\ current # NoReply /\ ~dropped =>
    \A k \in 1 .. len[current] :
      \/ Piece(current, k) \in shown
      \/ \E i \in DOMAIN wire : Piece(current, k) \in Carried(wire[i])

-----------------------------------------------------------------------------
(* Frames that are sent come behind those under way.                        *)
LEMMA FramesSent ==
  ASSUME ClientTypeOK, NEW frames \in Seq(FrameSet), wire' = wire \o frames
  PROVE  /\ wire' \in Seq(FrameSet)
         /\ \A i \in DOMAIN wire : i \in DOMAIN wire' /\ wire'[i] = wire[i]
         /\ \A i \in DOMAIN frames :
              /\ Len(wire) + i \in DOMAIN wire' /\ wire'[Len(wire) + i] = frames[i]
              /\ \A j \in DOMAIN wire : Len(wire) + i > j
         /\ \A i \in DOMAIN wire' \ DOMAIN wire : \E j \in DOMAIN frames : wire'[i] = frames[j]
<1>1. \A u, v \in Seq(FrameSet) :
        /\ u \o v \in Seq(FrameSet)
        /\ DOMAIN u = 1 .. Len(u) /\ DOMAIN v = 1 .. Len(v)
        /\ Len(u) \in Nat /\ Len(v) \in Nat
        /\ DOMAIN (u \o v) = 1 .. Len(u) + Len(v)
        /\ \A i \in 1 .. Len(u) + Len(v) :
             (u \o v)[i] = IF i <= Len(u) THEN u[i] ELSE v[i - Len(u)]
  OBVIOUS
<1>2. wire \in Seq(FrameSet)
  BY DEF ClientTypeOK, FrameSet
<1> DEFINE n == Len(wire)
           k == Len(frames)
<1>3. /\ wire' \in Seq(FrameSet) /\ n \in Nat /\ k \in Nat
      /\ DOMAIN wire = 1 .. n /\ DOMAIN frames = 1 .. k /\ DOMAIN wire' = 1 .. n + k
      /\ \A i \in 1 .. n + k : wire'[i] = IF i <= n THEN wire[i] ELSE frames[i - n]
  BY <1>1, <1>2
<1> HIDE DEF n, k
<1>4. \A i \in DOMAIN wire : i \in DOMAIN wire' /\ wire'[i] = wire[i]
  BY <1>3
<1>5. \A i \in DOMAIN frames :
        /\ n + i \in DOMAIN wire' /\ wire'[n + i] = frames[i]
        /\ \A j \in DOMAIN wire : n + i > j
  BY <1>3
<1>6. ASSUME NEW i \in DOMAIN wire' \ DOMAIN wire
      PROVE  \E j \in DOMAIN frames : wire'[i] = frames[j]
  <2>1. i - n \in DOMAIN frames /\ wire'[i] = frames[i - n]
    BY <1>3, <1>6
  <2> QED BY <2>1
<1> QED BY <1>3, <1>4, <1>5, <1>6 DEF n

(* The first frame is taken, the others move up.                            *)
LEMMA FrameTaken ==
  ASSUME ClientTypeOK, wire # <<>>, wire' = Tail(wire)
  PROVE  /\ wire' \in Seq(FrameSet) /\ 1 \in DOMAIN wire /\ Head(wire) = wire[1]
         /\ DOMAIN wire \subseteq Nat /\ DOMAIN wire' \subseteq Nat
         /\ wire[1] \in FrameSet
         /\ \A i \in DOMAIN wire : i # 1 => i - 1 \in DOMAIN wire' /\ wire'[i - 1] = wire[i]
         /\ \A i \in DOMAIN wire' : i + 1 \in DOMAIN wire /\ wire'[i] = wire[i + 1]
<1>1. \A u \in Seq(FrameSet) : u # <<>> =>
        /\ Tail(u) \in Seq(FrameSet) /\ Head(u) = u[1] /\ Len(u) \in Nat \ {0}
        /\ DOMAIN u = 1 .. Len(u) /\ DOMAIN Tail(u) = 1 .. Len(u) - 1
        /\ u[1] \in FrameSet
        /\ \A i \in 1 .. Len(u) - 1 : Tail(u)[i] = u[i + 1]
  OBVIOUS
<1>2. wire \in Seq(FrameSet)
  BY DEF ClientTypeOK, FrameSet
<1> DEFINE n == Len(wire)
<1>3. /\ wire' \in Seq(FrameSet) /\ Head(wire) = wire[1] /\ n \in Nat \ {0}
      /\ wire[1] \in FrameSet
      /\ DOMAIN wire = 1 .. n /\ DOMAIN wire' = 1 .. n - 1
      /\ \A i \in 1 .. n - 1 : wire'[i] = wire[i + 1]
  BY <1>1, <1>2
<1> HIDE DEF n
<1> QED BY <1>3

(* The tab's requests likewise.                                             *)
LEMMA RequestSent ==
  ASSUME ClientTypeOK, NEW f \in {"message", "cancel", "slash"}, uplink' = Append(uplink, f)
  PROVE  /\ uplink' \in Seq({"message", "cancel", "slash"})
         /\ \A i \in DOMAIN uplink : i \in DOMAIN uplink' /\ uplink'[i] = uplink[i]
         /\ \E i \in DOMAIN uplink' : uplink'[i] = f
<1>1. \A u \in Seq({"message", "cancel", "slash"}) :
        /\ Append(u, f) \in Seq({"message", "cancel", "slash"})
        /\ \A i \in DOMAIN u : i \in DOMAIN Append(u, f) /\ Append(u, f)[i] = u[i]
        /\ Len(u) + 1 \in DOMAIN Append(u, f) /\ Append(u, f)[Len(u) + 1] = f
  OBVIOUS
<1>2. uplink \in Seq({"message", "cancel", "slash"})
  BY DEF ClientTypeOK
<1> QED BY <1>1, <1>2

LEMMA RequestTaken ==
  ASSUME ClientTypeOK, uplink # <<>>, uplink' = Tail(uplink)
  PROVE  /\ uplink' \in Seq({"message", "cancel", "slash"})
         /\ Head(uplink) = uplink[1]
         /\ \A i \in DOMAIN uplink : i = 1 \/ \E j \in DOMAIN uplink' : uplink'[j] = uplink[i]
<1>1. \A u \in Seq({"message", "cancel", "slash"}) : u # <<>> =>
        /\ Tail(u) \in Seq({"message", "cancel", "slash"}) /\ Head(u) = u[1]
        /\ Len(u) \in Nat \ {0}
        /\ DOMAIN u = 1 .. Len(u) /\ DOMAIN Tail(u) = 1 .. Len(u) - 1
        /\ \A i \in 1 .. Len(u) - 1 : Tail(u)[i] = u[i + 1]
  OBVIOUS
<1> DEFINE n == Len(uplink)
<1>2. /\ uplink' \in Seq({"message", "cancel", "slash"}) /\ Head(uplink) = uplink[1]
      /\ n \in Nat \ {0} /\ DOMAIN uplink = 1 .. n /\ DOMAIN uplink' = 1 .. n - 1
      /\ \A i \in 1 .. n - 1 : uplink'[i] = uplink[i + 1]
  BY <1>1 DEF ClientTypeOK
<1> HIDE DEF n
<1>3. ASSUME NEW i \in DOMAIN uplink, i # 1
      PROVE  \E j \in DOMAIN uplink' : uplink'[j] = uplink[i]
  <2>1. i - 1 \in DOMAIN uplink' /\ uplink'[i - 1] = uplink[i]
    BY <1>2, <1>3
  <2> QED BY <2>1
<1> QED BY <1>2, <1>3

LEMMA WaitInvSuffices == WaitInv => WaitHasReason
<1> SUFFICES ASSUME WaitInv PROVE WaitHasReason
  OBVIOUS
<1>1. DOMAIN uplink = 1 .. Len(uplink) /\ DOMAIN wire = 1 .. Len(wire)
  BY DEF WaitInv, ClientTypeOK
<1> QED BY <1>1 DEF WaitInv, AnswerIsSure, WaitHasReason, Asks, AnswerComes, AnswerDue, EndsWait

-----------------------------------------------------------------------------
(* The service.                                                             *)
LEMMA ServiceKept ==
  ASSUME ServiceInv,
         \/ UNCHANGED service
         \/ \E c \in Clients : Join(c) \/ Leave(c) \/ Ask(c) \/ Cancel(c)
         \/ \E m \in Ids : Say(m) \/ Complete(m) \/ Fail(m) \/ End(m) \/ EndWithError(m)
         \/ Expire
  PROVE  ServiceInv'
<1> USE TabBoundsAssumption DEF ServiceInv
<1>1. CASE UNCHANGED <<sent, current, phase, len>>
  BY <1>1
<1>2. ASSUME NEW c \in Clients, Ask(c) PROVE ServiceInv'
  <2>1. /\ sent < MaxMessages /\ sent' = sent + 1 /\ current' = sent + 1 /\ len' = len
        /\ phase' = [Cut EXCEPT ![sent + 1] = "open"]
    BY <1>2 DEF Ask
  <2>2. sent + 1 \in Ids /\ \A m \in Ids : m > sent + 1 => m > sent /\ m # sent + 1
    BY <2>1 DEF Ids
  <2>3. Cut \in [Ids -> {"new", "open", "cut", "said", "ended"}]
          /\ \A m \in Ids : m > sent => Cut[m] = "new"
    BY DEF Cut
  <2>4. sent' \in 0 .. MaxMessages /\ current' \in 0 .. sent'
    BY <2>1
  <2> QED BY <2>1, <2>2, <2>3, <2>4
<1>3. ASSUME NEW c \in Clients, Cancel(c) PROVE ServiceInv'
  <2>1. UNCHANGED <<sent, current, len>> /\ phase' = Cut
    BY <1>3 DEF Cancel
  <2> QED BY <2>1 DEF Cut
<1>4. ASSUME NEW m \in Ids, Say(m) PROVE ServiceInv'
  <2>1. /\ UNCHANGED <<sent, current, phase>> /\ phase[m] = "open"
        /\ len[m] < MaxChunks /\ len' = [len EXCEPT ![m] = len[m] + 1]
    BY <1>4 DEF Say
  <2>2. len[m] + 1 \in 0 .. MaxChunks /\ ~(m > sent)
    BY <2>1
  <2> QED BY <2>1, <2>2
<1>5. ASSUME NEW m \in Ids, Complete(m) \/ Fail(m) \/ End(m) \/ EndWithError(m)
      PROVE  ServiceInv'
  <2>1. PICK to \in {"said", "ended"} : phase' = [phase EXCEPT ![m] = to]
    BY <1>5 DEF Complete, Fail, End, EndWithError, Ends, Moves
  <2>2. UNCHANGED <<sent, current, len>> /\ phase[m] # "new"
    BY <1>5 DEF Complete, Fail, End, EndWithError, Ends, Moves, Unanswered
  <2> QED BY <2>1, <2>2
<1>6. CASE Expire
  BY <1>6 DEF Expire, NoReply
<1> QED BY <1>1, <1>2, <1>3, <1>4, <1>5, <1>6 DEF service, Join, Leave

LEMMA ServiceStep ==
  ASSUME ServiceInv, [ClientNext]_cvars
  PROVE  ServiceInv'
<1>1. \/ UNCHANGED service
      \/ \E c \in Clients : Join(c) \/ Leave(c) \/ Ask(c) \/ Cancel(c)
      \/ \E m \in Ids : Say(m) \/ Complete(m) \/ Fail(m) \/ End(m) \/ EndWithError(m)
      \/ Expire
  BY TabAssumption DEF ClientNext, cvars, Connect, ConnectBlank, GoAstray, Drop, LeavesSession,
     Send, Slash, CancelProcessing, ServerTakes, TakeMessage, TakeCancel, TakeSlash, Relays,
     Status, OtherTab, Expires, OnMessage, HandleChunk, HandleComplete, HandleError,
     HandleConductorStatus, HandleResume, HandleReplay
<1> QED BY <1>1, ServiceKept

-----------------------------------------------------------------------------
(* What the server says of a stream.  Frames that answer a request or tell  *)
(* of a stream are no stream_resume frames.                                 *)
Telling == {f \in FrameSet : f.type # "resume"}

(* The frames of a step: a stream that no longer owes its terminal frame    *)
(* has just sent it, and each new chunk is sent too.                        *)
Tells(frames) ==
  /\ wire' = wire \o frames
  /\ AnswerDue => AnswerDue' \/ \E i \in DOMAIN frames : EndsWait(frames[i])
  /\ Tab \in members /\ current \in Ids =>
       \A k \in 1 .. len'[current] :
         \/ k \in 1 .. len[current]
         \/ \E i \in DOMAIN frames : frames[i] = Frame("chunk", current, k)

LEMMA StreamTells ==
  ASSUME ClientTypeOK, ServiceInv, NEW m \in Ids, Relays(m)
  PROVE  \E frames \in Seq(Telling) : Tells(frames)
<1> USE TabBoundsAssumption DEF Tells
<1>1. m \in 0 .. MaxMessages /\ members' = members /\ current' = current
      /\ sent' = sent /\ MaxMessages \in Nat /\ MaxChunks \in Nat
  BY DEF Relays, Say, Complete, Fail, End, EndWithError, Ends, Moves, Ids
<1>2. wire \in Seq(FrameSet) /\ wire \o <<>> = wire
  <2>1. \A u \in Seq(FrameSet) : u \o <<>> = u
    OBVIOUS
  <2> QED BY <2>1 DEF ClientTypeOK, FrameSet
<1>3. \A type \in {"chunk", "complete", "error", "status"}, k \in 0 .. MaxChunks :
        /\ Frame(type, m, k) \in Telling /\ Frame(type, m, k).type = type
        /\ <<Frame(type, m, k)>> \in Seq(Telling)
        /\ DOMAIN <<Frame(type, m, k)>> = {1} /\ <<Frame(type, m, k)>>[1] = Frame(type, m, k)
  <2> TAKE type \in {"chunk", "complete", "error", "status"}, k \in 0 .. MaxChunks
  <2> DEFINE f == Frame(type, m, k)
  <2>1. f \in Telling /\ f.type = type
    BY <1>1 DEF Frame, Piece, Telling, FrameSet
  <2> HIDE DEF f
  <2>2. <<f>> \in Seq(Telling) /\ DOMAIN <<f>> = {1} /\ <<f>>[1] = f
    BY <2>1
  <2> QED BY <2>1, <2>2 DEF f
<1>4. <<>> \in Seq(Telling) /\ 0 \in 0 .. MaxChunks
  OBVIOUS
<1>5. CASE Say(m) /\ Broadcast(<<Frame("chunk", m, len[m] + 1)>>)
  <2>1. /\ phase' = phase /\ phase[m] = "open" /\ len[m] < MaxChunks
        /\ len' = [len EXCEPT ![m] = len[m] + 1] /\ len[m] \in 0 .. MaxChunks
    BY <1>5 DEF Say, ServiceInv
  <2>2. AnswerDue => AnswerDue'
    BY <1>1, <2>1 DEF AnswerDue, Unanswered
  <2>3. CASE Tab \in members
    <3> DEFINE frames == <<Frame("chunk", m, len[m] + 1)>>
    <3>1. wire' = wire \o frames
      BY <1>5, <2>3 DEF Broadcast, Transmit
    <3>2. frames \in Seq(Telling) /\ 1 \in DOMAIN frames
          /\ frames[1] = Frame("chunk", m, len[m] + 1)
      BY <1>3, <2>1
    <3>3. ASSUME current \in Ids, NEW k \in 1 .. len'[current], k \notin 1 .. len[current]
          PROVE  frames[1] = Frame("chunk", current, k)
      <4>1. current = m /\ k = len[m] + 1
        BY <2>1, <3>3 DEF ServiceInv
      <4> QED BY <3>2, <4>1
    <3> HIDE DEF frames
    <3> QED BY <2>2, <3>1, <3>2, <3>3
  <2>4. CASE Tab \notin members
    <3>1. wire' = wire \o <<>>
      BY <1>2, <1>5, <2>4 DEF Broadcast
    <3> QED BY <1>4, <2>4, <3>1 DEF AnswerDue
  <2> QED BY <2>3, <2>4
<1>6. ASSUME UNCHANGED len, NEW frames \in Seq(Telling), wire' = wire \o frames,
             AnswerDue => AnswerDue' \/ \E i \in DOMAIN frames : EndsWait(frames[i])
      PROVE  \E fs \in Seq(Telling) : Tells(fs)
  BY <1>6
<1>7. ASSUME UNCHANGED len, wire' = wire, Tab \notin members
      PROVE  \E fs \in Seq(Telling) : Tells(fs)
  BY <1>2, <1>4, <1>7 DEF AnswerDue
<1>8. ASSUME NEW type \in {"complete", "error"}, Complete(m) \/ Fail(m),
             Broadcast(<<Frame(type, m, 0)>>)
      PROVE  \E fs \in Seq(Telling) : Tells(fs)
  <2>1. UNCHANGED len
    BY <1>8 DEF Complete, Fail, Moves
  <2>2. CASE Tab \notin members
    BY <1>7, <1>8, <2>1, <2>2 DEF Broadcast
  <2>3. CASE Tab \in members
    <3> DEFINE frames == <<Frame(type, m, 0)>>
    <3>1. wire' = wire \o frames
      BY <1>8, <2>3 DEF Broadcast, Transmit
    <3>2. frames \in Seq(Telling) /\ 1 \in DOMAIN frames /\ frames[1].type = type
      BY <1>3, <1>4
    <3> HIDE DEF frames
    <3>3. \E i \in DOMAIN frames : EndsWait(frames[i])
      BY <3>2 DEF EndsWait
    <3> QED BY <1>6, <2>1, <3>1, <3>2, <3>3
  <2> QED BY <2>2, <2>3
<1>9. ASSUME NEW frames, frames \in {Closing(m), Closing(m) \o ErrorForTab(m)},
             End(m) \/ EndWithError(m), Broadcast(frames)
      PROVE  \E fs \in Seq(Telling) : Tells(fs)
  <2>1. UNCHANGED len /\ phase' = [phase EXCEPT ![m] = "ended"]
    BY <1>9 DEF End, EndWithError, Ends, Moves
  <2>2. CASE Tab \notin members
    BY <1>7, <1>9, <2>1, <2>2 DEF Broadcast
  <2>3. CASE Tab \in members
    <3>1. wire' = wire \o frames
      BY <1>9, <2>3 DEF Broadcast, Transmit
    <3>2. Closing(m) \in Seq(Telling) /\ ErrorForTab(m) \in Seq(Telling)
      BY <1>3, <1>4 DEF Closing, ErrorForTab
    <3>3. Unanswered(m) => 1 \in DOMAIN Closing(m) /\ Closing(m)[1].type \in {"complete", "error"}
      BY <1>3, <1>4 DEF Closing
    <3>4. \A u, v \in Seq(Telling) :
            /\ u \o v \in Seq(Telling)
            /\ 1 \in DOMAIN u => 1 \in DOMAIN (u \o v) /\ (u \o v)[1] = u[1]
      OBVIOUS
    <3>5. frames \in Seq(Telling)
          /\ (Unanswered(m) => 1 \in DOMAIN frames /\ frames[1].type \in {"complete", "error"})
      BY <1>9, <3>2, <3>3, <3>4
    <3>6. CASE Unanswered(m)
      <4>1. \E i \in DOMAIN frames : EndsWait(frames[i])
        BY <3>5, <3>6 DEF EndsWait
      <4> QED BY <1>6, <2>1, <3>1, <3>5, <4>1
    <3>7. CASE ~Unanswered(m)
      <4>1. AnswerDue => AnswerDue'
        BY <1>1, <2>1, <3>7 DEF AnswerDue, Unanswered, ServiceInv
      <4> QED BY <1>6, <2>1, <3>1, <3>5, <4>1
    <3> QED BY <3>6, <3>7
  <2> QED BY <2>2, <2>3
<1> QED BY <1>5, <1>8, <1>9 DEF Relays

-----------------------------------------------------------------------------
(* What the steps leave of the wait.                                        *)

(* Of frames sent behind the others, none a stream_resume.                  *)
LEMMA WaitBehind ==
  ASSUME ClientTypeOK, ResumeHasReason, NEW frames \in Seq(Telling), wire' = wire \o frames,
         AnswerDue => AnswerDue' \/ \E i \in DOMAIN frames : EndsWait(frames[i])
  PROVE  /\ wire' \in Seq(FrameSet)
         /\ ResumeHasReason'
         /\ AnswerComes \/ AnswerDue => (AnswerComes \/ AnswerDue)'
         /\ \A i \in DOMAIN frames : EndsWait(frames[i]) => AnswerComes'
<1>1. frames \in Seq(FrameSet) /\ \A i \in DOMAIN frames : frames[i].type # "resume"
  <2>1. \A u \in Seq(Telling) : u \in Seq(FrameSet) /\ \A i \in DOMAIN u : u[i] \in Telling
    BY DEF Telling
  <2> QED BY <2>1 DEF Telling
<1>2. /\ wire' \in Seq(FrameSet)
      /\ \A i \in DOMAIN wire : i \in DOMAIN wire' /\ wire'[i] = wire[i]
      /\ \A i \in DOMAIN frames :
           /\ Len(wire) + i \in DOMAIN wire' /\ wire'[Len(wire) + i] = frames[i]
           /\ \A j \in DOMAIN wire : Len(wire) + i > j
      /\ \A i \in DOMAIN wire' \ DOMAIN wire : \E j \in DOMAIN frames : wire'[i] = frames[j]
  BY <1>1, FramesSent
<1>3. \A i \in DOMAIN frames : EndsWait(frames[i]) =>
        \E j \in DOMAIN wire' : EndsWait(wire'[j]) /\ \A k \in DOMAIN wire : j > k
  BY <1>2
<1>4. ResumeHasReason'
  <2> SUFFICES ASSUME NEW i \in DOMAIN wire', wire'[i].type = "resume", ~AnswerDue'
               PROVE  \E j \in DOMAIN wire' : j > i /\ EndsWait(wire'[j])
    BY DEF ResumeHasReason
  <2>1. i \in DOMAIN wire /\ wire[i].type = "resume"
    BY <1>1, <1>2
  <2>2. CASE AnswerDue
    BY <1>3, <2>1, <2>2
  <2>3. CASE ~AnswerDue
    BY <1>2, <2>1, <2>3 DEF ResumeHasReason
  <2> QED BY <2>2, <2>3
<1> QED BY <1>2, <1>3, <1>4 DEF AnswerComes

(* Of a frame that is taken.                                                *)
LEMMA WaitTaken ==
  ASSUME ClientTypeOK, ResumeHasReason, wire # <<>>, wire' = Tail(wire),
         UNCHANGED <<members, phase>>
  PROVE  /\ wire' \in Seq(FrameSet) /\ Head(wire) \in FrameSet
         /\ ResumeHasReason'
         /\ AnswerDue' <=> AnswerDue
         /\ AnswerComes /\ ~EndsWait(Head(wire)) => AnswerComes'
         /\ Head(wire).type = "resume" => (AnswerComes \/ AnswerDue)'
<1>1. /\ wire' \in Seq(FrameSet) /\ 1 \in DOMAIN wire /\ Head(wire) = wire[1]
      /\ DOMAIN wire \subseteq Nat /\ DOMAIN wire' \subseteq Nat
      /\ wire[1] \in FrameSet
      /\ \A i \in DOMAIN wire : i # 1 => i - 1 \in DOMAIN wire' /\ wire'[i - 1] = wire[i]
      /\ \A i \in DOMAIN wire' : i + 1 \in DOMAIN wire /\ wire'[i] = wire[i + 1]
  BY FrameTaken
<1>2. AnswerDue' <=> AnswerDue
  BY DEF AnswerDue, Unanswered
<1>3. ResumeHasReason'
  <2> SUFFICES ASSUME NEW i \in DOMAIN wire', wire'[i].type = "resume", ~AnswerDue
               PROVE  \E j \in DOMAIN wire' : j > i /\ EndsWait(wire'[j])
    BY <1>2 DEF ResumeHasReason
  <2>1. PICK j \in DOMAIN wire : j > i + 1 /\ EndsWait(wire[j])
    BY <1>1 DEF ResumeHasReason
  <2>2. i \in Nat /\ j \in Nat /\ j # 1
    BY <1>1, <2>1
  <2>3. j - 1 \in DOMAIN wire' /\ j - 1 > i /\ wire'[j - 1] = wire[j]
    BY <1>1, <2>1, <2>2
  <2> QED BY <2>1, <2>3
<1>4. AnswerComes /\ ~EndsWait(Head(wire)) => AnswerComes'
  BY <1>1 DEF AnswerComes
<1>5. Head(wire).type = "resume" => (AnswerComes \/ AnswerDue)'
  <2> SUFFICES ASSUME wire[1].type = "resume", ~AnswerDue PROVE AnswerComes'
    BY <1>1, <1>2
  <2>1. PICK j \in DOMAIN wire : j > 1 /\ EndsWait(wire[j])
    BY <1>1 DEF ResumeHasReason
  <2>2. j # 1
    BY <1>1, <2>1
  <2>3. j - 1 \in DOMAIN wire' /\ EndsWait(wire'[j - 1])
    BY <1>1, <2>1, <2>2
  <2> QED BY <2>3 DEF AnswerComes
<1> QED BY <1>1, <1>2, <1>3, <1>4, <1>5

(* A wire that stays, in a session where as much is due as before.          *)
LEMMA WaitStays ==
  ASSUME ClientTypeOK, ResumeHasReason, UNCHANGED wire, AnswerDue => AnswerDue'
  PROVE  /\ wire' \in Seq(FrameSet)
         /\ ResumeHasReason'
         /\ AnswerComes \/ AnswerDue => (AnswerComes \/ AnswerDue)'
BY DEF ResumeHasReason, AnswerComes, ClientTypeOK, FrameSet

(* The steps that nobody's stream takes: of the connection, of the user and *)
(* of the server taking requests.                                           *)
LEMMA WaitConnection ==
  ASSUME WaitInv, Connect \/ ConnectBlank \/ GoAstray \/ Drop
  PROVE  ClientTypeOK' /\ OnlyWhenUp' /\ ResumeHasReason' /\ AnswerIsSure'
<1> USE DEF WaitInv
<1>1. CASE Connect
  <2>1. /\ link' = "up" /\ wire' = Resume /\ uplink' = <<>> /\ ~processing /\ dropped' = FALSE
        /\ UNCHANGED <<hasUrl, requester, extras, processing, muted, spinner, live>>
        /\ Tab \in members' /\ UNCHANGED <<phase, len, current>>
    BY <1>1 DEF Connect, Join, OnlyWhenUp
  <2>2. /\ wire' \in Seq(FrameSet)
        /\ \A i \in DOMAIN wire' : wire'[i].type = "resume" => Streaming
    <3>1. CASE ~Replayable
      <4>1. wire' = <<>>
        BY <2>1, <3>1 DEF Resume
      <4> QED BY <4>1
    <3>2. CASE Replayable
      <4> DEFINE f == Frame(IF Streaming THEN "resume" ELSE "replay", current, len[current])
      <4>1. wire' = <<f>>
        BY <2>1, <3>2 DEF Resume
      <4>2. current \in 0 .. MaxMessages /\ len[current] \in 0 .. MaxChunks
        BY <3>2, TabBoundsAssumption DEF Replayable, ServiceInv, NoReply, Ids
      <4>3. f \in FrameSet /\ (f.type = "resume" => Streaming)
        BY <4>2 DEF Frame, Piece, FrameSet
      <4> HIDE DEF f
      <4> QED BY <4>1, <4>3
    <3> QED BY <3>1, <3>2
  <2>3. Streaming => AnswerDue'
    <3>1. current # NoReply => current \in Ids
      BY TabBoundsAssumption DEF ServiceInv, NoReply, Ids
    <3> QED BY <2>1, <3>1 DEF Streaming, AnswerDue, Unanswered
  <2>4. requester' = {} /\ ~processing'
    BY <1>1, <2>1 DEF OnlyWhenUp, Connect
  <2>5. OnlyWhenUp' /\ ResumeHasReason' /\ AnswerIsSure'
    BY <2>1, <2>2, <2>3, <2>4 DEF OnlyWhenUp, ResumeHasReason, AnswerIsSure
  <2>6. <<>> \in Seq({"message", "cancel", "slash"})
    OBVIOUS
  <2> QED BY <2>1, <2>2, <2>5, <2>6 DEF ClientTypeOK, FrameSet
<1>2. CASE ConnectBlank \/ GoAstray
  <2>1. /\ link # "up" /\ link' \in {"up", "astray"}
        /\ UNCHANGED <<service, hasUrl, wire, uplink, requester, extras, screen>>
    BY <1>2 DEF ConnectBlank, GoAstray
  <2>2. ~processing /\ Tab \notin members /\ wire = <<>> /\ uplink = <<>>
    BY <2>1 DEF OnlyWhenUp
  <2> QED BY <2>1, <2>2 DEF service, screen, ClientTypeOK, OnlyWhenUp, ResumeHasReason,
             AnswerIsSure
<1>3. CASE Drop
  <2>1. /\ link' = "down" /\ wire' = <<>> /\ uplink' = <<>> /\ requester' = {}
        /\ ~processing' /\ ~spinner' /\ ~live' /\ Tab \notin members'
        /\ {processing', spinner', live'} \subseteq BOOLEAN
        /\ UNCHANGED <<hasUrl, extras, muted, dropped>>
    BY <1>3 DEF Drop, LeavesSession, Leave, Finalise
  <2> QED BY <2>1 DEF ClientTypeOK, OnlyWhenUp, ResumeHasReason, AnswerIsSure
<1> QED BY <1>1, <1>2, <1>3

LEMMA WaitUser ==
  ASSUME WaitInv, Send \/ Slash \/ CancelProcessing
  PROVE  ClientTypeOK' /\ OnlyWhenUp' /\ ResumeHasReason' /\ AnswerIsSure'
<1> USE DEF WaitInv
<1>1. PICK f \in {"message", "cancel", "slash"} :
        /\ link = "up" /\ uplink' = Append(uplink, f)
        /\ f = "cancel" => muted'
  BY DEF Send, Slash, CancelProcessing, Sends, Mute
<1>2. /\ UNCHANGED <<members, phase, hasUrl, link, wire, requester, dropped>>
      /\ extras' \in 0 .. MaxExtras
      /\ {processing', muted', spinner', live'} \subseteq BOOLEAN
  <2>1. CASE Send
    BY <2>1 DEF Send, Unmute, service, ClientTypeOK
  <2>2. CASE Slash
    <3>1. /\ extras < MaxExtras /\ extras' = extras + 1 /\ muted' = FALSE
          /\ UNCHANGED <<members, phase, hasUrl, link, wire, requester, dropped, processing,
                         spinner, live>>
      BY <2>2 DEF Slash, Unmute, service
    <3>2. extras' \in 0 .. MaxExtras
      BY <3>1, TabBoundsAssumption DEF ClientTypeOK
    <3> QED BY <3>1, <3>2 DEF ClientTypeOK
  <2>3. CASE CancelProcessing
    BY <2>3 DEF CancelProcessing, Mute, Finalise, service, ClientTypeOK
  <2> QED BY <2>1, <2>2, <2>3
<1>3. /\ uplink' \in Seq({"message", "cancel", "slash"})
      /\ \E i \in DOMAIN uplink' : uplink'[i] = f
  BY <1>1, RequestSent
<1>4. ResumeHasReason'
  BY <1>2, WaitStays DEF AnswerDue, Unanswered
<1>5. ~muted' => Asks'
  BY <1>1, <1>3 DEF Asks
<1> QED BY <1>1, <1>2, <1>3, <1>4, <1>5 DEF ClientTypeOK, OnlyWhenUp, AnswerIsSure

LEMMA WaitServer ==
  ASSUME WaitInv, ServerTakes
  PROVE  ClientTypeOK' /\ OnlyWhenUp' /\ ResumeHasReason' /\ AnswerIsSure'
<1> USE DEF WaitInv
<1>1. /\ uplink # <<>> /\ uplink' = Tail(uplink) /\ link = "up"
      /\ UNCHANGED <<hasUrl, link, extras, processing, muted, spinner, live>>
      /\ dropped' \in BOOLEAN
  BY DEF ServerTakes, TakeMessage, TakeCancel, TakeSlash, Takes, screen, OnlyWhenUp, ClientTypeOK
<1>2. /\ uplink' \in Seq({"message", "cancel", "slash"})
      /\ Asks /\ Head(uplink) = "cancel" => Asks'
  BY <1>1, RequestTaken DEF Asks
<1>3. CASE TakeMessage
  <2>1. /\ UNCHANGED wire /\ sent + 1 \in Ids /\ Tab \in members'
        /\ phase' = [Cut EXCEPT ![sent + 1] = "open"]
        /\ requester' = requester \union {sent + 1}
    BY <1>3, TabBoundsAssumption DEF TakeMessage, Ask, ServiceInv, Ids
  <2>2. AnswerDue'
    BY <2>1 DEF AnswerDue, Unanswered, Cut
  <2>3. ResumeHasReason'
    BY <2>1, <2>2, WaitStays
  <2> QED BY <1>1, <1>2, <2>1, <2>2, <2>3 DEF ClientTypeOK, OnlyWhenUp, AnswerIsSure
<1>4. CASE TakeCancel
  <2>1. UNCHANGED <<wire, requester, members>> /\ phase' = Cut /\ Head(uplink) = "cancel"
    BY <1>4 DEF TakeCancel, Cancel, Takes
  <2>2. AnswerDue => AnswerDue'
    BY <2>1 DEF AnswerDue, Unanswered, Cut
  <2>3. /\ ResumeHasReason'
        /\ AnswerComes \/ AnswerDue => (AnswerComes \/ AnswerDue)'
    BY <2>1, <2>2, WaitStays
  <2> QED BY <1>1, <1>2, <2>1, <2>3 DEF ClientTypeOK, OnlyWhenUp, AnswerIsSure
<1>5. CASE TakeSlash
  <2> DEFINE frames == <<Frame("chunk", 0, 0), Frame("complete", 0, 0)>>
  <2>1. UNCHANGED <<requester, members, phase>> /\ wire' = wire \o frames
    BY <1>5 DEF TakeSlash, Transmit, service
  <2>2. Frame("chunk", 0, 0) \in Telling /\ Frame("complete", 0, 0) \in Telling
        /\ Frame("complete", 0, 0).type = "complete"
    BY TabBoundsAssumption DEF Frame, Piece, Telling, FrameSet
  <2>3. frames \in Seq(Telling) /\ 2 \in DOMAIN frames /\ frames[2].type = "complete"
    <3> HIDE DEF Frame
    <3> QED BY <2>2
  <2> HIDE DEF frames
  <2>4. AnswerDue => AnswerDue'
    BY <2>1 DEF AnswerDue, Unanswered
  <2>5. /\ wire' \in Seq(FrameSet) /\ ResumeHasReason'
        /\ \A i \in DOMAIN frames : EndsWait(frames[i]) => AnswerComes'
    BY <2>1, <2>3, <2>4, WaitBehind
  <2>6. AnswerComes'
    BY <2>3, <2>5 DEF EndsWait
  <2> QED BY <1>1, <1>2, <2>1, <2>5, <2>6 DEF ClientTypeOK, FrameSet, OnlyWhenUp, AnswerIsSure
<1> QED BY <1>3, <1>4, <1>5 DEF ServerTakes

(* What is told of streams, to this tab or because of another.              *)
LEMMA WaitStreams ==
  ASSUME WaitInv,
         \/ \E m \in Ids : Relays(m) \/ Status(m)
         \/ \E c \in Clients \ {Tab} : OtherTab(c)
         \/ Expires
  PROVE  ClientTypeOK' /\ OnlyWhenUp' /\ ResumeHasReason' /\ AnswerIsSure'
<1> USE DEF WaitInv
<1>1. /\ UNCHANGED <<hasUrl, link, uplink, requester, processing, muted, spinner, live>>
      /\ extras' \in 0 .. MaxExtras /\ dropped' \in BOOLEAN
      /\ Tab \in members' => Tab \in members
  <2>1. ASSUME NEW m \in Ids, Relays(m)
        PROVE  UNCHANGED <<hasUrl, link, uplink, requester, extras, screen, members>>
    BY <2>1 DEF Relays, Say, Complete, Fail, End, EndWithError, Ends, Moves
  <2>2. ASSUME NEW m \in Ids, Status(m)
        PROVE  /\ UNCHANGED <<hasUrl, link, uplink, requester, screen, members>>
               /\ extras' \in 0 .. MaxExtras
    BY <2>2, TabBoundsAssumption DEF Status, service, ClientTypeOK
  <2>3. ASSUME NEW c \in Clients \ {Tab}, OtherTab(c)
        PROVE  /\ UNCHANGED <<net, processing, muted, spinner, live>> /\ dropped' \in BOOLEAN
               /\ Tab \in members' => Tab \in members
    BY <2>3 DEF OtherTab, Cancel, Ask, ClientTypeOK
  <2>4. ASSUME Expires PROVE UNCHANGED <<net, screen, members>>
    BY <2>4 DEF Expires, Expire
  <2> QED BY <2>1, <2>2, <2>3, <2>4 DEF net, screen, ClientTypeOK
<1>2. ASSUME NEW frames \in Seq(Telling), wire' = wire \o frames, link = "up" \/ UNCHANGED wire,
             AnswerDue => AnswerDue' \/ \E i \in DOMAIN frames : EndsWait(frames[i])
      PROVE  ClientTypeOK' /\ OnlyWhenUp' /\ ResumeHasReason' /\ AnswerIsSure'
  <2>1. /\ wire' \in Seq(FrameSet)
        /\ ResumeHasReason'
        /\ AnswerComes \/ AnswerDue => (AnswerComes \/ AnswerDue)'
    BY <1>2, WaitBehind
  <2> QED BY <1>1, <1>2, <2>1 DEF ClientTypeOK, FrameSet, OnlyWhenUp, AnswerIsSure, Asks
<1>3. ASSUME UNCHANGED wire, AnswerDue => AnswerDue'
      PROVE  ClientTypeOK' /\ OnlyWhenUp' /\ ResumeHasReason' /\ AnswerIsSure'
  <2>1. /\ ResumeHasReason'
        /\ AnswerComes \/ AnswerDue => (AnswerComes \/ AnswerDue)'
    BY <1>3, WaitStays
  <2> QED BY <1>1, <1>3, <2>1 DEF ClientTypeOK, OnlyWhenUp, AnswerIsSure, Asks
<1>4. ASSUME NEW m \in Ids, Relays(m)
      PROVE  ClientTypeOK' /\ OnlyWhenUp' /\ ResumeHasReason' /\ AnswerIsSure'
  <2>1. PICK frames \in Seq(Telling) : Tells(frames)
    BY <1>4, StreamTells
  <2>2. link = "up" \/ UNCHANGED wire
    BY <1>4 DEF Relays, Broadcast, OnlyWhenUp
  <2> QED BY <1>2, <2>1, <2>2 DEF Tells
<1>5. ASSUME NEW m \in Ids, Status(m)
      PROVE  ClientTypeOK' /\ OnlyWhenUp' /\ ResumeHasReason' /\ AnswerIsSure'
  <2>1. PICK frames \in Seq(Telling) : wire' = wire \o frames
    <3> DEFINE f == Frame("status", m, 0)
    <3>1. f \in Telling
      BY TabBoundsAssumption DEF Frame, Piece, Telling, FrameSet, Ids
    <3>2. wire' = wire \o <<f>>
      BY <1>5 DEF Status, Transmit
    <3> HIDE DEF f
    <3>3. <<f>> \in Seq(Telling)
      BY <3>1
    <3> QED BY <3>2, <3>3
  <2>2. AnswerDue => AnswerDue'
    BY <1>5 DEF Status, service, AnswerDue, Unanswered
  <2>3. link = "up" \/ UNCHANGED wire
    BY <1>5 DEF Status, OnlyWhenUp
  <2> QED BY <1>2, <2>1, <2>2, <2>3
<1>6. ASSUME NEW c \in Clients \ {Tab}, OtherTab(c)
      PROVE  ClientTypeOK' /\ OnlyWhenUp' /\ ResumeHasReason' /\ AnswerIsSure'
  <2>1. UNCHANGED wire /\ members \subseteq members'
        /\ \A m \in Ids : Unanswered(m) => Unanswered(m)'
    BY <1>6 DEF OtherTab, net, Cancel, Ask, Cut, Unanswered, ServiceInv
  <2> QED BY <1>3, <2>1 DEF AnswerDue
<1>7. CASE Expires
  BY <1>3, <1>7 DEF Expires, Expire, net, AnswerDue, Unanswered
<1> QED BY <1>4, <1>5, <1>6, <1>7

(* The tab takes a frame.                                                   *)
LEMMA WaitTab ==
  ASSUME WaitInv, OnMessage
  PROVE  ClientTypeOK' /\ OnlyWhenUp' /\ ResumeHasReason' /\ AnswerIsSure'
<1> USE DEF WaitInv
<1>1. /\ link = "up" /\ wire # <<>> /\ wire' = Tail(wire)
      /\ UNCHANGED <<service, hasUrl, link, uplink, requester, extras, muted>>
      /\ {processing', spinner', live'} \subseteq BOOLEAN /\ dropped' \in BOOLEAN
  BY DEF OnMessage, HandleChunk, HandleComplete, HandleError, HandleConductorStatus,
     HandleResume, HandleReplay, Receives, Finalise, ClientTypeOK
<1>2. UNCHANGED <<members, phase>>
  BY <1>1 DEF service
<1>3. /\ wire' \in Seq(FrameSet)
      /\ ResumeHasReason'
      /\ AnswerDue' <=> AnswerDue
      /\ AnswerComes /\ ~EndsWait(Head(wire)) => AnswerComes'
      /\ Head(wire).type = "resume" => (AnswerComes \/ AnswerDue)'
  BY <1>1, <1>2, WaitTaken
<1>4. processing' /\ ~muted => (processing /\ ~EndsWait(Head(wire))) \/ Head(wire).type = "resume"
  BY DEF OnMessage, HandleChunk, HandleComplete, HandleError, HandleConductorStatus,
     HandleResume, HandleReplay, Receives, Finalise, EndsWait
<1>5. AnswerIsSure'
  BY <1>1, <1>3, <1>4 DEF AnswerIsSure, Asks
<1> QED BY <1>1, <1>2, <1>3, <1>5 DEF ClientTypeOK, FrameSet, OnlyWhenUp

LEMMA WaitStep == WaitInv /\ [ClientNext]_cvars => WaitInv'
<1> SUFFICES ASSUME WaitInv, [ClientNext]_cvars PROVE WaitInv'
  OBVIOUS
<1>1. ServiceInv'
  BY ServiceStep DEF WaitInv
<1>2. CASE UNCHANGED cvars
  BY <1>1, <1>2 DEF cvars, service, net, screen, WaitInv, ClientTypeOK, OnlyWhenUp, ResumeHasReason,
     AnswerIsSure, Asks, AnswerComes, AnswerDue, Unanswered
<1>3. CASE ClientNext
  BY <1>1, <1>3, WaitConnection, WaitUser, WaitServer, WaitStreams, WaitTab DEF ClientNext, WaitInv
<1> QED BY <1>2, <1>3

LEMMA WaitCorrect == ClientSpec => []WaitInv
<1>1. ClientInit => WaitInv
  <2> SUFFICES ASSUME ClientInit PROVE WaitInv
    OBVIOUS
  <2>1. ServiceInv
    BY TabBoundsAssumption DEF ClientInit, ServiceInv, Ids, NoReply
  <2>2. /\ link = "down" /\ wire = <<>> /\ uplink = <<>> /\ requester = {} /\ extras = 0
        /\ ~processing /\ {processing, muted, spinner, live, dropped, hasUrl} \subseteq BOOLEAN
        /\ Tab \notin members
    BY DEF ClientInit
  <2>3. OnlyWhenUp /\ ResumeHasReason /\ AnswerIsSure
    BY <2>2 DEF OnlyWhenUp, ResumeHasReason, AnswerIsSure
  <2>4. ClientTypeOK
    BY <2>2, TabBoundsAssumption DEF ClientTypeOK
  <2> QED BY <2>1, <2>3, <2>4 DEF WaitInv
<1> QED BY <1>1, WaitStep, PTL DEF ClientSpec

(* Every variable of the tab has its type, and it is in the session only    *)
(* while its socket is up.                                                  *)
THEOREM ClientTypeCorrect == ClientSpec => []ClientTypeOK
<1>1. WaitInv => ClientTypeOK
  BY DEF WaitInv
<1> QED BY <1>1, WaitCorrect, PTL

(* A tab that waits, and was not cancelled, has its question or the last    *)
(* frame of an answer under way, or is in a session that owes it one: no    *)
(* order of frames, cancels, slash commands, other tabs' questions, drops   *)
(* and reconnections leaves isProcessing set for nothing.                   *)
THEOREM WaitReasonCorrect == ClientSpec => []WaitHasReason
BY WaitInvSuffices, WaitCorrect, PTL

-----------------------------------------------------------------------------
(* What the steps leave of the chunks under way.                            *)

(* A step that sends, and shows nothing less.                               *)
LEMMA ChunksBehind ==
  ASSUME WaitInv, ChunksArrive, NEW frames \in Seq(FrameSet), wire' = wire \o frames,
         UNCHANGED current, shown \subseteq shown',
         Tab \in members' /\ ~dropped' => Tab \in members /\ ~dropped,
         Tab \in members /\ current \in Ids =>
           \A k \in 1 .. len'[current] :
             \/ k \in 1 .. len[current]
             \/ \E i \in DOMAIN frames : frames[i] = Frame("chunk", current, k)
  PROVE  ChunksArrive'
<1> SUFFICES ASSUME Tab \in members, ~dropped, current # NoReply, NEW k \in 1 .. len'[current]
             PROVE  \/ Piece(current, k) \in shown'
                    \/ \E i \in DOMAIN wire' : Piece(current, k) \in Carried(wire'[i])
  BY DEF ChunksArrive, Piece
<1>1. /\ \A i \in DOMAIN wire : i \in DOMAIN wire' /\ wire'[i] = wire[i]
      /\ \A i \in DOMAIN frames :
           Len(wire) + i \in DOMAIN wire' /\ wire'[Len(wire) + i] = frames[i]
  BY FramesSent DEF WaitInv
<1>2. current \in Ids
  BY TabBoundsAssumption DEF WaitInv, ServiceInv, Ids, NoReply
<1>3. CASE k \in 1 .. len[current]
  BY <1>1, <1>3 DEF ChunksArrive
<1>4. CASE k \notin 1 .. len[current]
  <2>1. PICK i \in DOMAIN frames : frames[i] = Frame("chunk", current, k)
    BY <1>2, <1>4
  <2>2. Piece(current, k) \in Carried(frames[i])
    BY <2>1 DEF Frame, Carried
  <2> QED BY <1>1, <2>2
<1> QED BY <1>3, <1>4

(* A step that takes no frame and says no chunk.                            *)
LEMMA ChunksStay ==
  ASSUME ChunksArrive, UNCHANGED <<wire, current, shown, len>>,
         Tab \in members' /\ ~dropped' => Tab \in members /\ ~dropped
  PROVE  ChunksArrive'
BY DEF ChunksArrive

(* A question: its reply has no chunk yet.                                  *)
LEMMA ChunksAsked ==
  ASSUME ServiceInv, NEW c \in Clients, Ask(c)
  PROVE  ChunksArrive'
<1>1. sent + 1 \in Ids /\ current' = sent + 1 /\ len' = len /\ sent + 1 > sent
  BY TabBoundsAssumption DEF ServiceInv, Ask, Ids
<1>2. len[sent + 1] = 0
  BY <1>1 DEF ServiceInv
<1> QED BY <1>1, <1>2 DEF ChunksArrive

(* A frame that is taken: its chunks are shown, or ignored.                 *)
LEMMA ChunksTaken ==
  ASSUME WaitInv, ChunksArrive, wire # <<>>, wire' = Tail(wire),
         UNCHANGED <<members, current, len>>, shown \subseteq shown',
         ~dropped' => ~dropped /\
           \A p \in Carried(Head(wire)) : p.msg = current => p \in shown'
  PROVE  ChunksArrive'
<1> SUFFICES ASSUME Tab \in members, ~dropped', current # NoReply, NEW k \in 1 .. len[current]
             PROVE  \/ Piece(current, k) \in shown'
                    \/ \E i \in DOMAIN wire' : Piece(current, k) \in Carried(wire'[i])
  BY DEF ChunksArrive, Piece
<1>1. /\ Head(wire) = wire[1]
      /\ \A i \in DOMAIN wire : i # 1 => i - 1 \in DOMAIN wire' /\ wire'[i - 1] = wire[i]
  BY FrameTaken DEF WaitInv
<1>2. CASE Piece(current, k) \in shown
  BY <1>2
<1>3. ASSUME NEW i \in DOMAIN wire, Piece(current, k) \in Carried(wire[i])
      PROVE  \/ Piece(current, k) \in shown'
             \/ \E j \in DOMAIN wire' : Piece(current, k) \in Carried(wire'[j])
  <2>1. CASE i = 1
    BY <1>1, <1>3, <2>1 DEF Piece
  <2>2. CASE i # 1
    BY <1>1, <1>3, <2>2
  <2> QED BY <2>1, <2>2
<1> QED BY <1>2, <1>3 DEF ChunksArrive

LEMMA ChunksStep == WaitInv /\ ChunksArrive /\ [ClientNext]_cvars => ChunksArrive'
<1> SUFFICES ASSUME WaitInv, ChunksArrive, [ClientNext]_cvars PROVE ChunksArrive'
  OBVIOUS
<1>1. CASE UNCHANGED cvars
  BY <1>1, ChunksStay DEF cvars, service, net, screen
<1>2. CASE Connect
  <2>1. wire' = Resume /\ UNCHANGED <<current, len>>
    BY <1>2 DEF Connect, Join
  <2> SUFFICES ASSUME current # NoReply, NEW k \in 1 .. len[current]
               PROVE  \E i \in DOMAIN wire' : Piece(current, k) \in Carried(wire'[i])
    BY <2>1 DEF ChunksArrive, Piece
  <2>2. len[current] > 0 /\ len[current] \in Nat
    BY TabBoundsAssumption DEF WaitInv, ServiceInv, Ids, NoReply
  <2> DEFINE f == Frame(IF Streaming THEN "resume" ELSE "replay", current, len[current])
  <2>3. wire' = <<f>>
    BY <2>1, <2>2 DEF Resume, Replayable
  <2>4. Piece(current, k) \in Carried(f)
    BY <2>2 DEF Frame, Piece, Pieces, Carried
  <2> HIDE DEF f
  <2> QED BY <2>3, <2>4
<1>3. CASE ConnectBlank \/ GoAstray
  BY <1>3, ChunksStay DEF ConnectBlank, GoAstray, service, screen
<1>4. CASE Drop
  BY <1>4 DEF Drop, LeavesSession, Leave, ChunksArrive
<1>5. CASE Send \/ Slash \/ CancelProcessing
  BY <1>5, ChunksStay DEF Send, Slash, CancelProcessing, Sends, service
<1>6. CASE TakeMessage
  BY <1>6, ChunksAsked, TabAssumption DEF TakeMessage, WaitInv
<1>7. CASE TakeCancel
  BY <1>7, ChunksStay DEF TakeCancel, Cancel, screen
<1>8. ASSUME NEW frames \in Seq(FrameSet), wire' = wire \o frames,
             UNCHANGED <<members, current, len, screen>>
      PROVE  ChunksArrive'
  BY <1>8, ChunksBehind DEF screen
<1>9. CASE TakeSlash
  <2> DEFINE f == Frame("chunk", 0, 0)
             g == Frame("complete", 0, 0)
  <2>1. wire' = wire \o <<f, g>> /\ UNCHANGED <<members, current, len, screen>>
    BY <1>9 DEF TakeSlash, Transmit, service
  <2>2. f \in FrameSet /\ g \in FrameSet
    BY TabBoundsAssumption DEF Frame, Piece, FrameSet
  <2> HIDE DEF f, g
  <2>3. <<f, g>> \in Seq(FrameSet)
    BY <2>2
  <2> QED BY <1>8, <2>1, <2>3
<1>10. ASSUME NEW m \in Ids, Relays(m) PROVE ChunksArrive'
  <2>1. PICK frames \in Seq(Telling) : Tells(frames)
    BY <1>10, StreamTells DEF WaitInv
  <2>2. frames \in Seq(FrameSet)
    <3>1. \A u \in Seq(Telling) : u \in Seq(FrameSet)
      BY DEF Telling
    <3> QED BY <3>1
  <2>3. UNCHANGED <<members, current, screen>>
    BY <1>10 DEF Relays, Say, Complete, Fail, End, EndWithError, Ends, Moves
  <2> QED BY <2>1, <2>2, <2>3, ChunksBehind DEF Tells, screen
<1>11. ASSUME NEW m \in Ids, Status(m) PROVE ChunksArrive'
  <2> DEFINE f == Frame("status", m, 0)
  <2>1. wire' = wire \o <<f>> /\ UNCHANGED <<members, current, len, screen>>
    BY <1>11 DEF Status, Transmit, service
  <2>2. f \in FrameSet
    BY TabBoundsAssumption DEF Frame, Piece, FrameSet, Ids
  <2> HIDE DEF f
  <2>3. <<f>> \in Seq(FrameSet)
    BY <2>2
  <2> QED BY <1>8, <2>1, <2>3
<1>12. ASSUME NEW c \in Clients \ {Tab}, OtherTab(c) PROVE ChunksArrive'
  <2>1. CASE Cancel(c) /\ UNCHANGED <<shown, dropped>>
    BY <1>12, <2>1, ChunksStay DEF OtherTab, Cancel, net
  <2>2. CASE Ask(c)
    BY <2>2, ChunksAsked DEF WaitInv
  <2> QED BY <1>12, <2>1, <2>2 DEF OtherTab
<1>13. CASE Expires
  BY <1>13 DEF Expires, Expire, ChunksArrive
<1>14. CASE OnMessage
  <2>1. /\ wire # <<>> /\ wire' = Tail(wire) /\ UNCHANGED service
        /\ UNCHANGED shown \/ \E pieces : Show(pieces)
        /\ UNCHANGED dropped \/ dropped' = (dropped \/ Now.msg = current)
    BY <1>14 DEF OnMessage, HandleChunk, HandleComplete, HandleError, HandleConductorStatus,
       HandleResume, HandleReplay, Receives
  <2>2. UNCHANGED <<members, current, len>> /\ shown \subseteq shown'
    BY <2>1 DEF Show, service
  <2>3. ~dropped' => \A p \in Carried(Head(wire)) : p.msg = current => p \in shown'
    BY <1>14 DEF OnMessage, HandleChunk, HandleComplete, HandleError, HandleConductorStatus,
       HandleResume, HandleReplay, Receives, Show, Now, Carried
  <2>4. ~dropped' => ~dropped
    BY <2>1
  <2> QED BY <2>1, <2>2, <2>3, <2>4, ChunksTaken
<1> QED BY <1>1, <1>2, <1>3, <1>4, <1>5, <1>6, <1>7, <1>9, <1>10, <1>11, <1>12, <1>13, <1>14
        DEF ClientNext, ServerTakes

(* Across drops, reconnections, cancels, other tabs and stale frames, a tab *)
(* that has taken all its frames has shown every chunk of the session's     *)
(* reply so far, but for those it ignored while it was cancelled: the       *)
(* replay of open() and the broadcasts behind it leave no gap.              *)
THEOREM EveryChunkCorrect == ClientSpec => []EveryChunkShown
<1>1. ClientInit => ChunksArrive
  BY DEF ClientInit, ChunksArrive
<1>2. WaitInv /\ ChunksArrive => EveryChunkShown
  <2> SUFFICES ASSUME WaitInv, ChunksArrive, Tab \in members, wire = <<>>, current # NoReply,
                      ~dropped, NEW p \in Pieces(current, len[current])
               PROVE  p \in shown
    BY DEF EveryChunkShown
  <2>1. PICK k \in 1 .. len[current] : p = Piece(current, k)
    BY DEF Pieces
  <2> QED BY <2>1 DEF ChunksArrive
<1> QED BY <1>1, <1>2, ChunksStep, WaitCorrect, PTL DEF ClientSpec
=============================================================================
