---------------------------- MODULE TurnPipeline ----------------------------
(***************************************************************************)
(* What the conductor does to a message between the door and the memory:   *)
(* prepareMessage(), the dispatch and finalizeResponse() of conductor.ts,  *)
(* conductor-hooks.ts, conductor-memory.ts, entity-extractor.ts and        *)
(* system-action-executor.ts, with the plugins whose hooks they await:     *)
(* plugin-manager.ts and hook-registry.ts.                                 *)
(*                                                                         *)
(* A turn is the run of handleMessageStreaming() or executeMessage() for   *)
(* one message.  External: what plugins answer, what the backend says, the *)
(* memory service, and the relay of websocket.ts, which stops listening    *)
(* once the signal is aborted, its timeout has fired or the turn was told  *)
(* to be over.                                                             *)
(***************************************************************************)
EXTENDS Naturals, Sequences, FiniteSets, SequencesExt

CONSTANTS
  Plugins,      \* the names of plugins
  Priority,     \* [Plugins -> Nat]
  Hooks,        \* [Plugins -> SUBSET HookName]: the declared handlers
  OwnHooks,     \* likewise: those that initialize() registers for itself
  Turns,
  MaxActions,   \* bound: system actions in a reply
  MaxCalls,     \* bound: calls of load() and unload() after the boot
  MaxHandlers   \* bound: registrations, for initialize() to add one

HookName == {"before_message", "after_search", "before_response",
             "after_response", "before_store"}

ASSUME PriorityAssumption == Priority \in [Plugins -> Nat]
ASSUME HooksAssumption ==
  Hooks \in [Plugins -> SUBSET HookName] /\ OwnHooks \in [Plugins -> SUBSET HookName]

VARIABLES
  listed,     \* [Plugins -> {"absent", "loaded", "error"}]
  handlers,   \* the registrations: a plugin's, how it came, its place in the list
  loading,    \* [Plugins -> Nat]: load() calls that await initialize()
  unloading,  \* [Plugins -> Nat]: unload() calls that await shutdown()
  unloadList, \* the names that PluginManager.shutdown() has yet to unload
  down,       \* "up", "closing", "closed", "failed"
  calls,      \* calls of load() and unload() so far
  raced,      \* ghost: plugins on which such calls overlapped
  connected,  \* memoryConnected
  kind,       \* [Turns -> {"streamed", "queued"}]: the method that runs it
  stage,      \* [Turns -> TurnStage]
  rest,       \* handlers of the waterfall that are still to run
  value,      \* its `current`
  cut,        \* turns aborted, or timed out at the relay
  reply,      \* has the reply text, has it action tags?
  over,       \* ghost: turns that came to their last event uncut
  refused,    \* ghost: turns that the last answer to `before_message` refused
  vetoed,     \* ghost: likewise `before_store`
  asked,      \* ghost: turns given to an agent or a backend
  acted,      \* system actions executed
  stored      \* [Turns -> SUBSET {"question", "entities", "reply"}]

plugs == <<listed, handlers, loading, unloading, unloadList, down, calls, raced>>
ghosts == <<over, refused, vetoed, asked>>
fixed == <<connected, kind>>
turnVars == <<plugs, fixed, stage, rest, value, cut, reply, ghosts, acted, stored>>

TurnStage == HookName \union
  {"new", "search", "resolve", "agent", "backend", "ending", "act", "extractor",
   "extract", "question", "answered", "done"}

(* How a registration came: from the definition's list, under the plugin's *)
(* name; or from initialize(), under that name or under none.              *)
Own == {"named", "nameless"}
Registering == {p \in Plugins : OwnHooks[p] # {}}

TurnInit ==
  /\ \E boot \in SUBSET Plugins : \E own \in SUBSET [plugin : boot \intersect Registering, how : Own] :
       LET made == [plugin : boot, how : {"declared"}] \union own IN
       \E place \in [made -> 1 .. Cardinality(made)] :
         /\ Cardinality(made) <= MaxHandlers /\ IsInjective(place)
         /\ \A m \in own : place[[plugin |-> m.plugin, how |-> "declared"]] < place[m]
         /\ listed = [p \in Plugins |-> IF p \in boot THEN "loaded" ELSE "absent"]
         /\ handlers = {[plugin |-> m.plugin, how |-> m.how, place |-> place[m]] : m \in made}
  /\ loading = [p \in Plugins |-> 0] /\ unloading = [p \in Plugins |-> 0]
  /\ unloadList = <<>> /\ down = "up" /\ calls = 0 /\ raced = {}
  /\ connected \in BOOLEAN /\ kind \in [Turns -> {"streamed", "queued"}]
  /\ stage = [t \in Turns |-> "new"]
  /\ rest = [t \in Turns |-> <<>>] /\ value = [t \in Turns |-> "given"]
  /\ cut = {} /\ reply = [t \in Turns |-> "none"]
  /\ over = {} /\ refused = {} /\ vetoed = {} /\ asked = {}
  /\ acted = [t \in Turns |-> 0]
  /\ stored = [t \in Turns |-> {}]

-----------------------------------------------------------------------------
(* Plugins. *)

(* register(): behind all that are there. *)
Registered(p, how) ==
  handlers \union {[plugin |-> p, how |-> how,
                    place |-> 1 + Max({0} \union {r.place : r \in handlers})]}

(* Those that bear the plugin's name. *)
RegistrationsOf(p) == {r \in handlers : r.plugin = p /\ r.how # "nameless"}

UnregisterPlugin(p) == handlers \ RegistrationsOf(p)

Overlaps(p) == IF loading[p] + unloading[p] > 0 THEN raced \union {p} ELSE raced

(* load(): the handlers run before initialize() has returned. *)
Load(p) ==
  /\ calls < MaxCalls /\ listed[p] = "absent"
  /\ calls' = calls + 1 /\ raced' = Overlaps(p)
  /\ handlers' = Registered(p, "declared")
  /\ loading' = [loading EXCEPT ![p] = @ + 1]
  /\ UNCHANGED <<listed, unloading, unloadList, down>>

(* initialize(registry) registers a handler for itself.                    *)
InitializeRegisters(p, how) ==
  /\ loading[p] > 0 /\ p \in Registering /\ Cardinality(handlers) < MaxHandlers
  /\ handlers' = Registered(p, how)
  /\ UNCHANGED <<listed, loading, unloading, unloadList, down, calls, raced>>

LoadEndsUnclean(p, status) ==
  /\ loading[p] > 0
  /\ loading' = [loading EXCEPT ![p] = @ - 1]
  /\ listed' = [listed EXCEPT ![p] = status]
  /\ UNCHANGED <<handlers, unloading, unloadList, down, calls, raced>>

(* initialize() has returned or thrown. *)
LoadEnds(p, status) ==
  /\ loading[p] > 0
  /\ loading' = [loading EXCEPT ![p] = @ - 1]
  /\ listed' = [listed EXCEPT ![p] = status]
  /\ handlers' = IF status = "error" THEN UnregisterPlugin(p) ELSE handlers
  /\ UNCHANGED <<unloading, unloadList, down, calls, raced>>

Unload(p) ==
  /\ calls < MaxCalls /\ listed[p] # "absent"
  /\ calls' = calls + 1 /\ raced' = Overlaps(p)
  /\ unloading' = [unloading EXCEPT ![p] = @ + 1]
  /\ UNCHANGED <<listed, handlers, loading, unloadList, down>>

(* The plugin's shutdown() has settled, either way. *)
Unloaded(p) ==
  /\ unloading[p] > 0
  /\ unloading' = [unloading EXCEPT ![p] = @ - 1]
  /\ handlers' = UnregisterPlugin(p)
  /\ listed' = [listed EXCEPT ![p] = "absent"]
  /\ UNCHANGED <<loading, calls, raced>>
  /\ \/ UNCHANGED <<unloadList, down>>
     \/ /\ down = "unloading" /\ Head(unloadList) = p
        /\ down' = "closing" /\ unloadList' = Tail(unloadList)

(* PluginManager.shutdown(): the names once, then unload() one by one; one *)
(* that is gone by then makes it throw.                                    *)
Shutdown ==
  /\ down = "up" /\ down' = "closing"
  /\ unloadList' = SetToSeq({p \in Plugins : listed[p] # "absent"})
  /\ UNCHANGED <<listed, handlers, loading, unloading, calls, raced>>

ShutdownUnloads ==
  /\ down = "closing" /\ unloadList # <<>> /\ listed[Head(unloadList)] # "absent"
  /\ down' = "unloading" /\ raced' = Overlaps(Head(unloadList))
  /\ unloading' = [unloading EXCEPT ![Head(unloadList)] = @ + 1]
  /\ UNCHANGED <<listed, handlers, loading, unloadList, calls>>

ShutdownOver ==
  /\ down = "closing"
  /\ \/ unloadList = <<>> /\ down' = "closed"
     \/ unloadList # <<>> /\ listed[Head(unloadList)] = "absent" /\ down' = "failed"
  /\ UNCHANGED <<listed, handlers, loading, unloading, unloadList, calls, raced>>

PluginStep ==
  /\ \/ \E p \in Plugins : \/ Load(p) \/ Unload(p) \/ Unloaded(p)
                           \/ LoadEnds(p, "loaded") \/ LoadEnds(p, "error")
     \/ \E p \in Plugins, how \in Own : InitializeRegisters(p, how)
     \/ Shutdown \/ ShutdownUnloads \/ ShutdownOver
  /\ UNCHANGED <<fixed, stage, rest, value, cut, reply, ghosts, acted, stored>>

-----------------------------------------------------------------------------
(* The waterfall. *)

(* Sorting keeps the order of equal priorities. *)
RunsBefore(r, q) ==
  \/ Priority[r.plugin] < Priority[q.plugin]
  \/ Priority[r.plugin] = Priority[q.plugin] /\ r.place < q.place

Answers(r, hook) ==
  hook \in IF r.how = "declared" THEN Hooks[r.plugin] ELSE OwnHooks[r.plugin]

(* getHandlersForType(): a snapshot, by plugin, in the order they run.     *)
HandlersFor(hook) ==
  LET sorted == SetToSortSeq({r \in handlers : Answers(r, hook)}, RunsBefore)
  IN  [i \in DOMAIN sorted |-> sorted[i].plugin]

To(t, where) == stage' = [stage EXCEPT ![t] = where]

Emit(t, hook) ==
  /\ To(t, hook)
  /\ rest' = [rest EXCEPT ![t] = HandlersFor(hook)]
  /\ value' = [value EXCEPT ![t] = "given"]

Goes(t, where) == To(t, where) /\ value' = [value EXCEPT ![t] = "given"] /\ UNCHANGED rest

Marked(set, t, answer) ==
  IF answer = "null" THEN set \union {t} ELSE set \ {t}

SkipsNull(t, answer) == IF answer = "null" THEN value[t] ELSE answer

(* `undefined` and a throw leave the current value, and null becomes it.   *)
AnswerOf(t, answer) == answer

(* The handler at the head answers; the next is given what it returned.    *)
Handle(t) ==
  /\ stage[t] \in HookName /\ rest[t] # <<>>
  /\ rest' = [rest EXCEPT ![t] = Tail(@)]
  /\ \/ UNCHANGED <<value, refused, vetoed>>
     \/ \E answer \in {"null", "changed"} :
          /\ value' = [value EXCEPT ![t] = AnswerOf(t, answer)]
          /\ refused' = IF stage[t] = "before_message"
                        THEN Marked(refused, t, answer) ELSE refused
          /\ vetoed' = IF stage[t] = "before_store"
                       THEN Marked(vetoed, t, answer) ELSE vetoed
  /\ UNCHANGED <<plugs, fixed, stage, cut, reply, over, asked, acted, stored>>

Ran(t, hook) == stage[t] = hook /\ rest[t] = <<>>

-----------------------------------------------------------------------------
(* The turn. *)

Begin(t) ==
  /\ stage[t] = "new"
  /\ IF t \in cut THEN Goes(t, "done") ELSE Emit(t, "before_message")
  /\ UNCHANGED <<plugs, fixed, cut, reply, ghosts, acted, stored>>

(* runBeforeMessageHook() returns null. *)
IsRejected(t) == value[t] = "null"

Prepare(t) ==
  /\ Ran(t, "before_message")
  /\ Goes(t, IF IsRejected(t) THEN "done" ELSE IF connected THEN "search" ELSE "resolve")
  /\ UNCHANGED <<plugs, fixed, cut, reply, ghosts, acted, stored>>

(* A search that fails is no reason to stop. *)
Searched(t) ==
  /\ stage[t] = "search" /\ Emit(t, "after_search")
  /\ UNCHANGED <<plugs, fixed, cut, reply, ghosts, acted, stored>>

Augmented(t) ==
  /\ Ran(t, "after_search") /\ Goes(t, "resolve")
  /\ UNCHANGED <<plugs, fixed, cut, reply, ghosts, acted, stored>>

(* To an agent; to the session's process, after a hook; or to none, whose  *)
(* spawn may also have thrown: then only a queued turn goes on, with a     *)
(* canned reply.                                                           *)
Dispatch(t) ==
  /\ stage[t] = "resolve"
  /\ \/ Goes(t, "agent") /\ asked' = asked \union {t} /\ UNCHANGED reply
     \/ Emit(t, "before_response") /\ UNCHANGED <<asked, reply>>
     \/ Goes(t, "done") /\ UNCHANGED <<asked, reply>>
     \/ /\ kind[t] = "queued" /\ Emit(t, "after_response")
        /\ reply' = [reply EXCEPT ![t] = "plain"] /\ UNCHANGED asked
  /\ UNCHANGED <<plugs, fixed, cut, over, refused, vetoed, acted, stored>>

Ask(t) ==
  /\ Ran(t, "before_response") /\ Goes(t, "backend")
  /\ asked' = asked \union {t}
  /\ UNCHANGED <<plugs, fixed, cut, reply, over, refused, vetoed, acted, stored>>

Answering(t) == stage[t] \in {"agent", "backend"}

Heard(t) == TRUE

(* The signal is looked at before an event is relayed; the relay leaves    *)
(* the generator at the event after its timeout.                           *)
Listens(t) == t \notin cut

(* Text, at once or in chunks. *)
Chunk(t) ==
  /\ Answering(t) /\ Listens(t)
  /\ reply[t] \in {"none", "plain"}
  /\ \E text \in {"plain", "tags"} :
       reply[t] # text /\ reply' = [reply EXCEPT ![t] = text]
  /\ UNCHANGED <<plugs, fixed, stage, rest, value, cut, ghosts, acted, stored>>

(* Whatever comes next ends a turn that nobody listens to. *)
LeaveCut(t) ==
  /\ Answering(t) /\ ~Listens(t)
  /\ Goes(t, "done")
  /\ UNCHANGED <<plugs, fixed, cut, reply, ghosts, acted, stored>>

(* `complete`, or the backend's own `error`: both let the loop end. *)
LastEvent(t) ==
  /\ Answering(t) /\ Listens(t)
  /\ over' = IF t \in cut THEN over ELSE over \union {t}
  /\ Goes(t, "ending")
  /\ UNCHANGED <<plugs, fixed, cut, reply, refused, vetoed, asked, acted, stored>>

(* A failure that is thrown ends the turn, but executeMessage() makes an   *)
(* apology of its backend's.                                               *)
Throws(t) ==
  /\ Answering(t)
  /\ IF kind[t] = "queued" /\ stage[t] = "backend"
     THEN Emit(t, "after_response") /\ reply' = [reply EXCEPT ![t] = "plain"]
     ELSE Goes(t, "done") /\ UNCHANGED reply
  /\ UNCHANGED <<plugs, fixed, cut, ghosts, acted, stored>>

(* One more event after the last one, as gemini may send: the relay has    *)
(* heard enough and leaves.                                                *)
EventTooMany(t) ==
  /\ stage[t] = "ending" /\ kind[t] = "streamed" /\ Goes(t, "done")
  /\ UNCHANGED <<plugs, fixed, cut, reply, ghosts, acted, stored>>

EndOfStream(t) ==
  /\ stage[t] = "ending" /\ Emit(t, "after_response")
  /\ UNCHANGED <<plugs, fixed, cut, reply, ghosts, acted, stored>>

Store(t) == IF connected THEN Goes(t, "extractor") ELSE Goes(t, "done")

(* finalizeResponse(): the hook may rewrite the text, with or without tags. *)
Filtered(t) ==
  /\ Ran(t, "after_response")
  /\ \E text \in IF value[t] = "changed" THEN {"plain", "tags"} ELSE {reply[t]} :
       /\ reply' = [reply EXCEPT ![t] = text]
       /\ IF text = "tags" THEN Goes(t, "act") ELSE Store(t)
  /\ UNCHANGED <<plugs, fixed, cut, ghosts, acted, stored>>

(* executeSystemActions(): one after the other, a failed one included.     *)
Act(t) ==
  /\ stage[t] = "act" /\ acted[t] < MaxActions
  /\ acted' = [acted EXCEPT ![t] = @ + 1]
  /\ UNCHANGED <<plugs, fixed, stage, rest, value, cut, reply, ghosts, stored>>

(* stripSystemActions() *)
ActionsDone(t) ==
  /\ stage[t] = "act" /\ acted[t] > 0
  /\ reply' = [reply EXCEPT ![t] = "plain"]
  /\ Store(t)
  /\ UNCHANGED <<plugs, fixed, cut, ghosts, acted, stored>>

-----------------------------------------------------------------------------
(* storeConversation(). *)

(* getExtractionSendFn() has returned; an empty message ends it here.      *)
ExtractorReady(t) ==
  /\ stage[t] = "extractor"
  /\ Emit(t, "before_store") \/ Goes(t, "done")
  /\ UNCHANGED <<plugs, fixed, cut, reply, ghosts, acted, stored>>

(* applyMemoryHook() returns null. *)
SkipsStore(t) == value[t] = "null"

StoreFiltered(t) ==
  /\ Ran(t, "before_store")
  /\ Goes(t, IF SkipsStore(t) THEN "done" ELSE "extract")
  /\ UNCHANGED <<plugs, fixed, cut, reply, ghosts, acted, stored>>

(* extractEntities() through the extraction process or the API: a timeout, *)
(* an error or a text too short to ask about leave the turn no entities.   *)
(* Then memory.store() of the question, which may fail for itself.         *)
Extracted(t) ==
  /\ stage[t] = "extract"
  /\ Goes(t, "question")
  /\ UNCHANGED <<plugs, fixed, cut, reply, ghosts, acted, stored>>

StoreQuestion(t) ==
  /\ stage[t] = "question"
  /\ \E what \in {{}, {"question"}, {"question", "entities"}} :
       stored' = [stored EXCEPT ![t] = what]
  /\ Goes(t, IF reply[t] = "none" THEN "done" ELSE "answered")
  /\ UNCHANGED <<plugs, fixed, cut, reply, ghosts, acted>>

(* The reply is stored whether or not the question was. *)
StoreReply(t) ==
  /\ stage[t] = "answered"
  /\ stored' \in {stored, [stored EXCEPT ![t] = @ \union {"reply"}]}
  /\ Goes(t, "done")
  /\ UNCHANGED <<plugs, fixed, cut, reply, ghosts, acted>>

(* A CANCEL, a newer question, or the relay's timeout; none of them knows  *)
(* how far the turn is.                                                    *)
Cut(t) ==
  /\ kind[t] = "streamed" /\ t \notin cut /\ stage[t] # "done"
  /\ cut' = cut \union {t}
  /\ UNCHANGED <<plugs, fixed, stage, rest, value, reply, ghosts, acted, stored>>

TurnStep(t) ==
  \/ Begin(t) \/ Handle(t) \/ Prepare(t) \/ Searched(t) \/ Augmented(t)
  \/ Dispatch(t) \/ Ask(t) \/ Chunk(t) \/ LeaveCut(t) \/ LastEvent(t)
  \/ Throws(t) \/ EventTooMany(t) \/ EndOfStream(t) \/ Filtered(t)
  \/ Act(t) \/ ActionsDone(t) \/ ExtractorReady(t) \/ StoreFiltered(t)
  \/ Extracted(t) \/ StoreQuestion(t) \/ StoreReply(t) \/ Cut(t)

TurnNext == PluginStep \/ \E t \in Turns : TurnStep(t)

TurnSpec == TurnInit /\ [][TurnNext]_turnVars

-----------------------------------------------------------------------------
(* Every variable has its type. *)
TurnTypeOK ==
  /\ listed \in [Plugins -> {"absent", "loaded", "error"}]
  /\ unloadList \in Seq(Plugins)
  /\ handlers \subseteq [plugin : Plugins, how : {"declared"} \union Own, place : Nat]
  /\ loading \in [Plugins -> 0 .. MaxCalls]
  /\ unloading \in [Plugins -> 0 .. MaxCalls + 1]
  /\ down \in {"up", "closing", "unloading", "closed", "failed"}
  /\ stage \in [Turns -> TurnStage] /\ rest \in [Turns -> Seq(Plugins)]
  /\ value \in [Turns -> {"given", "null", "changed"}]
  /\ reply \in [Turns -> {"none", "plain", "tags"}]
  /\ acted \in [Turns -> 0 .. MaxActions]
  /\ stored \in [Turns -> SUBSET {"question", "entities", "reply"}]

(* A plugin has its declared handlers registered, once, exactly as long as *)
(* it is being loaded or is listed as loaded; a failed load and an unload   *)
(* leave none behind that bears its name, whoever registered it.  Those     *)
(* that initialize() registers without a name are nobody's and stay.  Calls *)
(* of load() and unload() for one name that overlap may (raced).            *)
HandlersFollowPlugins ==
  \A p \in Plugins \ raced :
    IF loading[p] > 0 \/ listed[p] = "loaded"
    THEN Cardinality({r \in RegistrationsOf(p) : r.how = "declared"}) = 1
    ELSE RegistrationsOf(p) = {}

(* A message whose rejection no later handler undid reaches no backend,    *)
(* does nothing and is not remembered; a vetoed turn is not remembered.    *)
RefusalsHold ==
  \A t \in Turns :
    /\ t \in refused => t \notin asked /\ acted[t] = 0
    /\ t \in refused \union vetoed => stored[t] = {}

(* A streamed turn that is cut before its last event leaves nothing:       *)
(* neither memory nor an agent or a cron that its text asked for.          *)
CutLeavesNoTrace ==
  \A t \in Turns : kind[t] = "streamed" /\ t \notin over => acted[t] = 0 /\ stored[t] = {}

(* The text that was streamed has no action tags. *)
TagsHidden ==
  \A t \in Turns : kind[t] = "streamed" /\ Answering(t) => reply[t] # "tags"

=============================================================================
