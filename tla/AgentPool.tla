------------------------------ MODULE AgentPool ------------------------------
(***************************************************************************)
(* The pool of agents and the table it is saved in:                        *)
(* packages/agent-manager/src/agent-pool.ts with agent-store.ts, the       *)
(* system reset of routes/system.ts, and the boot of server-factory.ts.    *)
(*                                                                         *)
(* Every call waits for a plugin's hook or for an agent to stop or start,  *)
(* and writes the map and the table afterwards, whatever other calls have  *)
(* done to them meanwhile.  A step of this module is the code between two  *)
(* such waits; waits between which nothing shared is touched are one.      *)
(*                                                                         *)
(* An agent is seen as an object that runs or not (AgentProcess.tla has    *)
(* its inside): start() of one that runs throws, stop() ends it at once,   *)
(* the idle timeout may.  External: start() may fail, a plugin may reject, *)
(* and so may the database.                                                *)
(***************************************************************************)
EXTENDS Naturals, FiniteSets

CONSTANTS
  Ids,        \* agent ids
  Seeds,      \* the ids of the agents that come with the program
  Defs,       \* what a definition may say
  Objects,    \* bound: AgentProcess objects of an id, reused once forgotten
  Calls,      \* bound: calls of the routes under way at a time
  MaxAgents,  \* maxAgents
  None        \* no agent, no row, no id

Agent == [object : Objects, id : Ids, def : Defs]
Row == [def : Defs, modified : BOOLEAN]

ASSUME SetsAssumption ==
  /\ IsFiniteSet(Ids) /\ IsFiniteSet(Calls) /\ Seeds \subseteq Ids
  /\ None \notin Agent \union Row \union Ids \union Defs
ASSUME MaxAgentsAssumption == MaxAgents \in Nat \ {0}

VARIABLES
  agents,     \* the map `agents`
  running,    \* the agents that run
  store,      \* the table `agents`, by id
  call,       \* the route calls under way
  reset,      \* where the system reset or the boot is
  restoring,  \* the rows that restore() is starting, by id
  seedDef,    \* the seeds' definition in this release of the program
  raced,      \* ghost: ids with overlapping calls, or a call during a reset
  unsettled   \* ghost: ids whose agent failed to start, to be saved or to
              \* be deleted, or whose row was replaced when it already ran

vars == <<agents, running, store, call, reset, restoring, seedDef, raced, unsettled>>

NoCall == [pc |-> "idle", id |-> None, def |-> None, agent |-> None]
Pc == {"creating", "updating", "recovering", "deciding", "removing", "restarting"}
ResetState == {"idle", "stopping", "cleared", "restoring", "down", "booting"}
Nothing == [id \in Ids |-> None]

Init ==
  /\ agents = Nothing /\ running = {}
  /\ store = Nothing
  /\ call = [c \in Calls |-> NoCall]
  /\ reset = "down" /\ restoring = Nothing
  /\ seedDef \in Defs
  /\ raced = {} /\ unsettled = {}

-----------------------------------------------------------------------------
Present(f) == {id \in Ids : f[id] # None}
Pooled == {agents[id] : id \in Present(agents)}
CallsOn(id) == {c \in Calls : call[c].id = id}
Held == {call[c].agent : c \in Calls} \ {None}

New(object, id, def) == [object |-> object, id |-> id, def |-> def]
IsNew(object, id) ==
  \A a \in running \union Pooled \union Held : a.id = id => a.object # object

(* crypto.randomUUID(): an id that nothing bears, a seed's name excepted. *)
Fresh(id) ==
  /\ id \notin Seeds \union raced \union Present(agents) \union Present(store)
  /\ CallsOn(id) = {}
  /\ \A a \in running : a.id # id

(* Some definitions are preceded by a faulty variant of themselves, used in *)
(* no action: a plausible mistake that a property below would expose.       *)

LeaveRunning(stopped) == running

(* stop() of these agents. *)
Kill(stopped) == running \ stopped

KeepRow(id) == store

(* store.delete(id). *)
Deleted(id) == [store EXCEPT ![id] = None]

(* store.update(id): an UPDATE, which a missing row ignores. *)
UpdatedRow(id, def) ==
  [store EXCEPT ![id] = IF @ = None THEN @ ELSE [def |-> def, modified |-> TRUE]]

Begin(c, pc, id, def, a) ==
  /\ reset \notin {"down", "booting"} /\ call[c] = NoCall
  /\ call' = [call EXCEPT ![c] = [pc |-> pc, id |-> id, def |-> def, agent |-> a]]

At(c, pc) == call[c].pc = pc
Goto(c, pc) == call' = [call EXCEPT ![c].pc = pc]
Return(c) == call' = [call EXCEPT ![c] = NoCall]
Unsettle(id) == unsettled' = unsettled \union {id}

(* agents.set(a.id, a) when a has just started. *)
Enter(a) ==
  /\ agents' = [agents EXCEPT ![a.id] = a]
  /\ running' = running \union {a}

-----------------------------------------------------------------------------
(* create(): the limit is checked before the hook and the start.           *)
Create(c, id, def) ==
  /\ Fresh(id) /\ Cardinality(Present(agents)) < MaxAgents
  /\ Begin(c, "creating", id, def, None)
  /\ UNCHANGED <<agents, running, store, unsettled>>

(* The agent runs and joins the pool; the insert of its row may throw.     *)
Created(c, object) ==
  /\ At(c, "creating") /\ IsNew(object, call[c].id)
  /\ Enter(New(object, call[c].id, call[c].def))
  /\ \/ /\ store' = [store EXCEPT ![call[c].id] = [def |-> call[c].def, modified |-> FALSE]]
        /\ UNCHANGED unsettled
     \/ UNCHANGED store /\ Unsettle(call[c].id)
  /\ Return(c)

(* update(): the present agent is stopped, a new one started in its place. *)
Update(c, id, def) ==
  /\ agents[id] # None
  /\ Begin(c, "updating", id, def, agents[id])
  /\ running' = Kill({agents[id]})
  /\ UNCHANGED <<agents, store, unsettled>>

Updated(c, object) ==
  /\ At(c, "updating") /\ IsNew(object, call[c].id)
  /\ Enter(New(object, call[c].id, call[c].def))
  /\ \/ store' = UpdatedRow(call[c].id, call[c].def) /\ UNCHANGED unsettled
     \/ UNCHANGED store /\ Unsettle(call[c].id)
  /\ Return(c)

(* The new agent does not start: the old one is started again ... *)
UpdateFails(c) ==
  /\ At(c, "updating")
  /\ Goto(c, "recovering")
  /\ UNCHANGED <<agents, running, store, unsettled>>

Recovered(c) ==
  /\ At(c, "recovering") /\ call[c].agent \notin running
  /\ Enter(call[c].agent)
  /\ Return(c)
  /\ UNCHANGED <<store, unsettled>>

(* ... or the pool loses it, while its row stays. *)
RecoverFails(c) ==
  /\ At(c, "recovering")
  /\ agents' = [agents EXCEPT ![call[c].id] = None]
  /\ Unsettle(call[c].id)
  /\ Return(c)
  /\ UNCHANGED <<running, store>>

(* remove(): a plugin decides first. *)
Remove(c, id) ==
  /\ agents[id] # None
  /\ Begin(c, "deciding", id, None, agents[id])
  /\ UNCHANGED <<agents, running, store, unsettled>>

RemoveStops(c) ==
  /\ At(c, "deciding")
  /\ running' = Kill({call[c].agent})
  /\ Goto(c, "removing")
  /\ UNCHANGED <<agents, store, unsettled>>

(* The agent leaves the pool; the deletion of its row may throw.           *)
Removed(c) ==
  /\ At(c, "removing")
  /\ agents' = [agents EXCEPT ![call[c].id] = None]
  /\ \/ store' = Deleted(call[c].id) /\ UNCHANGED unsettled
     \/ UNCHANGED store /\ Unsettle(call[c].id)
  /\ Return(c)
  /\ UNCHANGED running

(* The restart route: stop() and start() of the same object. *)
Restart(c, id) ==
  /\ agents[id] # None
  /\ Begin(c, "restarting", id, None, agents[id])
  /\ running' = Kill({agents[id]})
  /\ UNCHANGED <<agents, store, unsettled>>

Restarted(c) ==
  /\ At(c, "restarting")
  /\ running' = running \union {call[c].agent}
  /\ Return(c)
  /\ UNCHANGED <<agents, store, unsettled>>

(* A plugin rejects the creation or the removal, the agent does not start, *)
(* or an update names a backend that is not installed.                     *)
GivesUp(c) ==
  /\ call[c].pc \in {"creating", "updating", "deciding", "restarting"}
  /\ Return(c)
  /\ UNCHANGED <<agents, running, store, unsettled>>

Call(c) ==
  \/ \E id \in Ids : Remove(c, id) \/ Restart(c, id)
  \/ \E id \in Ids, def \in Defs : Create(c, id, def) \/ Update(c, id, def)
  \/ \E object \in Objects : Created(c, object) \/ Updated(c, object)
  \/ UpdateFails(c) \/ Recovered(c) \/ RecoverFails(c)
  \/ RemoveStops(c) \/ Removed(c) \/ Restarted(c) \/ GivesUp(c)

IdleTimeout(a) ==
  /\ running' = Kill({a})
  /\ UNCHANGED <<agents, store, call, unsettled>>

-----------------------------------------------------------------------------
ReplaceAnySeed(id) == TRUE

(* upsertSeed() leaves a row alone that the user has modified. *)
Upserts(id) == store[id] = None \/ ~store[id].modified

(* runSeeds(), which goes on past a seed that the database rejects.        *)
Seeded(rejected) ==
  [id \in Ids |-> IF id \in Seeds \ rejected /\ Upserts(id)
                   THEN [def |-> seedDef, modified |-> FALSE] ELSE store[id]]
RunSeeds == \E rejected \in SUBSET Seeds : store' = Seeded(rejected)

RowsNotPooled(rows) == [id \in Ids |-> IF agents[id] = None THEN rows[id] ELSE None]

(* restore() of these rows: some of them start, and join the pool.         *)
Restore(rows) ==
  \E started \in SUBSET Present(rows) : \E object \in [started -> Objects] :
    LET new == [id \in started |-> New(object[id], id, rows[id].def)] IN
    /\ \A id \in started : IsNew(object[id], id)
    /\ agents' = [id \in Ids |-> IF id \in started THEN new[id] ELSE agents[id]]
    /\ running' = running \union {new[id] : id \in started}

NotAsStored(id) ==
  (agents[id] = None) # (store[id] = None) \/ (agents[id] # None /\ agents[id].def # store[id].def)

(* The reset: all agents are stopped ... *)
ResetStops ==
  /\ reset = "idle"
  /\ reset' = "stopping"
  /\ running' = Kill(Pooled)
  /\ UNCHANGED <<agents, store, call, restoring, seedDef, unsettled>>

(* ... the map and the table are cleared ... *)
ResetClears ==
  /\ reset = "stopping"
  /\ reset' = "cleared"
  /\ agents' = Nothing /\ store' = Nothing
  /\ UNCHANGED <<running, call, restoring, seedDef, unsettled>>

(* ... and, once the crons are cleared too, the seeds come back: restore()  *)
(* starts the rows that are not in the pool ...                            *)
ResetSeeds ==
  /\ reset = "cleared"
  /\ reset' = "restoring"
  /\ RunSeeds
  /\ restoring' = RowsNotPooled(store')
  /\ UNCHANGED <<agents, running, call, seedDef, unsettled>>

(* ... and puts those that run in the pool, together.                      *)
ResetEnds ==
  /\ reset = "restoring"
  /\ reset' = "idle"
  /\ Restore(restoring)
  /\ restoring' = Nothing
  /\ unsettled' = unsettled \union {id \in Present(restoring) : agents'[id] = None}
  /\ UNCHANGED <<store, call, seedDef>>

(* The database fails: once the map is cleared, and the table is not; when *)
(* the sessions or the crons are cleared; or when the rows are listed.  The *)
(* reset ends there.                                                       *)
ResetFails ==
  /\ \/ reset = "stopping" /\ agents' = Nothing /\ UNCHANGED store
     \/ reset = "cleared" /\ (UNCHANGED store \/ RunSeeds) /\ UNCHANGED agents
  /\ reset' = "idle"
  /\ unsettled' = unsettled \union {id \in Ids : NotAsStored(id)'}
  /\ UNCHANGED <<running, call, restoring, seedDef>>

(* The process dies, or is shut down; the next one may be a newer release. *)
Exit ==
  /\ reset # "down"
  /\ reset' = "down"
  /\ agents' = Nothing /\ running' = {}
  /\ call' = [c \in Calls |-> NoCall]
  /\ restoring' = Nothing
  /\ seedDef' \in Defs
  /\ unsettled' = {}
  /\ UNCHANGED store

(* The boot, before the server listens: restore() ...                      *)
Boot ==
  /\ reset = "down"
  /\ reset' = "booting"
  /\ Restore(store)
  /\ UNCHANGED <<store, call, restoring, seedDef, unsettled>>

(* ... the seeds, and restore() again for what is not in the pool yet.     *)
BootSeeds ==
  /\ reset = "booting"
  /\ reset' = "idle"
  /\ RunSeeds
  /\ Restore(RowsNotPooled(store'))
  /\ unsettled' = {id \in Ids : NotAsStored(id)'}
  /\ UNCHANGED <<call, restoring, seedDef>>

Step ==
  \/ (\E c \in Calls : Call(c)) /\ UNCHANGED <<reset, restoring, seedDef>>
  \/ (\E a \in running : IdleTimeout(a)) /\ UNCHANGED <<reset, restoring, seedDef>>
  \/ ResetStops \/ ResetClears \/ ResetSeeds \/ ResetEnds \/ ResetFails
  \/ Exit \/ Boot \/ BootSeeds

Contended(id) == Cardinality(CallsOn(id)) > 1 \/ (CallsOn(id) # {} /\ reset # "idle")

History == raced' = IF reset' = "down" THEN {} ELSE raced \union {id \in Ids : Contended(id)'}

Next == Step /\ History

Spec == Init /\ [][Next]_vars

-----------------------------------------------------------------------------
(* Every value is of its type; a call that waits knows its id, and one that *)
(* acts on an agent holds it.                                              *)
TypeOK ==
  /\ agents \in [Ids -> Agent \union {None}]
  /\ \A id \in Present(agents) : agents[id].id = id
  /\ running \subseteq Agent
  /\ store \in [Ids -> Row \union {None}] /\ restoring \in [Ids -> Row \union {None}]
  /\ \A c \in Calls : call[c] = NoCall \/
       /\ call[c].pc \in Pc /\ call[c].id \in Ids
       /\ call[c].def \in Defs \union {None}
       /\ call[c].agent \in Agent \union {None}
       /\ call[c].pc \in {"creating", "updating"} => call[c].def \in Defs
       /\ call[c].pc # "creating" => call[c].agent \in Agent /\ call[c].agent.id = call[c].id
  /\ reset \in ResetState /\ seedDef \in Defs
  /\ raced \subseteq Ids /\ unsettled \subseteq Ids

(* When nothing is under way, the pool and the table hold the same agents  *)
(* with the same definitions, so that the next process restores what this   *)
(* one runs: agent-pool.ts writes them in different places after different  *)
(* waits.  Left out are the ids on which calls overlapped, those whose      *)
(* start, insert, update or delete failed (the map is written first and is  *)
(* not put back), and the seeds a boot started from the old row.            *)
StoreMatchesPool ==
  (reset = "idle" /\ \A c \in Calls : call[c] = NoCall) =>
    \A id \in Ids \ (raced \union unsettled) : ~NotAsStored(id)

(* An agent that runs can be reached and stopped: it is in the pool, or a   *)
(* call still holds it, through updates that fail, removals and resets, as  *)
(* long as no other call on its id, nor a reset, overlaps.                  *)
NoOrphans ==
  \A a \in running : a.id \in raced \/ agents[a.id] = a \/ a \in Held

(* An agent never runs twice, not even while update() replaces it.         *)
OneLivePerAgent ==
  \A a, b \in running : a.id = b.id => a = b \/ a.id \in raced

(* A definition the user has changed survives every later boot and release: *)
(* only another call of the user, or a reset, replaces its row.             *)
UserEditsSurvive ==
  [][\A id \in Present(store) :
       (store[id].modified /\ store'[id] # store[id]) =>
         \/ reset' = "cleared"
         \/ \E c \in CallsOn(id) : call[c].pc \in {"updating", "removing"} /\ call'[c] = NoCall]_vars
=============================================================================
