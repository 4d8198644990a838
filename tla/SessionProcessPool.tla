-------------------------- MODULE SessionProcessPool --------------------------
(***************************************************************************)
(* The conductor's pool of per-session backend processes:                  *)
(* packages/conductor/src/session-process-pool.ts.                         *)
(*                                                                         *)
(* The code is single-threaded, but getOrCreate awaits twice (the stop of  *)
(* the evicted process, the spawn of the new one) and shutdown once.  A    *)
(* step of this module is the code between two awaits; calls for the same  *)
(* or for different sessions interleave at them.                           *)
(*                                                                         *)
(* A backend process is external code: stop() makes it dead at once        *)
(* (`alive` is false before stop() first awaits, in every backend), its    *)
(* promise settles later; a process may also die by itself; spawn()        *)
(* delivers a new live process or fails.                                   *)
(***************************************************************************)
EXTENDS Naturals, Sequences, FiniteSets, SequencesExt

CONSTANTS
  Sessions,      \* session ids
  Configs,       \* non-empty config overrides a message can carry
  Calls,         \* getOrCreate calls that can be under way at a time
  Handles,       \* bound: process handles, reused once dead and forgotten
  MaxProcesses,  \* the pool's capacity
  None           \* "no process" and "no overrides"

(* A backend process, with the overrides it was spawned with. *)
Process == [handle : Handles, with : Configs \union {None}]

ASSUME SetsAssumption ==
  /\ IsFiniteSet(Calls) /\ Calls # {}
  /\ None \notin Configs /\ None \notin Process
ASSUME MaxProcessesAssumption == MaxProcesses \in Nat \ {0}

VARIABLES
  order,      \* keys of the Map `processes`, in insertion order
  proc,       \* its values
  overrides,  \* the Map `configOverrides`
  alive,      \* processes that run
  call,       \* the getOrCreate calls under way
  closing,    \* is a shutdown awaiting the stops it issued?
  used,       \* ghost: the sessions, by the time each was last served
  late,       \* ghost: processes that joined the pool during that shutdown
  disturbed   \* ghost: sessions with overlapping calls or a failed spawn

poolVars == <<order, proc, overrides, alive, call, closing, late, used, disturbed>>

Idle == [pc |-> "idle", session |-> None, with |-> None]
CallState == {Idle} \union
             [pc : {"evicting", "ready", "spawning"}, session : Sessions, with : Configs \union {None}]

PoolInit ==
  /\ order = <<>>
  /\ proc = [s \in Sessions |-> None]
  /\ overrides = [s \in Sessions |-> None]
  /\ alive = {}
  /\ call = [c \in Calls |-> Idle]
  /\ used = <<>>
  /\ closing = FALSE /\ late = {} /\ disturbed = {}

-----------------------------------------------------------------------------
Pooled(s) == proc[s] # None
PooledProcs == {proc[s] : s \in Sessions} \ {None}
Pending == {c \in Calls : call[c].pc # "idle"}
PendingFor(s) == {c \in Pending : call[c].session = s}

(* Some definitions are preceded by a faulty variant of themselves, used in *)
(* no action: a plausible mistake that a property below would expose.       *)

(* configOverrides.delete(s), wherever an entry is discarded. *)
Forget(recorded, s) == [recorded EXCEPT ![s] = None]

LeaveRunning(running, p) == running

(* stop() of a process. *)
Stop(running, p) == running \ {p}

(* delete and set of a key: it moves to the tail of the map. *)
MoveToTail(s) == Append(RemoveFirst(order, s), s)

(* set of a key: a new one goes to the tail, an old one keeps its place. *)
SetKey(keys, s) == IF Pooled(s) THEN keys ELSE Append(keys, s)

(* The session has been served just now. *)
Touch(s) == used' = Append(RemoveFirst(used, s), s)

(* invalidateOnConfigChange: these overrides differ from the recorded ones. *)
Changed(s, o) == o # None /\ overrides[s] # o

(* A call reaches its first await: "evicting" waits for the stop of the    *)
(* evicted process, "ready" resumes as soon as the current code returns.   *)
StartCall(c, s, o, stage) ==
  /\ call' = [call EXCEPT ![c] = [pc |-> stage, session |-> s, with |-> o]]
  /\ disturbed' = IF PendingFor(s) # {} THEN disturbed \union {s} ELSE disturbed

(* getOrCreate that finds a live process with the right overrides: the     *)
(* entry moves to the tail of the map.                                     *)
Reuse(c, s, o) ==
  /\ call[c] = Idle
  /\ Pooled(s) /\ proc[s] \in alive /\ ~Changed(s, o)
  /\ order' = MoveToTail(s)
  /\ Touch(s)
  /\ UNCHANGED <<proc, overrides, alive, call, closing, late, disturbed>>

EvictIfAbove(n) == n > MaxProcesses

(* evictOldestIfNeeded: is a pool of n entries full? *)
Full(n) == n >= MaxProcesses

(* getOrCreate that must spawn, up to its first await.  The session's own  *)
(* entry goes first: stopped if its overrides are outdated, dropped with   *)
(* its overrides if it is dead.  Then, at capacity, the oldest entry is    *)
(* evicted.                                                                *)
MustSpawn(c, s, o) ==
  LET stale == Pooled(s) /\ Changed(s, o)
      dead  == Pooled(s) /\ ~stale
      rest  == IF Pooled(s) THEN RemoveFirst(order, s) ELSE order
      kept  == IF dead THEN Forget(overrides, s) ELSE overrides
      procs == [proc EXCEPT ![s] = None]
      live  == IF stale THEN Stop(alive, proc[s]) ELSE alive
  IN
  /\ call[c] = Idle
  /\ ~(Pooled(s) /\ proc[s] \in alive /\ ~Changed(s, o))
  /\ IF Full(Len(rest)) /\ rest # <<>>
     THEN /\ StartCall(c, s, o, "evicting")
          /\ order' = Tail(rest)
          /\ proc' = [procs EXCEPT ![Head(rest)] = None]
          /\ overrides' = Forget(kept, Head(rest))
          /\ alive' = Stop(live, proc[Head(rest)])
     ELSE /\ StartCall(c, s, o, "ready")
          /\ order' = rest
          /\ proc' = procs
          /\ overrides' = kept
          /\ alive' = live
  /\ UNCHANGED <<closing, late, used>>

(* The await is over: the overrides are recorded and spawn() is called. *)
CallSpawn(c) ==
  /\ call[c].pc \in {"evicting", "ready"}
  /\ call' = [call EXCEPT ![c].pc = "spawning"]
  /\ overrides' = IF call[c].with = None THEN overrides
                  ELSE [overrides EXCEPT ![call[c].session] = call[c].with]
  /\ UNCHANGED <<order, proc, alive, closing, late, used, disturbed>>

(* spawn() resolves with a process, which the map now holds. *)
ProcessSpawned(c, h) ==
  LET s == call[c].session
      p == [handle |-> h, with |-> call[c].with]
  IN
  /\ call[c].pc = "spawning"
  /\ \A q \in alive \union PooledProcs : q.handle # h
  /\ alive' = alive \union {p}
  /\ order' = SetKey(order, s)
  /\ proc' = [proc EXCEPT ![s] = p]
  /\ call' = [call EXCEPT ![c] = Idle]
  /\ Touch(s)
  /\ late' = IF closing THEN late \union {p} ELSE late
  /\ UNCHANGED <<overrides, closing, disturbed>>

(* spawn() rejects: the call returns undefined and nothing is undone. *)
SpawnFails(c) ==
  /\ call[c].pc = "spawning"
  /\ call' = [call EXCEPT ![c] = Idle]
  /\ disturbed' = disturbed \union {call[c].session}
  /\ UNCHANGED <<order, proc, overrides, alive, closing, late, used>>

(* invalidate(s). *)
Invalidate(s) ==
  /\ Pooled(s)
  /\ alive' = Stop(alive, proc[s])
  /\ order' = RemoveFirst(order, s)
  /\ proc' = [proc EXCEPT ![s] = None]
  /\ overrides' = Forget(overrides, s)
  /\ UNCHANGED <<call, closing, late, used, disturbed>>

(* shutdown() up to its await: every pooled process is stopped. *)
StartShutdown ==
  /\ ~closing
  /\ closing' = TRUE
  /\ late' = {}
  /\ alive' = alive \ PooledProcs
  /\ UNCHANGED <<order, proc, overrides, call, used, disturbed>>

(* The stops settled: both maps are cleared, whatever they hold by now. *)
FinishShutdown ==
  /\ closing
  /\ closing' = FALSE
  /\ late' = {}
  /\ order' = <<>>
  /\ proc' = [s \in Sessions |-> None]
  /\ overrides' = [s \in Sessions |-> None]
  /\ UNCHANGED <<alive, call, used, disturbed>>

(* The process exits by itself. *)
Die(p) ==
  /\ p \in alive
  /\ alive' = alive \ {p}
  /\ UNCHANGED <<order, proc, overrides, call, closing, late, used, disturbed>>

PoolNext ==
  \/ \E c \in Calls, s \in Sessions, o \in Configs \union {None} :
       Reuse(c, s, o) \/ MustSpawn(c, s, o)
  \/ \E c \in Calls : CallSpawn(c) \/ SpawnFails(c) \/ \E h \in Handles : ProcessSpawned(c, h)
  \/ \E s \in Sessions : Invalidate(s)
  \/ StartShutdown
  \/ FinishShutdown
  \/ \E p \in alive : Die(p)

PoolSpec == PoolInit /\ [][PoolNext]_poolVars

-----------------------------------------------------------------------------
(* Every variable has its type, and the three parts of the map agree: each  *)
(* pooled session has one place in the order.                               *)
PoolTypeOK ==
  /\ order \in Seq(Sessions)
  /\ \A i, j \in 1 .. Len(order) : order[i] = order[j] => i = j
  /\ proc \in [Sessions -> Process \union {None}]
  /\ \A s \in Sessions : Pooled(s) <=> \E i \in 1 .. Len(order) : order[i] = s
  /\ overrides \in [Sessions -> Configs \union {None}]
  /\ alive \subseteq Process /\ late \subseteq Process
  /\ call \in [Calls -> CallState]
  /\ used \in Seq(Sessions)
  /\ closing \in BOOLEAN
  /\ disturbed \subseteq Sessions

(* Calls that pass the capacity check together may all add an entry, and an *)
(* overfull pool is never trimmed by more than one entry per call; yet      *)
(* entries and calls that may still add one stay below a fixed bound.       *)
BoundedOvershoot ==
  Len(order) + Cardinality(Pending) <= MaxProcesses + Cardinality(Calls) - 1

(* The entry to be evicted next is the least recently used one, unless its  *)
(* session had overlapping calls: set() of an existing key keeps its place. *)
LeastRecentFirst ==
  \A i, j \in 1 .. Len(order) :
    i < j /\ order[i] \notin disturbed =>
      SelectInSeq(used, LAMBDA s : s = order[i]) < SelectInSeq(used, LAMBDA s : s = order[j])

(* The overrides on record for a pooled session are those its process was   *)
(* spawned with, so that a message asking for them gets them.               *)
RecordedIsRunning ==
  \A s \in Sessions \ disturbed :
    Pooled(s) /\ overrides[s] # None => proc[s].with = overrides[s]

(* A live process leaves the pool only by being stopped, but for two races: *)
(* it joined the pool while a shutdown was waiting, or overlapping calls    *)
(* for its session each spawned one.  (Sessions with a failed spawn are in  *)
(* `disturbed`, too, and so left out.)                                      *)
DroppedOnlyByRace ==
  [][\A s \in Sessions :
       Pooled(s) /\ proc[s] \in alive /\ proc[s] \in alive' =>
         \/ proc[s] \in PooledProcs'
         \/ proc[s] \in late
         \/ s \in disturbed]_poolVars

(* docs/SPEC.md: "LRU eviction at 100 concurrent session processes". *)
Capacity == Len(order) <= MaxProcesses
=============================================================================
