------------------------------ MODULE CronManager ------------------------------
(***************************************************************************)
(* Scheduled tasks: packages/cron-manager/src/cron-manager.ts, with its    *)
(* boot in packages/server/src/server-factory.ts.                          *)
(*                                                                         *)
(* The manager keeps the crons in memory and saves the whole list to       *)
(* crons.json after every change, without waiting for a save that is       *)
(* already under way; a boot reads the file back.  Executions run beside   *)
(* all of that, one step of the workflow after the other, and change       *)
(* nothing shared but the `executing` set when they start and end.  The    *)
(* execution log is left out.                                              *)
(*                                                                         *)
(* External: the scheduler (croner), which rejects an entry it cannot      *)
(* schedule, a bad timezone for one; the file system, where two writes     *)
(* under way land in any order, a write may fail, and a crash may leave    *)
(* the file torn.                                                          *)
(***************************************************************************)
EXTENDS Naturals

CONSTANTS
  Ids,      \* ids of crons; a new cron has a new one
  Entries,  \* what a cron entry may say: schedule, timezone, workflow ...
  Enabled,  \* the entries with `enabled` set
  Sound,    \* the entries the scheduler accepts
  Runs,     \* bound: executions under way at a time
  Saves,    \* bound: writes of the file under way at a time
  None,     \* no entry, no id, no write
  Torn      \* a file that does not parse

ASSUME EntriesAssumption == Enabled \subseteq Entries /\ Sound \subseteq Entries
ASSUME NoneAssumption == None \notin Entries \union Ids

VARIABLES
  up,         \* is the server down, up, shutting down, or unable to boot?
  crons,      \* crons
  jobs,       \* jobs: the entry in the closure of each job
  executing,  \* executing
  runs,       \* the executions under way, by the id of their cron
  disk,       \* the content of crons.json
  writes,     \* the writes of it under way
  created,    \* ghost: the ids given out so far
  dirty,      \* ghost: the last change was not saved, or two saves overlapped
  rejected    \* ghost: has a create or an update been rejected by the scheduler?

vars == <<up, crons, jobs, executing, runs, disk, writes, created, dirty, rejected>>

Snapshot == [Ids -> Entries \union {None}]
Empty == [id \in Ids |-> None]
Quiet == [k \in Saves |-> None]
NoRuns == [r \in Runs |-> None]

ASSUME SnapshotAssumption == None \notin Snapshot /\ Torn \notin Snapshot

Init ==
  /\ up = "up"
  /\ crons = Empty /\ jobs = Empty /\ executing = {} /\ runs = NoRuns
  /\ disk = Empty /\ writes = Quiet
  /\ created = {} /\ dirty = FALSE /\ rejected = FALSE

Exists(id) == crons[id] # None
Alive == up \in {"up", "stopping"}

-----------------------------------------------------------------------------
(* Some definitions are preceded by a faulty variant of themselves, used in *)
(* no action: a plausible mistake that a property below would expose.       *)

SaveOldest(k) == writes' = [writes EXCEPT ![k] = crons]

(* saveConfig() snapshots the list at once and writes it later. *)
Save(k) == writes' = [writes EXCEPT ![k] = crons']

Persist(k) ==
  /\ writes[k] = None
  /\ Save(k)
  /\ dirty' = (writes # Quiet)

KeepJob(id) == jobs

(* unscheduleJob(id). *)
Unscheduled(id) == [jobs EXCEPT ![id] = None]

(* scheduleJob() throws on this entry. *)
Unschedulable(e) == e \in Enabled \ Sound

(* The job an entry is given, once any old one is unscheduled. *)
Job(e) == IF e \in Enabled \intersect Sound THEN e ELSE None

(* The entry is in the list by the time the scheduler rejects it, and stays *)
(* there, unsaved.                                                          *)
Reject ==
  /\ rejected' = TRUE
  /\ dirty' = TRUE
  /\ UNCHANGED writes

Create(id, e, k) ==
  /\ up = "up" /\ id \notin created
  /\ created' = created \union {id}
  /\ crons' = [crons EXCEPT ![id] = e]
  /\ \/ Unschedulable(e) /\ UNCHANGED jobs /\ Reject
     \/ /\ ~Unschedulable(e)
        /\ jobs' = [jobs EXCEPT ![id] = Job(e)]
        /\ Persist(k)
        /\ UNCHANGED rejected
  /\ UNCHANGED <<up, executing, runs, disk>>

Update(id, e, k) ==
  /\ up = "up" /\ Exists(id)
  /\ crons' = [crons EXCEPT ![id] = e]
  /\ \/ Unschedulable(e) /\ jobs' = Unscheduled(id) /\ Reject
     \/ /\ ~Unschedulable(e)
        /\ jobs' = [Unscheduled(id) EXCEPT ![id] = IF e \in Enabled THEN e ELSE @]
        /\ Persist(k)
        /\ UNCHANGED rejected
  /\ UNCHANGED <<up, executing, runs, disk, created>>

Remove(id, k) ==
  /\ up = "up" /\ Exists(id)
  /\ jobs' = Unscheduled(id)
  /\ crons' = [crons EXCEPT ![id] = None]
  /\ Persist(k)
  /\ UNCHANGED <<up, executing, runs, disk, created, rejected>>

(* removeAll(), the system reset: executions under way go on. *)
RemoveAll(k) ==
  /\ up = "up"
  /\ jobs' = Empty /\ crons' = Empty /\ executing' = {}
  /\ Persist(k)
  /\ UNCHANGED <<up, runs, disk, created, rejected>>

-----------------------------------------------------------------------------
NeverSkip(id) == FALSE

(* The guard of executeWorkflow against a second execution of the cron. *)
Skip(id) == id \in executing

(* executeWorkflow up to its first await, or the skip of it. *)
Execute(id, r) ==
  /\ \/ Skip(id) /\ UNCHANGED <<executing, runs>>
     \/ /\ ~Skip(id) /\ runs[r] = None
        /\ executing' = executing \union {id}
        /\ runs' = [runs EXCEPT ![r] = id]
  /\ UNCHANGED <<up, crons, jobs, disk, writes, created, dirty, rejected>>

Trigger(id, r) == up = "up" /\ Exists(id) /\ Execute(id, r)

Tick(id, r) == Alive /\ jobs[id] # None /\ Execute(id, r)

NeverRelease(id) == executing

(* The finally block of executeWorkflow. *)
Release(id) == executing \ {id}

(* The workflow's last step answered, or a step failed. *)
RunEnds(r) ==
  /\ Alive /\ runs[r] # None
  /\ executing' = Release(runs[r])
  /\ runs' = [runs EXCEPT ![r] = None]
  /\ UNCHANGED <<up, crons, jobs, disk, writes, created, dirty, rejected>>

-----------------------------------------------------------------------------
WriteLands(k) ==
  /\ Alive /\ writes[k] # None
  /\ disk' = writes[k]
  /\ writes' = [writes EXCEPT ![k] = None]
  /\ UNCHANGED <<up, crons, jobs, executing, runs, created, dirty, rejected>>

(* The write fails: the call is rejected, the change stays in memory.      *)
WriteFails(k) ==
  /\ Alive /\ writes[k] # None
  /\ writes' = [writes EXCEPT ![k] = None]
  /\ dirty' = TRUE
  /\ UNCHANGED <<up, crons, jobs, executing, runs, disk, created, rejected>>

Shutdown ==
  /\ up = "up"
  /\ up' = "stopping"
  /\ jobs' = Empty
  /\ UNCHANGED <<crons, executing, runs, disk, writes, created, dirty, rejected>>

(* The process is gone, after a shutdown or by a crash.  Neither waits for  *)
(* the writes under way.                                                    *)
Exit ==
  /\ Alive
  /\ up' = "down"
  /\ crons' = Empty /\ jobs' = Empty /\ executing' = {} /\ runs' = NoRuns
  /\ writes' = Quiet
  /\ \/ UNCHANGED disk
     \/ writes # Quiet /\ disk' = Torn
     \/ \E k \in Saves : writes[k] # None /\ disk' = writes[k]
  /\ UNCHANGED <<created, dirty, rejected>>

(* loadConfig(): a file that does not parse counts as none. *)
Loaded == IF disk = Torn THEN Empty ELSE disk

(* initialize() throws on an entry that the scheduler rejects. *)
BootFails == \E id \in Ids : Unschedulable(Loaded[id])

(* initialize() at boot: the server comes up, or boot rejects and exits. *)
Boot ==
  /\ up = "down"
  /\ IF BootFails
     THEN up' = "broken" /\ UNCHANGED <<crons, jobs, dirty>>
     ELSE /\ up' = "up"
          /\ crons' = Loaded
          /\ jobs' = [id \in Ids |-> Job(Loaded[id])]
          /\ dirty' = (disk = Torn)
  /\ UNCHANGED <<executing, runs, disk, writes, created, rejected>>

Next ==
  \/ \E id \in Ids, k \in Saves :
       \/ \E e \in Entries : Create(id, e, k) \/ Update(id, e, k)
       \/ Remove(id, k)
  \/ \E k \in Saves : RemoveAll(k) \/ WriteLands(k) \/ WriteFails(k)
  \/ \E id \in Ids, r \in Runs : Trigger(id, r) \/ Tick(id, r)
  \/ \E r \in Runs : RunEnds(r)
  \/ Shutdown
  \/ Exit
  \/ Boot

Spec == Init /\ [][Next]_vars

-----------------------------------------------------------------------------
(* Every variable has its type, and a job its cron. *)
TypeOK ==
  /\ up \in {"down", "up", "stopping", "broken"}
  /\ crons \in Snapshot /\ jobs \in Snapshot
  /\ \A id \in Ids : jobs[id] # None => Exists(id)
  /\ executing \subseteq Ids
  /\ runs \in [Runs -> Ids \union {None}]
  /\ disk \in Snapshot \union {Torn}
  /\ writes \in [Saves -> Snapshot \union {None}]
  /\ created \subseteq Ids
  /\ dirty \in BOOLEAN /\ rejected \in BOOLEAN

(* The executions of one cron never overlap, though timers, manual triggers *)
(* and a reset that clears the `executing` set come at any time.            *)
OneExecutionPerCron ==
  \A q, r \in Runs : runs[q] # None /\ runs[q] = runs[r] => q = r

(* A cron is barred from running exactly while an execution of it is under  *)
(* way: no path leaves it barred for good.                                  *)
ExecutingIsRunning ==
  \A id \in Ids : Exists(id) => (id \in executing <=> \E r \in Runs : runs[r] = id)

(* The `executing` set says which crons run: one execution of each at a     *)
(* time, and nothing barred that does not run.                              *)
ExecutingIsExact == OneExecutionPerCron /\ ExecutingIsRunning

(* While the manager is up, a job fires exactly for the crons in the list   *)
(* that are enabled, and with their present entry: none outlives an update  *)
(* or a removal.  An entry the scheduler rejected has none.                 *)
JobsMatchCrons == up = "up" => \A id \in Ids : jobs[id] = Job(crons[id])

(* Once every write has landed the file holds the list, and a restart       *)
(* brings it back, unless the last change was rejected or failed to be      *)
(* saved, or its save overlapped another.                                   *)
QuietDiskIsCurrent == Alive /\ writes = Quiet /\ ~dirty => disk = crons

(* The server fails to boot only if a cron that was once rejected to its    *)
(* caller has been saved all the same.                                      *)
BootFailsOnlyOnRejected == up = "broken" => rejected
=============================================================================
