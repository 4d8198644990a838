-------------------------- MODULE CronManagerProofs --------------------------
(***************************************************************************)
(* The safety properties of CronManager, for any number of crons, entries, *)
(* executions and saves.                                                   *)
(***************************************************************************)
EXTENDS CronManager, TLAPS

USE DEF Snapshot, Empty, Quiet, NoRuns, Exists, Alive

(* Every variable keeps its type, and a job its cron. *)
THEOREM TypeCorrect == Spec => []TypeOK
<1>1. Init => TypeOK
  BY DEF Init, TypeOK
<1>2. TypeOK /\ [Next]_vars => TypeOK'
  <2> SUFFICES ASSUME TypeOK, [Next]_vars PROVE TypeOK'
    OBVIOUS
  <2> USE DEF TypeOK
  <2>1. ASSUME NEW k \in Saves, crons' \in Snapshot, Persist(k)
        PROVE  writes' \in [Saves -> Snapshot \union {None}] /\ dirty' \in BOOLEAN
    BY <2>1 DEF Persist, Save
  <2>2. ASSUME NEW id \in Ids, NEW e \in Entries, NEW k \in Saves, Create(id, e, k) PROVE TypeOK'
    <3>1. crons' \in Snapshot /\ jobs' \in Snapshot
      BY <2>2, EntriesAssumption DEF Create, Job
    <3>2. \A i \in Ids : jobs'[i] # None => crons'[i] # None
      BY <2>2, NoneAssumption DEF Create, Job
    <3>3. writes' \in [Saves -> Snapshot \union {None}] /\ dirty' \in BOOLEAN /\ rejected' \in BOOLEAN
      BY <2>1, <2>2, <3>1 DEF Create, Reject
    <3> QED BY <2>2, <3>1, <3>2, <3>3 DEF Create
  <2>3. ASSUME NEW id \in Ids, NEW e \in Entries, NEW k \in Saves, Update(id, e, k) PROVE TypeOK'
    <3>1. crons' \in Snapshot /\ jobs' \in Snapshot
      BY <2>3 DEF Update, Unscheduled
    <3>2. \A i \in Ids : jobs'[i] # None => crons'[i] # None
      BY <2>3, NoneAssumption DEF Update, Unscheduled
    <3>3. writes' \in [Saves -> Snapshot \union {None}] /\ dirty' \in BOOLEAN /\ rejected' \in BOOLEAN
      BY <2>1, <2>3, <3>1 DEF Update, Reject
    <3> QED BY <2>3, <3>1, <3>2, <3>3 DEF Update
  <2>4. ASSUME NEW id \in Ids, NEW k \in Saves, Remove(id, k) PROVE TypeOK'
    <3>1. crons' \in Snapshot /\ jobs' \in Snapshot
      BY <2>4 DEF Remove, Unscheduled
    <3>2. \A i \in Ids : jobs'[i] # None => crons'[i] # None
      BY <2>4 DEF Remove, Unscheduled
    <3> QED BY <2>1, <2>4, <3>1, <3>2 DEF Remove
  <2>5. ASSUME NEW k \in Saves, RemoveAll(k) PROVE TypeOK'
    BY <2>1, <2>5 DEF RemoveAll
  <2>6. ASSUME NEW id \in Ids, NEW r \in Runs, Execute(id, r) PROVE TypeOK'
    BY <2>6 DEF Execute
  <2>7. ASSUME NEW r \in Runs, RunEnds(r) PROVE TypeOK'
    BY <2>7 DEF RunEnds, Release
  <2>8. ASSUME NEW k \in Saves, WriteLands(k) \/ WriteFails(k) PROVE TypeOK'
    BY <2>8 DEF WriteLands, WriteFails
  <2>9. CASE Shutdown \/ Exit
    BY <2>9 DEF Shutdown, Exit
  <2>10. CASE Boot
    <3>1. CASE BootFails
      BY <2>10, <3>1 DEF Boot
    <3>2. CASE ~BootFails
      <4>1. Loaded \in Snapshot
        BY DEF Loaded
      <4>2. crons' \in Snapshot /\ jobs' \in Snapshot
        BY <2>10, <3>2, <4>1, EntriesAssumption DEF Boot, Job
      <4>3. \A i \in Ids : jobs'[i] # None => crons'[i] # None
        BY <2>10, <3>2, NoneAssumption DEF Boot, Job
      <4>4. dirty' \in BOOLEAN
        BY <2>10, <3>2 DEF Boot
      <4> QED BY <2>10, <3>2, <4>2, <4>3, <4>4 DEF Boot
    <3> QED BY <3>1, <3>2
  <2>11. CASE UNCHANGED vars
    BY <2>11 DEF vars
  <2> QED
    BY <2>2, <2>3, <2>4, <2>5, <2>6, <2>7, <2>8, <2>9, <2>10, <2>11 DEF Next, Trigger, Tick
<1> QED BY <1>1, <1>2, PTL DEF Spec

-----------------------------------------------------------------------------
(* Ids are given out once: whatever still bears one, in memory, on disk, in *)
(* a write or an execution under way, bears one that was given out.         *)
Known(snapshot) == \A id \in Ids : snapshot[id] # None => id \in created
IdsAreKnown ==
  /\ Known(crons)
  /\ disk # Torn => Known(disk)
  /\ \A k \in Saves : writes[k] # None => Known(writes[k])
  /\ \A r \in Runs : runs[r] # None => runs[r] \in created

(* Ids in the list, on disk, in writes and in executions were given out, so *)
(* that a new cron never meets an old execution or job.                     *)
THEOREM KnownIds == Spec => []IdsAreKnown
<1>1. Init => IdsAreKnown
  BY SnapshotAssumption DEF Init, IdsAreKnown, Known
<1>2. TypeOK /\ IdsAreKnown /\ [Next]_vars => IdsAreKnown'
  <2> SUFFICES ASSUME TypeOK, IdsAreKnown, [Next]_vars PROVE IdsAreKnown'
    OBVIOUS
  <2> USE DEF TypeOK, IdsAreKnown, Known
  <2>1. ASSUME NEW k \in Saves, Known(crons)', Persist(k), UNCHANGED <<disk, runs>>,
               created \subseteq created'
        PROVE  IdsAreKnown'
    BY <2>1 DEF Persist, Save
  <2>2. ASSUME NEW id \in Ids, NEW e \in Entries, NEW k \in Saves, Create(id, e, k) PROVE IdsAreKnown'
    <3>1. Known(crons)' /\ created \subseteq created' /\ UNCHANGED <<disk, runs>>
      BY <2>2 DEF Create
    <3> QED BY <2>1, <2>2, <3>1 DEF Create, Reject
  <2>3. ASSUME NEW id \in Ids, NEW e \in Entries, NEW k \in Saves, Update(id, e, k) PROVE IdsAreKnown'
    <3>1. Known(crons)' /\ UNCHANGED <<disk, runs, created>>
      BY <2>3 DEF Update
    <3> QED BY <2>1, <2>3, <3>1 DEF Update, Reject
  <2>4. ASSUME NEW id \in Ids, NEW k \in Saves, Remove(id, k) PROVE IdsAreKnown'
    <3>1. Known(crons)' /\ UNCHANGED <<disk, runs, created>>
      BY <2>4 DEF Remove
    <3> QED BY <2>1, <2>4, <3>1 DEF Remove
  <2>5. ASSUME NEW k \in Saves, RemoveAll(k) PROVE IdsAreKnown'
    BY <2>1, <2>5 DEF RemoveAll
  <2>6. ASSUME NEW id \in Ids, NEW r \in Runs, Trigger(id, r) \/ Tick(id, r) PROVE IdsAreKnown'
    BY <2>6 DEF Trigger, Tick, Execute
  <2>7. ASSUME NEW r \in Runs, RunEnds(r) PROVE IdsAreKnown'
    BY <2>7 DEF RunEnds
  <2>8. ASSUME NEW k \in Saves, WriteLands(k) \/ WriteFails(k) PROVE IdsAreKnown'
    BY <2>8 DEF WriteLands, WriteFails
  <2>9. CASE Shutdown \/ Exit
    BY <2>9 DEF Shutdown, Exit
  <2>10. CASE Boot
    BY <2>10 DEF Boot, Loaded
  <2>11. CASE UNCHANGED vars
    BY <2>11 DEF vars
  <2> QED
    BY <2>2, <2>3, <2>4, <2>5, <2>6, <2>7, <2>8, <2>9, <2>10, <2>11 DEF Next
<1> QED BY <1>1, <1>2, TypeCorrect, PTL DEF Spec

(* The strengthening of the two properties of executions: one that a reset  *)
(* has let out of the `executing` set is of a cron that is gone for good.   *)
Executions ==
  /\ OneExecutionPerCron
  /\ \A id \in executing : \E r \in Runs : runs[r] = id
  /\ \A r \in Runs : runs[r] # None => runs[r] \in executing \/ ~Exists(runs[r])
  /\ ~Alive => runs = NoRuns

(* Every step keeps Executions. *)
LEMMA ExecutionsStep == TypeOK /\ IdsAreKnown /\ Executions /\ [Next]_vars => Executions'
<1> SUFFICES ASSUME TypeOK, IdsAreKnown, Executions, [Next]_vars PROVE Executions'
  OBVIOUS
<1> USE DEF Executions, OneExecutionPerCron
<1>1. ASSUME UNCHANGED <<runs, executing>>, Alive \/ ~Alive' => Alive' \/ UNCHANGED up,
             \A r \in Runs : runs[r] # None /\ Exists(runs[r])' => Exists(runs[r])
      PROVE  Executions'
  BY <1>1
<1>2. ASSUME NEW id \in Ids, NEW e \in Entries, NEW k \in Saves, Create(id, e, k) PROVE Executions'
  BY <1>1, <1>2 DEF Create, IdsAreKnown, TypeOK
<1>3. ASSUME NEW id \in Ids, NEW e \in Entries, NEW k \in Saves, Update(id, e, k) PROVE Executions'
  BY <1>1, <1>3 DEF Update, TypeOK
<1>4. ASSUME NEW id \in Ids, NEW k \in Saves, Remove(id, k) PROVE Executions'
  BY <1>1, <1>4 DEF Remove, TypeOK
<1>5. ASSUME NEW k \in Saves, RemoveAll(k) PROVE Executions'
  BY <1>5 DEF RemoveAll, TypeOK
<1>6. ASSUME NEW id \in Ids, NEW r \in Runs, Alive, Exists(id), Execute(id, r) PROVE Executions'
  <2>1. CASE id \in executing
    BY <1>6, <2>1 DEF Execute, Skip
  <2>2. CASE id \notin executing
    <3>1. /\ executing' = executing \union {id} /\ UNCHANGED <<up, crons>>
          /\ runs'[r] = id /\ runs[r] = None
          /\ \A q \in Runs \ {r} : runs'[q] = runs[q] /\ runs[q] # id
      BY <1>6, <2>2, NoneAssumption DEF Execute, Skip, TypeOK
    <3> QED BY <1>6, <3>1, NoneAssumption DEF TypeOK
  <2> QED BY <2>1, <2>2
<1>7. ASSUME NEW r \in Runs, RunEnds(r) PROVE Executions'
  BY <1>7 DEF RunEnds, Release, TypeOK
<1>8. ASSUME NEW k \in Saves, WriteLands(k) \/ WriteFails(k) PROVE Executions'
  BY <1>1, <1>8 DEF WriteLands, WriteFails
<1>9. CASE Shutdown
  BY <1>1, <1>9 DEF Shutdown
<1>10. CASE Exit
  BY <1>10 DEF Exit
<1>11. CASE Boot
  BY <1>11 DEF Boot
<1>12. CASE UNCHANGED vars
  BY <1>12 DEF vars
<1> QED
  BY <1>2, <1>3, <1>4, <1>5, <1>6, <1>7, <1>8, <1>9, <1>10, <1>11, <1>12 DEF Next, Trigger, Tick, TypeOK

(* Executions, the strengthening above, is an invariant of the manager. *)
THEOREM ExecutionsCorrect == Spec => []Executions
<1>1. Init => Executions
  BY DEF Init, Executions, OneExecutionPerCron
<1> QED BY <1>1, ExecutionsStep, TypeCorrect, KnownIds, PTL DEF Spec

(* The executions of one cron never overlap. *)
THEOREM NoOverlap == Spec => []OneExecutionPerCron
  BY ExecutionsCorrect, PTL DEF Executions

(* A cron in the list is barred from running exactly while it runs. *)
THEOREM BarredOnlyWhileRunning == Spec => []ExecutingIsRunning
<1>1. TypeOK /\ Executions => ExecutingIsRunning
  BY NoneAssumption DEF TypeOK, Executions, ExecutingIsRunning
<1> QED BY <1>1, TypeCorrect, ExecutionsCorrect, PTL

(* Both together: the set that guards a cron is exact. *)
THEOREM ExecutingExact == Spec => []ExecutingIsExact
  BY NoOverlap, BarredOnlyWhileRunning, PTL DEF ExecutingIsExact

-----------------------------------------------------------------------------
(* While the manager is up, the jobs are those of the crons in the list.    *)
THEOREM JobsCorrect == Spec => []JobsMatchCrons
<1>1. Init => JobsMatchCrons
  BY NoneAssumption DEF Init, JobsMatchCrons, Job
<1>2. TypeOK /\ IdsAreKnown /\ JobsMatchCrons /\ [Next]_vars => JobsMatchCrons'
  <2> SUFFICES ASSUME TypeOK, IdsAreKnown, JobsMatchCrons, [Next]_vars PROVE JobsMatchCrons'
    OBVIOUS
  <2> USE NoneAssumption DEF JobsMatchCrons, TypeOK, Job
  <2>1. ASSUME NEW id \in Ids, NEW e \in Entries, NEW k \in Saves, Create(id, e, k) PROVE JobsMatchCrons'
    <3>1. CASE Unschedulable(e) /\ UNCHANGED jobs
      <4>1. jobs[id] = None
        BY <2>1, <3>1 DEF Create, IdsAreKnown, Known
      <4> QED BY <2>1, <3>1, <4>1 DEF Create, Unschedulable
    <3>2. CASE ~Unschedulable(e) /\ jobs' = [jobs EXCEPT ![id] = Job(e)]
      BY <2>1, <3>2 DEF Create
    <3> QED BY <2>1, <3>1, <3>2 DEF Create
  <2>2. ASSUME NEW id \in Ids, NEW e \in Entries, NEW k \in Saves, Update(id, e, k) PROVE JobsMatchCrons'
    BY <2>2 DEF Update, Unscheduled, Unschedulable
  <2>3. ASSUME NEW id \in Ids, NEW k \in Saves, Remove(id, k) PROVE JobsMatchCrons'
    BY <2>3 DEF Remove, Unscheduled
  <2>4. ASSUME NEW k \in Saves, RemoveAll(k) PROVE JobsMatchCrons'
    BY <2>4 DEF RemoveAll
  <2>5. ASSUME NEW id \in Ids, NEW r \in Runs, Trigger(id, r) \/ Tick(id, r) PROVE JobsMatchCrons'
    BY <2>5 DEF Trigger, Tick, Execute
  <2>6. ASSUME NEW r \in Runs, RunEnds(r) PROVE JobsMatchCrons'
    BY <2>6 DEF RunEnds
  <2>7. ASSUME NEW k \in Saves, WriteLands(k) \/ WriteFails(k) PROVE JobsMatchCrons'
    BY <2>7 DEF WriteLands, WriteFails
  <2>8. CASE Shutdown \/ Exit
    BY <2>8 DEF Shutdown, Exit
  <2>9. CASE Boot
    BY <2>9 DEF Boot, Loaded
  <2>10. CASE UNCHANGED vars
    BY <2>10 DEF vars
  <2> QED BY <2>1, <2>2, <2>3, <2>4, <2>5, <2>6, <2>7, <2>8, <2>9, <2>10 DEF Next
<1> QED BY <1>1, <1>2, TypeCorrect, KnownIds, PTL DEF Spec

-----------------------------------------------------------------------------
(* The strengthening of QuietDiskIsCurrent: after a clean change the file   *)
(* holds the list, or the one write under way does.                         *)
OneWriteHoldsList ==
  /\ ~Alive => writes = Quiet
  /\ Alive /\ ~dirty =>
       /\ writes = Quiet => disk = crons
       /\ \A j, k \in Saves : writes[j] # None /\ writes[k] # None => j = k
       /\ \A k \in Saves : writes[k] # None => writes[k] = crons

(* Every step keeps OneWriteHoldsList. *)
LEMMA WriteStep == TypeOK /\ OneWriteHoldsList /\ [Next]_vars => OneWriteHoldsList'
<1> SUFFICES ASSUME TypeOK, OneWriteHoldsList, [Next]_vars PROVE OneWriteHoldsList'
  OBVIOUS
<1> USE DEF OneWriteHoldsList
<1>1. ASSUME up = "up", UNCHANGED up, Reject PROVE OneWriteHoldsList'
  BY <1>1 DEF Reject
<1>2. ASSUME NEW k \in Saves, up = "up", UNCHANGED up, Persist(k), crons' \in Snapshot PROVE OneWriteHoldsList'
  <2>1. writes'[k] = crons' /\ writes'[k] # None /\ \A j \in Saves \ {k} : writes'[j] = writes[j]
    BY <1>2, SnapshotAssumption DEF Persist, Save, TypeOK
  <2>2. writes' # Quiet
    BY <2>1
  <2>3. ~dirty' => \A j \in Saves : writes[j] = None
    BY <1>2 DEF Persist
  <2> QED BY <1>2, <2>1, <2>2, <2>3
<1>3. ASSUME NEW id \in Ids, NEW e \in Entries, NEW k \in Saves, Create(id, e, k) \/ Update(id, e, k)
      PROVE  OneWriteHoldsList'
  <2>1. crons' \in Snapshot
    BY <1>3 DEF Create, Update, TypeOK
  <2> QED BY <1>1, <1>2, <1>3, <2>1 DEF Create, Update
<1>4. ASSUME NEW id \in Ids, NEW k \in Saves, Remove(id, k) \/ RemoveAll(k) PROVE OneWriteHoldsList'
  <2>1. crons' \in Snapshot
    BY <1>4 DEF Remove, RemoveAll, TypeOK
  <2> QED BY <1>2, <1>4, <2>1 DEF Remove, RemoveAll
<1>5. ASSUME NEW id \in Ids, NEW r \in Runs, Trigger(id, r) \/ Tick(id, r) PROVE OneWriteHoldsList'
  BY <1>5 DEF Trigger, Tick, Execute
<1>6. ASSUME NEW r \in Runs, RunEnds(r) PROVE OneWriteHoldsList'
  BY <1>6 DEF RunEnds
<1>7. ASSUME NEW k \in Saves, WriteLands(k) PROVE OneWriteHoldsList'
  <2>1. Alive /\ Alive' /\ dirty' = dirty /\ crons' = crons /\ disk' = writes[k] /\ writes[k] # None
    BY <1>7 DEF WriteLands
  <2>2. writes'[k] = None /\ \A j \in Saves \ {k} : writes'[j] = writes[j]
    BY <1>7 DEF WriteLands, TypeOK
  <2>3. CASE ~dirty
    BY <2>1, <2>2, <2>3
  <2> QED BY <2>1, <2>3
<1>8. ASSUME NEW k \in Saves, WriteFails(k) PROVE OneWriteHoldsList'
  BY <1>8 DEF WriteFails
<1>9. CASE Shutdown \/ Exit
  BY <1>9 DEF Shutdown, Exit
<1>10. CASE Boot
  BY <1>10 DEF Boot, Loaded
<1>11. CASE UNCHANGED vars
  BY <1>11 DEF vars
<1>12. CASE \E k \in Saves : RemoveAll(k)
  <2> PICK k \in Saves : RemoveAll(k)
    BY <1>12
  <2>1. crons' \in Snapshot
    BY DEF RemoveAll
  <2> QED BY <1>2, <2>1 DEF RemoveAll
<1> QED BY <1>3, <1>4, <1>5, <1>6, <1>7, <1>8, <1>9, <1>10, <1>11, <1>12 DEF Next

(* Once every write has landed the file holds the list, unless the last     *)
(* change was not saved or its save overlapped another.                     *)
THEOREM DiskCorrect == Spec => []QuietDiskIsCurrent
<1>1. Init => OneWriteHoldsList
  BY DEF Init, OneWriteHoldsList
<1>2. OneWriteHoldsList => QuietDiskIsCurrent
  BY DEF OneWriteHoldsList, QuietDiskIsCurrent
<1> QED BY <1>1, <1>2, WriteStep, TypeCorrect, PTL DEF Spec

-----------------------------------------------------------------------------
(* The strengthening of BootFailsOnlyOnRejected: without a rejection, no    *)
(* list anywhere holds an entry that the scheduler rejects.                 *)
Schedulable(snapshot) == \A id \in Ids : ~Unschedulable(snapshot[id])
AllSchedulable ==
  ~rejected => /\ Schedulable(crons)
               /\ disk # Torn => Schedulable(disk)
               /\ \A k \in Saves : writes[k] # None => Schedulable(writes[k])
               /\ up # "broken"

(* The server fails to boot only if a rejected cron has been saved. *)
THEOREM BootCorrect == Spec => []BootFailsOnlyOnRejected
<1> USE DEF AllSchedulable, Schedulable, Unschedulable
<1>1. Init => AllSchedulable
  BY SnapshotAssumption, NoneAssumption, EntriesAssumption DEF Init
<1>2. TypeOK /\ AllSchedulable /\ [Next]_vars => AllSchedulable'
  <2> SUFFICES ASSUME TypeOK, AllSchedulable, [Next]_vars, ~rejected' PROVE AllSchedulable'
    OBVIOUS
  <2> USE EntriesAssumption, NoneAssumption DEF TypeOK
  <2>1. ASSUME NEW k \in Saves, Schedulable(crons)', Persist(k), UNCHANGED <<disk, up, rejected>>
        PROVE  AllSchedulable'
    BY <2>1 DEF Persist, Save
  <2>2. ASSUME NEW id \in Ids, NEW e \in Entries, NEW k \in Saves, Create(id, e, k) \/ Update(id, e, k)
        PROVE  AllSchedulable'
    <3>1. ~Unschedulable(e) /\ Persist(k) /\ UNCHANGED <<disk, up, rejected>>
      BY <2>2 DEF Create, Update, Reject
    <3>2. Schedulable(crons)'
      BY <2>2, <3>1 DEF Create, Update
    <3> QED BY <2>1, <3>1, <3>2
  <2>3. ASSUME NEW id \in Ids, NEW k \in Saves, Remove(id, k) PROVE AllSchedulable'
    <3>1. Schedulable(crons)'
      BY <2>3 DEF Remove
    <3> QED BY <2>1, <2>3, <3>1 DEF Remove
  <2>4. ASSUME NEW k \in Saves, RemoveAll(k) PROVE AllSchedulable'
    BY <2>1, <2>4 DEF RemoveAll
  <2>5. ASSUME NEW id \in Ids, NEW r \in Runs, Trigger(id, r) \/ Tick(id, r) PROVE AllSchedulable'
    BY <2>5 DEF Trigger, Tick, Execute
  <2>6. ASSUME NEW r \in Runs, RunEnds(r) PROVE AllSchedulable'
    BY <2>6 DEF RunEnds
  <2>7. ASSUME NEW k \in Saves, WriteLands(k) \/ WriteFails(k) PROVE AllSchedulable'
    BY <2>7 DEF WriteLands, WriteFails
  <2>8. CASE Shutdown \/ Exit
    BY <2>8 DEF Shutdown, Exit
  <2>9. CASE Boot
    BY <2>9 DEF Boot, Loaded, BootFails
  <2>10. CASE UNCHANGED vars
    BY <2>10 DEF vars
  <2> QED BY <2>2, <2>3, <2>4, <2>5, <2>6, <2>7, <2>8, <2>9, <2>10 DEF Next
<1>3. AllSchedulable => BootFailsOnlyOnRejected
  BY DEF BootFailsOnlyOnRejected
<1> QED BY <1>1, <1>2, <1>3, TypeCorrect, PTL DEF Spec

=============================================================================
