-------------------------- MODULE AgentProcessProofs --------------------------
(***************************************************************************)
(* The safety properties of AgentProcess, for any number of calls, streams *)
(* and backend processes.  Each property is strengthened to an inductive   *)
(* invariant that every Step keeps; History, the part of Next that only    *)
(* moves the ghosts, is opened where a property speaks of them.            *)
(***************************************************************************)
EXTENDS AgentProcess, TLAPS

(* Every variable keeps its type: no status outside the four the class      *)
(* sets, a queue of calls only, `overlap` among the calls under way.        *)
THEOREM TypeCorrect == Spec => []TypeOK
<1>1. Init => TypeOK
  <2> SUFFICES ASSUME Init PROVE TypeOK
    OBVIOUS
  <2>1. queue \in Seq(Sends) /\ overlap \subseteq Busy
    BY DEF Init, Busy
  <2> QED BY <2>1 DEF OpState, Init, TypeOK, Status, SendState, StreamState
<1>2. TypeOK /\ [Next]_vars => TypeOK'
  <2> SUFFICES ASSUME TypeOK, [Next]_vars PROVE TypeOK'
    OBVIOUS
  <2> USE DEF TypeOK, Status
  <2>1. ASSUME Step, History PROVE TypeOK'
    <3>1. revived' \in BOOLEAN /\ (overlap \subseteq Busy)'
      BY <2>1 DEF History
    <3> SUFFICES /\ status' \in Status /\ processing' \in BOOLEAN /\ timer' \in BOOLEAN
                 /\ queue' \in Seq(Sends)
                 /\ bp' \in Handles \union {None} /\ alive' \subseteq Handles
                 /\ send' \in [Sends -> SendState]
                 /\ stream' \in [Streams -> StreamState]
                 /\ op' \in [Ops -> OpState]
      BY <3>1
    <3>2. ASSUME NEW m \in Sends, NEW others \in [Sends -> SendState], Execute(m, others)
          PROVE  /\ status' \in Status /\ timer' \in BOOLEAN /\ processing' \in BOOLEAN
                 /\ send' \in [Sends -> SendState]
      BY <3>2 DEF Execute, SendState
    <3>3. CASE \E m \in Sends : Send(m)
      <4> PICK m \in Sends : Send(m)
        BY <3>3
      <4>1. CASE Execute(m, send) /\ UNCHANGED queue
        BY <4>1, <3>2 DEF Send
      <4>2. CASE ~(Execute(m, send) /\ UNCHANGED queue)
        BY <4>2 DEF Send, SendState
      <4> QED BY <4>1, <4>2
    <3>4. CASE \E m \in Sends : SendSucceeds(m)
      <4> PICK m \in Sends : SendSucceeds(m)
        BY <3>4
      <4>1. [send EXCEPT ![m] = "done"] \in [Sends -> SendState]
        BY DEF SendState
      <4>2. CASE Drain
        <5>1. Head(queue) \in Sends /\ Tail(queue) \in Seq(Sends)
          BY <4>2 DEF Drain
        <5> QED BY <4>1, <4>2, <5>1, <3>2 DEF SendSucceeds
      <4>3. CASE ~Drain
        BY <4>1, <4>3 DEF SendSucceeds, BecomeIdle, StopProcessing
      <4> QED BY <4>2, <4>3
    <3>5. CASE \E m \in Sends : SendFails(m)
      BY <3>5 DEF SendFails, StopProcessing, SendState
    <3>6. CASE \E s \in Streams : StartStream(s) \/ StreamEnds(s) \/ StreamThrows(s) \/ StreamAbandoned(s)
      BY <3>6 DEF StartStream, StreamEnds, StreamThrows, StreamAbandoned, BecomeIdle, StreamState
    <3>7. ASSUME NEW x \in Ops, NEW pc \in OpState, Stopped(x, pc)
          PROVE  /\ status' \in Status /\ processing' \in BOOLEAN /\ queue' \in Seq(Sends)
                 /\ bp' \in Handles \union {None}
                 /\ send' \in [Sends -> SendState] /\ op' \in [Ops -> OpState]
      <4>1. send' \in [Sends -> SendState]
        BY <3>7 DEF Stopped, RejectWaiting, SendState
      <4>2. queue' \in Seq(Sends)
        BY <3>7 DEF Stopped, QueueReset
      <4>3. processing' \in BOOLEAN /\ status' \in Status
        BY <3>7 DEF Stopped, StopProcessing
      <4>4. bp' \in Handles \union {None} /\ op' \in [Ops -> OpState]
        BY <3>7 DEF Stopped, OpState
      <4> QED BY <4>1, <4>2, <4>3, <4>4
    <3>8. ASSUME NEW x \in Ops, NEW pc \in OpState, Stop(x, pc)
          PROVE  TypeOK'
      <4>1. timer' \in BOOLEAN /\ stream' \in [Streams -> StreamState]
        BY <3>8 DEF Stop
      <4>2. CASE Stopped(x, pc) /\ UNCHANGED alive
        BY <4>1, <4>2, <3>1, <3>7
      <4>3. CASE /\ Kill(bp)
                 /\ op' = [op EXCEPT ![x] = pc]
                 /\ UNCHANGED <<status, processing, queue, bp, send>>
        <5>1. alive' \subseteq Handles
          BY <4>3 DEF Kill
        <5>2. op' \in [Ops -> OpState]
          BY <4>3 DEF OpState
        <5> QED BY <4>1, <4>3, <5>1, <5>2, <3>1
      <4> QED BY <4>2, <4>3, <3>8 DEF Stop
    <3>9. CASE \E x \in Ops : Stop(x, "stopping") \/ Stop(x, "restarting") \/ IdleStops(x)
      BY <3>8, <3>9 DEF IdleStops, OpState
    <3>10. CASE \E x \in Ops : StopSettles(x)
      BY <3>7, <3>10 DEF StopSettles
    <3>11. CASE \E x \in Ops : Start(x) \/ SpawnFails(x) \/ \E h \in Handles : Spawned(x, h)
      BY <3>11 DEF Start, SpawnFails, Spawned, BecomeIdle, OpState
    <3>12. CASE IdleIgnored
      BY <3>12 DEF IdleIgnored, calls
    <3> QED BY <2>1, <3>3, <3>4, <3>5, <3>6, <3>9, <3>10, <3>11, <3>12 DEF Step
  <2>2. CASE UNCHANGED vars
    BY <2>2 DEF vars, calls, Busy
  <2> QED BY <2>1, <2>2 DEF Next
<1> QED BY <1>1, <1>2, PTL DEF Spec

-----------------------------------------------------------------------------
(* The inductive strengthening of SerialUnlessRevived and NoLockout: a send *)
(* in flight holds the `processing` flag, unless a stop has cleared it and  *)
(* the agent is still STOPPED, when nothing is waiting to be run either.    *)
Serving ==
  /\ SerialUnlessRevived
  /\ NoLockout
  /\ ~revived /\ Running # {} /\ ~processing => status = "STOPPED"
  /\ status = "STOPPED" => ~processing /\ queue = <<>>

RunningIn(calledSends) == {n \in Sends : calledSends[n] = "running"}

(* What execute() does to the set of sends in flight. *)
LEMMA ExecuteRuns ==
  ASSUME TypeOK, NEW m \in Sends, NEW others \in [Sends -> SendState], Execute(m, others)
  PROVE  /\ bp = None => /\ Running' = RunningIn(others) \ {m}
                         /\ status' = "ERROR" /\ processing' = FALSE
         /\ bp # None => /\ Running' = RunningIn(others) \union {m}
                         /\ status' = "BUSY" /\ processing' = TRUE
  BY DEF Execute, Running, RunningIn, SendState

(* What the rest of a stop does to it: the calls it rejects were waiting or *)
(* already over. *)
LEMMA StoppedRuns ==
  ASSUME TypeOK, NEW x \in Ops, NEW pc \in OpState, Stopped(x, pc)
  PROVE  /\ Running' \subseteq Running
         /\ status' = "STOPPED" /\ processing' = FALSE /\ queue' = <<>>
  BY DEF TypeOK, Stopped, RejectWaiting, QueueReset, StopProcessing, Running

(* Every step keeps Serving. *)
LEMMA ServingStep == TypeOK /\ Serving /\ Step /\ History => Serving'
<1> SUFFICES ASSUME TypeOK, Serving, Step, History PROVE Serving'
  OBVIOUS
<1> USE DEF Serving, SerialUnlessRevived, NoLockout
<1>1. processing \in BOOLEAN /\ revived \in BOOLEAN /\ send \in [Sends -> SendState]
  BY DEF TypeOK
<1>2. /\ revived' \in BOOLEAN
      /\ revived => revived'
      /\ status = "STOPPED" /\ status' # "STOPPED" /\ Running \intersect Running' # {} => revived'
  BY <1>1 DEF History
<1>3. CASE \E m \in Sends : Send(m)
  <2> PICK m \in Sends : Send(m)
    BY <1>3
  <2>1. CASE Accepting /\ ~MustQueue /\ Execute(m, send) /\ UNCHANGED queue
    <3>1. RunningIn(send) = Running /\ m \notin Running
      BY DEF Running, RunningIn, Send
    <3>2. /\ bp = None => Running' = Running \ {m} /\ status' = "ERROR" /\ processing' = FALSE
          /\ bp # None => Running' = Running \union {m} /\ status' = "BUSY" /\ processing' = TRUE
      BY <2>1, <3>1, <1>1, ExecuteRuns
    <3>3. status # "STOPPED" /\ ~processing
      BY <2>1 DEF Accepting, MustQueue
    <3> QED BY <3>1, <3>2, <3>3, <1>1, <1>2
  <2>2. CASE /\ Running' = Running
             /\ UNCHANGED <<status, processing>>
             /\ Accepting \/ UNCHANGED queue
    BY <2>2, <1>1, <1>2 DEF Accepting
  <2> QED BY <1>1, <2>1, <2>2 DEF Send, Running
<1>4. CASE \E m \in Sends : SendSucceeds(m)
  <2> PICK m \in Sends : SendSucceeds(m)
    BY <1>4
  <2> DEFINE others == [send EXCEPT ![m] = "done"]
  <2>1. /\ m \in Running
        /\ others \in [Sends -> SendState]
        /\ RunningIn(others) = Running \ {m}
    BY <1>1 DEF SendSucceeds, Running, RunningIn, SendState
  <2>2. CASE Drain
    <3>1. Head(queue) \in Sends /\ queue # <<>> /\ Execute(Head(queue), others)
      BY <2>2 DEF Drain, SendSucceeds, TypeOK
    <3> HIDE DEF others
    <3>2. /\ bp = None => Running' = (Running \ {m}) \ {Head(queue)} /\ status' = "ERROR" /\ processing' = FALSE
          /\ bp # None => Running' = (Running \ {m}) \union {Head(queue)} /\ status' = "BUSY" /\ processing' = TRUE
      BY <2>1, <3>1, ExecuteRuns
    <3> QED BY <1>1, <1>2, <2>1, <3>1, <3>2
  <2>3. CASE ~Drain
    <3>1. Running' = Running \ {m} /\ status' = "IDLE" /\ processing' = FALSE
      BY <2>3, <1>1 DEF SendSucceeds, Running, BecomeIdle, StopProcessing
    <3> QED BY <1>1, <1>2, <2>1, <3>1
  <2> QED BY <2>2, <2>3
<1>5. CASE \E m \in Sends : SendFails(m)
  <2> PICK m \in Sends : SendFails(m)
    BY <1>5
  <2>1. m \in Running /\ Running' = Running \ {m} /\ status' = "ERROR" /\ processing' = FALSE
    BY <1>1 DEF SendFails, Running, StopProcessing
  <2> QED BY <1>1, <1>2, <2>1
<1>6. ASSUME UNCHANGED <<processing, send, queue>>, status' # "STOPPED" \/ status' = status PROVE Serving'
  <2>1. Running' = Running
    BY <1>6 DEF Running
  <2> QED BY <1>1, <1>2, <1>6, <2>1
<1>7. CASE \E s \in Streams : StartStream(s) \/ StreamEnds(s) \/ StreamThrows(s) \/ StreamAbandoned(s)
  BY <1>6, <1>7 DEF StartStream, StreamEnds, StreamThrows, StreamAbandoned, BecomeIdle
<1>8. ASSUME NEW x \in Ops, NEW pc \in OpState, Stopped(x, pc) PROVE Serving'
  BY <1>1, <1>2, <1>8, StoppedRuns
<1>9. ASSUME NEW x \in Ops, NEW pc \in OpState, Stop(x, pc) PROVE Serving'
  BY <1>6, <1>8, <1>9 DEF Stop
<1>10. CASE \E x \in Ops : Stop(x, "stopping") \/ Stop(x, "restarting") \/ IdleStops(x)
  BY <1>9, <1>10 DEF IdleStops, OpState
<1>11. CASE \E x \in Ops : StopSettles(x)
  BY <1>8, <1>11 DEF StopSettles, TypeOK
<1>12. CASE \E x \in Ops : Start(x) \/ SpawnFails(x) \/ \E h \in Handles : Spawned(x, h)
  BY <1>6, <1>12 DEF Start, SpawnFails, Spawned, BecomeIdle
<1>13. CASE IdleIgnored
  BY <1>6, <1>13 DEF IdleIgnored, calls
<1> QED BY <1>3, <1>4, <1>5, <1>7, <1>10, <1>11, <1>12, <1>13 DEF Step

(* Serving, the strengthening above, is an invariant of the agent. *)
THEOREM ServingCorrect == Spec => []Serving
<1>1. Init => Serving
  BY DEF Init, Serving, SerialUnlessRevived, NoLockout, Running
<1>2. TypeOK /\ Serving /\ [Next]_vars => Serving'
  <2>1. TypeOK /\ Serving /\ UNCHANGED vars => Serving'
    BY DEF Serving, SerialUnlessRevived, NoLockout, Running, vars, calls
  <2> QED BY <2>1, ServingStep DEF Next
<1> QED BY <1>1, <1>2, TypeCorrect, PTL DEF Spec

(* Until the agent is brought back from STOPPED with a send of its former   *)
(* life in flight, it runs one message at a time.                           *)
THEOREM Serial == Spec => []SerialUnlessRevived
  BY ServingCorrect, PTL DEF Serving

(* The `processing` flag is never set with nothing in process. *)
THEOREM NeverLockedOut == Spec => []NoLockout
  BY ServingCorrect, PTL DEF Serving

-----------------------------------------------------------------------------
(* Messages are left waiting with nothing in process only by a failure that *)
(* puts the agent in error: a stop empties the queue, an answer starts the  *)
(* next message. *)
THEOREM DrainCorrect == Spec => DrainUnlessError
<1>1. TypeOK /\ [Next]_vars =>
        [processing /\ ~processing' /\ queue' # <<>> => status' = "ERROR"]_vars
  <2> SUFFICES ASSUME TypeOK, Step, processing, ~processing', queue' # <<>>
               PROVE  status' = "ERROR"
    BY DEF Next
  <2>1. CASE \E m \in Sends : Send(m)
    BY <2>1 DEF Send, MustQueue
  <2>2. CASE \E m \in Sends : SendSucceeds(m)
    BY <2>2 DEF SendSucceeds, Drain, Execute
  <2>3. CASE \E m \in Sends : SendFails(m)
    BY <2>3 DEF SendFails
  <2>4. CASE \E s \in Streams : StartStream(s) \/ StreamEnds(s) \/ StreamThrows(s) \/ StreamAbandoned(s)
    BY <2>4 DEF StartStream, StreamEnds, StreamThrows, StreamAbandoned
  <2>5. CASE \E x \in Ops : Stop(x, "stopping") \/ Stop(x, "restarting") \/ IdleStops(x)
    BY <2>5 DEF IdleStops, Stop, Stopped, QueueReset
  <2>6. CASE \E x \in Ops : StopSettles(x)
    BY <2>6 DEF StopSettles, Stopped, QueueReset
  <2>7. CASE \E x \in Ops : Start(x) \/ SpawnFails(x) \/ \E h \in Handles : Spawned(x, h)
    BY <2>7 DEF Start, SpawnFails, Spawned
  <2>8. CASE IdleIgnored
    BY <2>8 DEF IdleIgnored, calls
  <2> QED BY <2>1, <2>2, <2>3, <2>4, <2>5, <2>6, <2>7, <2>8 DEF Step
<1> QED BY <1>1, TypeCorrect, PTL DEF Spec, DrainUnlessError

(* An idle agent has its idle timer armed unless a stop is under way.       *)
THEOREM IdleTimerCorrect == Spec => []IdleHasTimer
<1>1. Init => IdleHasTimer
  BY DEF Init, IdleHasTimer
<1>2. TypeOK /\ IdleHasTimer /\ [Next]_vars => IdleHasTimer'
  <2> SUFFICES ASSUME TypeOK, IdleHasTimer, Step \/ UNCHANGED vars PROVE IdleHasTimer'
    BY DEF Next
  <2> USE DEF IdleHasTimer
  <2>1. CASE \E m \in Sends : Send(m) \/ SendSucceeds(m) \/ SendFails(m)
    BY <2>1 DEF Send, SendSucceeds, SendFails, Execute, BecomeIdle, Stopping
  <2>2. CASE \E s \in Streams : StartStream(s) \/ StreamEnds(s) \/ StreamThrows(s) \/ StreamAbandoned(s)
    BY <2>2 DEF StartStream, StreamEnds, StreamThrows, StreamAbandoned, BecomeIdle, Stopping
  <2>3. ASSUME NEW x \in Ops, NEW pc \in {"stopping", "restarting"}, Stop(x, pc) PROVE IdleHasTimer'
    <3>1. CASE bp = None
      BY <2>3, <3>1 DEF Stop, Stopped
    <3>2. CASE bp # None
      BY <2>3, <3>2 DEF Stop, Stopping, TypeOK
    <3> QED BY <3>1, <3>2
  <2>4. CASE \E x \in Ops : Stop(x, "stopping") \/ Stop(x, "restarting") \/ IdleStops(x)
    BY <2>3, <2>4 DEF IdleStops
  <2>5. CASE \E x \in Ops : StopSettles(x)
    BY <2>5 DEF StopSettles, Stopped
  <2>6. CASE \E x \in Ops : Start(x) \/ SpawnFails(x) \/ \E h \in Handles : Spawned(x, h)
    BY <2>6 DEF Start, SpawnFails, Spawned, BecomeIdle
  <2>7. CASE IdleIgnored \/ UNCHANGED vars
    BY <2>7 DEF IdleIgnored, calls, vars, Stopping
  <2> QED BY <2>1, <2>2, <2>4, <2>5, <2>6, <2>7 DEF Step
<1> QED BY <1>1, <1>2, TypeCorrect, PTL DEF Spec

-----------------------------------------------------------------------------
(* A control call that has shared its time with no other is alone, and the  *)
(* process it is about to forget or replace is dead.                        *)
LoneOpOwnsDead == \A x \in Busy \ overlap : Busy = {x} /\ bp \notin alive

(* Every step keeps LoneOpOwnsDead. *)
LEMMA LoneOpStep == TypeOK /\ LoneOpOwnsDead /\ Step /\ History => LoneOpOwnsDead'
<1> SUFFICES ASSUME TypeOK, LoneOpOwnsDead, Step, History,
                    NEW x \in Ops, x \in Busy', x \notin overlap'
             PROVE  Busy' = {x} /\ (bp \notin alive)'
  BY DEF LoneOpOwnsDead, Busy
<1>1. Busy' = {x} /\ x \notin overlap
  BY DEF History
<1>2. CASE UNCHANGED <<op, bp, alive>>
  BY <1>1, <1>2 DEF LoneOpOwnsDead, Busy
<1>3. ASSUME NEW y \in Ops, y # x, \A z \in Ops \ {y} : op'[z] = op[z], op[y] # "idle"
      PROVE  FALSE
  BY <1>1, <1>3 DEF LoneOpOwnsDead, Busy
<1>4. ASSUME NEW y \in Ops, NEW pc \in {"stopping", "restarting"}, Stop(y, pc)
      PROVE  (bp \notin alive)'
  BY <1>1, <1>4, NoneAssumption DEF Stop, Stopped, Kill, TypeOK
<1>5. CASE \E y \in Ops : Stop(y, "stopping") \/ Stop(y, "restarting") \/ IdleStops(y)
  BY <1>1, <1>4, <1>5 DEF IdleStops
<1>6. CASE \E y \in Ops : StopSettles(y)
  <2> PICK y \in Ops : StopSettles(y)
    BY <1>6
  <2>1. y = x
    BY <1>3 DEF StopSettles, Stopped, Stopping, TypeOK
  <2>2. bp \notin alive
    BY <1>1, <2>1 DEF LoneOpOwnsDead, StopSettles, Stopping, Busy
  <2> QED BY <1>1, <2>2, NoneAssumption DEF StopSettles, Stopped, TypeOK
<1>7. CASE \E y \in Ops : Start(y)
  BY <1>1, <1>7 DEF Start
<1>8. CASE \E y \in Ops : SpawnFails(y) \/ \E h \in Handles : Spawned(y, h)
  <2> PICK y \in Ops : SpawnFails(y) \/ \E h \in Handles : Spawned(y, h)
    BY <1>8
  <2>1. op[y] = "starting" /\ op' = [op EXCEPT ![y] = "idle"]
    BY DEF SpawnFails, Spawned
  <2>2. y = x
    BY <1>3, <2>1 DEF TypeOK
  <2> QED BY <2>1, <2>2 DEF Busy, TypeOK
<1> QED
  BY <1>2, <1>5, <1>6, <1>7, <1>8
  DEF Step, Send, SendSucceeds, SendFails, StartStream, StreamEnds, StreamThrows,
      StreamAbandoned, IdleIgnored, calls

(* A live backend process is replaced or forgotten, and so left running     *)
(* with nobody to stop it, only by control calls that have overlapped.      *)
THEOREM ProcessLossCorrect == Spec => ProcessLostOnlyByOverlap
<1>1. Init => LoneOpOwnsDead
  BY DEF Init, LoneOpOwnsDead, Busy
<1>2. TypeOK /\ LoneOpOwnsDead /\ [Next]_vars => LoneOpOwnsDead'
  <2>1. TypeOK /\ LoneOpOwnsDead /\ UNCHANGED vars => LoneOpOwnsDead'
    BY DEF LoneOpOwnsDead, Busy, vars, calls
  <2> QED BY <2>1, LoneOpStep DEF Next
<1>3. TypeOK /\ LoneOpOwnsDead /\ [Next]_vars =>
        [bp # None /\ bp \in alive /\ bp \in alive' /\ bp' # bp => overlap # {}]_vars
  <2> SUFFICES ASSUME TypeOK, LoneOpOwnsDead, Step, bp \in alive, bp' # bp PROVE overlap # {}
    BY DEF Next
  <2>1. ASSUME NEW x \in Ops, op[x] # "idle" PROVE overlap # {}
    BY <2>1 DEF LoneOpOwnsDead, Busy
  <2>2. CASE \E x \in Ops : StopSettles(x) \/ \E h \in Handles : Spawned(x, h)
    BY <2>1, <2>2 DEF StopSettles, Stopping, Spawned
  <2>3. ASSUME NEW x \in Ops, NEW pc \in OpState, Stop(x, pc) PROVE FALSE
    BY <2>3, NoneAssumption DEF Stop, TypeOK
  <2>4. CASE \E x \in Ops : Stop(x, "stopping") \/ Stop(x, "restarting") \/ IdleStops(x)
    BY <2>3, <2>4 DEF IdleStops, OpState
  <2> QED
    BY <2>2, <2>4
    DEF Step, Send, SendSucceeds, SendFails, StartStream, StreamEnds, StreamThrows,
        StreamAbandoned, Start, SpawnFails, IdleIgnored, calls
<1> QED BY <1>1, <1>2, <1>3, TypeCorrect, PTL DEF Spec, ProcessLostOnlyByOverlap

-----------------------------------------------------------------------------
(* execute() takes m out of no other call's place: the others are queued as *)
(* they were. *)
LEMMA ExecuteLeavesWaiting ==
  ASSUME NEW m \in Sends, NEW others \in [Sends -> SendState], Execute(m, others),
         NEW n \in Sends
  PROVE  send'[n] = "queued" <=> n # m /\ others[n] = "queued"
  BY DEF Execute, SendState

(* Every step keeps QueueHoldsWaiting. *)
LEMMA QueueStep == TypeOK /\ QueueHoldsWaiting /\ (Step \/ UNCHANGED vars) => QueueHoldsWaiting'
<1> SUFFICES ASSUME TypeOK, QueueHoldsWaiting, Step \/ UNCHANGED vars
             PROVE  QueueHoldsWaiting'
  OBVIOUS
<1> USE DEF QueueHoldsWaiting
<1>1. queue \in Seq(Sends) /\ send \in [Sends -> SendState]
  BY DEF TypeOK
<1>2. ASSUME UNCHANGED queue, \A n \in Sends : send'[n] = "queued" <=> send[n] = "queued"
      PROVE  QueueHoldsWaiting'
  BY <1>2
<1>3. CASE \E m \in Sends : Send(m)
  <2> PICK m \in Sends : Send(m)
    BY <1>3
  <2>1. CASE /\ send' = [send EXCEPT ![m] = "queued"]
             /\ queue' = Append(queue, m)
    <3>1. /\ Len(queue') = Len(queue) + 1
          /\ \A i \in 1 .. Len(queue) : queue'[i] = queue[i]
          /\ queue'[Len(queue) + 1] = m
          /\ Len(queue) \in Nat
      BY <2>1, <1>1
    <3>2. \A i \in 1 .. Len(queue) : queue[i] # m
      BY <1>1 DEF Send
    <3>3. ASSUME NEW n \in Sends PROVE (send'[n] = "queued") <=> \E i \in 1 .. Len(queue') : queue'[i] = n
      BY <3>1, <2>1, <1>1
    <3>4. ASSUME NEW i \in 1 .. Len(queue'), NEW j \in 1 .. Len(queue'), queue'[i] = queue'[j]
          PROVE  i = j
      BY <3>1, <3>2, <3>4
    <3> QED BY <3>3, <3>4
  <2>2. CASE Execute(m, send) /\ UNCHANGED queue
    BY <2>2, <1>1, <1>2, ExecuteLeavesWaiting DEF Send
  <2>3. CASE send' = [send EXCEPT ![m] = "rejected"] /\ UNCHANGED queue
    BY <2>3, <1>1, <1>2 DEF Send
  <2> QED BY <2>1, <2>2, <2>3 DEF Send
<1>4. CASE \E m \in Sends : SendSucceeds(m)
  <2> PICK m \in Sends : SendSucceeds(m)
    BY <1>4
  <2> DEFINE others == [send EXCEPT ![m] = "done"]
  <2>1. others \in [Sends -> SendState] /\ \A n \in Sends : others[n] = "queued" <=> send[n] = "queued"
    BY <1>1 DEF SendSucceeds, SendState
  <2>2. CASE ~Drain
    BY <2>1, <2>2, <1>2 DEF SendSucceeds
  <2>3. CASE Drain
    <3>1. /\ queue # <<>> /\ queue' = Tail(queue)
          /\ Head(queue) \in Sends /\ Execute(Head(queue), others)
      BY <2>3, <1>1 DEF Drain, SendSucceeds
    <3>2. /\ Len(queue) \in Nat /\ Len(queue) > 0 /\ Len(queue') = Len(queue) - 1
          /\ \A i \in 1 .. Len(queue') : queue'[i] = queue[i + 1]
          /\ Head(queue) = queue[1]
      BY <3>1, <1>1
    <3> HIDE DEF others
    <3>3. ASSUME NEW n \in Sends
          PROVE  (send'[n] = "queued") <=> n # queue[1] /\ \E i \in 1 .. Len(queue) : queue[i] = n
      BY <2>1, <3>1, <3>2, ExecuteLeavesWaiting
    <3>4. ASSUME NEW n \in Sends, n # queue[1], NEW i \in 1 .. Len(queue), queue[i] = n
          PROVE  \E j \in 1 .. Len(queue') : queue'[j] = n
      <4>1. i - 1 \in 1 .. Len(queue') /\ queue'[i - 1] = n
        BY <3>2, <3>4
      <4> QED BY <4>1
    <3>5. ASSUME NEW j \in 1 .. Len(queue')
          PROVE  j + 1 \in 1 .. Len(queue) /\ queue'[j] = queue[j + 1] /\ queue[j + 1] # queue[1]
      BY <3>2
    <3>6. ASSUME NEW n \in Sends PROVE (send'[n] = "queued") <=> \E i \in 1 .. Len(queue') : queue'[i] = n
      BY <3>3, <3>4, <3>5
    <3>7. ASSUME NEW i \in 1 .. Len(queue'), NEW j \in 1 .. Len(queue'), queue'[i] = queue'[j]
          PROVE  i = j
      BY <3>2, <3>5, <3>7
    <3> QED BY <3>6, <3>7
  <2> QED BY <2>2, <2>3
<1>5. CASE \E m \in Sends : SendFails(m)
  BY <1>1, <1>2, <1>5 DEF SendFails
<1>6. ASSUME NEW x \in Ops, NEW pc \in OpState, Stopped(x, pc) PROVE QueueHoldsWaiting'
  BY <1>1, <1>6 DEF Stopped, RejectWaiting, QueueReset
<1>7. CASE \E x \in Ops : Stop(x, "stopping") \/ Stop(x, "restarting") \/ IdleStops(x)
  BY <1>2, <1>6, <1>7 DEF IdleStops, Stop, OpState
<1>8. CASE \E x \in Ops : StopSettles(x)
  BY <1>6, <1>8 DEF StopSettles, TypeOK
<1> QED
  BY <1>2, <1>3, <1>4, <1>5, <1>7, <1>8
  DEF Step, StartStream, StreamEnds, StreamThrows, StreamAbandoned, Start, SpawnFails,
      Spawned, IdleIgnored, calls, vars

(* The calls that wait are exactly those in the queue, each once, whatever  *)
(* stops and failures intervene: none is forgotten, none answered twice.    *)
THEOREM QueueCorrect == Spec => []QueueHoldsWaiting
<1>1. Init => QueueHoldsWaiting
  BY DEF Init, QueueHoldsWaiting
<1> QED BY <1>1, QueueStep, TypeCorrect, PTL DEF Spec, Next

=============================================================================
