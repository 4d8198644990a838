--------------------------- MODULE AgentPoolProofs ---------------------------
(***************************************************************************)
(* Safety of the pool of agents and of its table, for any number of ids,   *)
(* definitions, seeds and overlapping calls, through resets and restarts.  *)
(***************************************************************************)
EXTENDS AgentPool, FiniteSetTheorems, TLAPS

CallRecord ==
  [pc : Pc \union {"idle"}, id : Ids \union {None}, def : Defs \union {None},
   agent : Agent \union {None}]

(* TypeOK, with the calls as a function. *)
Types ==
  /\ agents \in [Ids -> Agent \union {None}]
  /\ \A id \in Ids : agents[id] # None => agents[id].id = id
  /\ running \subseteq Agent
  /\ store \in [Ids -> Row \union {None}] /\ restoring \in [Ids -> Row \union {None}]
  /\ call \in [Calls -> CallRecord]
  /\ \A c \in Calls :
       /\ call[c].pc = "idle" => call[c] = NoCall
       /\ call[c].pc # "idle" => call[c].id \in Ids
       /\ call[c].pc \in {"creating", "updating"} => call[c].def \in Defs
       /\ call[c].pc = "creating" => call[c].agent = None
       /\ call[c].pc \notin {"idle", "creating"} =>
            call[c].agent \in Agent /\ call[c].agent.id = call[c].id
  /\ reset \in ResetState /\ seedDef \in Defs
  /\ raced \subseteq Ids /\ unsettled \subseteq Ids

(* An id that no agent, row or call but one bears, as create() found it.   *)
Untouched(id) ==
  /\ id \notin Seeds
  /\ agents[id] = None /\ store[id] = None /\ restoring[id] = None
  /\ \A a \in running : a.id # id

CreatesAlone ==
  \A c \in Calls : call[c].pc = "creating" =>
    Untouched(call[c].id) /\ \A d \in Calls : call[d].id = call[c].id => d = c

(* Outside of a reset nothing is being restored; there are no calls before *)
(* the server listens, and nothing is left of a process that died.         *)
Phases ==
  /\ reset # "restoring" => restoring = Nothing
  /\ reset \in {"down", "booting"} => raced = {} /\ \A c \in Calls : call[c].pc = "idle"
  /\ reset = "down" => agents = Nothing /\ running = {}

(* On an id that is not raced, calls take turns, and a reset has none.     *)
TurnsTaken ==
  \A c \in Calls : call[c].pc # "idle" /\ call[c].id \notin raced =>
    reset = "idle" /\ \A d \in Calls : call[d].id = call[c].id => d = c

(* The agent that such a call acts on is the pool's, and does not run once *)
(* it was stopped.                                                         *)
HoldsPooled ==
  \A c \in Calls :
    call[c].pc \notin {"idle", "creating"} /\ call[c].id \notin raced =>
      /\ agents[call[c].id] = call[c].agent
      /\ call[c].pc # "deciding" => \A a \in running : a.id # call[c].id

(* An agent that runs is the pool's. *)
RunsInPool == \A a \in running : a.id \notin raced => agents[a.id] = a

(* A reset leaves no agent running until it restores, and finds the map as *)
(* empty as it made it.                                                    *)
ResetQuiet ==
  /\ reset \in {"stopping", "cleared", "restoring"} => \A a \in running : a.id \in raced
  /\ reset \in {"cleared", "restoring"} => \A id \in Ids \ raced : agents[id] = None

(* What is restored is a row of the table. *)
RestoresRows == \A id \in Ids \ raced : restoring[id] # None => store[id] # None

PoolInv ==
  /\ Types /\ CreatesAlone /\ Phases /\ TurnsTaken /\ HoldsPooled /\ RunsInPool
  /\ ResetQuiet /\ RestoresRows

(* Pool and table agree as long as nothing went wrong on the id; a reset   *)
(* has a row to restore for each agent that the pool misses.               *)
InStep ==
  \A id \in Ids \ raced :
    /\ reset = "idle" /\ id \notin unsettled => ~NotAsStored(id)
    /\ reset = "cleared" => store[id] = None
    /\ reset = "restoring" => restoring[id] = store[id]

-----------------------------------------------------------------------------
(* Operators. *)

LEMMA NoneIsNothingElse ==
  None \notin Agent /\ None \notin Row /\ None \notin Ids /\ None \notin Defs
BY SetsAssumption

(* At most one call is no contention: the ghost records every overlap.     *)
Alone(id) ==
  /\ \A c, d \in Calls : call[c].id = id /\ call[d].id = id => c = d
  /\ \A c \in Calls : call[c].id = id => reset = "idle"

LEMMA NotContended == \A id \in Ids : ~Contended(id) => Alone(id)
<1> SUFFICES ASSUME NEW id \in Ids, ~Contended(id) PROVE Alone(id)
  OBVIOUS
<1>1. CallsOn(id) \subseteq Calls /\ IsFiniteSet(Calls)
  BY SetsAssumption DEF CallsOn
<1>2. IsFiniteSet(CallsOn(id)) /\ Cardinality(CallsOn(id)) \in Nat
  BY <1>1, FS_Subset, FS_CardinalityType
<1>3. ASSUME NEW c \in CallsOn(id), NEW d \in CallsOn(id), c # d PROVE FALSE
  <2>1. IsFiniteSet({c}) /\ Cardinality({c}) = 1
    BY FS_Singleton
  <2>2. IsFiniteSet({c} \union {d}) /\ Cardinality({c} \union {d}) = 2
    BY <1>3, <2>1, FS_AddElement
  <2>3. Cardinality({c} \union {d}) <= Cardinality(CallsOn(id))
    BY <1>2, <1>3, FS_Subset
  <2> QED BY <1>2, <2>2, <2>3 DEF Contended
<1> QED BY <1>3 DEF Contended, CallsOn, Alone

LEMMA NotContendedLater == (\A id \in Ids : ~Contended(id) => Alone(id))'
BY NotContended, PTL

(* So an id is not raced after a step only if it was not before, and its   *)
(* calls are alone.                                                        *)
LEMMA RacedRecords ==
  ASSUME Types, History, reset' # "down"
  PROVE  raced \subseteq raced' /\ raced' \subseteq Ids /\ \A id \in Ids \ raced' : Alone(id)'
BY NotContendedLater DEF History, Types

(* No id is contended while no call is under way. *)
LEMMA IdleIsCalm == (\A c \in Calls : call[c].id = None) => \A id \in Ids : ~Contended(id)
<1> SUFFICES ASSUME \A c \in Calls : call[c].id = None, NEW id \in Ids
             PROVE  ~Contended(id)
  OBVIOUS
<1>1. CallsOn(id) = {}
  BY NoneIsNothingElse DEF CallsOn
<1> QED BY <1>1, FS_EmptySet DEF Contended

LEMMA IdleIsCalmLater ==
  ((\A c \in Calls : call[c].id = None) => \A id \in Ids : ~Contended(id))'
BY IdleIsCalm, PTL

LEMMA TypesSuffice == Types => TypeOK
BY DEF Types, TypeOK, Present, CallRecord, Pc

-----------------------------------------------------------------------------
(* One lemma for each operation: the step preserves every part. *)

LEMMA CreateKeeps ==
  ASSUME PoolInv, InStep, NEW c \in Calls, NEW id \in Ids, NEW def \in Defs, Create(c, id, def),
         UNCHANGED <<reset, restoring, seedDef>>, History
  PROVE  PoolInv' /\ InStep'
<1> USE NoneIsNothingElse DEF PoolInv
<1>1. /\ raced \subseteq raced' /\ raced' \subseteq Ids
      /\ \A j \in Ids \ raced' : Alone(j)'
  <2>1. reset # "down"
    BY DEF Create, Fresh, Begin, NoCall, CallsOn, Present, Phases, Types
  <2> QED BY <2>1, RacedRecords
<1>2. Types'
  BY <1>1 DEF Create, Fresh, Begin, NoCall, CallsOn, Present, Types,
         Agent, Row, CallRecord, Pc
<1>3. CreatesAlone'
  BY <1>1, <1>2 DEF Create, Fresh, Begin, NoCall, CallsOn, Present,
         CreatesAlone, Untouched, RestoresRows, Types, CallRecord
<1>4. Phases'
  BY <1>1, <1>2 DEF Create, Fresh, Begin, NoCall, CallsOn, Present,
         Phases, RunsInPool, Types, CallRecord
<1>5. HoldsPooled'
  BY <1>1, <1>2 DEF Create, Fresh, Begin, NoCall, CallsOn, Present,
         HoldsPooled, TurnsTaken, CreatesAlone, Untouched, RunsInPool, Types,
         CallRecord, Alone
<1>6. RunsInPool'
  BY <1>1, <1>2 DEF Create, Fresh, Begin, NoCall, CallsOn, Present,
         RunsInPool, HoldsPooled, CreatesAlone, Untouched, Types, CallRecord,
         Alone
<1>7. ResetQuiet'
  BY <1>1, <1>2 DEF Create, Fresh, Begin, NoCall, CallsOn, Present,
         ResetQuiet, TurnsTaken, HoldsPooled, RunsInPool, Types, CallRecord,
         Alone
<1>8. RestoresRows'
  BY <1>1, <1>2 DEF Create, Fresh, Begin, NoCall, CallsOn, Present,
         RestoresRows, TurnsTaken, Phases, Nothing, Types, CallRecord, Alone
<1>9. InStep'
  BY <1>1, <1>2 DEF Create, Fresh, Begin, NoCall, CallsOn, Present,
         InStep, TurnsTaken, NotAsStored, HoldsPooled, CreatesAlone, Untouched,
         Types, Agent, Row, CallRecord, Alone
<1>10. TurnsTaken'
  BY <1>1, <1>2 DEF Alone, TurnsTaken, Types, CallRecord
<1> QED BY <1>2, <1>3, <1>4, <1>5, <1>6, <1>7, <1>8, <1>9, <1>10

LEMMA CreatedKeeps ==
  ASSUME PoolInv, InStep, NEW c \in Calls, NEW object \in Objects, Created(c, object),
         UNCHANGED <<reset, restoring, seedDef>>, History
  PROVE  PoolInv' /\ InStep'
<1> USE NoneIsNothingElse DEF PoolInv
<1>1. /\ raced \subseteq raced' /\ raced' \subseteq Ids
      /\ \A j \in Ids \ raced' : Alone(j)'
  <2>1. reset # "down"
    BY DEF Created, At, Enter, New, Return, NoCall, Unsettle, Phases, Types
  <2> QED BY <2>1, RacedRecords
<1>a. /\ call[c].id \in Ids /\ call[c].def \in Defs
      /\ New(object, call[c].id, call[c].def) \in Agent
      /\ New(object, call[c].id, call[c].def).id = call[c].id
      /\ New(object, call[c].id, call[c].def).def = call[c].def
      /\ [def |-> call[c].def, modified |-> FALSE] \in Row
  BY DEF Created, At, Types, New, Agent, Row
<1>2. Types'
  <2>1. /\ agents' \in [Ids -> Agent \union {None}]
        /\ \A id \in Ids : agents'[id] # None => agents'[id].id = id
        /\ running' \subseteq Agent
    BY <1>a DEF Created, Enter, Types
  <2>2. store' \in [Ids -> Row \union {None}] /\ unsettled' \subseteq Ids
    BY <1>a DEF Created, Unsettle, Types
  <2>3. /\ call' \in [Calls -> CallRecord]
        /\ \A d \in Calls : call'[d] = call[d] \/ call'[d] = NoCall
    BY DEF Created, Return, NoCall, Types, CallRecord
  <2> QED BY <1>1, <2>1, <2>2, <2>3 DEF Created, Types, NoCall
<1>3. CreatesAlone'
  BY <1>1, <1>a, <1>2 DEF Created, At, Enter, New, Return, NoCall,
         Unsettle, CreatesAlone, Untouched, RestoresRows, Types, CallRecord
<1>4. Phases'
  BY <1>1, <1>a, <1>2 DEF Created, At, Enter, New, Return, NoCall,
         Unsettle, Phases, RunsInPool, Types, CallRecord
<1>5. HoldsPooled'
  BY <1>1, <1>a, <1>2 DEF Created, At, Enter, New, Return, NoCall,
         Unsettle, HoldsPooled, TurnsTaken, CreatesAlone, Untouched,
         RunsInPool, Types, CallRecord, Alone
<1>6. RunsInPool'
  BY <1>1, <1>a, <1>2 DEF Created, At, Enter, New, Return, NoCall,
         Unsettle, RunsInPool, HoldsPooled, CreatesAlone, Untouched, Types,
         CallRecord, Alone
<1>7. ResetQuiet'
  BY <1>1, <1>a, <1>2 DEF Created, At, Enter, New, Return, NoCall,
         Unsettle, ResetQuiet, TurnsTaken, HoldsPooled, RunsInPool, Types,
         CallRecord, Alone
<1>8. RestoresRows'
  BY <1>1, <1>a, <1>2 DEF Created, At, Enter, New, Return, NoCall,
         Unsettle, RestoresRows, TurnsTaken, Phases, Nothing, Types,
         CallRecord, Alone
<1>9. InStep'
  <2> SUFFICES ASSUME NEW j \in Ids \ raced'
               PROVE  /\ reset = "idle" /\ j \notin unsettled' => ~NotAsStored(j)'
                      /\ reset = "cleared" => store'[j] = None
                      /\ reset = "restoring" => restoring[j] = store'[j]
    BY DEF InStep
  <2>1. CASE j # call[c].id
    <3>1. agents'[j] = agents[j] /\ store'[j] = store[j] /\ unsettled \subseteq unsettled'
      BY <1>a, <2>1 DEF Created, Enter, Unsettle, Types
    <3> QED BY <1>1, <3>1 DEF InStep, NotAsStored
  <2>2. CASE j = call[c].id
    <3>1. reset = "idle"
      BY <1>1, <2>2 DEF Created, At, TurnsTaken
    <3>2. agents'[j] = New(object, call[c].id, call[c].def)
      BY <1>a, <2>2 DEF Created, Enter, Types
    <3>3. ASSUME j \notin unsettled'
          PROVE  store'[j] # None /\ store'[j].def = call[c].def
      BY <1>a, <2>2, <3>3 DEF Created, Unsettle, Types
    <3> QED BY <1>a, <3>1, <3>2, <3>3 DEF NotAsStored
  <2> QED BY <2>1, <2>2
<1>10. TurnsTaken'
  BY <1>1, <1>2 DEF Alone, TurnsTaken, Types, CallRecord
<1> QED BY <1>2, <1>3, <1>4, <1>5, <1>6, <1>7, <1>8, <1>9, <1>10

LEMMA UpdateKeeps ==
  ASSUME PoolInv, InStep, NEW c \in Calls, NEW id \in Ids, NEW def \in Defs, Update(c, id, def),
         UNCHANGED <<reset, restoring, seedDef>>, History
  PROVE  PoolInv' /\ InStep'
<1> USE NoneIsNothingElse DEF PoolInv
<1>1. /\ raced \subseteq raced' /\ raced' \subseteq Ids
      /\ \A j \in Ids \ raced' : Alone(j)'
  <2>1. reset # "down"
    BY DEF Update, Begin, NoCall, Kill, Phases, Types
  <2> QED BY <2>1, RacedRecords
<1>2. Types'
  BY <1>1 DEF Update, Begin, NoCall, Kill, Types, Agent, Row,
         CallRecord, Pc
<1>3. CreatesAlone'
  BY <1>1, <1>2 DEF Update, Begin, NoCall, Kill, CreatesAlone,
         Untouched, RestoresRows, Types, CallRecord
<1>4. Phases'
  BY <1>1, <1>2 DEF Update, Begin, NoCall, Kill, Phases, RunsInPool,
         Types, CallRecord
<1>5. HoldsPooled'
  BY <1>1, <1>2 DEF Update, Begin, NoCall, Kill, HoldsPooled,
         TurnsTaken, CreatesAlone, Untouched, RunsInPool, Types, CallRecord,
         Alone
<1>6. RunsInPool'
  BY <1>1, <1>2 DEF Update, Begin, NoCall, Kill, RunsInPool,
         HoldsPooled, CreatesAlone, Untouched, Types, CallRecord, Alone
<1>7. ResetQuiet'
  BY <1>1, <1>2 DEF Update, Begin, NoCall, Kill, ResetQuiet, TurnsTaken,
         HoldsPooled, RunsInPool, Types, CallRecord, Alone
<1>8. RestoresRows'
  BY <1>1, <1>2 DEF Update, Begin, NoCall, Kill, RestoresRows,
         TurnsTaken, Phases, Nothing, Types, CallRecord, Alone
<1>9. InStep'
  BY <1>1, <1>2 DEF Update, Begin, NoCall, Kill, InStep, TurnsTaken,
         NotAsStored, HoldsPooled, CreatesAlone, Untouched, Types, Agent, Row,
         CallRecord, Alone
<1>10. TurnsTaken'
  BY <1>1, <1>2 DEF Alone, TurnsTaken, Types, CallRecord
<1> QED BY <1>2, <1>3, <1>4, <1>5, <1>6, <1>7, <1>8, <1>9, <1>10

LEMMA UpdatedKeeps ==
  ASSUME PoolInv, InStep, NEW c \in Calls, NEW object \in Objects, Updated(c, object),
         UNCHANGED <<reset, restoring, seedDef>>, History
  PROVE  PoolInv' /\ InStep'
<1> USE NoneIsNothingElse DEF PoolInv
<1>1. /\ raced \subseteq raced' /\ raced' \subseteq Ids
      /\ \A j \in Ids \ raced' : Alone(j)'
  <2>1. reset # "down"
    BY DEF Updated, At, Enter, New, Return, NoCall, Unsettle, UpdatedRow, Phases,
    Types
  <2> QED BY <2>1, RacedRecords
<1>a. /\ call[c].id \in Ids /\ call[c].def \in Defs
      /\ New(object, call[c].id, call[c].def) \in Agent
      /\ New(object, call[c].id, call[c].def).id = call[c].id
      /\ New(object, call[c].id, call[c].def).def = call[c].def
      /\ [def |-> call[c].def, modified |-> TRUE] \in Row
  BY DEF Updated, At, Types, New, Agent, Row
<1>2. Types'
  <2>1. /\ agents' \in [Ids -> Agent \union {None}]
        /\ \A id \in Ids : agents'[id] # None => agents'[id].id = id
        /\ running' \subseteq Agent
    BY <1>a DEF Updated, Enter, Types
  <2>2. store' \in [Ids -> Row \union {None}] /\ unsettled' \subseteq Ids
    BY <1>a DEF Updated, Unsettle, Types, UpdatedRow
  <2>3. /\ call' \in [Calls -> CallRecord]
        /\ \A d \in Calls : call'[d] = call[d] \/ call'[d] = NoCall
    BY DEF Updated, Return, NoCall, Types, CallRecord
  <2> QED BY <1>1, <2>1, <2>2, <2>3 DEF Updated, Types, NoCall
<1>3. CreatesAlone'
  BY <1>1, <1>a, <1>2 DEF Updated, At, Enter, New, Return, NoCall,
         Unsettle, UpdatedRow, CreatesAlone, Untouched, RestoresRows, Types,
         CallRecord
<1>4. Phases'
  BY <1>1, <1>a, <1>2 DEF Updated, At, Enter, New, Return, NoCall,
         Unsettle, UpdatedRow, Phases, RunsInPool, Types, CallRecord
<1>5. HoldsPooled'
  BY <1>1, <1>a, <1>2 DEF Updated, At, Enter, New, Return, NoCall,
         Unsettle, UpdatedRow, HoldsPooled, TurnsTaken, CreatesAlone,
         Untouched, RunsInPool, Types, CallRecord, Alone
<1>6. RunsInPool'
  BY <1>1, <1>a, <1>2 DEF Updated, At, Enter, New, Return, NoCall,
         Unsettle, UpdatedRow, RunsInPool, HoldsPooled, CreatesAlone,
         Untouched, Types, CallRecord, Alone
<1>7. ResetQuiet'
  BY <1>1, <1>a, <1>2 DEF Updated, At, Enter, New, Return, NoCall,
         Unsettle, UpdatedRow, ResetQuiet, TurnsTaken, HoldsPooled, RunsInPool,
         Types, CallRecord, Alone
<1>8. RestoresRows'
  BY <1>1, <1>a, <1>2 DEF Updated, At, Enter, New, Return, NoCall,
         Unsettle, UpdatedRow, RestoresRows, TurnsTaken, Phases, Nothing,
         Types, CallRecord, Alone
<1>9. InStep'
  <2> SUFFICES ASSUME NEW j \in Ids \ raced'
               PROVE  /\ reset = "idle" /\ j \notin unsettled' => ~NotAsStored(j)'
                      /\ reset = "cleared" => store'[j] = None
                      /\ reset = "restoring" => restoring[j] = store'[j]
    BY DEF InStep
  <2>1. CASE j # call[c].id
    <3>1. agents'[j] = agents[j] /\ store'[j] = store[j] /\ unsettled \subseteq unsettled'
      BY <1>a, <2>1 DEF Updated, Enter, Unsettle, Types, UpdatedRow
    <3> QED BY <1>1, <3>1 DEF InStep, NotAsStored
  <2>2. CASE j = call[c].id
    <3>1. reset = "idle"
      BY <1>1, <2>2 DEF Updated, At, TurnsTaken
    <3>2. agents'[j] = New(object, call[c].id, call[c].def)
      BY <1>a, <2>2 DEF Updated, Enter, Types
    <3>3. ASSUME j \notin unsettled'
          PROVE  store'[j] # None /\ store'[j].def = call[c].def
      <4>1. j \notin unsettled /\ store' = UpdatedRow(call[c].id, call[c].def)
        BY <2>2, <3>3 DEF Updated, Unsettle
      <4>2. agents[j] # None
        BY <1>1, <2>2 DEF Updated, At, HoldsPooled, Types
      <4>3. store[j] # None
        BY <1>1, <3>1, <4>1, <4>2 DEF InStep, NotAsStored
      <4> QED BY <1>a, <2>2, <4>1, <4>3 DEF UpdatedRow, Types
    <3> QED BY <1>a, <3>1, <3>2, <3>3 DEF NotAsStored
  <2> QED BY <2>1, <2>2
<1>10. TurnsTaken'
  BY <1>1, <1>2 DEF Alone, TurnsTaken, Types, CallRecord
<1> QED BY <1>2, <1>3, <1>4, <1>5, <1>6, <1>7, <1>8, <1>9, <1>10

LEMMA UpdateFailsKeeps ==
  ASSUME PoolInv, InStep, NEW c \in Calls, UpdateFails(c),
         UNCHANGED <<reset, restoring, seedDef>>, History
  PROVE  PoolInv' /\ InStep'
<1> USE NoneIsNothingElse DEF PoolInv
<1>1. /\ raced \subseteq raced' /\ raced' \subseteq Ids
      /\ \A j \in Ids \ raced' : Alone(j)'
  <2>1. reset # "down"
    BY DEF UpdateFails, At, Goto, Phases, Types
  <2> QED BY <2>1, RacedRecords
<1>2. Types'
  BY <1>1 DEF UpdateFails, At, Goto, Types, Agent, Row, CallRecord, Pc
<1>3. CreatesAlone'
  BY <1>1, <1>2 DEF UpdateFails, At, Goto, CreatesAlone, Untouched,
         RestoresRows, Types, CallRecord
<1>4. Phases'
  BY <1>1, <1>2 DEF UpdateFails, At, Goto, Phases, RunsInPool, Types,
         CallRecord
<1>5. HoldsPooled'
  BY <1>1, <1>2 DEF UpdateFails, At, Goto, HoldsPooled, TurnsTaken,
         CreatesAlone, Untouched, RunsInPool, Types, CallRecord, Alone
<1>6. RunsInPool'
  BY <1>1, <1>2 DEF UpdateFails, At, Goto, RunsInPool, HoldsPooled,
         CreatesAlone, Untouched, Types, CallRecord, Alone
<1>7. ResetQuiet'
  BY <1>1, <1>2 DEF UpdateFails, At, Goto, ResetQuiet, TurnsTaken,
         HoldsPooled, RunsInPool, Types, CallRecord, Alone
<1>8. RestoresRows'
  BY <1>1, <1>2 DEF UpdateFails, At, Goto, RestoresRows, TurnsTaken,
         Phases, Nothing, Types, CallRecord, Alone
<1>9. InStep'
  BY <1>1, <1>2 DEF UpdateFails, At, Goto, InStep, TurnsTaken,
         NotAsStored, HoldsPooled, CreatesAlone, Untouched, Types, Agent, Row,
         CallRecord, Alone
<1>10. TurnsTaken'
  BY <1>1, <1>2 DEF Alone, TurnsTaken, Types, CallRecord
<1> QED BY <1>2, <1>3, <1>4, <1>5, <1>6, <1>7, <1>8, <1>9, <1>10

LEMMA RecoveredKeeps ==
  ASSUME PoolInv, InStep, NEW c \in Calls, Recovered(c),
         UNCHANGED <<reset, restoring, seedDef>>, History
  PROVE  PoolInv' /\ InStep'
<1> USE NoneIsNothingElse DEF PoolInv
<1>1. /\ raced \subseteq raced' /\ raced' \subseteq Ids
      /\ \A j \in Ids \ raced' : Alone(j)'
  <2>1. reset # "down"
    BY DEF Recovered, At, Enter, Return, NoCall, Phases, Types
  <2> QED BY <2>1, RacedRecords
<1>2. Types'
  BY <1>1 DEF Recovered, At, Enter, Return, NoCall, Types, Agent, Row,
         CallRecord, Pc
<1>3. CreatesAlone'
  BY <1>1, <1>2 DEF Recovered, At, Enter, Return, NoCall, CreatesAlone,
         Untouched, RestoresRows, Types, CallRecord
<1>4. Phases'
  BY <1>1, <1>2 DEF Recovered, At, Enter, Return, NoCall, Phases,
         RunsInPool, Types, CallRecord
<1>5. HoldsPooled'
  BY <1>1, <1>2 DEF Recovered, At, Enter, Return, NoCall, HoldsPooled,
         TurnsTaken, CreatesAlone, Untouched, RunsInPool, Types, CallRecord,
         Alone
<1>6. RunsInPool'
  BY <1>1, <1>2 DEF Recovered, At, Enter, Return, NoCall, RunsInPool,
         HoldsPooled, CreatesAlone, Untouched, Types, CallRecord, Alone
<1>7. ResetQuiet'
  BY <1>1, <1>2 DEF Recovered, At, Enter, Return, NoCall, ResetQuiet,
         TurnsTaken, HoldsPooled, RunsInPool, Types, CallRecord, Alone
<1>8. RestoresRows'
  BY <1>1, <1>2 DEF Recovered, At, Enter, Return, NoCall, RestoresRows,
         TurnsTaken, Phases, Nothing, Types, CallRecord, Alone
<1>9. InStep'
  BY <1>1, <1>2 DEF Recovered, At, Enter, Return, NoCall, InStep,
         TurnsTaken, NotAsStored, HoldsPooled, CreatesAlone, Untouched, Types,
         Agent, Row, CallRecord, Alone
<1>10. TurnsTaken'
  BY <1>1, <1>2 DEF Alone, TurnsTaken, Types, CallRecord
<1> QED BY <1>2, <1>3, <1>4, <1>5, <1>6, <1>7, <1>8, <1>9, <1>10

LEMMA RecoverFailsKeeps ==
  ASSUME PoolInv, InStep, NEW c \in Calls, RecoverFails(c),
         UNCHANGED <<reset, restoring, seedDef>>, History
  PROVE  PoolInv' /\ InStep'
<1> USE NoneIsNothingElse DEF PoolInv
<1>1. /\ raced \subseteq raced' /\ raced' \subseteq Ids
      /\ \A j \in Ids \ raced' : Alone(j)'
  <2>1. reset # "down"
    BY DEF RecoverFails, At, Return, NoCall, Unsettle, Phases, Types
  <2> QED BY <2>1, RacedRecords
<1>2. Types'
  BY <1>1 DEF RecoverFails, At, Return, NoCall, Unsettle, Types, Agent,
         Row, CallRecord, Pc
<1>3. CreatesAlone'
  BY <1>1, <1>2 DEF RecoverFails, At, Return, NoCall, Unsettle,
         CreatesAlone, Untouched, RestoresRows, Types, CallRecord
<1>4. Phases'
  BY <1>1, <1>2 DEF RecoverFails, At, Return, NoCall, Unsettle, Phases,
         RunsInPool, Types, CallRecord
<1>5. HoldsPooled'
  BY <1>1, <1>2 DEF RecoverFails, At, Return, NoCall, Unsettle,
         HoldsPooled, TurnsTaken, CreatesAlone, Untouched, RunsInPool, Types,
         CallRecord, Alone
<1>6. RunsInPool'
  BY <1>1, <1>2 DEF RecoverFails, At, Return, NoCall, Unsettle,
         RunsInPool, HoldsPooled, CreatesAlone, Untouched, Types, CallRecord,
         Alone
<1>7. ResetQuiet'
  BY <1>1, <1>2 DEF RecoverFails, At, Return, NoCall, Unsettle,
         ResetQuiet, TurnsTaken, HoldsPooled, RunsInPool, Types, CallRecord,
         Alone
<1>8. RestoresRows'
  BY <1>1, <1>2 DEF RecoverFails, At, Return, NoCall, Unsettle,
         RestoresRows, TurnsTaken, Phases, Nothing, Types, CallRecord, Alone
<1>9. InStep'
  BY <1>1, <1>2 DEF RecoverFails, At, Return, NoCall, Unsettle, InStep,
         TurnsTaken, NotAsStored, HoldsPooled, CreatesAlone, Untouched, Types,
         Agent, Row, CallRecord, Alone
<1>10. TurnsTaken'
  BY <1>1, <1>2 DEF Alone, TurnsTaken, Types, CallRecord
<1> QED BY <1>2, <1>3, <1>4, <1>5, <1>6, <1>7, <1>8, <1>9, <1>10

LEMMA RemoveKeeps ==
  ASSUME PoolInv, InStep, NEW c \in Calls, NEW id \in Ids, Remove(c, id),
         UNCHANGED <<reset, restoring, seedDef>>, History
  PROVE  PoolInv' /\ InStep'
<1> USE NoneIsNothingElse DEF PoolInv
<1>1. /\ raced \subseteq raced' /\ raced' \subseteq Ids
      /\ \A j \in Ids \ raced' : Alone(j)'
  <2>1. reset # "down"
    BY DEF Remove, Begin, NoCall, Phases, Types
  <2> QED BY <2>1, RacedRecords
<1>2. Types'
  BY <1>1 DEF Remove, Begin, NoCall, Types, Agent, Row, CallRecord, Pc
<1>3. CreatesAlone'
  BY <1>1, <1>2 DEF Remove, Begin, NoCall, CreatesAlone, Untouched,
         RestoresRows, Types, CallRecord
<1>4. Phases'
  BY <1>1, <1>2 DEF Remove, Begin, NoCall, Phases, RunsInPool, Types,
         CallRecord
<1>5. HoldsPooled'
  BY <1>1, <1>2 DEF Remove, Begin, NoCall, HoldsPooled, TurnsTaken,
         CreatesAlone, Untouched, RunsInPool, Types, CallRecord, Alone
<1>6. RunsInPool'
  BY <1>1, <1>2 DEF Remove, Begin, NoCall, RunsInPool, HoldsPooled,
         CreatesAlone, Untouched, Types, CallRecord, Alone
<1>7. ResetQuiet'
  BY <1>1, <1>2 DEF Remove, Begin, NoCall, ResetQuiet, TurnsTaken,
         HoldsPooled, RunsInPool, Types, CallRecord, Alone
<1>8. RestoresRows'
  BY <1>1, <1>2 DEF Remove, Begin, NoCall, RestoresRows, TurnsTaken,
         Phases, Nothing, Types, CallRecord, Alone
<1>9. InStep'
  BY <1>1, <1>2 DEF Remove, Begin, NoCall, InStep, TurnsTaken,
         NotAsStored, HoldsPooled, CreatesAlone, Untouched, Types, Agent, Row,
         CallRecord, Alone
<1>10. TurnsTaken'
  BY <1>1, <1>2 DEF Alone, TurnsTaken, Types, CallRecord
<1> QED BY <1>2, <1>3, <1>4, <1>5, <1>6, <1>7, <1>8, <1>9, <1>10

LEMMA RemoveStopsKeeps ==
  ASSUME PoolInv, InStep, NEW c \in Calls, RemoveStops(c),
         UNCHANGED <<reset, restoring, seedDef>>, History
  PROVE  PoolInv' /\ InStep'
<1> USE NoneIsNothingElse DEF PoolInv
<1>1. /\ raced \subseteq raced' /\ raced' \subseteq Ids
      /\ \A j \in Ids \ raced' : Alone(j)'
  <2>1. reset # "down"
    BY DEF RemoveStops, At, Goto, Kill, Phases, Types
  <2> QED BY <2>1, RacedRecords
<1>2. Types'
  BY <1>1 DEF RemoveStops, At, Goto, Kill, Types, Agent, Row,
         CallRecord, Pc
<1>3. CreatesAlone'
  BY <1>1, <1>2 DEF RemoveStops, At, Goto, Kill, CreatesAlone,
         Untouched, RestoresRows, Types, CallRecord
<1>4. Phases'
  BY <1>1, <1>2 DEF RemoveStops, At, Goto, Kill, Phases, RunsInPool,
         Types, CallRecord
<1>5. HoldsPooled'
  BY <1>1, <1>2 DEF RemoveStops, At, Goto, Kill, HoldsPooled,
         TurnsTaken, CreatesAlone, Untouched, RunsInPool, Types, CallRecord,
         Alone
<1>6. RunsInPool'
  BY <1>1, <1>2 DEF RemoveStops, At, Goto, Kill, RunsInPool,
         HoldsPooled, CreatesAlone, Untouched, Types, CallRecord, Alone
<1>7. ResetQuiet'
  BY <1>1, <1>2 DEF RemoveStops, At, Goto, Kill, ResetQuiet, TurnsTaken,
         HoldsPooled, RunsInPool, Types, CallRecord, Alone
<1>8. RestoresRows'
  BY <1>1, <1>2 DEF RemoveStops, At, Goto, Kill, RestoresRows,
         TurnsTaken, Phases, Nothing, Types, CallRecord, Alone
<1>9. InStep'
  BY <1>1, <1>2 DEF RemoveStops, At, Goto, Kill, InStep, TurnsTaken,
         NotAsStored, HoldsPooled, CreatesAlone, Untouched, Types, Agent, Row,
         CallRecord, Alone
<1>10. TurnsTaken'
  BY <1>1, <1>2 DEF Alone, TurnsTaken, Types, CallRecord
<1> QED BY <1>2, <1>3, <1>4, <1>5, <1>6, <1>7, <1>8, <1>9, <1>10

LEMMA RemovedKeeps ==
  ASSUME PoolInv, InStep, NEW c \in Calls, Removed(c),
         UNCHANGED <<reset, restoring, seedDef>>, History
  PROVE  PoolInv' /\ InStep'
<1> USE NoneIsNothingElse DEF PoolInv
<1>1. /\ raced \subseteq raced' /\ raced' \subseteq Ids
      /\ \A j \in Ids \ raced' : Alone(j)'
  <2>1. reset # "down"
    BY DEF Removed, At, Return, NoCall, Deleted, Unsettle, Phases, Types
  <2> QED BY <2>1, RacedRecords
<1>2. Types'
  BY <1>1 DEF Removed, At, Return, NoCall, Deleted, Unsettle, Types, Agent, Row,
         CallRecord, Pc
<1>3. CreatesAlone'
  BY <1>1, <1>2 DEF Removed, At, Return, NoCall, Deleted, Unsettle, CreatesAlone,
         Untouched, RestoresRows, Types, CallRecord
<1>4. Phases'
  BY <1>1, <1>2 DEF Removed, At, Return, NoCall, Deleted, Unsettle, Phases,
         RunsInPool, Types, CallRecord
<1>5. HoldsPooled'
  BY <1>1, <1>2 DEF Removed, At, Return, NoCall, Deleted, Unsettle, HoldsPooled,
         TurnsTaken, CreatesAlone, Untouched, RunsInPool, Types, CallRecord,
         Alone
<1>6. RunsInPool'
  BY <1>1, <1>2 DEF Removed, At, Return, NoCall, Deleted, Unsettle, RunsInPool,
         HoldsPooled, CreatesAlone, Untouched, Types, CallRecord, Alone
<1>7. ResetQuiet'
  BY <1>1, <1>2 DEF Removed, At, Return, NoCall, Deleted, Unsettle, ResetQuiet,
         TurnsTaken, HoldsPooled, RunsInPool, Types, CallRecord, Alone
<1>8. RestoresRows'
  BY <1>1, <1>2 DEF Removed, At, Return, NoCall, Deleted, Unsettle, RestoresRows,
         TurnsTaken, Phases, Nothing, Types, CallRecord, Alone
<1>9. InStep'
  BY <1>1, <1>2 DEF Removed, At, Return, NoCall, Deleted, Unsettle, InStep,
         TurnsTaken, NotAsStored, HoldsPooled, CreatesAlone, Untouched, Types,
         Agent, Row, CallRecord, Alone
<1>10. TurnsTaken'
  BY <1>1, <1>2 DEF Alone, TurnsTaken, Types, CallRecord
<1> QED BY <1>2, <1>3, <1>4, <1>5, <1>6, <1>7, <1>8, <1>9, <1>10

LEMMA RestartKeeps ==
  ASSUME PoolInv, InStep, NEW c \in Calls, NEW id \in Ids, Restart(c, id),
         UNCHANGED <<reset, restoring, seedDef>>, History
  PROVE  PoolInv' /\ InStep'
<1> USE NoneIsNothingElse DEF PoolInv
<1>1. /\ raced \subseteq raced' /\ raced' \subseteq Ids
      /\ \A j \in Ids \ raced' : Alone(j)'
  <2>1. reset # "down"
    BY DEF Restart, Begin, NoCall, Kill, Phases, Types
  <2> QED BY <2>1, RacedRecords
<1>2. Types'
  BY <1>1 DEF Restart, Begin, NoCall, Kill, Types, Agent, Row,
         CallRecord, Pc
<1>3. CreatesAlone'
  BY <1>1, <1>2 DEF Restart, Begin, NoCall, Kill, CreatesAlone,
         Untouched, RestoresRows, Types, CallRecord
<1>4. Phases'
  BY <1>1, <1>2 DEF Restart, Begin, NoCall, Kill, Phases, RunsInPool,
         Types, CallRecord
<1>5. HoldsPooled'
  BY <1>1, <1>2 DEF Restart, Begin, NoCall, Kill, HoldsPooled,
         TurnsTaken, CreatesAlone, Untouched, RunsInPool, Types, CallRecord,
         Alone
<1>6. RunsInPool'
  BY <1>1, <1>2 DEF Restart, Begin, NoCall, Kill, RunsInPool,
         HoldsPooled, CreatesAlone, Untouched, Types, CallRecord, Alone
<1>7. ResetQuiet'
  BY <1>1, <1>2 DEF Restart, Begin, NoCall, Kill, ResetQuiet,
         TurnsTaken, HoldsPooled, RunsInPool, Types, CallRecord, Alone
<1>8. RestoresRows'
  BY <1>1, <1>2 DEF Restart, Begin, NoCall, Kill, RestoresRows,
         TurnsTaken, Phases, Nothing, Types, CallRecord, Alone
<1>9. InStep'
  BY <1>1, <1>2 DEF Restart, Begin, NoCall, Kill, InStep, TurnsTaken,
         NotAsStored, HoldsPooled, CreatesAlone, Untouched, Types, Agent, Row,
         CallRecord, Alone
<1>10. TurnsTaken'
  BY <1>1, <1>2 DEF Alone, TurnsTaken, Types, CallRecord
<1> QED BY <1>2, <1>3, <1>4, <1>5, <1>6, <1>7, <1>8, <1>9, <1>10

LEMMA RestartedKeeps ==
  ASSUME PoolInv, InStep, NEW c \in Calls, Restarted(c),
         UNCHANGED <<reset, restoring, seedDef>>, History
  PROVE  PoolInv' /\ InStep'
<1> USE NoneIsNothingElse DEF PoolInv
<1>1. /\ raced \subseteq raced' /\ raced' \subseteq Ids
      /\ \A j \in Ids \ raced' : Alone(j)'
  <2>1. reset # "down"
    BY DEF Restarted, At, Return, NoCall, Phases, Types
  <2> QED BY <2>1, RacedRecords
<1>2. Types'
  BY <1>1 DEF Restarted, At, Return, NoCall, Types, Agent, Row,
         CallRecord, Pc
<1>3. CreatesAlone'
  BY <1>1, <1>2 DEF Restarted, At, Return, NoCall, CreatesAlone,
         Untouched, RestoresRows, Types, CallRecord
<1>4. Phases'
  BY <1>1, <1>2 DEF Restarted, At, Return, NoCall, Phases, RunsInPool,
         Types, CallRecord
<1>5. HoldsPooled'
  BY <1>1, <1>2 DEF Restarted, At, Return, NoCall, HoldsPooled,
         TurnsTaken, CreatesAlone, Untouched, RunsInPool, Types, CallRecord,
         Alone
<1>6. RunsInPool'
  BY <1>1, <1>2 DEF Restarted, At, Return, NoCall, RunsInPool,
         HoldsPooled, CreatesAlone, Untouched, Types, CallRecord, Alone
<1>7. ResetQuiet'
  BY <1>1, <1>2 DEF Restarted, At, Return, NoCall, ResetQuiet,
         TurnsTaken, HoldsPooled, RunsInPool, Types, CallRecord, Alone
<1>8. RestoresRows'
  BY <1>1, <1>2 DEF Restarted, At, Return, NoCall, RestoresRows,
         TurnsTaken, Phases, Nothing, Types, CallRecord, Alone
<1>9. InStep'
  BY <1>1, <1>2 DEF Restarted, At, Return, NoCall, InStep, TurnsTaken,
         NotAsStored, HoldsPooled, CreatesAlone, Untouched, Types, Agent, Row,
         CallRecord, Alone
<1>10. TurnsTaken'
  BY <1>1, <1>2 DEF Alone, TurnsTaken, Types, CallRecord
<1> QED BY <1>2, <1>3, <1>4, <1>5, <1>6, <1>7, <1>8, <1>9, <1>10

LEMMA GivesUpKeeps ==
  ASSUME PoolInv, InStep, NEW c \in Calls, GivesUp(c),
         UNCHANGED <<reset, restoring, seedDef>>, History
  PROVE  PoolInv' /\ InStep'
<1> USE NoneIsNothingElse DEF PoolInv
<1>1. /\ raced \subseteq raced' /\ raced' \subseteq Ids
      /\ \A j \in Ids \ raced' : Alone(j)'
  <2>1. reset # "down"
    BY DEF GivesUp, Return, NoCall, Phases, Types
  <2> QED BY <2>1, RacedRecords
<1>2. Types'
  BY <1>1 DEF GivesUp, Return, NoCall, Types, Agent, Row, CallRecord, Pc
<1>3. CreatesAlone'
  BY <1>1, <1>2 DEF GivesUp, Return, NoCall, CreatesAlone, Untouched,
         RestoresRows, Types, CallRecord
<1>4. Phases'
  BY <1>1, <1>2 DEF GivesUp, Return, NoCall, Phases, RunsInPool, Types,
         CallRecord
<1>5. HoldsPooled'
  BY <1>1, <1>2 DEF GivesUp, Return, NoCall, HoldsPooled, TurnsTaken,
         CreatesAlone, Untouched, RunsInPool, Types, CallRecord, Alone
<1>6. RunsInPool'
  BY <1>1, <1>2 DEF GivesUp, Return, NoCall, RunsInPool, HoldsPooled,
         CreatesAlone, Untouched, Types, CallRecord, Alone
<1>7. ResetQuiet'
  BY <1>1, <1>2 DEF GivesUp, Return, NoCall, ResetQuiet, TurnsTaken,
         HoldsPooled, RunsInPool, Types, CallRecord, Alone
<1>8. RestoresRows'
  BY <1>1, <1>2 DEF GivesUp, Return, NoCall, RestoresRows, TurnsTaken,
         Phases, Nothing, Types, CallRecord, Alone
<1>9. InStep'
  BY <1>1, <1>2 DEF GivesUp, Return, NoCall, InStep, TurnsTaken,
         NotAsStored, HoldsPooled, CreatesAlone, Untouched, Types, Agent, Row,
         CallRecord, Alone
<1>10. TurnsTaken'
  BY <1>1, <1>2 DEF Alone, TurnsTaken, Types, CallRecord
<1> QED BY <1>2, <1>3, <1>4, <1>5, <1>6, <1>7, <1>8, <1>9, <1>10

LEMMA IdleTimeoutKeeps ==
  ASSUME PoolInv, InStep, NEW a \in running, IdleTimeout(a),
         UNCHANGED <<reset, restoring, seedDef>>, History
  PROVE  PoolInv' /\ InStep'
<1> USE NoneIsNothingElse DEF PoolInv
<1>1. /\ raced \subseteq raced' /\ raced' \subseteq Ids
      /\ \A j \in Ids \ raced' : Alone(j)'
  <2>1. reset # "down"
    BY DEF Phases
  <2> QED BY <2>1, RacedRecords
<1>2. Types'
  BY <1>1 DEF IdleTimeout, Kill, Types, Agent, Row, CallRecord, Pc
<1>3. CreatesAlone'
  BY <1>1, <1>2 DEF IdleTimeout, Kill, CreatesAlone, Untouched,
         RestoresRows, Types, CallRecord
<1>4. Phases'
  <2>1. reset \in {"down", "booting"} => \A c \in Calls : call'[c].id = None
    BY DEF IdleTimeout, Phases, Types, NoCall
  <2>2. reset \in {"down", "booting"} => raced' = {}
    BY <2>1, IdleIsCalmLater DEF History, Phases
  <2> QED BY <2>2 DEF IdleTimeout, Kill, Phases
<1>5. HoldsPooled'
  BY <1>1, <1>2 DEF IdleTimeout, Kill, HoldsPooled, TurnsTaken,
         CreatesAlone, Untouched, RunsInPool, Types, CallRecord, Alone
<1>6. RunsInPool'
  BY <1>1, <1>2 DEF IdleTimeout, Kill, RunsInPool, HoldsPooled,
         CreatesAlone, Untouched, Types, CallRecord, Alone
<1>7. ResetQuiet'
  BY <1>1, <1>2 DEF IdleTimeout, Kill, ResetQuiet, TurnsTaken,
         HoldsPooled, RunsInPool, Types, CallRecord, Alone
<1>8. RestoresRows'
  BY <1>1, <1>2 DEF IdleTimeout, Kill, RestoresRows, TurnsTaken, Phases,
         Nothing, Types, CallRecord, Alone
<1>9. InStep'
  BY <1>1, <1>2 DEF IdleTimeout, Kill, InStep, TurnsTaken, NotAsStored,
         HoldsPooled, CreatesAlone, Untouched, Types, Agent, Row, CallRecord,
         Alone
<1>10. TurnsTaken'
  BY <1>1, <1>2 DEF Alone, TurnsTaken, Types, CallRecord
<1> QED BY <1>2, <1>3, <1>4, <1>5, <1>6, <1>7, <1>8, <1>9, <1>10

-----------------------------------------------------------------------------
(* restore() lets agents of the given rows run, and puts them in the pool. *)
LEMMA Restores ==
  ASSUME Types, NEW rows \in [Ids -> Row \union {None}], Restore(rows)
  PROVE  /\ agents' \in [Ids -> Agent \union {None}] /\ running' \subseteq Agent
         /\ \A id \in Ids : \/ agents'[id] = agents[id]
                            \/ /\ rows[id] # None /\ agents'[id] \in Agent
                               /\ agents'[id].id = id /\ agents'[id].def = rows[id].def
         /\ \A a \in running' : a \in running \/ (rows[a.id] # None /\ agents'[a.id] = a)
<1>a. PICK started \in SUBSET Present(rows) : \E object \in [started -> Objects] :
        LET new == [id \in started |-> New(object[id], id, rows[id].def)] IN
        /\ agents' = [id \in Ids |-> IF id \in started THEN new[id] ELSE agents[id]]
        /\ running' = running \union {new[id] : id \in started}
  BY DEF Restore
<1>1. PICK object \in [started -> Objects] :
        LET new == [id \in started |-> New(object[id], id, rows[id].def)] IN
        /\ agents' = [id \in Ids |-> IF id \in started THEN new[id] ELSE agents[id]]
        /\ running' = running \union {new[id] : id \in started}
  BY <1>a
<1> DEFINE new == [id \in started |-> New(object[id], id, rows[id].def)]
<1>2. /\ agents' = [id \in Ids |-> IF id \in started THEN new[id] ELSE agents[id]]
      /\ running' = running \union {new[id] : id \in started}
  BY <1>1
<1>3. started \subseteq Ids /\ \A id \in started : rows[id] # None /\ rows[id].def \in Defs
  BY NoneIsNothingElse DEF Present, Row
<1>4. \A id \in started :
        new[id] \in Agent /\ new[id].id = id /\ new[id].def = rows[id].def
  BY <1>3 DEF New, Agent
<1> HIDE DEF new
<1>5. agents' \in [Ids -> Agent \union {None}]
  BY <1>2, <1>3, <1>4 DEF Types
<1>6. running' \subseteq Agent
  BY <1>2, <1>4 DEF Types
<1>7. ASSUME NEW id \in Ids
      PROVE  \/ agents'[id] = agents[id]
             \/ /\ rows[id] # None /\ agents'[id] \in Agent
                /\ agents'[id].id = id /\ agents'[id].def = rows[id].def
  BY <1>2, <1>3, <1>4
<1>8. ASSUME NEW a \in running', a \notin running
      PROVE  rows[a.id] # None /\ agents'[a.id] = a
  <2>1. PICK id \in started : a = new[id]
    BY <1>2, <1>8
  <2> QED BY <1>2, <1>3, <1>4, <2>1
<1> QED BY <1>5, <1>6, <1>7, <1>8

(* The steps of the reset, of the end of the process and of the boot.      *)
LEMMA ResetStopsKeeps ==
  ASSUME PoolInv, InStep, ResetStops, History
  PROVE  PoolInv' /\ InStep'
<1> USE NoneIsNothingElse DEF PoolInv
<1>1. raced \subseteq raced' /\ raced' \subseteq Ids /\ \A j \in Ids \ raced' : Alone(j)'
  BY RacedRecords DEF ResetStops
<1>2. Types'
  BY <1>1 DEF ResetStops, Kill, Types, ResetState
<1>3. CreatesAlone' /\ Phases'
  BY DEF ResetStops, Kill, CreatesAlone, Untouched, Phases
<1>4. TurnsTaken' /\ HoldsPooled'
  BY <1>1 DEF ResetStops, Types, CallRecord, Alone, TurnsTaken, HoldsPooled
<1>5. ASSUME NEW a \in running', a.id \notin raced' PROVE FALSE
  <2>1. a \in running /\ a.id \in Ids /\ a \notin Pooled
    BY <1>5 DEF ResetStops, Kill, Types, Agent
  <2>2. agents[a.id] = a
    BY <1>1, <1>5, <2>1 DEF RunsInPool
  <2> QED BY <2>1, <2>2 DEF Pooled, Present, Types
<1>6. RunsInPool' /\ ResetQuiet' /\ RestoresRows' /\ InStep'
  BY <1>1, <1>5 DEF ResetStops, RunsInPool, ResetQuiet, RestoresRows, InStep
<1> QED BY <1>2, <1>3, <1>4, <1>6

LEMMA ResetClearsKeeps ==
  ASSUME PoolInv, InStep, ResetClears, History
  PROVE  PoolInv' /\ InStep'
<1> USE NoneIsNothingElse DEF PoolInv
<1>1. raced \subseteq raced' /\ raced' \subseteq Ids /\ \A j \in Ids \ raced' : Alone(j)'
  BY RacedRecords DEF ResetClears
<1>2. Types'
  BY <1>1 DEF ResetClears, Nothing, Types, ResetState
<1>3. CreatesAlone' /\ Phases'
  BY DEF ResetClears, CreatesAlone, Untouched, Phases, Nothing, Types
<1>4. TurnsTaken' /\ HoldsPooled'
  BY <1>1 DEF ResetClears, Types, CallRecord, Alone, TurnsTaken, HoldsPooled
<1>5. RunsInPool' /\ ResetQuiet' /\ InStep'
  BY <1>1 DEF ResetClears, RunsInPool, ResetQuiet, InStep, Nothing
<1>6. RestoresRows'
  BY DEF ResetClears, Phases, RestoresRows, Nothing
<1> QED BY <1>2, <1>3, <1>4, <1>5, <1>6

LEMMA SeededRows ==
  ASSUME Types, RunSeeds
  PROVE  /\ store' \in [Ids -> Row \union {None}]
         /\ \A id \in Ids : store'[id] # store[id] => id \in Seeds /\ Upserts(id)
BY DEF Types, RunSeeds, Seeded, Row

LEMMA ResetSeedsKeeps ==
  ASSUME PoolInv, InStep, ResetSeeds, History
  PROVE  PoolInv' /\ InStep'
<1> USE NoneIsNothingElse DEF PoolInv
<1>1. raced \subseteq raced' /\ raced' \subseteq Ids /\ \A j \in Ids \ raced' : Alone(j)'
  BY RacedRecords DEF ResetSeeds
<1>2. /\ store' \in [Ids -> Row \union {None}]
      /\ \A id \in Ids : store'[id] # store[id] => id \in Seeds
      /\ restoring' = [id \in Ids |-> IF agents[id] = None THEN store'[id] ELSE None]
  BY SeededRows DEF ResetSeeds, RowsNotPooled
<1>3. Types'
  <2>1. restoring' \in [Ids -> Row \union {None}]
    BY <1>2
  <2> QED BY <1>1, <1>2, <2>1 DEF ResetSeeds, Types, ResetState
<1>4. CreatesAlone'
  <2>1. \A id \in Ids : id \notin Seeds /\ store[id] = None => store'[id] = None
    BY <1>2
  <2>2. \A id \in Ids : store'[id] = None => restoring'[id] = None
    BY <1>2
  <2> QED BY <2>1, <2>2 DEF ResetSeeds, CreatesAlone, Untouched, Types, CallRecord
<1>5. Phases'
  BY DEF ResetSeeds, Phases
<1>6. TurnsTaken' /\ HoldsPooled'
  BY <1>1 DEF ResetSeeds, Types, CallRecord, Alone, TurnsTaken, HoldsPooled
<1>7. RunsInPool' /\ ResetQuiet'
  BY <1>1 DEF ResetSeeds, RunsInPool, ResetQuiet
<1>8. RestoresRows' /\ InStep'
  BY <1>1, <1>2 DEF ResetSeeds, ResetQuiet, RestoresRows, InStep
<1> QED BY <1>3, <1>4, <1>5, <1>6, <1>7, <1>8

LEMMA ResetEndsKeeps ==
  ASSUME PoolInv, InStep, ResetEnds, History
  PROVE  PoolInv' /\ InStep'
<1> USE NoneIsNothingElse DEF PoolInv
<1>1. raced \subseteq raced' /\ raced' \subseteq Ids /\ \A j \in Ids \ raced' : Alone(j)'
  BY RacedRecords DEF ResetEnds
<1>2. /\ agents' \in [Ids -> Agent \union {None}] /\ running' \subseteq Agent
      /\ \A id \in Ids : \/ agents'[id] = agents[id]
                         \/ /\ restoring[id] # None /\ agents'[id] \in Agent
                            /\ agents'[id].id = id /\ agents'[id].def = restoring[id].def
      /\ \A a \in running' : a \in running \/ (restoring[a.id] # None /\ agents'[a.id] = a)
  BY Restores DEF ResetEnds, Types
<1>3. Types'
  BY <1>1, <1>2 DEF ResetEnds, Types, ResetState, Nothing, Present
<1>4. CreatesAlone'
  BY <1>2 DEF ResetEnds, CreatesAlone, Untouched, Nothing, Types, CallRecord
<1>5. Phases'
  BY DEF ResetEnds, Phases
<1>6. ASSUME NEW c \in Calls, call[c].pc # "idle" PROVE call[c].id \in raced'
  BY <1>1, <1>6 DEF ResetEnds, TurnsTaken
<1>7. TurnsTaken' /\ HoldsPooled'
  BY <1>6 DEF ResetEnds, TurnsTaken, HoldsPooled
<1>8. RunsInPool'
  BY <1>1, <1>2 DEF ResetEnds, RunsInPool, ResetQuiet
<1>9. ResetQuiet' /\ RestoresRows'
  BY DEF ResetEnds, ResetQuiet, RestoresRows, Nothing
<1>10. InStep'
  <2> SUFFICES ASSUME NEW id \in Ids \ raced', id \notin unsettled' PROVE ~NotAsStored(id)'
    BY DEF ResetEnds, InStep
  <2>1. agents[id] = None /\ store'[id] = store[id] /\ restoring[id] = store[id]
    BY <1>1 DEF ResetEnds, ResetQuiet, InStep
  <2>2. restoring[id] # None => agents'[id] # None
    BY DEF ResetEnds, Present
  <2> QED BY <1>2, <2>1, <2>2 DEF NotAsStored
<1> QED BY <1>3, <1>4, <1>5, <1>7, <1>8, <1>9, <1>10

LEMMA ResetFailsKeeps ==
  ASSUME PoolInv, InStep, ResetFails, History
  PROVE  PoolInv' /\ InStep'
<1> USE NoneIsNothingElse DEF PoolInv
<1>1. raced \subseteq raced' /\ raced' \subseteq Ids /\ \A j \in Ids \ raced' : Alone(j)'
  BY RacedRecords DEF ResetFails
<1>2. /\ reset \in {"stopping", "cleared"} /\ reset' = "idle"
      /\ UNCHANGED <<running, call, restoring, seedDef>>
      /\ agents' \in {agents, Nothing}
      /\ store' \in [Ids -> Row \union {None}]
      /\ \A id \in Ids : store'[id] # store[id] => id \in Seeds
  BY SeededRows DEF ResetFails, Types
<1>3. Types'
  <2>1. /\ agents' \in [Ids -> Agent \union {None}]
        /\ \A id \in Ids : agents'[id] # None => agents'[id].id = id
    BY <1>2 DEF Types, Nothing
  <2>2. unsettled' \subseteq Ids
    BY DEF ResetFails, Types
  <2> QED BY <1>1, <1>2, <2>1, <2>2 DEF Types, ResetState
<1>4. CreatesAlone' /\ Phases'
  BY <1>2 DEF CreatesAlone, Untouched, Phases, Nothing, Types, CallRecord
<1>5. TurnsTaken' /\ HoldsPooled'
  BY <1>1, <1>2 DEF Types, CallRecord, Alone, TurnsTaken, HoldsPooled
<1>6. RunsInPool' /\ ResetQuiet'
  BY <1>1, <1>2 DEF RunsInPool, ResetQuiet
<1>7. RestoresRows' /\ InStep'
  BY <1>2 DEF ResetFails, Phases, RestoresRows, InStep, Nothing
<1> QED BY <1>3, <1>4, <1>5, <1>6, <1>7

LEMMA ExitKeeps ==
  ASSUME PoolInv, InStep, Exit, History
  PROVE  PoolInv' /\ InStep'
<1> USE NoneIsNothingElse DEF PoolInv
<1>1. /\ raced' = {} /\ running' = {} /\ reset' = "down" /\ restoring' = Nothing
      /\ agents' = Nothing /\ \A c \in Calls : call'[c] = NoCall
  BY DEF Exit, History
<1>2. Types'
  <2>1. call' \in [Calls -> CallRecord]
    BY DEF Exit, NoCall, CallRecord
  <2>2. \A c \in Calls : call'[c].pc = "idle"
    BY <1>1 DEF NoCall
  <2> QED BY <1>1, <2>1, <2>2 DEF Exit, Nothing, Types, ResetState
<1>3. \A c \in Calls : call'[c].pc = "idle"
  BY <1>1 DEF NoCall
<1>4. CreatesAlone' /\ Phases' /\ TurnsTaken' /\ HoldsPooled' /\ RunsInPool' /\ ResetQuiet'
  BY <1>1, <1>3 DEF CreatesAlone, Phases, TurnsTaken, HoldsPooled, RunsInPool, ResetQuiet
<1>5. RestoresRows' /\ InStep'
  BY <1>1 DEF RestoresRows, InStep, Nothing
<1> QED BY <1>2, <1>4, <1>5

(* The two steps of the boot: no call is under way, none is contended.     *)
LEMMA BootCalm ==
  ASSUME PoolInv, Boot \/ BootSeeds, History
  PROVE  raced' = {} /\ call' = call /\ \A c \in Calls : call[c].pc = "idle"
<1>1. raced = {} /\ call' = call /\ \A c \in Calls : call[c].pc = "idle"
  BY DEF PoolInv, Phases, Boot, BootSeeds
<1>2. \A c \in Calls : call'[c].id = None
  BY <1>1 DEF PoolInv, Types, NoCall
<1>3. \A id \in Ids : ~Contended(id)'
  BY <1>2, IdleIsCalmLater
<1> QED BY <1>1, <1>3 DEF History

LEMMA BootKeeps ==
  ASSUME PoolInv, InStep, Boot, History
  PROVE  PoolInv' /\ InStep'
<1> USE NoneIsNothingElse DEF PoolInv
<1>1. raced' = {} /\ call' = call /\ \A c \in Calls : call[c].pc = "idle"
  BY BootCalm
<1>2. /\ agents' \in [Ids -> Agent \union {None}] /\ running' \subseteq Agent
      /\ \A id \in Ids : \/ agents'[id] = agents[id]
                         \/ /\ store[id] # None /\ agents'[id] \in Agent
                            /\ agents'[id].id = id /\ agents'[id].def = store[id].def
      /\ \A a \in running' : a \in running \/ (store[a.id] # None /\ agents'[a.id] = a)
  BY Restores DEF Boot, Types
<1>3. Types'
  BY <1>1, <1>2 DEF Boot, Types, ResetState
<1>4. CreatesAlone' /\ Phases' /\ TurnsTaken' /\ HoldsPooled' /\ ResetQuiet'
  BY <1>1 DEF Boot, CreatesAlone, Phases, TurnsTaken, HoldsPooled, ResetQuiet
<1>5. RunsInPool'
  BY <1>2 DEF Boot, Phases, RunsInPool
<1>6. RestoresRows' /\ InStep'
  BY DEF Boot, Phases, Nothing, RestoresRows, InStep
<1> QED BY <1>3, <1>4, <1>5, <1>6

LEMMA BootSeedsKeeps ==
  ASSUME PoolInv, InStep, BootSeeds, History
  PROVE  PoolInv' /\ InStep'
<1> USE NoneIsNothingElse DEF PoolInv
<1>1. raced' = {} /\ call' = call /\ \A c \in Calls : call[c].pc = "idle"
  BY BootCalm
<1> DEFINE rows == [id \in Ids |-> IF agents[id] = None THEN store'[id] ELSE None]
<1>2. /\ store' \in [Ids -> Row \union {None}] /\ rows \in [Ids -> Row \union {None}]
      /\ Restore(rows)
  <2>1. store' \in [Ids -> Row \union {None}]
    BY SeededRows DEF BootSeeds
  <2> QED BY <2>1 DEF BootSeeds, RowsNotPooled
<1>3. \A id \in Ids : rows[id] # None => agents[id] = None
  OBVIOUS
<1> HIDE DEF rows
<1>4. /\ agents' \in [Ids -> Agent \union {None}] /\ running' \subseteq Agent
      /\ \A id \in Ids : \/ agents'[id] = agents[id]
                         \/ /\ rows[id] # None /\ agents'[id] \in Agent
                            /\ agents'[id].id = id /\ agents'[id].def = rows[id].def
      /\ \A a \in running' : a \in running \/ (rows[a.id] # None /\ agents'[a.id] = a)
  BY <1>2, Restores
<1>5. Types'
  BY <1>1, <1>2, <1>4 DEF BootSeeds, Types, ResetState
<1>6. CreatesAlone' /\ Phases' /\ TurnsTaken' /\ HoldsPooled' /\ ResetQuiet'
  BY <1>1 DEF BootSeeds, CreatesAlone, Phases, TurnsTaken, HoldsPooled, ResetQuiet
<1>7. RunsInPool'
  <2> SUFFICES ASSUME NEW a \in running' PROVE agents'[a.id] = a
    BY DEF RunsInPool
  <2>1. CASE a \in running
    <3>1. a.id \in Ids /\ agents[a.id] = a /\ agents[a.id] # None
      BY <2>1 DEF BootSeeds, Phases, RunsInPool, Types, Agent
    <3> QED BY <1>3, <1>4, <3>1
  <2>2. CASE a \notin running
    BY <1>4, <2>2
  <2> QED BY <2>1, <2>2
<1>8. RestoresRows'
  BY DEF BootSeeds, Phases, Nothing, RestoresRows
<1>9. InStep'
  BY DEF BootSeeds, InStep
<1> QED BY <1>5, <1>6, <1>7, <1>8, <1>9

-----------------------------------------------------------------------------
LEMMA InitPool == Init => PoolInv /\ InStep
<1> SUFFICES ASSUME Init PROVE PoolInv /\ InStep
  OBVIOUS
<1> USE NoneIsNothingElse
<1>1. Types
  BY DEF Init, Types, Nothing, NoCall, CallRecord, ResetState
<1>2. CreatesAlone /\ Phases /\ TurnsTaken /\ HoldsPooled /\ RunsInPool /\ ResetQuiet
  BY DEF Init, NoCall, CreatesAlone, Phases, TurnsTaken, HoldsPooled, RunsInPool, ResetQuiet
<1>3. RestoresRows /\ InStep
  BY DEF Init, RestoresRows, InStep, Nothing
<1> QED BY <1>1, <1>2, <1>3 DEF PoolInv

LEMMA NextPool == PoolInv /\ InStep /\ [Next]_vars => PoolInv' /\ InStep'
<1> SUFFICES ASSUME PoolInv, InStep, [Next]_vars PROVE PoolInv' /\ InStep'
  OBVIOUS
<1>1. ASSUME NEW c \in Calls, Call(c), UNCHANGED <<reset, restoring, seedDef>>, History
      PROVE  PoolInv' /\ InStep'
  <2>1. CASE \E id \in Ids : Remove(c, id) \/ Restart(c, id)
    BY <1>1, <2>1, RemoveKeeps, RestartKeeps
  <2>2. CASE \E id \in Ids, def \in Defs : Create(c, id, def) \/ Update(c, id, def)
    BY <1>1, <2>2, CreateKeeps, UpdateKeeps
  <2>3. CASE \E object \in Objects : Created(c, object) \/ Updated(c, object)
    BY <1>1, <2>3, CreatedKeeps, UpdatedKeeps
  <2>4. CASE \/ UpdateFails(c) \/ Recovered(c) \/ RecoverFails(c)
             \/ RemoveStops(c) \/ Removed(c) \/ Restarted(c) \/ GivesUp(c)
    BY <1>1, <2>4, UpdateFailsKeeps, RecoveredKeeps, RecoverFailsKeeps, RemoveStopsKeeps,
       RemovedKeeps, RestartedKeeps, GivesUpKeeps
  <2> QED BY <1>1, <2>1, <2>2, <2>3, <2>4 DEF Call
<1>2. ASSUME NEW a \in running, IdleTimeout(a), UNCHANGED <<reset, restoring, seedDef>>, History
      PROVE  PoolInv' /\ InStep'
  BY <1>2, IdleTimeoutKeeps
<1>3. CASE UNCHANGED vars
  <2>1. Types' /\ CreatesAlone' /\ Phases' /\ TurnsTaken'
    BY <1>3 DEF vars, PoolInv, Types, CreatesAlone, Untouched, Phases, TurnsTaken
  <2>2. HoldsPooled' /\ RunsInPool' /\ ResetQuiet' /\ RestoresRows' /\ InStep'
    BY <1>3 DEF vars, PoolInv, HoldsPooled, RunsInPool, ResetQuiet, RestoresRows, InStep,
                NotAsStored
  <2> QED BY <2>1, <2>2 DEF PoolInv
<1> QED BY <1>1, <1>2, <1>3, ResetStopsKeeps, ResetClearsKeeps, ResetSeedsKeeps, ResetEndsKeeps,
           ResetFailsKeeps, ExitKeeps, BootKeeps, BootSeedsKeeps DEF Next, Step

LEMMA PoolAlways == Spec => [](PoolInv /\ InStep)
BY InitPool, NextPool, PTL DEF Spec

-----------------------------------------------------------------------------
(* The theorems. *)

(* Every value of the pool, its table and its calls is of its type.        *)
THEOREM TypeCorrect == Spec => []TypeOK
<1>1. PoolInv => TypeOK
  BY TypesSuffice DEF PoolInv
<1> QED BY <1>1, PoolAlways, PTL

(* When nothing is under way, the pool and the table hold the same agents  *)
(* with the same definitions, but for ids whose calls overlapped and those *)
(* that failed to start, to be saved or to be deleted.                     *)
THEOREM StoreCorrect == Spec => []StoreMatchesPool
<1>1. InStep => StoreMatchesPool
  BY DEF InStep, StoreMatchesPool
<1> QED BY <1>1, PoolAlways, PTL

(* An agent that runs can be reached and stopped. *)
THEOREM ReachCorrect == Spec => []NoOrphans
<1>1. PoolInv => NoOrphans
  BY DEF PoolInv, RunsInPool, NoOrphans
<1> QED BY <1>1, PoolAlways, PTL

(* No agent runs twice. *)
THEOREM OnceCorrect == Spec => []OneLivePerAgent
<1>1. PoolInv => OneLivePerAgent
  BY DEF PoolInv, RunsInPool, OneLivePerAgent
<1> QED BY <1>1, PoolAlways, PTL

(* A definition that the user has changed is replaced by another call of   *)
(* the user's, or by a reset, and by nothing else: no boot, no release, no *)
(* other agent's call touches its row.                                     *)
THEOREM EditsCorrect == Spec => UserEditsSurvive
<1> DEFINE Replaced(id) ==
             \/ reset' = "cleared"
             \/ \E c \in CallsOn(id) : call[c].pc \in {"updating", "removing"} /\ call'[c] = NoCall
<1>1. ASSUME PoolInv, [Next]_vars, NEW id \in Present(store), store[id].modified,
             store'[id] # store[id]
      PROVE  Replaced(id)
  <2>1. id \in Ids /\ store[id] # None
    BY DEF Present
  <2>2. ASSUME NEW c \in Calls, NEW object \in Objects, Created(c, object) PROVE FALSE
    <3>1. call[c].id # id
      BY <1>1, <2>1, <2>2 DEF Created, At, PoolInv, CreatesAlone, Untouched
    <3> QED BY <1>1, <2>1, <2>2, <3>1 DEF Created, PoolInv, Types
  <2>3. ASSUME NEW c \in Calls, \/ \E object \in Objects : Updated(c, object)
                                \/ Removed(c)
        PROVE  Replaced(id)
    <3>1. call[c].id = id
      BY <1>1, <2>1, <2>3 DEF Updated, Removed, UpdatedRow, Deleted, PoolInv, Types
    <3>2. call[c].pc \in {"updating", "removing"} /\ call'[c] = NoCall
      BY <1>1, <2>3 DEF Updated, Removed, At, Return, PoolInv, Types
    <3> QED BY <3>1, <3>2 DEF CallsOn
  <2>4. ASSUME RunSeeds PROVE FALSE
    BY <1>1, <2>1, <2>4, SeededRows DEF PoolInv, Upserts
  <2>5. ASSUME store' # store
        PROVE  \/ \E c \in Calls, object \in Objects : Created(c, object) \/ Updated(c, object)
               \/ \E c \in Calls : Removed(c)
               \/ ResetClears \/ RunSeeds
    BY <1>1, <2>5 DEF Next, Step, vars, Call, Remove, Restart, Create, Update, UpdateFails,
                      Recovered, RecoverFails, RemoveStops, Restarted, GivesUp, IdleTimeout,
                      ResetStops, ResetSeeds, ResetEnds, ResetFails,
                      Exit, Boot, BootSeeds
  <2> QED BY <1>1, <2>2, <2>3, <2>4, <2>5 DEF ResetClears
<1>2. PoolInv /\ [Next]_vars =>
        [\A id \in Present(store) :
           store[id].modified /\ store'[id] # store[id] => Replaced(id)]_vars
  BY <1>1
<1> QED BY <1>2, PoolAlways, PTL DEF Spec, UserEditsSurvive

=============================================================================
