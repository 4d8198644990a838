--------------------------- MODULE DashboardProofs ---------------------------
(***************************************************************************)
(* Safety of the pages, for any entries, queries and options and for any   *)
(* number of requests, edits, changes and searches: what is shown is what  *)
(* was searched for, a page at rest shows what the server holds, and a     *)
(* saved form writes nothing over what its user left alone.  Safety of the *)
(* gateway, for any configuration, addresses and consoles: what the rate   *)
(* limiter promises, and that a debug console misses nothing.              *)
(***************************************************************************)
EXTENDS Dashboard, FiniteSetTheorems, WellFoundedInduction, TLAPS

(* Why an answer that is not stale is that of the query shown: a fetch     *)
(* with the present number was made for the present query and options,     *)
(* since every change of those takes a new number.                         *)
FetchesAreNumbered ==
  /\ fetchId \in Nat /\ timer \in {0, fetchId}
  /\ \A f \in fetches :
       /\ f.id \in 0 .. fetchId
       /\ f.id = fetchId => f.query = query /\ f.option = option

SearchTyped == query \in Queries /\ option \in Options

SearchInv == FetchesAreNumbered /\ SearchTyped /\ SearchIsCurrent
StoredTyped == stored \subseteq Entries

(* The steps of the memory page that leave the search alone. *)
LEMMA SearchUntouched ==
  SearchInv /\ UNCHANGED search => SearchInv'
<1> SUFFICES ASSUME SearchInv, UNCHANGED search PROVE SearchInv'
  OBVIOUS
<1>1. FetchesAreNumbered' /\ SearchTyped'
  BY DEF SearchInv, FetchesAreNumbered, SearchTyped, search
<1>2. SearchIsCurrent'
  <2>1. UNCHANGED <<query, option, results, searching, searchError>>
    BY DEF search
  <2> QED BY <2>1 DEF SearchInv, SearchIsCurrent
<1> QED BY <1>1, <1>2 DEF SearchInv

(* A change of the query or of an option. *)
LEMMA SearchRestarts ==
  ASSUME SearchInv, NEW q, query' = q, SearchEffect(q), UNCHANGED fetches, SearchTyped'
  PROVE  SearchInv'
<1>1. fetchId' \in Nat /\ timer' \in {0, fetchId'}
  BY DEF SearchInv, FetchesAreNumbered, SearchEffect
<1>2. \A f \in fetches' : f.id \in 0 .. fetchId' /\ f.id # fetchId'
  BY DEF SearchInv, FetchesAreNumbered, SearchEffect
<1>3. SearchIsCurrent'
  BY DEF SearchIsCurrent, SearchEffect
<1> QED BY <1>1, <1>2, <1>3 DEF SearchInv, FetchesAreNumbered

LEMMA SearchStep == SearchInv /\ StoredTyped /\ MemoryNext => SearchInv'
<1> SUFFICES ASSUME SearchInv, StoredTyped, MemoryNext PROVE SearchInv'
  OBVIOUS
<1>1. ASSUME NEW q \in Queries, SetQuery(q) PROVE SearchInv'
  BY <1>1, SearchRestarts DEF SetQuery, SearchInv, SearchTyped
<1>2. ASSUME NEW o \in Options, SetOption(o) PROVE SearchInv'
  <2>1. query' = query /\ SearchEffect(query) /\ UNCHANGED fetches
    BY <1>2 DEF SetOption
  <2>2. SearchTyped'
    BY <1>2 DEF SetOption, SearchInv, SearchTyped
  <2> QED BY <2>1, <2>2, SearchRestarts
<1>3. CASE ExecuteSearch
  <2>1. FetchesAreNumbered'
    <3> DEFINE new == [id |-> timer, query |-> query, option |-> option]
    <3>1. fetches' = fetches \cup {new} /\ UNCHANGED <<fetchId, query, option>> /\ timer' = 0
      BY <1>3 DEF ExecuteSearch
    <3>2. new.id \in 0 .. fetchId /\ new.query = query /\ new.option = option
      BY DEF SearchInv, FetchesAreNumbered
    <3> QED BY <3>1, <3>2 DEF SearchInv, FetchesAreNumbered
  <2>2. SearchIsCurrent'
    BY <1>3 DEF SearchInv, SearchIsCurrent, ExecuteSearch
  <2>3. SearchTyped'
    BY <1>3 DEF SearchInv, SearchTyped, ExecuteSearch
  <2> QED BY <2>1, <2>2, <2>3 DEF SearchInv
<1>4. ASSUME NEW f \in fetches, SearchEnds(f) PROVE SearchInv'
  <2>1. FetchesAreNumbered' /\ SearchTyped'
    BY <1>4 DEF SearchInv, FetchesAreNumbered, SearchTyped, SearchEnds
  <2>2. CASE Stale(f)
    <3>1. UNCHANGED <<results, searching, searchError, query, option>>
      BY <1>4, <2>2 DEF SearchEnds
    <3> QED BY <2>1, <3>1 DEF SearchInv, SearchIsCurrent
  <2>3. CASE ~Stale(f)
    <3>1. f.query = query /\ f.option = option
      BY <2>3 DEF Stale, SearchInv, FetchesAreNumbered
    <3>2. CASE results' = [query |-> f.query, option |-> f.option, found |-> stored]
      <4>1. results'.query = query /\ results'.option = option
        BY <3>1, <3>2
      <4>2. results' # None
        BY <3>1, <3>2, NoneAssumption DEF SearchInv, SearchTyped, StoredTyped
      <4> QED BY <2>1, <4>1, <4>2, <1>4 DEF SearchInv, SearchIsCurrent, SearchEnds
    <3>3. CASE searchError'
      BY <2>1, <3>3 DEF SearchInv, SearchIsCurrent
    <3> QED BY <1>4, <2>3, <3>2, <3>3 DEF SearchEnds
  <2> QED BY <2>2, <2>3
<1>5. ASSUME UNCHANGED search PROVE SearchInv'
  BY <1>5, SearchUntouched
<1> QED
  BY <1>1, <1>2, <1>3, <1>4, <1>5
  DEF MemoryNext, Select, CloseDialog, Dismiss, Confirm, Ask, ServeMutation, Mutated, List

LEMMA StoredStep == StoredTyped /\ [MemoryNext]_memoryVars => StoredTyped'
BY DEF StoredTyped, memoryVars, listing, search, detail, MemoryNext, SetQuery, SetOption,
       ExecuteSearch, SearchEnds, Select, CloseDialog, Dismiss, Confirm, Ask,
       ServeMutation, Mutated, List

(* The results shown are those of the query and options shown. *)
THEOREM SearchCorrect == DashSpec => []SearchIsCurrent
<1> DEFINE Inv == SearchInv /\ StoredTyped
<1>1. DashInit => Inv
  BY MemoryAssumption DEF DashInit, MemoryInit, SearchInv, FetchesAreNumbered, SearchTyped,
     SearchIsCurrent, StoredTyped
<1>2. Inv /\ [DashNext]_dashVars => Inv'
  <2>1. UNCHANGED memoryVars => UNCHANGED search
    BY DEF memoryVars
  <2>2. [DashNext]_dashVars => [MemoryNext]_memoryVars
    BY DEF DashNext, dashVars
  <2> QED BY <2>1, <2>2, SearchStep, SearchUntouched, StoredStep
<1>3. Inv => SearchIsCurrent
  BY DEF SearchInv
<1> QED BY <1>1, <1>2, <1>3, PTL DEF DashSpec

-----------------------------------------------------------------------------
(* The pages of resources. *)

(* The records that Request makes. *)
Call(n, control, op, id, body, at, waits, mounted, cells, known) ==
  [n |-> n, control |-> control, op |-> op, id |-> id, body |-> body, at |-> at,
   waits |-> waits, mounted |-> mounted, touched |-> cells, sound |-> known]

IsCall(c) ==
  \E n, control, op, id, body, at, waits, mounted, cells, known :
    c = Call(n, control, op, id, body, at, waits, mounted, cells, known)

(* A call that moves on is still a call, and the same one. *)
SameCall(d, c) == IsCall(d) /\ d.op = c.op /\ d.id = c.id

LEMMA CallUpdates ==
  ASSUME NEW c, IsCall(c), NEW x
  PROVE  /\ SameCall([c EXCEPT !.at = x], c) /\ [c EXCEPT !.at = x].at = x
         /\ SameCall([c EXCEPT !.waits = x], c) /\ [c EXCEPT !.waits = x].at = c.at
         /\ SameCall([c EXCEPT !.mounted = x], c) /\ [c EXCEPT !.mounted = x].at = c.at
<1> PICK n, control, op, id, body, at, waits, mounted, cells, known :
      c = Call(n, control, op, id, body, at, waits, mounted, cells, known)
  BY DEF IsCall
<1>1. /\ [c EXCEPT !.at = x] = Call(n, control, op, id, body, x, waits, mounted, cells, known)
      /\ [c EXCEPT !.waits = x] = Call(n, control, op, id, body, at, x, mounted, cells, known)
      /\ [c EXCEPT !.mounted = x] = Call(n, control, op, id, body, at, waits, x, cells, known)
  BY DEF Call
<1>2. /\ IsCall([c EXCEPT !.at = x])
      /\ IsCall([c EXCEPT !.waits = x])
      /\ IsCall([c EXCEPT !.mounted = x])
  <2>1. \A y, z, w : /\ IsCall(Call(n, control, op, id, body, y, waits, mounted, cells, known))
                      /\ IsCall(Call(n, control, op, id, body, at, z, mounted, cells, known))
                      /\ IsCall(Call(n, control, op, id, body, at, waits, w, cells, known))
    BY Zenon DEF IsCall
  <2> QED BY <1>1, <2>1
<1>3. /\ [c EXCEPT !.at = x].at = x
      /\ [c EXCEPT !.at = x].op = c.op /\ [c EXCEPT !.at = x].id = c.id
      /\ [c EXCEPT !.waits = x].at = c.at
      /\ [c EXCEPT !.waits = x].op = c.op /\ [c EXCEPT !.waits = x].id = c.id
      /\ [c EXCEPT !.mounted = x].at = c.at
      /\ [c EXCEPT !.mounted = x].op = c.op /\ [c EXCEPT !.mounted = x].id = c.id
  BY <1>1 DEF Call
<1> QED BY <1>2, <1>3 DEF SameCall

(* What is saved first is overridden by what is saved next, as in the file *)
(* so in the configuration.                                                *)
LEMMA OverrideAssociates ==
  ASSUME NEW f, NEW g, NEW h
  PROVE  Override(Override(f, g), h) = Override(f, Override(g, h))
<1> DEFINE D == DOMAIN f \cup DOMAIN g \cup DOMAIN h
           V(x) == IF x \in DOMAIN h THEN h[x] ELSE IF x \in DOMAIN g THEN g[x] ELSE f[x]
<1>1. Override(Override(f, g), h) = [x \in D |-> V(x)]
  BY DEF Override
<1>2. Override(f, Override(g, h)) = [x \in D |-> V(x)]
  BY DEF Override
<1> QED BY <1>1, <1>2

(* What the listing makes of a row, and of all of them. *)
Show(where, row) ==
  [f \in DOMAIN row |-> IF where = "agents" /\ f = "option" /\ row[f] = 0
                       THEN DefaultBackend ELSE row[f]]
ShowAll(where, all) == [i \in DOMAIN all |-> Show(where, all[i])]

LEMMA ListedShows ==
  /\ \A row : Listed(row) = Show(tab, row)
  /\ Listing = ShowAll(tab, rows)
<1>1. \A row : Listed(row) = Show(tab, row)
  BY DEF Listed, Show, OfAgent
<1>2. Listing = ShowAll(tab, rows)
  BY <1>1 DEF Listing, ShowAll
<1> QED BY <1>1, <1>2

(* A page that is out of date, and does not know of a change made behind   *)
(* its back, has still to be answered, or to be rendered from what will be *)
(* or has been read since.                                                 *)
HealInv ==
  /\ refreshes \in Nat
  /\ render = <<>> \/ (render = <<render[1]>> /\ refreshes > 0)
  /\ \A c \in calls : IsCall(c)
  /\ \/ disturbed
     \/ \E c \in calls : c.at = "ok"
     \/ render = <<>> /\ (refreshes > 0 \/ props = ShowAll(tab, rows))
     \/ render # <<>> /\ (refreshes > 1 \/ render[1] = ShowAll(tab, rows))

(* The settings page holds one row, which is what the file makes of it.    *)
SettingsInv ==
  tab = "settings" =>
    /\ DOMAIN rows = {1} /\ editing \in {0, 1}
    /\ \A c \in calls : c.op = "resetSystem" \/ (c.op = "updateConfig" /\ c.id = 1)
    /\ unsaved \/ rows[1] = AtBoot

QuietInv == HealInv /\ SettingsInv

(* The requests of the tab. *)
Requests ==
  \/ SaveAgent \/ CreateAgent \/ SaveCron \/ CreateCron \/ SaveConfig \/ ResetSystem
  \/ \E id \in DOMAIN props :
       \/ RestartAgent(id) \/ DeleteAgent(id)
       \/ ToggleCron(id) \/ TriggerCron(id) \/ DeleteCron(id)
       \/ SummarizeSession(id) \/ DeleteSession(id)

LEMMA RequestIsCall ==
  ASSUME Requests
  PROVE  \E control, op, id, body :
           /\ Request(control, op, id, body)
           /\ tab = "settings" =>
                op = "resetSystem" \/ (op = "updateConfig" /\ editing # 0 /\ id = editing)
<1>1. CASE SaveConfig
  BY <1>1 DEF SaveConfig, Submit
<1>2. CASE ResetSystem
  BY <1>2 DEF ResetSystem
<1>3. CASE SaveAgent \/ CreateAgent \/ SaveCron \/ CreateCron
  <2>1. tab # "settings"
    BY <1>3 DEF SaveAgent, CreateAgent, SaveCron, CreateCron, AgentMenu, CronMenu
  <2> QED BY <1>3, <2>1 DEF SaveAgent, CreateAgent, SaveCron, CreateCron, Submit
<1>4. ASSUME NEW id \in DOMAIN props,
             \/ RestartAgent(id) \/ DeleteAgent(id)
             \/ ToggleCron(id) \/ TriggerCron(id) \/ DeleteCron(id)
             \/ SummarizeSession(id) \/ DeleteSession(id)
      PROVE  \E control, op, i, body : Request(control, op, i, body) /\ tab # "settings"
  <2>1. tab # "settings"
    BY <1>4 DEF RestartAgent, DeleteAgent, ToggleCron, TriggerCron, DeleteCron,
                SummarizeSession, DeleteSession, AgentMenu, CronMenu, SessionMenu
  <2> QED BY <1>4, <2>1 DEF RestartAgent, DeleteAgent, ToggleCron, TriggerCron, DeleteCron,
                SummarizeSession, DeleteSession
<1> QED BY <1>1, <1>2, <1>3, <1>4 DEF Requests

LEMMA RequestStep == QuietInv /\ Requests => QuietInv'
<1> SUFFICES ASSUME QuietInv, Requests PROVE QuietInv'
  OBVIOUS
<1> PICK control, op, id, body :
      /\ Request(control, op, id, body)
      /\ tab = "settings" =>
           op = "resetSystem" \/ (op = "updateConfig" /\ editing # 0 /\ id = editing)
  BY RequestIsCall
<1> DEFINE new == Call(made, control, op, id, body, "server", TRUE, TRUE, touched, sound)
<1>1. calls' = calls \cup {new}
  BY DEF Request, Call
<1>2. UNCHANGED <<tab, rows, file, unsaved, props, editing, refreshes, render, disturbed>>
  BY DEF Request, server, client, router
<1>3. IsCall(new)
  BY Zenon DEF IsCall
<1>4. new.op = op /\ new.id = id
  BY DEF Call
<1>5. HealInv'
  BY <1>1, <1>2, <1>3 DEF QuietInv, HealInv
<1>6. SettingsInv'
  BY <1>1, <1>2, <1>4 DEF QuietInv, SettingsInv, AtBoot
<1> QED BY <1>5, <1>6 DEF QuietInv

(* Forms are of no concern. *)
LEMMA FormStep ==
  ASSUME QuietInv,
         UNCHANGED <<tab, rows, file, unsaved, props, calls, refreshes, render, disturbed>>,
         tab = "settings" => editing' \in {editing, 0, 1}
  PROVE  QuietInv'
<1>1. HealInv'
  BY DEF QuietInv, HealInv
<1>2. SettingsInv'
  BY DEF QuietInv, SettingsInv, AtBoot
<1> QED BY <1>1, <1>2 DEF QuietInv

(* A route that has changed something is either known to have, or the page *)
(* is disturbed.                                                           *)
LEMMA ServeHeals ==
  ASSUME HealInv, NEW c \in calls, NEW ok \in BOOLEAN, Serve(c, ok)
  PROVE  HealInv'
<1> DEFINE answered == [c EXCEPT !.at = IF ok THEN "ok" ELSE "failed"]
<1>1. UNCHANGED <<tab, refreshes, render, props>>
  BY DEF Serve, client, router
<1>2. IsCall(answered) /\ answered.at = (IF ok THEN "ok" ELSE "failed")
  <2>1. IsCall(c)
    BY DEF HealInv
  <2>2. \A x : SameCall([c EXCEPT !.at = x], c) /\ [c EXCEPT !.at = x].at = x
    BY <2>1, CallUpdates, Zenon
  <2> QED BY <2>2 DEF SameCall
<1>3. c.at # "ok" /\ calls' = (calls \ {c}) \cup (IF c.waits THEN {answered} ELSE {})
  BY DEF Serve
<1>4. \A d \in calls' : IsCall(d)
  BY <1>2, <1>3 DEF HealInv
<1>5. CASE rows' = rows
  <2>1. disturbed => disturbed'
    BY DEF Serve
  <2>2. (\E d \in calls : d.at = "ok") => \E d \in calls' : d.at = "ok"
    BY <1>3
  <2> QED BY <1>1, <1>4, <1>5, <2>1, <2>2 DEF HealInv
<1>6. CASE rows' # rows
  <2>1. CASE ok /\ c.waits
    <3>1. answered \in calls' /\ answered.at = "ok"
      BY <1>2, <1>3, <2>1
    <3> QED BY <1>1, <1>4, <3>1 DEF HealInv
  <2>2. CASE ~(ok /\ c.waits)
    <3>1. disturbed'
      BY <1>6, <2>2 DEF Serve
    <3> QED BY <1>1, <1>4, <3>1 DEF HealInv
  <2> QED BY <2>1, <2>2
<1> QED BY <1>5, <1>6

(* The configuration and its file are changed alike. *)
LEMMA PersistAgrees ==
  ASSUME tab = "settings", rows[1] = AtBoot \/ unsaved, 1 \in DOMAIN rows,
         NEW body, NEW ok, Persist(body, ok),
         rows' = rows \/ rows' = [rows EXCEPT ![1] = Override(@, body)]
  PROVE  unsaved' \/ rows'[1] = AtBoot'
<1>1. CASE rows' = rows
  BY <1>1 DEF Persist, AtBoot
<1>2. CASE rows' # rows /\ file' = Persisted(body) /\ UNCHANGED unsaved
  <2>1. rows'[1] = Override(rows[1], body)
    BY <1>2
  <2>2. Override(AtBoot, body) = AtBoot'
    BY <1>2, OverrideAssociates DEF AtBoot, Persisted
  <2> QED BY <1>2, <2>1, <2>2
<1>3. CASE rows' # rows /\ unsaved' = TRUE
  BY <1>3
<1> QED BY <1>1, <1>2, <1>3 DEF Persist

LEMMA ServeSettings ==
  ASSUME QuietInv, NEW c \in calls, NEW ok \in BOOLEAN, Serve(c, ok)
  PROVE  SettingsInv'
<1> SUFFICES ASSUME tab' = "settings" PROVE SettingsInv'
  BY DEF SettingsInv
<1> DEFINE answered == [c EXCEPT !.at = IF ok THEN "ok" ELSE "failed"]
<1>1. tab = "settings" /\ UNCHANGED editing
  BY DEF Serve, client
<1>2. /\ DOMAIN rows = {1} /\ editing \in {0, 1}
      /\ \A d \in calls : d.op = "resetSystem" \/ (d.op = "updateConfig" /\ d.id = 1)
      /\ unsaved \/ rows[1] = AtBoot
  BY <1>1 DEF QuietInv, SettingsInv
<1>3. rows' = rows \/ rows' = [rows EXCEPT ![1] = Override(@, c.body)]
  <2>1. rows' \in {rows, Applied(c)}
    BY <1>1 DEF Serve, ConfigRoutes
  <2>2. CASE c.op = "resetSystem"
    <3>1. ~Creates(c) /\ ~Updates(c) /\ ~Deletes(c)
      BY <2>2 DEF Creates, Updates, Deletes
    <3>2. Applied(c) = rows
      BY <3>1 DEF Applied
    <3> QED BY <2>1, <3>2
  <2>3. CASE c.op = "updateConfig" /\ c.id = 1
    <3>1. ~Creates(c) /\ Updates(c) /\ ~Missing(c) /\ ~Deletes(c)
      BY <1>2, <2>3 DEF Creates, Updates, Missing, Deletes
    <3>2. Applied(c) = [rows EXCEPT ![c.id] = Override(@, c.body)]
      BY <3>1 DEF Applied
    <3> QED BY <2>1, <2>3, <3>2
  <2> QED BY <1>2, <2>2, <2>3
<1>4. DOMAIN rows' = {1}
  BY <1>2, <1>3
<1>5. \A d \in calls' : d.op = "resetSystem" \/ (d.op = "updateConfig" /\ d.id = 1)
  <2>1. answered.op = c.op /\ answered.id = c.id
    BY CallUpdates DEF QuietInv, HealInv, SameCall
  <2>2. calls' \subseteq (calls \ {c}) \cup {answered}
    BY DEF Serve
  <2> QED BY <1>2, <2>1, <2>2
<1>6. unsaved' \/ rows'[1] = AtBoot'
  <2>1. Persist(c.body, ok)
    BY DEF Serve
  <2> QED BY <1>1, <1>2, <1>3, <2>1, PersistAgrees
<1> QED BY <1>1, <1>2, <1>4, <1>5, <1>6 DEF SettingsInv

(* Changes made elsewhere disturb the page. *)
LEMMA ElsewhereStep == QuietInv /\ Elsewhere => QuietInv'
<1> SUFFICES ASSUME QuietInv, Elsewhere PROVE QuietInv'
  OBVIOUS
<1>1. HealInv'
  BY DEF QuietInv, HealInv, Elsewhere, client, router
<1>2. ASSUME tab' = "settings" PROVE SettingsInv'
  <2>1. tab = "settings" /\ UNCHANGED <<editing, calls>>
    BY <1>2 DEF Elsewhere, client
  <2>2. PICK body : /\ rows' = [rows EXCEPT ![1] = Override(@, body)]
                    /\ Persist(body, TRUE)
    BY <2>1, Zenon DEF Elsewhere, QuietInv, SettingsInv
  <2>3. DOMAIN rows = {1} /\ (unsaved \/ rows[1] = AtBoot)
    BY <2>1 DEF QuietInv, SettingsInv
  <2>4. unsaved' \/ rows'[1] = AtBoot'
    BY <2>1, <2>2, <2>3, PersistAgrees
  <2>5. DOMAIN rows' = {1}
    BY <2>2, <2>3
  <2> QED BY <2>1, <2>4, <2>5 DEF QuietInv, SettingsInv
<1> QED BY <1>1, <1>2 DEF QuietInv, SettingsInv

LEMMA RestartStep == QuietInv /\ ServerRestarts => QuietInv'
<1> SUFFICES ASSUME QuietInv, ServerRestarts PROVE QuietInv'
  OBVIOUS
<1> DEFINE Ended(c) == [c EXCEPT !.at = IF c.at = "server" THEN "failed" ELSE c.at]
<1>1. calls' = {Ended(c) : c \in {c \in calls : c.at # "server" \/ c.waits}}
  BY DEF ServerRestarts
<1>2. \A c \in calls : SameCall(Ended(c), c) /\ (c.at = "ok" => Ended(c).at = "ok")
  <2> TAKE c \in calls
  <2>1. IsCall(c)
    BY DEF QuietInv, HealInv
  <2>2. \A x : SameCall([c EXCEPT !.at = x], c) /\ [c EXCEPT !.at = x].at = x
    BY <2>1, CallUpdates, Zenon
  <2> QED BY <2>2
<1>3. UNCHANGED <<tab, editing, props, refreshes, render, file>>
  BY DEF ServerRestarts, client, router
<1>4. HealInv'
  <2>1. \A d \in calls' : IsCall(d)
    BY <1>1, <1>2 DEF SameCall
  <2>2. (\E c \in calls : c.at = "ok") => \E d \in calls' : d.at = "ok"
    <3> SUFFICES ASSUME NEW c \in calls, c.at = "ok" PROVE \E d \in calls' : d.at = "ok"
      OBVIOUS
    <3>1. Ended(c) \in calls' /\ Ended(c).at = "ok"
      BY <1>1, <1>2
    <3> QED BY <3>1
  <2>3. disturbed' \/ (rows' = rows /\ (disturbed => disturbed'))
    BY DEF ServerRestarts
  <2> QED BY <1>3, <2>1, <2>2, <2>3 DEF QuietInv, HealInv
<1>5. SettingsInv'
  <2>1. tab = "settings" => rows' = [i \in {1} |-> AtBoot] /\ AtBoot' = AtBoot
    BY <1>3 DEF ServerRestarts, AtBoot
  <2>2. \A d \in calls' : \E c \in calls : d.op = c.op /\ d.id = c.id
    <3> TAKE d \in calls'
    <3>1. PICK c \in calls : d = Ended(c)
      BY <1>1
    <3> HIDE DEF Ended
    <3> QED BY <1>2, <3>1 DEF SameCall
  <2> QED BY <1>3, <2>1, <2>2 DEF QuietInv, SettingsInv
<1> QED BY <1>4, <1>5 DEF QuietInv

(* Answers, refreshes, and what is read and rendered. *)
LEMMA AnswerStep ==
  ASSUME QuietInv, NEW c \in calls, Succeed(c) \/ Fail(c) \/ Timeout(c)
  PROVE  QuietInv'
<1>1. UNCHANGED <<tab, rows, file, unsaved, props, render, disturbed>>
  BY DEF Succeed, Fail, Timeout, server, client, bounds, router
<1>2. /\ \A d \in calls' : IsCall(d) /\ \E e \in calls : d.op = e.op /\ d.id = e.id
      /\ \A d \in calls : d.at = "ok" => d \in calls' \/ refreshes' > 0
  <2>1. CASE Succeed(c)
    BY <2>1 DEF Succeed, Refresh, QuietInv, HealInv
  <2>2. CASE Fail(c)
    BY <2>2 DEF Fail, QuietInv, HealInv
  <2>3. CASE Timeout(c)
    <3> DEFINE late == [c EXCEPT !.waits = FALSE]
    <3>1. IsCall(c)
      BY DEF QuietInv, HealInv
    <3>2. SameCall(late, c)
      BY <3>1, CallUpdates, Zenon
    <3>3. c.at # "ok" /\ calls' = (calls \ {c}) \cup {late}
      BY <2>3 DEF Timeout
    <3> QED BY <3>2, <3>3 DEF SameCall, QuietInv, HealInv
  <2> QED BY <2>1, <2>2, <2>3
<1>3. HealInv'
  <2>1. UNCHANGED refreshes \/ refreshes' = refreshes + 1
    BY DEF Succeed, Fail, Timeout, Refresh, router
  <2>2. (\A d \in calls : d.at = "ok" => d \in calls') \/ refreshes' = refreshes + 1
    BY DEF Succeed, Fail, Timeout, Refresh, router
  <2> QED BY <1>1, <1>2, <2>1, <2>2 DEF QuietInv, HealInv
<1>4. tab = "settings" => UNCHANGED editing
  BY DEF Succeed, ConfigSaved, Fail, Timeout, client
<1>5. SettingsInv'
  BY <1>1, <1>2, <1>4 DEF QuietInv, SettingsInv, AtBoot
<1> QED BY <1>3, <1>5 DEF QuietInv

LEMMA ReadStep == QuietInv /\ ReadRows => QuietInv'
<1> SUFFICES ASSUME QuietInv, ReadRows PROVE QuietInv'
  OBVIOUS
<1>1. HealInv'
  BY ListedShows DEF ReadRows, server, client, QuietInv, HealInv
<1>2. SettingsInv'
  BY DEF ReadRows, server, client, QuietInv, SettingsInv, AtBoot
<1> QED BY <1>1, <1>2 DEF QuietInv

LEMMA RerenderStep == QuietInv /\ Rerender => QuietInv'
<1> SUFFICES ASSUME QuietInv, Rerender PROVE QuietInv'
  OBVIOUS
<1> DEFINE gone == DOMAIN props \ DOMAIN render[1]
           Kept(c) == IF c.id \in gone THEN [c EXCEPT !.mounted = FALSE] ELSE c
<1>1. calls' = {Kept(c) : c \in calls}
  BY DEF Rerender
<1>2. \A c \in calls : SameCall(Kept(c), c) /\ Kept(c).at = c.at
  <2> TAKE c \in calls
  <2>1. IsCall(c)
    BY DEF QuietInv, HealInv
  <2>2. SameCall([c EXCEPT !.mounted = FALSE], c) /\ [c EXCEPT !.mounted = FALSE].at = c.at
    BY <2>1, CallUpdates, Zenon
  <2> QED BY <2>1, <2>2 DEF SameCall
<1>3. UNCHANGED <<tab, rows, file, unsaved, disturbed>>
  BY DEF Rerender, server
<1>4. render # <<>> /\ render' = <<>> /\ refreshes' = refreshes - 1 /\ props' = render[1]
  BY DEF Rerender
<1>5. editing' \in {editing, 0, 1}
  BY DEF Rerender, Unmounted
<1> HIDE DEF Kept
<1>6. /\ \A d \in calls' : IsCall(d) /\ \E c \in calls : d.op = c.op /\ d.id = c.id
      /\ \A c \in calls : \E d \in calls' : d.at = c.at
  BY <1>1, <1>2 DEF SameCall
<1>7. HealInv'
  BY <1>3, <1>4, <1>6 DEF QuietInv, HealInv
<1>8. SettingsInv'
  BY <1>3, <1>5, <1>6 DEF QuietInv, SettingsInv, AtBoot
<1> QED BY <1>7, <1>8 DEF QuietInv

LEMMA PageStep == QuietInv /\ [PageNext]_pageVars => QuietInv'
<1> SUFFICES ASSUME QuietInv, [PageNext]_pageVars PROVE QuietInv'
  OBVIOUS
<1>1. ASSUME NEW f \in Cells, Type(f) PROVE QuietInv'
  BY <1>1, FormStep DEF Type, server, router
<1>2. CASE CloseForm
  BY <1>2, FormStep DEF CloseForm, Unmounted, server, router
<1>3. ASSUME NEW id \in DOMAIN props, OpenAgentForm(id) \/ OpenCronForm(id) PROVE QuietInv'
  BY <1>3, FormStep DEF OpenAgentForm, OpenCronForm, AgentMenu, CronMenu, OpenForm, server,
     router
<1>4. CASE Requests
  BY <1>4, RequestStep
<1>5. ASSUME NEW c \in calls, NEW ok \in BOOLEAN, Serve(c, ok) PROVE QuietInv'
  BY <1>5, ServeHeals, ServeSettings DEF QuietInv
<1>6. ASSUME NEW c \in calls, Succeed(c) \/ Fail(c) \/ Timeout(c) PROVE QuietInv'
  BY <1>6, AnswerStep
<1>7. CASE Elsewhere \/ ServerRestarts \/ ReadRows \/ Rerender
  BY <1>7, ElsewhereStep, RestartStep, ReadStep, RerenderStep
<1>8. CASE UNCHANGED pageVars
  BY <1>8, FormStep DEF pageVars, server, client, router
<1>9. CASE PageNext
  BY <1>1, <1>2, <1>3, <1>4, <1>5, <1>6, <1>7, <1>9 DEF PageNext, Requests
<1> QED BY <1>8, <1>9

LEMMA QuietInitially == DashInit => QuietInv
<1> SUFFICES ASSUME DashInit PROVE QuietInv
  OBVIOUS
<1>1. AtBoot = FirstRow
  BY DEF DashInit, PageInit, AtBoot, Override, Nothing, FirstRow
<1>2. HealInv
  BY ListedShows DEF DashInit, PageInit, HealInv
<1>3. SettingsInv
  BY <1>1 DEF DashInit, PageInit, SettingsInv
<1> QED BY <1>2, <1>3 DEF QuietInv

(* A page at rest that nothing has disturbed shows what the server holds,  *)
(* and the configuration is what a restart would bring back.               *)
THEOREM QuietCorrect == DashSpec => []QuietPageIsCurrent
<1>1. DashInit => QuietInv
  BY QuietInitially
<1>2. QuietInv /\ [DashNext]_dashVars => QuietInv'
  <2>1. [DashNext]_dashVars => [PageNext]_pageVars
    BY DEF DashNext, dashVars
  <2> QED BY <2>1, PageStep
<1>3. QuietInv => QuietPageIsCurrent
  BY ListedShows DEF QuietInv, HealInv, SettingsInv, QuietPageIsCurrent
<1> QED BY <1>1, <1>2, <1>3, PTL DEF DashSpec

-----------------------------------------------------------------------------
(* What a save writes.  A body is right because its form was, a form       *)
(* because the values its card holds were when it was opened, and those    *)
(* because they were the row's when the card was mounted: each is so only  *)
(* for rows that nothing else has changed since, the quiet ones.           *)

Quiet(id) == id \in DOMAIN rows /\ id \notin strayed

IsForm(c) == c.control = "form"

(* A row is shown as it is, but for a backend that is not set: that of an  *)
(* agent is always shown as set.                                           *)
LEMMA ShowsCell ==
  ASSUME NEW where, NEW row, NEW f \in DOMAIN row
  PROVE  /\ DOMAIN Show(where, row) = DOMAIN row
         /\ row[f] # 0 \/ where # "agents" \/ f # "option" => Show(where, row)[f] = row[f]
         /\ where = "agents" /\ f = "option" => Show(where, row)[f] # 0
BY DEF Show, DefaultBackend

(* Rows have their cells, and their numbers were given out. *)
RowsShaped ==
  /\ born \in Nat /\ rows = [id \in DOMAIN rows |-> rows[id]]
  /\ DOMAIN rows \cup DOMAIN props \subseteq 1 .. born
  /\ \A id \in DOMAIN rows : Cells \subseteq DOMAIN rows[id]
  /\ DOMAIN held = DOMAIN props
  /\ \A id \in DOMAIN held : Cells \subseteq DOMAIN held[id]
  /\ render # <<>> =>
       /\ DOMAIN render[1] \subseteq 1 .. born
       /\ tab = "settings" => DOMAIN render[1] \subseteq {1}
       /\ \A id \in DOMAIN render[1] : Cells \subseteq DOMAIN render[1][id]

FormShaped ==
  /\ editing \in {0} \cup DOMAIN props
  /\ touched \subseteq Cells
  /\ editing # 0 =>
       /\ tab \in {"agents", "automation", "settings"}
       /\ DOMAIN form = IF tab = "agents" THEN Cells ELSE {"name", "option"}
       /\ tab # "settings" => held[editing]["option"] = form["option"]

(* The calls of forms: each has its row's form to itself, and is of a card *)
(* that is shown and waits for the answer, unless the row strays.          *)
FormCalls ==
  /\ \A c \in calls : /\ tab \in {"agents", "automation", "sessions", "settings"}
                      /\ Creates(c) => Cells \subseteq DOMAIN c.body
  /\ \A c \in calls : IsForm(c) =>
       /\ Updates(c) /\ c.touched \subseteq Cells
       /\ DOMAIN c.body \subseteq Cells
       /\ tab = "settings" => DOMAIN c.body = {"name", "option"}
       /\ tab = "agents" /\ "option" \in DOMAIN c.body => c.body["option"] # 0
       /\ c.id \notin strayed =>
            /\ c.mounted /\ c.waits /\ c.id \in DOMAIN props
            /\ <<"form", c.id>> \in busy
            /\ \A d \in calls : IsForm(d) /\ d.id = c.id => d = c

(* What a read has yet to show of a row that has no card. *)
ReadRight ==
  render # <<>> =>
    \A id \in DOMAIN render[1] \ DOMAIN props : Quiet(id) => render[1][id] = Show(tab, rows[id])

(* The option a card keeps is shown of the row, unless it is being edited. *)
HeldRight ==
  tab # "settings" =>
    \A id \in DOMAIN props :
      Quiet(id) /\ ~(editing = id /\ "option" \in touched) =>
        held[id]["option"] = Show(tab, rows[id])["option"]

(* Cells left alone in a form opened on current values are current. *)
FormRight ==
  editing # 0 /\ sound /\ Quiet(editing)
    /\ (tab = "settings" \/ \A c \in calls : IsForm(c) /\ c.id = editing => c.at # "ok")
  => \A f \in DOMAIN form \ (touched \cup {"tools"}) : form[f] = Show(tab, rows[editing])[f]

(* And so are those in the body of the request it sends, which has them    *)
(* all.                                                                    *)
BodiesRight ==
  \A c \in calls : IsForm(c) /\ Quiet(c.id) =>
    /\ c.at = "server" /\ c.sound =>
         \A f \in {"name", "option"} \ c.touched :
           f \in DOMAIN c.body /\ c.body[f] = Show(tab, rows[c.id])[f]
    /\ c.at = "server" /\ tab # "settings" /\ "option" \notin c.touched =>
         "option" \in DOMAIN c.body /\ c.body["option"] = Show(tab, rows[c.id])["option"]
    /\ c.at = "ok" => \A f \in DOMAIN c.body : c.body[f] = rows[c.id][f]

(* Meanwhile the form stays as it was sent, or is known to differ. *)
EditsKnown ==
  \A c \in calls : IsForm(c) /\ c.id \notin strayed =>
    /\ tab # "settings" /\ c.at # "failed" /\ "option" \in c.touched =>
         editing = c.id /\ "option" \in touched
    /\ tab = "settings" =>
         (c.sound <=> sound) /\ (c.at = "server" => c.touched \subseteq touched)

UnsavedStrays == tab = "settings" /\ unsaved => 1 \in strayed

SavesInv ==
  /\ RowsShaped /\ FormShaped /\ FormCalls /\ ReadRight /\ HeldRight
  /\ FormRight /\ BodiesRight /\ EditsKnown /\ UnsavedStrays

(* A call that moves on is still the same request. *)
SameRequest(d, c) ==
  /\ IsCall(d)
  /\ d.control = c.control /\ d.op = c.op /\ d.id = c.id
  /\ d.body = c.body /\ d.touched = c.touched /\ d.sound = c.sound

LEMMA RequestUpdates ==
  ASSUME NEW c, IsCall(c), NEW x
  PROVE  /\ SameRequest(c, c)
         /\ SameRequest([c EXCEPT !.at = x], c) /\ [c EXCEPT !.at = x].at = x
         /\ [c EXCEPT !.at = x].waits = c.waits /\ [c EXCEPT !.at = x].mounted = c.mounted
         /\ SameRequest([c EXCEPT !.waits = x], c) /\ [c EXCEPT !.waits = x].at = c.at
         /\ [c EXCEPT !.waits = x].waits = x /\ [c EXCEPT !.waits = x].mounted = c.mounted
         /\ SameRequest([c EXCEPT !.mounted = x], c) /\ [c EXCEPT !.mounted = x].at = c.at
         /\ [c EXCEPT !.mounted = x].waits = c.waits /\ [c EXCEPT !.mounted = x].mounted = x
<1> PICK n, control, op, id, body, at, waits, mounted, cells, known :
      c = Call(n, control, op, id, body, at, waits, mounted, cells, known)
  BY DEF IsCall
<1>1. /\ [c EXCEPT !.at = x] = Call(n, control, op, id, body, x, waits, mounted, cells, known)
      /\ [c EXCEPT !.waits = x] = Call(n, control, op, id, body, at, x, mounted, cells, known)
      /\ [c EXCEPT !.mounted = x] = Call(n, control, op, id, body, at, waits, x, cells, known)
  BY DEF Call
<1>2. IsCall([c EXCEPT !.at = x]) /\ IsCall([c EXCEPT !.waits = x])
      /\ IsCall([c EXCEPT !.mounted = x])
  BY CallUpdates DEF SameCall
<1>3. \A d : (\E a, w, m : d = Call(n, control, op, id, body, a, w, m, cells, known)) =>
         /\ d.control = c.control /\ d.op = c.op /\ d.id = c.id
         /\ d.body = c.body /\ d.touched = c.touched /\ d.sound = c.sound
  BY DEF Call
<1>4. /\ SameRequest(c, c)
      /\ SameRequest([c EXCEPT !.at = x], c)
      /\ SameRequest([c EXCEPT !.waits = x], c)
      /\ SameRequest([c EXCEPT !.mounted = x], c)
  BY <1>1, <1>2, <1>3 DEF SameRequest
<1>5. /\ [c EXCEPT !.at = x].at = x
      /\ [c EXCEPT !.at = x].waits = c.waits /\ [c EXCEPT !.at = x].mounted = c.mounted
      /\ [c EXCEPT !.waits = x].at = c.at
      /\ [c EXCEPT !.waits = x].waits = x /\ [c EXCEPT !.waits = x].mounted = c.mounted
      /\ [c EXCEPT !.mounted = x].at = c.at
      /\ [c EXCEPT !.mounted = x].waits = c.waits /\ [c EXCEPT !.mounted = x].mounted = x
  BY <1>1 DEF Call
<1> QED BY <1>4, <1>5

(* The calls of a step are those before it, each moved on by m.             *)
CallsMoved(m) ==
  /\ calls' \subseteq {m[c] : c \in calls}
  /\ \A c \in calls : SameRequest(m[c], c)

(* A call that moves on stays the only one of its form.                     *)
LEMMA FormCallsMoved ==
  ASSUME FormCalls, UNCHANGED tab, NEW m, CallsMoved(m), strayed \subseteq strayed',
         \A c \in calls : m[c] \in calls' /\ IsForm(c) /\ c.id \notin strayed' =>
           /\ m[c].mounted /\ m[c].waits
           /\ c.id \in DOMAIN props' /\ <<"form", c.id>> \in busy'
  PROVE  FormCalls'
<1>1. ASSUME NEW d \in calls'
      PROVE  \E c \in calls : d = m[c] /\ SameRequest(d, c)
  BY DEF CallsMoved
<1>2. ASSUME NEW d \in calls'
      PROVE  /\ tab \in {"agents", "automation", "sessions", "settings"}
             /\ Creates(d) => Cells \subseteq DOMAIN d.body
  <2>1. PICK c \in calls : d = m[c] /\ SameRequest(d, c)
    BY <1>1
  <2> QED BY <2>1 DEF FormCalls, SameRequest, Creates
<1>3. ASSUME NEW d \in calls', IsForm(d)
      PROVE  /\ Updates(d) /\ d.touched \subseteq Cells
             /\ DOMAIN d.body \subseteq Cells
             /\ tab = "settings" => DOMAIN d.body = {"name", "option"}
             /\ tab = "agents" /\ "option" \in DOMAIN d.body => d.body["option"] # 0
             /\ d.id \notin strayed' =>
                  /\ d.mounted /\ d.waits /\ d.id \in DOMAIN props'
                  /\ <<"form", d.id>> \in busy'
                  /\ \A e \in calls' : IsForm(e) /\ e.id = d.id => e = d
  <2>1. PICK c \in calls : d = m[c] /\ SameRequest(d, c)
    BY <1>1
  <2>2. IsForm(c)
    BY <1>3, <2>1 DEF SameRequest, IsForm
  <2>3. /\ Updates(d) /\ d.touched \subseteq Cells
        /\ DOMAIN d.body \subseteq Cells
        /\ tab = "settings" => DOMAIN d.body = {"name", "option"}
        /\ tab = "agents" /\ "option" \in DOMAIN d.body => d.body["option"] # 0
    BY <2>1, <2>2 DEF FormCalls, SameRequest, Updates
  <2>4. ASSUME d.id \notin strayed'
        PROVE  /\ d.mounted /\ d.waits /\ d.id \in DOMAIN props'
               /\ <<"form", d.id>> \in busy'
    BY <2>1, <2>2, <2>4 DEF SameRequest
  <2>5. ASSUME d.id \notin strayed', NEW e \in calls', IsForm(e), e.id = d.id
        PROVE  e = d
    <3>1. PICK b \in calls : e = m[b] /\ SameRequest(e, b)
      BY <1>1
    <3>2. IsForm(b) /\ b.id = c.id /\ c.id \notin strayed
      BY <2>1, <2>5, <3>1 DEF SameRequest, IsForm
    <3>3. b = c
      BY <2>2, <3>2 DEF FormCalls
    <3> QED BY <2>1, <3>1, <3>3
  <2> QED BY <2>3, <2>4, <2>5
<1> QED BY <1>2, <1>3 DEF FormCalls

(* Calls that do not succeed meanwhile, for rows that stay as they are.     *)
LEMMA BodiesMoved ==
  ASSUME BodiesRight, UNCHANGED tab, NEW m, CallsMoved(m),
         \A c \in calls : IsForm(c) => m[c].at \in {c.at, "failed"},
         \A c \in calls : IsForm(c) /\ Quiet(c.id)' =>
           Quiet(c.id) /\ rows'[c.id] = rows[c.id]
  PROVE  BodiesRight'
<1> SUFFICES ASSUME NEW d \in calls', IsForm(d), Quiet(d.id)'
             PROVE  /\ d.at = "server" /\ d.sound =>
                         \A f \in {"name", "option"} \ d.touched :
                           f \in DOMAIN d.body /\ d.body[f] = Show(tab, rows'[d.id])[f]
                    /\ d.at = "server" /\ tab # "settings" /\ "option" \notin d.touched =>
                         /\ "option" \in DOMAIN d.body
                         /\ d.body["option"] = Show(tab, rows'[d.id])["option"]
                    /\ d.at = "ok" => \A f \in DOMAIN d.body : d.body[f] = rows'[d.id][f]
  BY DEF BodiesRight
<1>1. PICK c \in calls : d = m[c] /\ SameRequest(d, c)
  BY DEF CallsMoved
<1>2. IsForm(c) /\ d.at \in {c.at, "failed"} /\ d.id = c.id /\ d.body = c.body
      /\ d.touched = c.touched /\ d.sound = c.sound
  BY <1>1 DEF SameRequest, IsForm
<1>3. Quiet(c.id) /\ rows'[c.id] = rows[c.id]
  BY <1>2
<1> QED BY <1>2, <1>3 DEF BodiesRight

(* What happens behind the page's back: the rows that change stray.         *)
LEMMA RowsStray ==
  ASSUME SavesInv, UNCHANGED <<tab, client, busy, render>>, strayed \subseteq strayed',
         born' \in Nat, born' >= born, rows' = [id \in DOMAIN rows' |-> rows'[id]],
         DOMAIN rows' \subseteq 1 .. born',
         \A id \in DOMAIN rows' : Cells \subseteq DOMAIN rows'[id],
         \A id \in 1 .. born : Quiet(id)' => Quiet(id) /\ rows'[id] = rows[id],
         NEW m, CallsMoved(m),
         \A c \in calls : /\ m[c].waits = c.waits /\ m[c].mounted = c.mounted
                          /\ IsForm(c) => m[c].at \in {c.at, "failed"}
                          /\ c.at = "ok" => m[c] \in calls' /\ m[c].at = "ok",
         UnsavedStrays'
  PROVE  SavesInv'
<1> USE DEF SavesInv
<1>1. UNCHANGED <<tab, props, held, editing, form, touched, sound, busy, render>>
  BY DEF client
<1>2. DOMAIN props \subseteq 1 .. born /\ born \in Nat
      /\ (render # <<>> => DOMAIN render[1] \subseteq 1 .. born)
  BY DEF RowsShaped
<1>3. RowsShaped'
  <2>1. 1 .. born \subseteq 1 .. born'
    BY <1>2
  <2> QED BY <1>1, <1>2, <2>1 DEF RowsShaped
<1>4. FormShaped'
  BY <1>1 DEF FormShaped
<1>5. FormCalls'
  <2>1. \A c \in calls : m[c] \in calls' /\ IsForm(c) /\ c.id \notin strayed' =>
          /\ m[c].mounted /\ m[c].waits
          /\ c.id \in DOMAIN props' /\ <<"form", c.id>> \in busy'
    BY <1>1 DEF FormCalls
  <2> QED BY <1>1, <2>1, FormCallsMoved
<1>6. ReadRight' /\ HeldRight'
  BY <1>1, <1>2 DEF ReadRight, HeldRight
<1>7. BodiesRight'
  <2>1. \A c \in calls : IsForm(c) /\ Quiet(c.id)' =>
          Quiet(c.id) /\ rows'[c.id] = rows[c.id]
    <3> TAKE c \in calls
    <3> HAVE IsForm(c) /\ Quiet(c.id)'
    <3>1. c.id \in DOMAIN props
      BY DEF FormCalls, Quiet
    <3> QED BY <1>2, <3>1
  <2> QED BY <1>1, <2>1, BodiesMoved
<1>8. FormRight'
  <2> SUFFICES ASSUME editing # 0, sound, Quiet(editing)',
                      tab = "settings" \/
                        \A d \in calls' : IsForm(d) /\ d.id = editing => d.at # "ok"
               PROVE  \A f \in DOMAIN form \ (touched \cup {"tools"}) :
                        form[f] = Show(tab, rows'[editing])[f]
    BY <1>1 DEF FormRight
  <2>1. Quiet(editing) /\ rows'[editing] = rows[editing]
    BY <1>1, <1>2 DEF FormShaped, Quiet
  <2>2. tab = "settings" \/ \A c \in calls : IsForm(c) /\ c.id = editing => c.at # "ok"
    <3> SUFFICES ASSUME tab # "settings", NEW c \in calls, IsForm(c), c.id = editing,
                        c.at = "ok"
                 PROVE  FALSE
      OBVIOUS
    <3>1. m[c] \in calls' /\ m[c].at = "ok" /\ SameRequest(m[c], c)
      BY DEF CallsMoved
    <3> QED BY <3>1 DEF SameRequest, IsForm
  <2> QED BY <2>1, <2>2 DEF FormRight
<1>9. EditsKnown'
  <2> SUFFICES ASSUME NEW d \in calls', IsForm(d), d.id \notin strayed'
               PROVE  /\ tab # "settings" /\ d.at # "failed" /\ "option" \in d.touched =>
                           editing = d.id /\ "option" \in touched
                      /\ tab = "settings" =>
                           (d.sound <=> sound) /\ (d.at = "server" => d.touched \subseteq touched)
    BY <1>1 DEF EditsKnown
  <2>1. PICK c \in calls : d = m[c] /\ SameRequest(d, c)
    BY DEF CallsMoved
  <2>2. IsForm(c) /\ d.at \in {c.at, "failed"} /\ d.id = c.id
        /\ d.touched = c.touched /\ d.sound = c.sound
    BY <2>1 DEF SameRequest, IsForm
  <2>3. c.id \notin strayed
    BY <2>2
  <2> QED BY <2>2, <2>3 DEF EditsKnown
<1> QED BY <1>3, <1>4, <1>5, <1>6, <1>7, <1>8, <1>9

(* Steps that do nothing but to the form.                                   *)
LEMMA FormsOnly ==
  ASSUME SavesInv, UNCHANGED <<tab, rows, born, props, busy, calls, render, unsaved>>,
         strayed \subseteq strayed'
  PROVE  FormCalls' /\ ReadRight' /\ BodiesRight' /\ UnsavedStrays'
<1>1. FormCalls'
  BY DEF SavesInv, FormCalls
<1>2. \A id : Quiet(id)' => Quiet(id)
  BY DEF Quiet
<1>3. ReadRight' /\ BodiesRight'
  BY <1>2 DEF SavesInv, ReadRight, BodiesRight
<1>4. UnsavedStrays'
  BY DEF SavesInv, UnsavedStrays
<1> QED BY <1>1, <1>3, <1>4

LEMMA TypeSaves ==
  ASSUME SavesInv, NEW f \in Cells, Type(f)
  PROVE  SavesInv'
<1> USE DEF SavesInv
<1> PICK v \in Values(f) \ {form[f]} :
      /\ form' = [form EXCEPT ![f] = v]
      /\ held' = IF Held(f) THEN [held EXCEPT ![editing][f] = v] ELSE held
  BY DEF Type
<1>1. /\ UNCHANGED <<tab, rows, born, props, busy, calls, render, unsaved, strayed, editing,
                     sound>>
      /\ editing # 0 /\ f \in DOMAIN form /\ form' = [form EXCEPT ![f] = v]
      /\ touched' = touched \cup {f}
      /\ held' = IF Held(f) THEN [held EXCEPT ![editing][f] = v] ELSE held
  BY DEF Type, server, router
<1>2. FormCalls' /\ ReadRight' /\ BodiesRight' /\ UnsavedStrays'
  BY <1>1, FormsOnly
<1>3. editing \in DOMAIN held /\ f \in DOMAIN held[editing]
  BY <1>1 DEF RowsShaped, FormShaped
<1>4. /\ DOMAIN held' = DOMAIN held
      /\ \A id \in DOMAIN held : DOMAIN held'[id] = DOMAIN held[id]
      /\ \A id \in DOMAIN held \ {editing} : held'[id] = held[id]
      /\ f # "option" /\ tab # "settings" => held' = held
      /\ f = "option" => held'[editing]["option"] = v
  BY <1>1, <1>3 DEF Held
<1>5. RowsShaped'
  BY <1>1, <1>4 DEF RowsShaped
<1>6. FormShaped'
  BY <1>1, <1>4 DEF FormShaped, Cells
<1>7. HeldRight'
  BY <1>1, <1>4 DEF HeldRight, Quiet, RowsShaped
<1>8. FormRight'
  BY <1>1 DEF FormRight, Quiet
<1>9. EditsKnown'
  BY <1>1 DEF EditsKnown
<1> QED BY <1>2, <1>5, <1>6, <1>7, <1>8, <1>9

LEMMA CloseSaves ==
  ASSUME SavesInv, CloseForm
  PROVE  SavesInv'
<1> USE DEF SavesInv
<1>1. /\ UNCHANGED <<tab, rows, born, props, held, busy, calls, render, unsaved>>
      /\ editing # 0 /\ tab # "settings" /\ strayed \subseteq strayed'
      /\ editing' = 0 /\ touched' = {}
      /\ "option" \in touched => editing \in strayed'
  BY DEF CloseForm, Unmounted, server, router, Held
<1>2. FormCalls' /\ ReadRight' /\ BodiesRight' /\ UnsavedStrays'
  BY <1>1, FormsOnly
<1>3. RowsShaped' /\ FormShaped' /\ FormRight'
  BY <1>1 DEF RowsShaped, FormShaped, FormRight
<1>4. HeldRight'
  BY <1>1 DEF HeldRight, Quiet
<1>5. EditsKnown'
  BY <1>1 DEF EditsKnown
<1> QED BY <1>2, <1>3, <1>4, <1>5

LEMMA OpenSaves ==
  ASSUME SavesInv, NEW id \in DOMAIN props, OpenAgentForm(id) \/ OpenCronForm(id)
  PROVE  SavesInv'
<1> USE DEF SavesInv
<1>1. /\ UNCHANGED <<tab, rows, born, props, held, busy, calls, render, unsaved, strayed>>
      /\ editing = 0 /\ editing' = id /\ touched' = {}
      /\ sound' = (id \in DOMAIN rows /\ props[id] = Show(tab, rows[id]))
  BY ListedShows DEF OpenAgentForm, OpenCronForm, AgentMenu, CronMenu, OpenForm, server, router
<1>2. /\ tab \in {"agents", "automation"}
      /\ DOMAIN form' = IF tab = "agents" THEN Cells ELSE {"name", "option"}
      /\ form'["name"] = props[id].name /\ form'["option"] = held[id].option
  <2>1. CASE OpenAgentForm(id)
    BY <2>1 DEF OpenAgentForm, AgentMenu, OpenForm, AgentForm, Cells
  <2>2. CASE OpenCronForm(id)
    BY <2>2 DEF OpenCronForm, CronMenu, OpenForm, CronForm, Cells
  <2> QED BY <2>1, <2>2
<1>3. FormCalls' /\ ReadRight' /\ BodiesRight' /\ UnsavedStrays'
  BY <1>1, FormsOnly
<1>4. id # 0 /\ \A i \in DOMAIN props : i # 0
  BY DEF RowsShaped
<1>5. RowsShaped' /\ FormShaped'
  BY <1>1, <1>2 DEF RowsShaped, FormShaped
<1>6. HeldRight'
  BY <1>1, <1>4 DEF HeldRight, Quiet
<1>7. EditsKnown'
  <2>1. \A c \in calls : IsForm(c) /\ c.id \notin strayed => c.id # 0
    BY <1>4 DEF FormCalls
  <2> QED BY <1>1, <1>2, <2>1 DEF EditsKnown
<1>8. FormRight'
  <2> SUFFICES ASSUME sound', Quiet(id),
                      NEW f \in DOMAIN form' \ (touched' \cup {"tools"})
               PROVE  form'[f] = Show(tab, rows[id])[f]
    BY <1>1 DEF FormRight, Quiet
  <2>1. f \in {"name", "option"}
    BY <1>2 DEF Cells
  <2>2. held[id]["option"] = Show(tab, rows[id])["option"]
    BY <1>1, <1>2, <1>4 DEF HeldRight
  <2> QED BY <1>1, <1>2, <2>1, <2>2
<1> QED BY <1>3, <1>5, <1>6, <1>7, <1>8

(* The requests of the tab; one of a form carries the form's cells.         *)
LEMMA RequestShape ==
  ASSUME SavesInv, Requests
  PROVE  /\ tab \in {"agents", "automation", "sessions", "settings"}
         /\ \E control, op, id, body :
              /\ Request(control, op, id, body)
              /\ op \in {"createAgent", "createCron"} => Cells \subseteq DOMAIN body
              /\ control = "form" =>
                   /\ op \in {"updateAgent", "updateCron", "updateConfig"}
                   /\ editing # 0 /\ id = editing
                   /\ DOMAIN body \subseteq DOMAIN form
                   /\ \A f \in DOMAIN body : body[f] = form[f]
                   /\ tab = "agents" => DOMAIN body =
                        IF form["option"] = 0 THEN Cells \ {"option"} ELSE Cells
                   /\ tab # "agents" => DOMAIN body = DOMAIN form
<1>1. CASE SaveAgent
  <2> DEFINE body == [f \in IF form.option = 0 THEN Cells \ {"option"} ELSE Cells |-> form[f]]
  <2>1. tab = "agents" /\ editing # 0 /\ Request("form", "updateAgent", editing, body)
    BY <1>1 DEF SaveAgent, Submit
  <2>2. /\ DOMAIN body \subseteq DOMAIN form /\ \A f \in DOMAIN body : body[f] = form[f]
        /\ DOMAIN body = IF form["option"] = 0 THEN Cells \ {"option"} ELSE Cells
    BY <2>1 DEF SavesInv, FormShaped
  <2> HIDE DEF body
  <2> QED BY <2>1, <2>2
<1>2. CASE SaveCron \/ SaveConfig
  BY <1>2 DEF SaveCron, SaveConfig, Submit
<1>3. CASE CreateAgent \/ CreateCron
  <2>1. Cells \subseteq DOMAIN FirstRow /\ Cells \subseteq DOMAIN NewAgent
    BY DEF FirstRow, NewAgent
  <2> QED BY <1>3, <2>1 DEF CreateAgent, CreateCron, AgentMenu, CronMenu
<1>4. CASE ResetSystem
  BY <1>4 DEF ResetSystem
<1>5. ASSUME NEW id \in DOMAIN props,
             \/ RestartAgent(id) \/ DeleteAgent(id)
             \/ ToggleCron(id) \/ TriggerCron(id) \/ DeleteCron(id)
             \/ SummarizeSession(id) \/ DeleteSession(id)
      PROVE  /\ tab \in {"agents", "automation", "sessions"}
             /\ \E op, i, body : /\ Request("card", op, i, body)
                                 /\ op \notin {"createAgent", "createCron"}
  BY <1>5 DEF RestartAgent, DeleteAgent, ToggleCron, TriggerCron, DeleteCron,
     SummarizeSession, DeleteSession, AgentMenu, CronMenu, SessionMenu
<1> QED BY <1>1, <1>2, <1>3, <1>4, <1>5 DEF Requests

LEMMA RequestSaves ==
  ASSUME SavesInv, Requests
  PROVE  SavesInv'
<1> USE DEF SavesInv
<1> PICK control, op, id, body :
      /\ Request(control, op, id, body)
      /\ op \in {"createAgent", "createCron"} => Cells \subseteq DOMAIN body
      /\ control = "form" =>
           /\ op \in {"updateAgent", "updateCron", "updateConfig"}
           /\ editing # 0 /\ id = editing
           /\ DOMAIN body \subseteq DOMAIN form
           /\ \A f \in DOMAIN body : body[f] = form[f]
           /\ tab = "agents" => DOMAIN body =
                IF form["option"] = 0 THEN Cells \ {"option"} ELSE Cells
           /\ tab # "agents" => DOMAIN body = DOMAIN form
  BY RequestShape
<1> DEFINE new == Call(made, control, op, id, body, "server", TRUE, TRUE, touched, sound)
<1>1. /\ calls' = calls \cup {new}
      /\ <<control, id>> \notin busy /\ busy' = busy \cup {<<control, id>>}
  BY DEF Request, Call
<1>2. UNCHANGED <<tab, rows, born, unsaved, props, held, editing, form, touched, sound, render,
                  strayed>>
  BY DEF Request, server, client, router
<1>3. /\ new.control = control /\ new.op = op /\ new.id = id /\ new.body = body
      /\ new.at = "server" /\ new.waits = TRUE /\ new.mounted = TRUE
      /\ new.touched = touched /\ new.sound = sound
  BY DEF Call
<1> HIDE DEF new
<1>4. control = "form" => \A d \in calls : IsForm(d) /\ d.id = id => id \in strayed
  BY <1>1 DEF FormCalls
<1>5. RowsShaped' /\ FormShaped' /\ ReadRight' /\ HeldRight' /\ UnsavedStrays'
  BY <1>2 DEF RowsShaped, FormShaped, ReadRight, HeldRight, UnsavedStrays, Quiet
<1>6. FormRight'
  BY <1>1, <1>2 DEF FormRight, Quiet
<1>7. FormCalls'
  <2>1. tab \in {"agents", "automation", "sessions", "settings"}
    BY RequestShape
  <2>2. Creates(new) => Cells \subseteq DOMAIN new.body
    BY <1>3 DEF Creates
  <2>3. IsForm(new) =>
          /\ Updates(new) /\ new.touched \subseteq Cells
          /\ DOMAIN new.body \subseteq Cells
          /\ tab = "settings" => DOMAIN new.body = {"name", "option"}
          /\ tab = "agents" /\ "option" \in DOMAIN new.body => new.body["option"] # 0
          /\ new.mounted /\ new.waits /\ new.id \in DOMAIN props
    BY <1>3 DEF IsForm, Updates, FormShaped, Cells
  <2>4. ASSUME NEW d \in calls', NEW e \in calls', IsForm(d), IsForm(e), d.id = e.id,
               d.id \notin strayed
        PROVE  e = d
    <3>1. CASE d \in calls /\ e \in calls
      BY <2>4, <3>1 DEF FormCalls
    <3>2. CASE d = new \/ e = new
      BY <1>1, <1>3, <1>4, <2>4, <3>2 DEF IsForm
    <3> QED BY <1>1, <3>1, <3>2
  <2>5. \A d \in calls' : IsForm(d) /\ d.id \notin strayed => <<"form", d.id>> \in busy'
    BY <1>1, <1>3 DEF FormCalls, IsForm
  <2> QED BY <1>1, <1>2, <2>1, <2>2, <2>3, <2>4, <2>5 DEF FormCalls, Updates, Creates
<1>8. BodiesRight'
  <2>1. ASSUME IsForm(new), Quiet(new.id)
        PROVE  /\ new.sound => \A f \in {"name", "option"} \ new.touched :
                    f \in DOMAIN new.body /\ new.body[f] = Show(tab, rows[new.id])[f]
               /\ tab # "settings" /\ "option" \notin new.touched =>
                    /\ "option" \in DOMAIN new.body
                    /\ new.body["option"] = Show(tab, rows[new.id])["option"]
    <3>1. /\ control = "form" /\ id = editing /\ editing # 0 /\ id \in DOMAIN props
          /\ \A f \in DOMAIN body : f \in DOMAIN form /\ body[f] = form[f]
          /\ {"name", "option"} \subseteq DOMAIN form
      BY <1>3, <2>1 DEF IsForm, FormShaped, Cells
    <3>2. \A c \in calls : IsForm(c) => c.id # editing
      BY <1>3, <1>4, <2>1, <3>1 DEF Quiet
    <3>3. sound => \A f \in DOMAIN form \ (touched \cup {"tools"}) :
                     form[f] = Show(tab, rows[editing])[f]
      BY <1>3, <2>1, <3>1, <3>2 DEF FormRight
    <3>4. tab # "settings" /\ "option" \notin touched =>
            form["option"] = Show(tab, rows[id])["option"]
      BY <1>3, <2>1, <3>1 DEF HeldRight, FormShaped
    <3>5. "option" \in DOMAIN rows[id]
      BY <1>3, <2>1 DEF RowsShaped, Quiet, Cells
    <3>6. tab = "agents" => Show(tab, rows[id])["option"] # 0
      BY <3>5, ShowsCell
    <3>7. "option" \notin touched => "option" \in DOMAIN body
      BY <3>1, <3>4, <3>6 DEF Cells
    <3>8. "name" \in DOMAIN body
      BY <3>1 DEF Cells
    <3> QED BY <1>3, <3>1, <3>3, <3>4, <3>7, <3>8
  <2> QED BY <1>1, <1>2, <1>3, <2>1 DEF BodiesRight, Quiet
<1>9. EditsKnown'
  BY <1>1, <1>2, <1>3 DEF EditsKnown, IsForm
<1> QED BY <1>5, <1>6, <1>7, <1>8, <1>9

(* Each call is a request, the same as itself.                              *)
LEMMA CallsAreRequests ==
  ASSUME QuietInv
  PROVE  \A d \in calls : IsCall(d) /\ SameRequest(d, d)
<1>1. ASSUME NEW d \in calls PROVE IsCall(d)
  BY DEF QuietInv, HealInv
<1>2. ASSUME NEW d \in calls PROVE SameRequest(d, d)
  <2>1. IsCall(d)
    BY <1>1
  <2> QED BY <2>1, RequestUpdates
<1> QED BY <1>1, <1>2

(* A saved form: the row becomes what the body says.                        *)
LEMMA SavedForm ==
  ASSUME SavesInv, QuietInv, NEW c \in calls, IsForm(c), Serve(c, TRUE)
  PROVE  SavesInv'
<1> USE DEF SavesInv
<1> DEFINE answered == [c EXCEPT !.at = "ok"]
           m == [d \in calls |-> IF d = c THEN answered ELSE d]
<1>1. /\ UNCHANGED <<tab, props, held, editing, form, touched, sound, busy, render>>
      /\ c.at = "server" /\ strayed \subseteq strayed'
      /\ calls' = (calls \ {c}) \cup (IF c.waits THEN {answered} ELSE {})
      /\ unsaved' = unsaved
  BY DEF Serve, client, router, Persist
<1>2. Updates(c) /\ ~Creates(c) /\ ~Deletes(c) /\ ~Missing(c) /\ c.op # "deleteSession"
  BY DEF Serve, FormCalls, Updates, Creates, Deletes
<1>3. born' = born /\ rows' = [rows EXCEPT ![c.id] = Override(@, c.body)]
  <2>1. rows' = Applied(c)
    BY DEF Serve, FormCalls, AgentRoutes, CronRoutes, SessionRoutes, ConfigRoutes
  <2> QED BY <1>2, <2>1 DEF Applied, Serve
<1>4. c.id = 0 \/ c.id \in DOMAIN rows
  BY <1>2 DEF Missing
<1>5. /\ DOMAIN rows' = DOMAIN rows
      /\ \A id \in DOMAIN rows \ {c.id} : rows'[id] = rows[id]
      /\ c.id \in DOMAIN rows => rows'[c.id] = Override(rows[c.id], c.body)
  BY <1>3
<1>6. c.id \in DOMAIN rows =>
        /\ Cells \subseteq DOMAIN rows'[c.id]
        /\ \A f \in Cells : rows'[c.id][f] = IF f \in DOMAIN c.body THEN c.body[f]
                                             ELSE rows[c.id][f]
  BY <1>5 DEF Override, RowsShaped
<1>7. RowsShaped'
  <2>1. rows' = [id \in DOMAIN rows' |-> rows'[id]]
    BY <1>3
  <2> QED BY <1>1, <1>3, <1>5, <1>6, <2>1 DEF RowsShaped
<1>8. FormShaped'
  BY <1>1 DEF FormShaped
<1>9. /\ SameRequest(answered, c) /\ answered.at = "ok"
      /\ answered.waits = c.waits /\ answered.mounted = c.mounted
      /\ \A d \in calls : SameRequest(d, d)
  <2>1. \A d \in calls : SameRequest(d, d)
    BY CallsAreRequests
  <2>2. IsCall(c)
    BY CallsAreRequests
  <2>3. SameRequest(answered, c) /\ answered.at = "ok"
        /\ answered.waits = c.waits /\ answered.mounted = c.mounted
    BY <2>2, RequestUpdates
  <2> QED BY <2>1, <2>3
<1> HIDE DEF answered
<1>10. CallsMoved(m) /\ \A d \in calls : m[d] = IF d = c THEN answered ELSE d
  <2>1. \A d \in calls : m[d] = IF d = c THEN answered ELSE d
    OBVIOUS
  <2>2. \A d \in calls' : d \in {m[e] : e \in calls}
    BY <1>1, <2>1
  <2>3. \A d \in calls : SameRequest(m[d], d)
    BY <1>9, <2>1
  <2> HIDE DEF m
  <2> QED BY <2>1, <2>2, <2>3 DEF CallsMoved
<1> HIDE DEF m
<1>11. FormCalls'
  <2>1. \A d \in calls : m[d] \in calls' /\ IsForm(d) /\ d.id \notin strayed' =>
          /\ m[d].mounted /\ m[d].waits
          /\ d.id \in DOMAIN props' /\ <<"form", d.id>> \in busy'
    BY <1>1, <1>9, <1>10 DEF FormCalls
  <2> QED BY <1>1, <1>10, <2>1, FormCallsMoved
<1>12. c.id \notin strayed => c.waits /\ \A d \in calls : IsForm(d) /\ d.id = c.id => d = c
  BY DEF FormCalls
<1>13. Quiet(c.id)' => Quiet(c.id) /\ c.waits /\ answered \in calls'
  BY <1>1, <1>5, <1>12 DEF Quiet
<1>14. \A id : id # c.id /\ Quiet(id)' => Quiet(id) /\ rows'[id] = rows[id]
  BY <1>1, <1>5 DEF Quiet
<1>15. ReadRight'
  <2>1. c.id \notin strayed => c.id \in DOMAIN props
    BY DEF FormCalls
  <2>2. ASSUME NEW id, Quiet(id)', id \notin DOMAIN props PROVE Quiet(id) /\ rows'[id] = rows[id]
    BY <1>13, <1>14, <2>1, <2>2 DEF Quiet
  <2> QED BY <1>1, <2>2 DEF ReadRight
<1>16. HeldRight'
  <2> SUFFICES ASSUME tab # "settings", NEW id \in DOMAIN props, Quiet(id)',
                      ~(editing = id /\ "option" \in touched)
               PROVE  held[id]["option"] = Show(tab, rows'[id])["option"]
    BY <1>1 DEF HeldRight
  <2>1. CASE id # c.id
    BY <1>14, <2>1 DEF HeldRight
  <2>2. CASE id = c.id
    <3>1. /\ Quiet(c.id) /\ held[id]["option"] = Show(tab, rows[id])["option"]
          /\ "option" \in Cells
      BY <1>13, <2>2 DEF HeldRight, Cells
    <3>2. "option" \notin c.touched
      BY <1>1, <2>2, <3>1 DEF EditsKnown, Quiet
    <3>3. "option" \in DOMAIN c.body /\ c.body["option"] = Show(tab, rows[id])["option"]
      BY <1>1, <2>2, <3>1, <3>2 DEF BodiesRight
    <3>4. "option" \in DOMAIN rows'[id] /\ rows'[id]["option"] = c.body["option"]
      BY <1>6, <2>2, <3>1, <3>3 DEF Quiet
    <3>5. tab = "agents" => rows'[id]["option"] # 0
      BY <3>3, <3>4 DEF FormCalls
    <3>6. Show(tab, rows'[id])["option"] = rows'[id]["option"]
      BY <3>4, <3>5, ShowsCell
    <3> QED BY <3>1, <3>3, <3>4, <3>6
  <2> QED BY <2>1, <2>2
<1>17. FormRight'
  <2> SUFFICES ASSUME editing # 0, sound, Quiet(editing)',
                      tab = "settings" \/
                        \A d \in calls' : IsForm(d) /\ d.id = editing => d.at # "ok",
                      NEW f \in DOMAIN form \ (touched \cup {"tools"})
               PROVE  form[f] = Show(tab, rows'[editing])[f]
    BY <1>1 DEF FormRight, Quiet
  <2>1. CASE editing # c.id
    <3>1. Quiet(editing) /\ rows'[editing] = rows[editing]
      <4>1. editing \in DOMAIN rows /\ editing \notin strayed
        BY <1>1, <1>5, <2>1 DEF Quiet
      <4>2. rows'[editing] = rows[editing]
        BY <1>5, <2>1, <4>1
      <4> QED BY <4>1, <4>2 DEF Quiet
    <3>2. tab = "settings" \/ \A d \in calls : IsForm(d) /\ d.id = editing => d.at # "ok"
      BY <1>1, <2>1
    <3> QED BY <3>1, <3>2 DEF FormRight
  <2>2. CASE editing = c.id
    <3>1. Quiet(c.id) /\ answered \in calls'
      BY <1>1, <1>13, <2>2 DEF Quiet
    <3>2. tab = "settings"
      BY <1>9, <2>2, <3>1 DEF SameRequest, IsForm
    <3>3. form[f] = Show(tab, rows[editing])[f]
      BY <2>2, <3>1, <3>2 DEF FormRight
    <3>4. c.sound /\ f \notin c.touched
      BY <1>1, <3>1, <3>2 DEF EditsKnown, Quiet
    <3>5. f \in {"name", "option"} /\ f \in Cells
      BY <3>2 DEF FormShaped, Cells
    <3>6. f \in DOMAIN c.body /\ c.body[f] = Show(tab, rows[editing])[f]
      BY <1>1, <2>2, <3>1, <3>4, <3>5 DEF BodiesRight
    <3>7. f \in DOMAIN rows'[editing] /\ rows'[editing][f] = c.body[f]
      BY <1>6, <2>2, <3>1, <3>5, <3>6 DEF Quiet
    <3>8. Show(tab, rows'[editing])[f] = rows'[editing][f]
      BY <3>2, <3>7, ShowsCell
    <3> QED BY <3>3, <3>6, <3>7, <3>8
  <2> QED BY <2>1, <2>2
<1>18. BodiesRight'
  <2> SUFFICES ASSUME NEW d \in calls', IsForm(d), Quiet(d.id)'
               PROVE  /\ d.at = "server" /\ d.sound =>
                           \A f \in {"name", "option"} \ d.touched :
                             f \in DOMAIN d.body /\ d.body[f] = Show(tab, rows'[d.id])[f]
                      /\ d.at = "server" /\ tab # "settings" /\ "option" \notin d.touched =>
                           /\ "option" \in DOMAIN d.body
                           /\ d.body["option"] = Show(tab, rows'[d.id])["option"]
                      /\ d.at = "ok" => \A f \in DOMAIN d.body : d.body[f] = rows'[d.id][f]
    BY <1>1 DEF BodiesRight
  <2>1. CASE d \in calls \ {c}
    <3>1. d.id # c.id
      BY <1>12, <1>13, <2>1 DEF Quiet
    <3>2. Quiet(d.id) /\ rows'[d.id] = rows[d.id]
      BY <1>14, <3>1
    <3> QED BY <2>1, <3>2 DEF BodiesRight
  <2>2. CASE d = answered
    <3>1. d.id = c.id /\ d.body = c.body /\ d.at = "ok"
      BY <1>9, <2>2 DEF SameRequest
    <3>2. c.id \in DOMAIN rows /\ DOMAIN c.body \subseteq Cells
      BY <1>5, <3>1 DEF Quiet, FormCalls
    <3> QED BY <1>6, <3>1, <3>2
  <2> QED BY <1>1, <2>1, <2>2
<1>19. EditsKnown'
  <2> SUFFICES ASSUME NEW d \in calls', IsForm(d), d.id \notin strayed'
               PROVE  /\ tab # "settings" /\ d.at # "failed" /\ "option" \in d.touched =>
                           editing = d.id /\ "option" \in touched
                      /\ tab = "settings" =>
                           (d.sound <=> sound) /\ (d.at = "server" => d.touched \subseteq touched)
    BY <1>1 DEF EditsKnown
  <2>1. CASE d \in calls
    BY <1>1, <2>1 DEF EditsKnown
  <2>2. CASE d = answered
    BY <1>1, <1>9, <2>2 DEF EditsKnown, SameRequest
  <2> QED BY <1>1, <2>1, <2>2
<1>20. UnsavedStrays'
  BY <1>1 DEF UnsavedStrays
<1> QED BY <1>7, <1>8, <1>11, <1>15, <1>16, <1>17, <1>18, <1>19, <1>20

(* Whatever else a route does strays, as does what it leaves half done.     *)
LEMMA RouteEffect ==
  ASSUME SavesInv, NEW c \in calls, NEW ok \in BOOLEAN, Serve(c, ok), ~(IsForm(c) /\ ok)
  PROVE  /\ strayed \subseteq strayed'
         /\ born' \in Nat /\ born' >= born
         /\ rows' = [id \in DOMAIN rows' |-> rows'[id]]
         /\ DOMAIN rows' \subseteq 1 .. born'
         /\ \A id \in DOMAIN rows' : Cells \subseteq DOMAIN rows'[id]
         /\ \A id \in 1 .. born : Quiet(id)' => Quiet(id) /\ rows'[id] = rows[id]
<1> USE DEF SavesInv
<1>1. /\ born \in Nat /\ rows = [id \in DOMAIN rows |-> rows[id]]
      /\ DOMAIN rows \subseteq 1 .. born
      /\ \A id \in DOMAIN rows : Cells \subseteq DOMAIN rows[id]
  BY DEF RowsShaped
<1>2. strayed' = (IF rows' # rows THEN strayed \cup {c.id} ELSE strayed)
      /\ born' = (IF Creates(c) THEN born + 1 ELSE born)
  BY DEF Serve, IsForm
<1>3. rows' \in {rows, Applied(c)} \/ (Updates(c) /\ rows' = Without(c.id))
  BY DEF Serve, FormCalls, AgentRoutes, CronRoutes, SessionRoutes, ConfigRoutes
<1>4. CASE rows' = rows
  <2>1. 1 .. born \subseteq 1 .. born'
    BY <1>1, <1>2
  <2> QED BY <1>1, <1>2, <1>4, <2>1 DEF Quiet
<1>5. CASE rows' # rows /\ Creates(c)
  <2>1. rows' = Override(rows, [i \in {born + 1} |-> c.body])
    <3>1. ~Updates(c)
      BY <1>5 DEF Creates, Updates
    <3>2. rows' = Applied(c)
      BY <1>3, <1>5, <3>1
    <3>3. Applied(c) = Override(rows, [i \in {born + 1} |-> c.body])
      <4>1. Creates(c) /\ ~Deletes(c) /\ ~Updates(c)
        BY <1>5, <3>1 DEF Creates, Deletes
      <4> QED BY <4>1, Zenon DEF Applied
    <3> QED BY <3>2, <3>3
  <2>2. /\ rows' = [x \in DOMAIN rows \cup {born + 1} |->
                      IF x = born + 1 THEN c.body ELSE rows[x]]
    BY <2>1 DEF Override
  <2>3. Cells \subseteq DOMAIN c.body
    BY <1>5 DEF FormCalls
  <2> QED BY <1>1, <1>2, <1>5, <2>2, <2>3 DEF Quiet
<1>6. CASE rows' # rows /\ ~Creates(c)
  <2>1. \/ c.id \in DOMAIN rows /\ rows' = [rows EXCEPT ![c.id] = Override(@, c.body)]
        \/ rows' = [i \in DOMAIN rows \ {c.id} |-> rows[i]]
        \/ c.id = 0 /\ rows' = [rows EXCEPT ![c.id] = Override(@, c.body)]
    BY <1>3, <1>6 DEF Applied, Without, Missing
  <2>2. CASE c.id \in DOMAIN rows /\ rows' = [rows EXCEPT ![c.id] = Override(@, c.body)]
    <3>1. DOMAIN rows[c.id] \subseteq DOMAIN Override(rows[c.id], c.body)
      BY DEF Override
    <3> DEFINE row == Override(rows[c.id], c.body)
    <3> HIDE DEF row
    <3>2. rows' = [rows EXCEPT ![c.id] = row] /\ DOMAIN rows[c.id] \subseteq DOMAIN row
      BY <2>2, <3>1 DEF row
    <3>3. /\ rows' = [id \in DOMAIN rows' |-> rows'[id]] /\ DOMAIN rows' = DOMAIN rows
          /\ \A id \in DOMAIN rows \ {c.id} : rows'[id] = rows[id]
          /\ rows'[c.id] = row
      BY <2>2, <3>2
    <3>4. \A id \in DOMAIN rows' : Cells \subseteq DOMAIN rows'[id]
      BY <1>1, <2>2, <3>2, <3>3
    <3>5. /\ strayed' = strayed \cup {c.id} /\ born' = born
      BY <1>2, <1>6
    <3>6. \A id \in 1 .. born : Quiet(id)' => Quiet(id) /\ rows'[id] = rows[id]
      BY <3>3, <3>5 DEF Quiet
    <3> QED BY <1>1, <3>3, <3>4, <3>5, <3>6
  <2>3. CASE rows' = [i \in DOMAIN rows \ {c.id} |-> rows[i]]
    BY <1>1, <1>2, <1>6, <2>3 DEF Quiet
  <2>4. CASE c.id = 0 /\ rows' = [rows EXCEPT ![c.id] = Override(@, c.body)]
    <3>1. 0 \notin DOMAIN rows
      BY <1>1
    <3>2. rows' = rows
      BY <1>1, <2>4, <3>1
    <3> QED BY <1>6, <3>2
  <2> QED BY <2>1, <2>2, <2>3, <2>4
<1> QED BY <1>4, <1>5, <1>6

LEMMA ServeSaves ==
  ASSUME SavesInv, QuietInv, NEW c \in calls, NEW ok \in BOOLEAN, Serve(c, ok)
  PROVE  SavesInv'
<1>1. CASE IsForm(c) /\ ok
  <2>1. ok = TRUE
    BY <1>1
  <2> QED BY <1>1, <2>1, SavedForm
<1>2. CASE ~(IsForm(c) /\ ok)
  <2> DEFINE answered == [c EXCEPT !.at = IF ok THEN "ok" ELSE "failed"]
             m == [d \in calls |-> IF d = c THEN answered ELSE d]
  <2>1. /\ strayed \subseteq strayed'
        /\ born' \in Nat /\ born' >= born
        /\ rows' = [id \in DOMAIN rows' |-> rows'[id]]
        /\ DOMAIN rows' \subseteq 1 .. born'
        /\ \A id \in DOMAIN rows' : Cells \subseteq DOMAIN rows'[id]
        /\ \A id \in 1 .. born : Quiet(id)' => Quiet(id) /\ rows'[id] = rows[id]
    BY <1>2, RouteEffect
  <2>2. /\ UNCHANGED <<tab, client, busy, render>> /\ c.at = "server"
        /\ calls' = (calls \ {c}) \cup (IF c.waits THEN {answered} ELSE {})
    BY DEF Serve, router
  <2>3. /\ SameRequest(answered, c) /\ answered.at = (IF ok THEN "ok" ELSE "failed")
        /\ answered.waits = c.waits /\ answered.mounted = c.mounted
        /\ \A d \in calls : SameRequest(d, d)
    <3>1. \A d \in calls : SameRequest(d, d)
      BY CallsAreRequests
    <3>2. IsCall(c)
      BY CallsAreRequests
    <3> DEFINE x == IF ok THEN "ok" ELSE "failed"
    <3> HIDE DEF x
    <3>3. /\ SameRequest([c EXCEPT !.at = x], c) /\ [c EXCEPT !.at = x].at = x
          /\ [c EXCEPT !.at = x].waits = c.waits /\ [c EXCEPT !.at = x].mounted = c.mounted
      BY <3>2, RequestUpdates, ZenonT(60)
    <3> QED BY <3>1, <3>3 DEF x
  <2> HIDE DEF answered
  <2>4. \A d \in calls : m[d] = IF d = c THEN answered ELSE d
    OBVIOUS
  <2>5. CallsMoved(m)
    <3>1. \A d \in calls' : d \in {m[e] : e \in calls}
      BY <2>2, <2>4
    <3>2. \A d \in calls : SameRequest(m[d], d)
      BY <2>3, <2>4
    <3> HIDE DEF m
    <3> QED BY <3>1, <3>2 DEF CallsMoved
  <2> HIDE DEF m
  <2>6. \A d \in calls : /\ m[d].waits = d.waits /\ m[d].mounted = d.mounted
                         /\ IsForm(d) => m[d].at \in {d.at, "failed"}
                         /\ d.at = "ok" => m[d] \in calls' /\ m[d].at = "ok"
    BY <1>2, <2>2, <2>3, <2>4
  <2>7. UnsavedStrays'
    <3> SUFFICES ASSUME tab = "settings", unsaved' PROVE 1 \in strayed'
      BY <2>2 DEF UnsavedStrays
    <3>1. CASE unsaved
      BY <2>1, <3>1 DEF SavesInv, UnsavedStrays
    <3>2. CASE ~unsaved
      <4>1. rows' # rows /\ ~ok
        BY <3>2 DEF Serve, Persist
      <4>2. c.id \in strayed'
        BY <4>1 DEF Serve
      <4>3. c.op = "updateConfig" /\ c.id = 1
        <5>1. CASE c.op = "resetSystem"
          <6>1. Applied(c) = rows
            BY <5>1 DEF Applied, Creates, Updates, Deletes
          <6> QED BY <4>1, <6>1 DEF Serve, ConfigRoutes
        <5> QED BY <5>1 DEF QuietInv, SettingsInv
      <4> QED BY <4>2, <4>3
    <3> QED BY <3>1, <3>2
  <2> QED BY <2>1, <2>2, <2>5, <2>6, <2>7, RowsStray
<1> QED BY <1>1, <1>2

(* The calls stay as they are.                                              *)
LEMMA CallsStay ==
  ASSUME QuietInv, calls' \subseteq calls
  PROVE  CallsMoved([d \in calls |-> d]) /\ \A d \in calls : [e \in calls |-> e][d] = d
<1> DEFINE m == [d \in calls |-> d]
<1>1. \A d \in calls : m[d] = d /\ SameRequest(d, d)
  BY RequestUpdates DEF QuietInv, HealInv
<1> HIDE DEF m
<1>2. CallsMoved(m) /\ \A d \in calls : m[d] = d
  BY <1>1 DEF CallsMoved
<1> QED BY <1>2 DEF m

LEMMA ElsewhereSaves ==
  ASSUME SavesInv, QuietInv, Elsewhere
  PROVE  SavesInv'
<1> DEFINE m == [d \in calls |-> d]
<1>1. UNCHANGED <<tab, born, client, busy, render, calls>>
  BY DEF Elsewhere, router
<1>2. PICK id \in DOMAIN rows :
        /\ strayed' = strayed \cup {id}
        /\ \/ \E f \in IF tab = "agents" THEN Cells ELSE {"name", "option"} :
              \E v \in Values(f) \ {rows[id][f]} :
                LET body == [g \in {f} |-> v] IN
                /\ rows' = [rows EXCEPT ![id] = Override(@, body)]
                /\ Persist(body, TRUE)
           \/ /\ tab # "settings" /\ rows' = Without(id)
              /\ UNCHANGED <<file, unsaved>>
  BY DEF Elsewhere
<1>3. \/ \E body : rows' = [rows EXCEPT ![id] = Override(@, body)] /\ Persist(body, TRUE)
      \/ rows' = [i \in DOMAIN rows \ {id} |-> rows[i]] /\ UNCHANGED unsaved
  BY <1>2 DEF Without
<1>4. UNCHANGED unsaved
  BY <1>3 DEF Persist
<1>5. /\ born \in Nat /\ rows = [i \in DOMAIN rows |-> rows[i]]
      /\ DOMAIN rows \subseteq 1 .. born
      /\ \A i \in DOMAIN rows : Cells \subseteq DOMAIN rows[i]
  BY DEF SavesInv, RowsShaped
<1>6. /\ rows' = [i \in DOMAIN rows' |-> rows'[i]] /\ DOMAIN rows' \subseteq DOMAIN rows
      /\ \A i \in DOMAIN rows' : Cells \subseteq DOMAIN rows'[i]
      /\ \A i \in DOMAIN rows' \ {id} : rows'[i] = rows[i]
  <2>1. ASSUME NEW body, rows' = [rows EXCEPT ![id] = Override(@, body)]
        PROVE  /\ rows' = [i \in DOMAIN rows' |-> rows'[i]] /\ DOMAIN rows' \subseteq DOMAIN rows
               /\ \A i \in DOMAIN rows' : Cells \subseteq DOMAIN rows'[i]
               /\ \A i \in DOMAIN rows' \ {id} : rows'[i] = rows[i]
    <3>1. DOMAIN rows[id] \subseteq DOMAIN Override(rows[id], body)
      BY DEF Override
    <3> HIDE DEF Override
    <3> QED BY <1>5, <2>1, <3>1
  <2>2. CASE rows' = [i \in DOMAIN rows \ {id} |-> rows[i]]
    BY <1>5, <2>2
  <2> QED BY <1>3, <2>1, <2>2
<1>7. \A i \in 1 .. born : Quiet(i)' => Quiet(i) /\ rows'[i] = rows[i]
  BY <1>2, <1>6 DEF Quiet
<1>8. UnsavedStrays'
  BY <1>1, <1>2, <1>4 DEF SavesInv, UnsavedStrays
<1>9. CallsMoved(m) /\ \A d \in calls : m[d] = d
  BY <1>1, CallsStay
<1> HIDE DEF m
<1>10. \A d \in calls : /\ m[d].waits = d.waits /\ m[d].mounted = d.mounted
                        /\ IsForm(d) => m[d].at \in {d.at, "failed"}
                        /\ d.at = "ok" => m[d] \in calls' /\ m[d].at = "ok"
  BY <1>1, <1>9
<1>11. /\ strayed \subseteq strayed' /\ born' \in Nat /\ born' >= born
       /\ DOMAIN rows' \subseteq 1 .. born'
  BY <1>1, <1>2, <1>5, <1>6
<1> QED BY <1>1, <1>6, <1>7, <1>8, <1>9, <1>10, <1>11, RowsStray

LEMMA RestartSaves ==
  ASSUME SavesInv, QuietInv, ServerRestarts
  PROVE  SavesInv'
<1> DEFINE Ended(c) == [c EXCEPT !.at = IF c.at = "server" THEN "failed" ELSE c.at]
           m == [c \in calls |-> Ended(c)]
<1>1. /\ UNCHANGED <<tab, born, client, busy, render>>
      /\ rows' = (IF tab = "settings" THEN [i \in {1} |-> AtBoot] ELSE rows)
      /\ strayed' = (IF rows' # rows THEN strayed \cup {1} ELSE strayed)
      /\ unsaved' = FALSE
      /\ calls' = {Ended(c) : c \in {c \in calls : c.at # "server" \/ c.waits}}
  BY DEF ServerRestarts, router
<1>2. /\ born \in Nat /\ rows = [i \in DOMAIN rows |-> rows[i]]
      /\ DOMAIN rows \subseteq 1 .. born
      /\ \A i \in DOMAIN rows : Cells \subseteq DOMAIN rows[i]
  BY DEF SavesInv, RowsShaped
<1>3. /\ rows' = [i \in DOMAIN rows' |-> rows'[i]] /\ DOMAIN rows' = DOMAIN rows
      /\ \A i \in DOMAIN rows' : Cells \subseteq DOMAIN rows'[i]
  <2>1. CASE tab = "settings"
    <3>1. DOMAIN rows = {1}
      BY <2>1 DEF QuietInv, SettingsInv
    <3>2. Cells \subseteq DOMAIN AtBoot
      BY DEF AtBoot, Override, FirstRow
    <3> QED BY <1>1, <2>1, <3>1, <3>2
  <2>2. CASE tab # "settings"
    BY <1>1, <1>2, <2>2
  <2> QED BY <2>1, <2>2
<1>4. \A i \in 1 .. born : Quiet(i)' => Quiet(i) /\ rows'[i] = rows[i]
  <2>1. CASE rows' = rows
    BY <1>1, <2>1 DEF Quiet
  <2>2. CASE rows' # rows
    <3>1. DOMAIN rows' = {1} /\ 1 \in strayed'
      BY <1>1, <2>2
    <3> QED BY <3>1 DEF Quiet
  <2> QED BY <2>1, <2>2
<1>5. \A c \in calls :
        /\ SameRequest(Ended(c), c) /\ Ended(c).waits = c.waits /\ Ended(c).mounted = c.mounted
        /\ Ended(c).at = (IF c.at = "server" THEN "failed" ELSE c.at)
  <2> TAKE c \in calls
  <2> DEFINE x == IF c.at = "server" THEN "failed" ELSE c.at
  <2> HIDE DEF x
  <2>1. IsCall(c)
    BY DEF QuietInv, HealInv
  <2>2. /\ SameRequest([c EXCEPT !.at = x], c) /\ [c EXCEPT !.at = x].at = x
        /\ [c EXCEPT !.at = x].waits = c.waits /\ [c EXCEPT !.at = x].mounted = c.mounted
    BY <2>1, RequestUpdates, Zenon
  <2> QED BY <2>2 DEF x
<1> HIDE DEF Ended
<1>6. \A c \in calls : m[c] = Ended(c)
  OBVIOUS
<1>7. CallsMoved(m)
  <2>1. \A d \in calls' : d \in {m[e] : e \in calls}
    BY <1>1, <1>6
  <2>2. \A d \in calls : SameRequest(m[d], d)
    BY <1>5, <1>6
  <2> HIDE DEF m
  <2> QED BY <2>1, <2>2 DEF CallsMoved
<1> HIDE DEF m
<1>8. \A c \in calls : /\ m[c].waits = c.waits /\ m[c].mounted = c.mounted
                       /\ IsForm(c) => m[c].at \in {c.at, "failed"}
                       /\ c.at = "ok" => m[c] \in calls' /\ m[c].at = "ok"
  BY <1>1, <1>5, <1>6
<1>9. UnsavedStrays'
  BY <1>1 DEF UnsavedStrays
<1>10. /\ strayed \subseteq strayed' /\ born' \in Nat /\ born' >= born
       /\ DOMAIN rows' \subseteq 1 .. born'
  BY <1>1, <1>2, <1>3
<1> QED BY <1>1, <1>3, <1>4, <1>7, <1>8, <1>9, <1>10, RowsStray

LEMMA SucceedSaves ==
  ASSUME SavesInv, QuietInv, NEW c \in calls, Succeed(c)
  PROVE  SavesInv'
<1> USE DEF SavesInv
<1> DEFINE m == [d \in calls |-> d]
<1>1. /\ UNCHANGED <<tab, rows, born, unsaved, props, held, render>>
      /\ c.at = "ok" /\ calls' = calls \ {c}
      /\ busy' = IF c.mounted THEN busy \ {<<c.control, c.id>>} ELSE busy
  BY DEF Succeed, Release, server
<1>2. CallsMoved(m) /\ \A d \in calls : m[d] = d
  BY <1>1, CallsStay
<1> HIDE DEF m
<1>3. /\ strayed \subseteq strayed'
      /\ \/ UNCHANGED <<editing, form, touched, sound, strayed>> /\
              ~(IsForm(c) /\ c.mounted /\ editing = c.id)
         \/ /\ IsForm(c) /\ editing = c.id /\ tab # "settings" /\ FormSaved(c)
            /\ editing' = 0 /\ touched' = {}
         \/ /\ IsForm(c) /\ editing = c.id /\ tab = "settings" /\ ConfigSaved(c)
            /\ UNCHANGED <<editing, form, sound, strayed>>
  BY DEF Succeed, FormSaved, ConfigSaved, Unmounted, IsForm
<1>4. FormCalls'
  <2>1. ASSUME NEW d \in calls, m[d] \in calls', IsForm(d), d.id \notin strayed'
        PROVE  /\ m[d].mounted /\ m[d].waits
               /\ d.id \in DOMAIN props' /\ <<"form", d.id>> \in busy'
    <3>1. d # c /\ d.id \notin strayed
      BY <1>1, <1>2, <1>3, <2>1
    <3>2. /\ d.mounted /\ d.waits /\ d.id \in DOMAIN props /\ <<"form", d.id>> \in busy
          /\ ~(IsForm(c) /\ c.id = d.id)
      BY <2>1, <3>1 DEF FormCalls
    <3> QED BY <1>1, <1>2, <3>2 DEF IsForm
  <2> QED BY <1>1, <1>2, <1>3, <2>1, FormCallsMoved
<1>5. BodiesRight'
  BY <1>1, <1>2, <1>3, BodiesMoved DEF Quiet
<1>6. RowsShaped' /\ ReadRight' /\ UnsavedStrays'
  BY <1>1, <1>3 DEF RowsShaped, ReadRight, UnsavedStrays, Quiet
<1>7. CASE UNCHANGED <<editing, form, touched, sound, strayed>> /\
             ~(IsForm(c) /\ c.mounted /\ editing = c.id)
  <2>1. FormShaped' /\ HeldRight' /\ EditsKnown'
    BY <1>1, <1>7 DEF FormShaped, HeldRight, EditsKnown, Quiet
  <2>2. Quiet(editing) => ~(IsForm(c) /\ c.id = editing)
    BY <1>7 DEF Quiet, FormCalls
  <2>3. FormRight'
    BY <1>1, <1>7, <2>2 DEF FormRight, Quiet
  <2> QED BY <1>4, <1>5, <1>6, <2>1, <2>3
<1>8. \A d \in calls' : IsForm(d) /\ d.id = c.id /\ IsForm(c) => d.id \in strayed
  BY <1>1 DEF FormCalls
<1>9. CASE /\ IsForm(c) /\ editing = c.id /\ tab # "settings" /\ FormSaved(c)
           /\ editing' = 0 /\ touched' = {}
  <2>1. FormShaped' /\ FormRight'
    BY <1>9 DEF FormShaped, FormRight
  <2>2. EditsKnown'
    BY <1>1, <1>3, <1>8, <1>9 DEF EditsKnown
  <2>3. HeldRight'
    <3> SUFFICES ASSUME NEW id \in DOMAIN props, Quiet(id)'
                 PROVE  held[id]["option"] = Show(tab, rows[id])["option"]
      BY <1>1 DEF HeldRight
    <3>1. Quiet(id)
      BY <1>1, <1>3 DEF Quiet
    <3>2. CASE ~(editing = id /\ "option" \in touched)
      BY <1>9, <3>1, <3>2 DEF HeldRight
    <3>3. CASE editing = id /\ "option" \in touched
      <4>1. "option" \in DOMAIN c.body /\ form["option"] = c.body["option"]
        BY <1>9, <3>3 DEF FormSaved, Quiet
      <4>2. c.body["option"] = rows[id]["option"]
        BY <1>1, <1>9, <3>1, <3>3, <4>1 DEF BodiesRight
      <4>3. held[id]["option"] = form["option"]
        BY <1>9, <3>3 DEF FormShaped, RowsShaped
      <4>4. "option" \in DOMAIN rows[id]
        BY <3>1 DEF RowsShaped, Quiet, Cells
      <4>5. tab = "agents" => rows[id]["option"] # 0
        BY <1>9, <4>1, <4>2 DEF FormCalls
      <4>6. Show(tab, rows[id])["option"] = rows[id]["option"]
        BY <4>4, <4>5, ShowsCell
      <4> QED BY <4>1, <4>2, <4>3, <4>6
    <3> QED BY <3>2, <3>3
  <2> QED BY <1>4, <1>5, <1>6, <2>1, <2>2, <2>3
<1>10. CASE /\ IsForm(c) /\ editing = c.id /\ tab = "settings" /\ ConfigSaved(c)
            /\ UNCHANGED <<editing, form, sound, strayed>>
  <2>1. touched' = {f \in touched : form[f] # c.body[f]}
    BY <1>10 DEF ConfigSaved
  <2>2. FormShaped' /\ HeldRight'
    BY <1>1, <1>10, <2>1 DEF FormShaped, HeldRight
  <2>3. EditsKnown'
    <3>1. \A d \in calls' : IsForm(d) => d.id = c.id
      BY <1>1, <1>10 DEF QuietInv, SettingsInv, FormCalls, Updates
    <3> QED BY <1>1, <1>8, <1>10, <3>1 DEF EditsKnown
  <2>4. FormRight'
    <3> SUFFICES ASSUME sound, Quiet(editing),
                        NEW f \in DOMAIN form \ (touched' \cup {"tools"})
                 PROVE  form[f] = Show(tab, rows[editing])[f]
      BY <1>1, <1>10 DEF FormRight, Quiet
    <3>1. CASE f \in touched
      <4>1. form[f] = c.body[f]
        BY <2>1, <3>1
      <4>2. f \in DOMAIN c.body
        <5>1. DOMAIN c.body = {"name", "option"}
          BY <1>10 DEF FormCalls
        <5>2. editing # 0
          BY DEF Quiet, RowsShaped
        <5>3. DOMAIN form = {"name", "option"}
          BY <1>10, <5>2 DEF FormShaped
        <5> QED BY <5>1, <5>3
      <4>3. c.body[f] = rows[editing][f]
        BY <1>1, <1>10, <4>2 DEF BodiesRight
      <4>4. f \in DOMAIN rows[editing]
        <5>1. f \in Cells
          BY <1>10, <4>2 DEF FormCalls
        <5>2. editing \in DOMAIN rows
          BY DEF Quiet
        <5> QED BY <5>1, <5>2 DEF RowsShaped
      <4>5. Show(tab, rows[editing])[f] = rows[editing][f]
        BY <1>10, <4>4, ShowsCell
      <4> QED BY <4>1, <4>3, <4>5
    <3>2. CASE f \notin touched
      <4>1. editing # 0
        BY <1>10, <1>1 DEF Quiet, RowsShaped
      <4> QED BY <1>10, <3>2, <4>1 DEF FormRight
    <3> QED BY <3>1, <3>2
  <2> QED BY <1>4, <1>5, <1>6, <2>2, <2>3, <2>4
<1> QED BY <1>3, <1>7, <1>9, <1>10

LEMMA FailSaves ==
  ASSUME SavesInv, QuietInv, NEW c \in calls, Fail(c)
  PROVE  SavesInv'
<1> USE DEF SavesInv
<1> DEFINE m == [d \in calls |-> d]
<1>1. /\ UNCHANGED <<tab, rows, born, unsaved, props, held, editing, form, touched, sound, render,
                     strayed>>
      /\ c.at = "failed" /\ calls' = calls \ {c}
      /\ busy' = IF c.mounted THEN busy \ {<<c.control, c.id>>} ELSE busy
  BY DEF Fail, Release, server, client, router
<1>2. CallsMoved(m) /\ \A d \in calls : m[d] = d
  BY <1>1, CallsStay
<1> HIDE DEF m
<1>3. FormCalls'
  <2>1. ASSUME NEW d \in calls, m[d] \in calls', IsForm(d), d.id \notin strayed'
        PROVE  /\ m[d].mounted /\ m[d].waits
               /\ d.id \in DOMAIN props' /\ <<"form", d.id>> \in busy'
    <3>1. d # c /\ d.id \notin strayed
      BY <1>1, <1>2, <2>1
    <3>2. /\ d.mounted /\ d.waits /\ d.id \in DOMAIN props /\ <<"form", d.id>> \in busy
          /\ ~(IsForm(c) /\ c.id = d.id)
      BY <2>1, <3>1 DEF FormCalls
    <3> QED BY <1>1, <1>2, <3>2 DEF IsForm
  <2> QED BY <1>1, <1>2, <2>1, FormCallsMoved
<1>4. BodiesRight'
  BY <1>1, <1>2, BodiesMoved DEF Quiet
<1>5. /\ RowsShaped' /\ ReadRight' /\ UnsavedStrays' /\ FormShaped' /\ HeldRight'
      /\ EditsKnown' /\ FormRight'
  BY <1>1 DEF RowsShaped, ReadRight, UnsavedStrays, FormShaped, HeldRight, EditsKnown,
     FormRight, Quiet
<1> QED BY <1>3, <1>4, <1>5

LEMMA TimeoutSaves ==
  ASSUME SavesInv, QuietInv, NEW c \in calls, Timeout(c)
  PROVE  SavesInv'
<1> USE DEF SavesInv
<1> DEFINE late == [c EXCEPT !.waits = FALSE]
           m == [d \in calls |-> IF d = c THEN late ELSE d]
<1>1. /\ UNCHANGED <<tab, rows, born, unsaved, props, held, editing, form, touched, sound, render>>
      /\ c.at = "server" /\ calls' = (calls \ {c}) \cup {late}
      /\ busy' = IF c.mounted THEN busy \ {<<c.control, c.id>>} ELSE busy
      /\ strayed' = IF Updates(c) THEN strayed \cup {c.id} ELSE strayed
  BY DEF Timeout, Release, server, client, router
<1>2. SameRequest(late, c) /\ late.at = c.at /\ \A d \in calls : SameRequest(d, d)
  <2>1. IsCall(c) /\ \A d \in calls : SameRequest(d, d)
    BY CallsAreRequests
  <2>2. SameRequest(late, c) /\ late.at = c.at
    BY <2>1, RequestUpdates
  <2> QED BY <2>1, <2>2
<1> HIDE DEF late
<1>3. \A d \in calls : m[d] = IF d = c THEN late ELSE d
  OBVIOUS
<1>4. CallsMoved(m)
  <2>1. \A d \in calls' : d \in {m[e] : e \in calls}
    BY <1>1, <1>3
  <2>2. \A d \in calls : SameRequest(m[d], d)
    BY <1>2, <1>3
  <2> HIDE DEF m
  <2> QED BY <2>1, <2>2 DEF CallsMoved
<1> HIDE DEF m
<1>5. IsForm(c) => c.id \in strayed'
  BY <1>1 DEF FormCalls
<1>6. strayed \subseteq strayed'
  BY <1>1
<1>7. FormCalls'
  <2>1. ASSUME NEW d \in calls, m[d] \in calls', IsForm(d), d.id \notin strayed'
        PROVE  /\ m[d].mounted /\ m[d].waits
               /\ d.id \in DOMAIN props' /\ <<"form", d.id>> \in busy'
    <3>1. d # c /\ d.id \notin strayed /\ ~(IsForm(c) /\ c.id = d.id)
      BY <1>5, <1>6, <2>1
    <3>2. d.mounted /\ d.waits /\ d.id \in DOMAIN props /\ <<"form", d.id>> \in busy
      BY <2>1, <3>1 DEF FormCalls
    <3> QED BY <1>1, <1>3, <3>1, <3>2 DEF IsForm
  <2> QED BY <1>1, <1>4, <1>6, <2>1, FormCallsMoved
<1>8. BodiesRight'
  <2>1. \A d \in calls : IsForm(d) => m[d].at \in {d.at, "failed"}
    BY <1>2, <1>3
  <2> QED BY <1>1, <1>4, <1>6, <2>1, BodiesMoved DEF Quiet
<1>9. RowsShaped' /\ ReadRight' /\ UnsavedStrays' /\ FormShaped' /\ HeldRight'
  BY <1>1, <1>6 DEF RowsShaped, ReadRight, UnsavedStrays, FormShaped, HeldRight, Quiet
<1>10. FormRight'
  BY <1>1, <1>6 DEF FormRight, Quiet
<1>11. EditsKnown'
  <2>1. \A d \in calls' : IsForm(d) /\ d.id \notin strayed' => d \in calls /\ d.id \notin strayed
    BY <1>1, <1>2, <1>5, <1>6 DEF SameRequest, IsForm
  <2> QED BY <1>1, <2>1 DEF EditsKnown
<1> QED BY <1>7, <1>8, <1>9, <1>10, <1>11

LEMMA ReadSaves ==
  ASSUME SavesInv, QuietInv, ReadRows
  PROVE  SavesInv'
<1> USE DEF SavesInv
<1>1. /\ UNCHANGED <<tab, rows, born, unsaved, props, held, editing, form, touched, sound, busy,
                     calls, strayed>>
      /\ render' \in {<<ShowAll(tab, rows)>>, <<Nothing>>}
  BY ListedShows DEF ReadRows, server, client
<1>2. render' # <<>> /\ (render'[1] = ShowAll(tab, rows) \/ DOMAIN render'[1] = {})
  BY <1>1 DEF Nothing
<1>3. tab = "settings" => DOMAIN rows = {1}
  BY DEF QuietInv, SettingsInv
<1>4. RowsShaped' /\ ReadRight'
  <2>1. /\ DOMAIN ShowAll(tab, rows) = DOMAIN rows
        /\ \A id \in DOMAIN rows : /\ ShowAll(tab, rows)[id] = Show(tab, rows[id])
                                   /\ DOMAIN Show(tab, rows[id]) = DOMAIN rows[id]
    BY DEF ShowAll, Show
  <2> QED BY <1>1, <1>2, <1>3, <2>1 DEF RowsShaped, ReadRight
<1>5. /\ FormShaped' /\ FormCalls' /\ HeldRight' /\ FormRight' /\ BodiesRight' /\ EditsKnown'
      /\ UnsavedStrays'
  BY <1>1 DEF FormShaped, FormCalls, HeldRight, FormRight, BodiesRight, EditsKnown,
     UnsavedStrays, Quiet
<1> QED BY <1>4, <1>5

LEMMA RerenderSaves ==
  ASSUME SavesInv, QuietInv, Rerender
  PROVE  SavesInv'
<1> USE DEF SavesInv
<1> DEFINE next == render[1]
           gone == DOMAIN props \ DOMAIN next
           new  == DOMAIN next \ DOMAIN props
           Kept(c) == IF c.id \in gone THEN [c EXCEPT !.mounted = FALSE] ELSE c
           m == [c \in calls |-> Kept(c)]
<1>1. /\ render # <<>> /\ render' = <<>>
      /\ props' = next
      /\ held' = [i \in DOMAIN next |-> IF i \in new THEN next[i] ELSE held[i]]
      /\ busy' = {b \in busy : b[2] \notin gone}
      /\ calls' = {Kept(c) : c \in calls}
      /\ strayed' = strayed \cup {c.id : c \in {c \in calls : c.id \in gone}}
      /\ UNCHANGED <<tab, rows, born, unsaved>>
  BY DEF Rerender, server
<1>2. \/ editing \in gone /\ editing' = 0 /\ touched' = {}
      \/ /\ editing \notin gone /\ tab = "settings" /\ new # {}
         /\ editing' = 1 /\ form' = ConfigForm(next[1]) /\ touched' = {}
         /\ sound' = (next = rows)
      \/ /\ editing \notin gone /\ ~(tab = "settings" /\ new # {})
         /\ UNCHANGED <<editing, form, touched, sound>>
  BY DEF Rerender, Unmounted
<1>3. \A c \in calls : /\ SameRequest(Kept(c), c) /\ Kept(c).at = c.at
                       /\ c.id \notin gone => Kept(c) = c
  <2> TAKE c \in calls
  <2>1. IsCall(c)
    BY DEF QuietInv, HealInv
  <2> QED BY <2>1, RequestUpdates
<1> HIDE DEF Kept
<1>4. \A c \in calls : m[c] = Kept(c)
  OBVIOUS
<1>5. CallsMoved(m)
  <2>1. \A d \in calls' : d \in {m[e] : e \in calls}
    BY <1>1, <1>4
  <2>2. \A d \in calls : SameRequest(m[d], d)
    BY <1>3, <1>4
  <2> HIDE DEF m
  <2> QED BY <2>1, <2>2 DEF CallsMoved
<1> HIDE DEF m
<1>6. /\ strayed \subseteq strayed'
      /\ \A c \in calls : c.id \in gone => c.id \in strayed'
  BY <1>1
<1>7. /\ DOMAIN next \subseteq 1 .. born /\ born \in Nat
      /\ \A id \in DOMAIN next : Cells \subseteq DOMAIN next[id]
      /\ DOMAIN held = DOMAIN props /\ DOMAIN props \subseteq 1 .. born
      /\ \A id \in DOMAIN held : Cells \subseteq DOMAIN held[id]
      /\ tab = "settings" => DOMAIN next \subseteq {1}
  BY <1>1 DEF RowsShaped
<1>8. RowsShaped'
  BY <1>1, <1>7 DEF RowsShaped
<1>9. FormShaped'
  <2>1. CASE editing' = 0 /\ touched' = {}
    BY <1>1, <2>1 DEF FormShaped
  <2>2. CASE /\ tab = "settings" /\ new # {}
             /\ editing' = 1 /\ form' = ConfigForm(next[1]) /\ touched' = {}
    <3>1. 1 \in DOMAIN next
      BY <1>7, <2>2
    <3>2. DOMAIN form' = {"name", "option"}
      BY <2>2 DEF ConfigForm
    <3> QED BY <1>1, <2>2, <3>1, <3>2 DEF FormShaped
  <2>3. CASE editing \notin gone /\ UNCHANGED <<editing, form, touched, sound>>
    <3>1. editing # 0 => editing \in DOMAIN next /\ held'[editing] = held[editing]
      BY <1>1, <2>3 DEF FormShaped
    <3> QED BY <1>1, <2>3, <3>1 DEF FormShaped
  <2> QED BY <1>2, <2>1, <2>2, <2>3
<1>10. FormCalls'
  <2>1. ASSUME NEW d \in calls, m[d] \in calls', IsForm(d), d.id \notin strayed'
        PROVE  /\ m[d].mounted /\ m[d].waits
               /\ d.id \in DOMAIN props' /\ <<"form", d.id>> \in busy'
    <3>1. d.id \notin gone /\ d.id \notin strayed /\ m[d] = d
      BY <1>3, <1>4, <1>6, <2>1
    <3>2. d.mounted /\ d.waits /\ d.id \in DOMAIN props /\ <<"form", d.id>> \in busy
      BY <2>1, <3>1 DEF FormCalls
    <3> QED BY <1>1, <3>1, <3>2
  <2> QED BY <1>1, <1>5, <1>6, <2>1, FormCallsMoved
<1>11. BodiesRight'
  <2>1. \A d \in calls : IsForm(d) => m[d].at \in {d.at, "failed"}
    BY <1>3, <1>4
  <2> QED BY <1>1, <1>5, <1>6, <2>1, BodiesMoved DEF Quiet
<1>12. ReadRight' /\ UnsavedStrays'
  BY <1>1, <1>6 DEF ReadRight, UnsavedStrays
<1>13. HeldRight'
  <2> SUFFICES ASSUME tab # "settings", NEW id \in DOMAIN next, Quiet(id)',
                      ~(editing' = id /\ "option" \in touched')
               PROVE  held'[id]["option"] = Show(tab, rows[id])["option"]
    BY <1>1 DEF HeldRight
  <2>1. Quiet(id) /\ id # 0
    BY <1>1, <1>6, <1>7 DEF Quiet
  <2>2. CASE id \in new
    <3>1. held'[id] = next[id]
      BY <1>1, <2>2
    <3>2. next[id] = Show(tab, rows[id])
      BY <1>1, <2>1, <2>2 DEF ReadRight
    <3> QED BY <3>1, <3>2
  <2>3. CASE id \notin new
    <3>1. held'[id] = held[id] /\ id \in DOMAIN props
      BY <1>1, <2>3
    <3>2. ~(editing = id /\ "option" \in touched)
      BY <1>2
    <3> QED BY <2>1, <3>1, <3>2 DEF HeldRight
  <2> QED BY <2>2, <2>3
<1>14. FormRight'
  <2>1. CASE editing' = 0
    BY <2>1 DEF FormRight
  <2>2. CASE /\ tab = "settings" /\ new # {}
             /\ editing' = 1 /\ form' = ConfigForm(next[1]) /\ touched' = {}
             /\ sound' = (next = rows)
    <3>1. DOMAIN form' = {"name", "option"}
          /\ form'["name"] = next[1]["name"] /\ form'["option"] = next[1]["option"]
      BY <2>2 DEF ConfigForm
    <3>2. ASSUME next = rows, Quiet(1), NEW f \in {"name", "option"}
          PROVE  next[1][f] = Show(tab, rows[1])[f]
      <4>1. f \in DOMAIN rows[1]
        BY <3>2 DEF RowsShaped, Quiet, Cells
      <4> QED BY <2>2, <3>2, <4>1, ShowsCell
    <3>3. Quiet(editing)' => Quiet(1)
      BY <1>1, <1>6, <2>2 DEF Quiet
    <3> QED BY <1>1, <2>2, <3>1, <3>2, <3>3 DEF FormRight
  <2>3. CASE editing \notin gone /\ UNCHANGED <<editing, form, touched, sound>>
    <3> SUFFICES ASSUME editing # 0, sound, Quiet(editing)',
                        tab = "settings" \/
                          \A d \in calls' : IsForm(d) /\ d.id = editing => d.at # "ok"
                 PROVE  \A f \in DOMAIN form \ (touched \cup {"tools"}) :
                          form[f] = Show(tab, rows[editing])[f]
      BY <1>1, <2>3 DEF FormRight
    <3>1. Quiet(editing)
      BY <1>1, <1>6, <2>3 DEF Quiet
    <3>2. \A c \in calls : IsForm(c) /\ c.id = editing => c \in calls'
      BY <1>1, <1>3, <2>3
    <3> QED BY <3>1, <3>2 DEF FormRight
  <2> QED BY <1>2, <2>1, <2>2, <2>3
<1>15. EditsKnown'
  <2> SUFFICES ASSUME NEW d \in calls', IsForm(d), d.id \notin strayed'
               PROVE  /\ tab # "settings" /\ d.at # "failed" /\ "option" \in d.touched =>
                           editing' = d.id /\ "option" \in touched'
                      /\ tab = "settings" =>
                           /\ d.sound <=> sound'
                           /\ d.at = "server" => d.touched \subseteq touched'
    BY <1>1 DEF EditsKnown
  <2>1. d \in calls /\ d.id \notin gone /\ d.id \notin strayed
    <3>1. PICK c \in calls : d = Kept(c)
      BY <1>1
    <3>2. c.id = d.id
      BY <1>3, <3>1 DEF SameRequest
    <3> QED BY <1>3, <1>6, <3>1, <3>2
  <2>2. d.id \in DOMAIN props
    BY <2>1 DEF FormCalls
  <2>3. CASE tab # "settings"
    BY <1>2, <2>1, <2>3 DEF EditsKnown
  <2>4. CASE tab = "settings"
    <3>1. d.id = 1
      BY <2>1, <2>4 DEF QuietInv, SettingsInv, FormCalls, Updates
    <3>2. new = {}
      BY <1>7, <2>2, <2>4, <3>1
    <3>3. editing \notin gone
      BY <1>7, <2>1, <2>2, <2>4, <3>1 DEF QuietInv, SettingsInv
    <3>4. UNCHANGED <<touched, sound>>
      BY <1>2, <3>2, <3>3
    <3> QED BY <2>1, <2>4, <3>4 DEF EditsKnown
  <2> QED BY <2>3, <2>4
<1> QED BY <1>8, <1>9, <1>10, <1>11, <1>12, <1>13, <1>14, <1>15

LEMMA SavesStep == SavesInv /\ QuietInv /\ [PageNext]_pageVars => SavesInv'
<1> SUFFICES ASSUME SavesInv, QuietInv, [PageNext]_pageVars PROVE SavesInv'
  OBVIOUS
<1>1. CASE UNCHANGED pageVars
  <2>1. UNCHANGED <<tab, rows, born, unsaved, props, held, editing, form, touched, sound, busy,
                    calls, render, strayed>>
    BY <1>1 DEF pageVars, server, client, router
  <2> QED BY <2>1 DEF SavesInv, RowsShaped, FormShaped, FormCalls, ReadRight, HeldRight,
             FormRight, BodiesRight, EditsKnown, UnsavedStrays, Quiet
<1>2. CASE PageNext
  BY <1>2, TypeSaves, CloseSaves, OpenSaves, RequestSaves, ServeSaves, SucceedSaves, FailSaves,
     TimeoutSaves, ElsewhereSaves, RestartSaves, ReadSaves, RerenderSaves DEF PageNext, Requests
<1> QED BY <1>1, <1>2

(* Saving a form leaves the row as it is, or gives the cells its user has   *)
(* left alone what the page shows of them: what they hold, but for an agent *)
(* without a backend of its own, which is given the name of the default's   *)
(* (the forms of agents, crons and the configuration, and their routes).    *)
THEOREM SavesCorrect == DashSpec => SavesKeepTheRest
<1> DEFINE Inv == QuietInv /\ SavesInv
           Kept(c) ==
             c.control = "form" /\ c.sound
               /\ c.id \notin strayed \cup (DOMAIN rows \ DOMAIN rows') =>
               \/ rows'[c.id] = rows[c.id]
               \/ \A f \in Cells \ (c.touched \cup {"tools"}) :
                    rows'[c.id][f] = Listed(rows[c.id])[f]
<1>1. DashInit => Inv
  <2> SUFFICES ASSUME DashInit PROVE Inv
    OBVIOUS
  <2>1. QuietInv
    BY QuietInitially
  <2> DEFINE first == IF tab = "agents" THEN NewAgent ELSE FirstRow
  <2>2. /\ born = 1 /\ rows = [i \in {1} |-> first]
        /\ props = ShowAll(tab, rows) /\ held = props
        /\ calls = {} /\ render = <<>> /\ touched = {} /\ ~unsaved
        /\ DOMAIN first = Cells
    BY ListedShows DEF DashInit, PageInit, FirstRow, NewAgent
  <2> HIDE DEF first
  <2>3. \/ tab # "settings" /\ editing = 0
        \/ /\ tab = "settings" /\ editing = 1 /\ form = ConfigForm(FirstRow)
           /\ rows = [i \in {1} |-> FirstRow]
    BY DEF DashInit, PageInit
  <2>4. /\ props = [i \in {1} |-> Show(tab, first)] /\ rows[1] = first
        /\ DOMAIN Show(tab, first) = Cells
    BY <2>2 DEF ShowAll, Show
  <2>5. RowsShaped /\ FormCalls /\ ReadRight /\ HeldRight /\ BodiesRight /\ EditsKnown
          /\ UnsavedStrays
    BY <2>2, <2>4 DEF RowsShaped, FormCalls, ReadRight, HeldRight, BodiesRight, EditsKnown,
       UnsavedStrays
  <2>6. FormShaped /\ FormRight
    <3>1. CASE tab # "settings" /\ editing = 0
      BY <2>2, <3>1 DEF FormShaped, FormRight
    <3>2. CASE /\ tab = "settings" /\ editing = 1 /\ form = ConfigForm(FirstRow)
               /\ rows = [i \in {1} |-> FirstRow]
      <4>1. /\ DOMAIN form = {"name", "option"} /\ {"name", "option"} \subseteq DOMAIN FirstRow
            /\ \A f \in {"name", "option"} : form[f] = FirstRow[f]
        BY <3>2 DEF ConfigForm, FirstRow, Cells
      <4>2. \A f \in {"name", "option"} : Show(tab, rows[1])[f] = FirstRow[f]
        BY <3>2, <4>1, ShowsCell
      <4> QED BY <2>2, <2>4, <3>2, <4>1, <4>2 DEF FormShaped, FormRight
    <3> QED BY <2>3, <3>1, <3>2
  <2> QED BY <2>1, <2>5, <2>6 DEF SavesInv
<1>2. Inv /\ [DashNext]_dashVars => Inv'
  <2>1. [DashNext]_dashVars => [PageNext]_pageVars
    BY DEF DashNext, dashVars
  <2> QED BY <2>1, PageStep, SavesStep
<1>3. ASSUME Inv, [PageNext]_pageVars, NEW c \in calls \ calls' PROVE Kept(c)
  <2> SUFFICES ASSUME IsForm(c), c.sound, c.id \notin strayed,
                      c.id \notin DOMAIN rows \ DOMAIN rows',
                      rows'[c.id] # rows[c.id],
                      NEW f \in Cells \ (c.touched \cup {"tools"})
               PROVE  rows'[c.id][f] = Listed(rows[c.id])[f]
    BY DEF IsForm
  <2>1. CASE rows' = rows
    BY <2>1
  <2>2. ASSUME NEW d \in calls, NEW ok \in BOOLEAN, Serve(d, ok), rows' # rows
        PROVE  rows'[c.id][f] = Listed(rows[c.id])[f]
    <3>1. d = c /\ c.at = "server"
      BY <1>3, <2>2 DEF Serve
    <3>2. Updates(c) /\ ~Creates(c) /\ ~Deletes(c)
      BY <1>3 DEF SavesInv, FormCalls, Updates, Creates, Deletes
    <3>3. rows' \in {Applied(c), Without(c.id)}
      BY <1>3, <2>2, <3>1 DEF Serve, SavesInv, FormCalls, AgentRoutes, CronRoutes,
         SessionRoutes, ConfigRoutes
    <3>4. rows = [id \in DOMAIN rows |-> rows[id]] /\ 0 \notin DOMAIN rows
      BY <1>3 DEF SavesInv, RowsShaped
    <3>5. c.id \in DOMAIN rows
      <4>1. c.id \notin DOMAIN rows => Without(c.id) = rows
        BY <3>4 DEF Without
      <4>2. c.id \notin DOMAIN rows => Applied(c) = rows
        <5>1. CASE Missing(c)
          BY <3>2, <5>1 DEF Applied
        <5>2. CASE c.id = 0
          BY <3>2, <3>4, <5>2 DEF Applied, Missing
        <5> QED BY <5>1, <5>2 DEF Missing
      <4> QED BY <2>2, <3>3, <4>1, <4>2
    <3>6. rows' = [rows EXCEPT ![c.id] = Override(@, c.body)]
      <4>1. rows' # Without(c.id)
        BY <3>5 DEF Without
      <4> QED BY <3>2, <3>3, <3>5, <4>1 DEF Applied, Missing
    <3>7. Cells \subseteq DOMAIN rows[c.id]
      BY <1>3, <3>5 DEF SavesInv, RowsShaped
    <3>8. rows'[c.id][f] = IF f \in DOMAIN c.body THEN c.body[f] ELSE rows[c.id][f]
      BY <3>5, <3>6, <3>7 DEF Override
    <3>9. f \in DOMAIN c.body /\ c.body[f] = Show(tab, rows[c.id])[f]
      <4>1. f \in {"name", "option"} \ c.touched
        BY DEF Cells
      <4> QED BY <1>3, <3>1, <3>5, <4>1 DEF SavesInv, BodiesRight, Quiet
    <3> QED BY <3>8, <3>9, ListedShows
  <2>3. CASE ServerRestarts /\ rows' # rows
    <3>1. tab = "settings" /\ rows' = [i \in {1} |-> AtBoot]
      BY <2>3 DEF ServerRestarts
    <3>2. c.id = 1
      BY <1>3, <3>1 DEF QuietInv, SettingsInv, SavesInv, FormCalls, Updates
    <3>3. rows[1] = AtBoot
      BY <1>3, <3>1, <3>2 DEF QuietInv, SettingsInv, SavesInv, UnsavedStrays
    <3> QED BY <3>1, <3>2, <3>3
  <2>4. CASE Elsewhere
    BY <1>3, <2>4 DEF Elsewhere
  <2>5. \/ rows' = rows \/ Elsewhere \/ ServerRestarts
        \/ \E d \in calls, ok \in BOOLEAN : Serve(d, ok)
    <3>1. ASSUME UNCHANGED pageVars PROVE rows' = rows
      BY <3>1 DEF pageVars, server
    <3>2. ASSUME Requests PROVE rows' = rows
      BY <1>3, <3>2, RequestShape DEF Request, server
    <3>3. ASSUME NEW g \in Cells, Type(g) PROVE rows' = rows
      BY <3>3 DEF Type, server
    <3>4. ASSUME NEW id \in DOMAIN props, OpenAgentForm(id) \/ OpenCronForm(id)
          PROVE  rows' = rows
      BY <3>4 DEF OpenAgentForm, OpenCronForm, OpenForm, server
    <3>5. ASSUME NEW d \in calls, Succeed(d) \/ Fail(d) \/ Timeout(d) PROVE rows' = rows
      BY <3>5 DEF Succeed, Fail, Timeout, server
    <3>6. ASSUME CloseForm \/ ReadRows \/ Rerender PROVE rows' = rows
      BY <3>6 DEF CloseForm, ReadRows, Rerender, server
    <3> QED BY <1>3, <3>1, <3>2, <3>3, <3>4, <3>5, <3>6 DEF PageNext, Requests
  <2> QED BY <2>1, <2>2, <2>3, <2>4, <2>5
<1>4. Inv /\ [DashNext]_dashVars => [\A c \in calls \ calls' : Kept(c)]_pageVars
  <2>1. [DashNext]_dashVars => [PageNext]_pageVars
    BY DEF DashNext, dashVars
  <2> HIDE DEF Kept, Inv
  <2> QED BY <1>3, <2>1
<1> QED BY <1>1, <1>2, <1>4, PTL DEF DashSpec, SavesKeepTheRest

-----------------------------------------------------------------------------
(***************************************************************************)
(* The rate limiter.                                                       *)
(***************************************************************************)
AskedBy(a) == {r \in log : r.addr = a}
Admitted(a) == {r \in log : r.addr = a /\ r.ok}

(* Requests since the window began that ends at `end`, and those before.   *)
Within(s, end) == {r \in s : r.at + Window >= end}
Before(s, end) == {r \in s : r.at + Window < end}

IsLive(a) == a \in DOMAIN store /\ ~Expired(store[a])

LogTyped ==
  /\ now \in Nat /\ requests \in Nat /\ IsFiniteSet(log)
  /\ \A r \in log : /\ r.num \in Nat /\ r.num <= requests
                    /\ r.at \in Nat /\ r.at <= now /\ now < r.at + Window

Entry == [count : Nat \ {0}, resetAt : Nat, born : Nat]

StoreTyped == \A a \in DOMAIN store : store[a] \in Entry /\ store[a].resetAt <= now + Window

(* An entry counts requests that are still in the log, ... *)
CountsReal ==
  \A a \in DOMAIN store : IsLive(a) =>
    store[a].count <= Cardinality(Within(AskedBy(a), store[a].resetAt))

RefusedLate ==
  \A r \in log : r.at = now /\ ~r.ok =>
    MaxRequests <= Cardinality({q \in AskedBy(r.addr) : q.num < r.num})

(* ... all that were admitted since its window began, the first of them     *)
(* just then.  Of what was admitted before, and of what is left when it has *)
(* expired, there is less than one window may admit.                        *)
WindowKept(a, e) ==
  /\ Cardinality(Before(Admitted(a), e.resetAt)) < MaxRequests
  /\ Cardinality(Within(Admitted(a), e.resetAt)) <= MaxRequests
  /\ Cardinality(Within(Admitted(a), e.resetAt)) <= e.count
  /\ \E r \in Admitted(a) : r.at + Window = e.resetAt

WindowOver(a) ==
  /\ Cardinality(Admitted(a)) < MaxRequests
  /\ \A r \in AskedBy(a) : r.at < now

WindowsKept ==
  \A a \in Addrs \ forced : IF IsLive(a) THEN WindowKept(a, store[a]) ELSE WindowOver(a)

LimitInv == LogTyped /\ StoreTyped /\ CountsReal /\ RefusedLate /\ WindowsKept

(* A request added to a finite set, and a smaller set. *)
LEMMA SizeOfSets ==
  ASSUME NEW S, IsFiniteSet(S)
  PROVE  /\ Cardinality(S) \in Nat
         /\ \A e : e \notin S => /\ IsFiniteSet(S \cup {e})
                                 /\ Cardinality(S \cup {e}) = Cardinality(S) + 1
         /\ \A T : T \subseteq S => /\ IsFiniteSet(T) /\ Cardinality(T) \in Nat
                                    /\ Cardinality(T) <= Cardinality(S)
<1>1. Cardinality(S) \in Nat
  BY FS_CardinalityType
<1>2. ASSUME NEW e, e \notin S
      PROVE  IsFiniteSet(S \cup {e}) /\ Cardinality(S \cup {e}) = Cardinality(S) + 1
  BY <1>2, FS_AddElement
<1>3. ASSUME NEW T, T \subseteq S
      PROVE  IsFiniteSet(T) /\ Cardinality(T) \in Nat /\ Cardinality(T) <= Cardinality(S)
  BY <1>3, FS_Subset, FS_CardinalityType
<1> QED BY <1>1, <1>2, <1>3

(* What a check does to the entries: of those with the new count, it keeps  *)
(* the unexpired ones, but for those it then lists as forced out.           *)
LEMMA CheckStore ==
  ASSUME NEW a, Check(a)
  PROVE  /\ DOMAIN store' \subseteq DOMAIN store \cup {a}
         /\ \A b \in DOMAIN store' : store'[b] = IF b = a THEN Counted(a) ELSE store[b]
         /\ \A b \in DOMAIN store \cup {a} :
              ~Expired(IF b = a THEN Counted(a) ELSE store[b]) =>
                b \in DOMAIN store' \/ b \in forced'
         /\ forced \subseteq forced'
<1> DEFINE all == Put(a)
<1>1. /\ DOMAIN all = DOMAIN store \cup {a}
      /\ \A b \in DOMAIN all : all[b] = IF b = a THEN Counted(a) ELSE store[b]
  BY DEF Put
<1>2. /\ store' \in {Evict(all), Unexpired(all), all}
      /\ forced' = forced \cup (DOMAIN Unexpired(all) \ DOMAIN store')
  BY DEF Check
<1> HIDE DEF all
<1> DEFINE live == {b \in DOMAIN all : ~Expired(all[b])}
<1>3. DOMAIN Unexpired(all) = live /\ \A b \in live : Unexpired(all)[b] = all[b]
  BY DEF Unexpired, Restrict
<1>4. /\ DOMAIN Evict(all) \subseteq live
      /\ \A b \in DOMAIN Evict(all) : Evict(all)[b] = Unexpired(all)[b]
  BY <1>3 DEF Evict, Restrict
<1>5. /\ DOMAIN store' \subseteq DOMAIN all
      /\ \A b \in DOMAIN store' : store'[b] = all[b]
  <2>1. CASE store' = Evict(all)
    BY <2>1, <1>3, <1>4
  <2>2. CASE store' = Unexpired(all)
    BY <2>2, <1>3
  <2>3. CASE store' = all
    BY <2>3
  <2> QED BY <1>2, <2>1, <2>2, <2>3
<1>6. \A b \in live : b \in DOMAIN store' \/ b \in forced'
  BY <1>2, <1>3
<1> QED BY <1>1, <1>2, <1>5, <1>6

(* The new count. *)
LEMMA CountedEntry ==
  ASSUME StoreTyped, LogTyped, NEW a
  PROVE  /\ Counted(a) \in Entry
         /\ now < Counted(a).resetAt /\ Counted(a).resetAt <= now + Window
         /\ IsLive(a) => /\ Counted(a).count = store[a].count + 1
                         /\ Counted(a).resetAt = store[a].resetAt
         /\ ~IsLive(a) => Counted(a).count = 1 /\ Counted(a).resetAt = now + Window
<1>1. now \in Nat /\ requests \in Nat /\ Window \in Nat \ {0}
  BY LimitAssumption DEF LogTyped
<1>2. CASE a \notin DOMAIN store
  <2>1. Counted(a) = [count |-> 1, resetAt |-> now + Window, born |-> requests + 1]
    BY <1>2 DEF Counted
  <2> QED BY <1>1, <1>2, <2>1 DEF Entry, IsLive
<1>3. CASE a \in DOMAIN store
  <2>1. /\ store[a] \in Entry /\ store[a].resetAt \in Nat /\ store[a].count \in Nat \ {0}
        /\ store[a].resetAt <= now + Window
    BY <1>3 DEF StoreTyped, Entry
  <2>2. CASE Expired(store[a])
    <3>1. Counted(a) = [count |-> 1, resetAt |-> now + Window, born |-> store[a].born]
      BY <1>3, <2>2 DEF Counted
    <3>2. store[a].born \in Nat
      BY <2>1 DEF Entry
    <3> QED BY <1>1, <2>2, <3>1, <3>2 DEF Entry, IsLive
  <2>3. CASE ~Expired(store[a])
    <3>1. Counted(a) = [store[a] EXCEPT !.count = @ + 1]
      BY <1>3, <2>3 DEF Counted
    <3>2. now < store[a].resetAt
      BY <1>1, <2>1, <2>3 DEF Expired
    <3> QED BY <1>1, <1>3, <2>1, <2>3, <3>1, <3>2 DEF Entry, IsLive
  <2> QED BY <2>2, <2>3
<1> QED BY <1>2, <1>3

(* A check enters one request in the log. *)
LEMMA CheckLog ==
  ASSUME LogTyped, NEW a, Check(a)
  PROVE  /\ LogTyped'
         /\ \E new : /\ new \notin log /\ log' = log \cup {new}
                     /\ new.addr = a /\ new.at = now /\ new.ok = Allowed(a)
                     /\ \A r \in log : r.num < new.num
<1> DEFINE new == [num |-> requests + 1, addr |-> a, at |-> now, ok |-> Allowed(a)]
<1>1. log' = log \cup {new} /\ requests' = requests + 1 /\ now' = now
  BY DEF Check
<1>2. /\ new.num = requests + 1 /\ new.addr = a /\ new.at = now /\ new.ok = Allowed(a)
  OBVIOUS
<1>3. \A r \in log : r.num < new.num
  BY <1>2 DEF LogTyped
<1> HIDE DEF new
<1>4. new \notin log
  BY <1>2, <1>3 DEF LogTyped
<1>5. IsFiniteSet(log')
  BY <1>1, SizeOfSets, <1>4 DEF LogTyped
<1>6. ASSUME NEW r \in log'
      PROVE  /\ r.num \in Nat /\ r.num <= requests' /\ r.at \in Nat /\ r.at <= now'
             /\ now' < r.at + Window
  <2>1. CASE r = new
    BY <1>1, <1>2, <2>1, LimitAssumption DEF LogTyped
  <2>2. CASE r \in log
    BY <1>1, <2>2 DEF LogTyped
  <2> QED BY <1>1, <2>1, <2>2
<1>7. LogTyped'
  BY <1>1, <1>5, <1>6 DEF LogTyped
<1> QED BY <1>1, <1>2, <1>3, <1>4, <1>7

LEMMA CheckStep ==
  ASSUME LimitInv, NEW a \in Addrs, Check(a)
  PROVE  LimitInv'
<1> DEFINE e == Counted(a)
<1>1. /\ Window \in Nat \ {0} /\ MaxRequests \in Nat \ {0} /\ now' = now /\ now \in Nat
      /\ LogTyped' /\ IsFiniteSet(log) /\ IsFiniteSet(log')
  BY LimitAssumption, CheckLog DEF Check, LimitInv, LogTyped
<1>2. PICK new : /\ new \notin log /\ log' = log \cup {new}
                 /\ new.addr = a /\ new.at = now /\ new.ok = Allowed(a)
                 /\ \A r \in log : r.num < new.num
  BY CheckLog DEF LimitInv
<1>3. /\ DOMAIN store' \subseteq DOMAIN store \cup {a}
      /\ \A b \in DOMAIN store' : store'[b] = IF b = a THEN e ELSE store[b]
      /\ \A b \in DOMAIN store \cup {a} :
           ~Expired(IF b = a THEN e ELSE store[b]) => b \in DOMAIN store' \/ b \in forced'
      /\ forced \subseteq forced'
  BY CheckStore
<1>4. /\ e \in Entry /\ e.count \in Nat \ {0} /\ e.resetAt \in Nat
      /\ now < e.resetAt /\ e.resetAt <= now + Window
      /\ IsLive(a) => e.count = store[a].count + 1 /\ e.resetAt = store[a].resetAt
      /\ ~IsLive(a) => e.count = 1 /\ e.resetAt = now + Window
  BY CountedEntry DEF LimitInv, Entry
<1>5. Allowed(a) <=> e.count <= MaxRequests
  BY DEF Allowed
<1> HIDE DEF e
<1>6. ~Expired(e) /\ ~(now' >= e.resetAt) /\ new.at + Window >= e.resetAt
  BY <1>1, <1>2, <1>4 DEF Expired
<1>7. StoreTyped'
  <2>1. ASSUME NEW b \in DOMAIN store'
        PROVE  store'[b] \in Entry /\ store'[b].resetAt <= now' + Window
    BY <1>1, <1>3, <1>4, <2>1 DEF LimitInv, StoreTyped
  <2> QED BY <2>1 DEF StoreTyped
(* The requests of the others are what they were. *)
<1>8. /\ AskedBy(a)' = AskedBy(a) \cup {new} /\ new \notin AskedBy(a)
      /\ Admitted(a)' = IF Allowed(a) THEN Admitted(a) \cup {new} ELSE Admitted(a)
      /\ new \notin Admitted(a)
      /\ \A b : b # a => AskedBy(b)' = AskedBy(b) /\ Admitted(b)' = Admitted(b)
  BY <1>2 DEF AskedBy, Admitted
<1>9. ASSUME NEW b \in Addrs, b # a
      PROVE  /\ IsLive(b)' => IsLive(b) /\ store'[b] = store[b]
             /\ IsLive(b) => IsLive(b)' \/ b \in forced'
  BY <1>1, <1>3, <1>9 DEF IsLive, Expired
<1>10. IsLive(a)' => store'[a] = e
  BY <1>3 DEF IsLive
<1>11. IsLive(a)' \/ a \in forced'
  BY <1>1, <1>3, <1>6 DEF IsLive, Expired
<1>12. ASSUME NEW T, T \subseteq log \/ T \subseteq log'
       PROVE IsFiniteSet(T) /\ Cardinality(T) \in Nat
  BY <1>1, <1>12, SizeOfSets
<1>13. IsLive(a) => /\ store[a].count \in Nat
                    /\ store[a].count <= Cardinality(Within(AskedBy(a), e.resetAt))
  BY <1>4 DEF LimitInv, StoreTyped, CountsReal, IsLive, Entry
<1>14. CountsReal'
  <2>1. SUFFICES ASSUME NEW b \in DOMAIN store', IsLive(b)'
                 PROVE  store'[b].count <= Cardinality(Within(AskedBy(b)', store'[b].resetAt))
    BY DEF CountsReal, Within
  <2>2. CASE b # a
    <3>1. IsLive(b) /\ store'[b] = store[b] /\ AskedBy(b)' = AskedBy(b)
      BY <1>1, <1>3, <1>8, <2>1, <2>2 DEF IsLive, Expired
    <3> QED BY <3>1 DEF LimitInv, CountsReal, IsLive
  <2>3. CASE b = a
    <3> DEFINE old == Within(AskedBy(a), e.resetAt)
    <3>1. Within(AskedBy(a)', e.resetAt) = old \cup {new} /\ new \notin old /\ old \subseteq log
      BY <1>6, <1>8 DEF Within, AskedBy
    <3> HIDE DEF old
    <3>2. /\ Cardinality(old) \in Nat
          /\ Cardinality(old \cup {new}) = Cardinality(old) + 1
      BY <1>12, <3>1, SizeOfSets
    <3>3. e.count <= Cardinality(old) + 1
      BY <1>4, <1>13, <3>2 DEF old
    <3> QED BY <1>10, <2>1, <2>3, <3>1, <3>2, <3>3
  <2> QED BY <2>2, <2>3
<1>15. RefusedLate'
  <2>1. SUFFICES ASSUME NEW r \in log', r.at = now, ~r.ok
                 PROVE  MaxRequests <= Cardinality({q \in AskedBy(r.addr)' : q.num < r.num})
    BY <1>1 DEF RefusedLate
  <2> DEFINE ahead == {q \in AskedBy(r.addr)' : q.num < r.num}
  <2>2. IsFiniteSet(ahead) /\ Cardinality(ahead) \in Nat
    BY <1>12 DEF AskedBy
  <2>3. CASE r = new
    <3> DEFINE old == Within(AskedBy(a), e.resetAt)
    <3>1. MaxRequests < e.count
      BY <1>1, <1>2, <1>4, <1>5, <2>1, <2>3
    <3>2. IsLive(a) /\ e.count = store[a].count + 1
      BY <1>1, <1>4, <3>1
    <3>3. MaxRequests <= Cardinality(old)
      BY <1>1, <1>13, <3>1, <3>2, <1>12 DEF Within, AskedBy
    <3>4. old \subseteq ahead
      BY <1>2, <1>8, <2>3 DEF Within, AskedBy
    <3>5. Cardinality(old) \in Nat /\ Cardinality(old) <= Cardinality(ahead)
      BY <2>2, <3>4, SizeOfSets
    <3> QED BY <1>1, <2>2, <3>3, <3>5
  <2>4. CASE r \in log
    <3> DEFINE old == {q \in AskedBy(r.addr) : q.num < r.num}
    <3>1. MaxRequests <= Cardinality(old)
      BY <2>1, <2>4 DEF LimitInv, RefusedLate
    <3>2. old \subseteq ahead
      BY <1>2 DEF AskedBy
    <3>3. Cardinality(old) \in Nat /\ Cardinality(old) <= Cardinality(ahead)
      BY <2>2, <3>2, SizeOfSets
    <3> QED BY <1>1, <2>2, <3>1, <3>3
  <2> QED BY <1>2, <2>3, <2>4
<1>16. a \notin forced' => WindowKept(a, store[a])'
  <2> SUFFICES ASSUME a \notin forced' PROVE WindowKept(a, store[a])'
    OBVIOUS
  <2> DEFINE before == Before(Admitted(a), e.resetAt)
             within == Within(Admitted(a), e.resetAt)
  <2>1. store'[a] = e /\ a \notin forced
    BY <1>3, <1>10, <1>11
  <2>2. /\ Before(Admitted(a)', e.resetAt) = before
        /\ Within(Admitted(a)', e.resetAt) = IF Allowed(a) THEN within \cup {new} ELSE within
        /\ new \notin within
    BY <1>1, <1>2, <1>4, <1>6, <1>8 DEF Before, Within
  <2>3. before \subseteq log /\ within \subseteq log
    BY DEF Before, Within, Admitted
  <2>4. /\ Cardinality(before) < MaxRequests /\ Cardinality(within) <= MaxRequests
        /\ Cardinality(within) + 1 <= e.count
        /\ IsLive(a) => \E r \in Admitted(a) : r.at + Window = e.resetAt
    <3>1. CASE IsLive(a)
      <4>1. WindowKept(a, store[a]) /\ store[a].resetAt = e.resetAt
        BY <1>4, <2>1, <3>1 DEF LimitInv, WindowsKept
      <4>2. store[a].count \in Nat /\ e.count = store[a].count + 1 /\ Cardinality(within) \in Nat
        BY <1>4, <1>12, <1>13, <2>3, <3>1
      <4>3. Cardinality(within) <= store[a].count
        BY <4>1 DEF WindowKept
      <4>4. Cardinality(within) + 1 <= e.count
        BY <4>2, <4>3
      <4> QED BY <4>1, <4>4 DEF WindowKept
    <3>2. CASE ~IsLive(a)
      <4>1. WindowOver(a) /\ e.resetAt = now + Window /\ e.count = 1
        BY <1>4, <2>1, <3>2 DEF LimitInv, WindowsKept
      <4>2. \A r \in log : r.at \in Nat
        BY DEF LimitInv, LogTyped
      <4>3. before = Admitted(a) /\ within = {}
        BY <1>1, <4>1, <4>2 DEF WindowOver, Before, Within, Admitted, AskedBy
      <4>4. Cardinality(within) = 0
        BY <4>3, FS_EmptySet
      <4> QED BY <1>1, <3>2, <4>1, <4>3, <4>4 DEF WindowOver
    <3> QED BY <3>1, <3>2
  <2>5. /\ Cardinality(within) \in Nat
        /\ Cardinality(within \cup {new}) = Cardinality(within) + 1
    BY <1>12, <2>2, <2>3, SizeOfSets
  <2> HIDE DEF before, within
  <2>6. /\ Cardinality(Within(Admitted(a)', e.resetAt)) <= MaxRequests
        /\ Cardinality(Within(Admitted(a)', e.resetAt)) <= e.count
    <3>1. CASE Allowed(a)
      BY <1>1, <1>4, <1>5, <2>2, <2>4, <2>5, <3>1
    <3>2. CASE ~Allowed(a)
      BY <1>1, <1>4, <2>2, <2>4, <2>5, <3>2
    <3> QED BY <3>1, <3>2
  <2>7. \E r \in Admitted(a)' : r.at + Window = e.resetAt
    <3>1. CASE IsLive(a)
      BY <1>8, <2>4, <3>1
    <3>2. CASE ~IsLive(a)
      BY <1>1, <1>2, <1>4, <1>5, <1>8, <3>2
    <3> QED BY <3>1, <3>2
  <2> QED BY <2>1, <2>2, <2>4, <2>6, <2>7 DEF WindowKept, Before, Within
<1>17. WindowsKept'
  <2>1. SUFFICES ASSUME NEW b \in Addrs \ forced'
                 PROVE  IF IsLive(b)' THEN WindowKept(b, store[b])' ELSE WindowOver(b)'
    BY DEF WindowsKept
  <2>2. CASE b = a
    BY <1>11, <1>16, <2>1, <2>2
  <2>3. CASE b # a
    <3>1. /\ AskedBy(b)' = AskedBy(b) /\ Admitted(b)' = Admitted(b) /\ b \notin forced
          /\ IsLive(b)' <=> IsLive(b)
          /\ IsLive(b) => store'[b] = store[b]
      BY <1>3, <1>8, <1>9, <2>1, <2>3
    <3>2. IF IsLive(b) THEN WindowKept(b, store[b]) ELSE WindowOver(b)
      BY <2>1, <3>1 DEF LimitInv, WindowsKept
    <3> QED BY <1>1, <3>1, <3>2 DEF WindowKept, WindowOver, Before, Within
  <2> QED BY <2>2, <2>3
<1> QED BY <1>1, <1>7, <1>14, <1>15, <1>17 DEF LimitInv

(* Time passes: the log forgets what is a Window old. *)
LEMMA TickStep ==
  ASSUME LimitInv, now' = now + 1, log' = {r \in log : r.at + Window > now + 1},
         UNCHANGED <<store, requests, forced>>
  PROVE  LimitInv'
<1>1. /\ Window \in Nat \ {0} /\ MaxRequests \in Nat \ {0} /\ now \in Nat /\ IsFiniteSet(log)
      /\ \A r \in log : r.at \in Nat /\ r.at <= now
  BY LimitAssumption DEF LimitInv, LogTyped
<1>2. ASSUME NEW T, T \subseteq log
      PROVE  IsFiniteSet(T) /\ Cardinality(T) \in Nat
  BY <1>1, <1>2, SizeOfSets
<1>3. ASSUME NEW T, T \subseteq log, NEW U, U \subseteq T
      PROVE  Cardinality(U) \in Nat /\ Cardinality(U) <= Cardinality(T)
  BY <1>2, <1>3, SizeOfSets
<1>4. LogTyped'
  <2>1. log' \subseteq log /\ IsFiniteSet(log')
    BY <1>2
  <2> QED BY <1>1, <2>1 DEF LimitInv, LogTyped
<1>5. StoreTyped'
  <2>1. ASSUME NEW a \in DOMAIN store
        PROVE  store[a] \in Entry /\ store[a].resetAt <= now' + Window
    BY <1>1, <2>1 DEF LimitInv, StoreTyped, Entry
  <2> QED BY <2>1 DEF StoreTyped
<1>6. ASSUME NEW a \in DOMAIN store
      PROVE  /\ store[a].resetAt \in Nat /\ store[a].count \in Nat
             /\ IsLive(a) <=> now < store[a].resetAt
             /\ IsLive(a)' <=> now + 1 < store[a].resetAt
  BY <1>1, <1>6 DEF LimitInv, StoreTyped, Entry, IsLive, Expired
(* What a live entry has counted is still there. *)
<1>7. ASSUME NEW a, IsLive(a)'
      PROVE  /\ Within(AskedBy(a)', store[a].resetAt) = Within(AskedBy(a), store[a].resetAt)
             /\ Within(Admitted(a)', store[a].resetAt) = Within(Admitted(a), store[a].resetAt)
             /\ \A r \in Admitted(a) : r.at + Window = store[a].resetAt => r \in Admitted(a)'
             /\ IsLive(a) /\ a \in DOMAIN store
  <2>1. a \in DOMAIN store
    BY <1>7 DEF IsLive
  <2>2. now + 1 < store[a].resetAt /\ store[a].resetAt \in Nat /\ IsLive(a)
    BY <1>1, <1>6, <1>7, <2>1
  <2>3. ASSUME NEW r \in log, r.at + Window >= store[a].resetAt PROVE r \in log'
    BY <1>1, <2>2, <2>3
  <2> QED BY <1>1, <2>1, <2>2, <2>3 DEF Within, AskedBy, Admitted
<1>8. CountsReal'
  <2>1. SUFFICES ASSUME NEW a \in DOMAIN store, IsLive(a)'
                 PROVE  store[a].count <= Cardinality(Within(AskedBy(a)', store[a].resetAt))
    BY DEF CountsReal, Within
  <2> QED BY <1>7, <2>1 DEF LimitInv, CountsReal
<1>9. RefusedLate'
  <2>1. \A r \in log' : r.at # now'
    BY <1>1
  <2> QED BY <2>1 DEF RefusedLate
<1>10. WindowsKept'
  <2>1. SUFFICES ASSUME NEW a \in Addrs \ forced
                 PROVE  IF IsLive(a)' THEN WindowKept(a, store[a])' ELSE WindowOver(a)'
    BY DEF WindowsKept
  <2>2. CASE IsLive(a)'
    <3>1. WindowKept(a, store[a])
      BY <1>7, <2>1, <2>2 DEF LimitInv, WindowsKept
    <3>2. /\ Before(Admitted(a)', store[a].resetAt) \subseteq Before(Admitted(a), store[a].resetAt)
          /\ Before(Admitted(a), store[a].resetAt) \subseteq log
      BY DEF Before, Admitted
    <3>3. Cardinality(Before(Admitted(a)', store[a].resetAt)) < MaxRequests
      <4>1. /\ Cardinality(Before(Admitted(a)', store[a].resetAt)) \in Nat
            /\ Cardinality(Before(Admitted(a)', store[a].resetAt)) <=
                 Cardinality(Before(Admitted(a), store[a].resetAt))
        BY <1>3, <3>2
      <4>2. Cardinality(Before(Admitted(a), store[a].resetAt)) \in Nat
        BY <1>2, <3>2
      <4>3. Cardinality(Before(Admitted(a), store[a].resetAt)) < MaxRequests
        BY <3>1 DEF WindowKept
      <4> QED BY <1>1, <4>1, <4>2, <4>3
    <3>4. \E r \in Admitted(a)' : r.at + Window = store[a].resetAt
      BY <1>7, <2>2, <3>1 DEF WindowKept
    <3>5. WindowKept(a, store[a])'
      BY <1>7, <2>2, <3>1, <3>3, <3>4 DEF WindowKept, Before, Within
    <3> QED BY <2>2, <3>5
  <2>3. CASE ~IsLive(a)'
    <3>1. \A r \in AskedBy(a)' : r.at < now'
      BY <1>1 DEF AskedBy
    <3>2. Cardinality(Admitted(a)') < MaxRequests
      <4>1. Admitted(a)' \subseteq Admitted(a) /\ Admitted(a) \subseteq log
        BY DEF Admitted
      <4>2. /\ Cardinality(Admitted(a)') \in Nat /\ Cardinality(Admitted(a)) \in Nat
            /\ Cardinality(Admitted(a)') <= Cardinality(Admitted(a))
        BY <1>2, <1>3, <4>1
      <4>3. CASE ~IsLive(a)
        BY <1>1, <2>1, <4>2, <4>3 DEF LimitInv, WindowsKept, WindowOver
      (* The window is over just now: its first request is forgotten. *)
      <4>4. CASE IsLive(a)
        <5>1. a \in DOMAIN store
          BY <4>4 DEF IsLive
        <5>2. now + 1 = store[a].resetAt
          BY <1>1, <1>6, <2>3, <4>4, <5>1
        <5>3. WindowKept(a, store[a])
          BY <2>1, <4>4 DEF LimitInv, WindowsKept
        <5> DEFINE within == Within(Admitted(a), store[a].resetAt)
        <5>4. PICK first \in within : first.at + Window = store[a].resetAt
          BY <1>1, <5>2, <5>3 DEF WindowKept, Within, Admitted
        <5>5. Admitted(a)' \subseteq within \ {first}
          BY <1>1, <5>2, <5>4 DEF Within, Admitted
        <5>6. IsFiniteSet(within) /\ Cardinality(within) \in Nat
          BY <1>2 DEF Within, Admitted
        <5>7. Cardinality(within) <= MaxRequests
          BY <5>3 DEF WindowKept
        <5> HIDE DEF within
        <5>8. /\ Cardinality(within \ {first}) = Cardinality(within) - 1
              /\ IsFiniteSet(within \ {first})
          BY <5>4, <5>6, FS_RemoveElement
        <5>9. Cardinality(Admitted(a)') <= Cardinality(within \ {first})
          BY <5>5, <5>8, SizeOfSets
        <5> QED BY <1>1, <4>2, <5>6, <5>7, <5>8, <5>9
      <4> QED BY <4>3, <4>4
    <3> QED BY <2>3, <3>1, <3>2 DEF WindowOver
  <2> QED BY <2>2, <2>3
<1> QED BY <1>4, <1>5, <1>8, <1>9, <1>10 DEF LimitInv

LEMMA LimitInitially == Init => LimitInv
<1> SUFFICES ASSUME Init PROVE LimitInv
  OBVIOUS
<1>1. /\ now = 0 /\ requests = 0 /\ log = {} /\ forced = {} /\ DOMAIN store = {}
  BY DEF Init
<1>2. IsFiniteSet({}) /\ Cardinality({}) = 0
  BY FS_EmptySet
<1>3. \A a : ~IsLive(a) /\ AskedBy(a) = {} /\ Admitted(a) = {}
  BY <1>1 DEF IsLive, AskedBy, Admitted
<1>4. LogTyped /\ StoreTyped /\ CountsReal /\ RefusedLate
  BY <1>1, <1>2 DEF LogTyped, StoreTyped, CountsReal, RefusedLate
<1>5. WindowsKept
  BY <1>2, <1>3, LimitAssumption DEF WindowsKept, WindowOver
<1> QED BY <1>4, <1>5 DEF LimitInv

LEMMA LimitStep == LimitInv /\ [Next]_vars => LimitInv'
<1> SUFFICES ASSUME LimitInv, [Next]_vars PROVE LimitInv'
  OBVIOUS
<1>1. ASSUME UNCHANGED <<now, store, requests, log, forced>> PROVE LimitInv'
  BY <1>1 DEF LimitInv, LogTyped, StoreTyped, CountsReal, RefusedLate, WindowsKept, WindowKept,
     WindowOver, IsLive, Expired, AskedBy, Admitted, Within, Before
<1>2. CASE \E a \in Addrs : Visit(a)
  BY <1>2, CheckStep DEF Visit
<1>3. CASE Tick
  BY <1>3, TickStep DEF Tick
<1>4. CASE \E x \in Conns : Upgrade(x)
  <2>1. PICK x \in Conns : Upgrade(x)
    BY <1>4
  <2>2. AddrOf[x[1]] \in Addrs
    BY ConsoleAssumption DEF Conns
  <2>3. Check(AddrOf[x[1]]) \/ UNCHANGED <<now, store, requests, log, forced>>
    BY <2>1 DEF Upgrade
  <2> QED BY <1>1, <2>2, <2>3, CheckStep
<1>5. ASSUME UNCHANGED limiter PROVE LimitInv'
  BY <1>1, <1>5 DEF limiter
<1>6. CASE Emit \/ Shutdown \/ Exit
  BY <1>5, <1>6 DEF Emit, Shutdown, Exit
<1>7. CASE \E x \in Conns : Closed(x) \/ \E k \in Filters : Subscribe(x, k)
  BY <1>5, <1>7 DEF Closed, Subscribe
<1>8. CASE \E c \in Consoles : Connect(c) \/ Receive(c) \/ Drop(c) \/ Disable(c) \/ Clear(c)
  BY <1>5, <1>8 DEF Connect, Receive, Drop, Disable, Clear
<1>9. CASE UNCHANGED vars
  BY <1>5, <1>9 DEF vars
<1> QED BY <1>2, <1>3, <1>4, <1>6, <1>7, <1>8, <1>9 DEF Next

LEMMA LimitEnough == LimitInv => LimitHolds
<1> SUFFICES ASSUME LimitInv PROVE LimitHolds
  OBVIOUS
<1>1. ASSUME NEW r \in log, r.at = now, ~r.ok
      PROVE  MaxRequests <= Cardinality({q \in log : q.addr = r.addr /\ q.num < r.num})
  <2>1. {q \in log : q.addr = r.addr /\ q.num < r.num} = {q \in AskedBy(r.addr) : q.num < r.num}
    BY DEF AskedBy
  <2> QED BY <1>1, <2>1 DEF LimitInv, RefusedLate
<1>2. ASSUME NEW a \in Addrs \ forced
      PROVE  Cardinality({r \in log : r.addr = a /\ r.ok}) < 2 * MaxRequests
  <2>1. {r \in log : r.addr = a /\ r.ok} = Admitted(a)
    BY DEF Admitted
  <2>2. /\ MaxRequests \in Nat \ {0}
        /\ \A T : T \subseteq log => IsFiniteSet(T) /\ Cardinality(T) \in Nat
    BY LimitAssumption, SizeOfSets DEF LimitInv, LogTyped
  <2>3. Cardinality(Admitted(a)) \in Nat
    BY <2>2 DEF Admitted
  <2>4. CASE ~IsLive(a)
    BY <1>2, <2>1, <2>2, <2>3, <2>4 DEF LimitInv, WindowsKept, WindowOver
  <2>5. CASE IsLive(a)
    <3> DEFINE before == Before(Admitted(a), store[a].resetAt)
               within == Within(Admitted(a), store[a].resetAt)
    <3>1. Cardinality(before) < MaxRequests /\ Cardinality(within) <= MaxRequests
      BY <1>2, <2>5 DEF LimitInv, WindowsKept, WindowKept
    <3>2. store[a].resetAt \in Nat /\ Window \in Nat /\ \A r \in log : r.at \in Nat
      BY <2>5, LimitAssumption DEF LimitInv, StoreTyped, LogTyped, Entry, IsLive
    <3>3. Admitted(a) = before \cup within /\ before \cap within = {}
      BY <3>2 DEF Before, Within, Admitted
    <3>4. /\ IsFiniteSet(before) /\ IsFiniteSet(within)
          /\ Cardinality(before) \in Nat /\ Cardinality(within) \in Nat
      BY <2>2 DEF Before, Within, Admitted
    <3> HIDE DEF before, within
    <3>5. Cardinality(before \cup within) =
            Cardinality(before) + Cardinality(within) - Cardinality(before \cap within)
      BY <3>4, FS_Union
    <3>6. Cardinality(before \cap within) = 0
      BY <3>3, FS_EmptySet
    <3>7. Cardinality(Admitted(a)) = Cardinality(before) + Cardinality(within)
      BY <3>3, <3>4, <3>5, <3>6
    <3>8. Cardinality(Admitted(a)) < 2 * MaxRequests
      BY <2>2, <3>1, <3>4, <3>7
    <3> QED BY <2>1, <3>8
  <2> QED BY <2>4, <2>5
<1> QED BY <1>1, <1>2 DEF LimitHolds

(***************************************************************************)
(* An address is refused only after MaxRequests other requests of the last *)
(* Window, and fewer than twice MaxRequests of an address are admitted in  *)
(* any Window, but for addresses whose entry was forced out: by the fixed  *)
(* windows, the sweeps and the evictions of check().                       *)
(***************************************************************************)
THEOREM LimitCorrect == DashSpec => []LimitHolds
<1>1. DashInit => LimitInv
  BY LimitInitially DEF DashInit
<1>2. LimitInv /\ [DashNext]_dashVars => LimitInv'
  <2>1. [DashNext]_dashVars => [Next]_vars
    BY DEF DashNext, dashVars
  <2> QED BY <2>1, LimitStep
<1> QED BY <1>1, <1>2, LimitEnough, PTL DEF DashSpec

(***************************************************************************)
(* The limiter's table and its evictions.                                  *)
(***************************************************************************)
StoreOrdered ==
  /\ requests \in Nat /\ IsFiniteSet(DOMAIN store)
  /\ \A a \in DOMAIN store : store[a].born \in Nat /\ store[a].born <= requests
  /\ \A a, b \in DOMAIN store : store[a].born = store[b].born => a = b

StoreInv == StoreOrdered /\ StoreBounded

(* Of some subsets of a finite set, one is least.                          *)
LEMMA LeastSet ==
  ASSUME NEW S, IsFiniteSet(S), NEW F, F \subseteq SUBSET S, F # {}
  PROVE  \E x \in F : \A y \in F : y \subseteq x => y = x
<1>1. F \subseteq FiniteSubsetsOf(S)
  BY FS_Subset DEF FiniteSubsetsOf
<1>2. PICK x \in F : \A y \in F : ~ (<<y, x>> \in StrictSubsetOrdering(S))
  BY <1>1, FS_StrictSubsetOrderingWellFounded, WFMin
<1>3. ASSUME NEW y \in F, y \subseteq x PROVE y = x
  <2>1. ~ (<<y, x>> \in StrictSubsetOrdering(S))
    BY <1>2
  <2>2. x \in SUBSET S /\ y \in SUBSET S
    OBVIOUS
  <2> QED BY <1>3, <2>1, <2>2 DEF StrictSubsetOrdering
<1> QED BY <1>3

(* The same of the sets that some elements are given. *)
LEMMA LeastGiven ==
  ASSUME NEW S, IsFiniteSet(S), NEW K, K # {}, NEW f, \A a \in K : f[a] \subseteq S
  PROVE  \E a \in K : \A b \in K : f[b] \subseteq f[a] => f[b] = f[a]
<1> DEFINE F == {f[a] : a \in K}
<1>1. F \subseteq SUBSET S /\ F # {}
  OBVIOUS
<1>2. PICK x \in F : \A y \in F : y \subseteq x => y = x
  <2> HIDE DEF F
  <2> QED BY <1>1, LeastSet
<1>3. PICK a \in K : x = f[a]
  OBVIOUS
<1>4. \A b \in K : f[b] \in F
  OBVIOUS
<1> QED BY <1>2, <1>3, <1>4

(* So one of some numbered elements comes first. *)
LEMMA FirstNumbered ==
  ASSUME NEW K, IsFiniteSet(K), K # {}, NEW s, \A a \in K : s[a].born \in Nat
  PROVE  \E a \in K : \A b \in K : s[a].born <= s[b].born
<1> DEFINE before == [a \in K |-> {b \in K : s[b].born < s[a].born}]
<1>1. \A a \in K : before[a] \subseteq K
  OBVIOUS
<1>2. PICK a \in K : \A b \in K : before[b] \subseteq before[a] => before[b] = before[a]
  <2> HIDE DEF before
  <2> QED BY <1>1, LeastGiven, SMTT(60)
<1>3. ASSUME NEW b \in K, ~(s[a].born <= s[b].born) PROVE FALSE
  <2> DEFINE m == s[a].born
             n == s[b].born
  <2>1. n < m
    <3>1. m \in Nat /\ n \in Nat /\ ~(m <= n)
      BY <1>3
    <3> HIDE DEF m, n
    <3> QED BY <3>1
  <2>2. before[b] \subseteq before[a] /\ b \in before[a] /\ b \notin before[b]
    BY <2>1
  <2> QED BY <1>2, <2>2
<1> QED BY <1>3

(* Of numbered elements those are kept that fewer than MaxEntries follow:  *)
(* they are at most so many, all of them behind the others, and just so    *)
(* many if there are others.                                               *)
LEMMA KeepsLast ==
  ASSUME NEW T, IsFiniteSet(T), NEW s, \A a \in T : s[a].born \in Nat,
         \A a, b \in T : s[a].born = s[b].born => a = b,
         NEW after, \A a \in T : after[a] \subseteq T,
         \A a, b \in T : b \in after[a] <=> s[a].born < s[b].born,
         NEW K \in SUBSET T, \A a \in T : a \in K <=> Cardinality(after[a]) < MaxEntries
  PROVE  /\ Cardinality(K) <= MaxEntries
         /\ \A a \in T \ K : \A b \in K : s[a].born < s[b].born
         /\ T # K => Cardinality(K) = MaxEntries
<1>1. /\ MaxEntries \in Nat \ {0}
      /\ IsFiniteSet(K) /\ Cardinality(K) \in Nat
      /\ \A a \in T : IsFiniteSet(after[a]) /\ Cardinality(after[a]) \in Nat
  BY LimitAssumption, SizeOfSets
<1>2. \A a \in T \ K : \A b \in K : s[a].born < s[b].born
  <2> SUFFICES ASSUME NEW a \in T \ K, NEW b \in K, ~(s[a].born < s[b].born) PROVE FALSE
    OBVIOUS
  <2> DEFINE m == s[a].born
             n == s[b].born
  <2>1. n <= m
    <3>1. m \in Nat /\ n \in Nat /\ ~(m < n)
      OBVIOUS
    <3> HIDE DEF m, n
    <3> QED BY <3>1
  <2>2. after[a] \subseteq after[b]
    BY <2>1
  <2>3. Cardinality(after[a]) <= Cardinality(after[b])
    BY <1>1, <2>2, SizeOfSets
  <2>4. Cardinality(after[b]) < MaxEntries /\ ~(Cardinality(after[a]) < MaxEntries)
    OBVIOUS
  <2> DEFINE i == Cardinality(after[a])
             j == Cardinality(after[b])
  <2>5. i \in Nat /\ j \in Nat /\ i <= j /\ j < MaxEntries /\ ~(i < MaxEntries)
    BY <1>1, <2>3, <2>4
  <2> HIDE DEF i, j
  <2> QED BY <1>1, <2>5
<1>3. Cardinality(K) <= MaxEntries
  <2>1. CASE K = {}
    <3>1. Cardinality(K) = 0
      BY <2>1, FS_EmptySet
    <3> QED BY <1>1, <3>1
  <2>2. CASE K # {}
    <3>1. PICK a \in K : \A b \in K : s[a].born <= s[b].born
      BY <1>1, <2>2, FirstNumbered
    <3>2. K \ {a} \subseteq after[a]
      <4> SUFFICES ASSUME NEW b \in K, b # a PROVE b \in after[a]
        OBVIOUS
      <4> DEFINE m == s[a].born
                 n == s[b].born
      <4>1. m \in Nat /\ n \in Nat /\ m # n /\ m <= n
        BY <3>1
      <4>2. m < n
        <5> HIDE DEF m, n
        <5> QED BY <4>1
      <4> QED BY <4>2
    <3>3. Cardinality(K \ {a}) <= Cardinality(after[a]) /\ Cardinality(after[a]) < MaxEntries
      BY <1>1, <3>2, SizeOfSets
    <3>4. Cardinality(K \ {a}) = Cardinality(K) - 1
      BY <1>1, FS_RemoveElement
    <3> QED BY <1>1, <3>3, <3>4
  <2> QED BY <2>1, <2>2
<1>4. ASSUME T # K PROVE Cardinality(K) = MaxEntries
  <2> DEFINE L == T \ K
  <2>1. L # {} /\ \A a \in L : after[a] \subseteq T
    BY <1>4
  <2> HIDE DEF L
  <2>2. PICK a \in L : \A b \in L : after[b] \subseteq after[a] => after[b] = after[a]
    BY <2>1, LeastGiven
  <2>3. after[a] \subseteq K
    <3> SUFFICES ASSUME NEW b \in after[a], b \notin K PROVE FALSE
      OBVIOUS
    <3>1. b \in L /\ after[b] \subseteq after[a] /\ b \notin after[b]
      BY DEF L
    <3> QED BY <2>2, <3>1
  <2>4. Cardinality(after[a]) <= Cardinality(K) /\ ~(Cardinality(after[a]) < MaxEntries)
    BY <1>1, <2>3, SizeOfSets DEF L
  <2> QED BY <1>1, <1>3, <2>4 DEF L
<1> QED BY <1>2, <1>3, <1>4

(* What an eviction keeps, which the lemma above is about. *)
LEMMA EvictKeeps ==
  ASSUME NEW all, IsFiniteSet(DOMAIN all), \A b \in DOMAIN all : all[b].born \in Nat,
         \A b, c \in DOMAIN all : all[b].born = all[c].born => b = c
  PROVE  LET t == Unexpired(all)
             kept == DOMAIN Evict(all)
         IN  /\ kept \subseteq DOMAIN t /\ Cardinality(kept) <= MaxEntries
             /\ \A b \in kept : Evict(all)[b] = t[b]
             /\ \A b \in DOMAIN t \ kept : \A c \in kept : t[b].born < t[c].born
             /\ DOMAIN t # kept => Cardinality(kept) = MaxEntries
<1> DEFINE t == Unexpired(all)
           K == {b \in DOMAIN t : Cardinality(InsertedAfter(t, b)) < MaxEntries}
           after == [b \in DOMAIN t |-> InsertedAfter(t, b)]
<1>1. DOMAIN t \subseteq DOMAIN all /\ \A b \in DOMAIN t : t[b] = all[b]
  BY DEF Unexpired, Restrict
<1>2. Evict(all) = [b \in K |-> t[b]]
  BY DEF Evict, Restrict
<1>3. DOMAIN Evict(all) = K /\ \A b \in K : Evict(all)[b] = t[b]
  <2> HIDE DEF K, t
  <2> QED BY <1>2
<1> HIDE DEF t
<1>4. /\ IsFiniteSet(DOMAIN t) /\ \A b \in DOMAIN t : t[b].born \in Nat
      /\ \A b, c \in DOMAIN t : t[b].born = t[c].born => b = c
  <2>1. IsFiniteSet(DOMAIN t)
    BY <1>1, SizeOfSets
  <2> QED BY <1>1, <2>1
<1>5. /\ \A b \in DOMAIN t : after[b] \subseteq DOMAIN t
      /\ \A b, c \in DOMAIN t : c \in after[b] <=> t[b].born < t[c].born
      /\ \A b \in DOMAIN t : b \in K <=> Cardinality(after[b]) < MaxEntries
      /\ K \in SUBSET DOMAIN t
  BY DEF InsertedAfter
<1> HIDE DEF after, K
<1>6. /\ Cardinality(K) <= MaxEntries
      /\ \A b \in DOMAIN t \ K : \A c \in K : t[b].born < t[c].born
      /\ DOMAIN t # K => Cardinality(K) = MaxEntries
  BY <1>4, <1>5, KeepsLast
<1> QED BY <1>3, <1>5, <1>6 DEF t

StoreLoss ==
  \A a \in DOMAIN store \ DOMAIN store' :
    \/ Expired(store[a])
    \/ /\ Cardinality(DOMAIN store') = MaxEntries
       /\ \A b \in DOMAIN store' : store[a].born < store'[b].born

LEMMA CheckTable ==
  ASSUME LimitInv, StoreInv, NEW a, Check(a)
  PROVE  StoreInv' /\ StoreLoss
<1> DEFINE all == Put(a)
           t == Unexpired(all)
<1>1. requests' = requests + 1 /\ requests \in Nat /\ MaxEntries \in Nat \ {0}
  BY LimitAssumption DEF Check, StoreInv, StoreOrdered
<1>2. /\ DOMAIN all = DOMAIN store \cup {a}
      /\ \A b \in DOMAIN all : all[b] = IF b = a THEN Counted(a) ELSE store[b]
  BY DEF Put
<1>3. Counted(a).born = IF a \in DOMAIN store THEN store[a].born ELSE requests + 1
  <2>1. CASE a \in DOMAIN store /\ ~Expired(store[a])
    <3>1. Counted(a) = [store[a] EXCEPT !.count = @ + 1]
      BY <2>1 DEF Counted
    <3>2. store[a] \in Entry
      BY <2>1 DEF LimitInv, StoreTyped
    <3> QED BY <2>1, <3>1, <3>2 DEF Entry
  <2>2. CASE ~(a \in DOMAIN store /\ ~Expired(store[a]))
    BY <2>2 DEF Counted
  <2> QED BY <2>1, <2>2
<1>4. ~Expired(Counted(a))
  <2>1. now \in Nat /\ Counted(a).resetAt \in Nat /\ now < Counted(a).resetAt
    BY CountedEntry DEF LimitInv, LogTyped, Entry
  <2> QED BY <2>1 DEF Expired
<1> HIDE DEF all
<1>5. \A b \in DOMAIN all :
        all[b].born = IF b \in DOMAIN store THEN store[b].born ELSE requests + 1
  BY <1>2, <1>3
<1>6. /\ IsFiniteSet(DOMAIN store) /\ Cardinality(DOMAIN store) <= MaxEntries
      /\ \A b \in DOMAIN store : store[b].born \in Nat /\ store[b].born <= requests
      /\ \A b, c \in DOMAIN store : store[b].born = store[c].born => b = c
  BY DEF StoreInv, StoreOrdered, StoreBounded
<1>7. IsFiniteSet(DOMAIN all)
  <2>1. CASE a \in DOMAIN store
    <3>1. DOMAIN all = DOMAIN store
      BY <1>2, <2>1
    <3> QED BY <1>6, <3>1
  <2>2. CASE a \notin DOMAIN store
    BY <1>2, <1>6, <2>2, SizeOfSets
  <2> QED BY <2>1, <2>2
<1>8. /\ \A b \in DOMAIN all : all[b].born \in Nat /\ all[b].born <= requests'
      /\ \A b, c \in DOMAIN all : all[b].born = all[c].born => b = c
  <2>1. \A b \in DOMAIN all : all[b].born \in Nat /\ all[b].born <= requests + 1
    BY <1>1, <1>5, <1>6
  <2>2. ASSUME NEW b \in DOMAIN all, NEW c \in DOMAIN all, all[b].born = all[c].born
        PROVE  b = c
    <3>1. CASE b \in DOMAIN store /\ c \in DOMAIN store
      BY <1>5, <1>6, <2>2, <3>1
    <3>2. CASE b \notin DOMAIN store /\ c \notin DOMAIN store
      BY <1>2, <3>2
    <3>3. CASE b \in DOMAIN store /\ c \notin DOMAIN store
      BY <1>1, <1>5, <1>6, <2>2, <3>3
    <3>4. CASE b \notin DOMAIN store /\ c \in DOMAIN store
      BY <1>1, <1>5, <1>6, <2>2, <3>4
    <3> QED BY <3>1, <3>2, <3>3, <3>4
  <2> QED BY <1>1, <2>1, <2>2
<1>9. /\ DOMAIN t = {b \in DOMAIN all : ~Expired(all[b])}
      /\ \A b \in DOMAIN t : t[b] = all[b]
  BY DEF Unexpired, Restrict
<1>10. \A b \in DOMAIN store \ DOMAIN t : Expired(store[b])
  BY <1>2, <1>4, <1>9
<1>11. ASSUME DOMAIN store' \subseteq DOMAIN all, \A b \in DOMAIN store' : store'[b] = all[b],
              Cardinality(DOMAIN store') <= MaxEntries
       PROVE  StoreInv'
  <2>1. IsFiniteSet(DOMAIN store')
    BY <1>7, <1>11, SizeOfSets
  <2> QED BY <1>1, <1>8, <1>11, <2>1 DEF StoreInv, StoreOrdered, StoreBounded
<1>12. CASE Cardinality(DOMAIN all) > MaxEntries
  <2>1. store' = Evict(all)
    BY <1>12 DEF Check, all
  <2>2. /\ DOMAIN store' \subseteq DOMAIN t /\ Cardinality(DOMAIN store') <= MaxEntries
        /\ \A b \in DOMAIN store' : store'[b] = t[b]
        /\ \A b \in DOMAIN t \ DOMAIN store' : \A c \in DOMAIN store' : t[b].born < t[c].born
        /\ DOMAIN t # DOMAIN store' => Cardinality(DOMAIN store') = MaxEntries
    BY <1>7, <1>8, <2>1, EvictKeeps
  <2> HIDE DEF t
  <2>3. StoreInv'
    BY <1>9, <1>11, <2>2
  <2>4. ASSUME NEW b \in DOMAIN store \ DOMAIN store', ~Expired(store[b])
        PROVE  /\ Cardinality(DOMAIN store') = MaxEntries
               /\ \A c \in DOMAIN store' : store[b].born < store'[c].born
    <3>1. b \in DOMAIN t \ DOMAIN store'
      BY <1>10, <2>4
    <3>2. t[b].born = store[b].born
      BY <1>5, <1>9, <3>1
    <3> QED BY <2>2, <3>1, <3>2
  <2> QED BY <2>3, <2>4 DEF StoreLoss
<1>13. CASE ~(Cardinality(DOMAIN all) > MaxEntries)
  <2>1. store' = t \/ store' = all
    BY <1>13 DEF Check, all
  <2> HIDE DEF t
  <2>2. DOMAIN t \subseteq DOMAIN all
    BY <1>9
  <2>3. Cardinality(DOMAIN all) <= MaxEntries /\ Cardinality(DOMAIN t) <= MaxEntries
    <3>1. /\ Cardinality(DOMAIN all) \in Nat /\ Cardinality(DOMAIN t) \in Nat
          /\ Cardinality(DOMAIN t) <= Cardinality(DOMAIN all)
      BY <1>7, <2>2, SizeOfSets
    <3> QED BY <1>1, <1>13, <3>1
  <2>4. CASE store' = t
    BY <1>9, <1>10, <1>11, <2>2, <2>3, <2>4 DEF StoreLoss
  <2>5. CASE store' = all
    BY <1>2, <1>11, <2>3, <2>5 DEF StoreLoss
  <2> QED BY <2>1, <2>4, <2>5
<1> QED BY <1>12, <1>13

LEMMA StoreInitially == Init => StoreInv
<1> SUFFICES ASSUME Init PROVE StoreInv
  OBVIOUS
<1>1. requests = 0 /\ DOMAIN store = {}
  BY DEF Init
<1>2. IsFiniteSet({}) /\ Cardinality({}) = 0
  BY FS_EmptySet
<1> QED BY <1>1, <1>2, LimitAssumption DEF StoreInv, StoreOrdered, StoreBounded

LEMMA StoreStep ==
  ASSUME LimitInv, StoreInv, [Next]_vars
  PROVE  StoreInv' /\ StoreLoss
<1>1. ASSUME UNCHANGED <<store, requests>> PROVE StoreInv' /\ StoreLoss
  BY <1>1 DEF StoreInv, StoreOrdered, StoreBounded, StoreLoss
<1>2. CASE \E a \in Addrs : Visit(a)
  BY <1>2, CheckTable DEF Visit
<1>3. CASE \E x \in Conns : Upgrade(x)
  <2>1. PICK x \in Conns : Upgrade(x)
    BY <1>3
  <2>2. Check(AddrOf[x[1]]) \/ UNCHANGED <<store, requests>>
    BY <2>1 DEF Upgrade
  <2> QED BY <1>1, <2>2, CheckTable
<1>4. CASE Tick
  BY <1>1, <1>4 DEF Tick
<1>5. ASSUME UNCHANGED limiter PROVE StoreInv' /\ StoreLoss
  BY <1>1, <1>5 DEF limiter
<1>6. CASE Emit \/ Shutdown \/ Exit
  BY <1>5, <1>6 DEF Emit, Shutdown, Exit
<1>7. CASE \E x \in Conns : Closed(x) \/ \E k \in Filters : Subscribe(x, k)
  BY <1>5, <1>7 DEF Closed, Subscribe
<1>8. CASE \E c \in Consoles : Connect(c) \/ Receive(c) \/ Drop(c) \/ Disable(c) \/ Clear(c)
  BY <1>5, <1>8 DEF Connect, Receive, Drop, Disable, Clear
<1>9. CASE UNCHANGED vars
  BY <1>5, <1>9 DEF vars
<1> QED BY <1>2, <1>3, <1>4, <1>6, <1>7, <1>8, <1>9 DEF Next

(***************************************************************************)
(* The limiter's table never exceeds maxEntries, however many addresses    *)
(* make requests: by the eviction in the check() that enters one too many. *)
(***************************************************************************)
THEOREM TableCorrect == DashSpec => []StoreBounded
<1>1. DashInit => LimitInv /\ StoreInv
  BY LimitInitially, StoreInitially DEF DashInit
<1>2. LimitInv /\ StoreInv /\ [DashNext]_dashVars => LimitInv' /\ StoreInv'
  <2>1. [DashNext]_dashVars => [Next]_vars
    BY DEF DashNext, dashVars
  <2> QED BY <2>1, LimitStep, StoreStep
<1>3. StoreInv => StoreBounded
  BY DEF StoreInv
<1> QED BY <1>1, <1>2, <1>3, PTL DEF DashSpec

(***************************************************************************)
(* An address whose window is not over leaves the table only if that is    *)
(* then full, of addresses that all came in after it: evictIfNeeded()      *)
(* sweeps first and then takes as many as it must, oldest first.           *)
(***************************************************************************)
THEOREM EvictionCorrect == DashSpec => ForcesOutOldest
<1>1. DashInit => LimitInv /\ StoreInv
  BY LimitInitially, StoreInitially DEF DashInit
<1>2. [DashNext]_dashVars => [Next]_vars
  BY DEF DashNext, dashVars
<1>3. LimitInv /\ StoreInv /\ [DashNext]_dashVars => LimitInv' /\ StoreInv'
  BY <1>2, LimitStep, StoreStep
<1>4. LimitInv /\ StoreInv /\ [DashNext]_dashVars => [StoreLoss]_vars
  BY <1>2, StoreStep
<1> QED BY <1>1, <1>3, <1>4, PTL DEF DashSpec, ForcesOutOldest, StoreLoss

-----------------------------------------------------------------------------
(***************************************************************************)
(* The feed of debug events.                                               *)
(***************************************************************************)
Frames == [type : {"open", "close", "event", "history"}, events : Seq(Nat)]

FeedTyped ==
  /\ page \in [Consoles -> {"off", "waiting", "connecting", "open"}]
  /\ conn \in [Consoles -> Nat] /\ \A c \in Consoles : conn[c] <= MaxConns[c]
  /\ \A c \in Consoles : conn[c] = 0 => page[c] = "off"
  /\ feed \in [Consoles -> Seq(Nat)] /\ shown \in [Consoles -> Seq(Nat)]
  /\ asked \subseteq Conns /\ clients \subseteq Conns
  /\ wire \in [Conns -> Seq(Frames)]
  /\ since \in [Conns -> 0 .. emitted] /\ withheld \in [Conns -> SUBSET (1 .. emitted)]

(* The ring holds the last events, the oldest at `head` once it is full.   *)
RingHolds ==
  /\ emitted \in Nat /\ head \in 0 .. Buffer - 1 /\ count \in 0 .. Buffer
  /\ DOMAIN ring = 0 .. Buffer - 1
  /\ IF count < Buffer
     THEN head = count /\ emitted = count /\ \A i \in 0 .. count - 1 : ring[i] = i + 1
     ELSE /\ emitted >= Buffer
          /\ \A i \in 0 .. Buffer - 1 :
               ring[i] = (emitted - head + 1 + i) - (IF i < head THEN 0 ELSE Buffer)

(* A connection that the server has not accepted yet has carried nothing.  *)
ConnsKnown ==
  /\ \A x \in asked \cup clients : x[2] <= conn[x[1]]
  /\ asked \cap clients = {}
  /\ \A x \in Conns : x \in asked \/ conn[x[1]] < x[2] => wire[x] = <<>> /\ withheld[x] = {}
  /\ \A c \in Consoles : Current(c) \in asked => feed[c] = <<>>

Stream(c) ==
  page[c] # "off" /\ conn[c] > 0 /\ Current(c) \in clients \ left
  => /\ InOrder(Segments(c))
     /\ Content(Segments(c)) =
          (since[Current(c)] - Backlog(Current(c)) + 1 .. emitted) \ withheld[Current(c)]

Streams == \A c \in Consoles : Stream(c)

(* The shorter one of what is shown and of what was delivered ends the     *)
(* other.                                                                  *)
EndAlike(s, t) ==
  \A k \in 1 .. Len(s) : k <= Len(t) => s[Len(s) - k + 1] = t[Len(t) - k + 1]

ShownEnds ==
  \A c \in Consoles : Len(shown[c]) <= MaxShown /\ EndAlike(shown[c], feed[c])

FeedInv == FeedTyped /\ RingHolds /\ ConnsKnown /\ Streams /\ ShownEnds

LEMMA SegmentsShape ==
  ASSUME NEW f \in Seq(Nat), NEW w \in Seq(Frames)
  PROVE  LET g == <<f>> \o [i \in DOMAIN w |-> w[i].events]
         IN  /\ g \in Seq(Seq(Nat)) /\ Len(g) = Len(w) + 1 /\ g[1] = f
             /\ \A i \in 1 .. Len(w) : g[i + 1] = w[i].events
<1> DEFINE v == [i \in DOMAIN w |-> w[i].events]
<1>1. v \in Seq(Seq(Nat)) /\ Len(v) = Len(w) /\ \A i \in 1 .. Len(w) : v[i] = w[i].events
  <2>1. DOMAIN w = 1 .. Len(w) /\ Len(w) \in Nat /\ \A i \in 1 .. Len(w) : w[i] \in Frames
    OBVIOUS
  <2>2. \A i \in 1 .. Len(w) : w[i].events \in Seq(Nat)
    BY <2>1 DEF Frames
  <2>3. v = [i \in 1 .. Len(w) |-> w[i].events]
    BY <2>1
  <2> HIDE DEF v
  <2>4. DOMAIN v = 1 .. Len(w) /\ \A i \in 1 .. Len(w) : v[i] = w[i].events
    BY <2>3
  <2>5. v \in [1 .. Len(w) -> Seq(Nat)]
    BY <2>2, <2>3
  <2>6. \A S : \A n \in Nat : \A e \in [1 .. n -> S] : e \in Seq(S) /\ Len(e) = n
    OBVIOUS
  <2>7. v \in Seq(Seq(Nat)) /\ Len(v) = Len(w)
    BY <2>1, <2>5, <2>6, Zenon
  <2> QED BY <2>4, <2>7
<1> HIDE DEF v
<1>2. \A S : \A e \in S, s \in Seq(S) :
         /\ <<e>> \o s \in Seq(S) /\ Len(<<e>> \o s) = Len(s) + 1 /\ (<<e>> \o s)[1] = e
         /\ \A i \in 1 .. Len(s) : (<<e>> \o s)[i + 1] = s[i]
  OBVIOUS
<1>3. LET g == <<f>> \o v
      IN  /\ g \in Seq(Seq(Nat)) /\ Len(g) = Len(v) + 1 /\ g[1] = f
          /\ \A i \in 1 .. Len(v) : g[i + 1] = v[i]
  BY <1>1, <1>2
<1> QED BY <1>1, <1>3 DEF v

LEMMA AppendInOrder ==
  ASSUME NEW g \in Seq(Seq(Nat)), NEW h \in Seq(Seq(Nat)), NEW n \in Nat,
         Len(h) = Len(g) + 1, \A i \in 1 .. Len(g) : h[i] = g[i], h[Len(h)] = <<n>>,
         InOrder(g), \A m \in Content(g) : m < n
  PROVE  InOrder(h) /\ Content(h) = Content(g) \cup {n}
<1> DEFINE last == Len(g) + 1
<1>1. /\ DOMAIN g \subseteq DOMAIN h /\ last \in DOMAIN h /\ h[last] = <<n>>
      /\ \A i \in DOMAIN h : i \in DOMAIN g \/ i = last
      /\ \A i \in DOMAIN g : i < last /\ ~(last < i) /\ h[i] = g[i]
      /\ ~(last < last)
  <2>1. DOMAIN g = 1 .. Len(g) /\ DOMAIN h = 1 .. Len(h) /\ Len(g) \in Nat
    OBVIOUS
  <2>2. last \in Nat /\ Len(h) = last /\ DOMAIN h = 1 .. Len(g) + 1
    BY <2>1
  <2> QED BY <2>1, <2>2
<1> HIDE DEF last
<1>2. ToSet(h[last]) = {n} /\ Rising(h[last])
  <2>1. DOMAIN <<n>> = {1} /\ <<n>>[1] = n
    OBVIOUS
  <2> QED BY <1>1, <2>1 DEF ToSet, Rising
<1>3. \A i \in DOMAIN g : /\ ToSet(h[i]) = ToSet(g[i]) /\ ToSet(g[i]) \subseteq Content(g)
                         /\ Rising(h[i])
  BY <1>1 DEF InOrder, Content
<1>4. Content(h) = Content(g) \cup {n}
  <2>1. ASSUME NEW m \in Content(h) PROVE m \in Content(g) \cup {n}
    BY <1>1, <1>2, <1>3, <2>1 DEF Content
  <2>2. ASSUME NEW m \in Content(g) PROVE m \in Content(h)
    BY <1>1, <1>3, <2>2 DEF Content
  <2>3. n \in Content(h)
    BY <1>1, <1>2 DEF Content
  <2> QED BY <2>1, <2>2, <2>3
<1>5. ASSUME NEW i \in DOMAIN h PROVE Rising(h[i])
  BY <1>1, <1>2, <1>3
<1>6. ASSUME NEW i \in DOMAIN h, NEW j \in DOMAIN h, i < j,
             NEW m \in ToSet(h[i]), NEW k \in ToSet(h[j])
      PROVE  m < k
  <2>1. i \in DOMAIN g /\ m \in ToSet(g[i]) /\ m \in Content(g)
    BY <1>1, <1>3, <1>6
  <2>2. CASE j = last
    BY <1>2, <1>6, <2>1, <2>2
  <2>3. CASE j \in DOMAIN g
    <3>1. k \in ToSet(g[j])
      BY <1>3, <1>6, <2>3
    <3> QED BY <1>6, <2>1, <2>3, <3>1 DEF InOrder
  <2> QED BY <1>1, <2>2, <2>3
<1> QED BY <1>4, <1>5, <1>6 DEF InOrder

LEMMA RisingConcat ==
  ASSUME NEW s \in Seq(Nat), NEW t \in Seq(Nat), Rising(s), Rising(t),
         \A m \in ToSet(s), n \in ToSet(t) : m < n
  PROVE  Rising(s \o t) /\ ToSet(s \o t) = ToSet(s) \cup ToSet(t)
<1> DEFINE u == s \o t
<1>1. /\ DOMAIN s = 1 .. Len(s) /\ DOMAIN t = 1 .. Len(t) /\ DOMAIN u = 1 .. Len(s) + Len(t)
      /\ Len(s) \in Nat /\ Len(t) \in Nat
      /\ \A k \in 1 .. Len(s) + Len(t) : u[k] = IF k <= Len(s) THEN s[k] ELSE t[k - Len(s)]
  OBVIOUS
<1> HIDE DEF u
<1>2. \A k \in DOMAIN u :
        \/ k \in DOMAIN s /\ u[k] = s[k]
        \/ k - Len(s) \in DOMAIN t /\ u[k] = t[k - Len(s)]
  <2> SUFFICES ASSUME NEW k \in DOMAIN u
               PROVE  \/ k \in DOMAIN s /\ u[k] = s[k]
                      \/ k - Len(s) \in DOMAIN t /\ u[k] = t[k - Len(s)]
    OBVIOUS
  <2>1. CASE k <= Len(s)
    BY <1>1, <2>1
  <2>2. CASE k > Len(s)
    BY <1>1, <2>2
  <2> QED BY <1>1, <2>1, <2>2
<1>3. /\ \A k \in DOMAIN s : k \in DOMAIN u /\ u[k] = s[k]
      /\ \A k \in DOMAIN t : k + Len(s) \in DOMAIN u /\ u[k + Len(s)] = t[k]
  BY <1>1
<1>4. ToSet(u) = ToSet(s) \cup ToSet(t)
  <2>1. ASSUME NEW m \in ToSet(u) PROVE m \in ToSet(s) \cup ToSet(t)
    BY <1>2, <2>1 DEF ToSet
  <2>2. ASSUME NEW m \in ToSet(s) PROVE m \in ToSet(u)
    BY <1>3, <2>2 DEF ToSet
  <2>3. ASSUME NEW m \in ToSet(t) PROVE m \in ToSet(u)
    BY <1>3, <2>3 DEF ToSet
  <2> QED BY <2>1, <2>2, <2>3
<1>5. ASSUME NEW i \in DOMAIN u, NEW j \in DOMAIN u, i < j PROVE u[i] < u[j]
  <2>1. CASE j \in DOMAIN s
    <3>1. i \in DOMAIN s
      BY <1>1, <1>5, <2>1
    <3> QED BY <1>3, <1>5, <2>1, <3>1 DEF Rising
  <2>2. CASE i \notin DOMAIN s
    <3>1. /\ i - Len(s) \in DOMAIN t /\ u[i] = t[i - Len(s)]
          /\ j - Len(s) \in DOMAIN t /\ u[j] = t[j - Len(s)]
          /\ i - Len(s) < j - Len(s)
      BY <1>1, <1>5, <2>2
    <3> QED BY <3>1 DEF Rising
  <2>3. CASE i \in DOMAIN s /\ j \notin DOMAIN s
    <3>1. u[i] = s[i] /\ j - Len(s) \in DOMAIN t /\ u[j] = t[j - Len(s)]
      BY <1>2, <1>3, <2>3
    <3>2. s[i] \in ToSet(s) /\ t[j - Len(s)] \in ToSet(t)
      BY <2>3, <3>1 DEF ToSet
    <3> QED BY <3>1, <3>2
  <2> QED BY <2>1, <2>2, <2>3
<1> QED BY <1>4, <1>5 DEF u, Rising

LEMMA Predecessor ==
  ASSUME NEW n \in Nat, NEW i \in Nat, i <= n, i > 2
  PROVE  i - 1 \in Nat /\ 2 <= i - 1 /\ i - 1 <= n - 1 /\ (i - 1) + 1 = i
OBVIOUS

LEMMA MergeInOrder ==
  ASSUME NEW g \in Seq(Seq(Nat)), NEW h \in Seq(Seq(Nat)), Len(g) >= 2,
         Len(h) = Len(g) - 1, h[1] = g[1] \o g[2],
         \A i \in 2 .. Len(h) : h[i] = g[i + 1], InOrder(g)
  PROVE  InOrder(h) /\ Content(h) = Content(g)
<1> DEFINE size == Len(g)
<1>0. /\ size \in Nat /\ size >= 2 /\ Len(g) = size /\ Len(h) = size - 1
      /\ DOMAIN g = 1 .. size /\ DOMAIN h = 1 .. size - 1
  OBVIOUS
<1> HIDE DEF size
<1>1. /\ g[1] \in Seq(Nat) /\ g[2] \in Seq(Nat) /\ 1 \in DOMAIN h
      /\ 1 \in DOMAIN g /\ 2 \in DOMAIN g /\ 1 < 2
  BY <1>0
<1>2. \A i \in DOMAIN h : i # 1 => /\ i + 1 \in DOMAIN g /\ h[i] = g[i + 1]
                                 /\ 1 < i + 1 /\ 2 < i + 1
  BY <1>0
<1>3. \A i \in DOMAIN g : i = 1 \/ i = 2 \/ (i - 1 \in DOMAIN h /\ h[i - 1] = g[i])
  <2> SUFFICES ASSUME NEW i \in DOMAIN g
               PROVE  i = 1 \/ i = 2 \/ (i - 1 \in DOMAIN h /\ h[i - 1] = g[i])
    OBVIOUS
  <2>1. i \in Nat /\ 1 <= i /\ i <= size
    BY <1>0
  <2>2. CASE i <= 2
    BY <2>1, <2>2
  <2>3. CASE i > 2
    <3> DEFINE p == i - 1
    <3>1. p \in Nat /\ 2 <= p /\ p <= size - 1 /\ p + 1 = i
      BY <1>0, <2>1, <2>3, Predecessor
    <3> HIDE DEF p
    <3>2. p \in DOMAIN h
      BY <1>0, <3>1
    <3>3. h[p] = g[p + 1]
      BY <1>0, <3>1
    <3>4. h[p] = g[i]
      BY <3>1, <3>3, Zenon
    <3> QED BY <3>2, <3>4 DEF p
  <2> QED BY <2>1, <2>2, <2>3
<1>4. \A i, j \in DOMAIN h : i < j => j # 1 /\ i + 1 < j + 1
  BY <1>0
<1>5. \A m \in ToSet(g[1]), n \in ToSet(g[2]) : m < n
  BY <1>1, Zenon DEF InOrder
<1>6. Rising(g[1]) /\ Rising(g[2])
  BY <1>1, Zenon DEF InOrder
<1>7. Rising(h[1]) /\ ToSet(h[1]) = ToSet(g[1]) \cup ToSet(g[2])
  BY <1>1, <1>5, <1>6, RisingConcat
<1>8. Content(h) = Content(g)
  <2>1. ASSUME NEW m \in Content(h) PROVE m \in Content(g)
    <3>1. PICK i \in DOMAIN h : m \in ToSet(h[i])
      BY <2>1 DEF Content
    <3>2. \E k \in DOMAIN g : m \in ToSet(g[k])
      BY <1>1, <1>2, <1>7, <3>1
    <3> QED BY <3>2 DEF Content
  <2>2. ASSUME NEW m \in Content(g) PROVE m \in Content(h)
    <3>1. PICK i \in DOMAIN g : m \in ToSet(g[i])
      BY <2>2 DEF Content
    <3>2. \E k \in DOMAIN h : m \in ToSet(h[k])
      BY <1>1, <1>3, <1>7, <3>1
    <3> QED BY <3>2 DEF Content
  <2> QED BY <2>1, <2>2
<1>9. ASSUME NEW i \in DOMAIN h PROVE Rising(h[i])
  <2>1. CASE i # 1
    BY <1>2, <2>1, Zenon DEF InOrder
  <2> QED BY <1>7, <2>1
<1>10. ASSUME NEW i \in DOMAIN h, NEW j \in DOMAIN h, i < j,
              NEW m \in ToSet(h[i]), NEW n \in ToSet(h[j])
       PROVE  m < n
  <2>1. /\ j # 1 /\ j + 1 \in DOMAIN g /\ n \in ToSet(g[j + 1])
        /\ 1 < j + 1 /\ 2 < j + 1 /\ i + 1 < j + 1
    BY <1>2, <1>4, <1>10, Zenon
  <2>2. CASE i # 1
    <3>1. i + 1 \in DOMAIN g /\ m \in ToSet(g[i + 1])
      BY <1>2, <1>10, <2>2, Zenon
    <3> QED BY <2>1, <3>1, Zenon DEF InOrder
  <2>3. CASE i = 1
    <3>1. m \in ToSet(g[1]) \/ m \in ToSet(g[2])
      BY <1>7, <1>10, <2>3
    <3> QED BY <1>1, <2>1, <3>1, Zenon DEF InOrder
  <2> QED BY <2>2, <2>3
<1> QED BY <1>8, <1>9, <1>10 DEF InOrder

(* The remainder of what is less than twice the divisor. *)
LEMMA Remainder ==
  ASSUME NEW n \in Nat \ {0}, NEW k \in Nat, k < n + n
  PROVE  k % n = IF k < n THEN k ELSE k - n
<1>1. CASE k < n
  BY <1>1
<1>2. CASE k >= n
  BY <1>2
<1> QED BY <1>1, <1>2

(* The history is the last events, in order. *)
LEMMA RecentInOrder ==
  ASSUME RingHolds
  PROVE  /\ GetRecent \in Seq(Nat) /\ Rising(GetRecent)
         /\ ToSet(GetRecent) = emitted - Min({emitted, Buffer, History}) + 1 .. emitted
<1>1. /\ Buffer \in Nat \ {0} /\ History \in Nat \ {0}
      /\ emitted \in Nat /\ head \in 0 .. Buffer - 1 /\ count \in 0 .. Buffer
      /\ count <= emitted
  BY FeedAssumption DEF RingHolds
<1>2. ToArray \in Seq(Nat) /\ Len(ToArray) = count
      /\ \A i \in 1 .. count : ToArray[i] = emitted - count + i
  <2>1. ASSUME NEW i \in 1 .. count
        PROVE  (IF count < Buffer THEN ring[i - 1] ELSE ring[(head + i - 1) % Buffer])
                 = emitted - count + i
    <3>1. CASE count < Buffer
      BY <1>1, <3>1 DEF RingHolds
    <3>2. CASE count = Buffer
      <4> DEFINE m == head + i - 1
                 k == m % Buffer
      <4>1. m \in Nat /\ m < Buffer + Buffer
        BY <1>1, <3>2
      <4> HIDE DEF m
      <4>2. k = IF m < Buffer THEN m ELSE m - Buffer
        BY <1>1, <4>1, Remainder
      <4> HIDE DEF k
      <4> USE DEF m
      <4>3. k \in 0 .. Buffer - 1
        BY <1>1, <3>2, <4>1, <4>2
      <4>4. ring[k] = (emitted - head + 1 + k) - (IF k < head THEN 0 ELSE Buffer)
        BY <3>2, <4>3 DEF RingHolds
      <4>5. ring[k] = emitted - count + i
        BY <1>1, <3>2, <4>2, <4>3, <4>4
      <4> QED BY <1>1, <3>2, <4>5 DEF k
    <3> QED BY <1>1, <3>1, <3>2
  <2>2. \A i \in 1 .. count : ToArray[i] = emitted - count + i
    BY <2>1 DEF ToArray
  <2>3. DOMAIN ToArray = 1 .. count /\ ToArray = [i \in 1 .. count |-> ToArray[i]]
    BY DEF ToArray
  <2>4. \A i \in 1 .. count : ToArray[i] \in Nat
    BY <1>1, <2>2
  <2> QED BY <1>1, <2>2, <2>3, <2>4
<1> DEFINE lo == IF count > History THEN count - History + 1 ELSE 1
           len == IF count > History THEN History ELSE count
<1>3. lo \in 1 .. count + 1 /\ len = count - lo + 1 /\ len \in Nat /\ len <= emitted
  BY <1>1
<1>4. GetRecent = SubSeq(ToArray, lo, count)
  BY DEF GetRecent
<1>5. Min({emitted, Buffer, History}) = len
  <2>1. len \in {emitted, Buffer, History} /\ \A n \in {emitted, Buffer, History} : len <= n
    BY <1>1 DEF RingHolds
  <2>2. \A n \in {emitted, Buffer, History} :
          (\A m \in {emitted, Buffer, History} : n <= m) => n = len
    BY <1>1, <2>1
  <2> QED BY <2>1, <2>2 DEF Min
<1> HIDE DEF lo, len
<1>6. /\ GetRecent \in Seq(Nat) /\ Len(GetRecent) = len
      /\ \A i \in 1 .. len : GetRecent[i] = emitted - len + i
  <2>1. \A s \in Seq(Nat) : \A a \in 1 .. Len(s) + 1 :
          /\ SubSeq(s, a, Len(s)) \in Seq(Nat) /\ Len(SubSeq(s, a, Len(s))) = Len(s) - a + 1
          /\ \A i \in 1 .. Len(s) - a + 1 : SubSeq(s, a, Len(s))[i] = s[a + i - 1]
    OBVIOUS
  <2>2. /\ GetRecent \in Seq(Nat) /\ Len(GetRecent) = len
        /\ \A i \in 1 .. len : GetRecent[i] = ToArray[lo + i - 1]
    BY <1>2, <1>3, <1>4, <2>1
  <2>3. ASSUME NEW i \in 1 .. len PROVE GetRecent[i] = emitted - len + i
    BY <1>1, <1>2, <1>3, <2>2
  <2> QED BY <2>2, <2>3
<1>7. Rising(GetRecent)
  BY <1>1, <1>3, <1>6 DEF Rising
<1>8. ToSet(GetRecent) = emitted - len + 1 .. emitted
  <2>1. ASSUME NEW n \in ToSet(GetRecent) PROVE n \in emitted - len + 1 .. emitted
    BY <1>1, <1>3, <1>6, <2>1 DEF ToSet
  <2>2. ASSUME NEW n \in emitted - len + 1 .. emitted PROVE n \in ToSet(GetRecent)
    <3>1. n - (emitted - len) \in 1 .. len /\ GetRecent[n - (emitted - len)] = n
      BY <1>1, <1>3, <1>6, <2>2
    <3> QED BY <1>6, <3>1 DEF ToSet
  <2> QED BY <2>1, <2>2
<1> QED BY <1>5, <1>6, <1>7, <1>8

LEMMA CappedEnd ==
  ASSUME NEW s \in Seq(Nat)
  PROVE  /\ Capped(s) \in Seq(Nat) /\ Len(Capped(s)) <= MaxShown /\ Len(Capped(s)) <= Len(s)
         /\ Len(s) <= MaxShown => Capped(s) = s
         /\ \A k \in 1 .. Len(Capped(s)) :
              Capped(s)[Len(Capped(s)) - k + 1] = s[Len(s) - k + 1]
<1>1. MaxShown \in Nat \ {0}
  BY FeedAssumption
<1>2. CASE Len(s) > MaxShown
  <2>1. Capped(s) = SubSeq(s, Len(s) - MaxShown + 1, Len(s))
    BY <1>2 DEF Capped
  <2>2. /\ Capped(s) \in Seq(Nat) /\ Len(Capped(s)) = MaxShown
        /\ \A i \in 1 .. MaxShown : Capped(s)[i] = s[Len(s) - MaxShown + i]
    BY <1>1, <1>2, <2>1
  <2> QED BY <1>1, <1>2, <2>2
<1>3. CASE Len(s) <= MaxShown
  BY <1>1, <1>3 DEF Capped
<1> QED BY <1>1, <1>2, <1>3

LEMMA SuffixByEnd ==
  ASSUME NEW s \in Seq(Nat), NEW t \in Seq(Nat), Len(s) <= Len(t), EndAlike(s, t)
  PROVE  IsSuffix(s, t)
<1>1. /\ Reverse(s) \in Seq(Nat) /\ Len(Reverse(s)) = Len(s)
      /\ \A k \in 1 .. Len(s) : Reverse(s)[k] = s[Len(s) - k + 1]
  BY DEF Reverse
<1>2. /\ Reverse(t) \in Seq(Nat) /\ Len(Reverse(t)) = Len(t)
      /\ \A k \in 1 .. Len(t) : Reverse(t)[k] = t[Len(t) - k + 1]
  BY DEF Reverse
<1>3. ASSUME NEW k \in 1 .. Len(s) PROVE Reverse(s)[k] = Reverse(t)[k]
  <2>1. k \in 1 .. Len(t) /\ k <= Len(t)
    OBVIOUS
  <2>2. s[Len(s) - k + 1] = t[Len(t) - k + 1]
    BY <2>1 DEF EndAlike
  <2> QED BY <1>1, <1>2, <2>1, <2>2
<1>4. ASSUME NEW u \in Seq(Nat), NEW v \in Seq(Nat), Len(u) <= Len(v),
             \A k \in 1 .. Len(u) : u[k] = v[k]
      PROVE  SubSeq(u, 1, Len(u)) = SubSeq(v, 1, Len(u))
  <2> DEFINE a == SubSeq(u, 1, Len(u))
             b == SubSeq(v, 1, Len(u))
  <2>1. a \in Seq(Nat) /\ Len(a) = Len(u) /\ \A k \in 1 .. Len(u) : a[k] = u[k]
    OBVIOUS
  <2>2. b \in Seq(Nat) /\ Len(b) = Len(u) /\ \A k \in 1 .. Len(u) : b[k] = v[k]
    BY <1>4
  <2> HIDE DEF a, b
  <2> QED BY <1>4, <2>1, <2>2
<1>5. SubSeq(Reverse(s), 1, Len(Reverse(s))) = SubSeq(Reverse(t), 1, Len(Reverse(s)))
  BY <1>1, <1>2, <1>3, <1>4
<1> QED BY <1>1, <1>2, <1>5 DEF IsSuffix, IsPrefix
LEMMA SegmentsOf ==
  ASSUME FeedTyped, NEW c \in Consoles, Current(c) \in Conns
  PROVE  /\ Segments(c) \in Seq(Seq(Nat)) /\ Len(Segments(c)) = Len(wire[Current(c)]) + 1
         /\ Segments(c)[1] = feed[c]
         /\ \A i \in 1 .. Len(wire[Current(c)]) :
              Segments(c)[i + 1] = wire[Current(c)][i].events
<1>1. feed[c] \in Seq(Nat) /\ wire[Current(c)] \in Seq(Frames)
  BY DEF FeedTyped
<1> QED BY <1>1, SegmentsShape DEF Segments

LEMMA CurrentKnown ==
  ASSUME FeedTyped, NEW c \in Consoles
  PROVE  /\ conn[c] > 0 => Current(c) \in Conns
         /\ Current(c)[1] = c /\ Current(c)[2] = conn[c]
         /\ \A d \in Consoles : Current(d) = Current(c) => d = c
<1>1. conn[c] \in Nat /\ conn[c] <= MaxConns[c] /\ MaxConns[c] \in Nat
  BY FeedAssumption DEF FeedTyped
<1>2. conn[c] > 0 => conn[c] \in 1 .. MaxConns[c]
  BY <1>1
<1> QED BY <1>2 DEF Conns, Current

LEMMA ConnShape ==
  ASSUME NEW x \in Conns
  PROVE  x = <<x[1], x[2]>> /\ x[1] \in Consoles /\ x[2] \in Nat \ {0} /\ x[2] <= MaxConns[x[1]]
<1>1. PICK c \in Consoles : x \in {c} \X (1 .. MaxConns[c])
  BY DEF Conns
<1>2. MaxConns[c] \in Nat
  BY FeedAssumption
<1> QED BY <1>1, <1>2

(* A step that leaves a console's connection alone. *)
LEMMA StreamStays ==
  ASSUME NEW c \in Consoles, Stream(c), page'[c] # "off" => page[c] # "off", conn'[c] = conn[c],
         Current(c) \in clients' \ left' => Current(c) \in clients \ left,
         wire'[Current(c)] = wire[Current(c)], feed'[c] = feed[c],
         since'[Current(c)] = since[Current(c)], withheld'[Current(c)] = withheld[Current(c)],
         emitted' = emitted
  PROVE  Stream(c)'
<1>1. Current(c)' = Current(c)
  BY DEF Current
<1>2. Segments(c)' = Segments(c) /\ Backlog(Current(c))' = Backlog(Current(c))
  BY <1>1 DEF Segments, Backlog
<1> QED BY <1>1, <1>2 DEF Stream, InOrder, Content

(* A step of one console's page that lets no connection be subscribed anew *)
(* and leaves the bus alone.                                               *)
LEMMA PageMoves ==
  ASSUME FeedInv, NEW c \in Consoles, FeedTyped', UNCHANGED <<bus, asked, clients>>,
         \A d \in Consoles \ {c} : /\ page'[d] = page[d] /\ conn'[d] = conn[d]
                                   /\ feed'[d] = feed[d] /\ shown'[d] = shown[d],
         conn'[c] = conn[c], left \subseteq left',
         \A x \in Conns : x # Current(c) =>
           wire'[x] = wire[x] /\ since'[x] = since[x] /\ withheld'[x] = withheld[x],
         wire[Current(c)] = <<>> => wire'[Current(c)] = <<>>,
         withheld'[Current(c)] \subseteq withheld[Current(c)],
         Current(c) \in asked => feed'[c] = <<>>,
         Stream(c)', Len(shown'[c]) <= MaxShown /\ EndAlike(shown'[c], feed'[c])
  PROVE  FeedInv'
<1>1. RingHolds'
  BY DEF FeedInv, RingHolds, bus
<1>2. \A d \in Consoles : conn'[d] = conn[d] /\ Current(d)' = Current(d)
  BY DEF Current
<1>3. \A x \in Conns : conn'[x[1]] = conn[x[1]]
  BY <1>2, ConnShape
<1>4. ConnsKnown'
  <2>1. \A x \in asked' \cup clients' : x[2] <= conn'[x[1]]
    BY <1>3 DEF FeedInv, ConnsKnown, FeedTyped
  <2>2. asked' \cap clients' = {}
    BY DEF FeedInv, ConnsKnown
  <2>3. ASSUME NEW x \in Conns, x \in asked' \/ conn'[x[1]] < x[2]
        PROVE  wire'[x] = <<>> /\ withheld'[x] = {}
    <3>1. wire[x] = <<>> /\ withheld[x] = {}
      BY <1>3, <2>3 DEF FeedInv, ConnsKnown
    <3> QED BY <3>1
  <2>4. ASSUME NEW d \in Consoles, Current(d)' \in asked' PROVE feed'[d] = <<>>
    BY <1>2, <2>4 DEF FeedInv, ConnsKnown
  <2> QED BY <2>1, <2>2, <2>3, <2>4 DEF ConnsKnown
<1>5. Streams'
  <2>1. ASSUME NEW d \in Consoles, d # c PROVE Stream(d)'
    <3>1. CASE conn[d] = 0
      BY <1>2, <3>1 DEF Stream
    <3>2. CASE conn[d] # 0
      <4>1. Current(d) \in Conns /\ Current(d) # Current(c) /\ Stream(d)
        BY <2>1, <3>2, CurrentKnown DEF FeedInv, Streams, FeedTyped
      <4> QED BY <1>2, <2>1, <4>1, StreamStays DEF bus
    <3> QED BY <3>1, <3>2
  <2> QED BY <2>1 DEF Streams
<1>6. ShownEnds'
  BY DEF FeedInv, ShownEnds
<1> QED BY <1>1, <1>4, <1>5, <1>6 DEF FeedInv

LEMMA ConcatEnds ==
  ASSUME NEW s \in Seq(Nat), NEW t \in Seq(Nat), NEW e \in Seq(Nat), EndAlike(s, t)
  PROVE  EndAlike(Capped(s \o e), t \o e)
<1> DEFINE u == s \o e
           v == t \o e
           a == Len(s)
           b == Len(t)
           n == Len(e)
<1>1. /\ u \in Seq(Nat) /\ Len(u) = a + n /\ v \in Seq(Nat) /\ Len(v) = b + n
      /\ a \in Nat /\ b \in Nat /\ n \in Nat
      /\ \A k \in 1 .. a : u[k] = s[k]
      /\ \A k \in 1 .. b : v[k] = t[k]
      /\ \A k \in 1 .. n : u[a + k] = e[k] /\ v[b + k] = e[k]
  OBVIOUS
<1>2. \A k \in 1 .. a : k <= b => s[a - k + 1] = t[b - k + 1]
  BY DEF EndAlike
<1> HIDE DEF u, v, a, b, n
<1>3. ASSUME NEW k \in 1 .. Len(u), k <= Len(v) PROVE u[Len(u) - k + 1] = v[Len(v) - k + 1]
  <2>1. CASE k <= n
    <3> DEFINE p == n - k + 1
    <3>1. p \in 1 .. n /\ Len(u) - k + 1 = a + p /\ Len(v) - k + 1 = b + p
      BY <1>1, <1>3, <2>1
    <3>2. u[a + p] = e[p] /\ v[b + p] = e[p]
      BY <1>1, <3>1
    <3> HIDE DEF p
    <3> QED BY <3>1, <3>2
  <2>2. CASE k > n
    <3> DEFINE m == k - n
    <3>1. m \in 1 .. a /\ m <= b /\ Len(u) - k + 1 = a - m + 1 /\ Len(v) - k + 1 = b - m + 1
      BY <1>1, <1>3, <2>2
    <3> HIDE DEF m
    <3> DEFINE p == a - m + 1
               q == b - m + 1
    <3>2. p \in 1 .. a /\ q \in 1 .. b
      BY <1>1, <3>1
    <3>3. s[p] = t[q]
      BY <1>2, <3>1
    <3>4. Len(u) - k + 1 = p /\ Len(v) - k + 1 = q
      BY <3>1
    <3> HIDE DEF p, q
    <3> QED BY <1>1, <3>2, <3>3, <3>4
  <2> QED BY <1>1, <2>1, <2>2
<1> DEFINE w == Capped(u)
<1>4. /\ w \in Seq(Nat) /\ Len(w) <= Len(u) /\ Len(w) \in Nat
      /\ \A k \in 1 .. Len(w) : w[Len(w) - k + 1] = u[Len(u) - k + 1]
  <2>1. w \in Seq(Nat) /\ Len(w) <= Len(u)
    BY <1>1, CappedEnd
  <2>2. \A k \in 1 .. Len(w) : w[Len(w) - k + 1] = u[Len(u) - k + 1]
    BY <1>1, CappedEnd
  <2> QED BY <2>1, <2>2
<1> HIDE DEF w
<1>5. ASSUME NEW k \in 1 .. Len(w), k <= Len(v) PROVE w[Len(w) - k + 1] = v[Len(v) - k + 1]
  <2>1. k \in 1 .. Len(u)
    BY <1>1, <1>4
  <2> QED BY <1>3, <1>4, <1>5, <2>1
<1> QED BY <1>5 DEF EndAlike, w, u, v

LEMMA EmitStep ==
  ASSUME FeedInv, Emit
  PROVE  FeedInv'
<1> DEFINE n == emitted + 1
<1>1. /\ emitted' = n /\ ring' = [ring EXCEPT ![head] = n]
      /\ head' = (head + 1) % Buffer /\ count' = IF count < Buffer THEN count + 1 ELSE count
      /\ UNCHANGED <<asked, clients, left, page, conn, shown, since, feed>>
  BY DEF Emit, hook
<1>2. /\ wire' = [x \in Conns |-> IF x \in clients \ left /\ Passes(x, n)
                                THEN Append(wire[x], Frame("event", <<n>>)) ELSE wire[x]]
      /\ withheld' = [x \in Conns |-> IF x \in clients \ left /\ ~Passes(x, n)
                                    THEN withheld[x] \cup {n} ELSE withheld[x]]
  BY DEF Emit
<1>3. /\ emitted \in Nat /\ n \in Nat /\ Buffer \in Nat \ {0} /\ History \in Nat \ {0}
      /\ head \in 0 .. Buffer - 1 /\ count \in 0 .. Buffer
  BY FeedAssumption DEF FeedInv, RingHolds
<1>4. Frame("event", <<n>>) \in Frames /\ Frame("event", <<n>>).events = <<n>>
  BY <1>3 DEF Frame, Frames
<1>5. FeedTyped'
  <2>1. wire' \in [Conns -> Seq(Frames)]
    <3>1. \A x \in Conns : wire[x] \in Seq(Frames)
      BY DEF FeedInv, FeedTyped
    <3> DEFINE f == Frame("event", <<n>>)
    <3>2. \A x \in Conns : Append(wire[x], f) \in Seq(Frames)
      BY <1>4, <3>1
    <3> QED BY <1>2, <3>1, <3>2
  <2>2. withheld' \in [Conns -> SUBSET (1 .. n)]
    <3>1. \A x \in Conns : withheld[x] \subseteq 1 .. emitted
      BY DEF FeedInv, FeedTyped
    <3>2. \A x \in Conns : withheld[x] \subseteq 1 .. n /\ withheld[x] \cup {n} \subseteq 1 .. n
      BY <1>3, <3>1
    <3> QED BY <1>2, <3>2
  <2>3. since \in [Conns -> 0 .. n]
    BY <1>3 DEF FeedInv, FeedTyped
  <2> QED BY <1>1, <2>1, <2>2, <2>3 DEF FeedInv, FeedTyped
<1>6. RingHolds'
  <2>1. head' = IF head + 1 < Buffer THEN head + 1 ELSE 0
    <3>1. head + 1 \in Nat /\ head + 1 < Buffer + Buffer
      BY <1>3
    <3>2. (head + 1) % Buffer = IF head + 1 < Buffer THEN head + 1 ELSE (head + 1) - Buffer
      BY <1>3, <3>1, Remainder
    <3> QED BY <1>1, <1>3, <3>2
  <2>2. /\ DOMAIN ring' = 0 .. Buffer - 1
        /\ \A i \in 0 .. Buffer - 1 : ring'[i] = IF i = head THEN n ELSE ring[i]
    BY <1>1, <1>3 DEF FeedInv, RingHolds
  <2>3. CASE count + 1 < Buffer
    <3>1. head = count /\ emitted = count /\ \A i \in 0 .. count - 1 : ring[i] = i + 1
      BY <1>3, <2>3 DEF FeedInv, RingHolds
    <3>2. head' = count + 1 /\ count' = count + 1 /\ emitted' = count + 1
      BY <1>1, <1>3, <2>1, <2>3, <3>1
    <3>3. \A i \in 0 .. count : ring'[i] = i + 1
      BY <1>3, <2>2, <2>3, <3>1
    <3> QED BY <1>3, <2>2, <2>3, <3>2, <3>3 DEF RingHolds
  <2>4. CASE count + 1 = Buffer
    <3>1. head = count /\ emitted = count /\ \A i \in 0 .. count - 1 : ring[i] = i + 1
      BY <1>3, <2>4 DEF FeedInv, RingHolds
    <3>2. head' = 0 /\ count' = Buffer /\ emitted' = Buffer
      BY <1>1, <1>3, <2>1, <2>4, <3>1
    <3>3. \A i \in 0 .. Buffer - 1 : ring'[i] = i + 1
      BY <1>3, <2>2, <2>4, <3>1
    <3>4. \A i \in 0 .. Buffer - 1 :
            ring'[i] = (emitted' - head' + 1 + i) - (IF i < head' THEN 0 ELSE Buffer)
      BY <1>3, <3>2, <3>3
    <3> QED BY <1>3, <2>2, <3>2, <3>4 DEF RingHolds
  <2>5. CASE count = Buffer
    <3>1. /\ emitted >= Buffer
          /\ \A i \in 0 .. Buffer - 1 :
               ring[i] = (emitted - head + 1 + i) - (IF i < head THEN 0 ELSE Buffer)
      BY <1>3, <2>5 DEF FeedInv, RingHolds
    <3>2. count' = Buffer /\ emitted' >= Buffer /\ head' \in 0 .. Buffer - 1
      BY <1>1, <1>3, <2>1, <2>5, <3>1
    <3>3. ASSUME NEW i \in 0 .. Buffer - 1
          PROVE  ring'[i] = (emitted' - head' + 1 + i) - (IF i < head' THEN 0 ELSE Buffer)
      <4>1. emitted' = emitted + 1 /\ head \in Nat /\ i \in Nat
        BY <1>1, <1>3
      <4>2. i # head =>
              ring'[i] = (emitted - head + 1 + i) - (IF i < head THEN 0 ELSE Buffer)
        BY <2>2, <3>1
      <4>3. i = head => ring'[i] = emitted + 1
        BY <2>2
      <4>4. CASE head + 1 < Buffer
        <5>1. head' = head + 1
          BY <2>1, <4>4
        <5>2. CASE i = head
          BY <1>3, <4>1, <4>3, <5>1, <5>2
        <5>3. CASE i # head
          BY <1>3, <4>1, <4>2, <5>1, <5>3
        <5> QED BY <5>2, <5>3
      <4>5. CASE head + 1 = Buffer
        <5>1. head' = 0
          BY <1>3, <2>1, <4>5
        <5>2. CASE i = head
          BY <1>3, <4>1, <4>3, <4>5, <5>1, <5>2
        <5>3. CASE i # head
          BY <1>3, <4>1, <4>2, <4>5, <5>1, <5>3
        <5> QED BY <5>2, <5>3
      <4> QED BY <1>3, <4>1, <4>4, <4>5
    <3> QED BY <1>1, <1>3, <2>2, <3>2, <3>3 DEF RingHolds
  <2> QED BY <1>3, <2>3, <2>4, <2>5
<1>7. ConnsKnown'
  <2>1. \A c \in Consoles : Current(c)' = Current(c)
    BY <1>1 DEF Current
  <2>2. \A x \in Conns : x \in asked \/ conn[x[1]] < x[2] => x \notin clients
    <3>1. \A x \in Conns : conn[x[1]] \in Nat /\ x[2] \in Nat
      BY ConnShape DEF FeedInv, FeedTyped
    <3> QED BY <3>1 DEF FeedInv, ConnsKnown
  <2>3. ASSUME NEW x \in Conns, x \in asked' \/ conn'[x[1]] < x[2]
        PROVE  wire'[x] = <<>> /\ withheld'[x] = {}
    BY <1>1, <1>2, <2>2, <2>3 DEF FeedInv, ConnsKnown
  <2> QED BY <1>1, <2>1, <2>3 DEF FeedInv, ConnsKnown
<1>8. Streams'
  <2> SUFFICES ASSUME NEW c \in Consoles, page[c] # "off", conn[c] > 0,
                      Current(c) \in clients \ left
               PROVE  /\ InOrder(Segments(c)')
                      /\ Content(Segments(c)') =
                           (since[Current(c)] - Backlog(Current(c)) + 1 .. n)
                             \ withheld'[Current(c)]
    BY <1>1 DEF Streams, Stream, Backlog, Current, InOrder, Content
  <2> DEFINE x == Current(c)
  <2>1. x \in Conns /\ Current(c)' = x
    BY <1>1, CurrentKnown DEF FeedInv, Current
  <2> DEFINE low == since[x] - Backlog(x) + 1
             w == wire[x]
  <2>2. /\ InOrder(Segments(c)) /\ Content(Segments(c)) = (low .. emitted) \ withheld[x]
    BY DEF FeedInv, Streams, Stream
  <2>3. low \in Int /\ low <= n
    <3>1. since[x] \in Nat /\ since[x] <= emitted
      BY <1>3, <2>1 DEF FeedInv, FeedTyped
    <3>2. Backlog(x) \in Nat
      <4>1. \E b \in {since[x], Buffer, History} : \A k \in {since[x], Buffer, History} : b <= k
        BY <1>3, <3>1
      <4> QED BY <1>3, <3>1, <4>1 DEF Backlog, Min
    <3> QED BY <1>3, <3>1, <3>2
  <2>4. withheld[x] \subseteq 1 .. emitted
    BY <2>1 DEF FeedInv, FeedTyped
  <2>5. /\ Segments(c) \in Seq(Seq(Nat)) /\ Len(Segments(c)) = Len(w) + 1
        /\ Segments(c)[1] = feed[c]
        /\ \A i \in 1 .. Len(w) : Segments(c)[i + 1] = w[i].events
    BY <2>1, SegmentsOf DEF FeedInv
  <2>6. CASE Passes(x, n)
    <3> DEFINE f == Frame("event", <<n>>)
    <3>1. wire'[x] = Append(w, f) /\ withheld'[x] = withheld[x]
      BY <1>2, <2>1, <2>6
    <3> DEFINE g == Segments(c)
               h == Segments(c)'
    <3>2. /\ h \in Seq(Seq(Nat)) /\ Len(h) = Len(wire'[x]) + 1 /\ h[1] = feed[c]
          /\ \A i \in 1 .. Len(wire'[x]) : h[i + 1] = wire'[x][i].events
      <4>1. feed'[c] = feed[c] /\ feed[c] \in Seq(Nat) /\ wire'[x] \in Seq(Frames)
        BY <1>1, <1>5, <2>1 DEF FeedTyped
      <4>2. h = <<feed[c]>> \o [i \in DOMAIN wire'[x] |-> wire'[x][i].events]
        BY <2>1, <4>1 DEF Segments
      <4> QED BY <4>1, <4>2, SegmentsShape
    <3>3. /\ w \in Seq(Frames) /\ Len(wire'[x]) = Len(w) + 1 /\ wire'[x][Len(w) + 1] = f
          /\ \A i \in 1 .. Len(w) : wire'[x][i] = w[i]
      <4>1. w \in Seq(Frames)
        BY <2>1 DEF FeedInv, FeedTyped
      <4> HIDE DEF w, f
      <4> QED BY <1>4, <3>1, <4>1
    <3> HIDE DEF g, h, w, f
    <3>4. g \in Seq(Seq(Nat)) /\ Len(g) = Len(w) + 1 /\ Len(w) \in Nat
      BY <2>5, <3>3 DEF g
    <3>5. Len(h) = Len(g) + 1 /\ h[Len(h)] = <<n>>
      <4> DEFINE k == Len(w) + 1
      <4>1. k \in 1 .. Len(wire'[x]) /\ Len(g) = k /\ Len(h) = k + 1
        BY <3>2, <3>3, <3>4
      <4>2. wire'[x][k] = f
        BY <3>3
      <4> HIDE DEF k
      <4>3. h[k + 1] = f.events
        BY <3>2, <4>1, <4>2
      <4> QED BY <1>4, <4>1, <4>3 DEF f
    <3>6. ASSUME NEW i \in 1 .. Len(g) PROVE h[i] = g[i]
      <4>1. CASE i = 1
        BY <2>5, <3>2, <4>1 DEF g
      <4>2. CASE i # 1
        <5> DEFINE k == i - 1
        <5>1. k \in 1 .. Len(w) /\ k + 1 = i /\ k \in 1 .. Len(wire'[x])
          BY <3>3, <3>4, <4>2
        <5> HIDE DEF k
        <5>2. g[k + 1] = w[k].events /\ h[k + 1] = wire'[x][k].events /\ wire'[x][k] = w[k]
          BY <2>5, <3>2, <3>3, <5>1 DEF g
        <5> QED BY <5>1, <5>2
      <4> QED BY <4>1, <4>2
    <3>7. \A m \in Content(g) : m < n
      BY <1>3, <2>2, <2>3 DEF g
    <3>8. InOrder(h) /\ Content(h) = Content(g) \cup {n}
      <4>1. InOrder(g)
        BY <2>2 DEF g
      <4> QED BY <1>3, <3>2, <3>4, <3>5, <3>6, <3>7, <4>1, AppendInOrder
    <3>9. ((low .. emitted) \ withheld[x]) \cup {n} = (low .. n) \ withheld[x]
      <4> HIDE DEF low
      <4> QED BY <1>3, <2>3, <2>4
    <3> QED BY <2>2, <3>1, <3>8, <3>9 DEF g, h
  <2>7. CASE ~Passes(x, n)
    <3>1. wire'[x] = w /\ withheld'[x] = withheld[x] \cup {n}
      BY <1>2, <2>1, <2>7
    <3>2. Segments(c)' = Segments(c)
      BY <1>1, <2>1, <3>1 DEF Segments
    <3>3. (low .. emitted) \ withheld[x] = (low .. n) \ (withheld[x] \cup {n})
      <4> HIDE DEF low
      <4> QED BY <1>3, <2>3, <2>4
    <3> QED BY <2>2, <3>1, <3>2, <3>3
  <2> QED BY <2>6, <2>7
<1>9. ShownEnds'
  BY <1>1 DEF FeedInv, ShownEnds
<1> QED BY <1>5, <1>6, <1>7, <1>8, <1>9 DEF FeedInv

(* Connections leave the bus: they close, or the server shuts down.         *)
LEMMA LeaveStep ==
  ASSUME FeedInv, clients' \subseteq clients, wire' \in [Conns -> Seq(Frames)],
         \A x \in Conns : x \in clients' \/ x \notin clients => wire'[x] = wire[x],
         \A x \in clients' : x \in left => x \in left',
         UNCHANGED <<bus, asked, page, conn, shown, since, feed, withheld>>
  PROVE  FeedInv'
<1>1. RingHolds' /\ ShownEnds'
  BY DEF FeedInv, RingHolds, ShownEnds, EndAlike, bus
<1>2. FeedTyped'
  BY DEF FeedInv, FeedTyped, bus
<1>3. \A c \in Consoles : Current(c)' = Current(c)
  BY DEF Current
<1>4. ConnsKnown'
  <2>1. \A x \in Conns : x \in asked \/ conn[x[1]] < x[2] => x \notin clients
    <3>1. \A x \in Conns : conn[x[1]] \in Nat /\ x[2] \in Nat
      BY ConnShape DEF FeedInv, FeedTyped
    <3> QED BY <3>1 DEF FeedInv, ConnsKnown
  <2>2. ASSUME NEW x \in Conns, x \in asked' \/ conn'[x[1]] < x[2]
        PROVE  wire'[x] = <<>> /\ withheld'[x] = {}
    BY <2>1, <2>2 DEF FeedInv, ConnsKnown
  <2> QED BY <1>3, <2>2 DEF FeedInv, ConnsKnown
<1>5. Streams'
  <2>1. ASSUME NEW c \in Consoles PROVE Stream(c)'
    <3>1. CASE conn[c] > 0 /\ Current(c) \in clients'
      <4>1. Current(c) \in Conns /\ wire'[Current(c)] = wire[Current(c)] /\ Stream(c)
        BY <3>1, CurrentKnown DEF FeedInv, Streams
      <4> QED BY <3>1, <4>1, StreamStays DEF bus
    <3>2. CASE ~(conn[c] > 0 /\ Current(c) \in clients')
      BY <1>3, <3>2 DEF Stream
    <3> QED BY <3>1, <3>2
  <2> QED BY <2>1 DEF Streams
<1> QED BY <1>1, <1>2, <1>4, <1>5 DEF FeedInv

LEMMA FeedSame ==
  ASSUME FeedInv, UNCHANGED <<bus, asked, clients, left, wire, page, conn, shown, since, feed,
                              withheld>>
  PROVE  FeedInv'
<1>1. wire' \in [Conns -> Seq(Frames)]
  BY DEF FeedInv, FeedTyped
<1> QED BY <1>1, LeaveStep

LEMMA ClosedStep ==
  ASSUME FeedInv, NEW x \in Conns, Closed(x)
  PROVE  FeedInv'
<1>1. /\ left' = left \ {x} /\ clients' = clients \ {x}
      /\ UNCHANGED <<bus, asked, wire, page, conn, shown, since, feed, withheld>>
  BY DEF Closed, hook, ghosts
<1>2. wire' \in [Conns -> Seq(Frames)]
  BY <1>1 DEF FeedInv, FeedTyped
<1> QED BY <1>1, <1>2, LeaveStep

LEMMA DownStep ==
  ASSUME FeedInv, Shutdown \/ Exit
  PROVE  FeedInv'
<1>1. /\ clients' = {} /\ wire' = HangUp
      /\ UNCHANGED <<bus, asked, left, page, conn, shown, since, feed, withheld>>
  BY DEF Shutdown, Exit, hook, ghosts
<1>2. Closes \in Frames
  BY DEF Closes, Frame, Frames
<1>3. \A x \in Conns : wire[x] \in Seq(Frames) /\ Append(wire[x], Closes) \in Seq(Frames)
  <2>1. \A x \in Conns : wire[x] \in Seq(Frames)
    BY DEF FeedInv, FeedTyped
  <2> QED BY <1>2, <2>1
<1>4. /\ wire' \in [Conns -> Seq(Frames)]
      /\ \A x \in Conns : x \notin clients => wire'[x] = wire[x]
  BY <1>1, <1>3 DEF HangUp
<1> QED BY <1>1, <1>4, LeaveStep

LEMMA ConnectStep ==
  ASSUME FeedInv, NEW c \in Consoles, Connect(c)
  PROVE  FeedInv'
<1> DEFINE n == conn[c] + 1
           y == <<c, n>>
<1>1. /\ page' = [page EXCEPT ![c] = "connecting"] /\ conn' = [conn EXCEPT ![c] = n]
      /\ asked' = asked \cup {y} /\ feed' = [feed EXCEPT ![c] = <<>>] /\ conn[c] < MaxConns[c]
      /\ UNCHANGED <<bus, clients, left, wire, shown, since, withheld>>
  BY DEF Connect
<1>2. /\ conn[c] \in Nat /\ n \in Nat /\ n > 0 /\ MaxConns[c] \in Nat /\ y \in Conns
      /\ y[1] = c /\ y[2] = n
  <2>1. conn[c] \in Nat /\ MaxConns[c] \in Nat
    BY FeedAssumption DEF FeedInv, FeedTyped
  <2>2. n \in 1 .. MaxConns[c]
    BY <1>1, <2>1
  <2> QED BY <2>1, <2>2 DEF Conns
<1>3. /\ page'[c] = "connecting" /\ conn'[c] = n /\ feed'[c] = <<>>
      /\ \A d \in Consoles \ {c} : /\ page'[d] = page[d] /\ conn'[d] = conn[d]
                                   /\ feed'[d] = feed[d]
  BY <1>1 DEF FeedInv, FeedTyped
<1>4. FeedTyped'
  <2>1. page' \in [Consoles -> {"off", "waiting", "connecting", "open"}]
    BY <1>1 DEF FeedInv, FeedTyped
  <2>2. conn' \in [Consoles -> Nat]
    BY <1>1, <1>2 DEF FeedInv, FeedTyped
  <2>3. \A d \in Consoles : conn'[d] <= MaxConns[d] /\ (conn'[d] = 0 => page'[d] = "off")
    BY <1>1, <1>2, <1>3 DEF FeedInv, FeedTyped
  <2>4. feed' \in [Consoles -> Seq(Nat)]
    BY <1>1 DEF FeedInv, FeedTyped
  <2>5. asked' \subseteq Conns
    BY <1>1, <1>2 DEF FeedInv, FeedTyped
  <2> QED BY <1>1, <2>1, <2>2, <2>3, <2>4, <2>5 DEF FeedInv, FeedTyped, bus
<1>5. RingHolds' /\ ShownEnds'
  <2>1. \A d \in Consoles : EndAlike(shown[d], feed[d]) => EndAlike(shown[d], feed'[d])
    <3>1. EndAlike(shown[c], feed'[c])
      BY <1>3 DEF EndAlike
    <3> QED BY <1>3, <3>1
  <2> QED BY <1>1, <2>1 DEF FeedInv, RingHolds, ShownEnds, EndAlike, bus
<1> HIDE DEF y
<1>6. /\ Current(c)' = y
      /\ \A d \in Consoles \ {c} : Current(d)' = Current(d) /\ Current(d) # y
  BY <1>2, <1>3 DEF Current, y
<1>7. \A x \in asked \cup clients : x[2] <= conn[x[1]] /\ x # y /\ x \in Conns
  BY <1>2 DEF FeedInv, ConnsKnown, FeedTyped
<1>8. ASSUME NEW x \in Conns
      PROVE  /\ conn[x[1]] \in Nat /\ conn'[x[1]] \in Nat /\ x[2] \in Nat
             /\ conn[x[1]] <= conn'[x[1]]
  <2>1. x[1] \in Consoles /\ x[2] \in Nat
    BY ConnShape
  <2>2. conn[x[1]] \in Nat
    BY <2>1 DEF FeedInv, FeedTyped
  <2>3. CASE x[1] = c
    BY <1>2, <1>3, <2>1, <2>2, <2>3
  <2>4. CASE x[1] # c
    BY <1>3, <2>1, <2>2, <2>4
  <2> QED BY <2>3, <2>4
<1>9. ConnsKnown'
  <2>1. ASSUME NEW x \in asked' \cup clients' PROVE x[2] <= conn'[x[1]]
    <3>1. CASE x = y
      BY <1>2, <1>3, <3>1
    <3>2. CASE x # y
      <4>1. x \in asked \cup clients
        BY <1>1, <2>1, <3>2
      <4> QED BY <1>7, <1>8, <4>1
    <3> QED BY <3>1, <3>2
  <2>2. asked' \cap clients' = {}
    BY <1>1, <1>7 DEF FeedInv, ConnsKnown
  <2>3. ASSUME NEW x \in Conns, x \in asked' \/ conn'[x[1]] < x[2]
        PROVE  wire'[x] = <<>> /\ withheld'[x] = {}
    <3>1. x \in asked \/ conn[x[1]] < x[2]
      <4>1. CASE x = y
        BY <1>2, <4>1
      <4>2. CASE x # y
        BY <1>1, <1>8, <2>3, <4>2
      <4> QED BY <4>1, <4>2
    <3> QED BY <1>1, <3>1 DEF FeedInv, ConnsKnown
  <2>4. ASSUME NEW d \in Consoles, Current(d)' \in asked' PROVE feed'[d] = <<>>
    BY <1>1, <1>3, <1>6, <2>4 DEF FeedInv, ConnsKnown
  <2> QED BY <2>1, <2>2, <2>3, <2>4 DEF ConnsKnown
<1>10. Streams'
  <2>1. Stream(c)'
    BY <1>1, <1>6, <1>7 DEF Stream
  <2>2. ASSUME NEW d \in Consoles \ {c} PROVE Stream(d)'
    <3>1. Stream(d)
      BY DEF FeedInv, Streams
    <3> QED BY <1>1, <1>3, <1>6, <2>2, <3>1, StreamStays DEF bus
  <2> QED BY <2>1, <2>2 DEF Streams
<1> QED BY <1>4, <1>5, <1>9, <1>10 DEF FeedInv

LEMMA ReceiveStep ==
  ASSUME FeedInv, NEW c \in Consoles, Receive(c)
  PROVE  FeedInv'
<1> DEFINE x == Current(c)
           w == wire[x]
           e == w[1].events
<1>1. /\ page[c] \in {"connecting", "open"} /\ w # <<>> /\ wire' = [wire EXCEPT ![x] = Tail(w)]
      /\ page' = [page EXCEPT ![c] = CASE Head(w).type = "open" -> "open"
                                       [] Head(w).type = "close" -> "waiting"
                                       [] OTHER -> page[c]]
      /\ shown' = [shown EXCEPT ![c] = Capped(shown[c] \o Head(w).events)]
      /\ feed' = [feed EXCEPT ![c] = feed[c] \o Head(w).events]
      /\ UNCHANGED <<bus, asked, clients, left, conn, since, withheld>>
  BY DEF Receive
<1>2. conn[c] > 0 /\ x \in Conns /\ w \in Seq(Frames)
  <2>1. conn[c] \in Nat /\ conn[c] # 0
    BY <1>1 DEF FeedInv, FeedTyped
  <2>2. x \in Conns
    BY <2>1, CurrentKnown DEF FeedInv
  <2> QED BY <2>1, <2>2 DEF FeedInv, FeedTyped
<1>3. /\ Len(w) \in Nat \ {0} /\ Head(w) = w[1] /\ w[1] \in Frames
      /\ Tail(w) \in Seq(Frames) /\ Len(Tail(w)) = Len(w) - 1
      /\ \A i \in 1 .. Len(w) - 1 : Tail(w)[i] = w[i + 1]
  <2> HIDE DEF w
  <2> QED BY <1>1, <1>2
<1>4. e \in Seq(Nat) /\ feed[c] \in Seq(Nat) /\ shown[c] \in Seq(Nat)
  BY <1>3 DEF Frames, FeedInv, FeedTyped
<1>5. /\ feed[c] \o e \in Seq(Nat) /\ shown[c] \o e \in Seq(Nat)
      /\ Capped(shown[c] \o e) \in Seq(Nat) /\ Len(Capped(shown[c] \o e)) <= MaxShown
  <2> HIDE DEF e
  <2>1. feed[c] \o e \in Seq(Nat) /\ shown[c] \o e \in Seq(Nat)
    BY <1>4
  <2> QED BY <2>1, CappedEnd
<1>6. /\ wire'[x] = Tail(w) /\ feed'[c] = feed[c] \o e /\ shown'[c] = Capped(shown[c] \o e)
      /\ \A y \in Conns : y # x => wire'[y] = wire[y]
      /\ page'[c] \in {"off", "waiting", "connecting", "open"}
      /\ \A d \in Consoles \ {c} : /\ page'[d] = page[d] /\ feed'[d] = feed[d]
                                   /\ shown'[d] = shown[d]
  <2>1. page[c] \in {"off", "waiting", "connecting", "open"}
    BY DEF FeedInv, FeedTyped
  <2> QED BY <1>1, <1>2, <1>3, <2>1 DEF FeedInv, FeedTyped
<1>7. FeedTyped'
  <2>1. wire' \in [Conns -> Seq(Frames)]
    BY <1>1, <1>2, <1>3 DEF FeedInv, FeedTyped
  <2>2. /\ feed' \in [Consoles -> Seq(Nat)] /\ shown' \in [Consoles -> Seq(Nat)]
    BY <1>1, <1>3, <1>5 DEF FeedInv, FeedTyped
  <2>3. page' \in [Consoles -> {"off", "waiting", "connecting", "open"}]
    BY <1>1, <1>6 DEF FeedInv, FeedTyped
  <2>4. \A d \in Consoles : conn[d] = 0 => page'[d] = "off"
    BY <1>2, <1>6 DEF FeedInv, FeedTyped
  <2> QED BY <1>1, <2>1, <2>2, <2>3, <2>4 DEF FeedInv, FeedTyped, bus
<1>8. Stream(c)'
  <2> SUFFICES ASSUME x \in clients \ left
               PROVE  /\ InOrder(Segments(c)')
                      /\ Content(Segments(c)') =
                           (since[x] - Backlog(x) + 1 .. emitted) \ withheld[x]
    BY <1>1 DEF Stream, Backlog, Current, InOrder, Content, bus
  <2> DEFINE g == Segments(c)
             h == Segments(c)'
  <2>1. InOrder(g) /\ Content(g) = (since[x] - Backlog(x) + 1 .. emitted) \ withheld[x]
    BY <1>1, <1>2 DEF FeedInv, Streams, Stream
  <2>2. /\ g \in Seq(Seq(Nat)) /\ Len(g) = Len(w) + 1 /\ g[1] = feed[c]
        /\ \A i \in 1 .. Len(w) : g[i + 1] = w[i].events
    BY <1>2, SegmentsOf DEF FeedInv
  <2>3. /\ h \in Seq(Seq(Nat)) /\ Len(h) = Len(wire'[x]) + 1 /\ h[1] = feed'[c]
        /\ \A i \in 1 .. Len(wire'[x]) : h[i + 1] = wire'[x][i].events
    <3>1. feed'[c] \in Seq(Nat) /\ wire'[x] \in Seq(Frames) /\ Current(c)' = x
      BY <1>1, <1>3, <1>5, <1>6 DEF Current
    <3>2. h = <<feed'[c]>> \o [i \in DOMAIN wire'[x] |-> wire'[x][i].events]
      BY <3>1 DEF Segments
    <3> QED BY <3>1, <3>2, SegmentsShape
  <2> HIDE DEF g, h, w
  <2>4. /\ Len(g) >= 2 /\ Len(h) = Len(g) - 1 /\ g[2] = w[1].events /\ h[1] = g[1] \o g[2]
    <3>1. g[1 + 1] = w[1].events /\ 1 + 1 = 2
      BY <1>3, <2>2
    <3>2. Len(g) >= 2 /\ Len(h) = Len(g) - 1
      BY <1>3, <1>6, <2>2, <2>3
    <3>3. h[1] = g[1] \o g[2]
      BY <1>6, <2>2, <2>3, <3>1 DEF e
    <3> QED BY <3>1, <3>2, <3>3
  <2>5. ASSUME NEW i \in 2 .. Len(h) PROVE h[i] = g[i + 1]
    <3> DEFINE k == i - 1
    <3>1. k \in 1 .. Len(w) - 1 /\ k + 1 = i /\ k \in 1 .. Len(wire'[x]) /\ i \in 1 .. Len(w)
      BY <1>3, <1>6, <2>2, <2>4
    <3> HIDE DEF k
    <3>2. h[k + 1] = wire'[x][k].events /\ wire'[x][k] = w[k + 1] /\ g[i + 1] = w[i].events
      BY <1>3, <1>6, <2>2, <2>3, <3>1
    <3> QED BY <3>1, <3>2
  <2>6. InOrder(h) /\ Content(h) = Content(g)
    BY <2>1, <2>2, <2>3, <2>4, <2>5, MergeInOrder
  <2> QED BY <2>1, <2>6 DEF h
<1>9. Len(shown'[c]) <= MaxShown /\ EndAlike(shown'[c], feed'[c])
  <2>1. EndAlike(shown[c], feed[c])
    BY DEF FeedInv, ShownEnds
  <2> HIDE DEF e
  <2> QED BY <1>4, <1>5, <1>6, <2>1, ConcatEnds
<1>10. x \notin asked
  BY <1>1, <1>2 DEF FeedInv, ConnsKnown
<1> HIDE DEF x, w, e
<1>11. x = Current(c)
  BY DEF x
<1> QED BY <1>1, <1>6, <1>7, <1>8, <1>9, <1>10, <1>11, PageMoves DEF w

LEMMA LetsGoStep ==
  ASSUME FeedInv, NEW c \in Consoles, LetsGo(c), page[c] # "off",
         page' = [page EXCEPT ![c] = "waiting"] \/ page' = [page EXCEPT ![c] = "off"],
         UNCHANGED <<bus, asked, clients, conn, shown>>
  PROVE  FeedInv'
<1> DEFINE x == Current(c)
<1>1. /\ left' = left \cup {x} /\ wire' = [wire EXCEPT ![x] = <<>>]
      /\ since' = [since EXCEPT ![x] = 0] /\ withheld' = [withheld EXCEPT ![x] = {}]
      /\ feed' = [feed EXCEPT ![c] = <<>>]
  BY DEF LetsGo
<1>2. conn[c] > 0 /\ x \in Conns
  <2>1. conn[c] \in Nat /\ conn[c] # 0
    BY DEF FeedInv, FeedTyped
  <2> QED BY <2>1, CurrentKnown DEF FeedInv
<1>3. <<>> \in Seq(Frames) /\ <<>> \in Seq(Nat) /\ 0 \in 0 .. emitted
  BY DEF FeedInv, RingHolds
<1>4. FeedTyped'
  <2>1. /\ wire' \in [Conns -> Seq(Frames)] /\ feed' \in [Consoles -> Seq(Nat)]
        /\ since' \in [Conns -> 0 .. emitted] /\ withheld' \in [Conns -> SUBSET (1 .. emitted)]
    BY <1>1, <1>3 DEF FeedInv, FeedTyped
  <2>2. /\ page' \in [Consoles -> {"off", "waiting", "connecting", "open"}]
        /\ \A d \in Consoles : conn[d] = 0 => page'[d] = "off"
    BY <1>2 DEF FeedInv, FeedTyped
  <2> QED BY <2>1, <2>2 DEF FeedInv, FeedTyped, bus
<1>5. /\ wire'[x] = <<>> /\ withheld'[x] = {} /\ feed'[c] = <<>>
      /\ \A y \in Conns : y # x => /\ wire'[y] = wire[y] /\ since'[y] = since[y]
                                   /\ withheld'[y] = withheld[y]
      /\ \A d \in Consoles \ {c} : page'[d] = page[d] /\ feed'[d] = feed[d]
  BY <1>1, <1>2 DEF FeedInv, FeedTyped
<1>6. Stream(c)'
  <2>1. Current(c)' = x /\ x \in left'
    BY <1>1 DEF Current
  <2> QED BY <2>1 DEF Stream
<1>7. EndAlike(shown[c], feed'[c]) /\ Len(shown[c]) <= MaxShown
  BY <1>5 DEF EndAlike, FeedInv, ShownEnds
<1> QED BY <1>1, <1>4, <1>5, <1>6, <1>7, PageMoves

LEMMA DisableStep ==
  ASSUME FeedInv, NEW c \in Consoles, Disable(c)
  PROVE  FeedInv'
<1>1. /\ page[c] # "off" /\ page' = [page EXCEPT ![c] = "off"]
      /\ UNCHANGED <<bus, asked, clients, conn, shown>>
  BY DEF Disable
<1>2. CASE page[c] # "waiting"
  BY <1>1, <1>2, LetsGoStep DEF Disable
<1>3. CASE page[c] = "waiting"
  <2>1. UNCHANGED <<left, wire, since, feed, withheld>>
    BY <1>3 DEF Disable, ghosts
  <2>2. page'[c] = "off" /\ \A d \in Consoles \ {c} : page'[d] = page[d]
    BY <1>1 DEF FeedInv, FeedTyped
  <2>3. FeedTyped'
    <3>1. /\ page' \in [Consoles -> {"off", "waiting", "connecting", "open"}]
          /\ \A d \in Consoles : conn[d] = 0 => page'[d] = "off"
      BY <1>1 DEF FeedInv, FeedTyped
    <3> QED BY <1>1, <2>1, <3>1 DEF FeedInv, FeedTyped, bus
  <2>4. Stream(c)'
    BY <2>2 DEF Stream
  <2>5. Len(shown[c]) <= MaxShown /\ EndAlike(shown[c], feed[c])
    BY DEF FeedInv, ShownEnds
  <2>6. Current(c) \in asked => feed[c] = <<>>
    BY DEF FeedInv, ConnsKnown
  <2> QED BY <1>1, <2>1, <2>2, <2>3, <2>4, <2>5, <2>6, PageMoves
<1> QED BY <1>2, <1>3

LEMMA ClearStep ==
  ASSUME FeedInv, NEW c \in Consoles, Clear(c)
  PROVE  FeedInv'
<1>1. /\ shown' = [shown EXCEPT ![c] = <<>>]
      /\ UNCHANGED <<bus, asked, clients, left, wire, page, conn, since, feed, withheld>>
  BY DEF Clear, sockets, ghosts
<1>2. shown'[c] = <<>> /\ \A d \in Consoles \ {c} : shown'[d] = shown[d]
  BY <1>1 DEF FeedInv, FeedTyped
<1>3. FeedTyped'
  <2>1. shown' \in [Consoles -> Seq(Nat)]
    BY <1>1 DEF FeedInv, FeedTyped
  <2> QED BY <1>1, <2>1 DEF FeedInv, FeedTyped, bus
<1>4. Stream(c)'
  <2>1. Stream(c)
    BY DEF FeedInv, Streams
  <2> QED BY <1>1, <2>1, StreamStays DEF bus
<1>5. Len(shown'[c]) <= MaxShown /\ EndAlike(shown'[c], feed[c])
  BY <1>2, FeedAssumption DEF EndAlike
<1>6. Current(c) \in asked => feed[c] = <<>>
  BY DEF FeedInv, ConnsKnown
<1> QED BY <1>1, <1>2, <1>3, <1>4, <1>5, <1>6, PageMoves

LEMMA UpgradeStep ==
  ASSUME FeedInv, NEW x \in Conns, Upgrade(x)
  PROVE  FeedInv'
<1> DEFINE greeting == <<Opened, Frame("history", GetRecent)>>
           joins == /\ clients' = clients \cup {x}
                    /\ wire' = [wire EXCEPT ![x] = IF x \in left THEN <<>> ELSE greeting]
                    /\ since' = [since EXCEPT ![x] = IF x \in left THEN 0 ELSE emitted]
<1>1. /\ x \in asked /\ asked' = asked \ {x}
      /\ UNCHANGED <<bus, left, page, conn, shown, feed, withheld>>
  BY DEF Upgrade, hook
<1>2. GetRecent \in Seq(Nat)
  BY RecentInOrder DEF FeedInv
<1>3. /\ Opened \in Frames /\ Closes \in Frames /\ Frame("history", GetRecent) \in Frames
      /\ Opened.events = <<>> /\ Frame("history", GetRecent).events = GetRecent
  BY <1>2 DEF Opened, Closes, Frame, Frames
<1>4. \/ joins
      \/ /\ UNCHANGED <<clients, since>>
         /\ \E w \in Seq(Frames) : wire' = [wire EXCEPT ![x] = w]
  <2>1. /\ <<>> \in Seq(Frames) /\ <<Closes>> \in Seq(Frames) /\ <<Opened, Closes>> \in Seq(Frames)
    BY <1>3
  <2>2. \A frames \in Seq(Frames) :
          Greets(x, frames) => \E w \in Seq(Frames) : wire' = [wire EXCEPT ![x] = w]
    BY <2>1 DEF Greets
  <2>3. CASE Greets(x, <<Closes>>) /\ UNCHANGED <<clients, since>>
    BY <2>1, <2>2, <2>3
  <2>4. CASE Open(x)
    <3>1. CASE Cardinality(clients) >= MaxDebugClients
      BY <2>1, <2>2, <2>4, <3>1 DEF Open
    <3>2. CASE ~(Cardinality(clients) >= MaxDebugClients)
      BY <2>4, <3>2 DEF Open, Greets
    <3> QED BY <3>1, <3>2
  <2> QED BY <2>3, <2>4 DEF Upgrade
<1>5. greeting \in Seq(Frames) /\ <<>> \in Seq(Frames) /\ Len(greeting) = 2
      /\ greeting[1] = Opened /\ greeting[2] = Frame("history", GetRecent)
  BY <1>3
<1> HIDE DEF greeting
<1>6. /\ wire' \in [Conns -> Seq(Frames)] /\ since' \in [Conns -> 0 .. emitted]
      /\ clients \subseteq clients' /\ clients' \subseteq clients \cup {x}
      /\ \A y \in Conns : y # x => wire'[y] = wire[y] /\ since'[y] = since[y]
  <2>1. 0 \in 0 .. emitted /\ emitted \in 0 .. emitted
    BY DEF FeedInv, RingHolds
  <2>2. CASE joins
    BY <1>5, <2>1, <2>2 DEF FeedInv, FeedTyped
  <2>3. CASE /\ UNCHANGED <<clients, since>>
             /\ \E w \in Seq(Frames) : wire' = [wire EXCEPT ![x] = w]
    BY <2>3 DEF FeedInv, FeedTyped
  <2> QED BY <1>4, <2>2, <2>3
<1>7. FeedTyped'
  BY <1>1, <1>6 DEF FeedInv, FeedTyped, bus
<1>8. RingHolds' /\ ShownEnds' /\ \A c \in Consoles : Current(c)' = Current(c)
  BY <1>1 DEF FeedInv, RingHolds, ShownEnds, EndAlike, Current, bus
<1>9. /\ x \notin clients /\ withheld[x] = {} /\ x[2] <= conn[x[1]]
      /\ \A c \in Consoles : Current(c) = x => feed[c] = <<>>
  BY <1>1 DEF FeedInv, ConnsKnown
<1>10. ConnsKnown'
  <2>1. ~(conn[x[1]] < x[2])
    <3>1. conn[x[1]] \in Nat /\ x[2] \in Nat
      BY ConnShape DEF FeedInv, FeedTyped
    <3> QED BY <1>9, <3>1
  <2>2. ASSUME NEW y \in Conns, y \in asked' \/ conn'[y[1]] < y[2]
        PROVE  wire'[y] = <<>> /\ withheld'[y] = {}
    <3>1. y # x
      BY <1>1, <2>1, <2>2
    <3> QED BY <1>1, <1>6, <2>2, <3>1 DEF FeedInv, ConnsKnown
  <2>3. asked' \cap clients' = {} /\ \A y \in asked' \cup clients' : y[2] <= conn'[y[1]]
    BY <1>1, <1>6, <1>9 DEF FeedInv, ConnsKnown
  <2>4. \A c \in Consoles : Current(c)' \in asked' => feed'[c] = <<>>
    BY <1>1, <1>8 DEF FeedInv, ConnsKnown
  <2> QED BY <2>2, <2>3, <2>4 DEF ConnsKnown
<1>11. Streams'
  <2>1. ASSUME NEW c \in Consoles, Current(c) # x PROVE Stream(c)'
    <3>1. CASE conn[c] > 0
      <4>1. Current(c) \in Conns /\ Stream(c)
        BY <3>1, CurrentKnown DEF FeedInv, Streams
      <4>2. wire'[Current(c)] = wire[Current(c)] /\ since'[Current(c)] = since[Current(c)]
        BY <1>6, <2>1, <4>1
      <4>3. Current(c) \in clients' \ left' => Current(c) \in clients \ left
        BY <1>1, <1>6, <2>1
      <4> QED BY <1>1, <4>1, <4>2, <4>3, StreamStays DEF bus
    <3>2. CASE ~(conn[c] > 0)
      BY <1>1, <3>2 DEF Stream
    <3> QED BY <3>1, <3>2
  <2>2. ASSUME NEW c \in Consoles, Current(c) = x PROVE Stream(c)'
    <3>1. CASE x \in clients' /\ x \notin left
      <4>1. /\ wire'[x] = greeting /\ since'[x] = emitted /\ feed'[c] = <<>> /\ withheld'[x] = {}
        BY <1>1, <1>4, <1>9, <2>2, <3>1 DEF FeedInv, FeedTyped
      <4> DEFINE h == Segments(c)'
      <4>2. /\ h \in Seq(Seq(Nat)) /\ Len(h) = 3 /\ h[1] = <<>> /\ h[2] = <<>> /\ h[3] = GetRecent
        <5>1. h = <<feed'[c]>> \o [i \in DOMAIN greeting |-> greeting[i].events]
          BY <1>8, <2>2, <4>1 DEF Segments
        <5>2. feed'[c] \in Seq(Nat)
          BY <4>1
        <5> HIDE DEF h
        <5>3. /\ h \in Seq(Seq(Nat)) /\ Len(h) = Len(greeting) + 1 /\ h[1] = feed'[c]
              /\ \A i \in 1 .. Len(greeting) : h[i + 1] = greeting[i].events
          BY <1>5, <5>1, <5>2, SegmentsShape
        <5>4. 1 \in 1 .. Len(greeting) /\ 2 \in 1 .. Len(greeting) /\ Len(h) = 3
          BY <1>5, <5>3
        <5>5. h[1 + 1] = greeting[1].events /\ h[2 + 1] = greeting[2].events
          BY <5>3, <5>4
        <5> QED BY <1>3, <1>5, <4>1, <5>3, <5>4, <5>5
      <4> HIDE DEF h
      <4>3. /\ Rising(GetRecent)
            /\ ToSet(GetRecent) = emitted - Min({emitted, Buffer, History}) + 1 .. emitted
        BY RecentInOrder DEF FeedInv
      <4>4. DOMAIN h = {1, 2, 3} /\ ToSet(<<>>) = {} /\ Rising(<<>>)
        BY <4>2 DEF ToSet, Rising
      <4>5. ToSet(h[1]) = {} /\ ToSet(h[2]) = {} /\ ToSet(h[3]) = ToSet(GetRecent)
        BY <4>2, <4>4
      <4>6. Content(h) = ToSet(GetRecent)
        BY <4>4, <4>5 DEF Content
      <4>7. InOrder(h)
        <5>1. ASSUME NEW i \in DOMAIN h PROVE Rising(h[i])
          BY <4>2, <4>3, <4>4
        <5>2. ASSUME NEW i \in DOMAIN h, NEW j \in DOMAIN h, i < j,
                     NEW m \in ToSet(h[i]), NEW n \in ToSet(h[j])
              PROVE  m < n
          <6>1. i \in {1, 2}
            BY <4>4, <5>2
          <6> QED BY <4>5, <5>2, <6>1
        <5> QED BY <5>1, <5>2 DEF InOrder
      <4>8. Backlog(x)' = Min({emitted, Buffer, History})
        BY <4>1, <2>2, <1>8 DEF Backlog
      <4>9. /\ InOrder(Segments(c))'
            /\ Content(Segments(c))' = (since'[x] - Backlog(x)' + 1 .. emitted) \ withheld'[x]
        BY <4>1, <4>3, <4>6, <4>7, <4>8 DEF h, InOrder, Content
      <4> QED BY <1>1, <1>8, <2>2, <4>9 DEF Stream, bus
    <3>2. CASE ~(x \in clients' /\ x \notin left)
      BY <1>1, <1>8, <2>2, <3>2 DEF Stream
    <3> QED BY <3>1, <3>2
  <2> QED BY <2>1, <2>2 DEF Streams
<1> QED BY <1>7, <1>8, <1>10, <1>11 DEF FeedInv

LEMMA FeedStep == FeedInv /\ [Next]_vars => FeedInv'
<1> SUFFICES ASSUME FeedInv, [Next]_vars PROVE FeedInv'
  OBVIOUS
<1>1. ASSUME UNCHANGED <<bus, asked, clients, left, wire, hook, ghosts>> PROVE FeedInv'
  BY <1>1, FeedSame DEF hook, ghosts
<1>2. CASE \E a \in Addrs : Visit(a)
  BY <1>1, <1>2 DEF Visit, sockets
<1>3. CASE Tick
  BY <1>1, <1>3 DEF Tick, sockets
<1>4. CASE Emit \/ Shutdown \/ Exit
  BY <1>4, EmitStep, DownStep
<1>5. CASE \E x \in Conns : Upgrade(x) \/ Closed(x)
  BY <1>5, UpgradeStep, ClosedStep
<1>6. CASE \E x \in Conns : \E k \in Filters : Subscribe(x, k)
  BY <1>1, <1>6 DEF Subscribe
<1>7. CASE \E c \in Consoles : Connect(c) \/ Receive(c)
  BY <1>7, ConnectStep, ReceiveStep
<1>8. ASSUME NEW c \in Consoles, Drop(c) PROVE FeedInv'
  BY <1>8, LetsGoStep DEF Drop
<1>9. CASE \E c \in Consoles : Drop(c) \/ Disable(c) \/ Clear(c)
  BY <1>8, <1>9, DisableStep, ClearStep
<1>10. CASE UNCHANGED vars
  BY <1>1, <1>10 DEF vars, sockets
<1> QED BY <1>2, <1>3, <1>4, <1>5, <1>6, <1>7, <1>9, <1>10 DEF Next

LEMMA FeedInitially == Init => FeedInv
<1> SUFFICES ASSUME Init PROVE FeedInv
  OBVIOUS
<1>1. <<>> \in Seq(Nat) /\ <<>> \in Seq(Frames) /\ Len(<<>>) = 0 /\ 0 \in 0 .. emitted
  BY DEF Init
<1>2. FeedTyped
  BY <1>1, FeedAssumption DEF Init, FeedTyped
<1>3. RingHolds
  <2>1. /\ Buffer \in Nat \ {0} /\ emitted = 0 /\ head = 0 /\ count = 0
        /\ ring = [i \in 0 .. Buffer - 1 |-> 0]
    BY FeedAssumption DEF Init
  <2>2. \A i \in 0 .. count - 1 : ring[i] = i + 1
    BY <2>1
  <2> QED BY <2>1, <2>2 DEF RingHolds
<1>4. ConnsKnown
  BY <1>1 DEF Init, ConnsKnown
<1>5. Streams
  BY DEF Init, Streams, Stream
<1>6. ShownEnds
  BY <1>1, FeedAssumption DEF Init, ShownEnds, EndAlike
<1> QED BY <1>2, <1>3, <1>4, <1>5, <1>6 DEF FeedInv

LEMMA FeedEnough == FeedInv => FeedUnbroken
<1> SUFFICES ASSUME FeedInv, NEW c \in Consoles
             PROVE  /\ Stream(c)
                    /\ IsSuffix(shown[c], feed[c]) \/ IsSuffix(Capped(feed[c]), shown[c])
  BY DEF FeedUnbroken, Stream
<1>1. Stream(c)
  BY DEF FeedInv, Streams
<1>2. /\ shown[c] \in Seq(Nat) /\ feed[c] \in Seq(Nat) /\ Len(shown[c]) <= MaxShown
      /\ EndAlike(shown[c], feed[c])
  BY DEF FeedInv, FeedTyped, ShownEnds
<1>3. CASE Len(shown[c]) <= Len(feed[c])
  BY <1>1, <1>2, <1>3, SuffixByEnd
<1>4. CASE Len(feed[c]) < Len(shown[c])
  <2>1. EndAlike(feed[c], shown[c]) /\ Len(feed[c]) <= Len(shown[c]) /\ Len(feed[c]) <= MaxShown
    <3>1. /\ Len(feed[c]) \in Nat /\ Len(shown[c]) \in Nat /\ MaxShown \in Nat
          /\ Len(feed[c]) <= Len(shown[c]) /\ Len(feed[c]) <= MaxShown
      BY <1>2, <1>4, FeedAssumption
    <3>2. \A k \in 1 .. Len(feed[c]) : k \in 1 .. Len(shown[c]) /\ k <= Len(feed[c])
      BY <3>1
    <3> QED BY <1>2, <3>1, <3>2 DEF EndAlike
  <2>2. Capped(feed[c]) = feed[c]
    BY <1>2, <2>1, CappedEnd
  <2> QED BY <1>1, <1>2, <2>1, <2>2, SuffixByEnd
<1> QED BY <1>1, <1>2, <1>3, <1>4

(***************************************************************************)
(* What a subscribed console has been delivered, with what is under way to *)
(* it, is the recent history and every later event that its filter lets    *)
(* through, each once and in order, however often the ring of DebugBus has *)
(* wrapped around; and its list ends with that.                            *)
(***************************************************************************)
THEOREM FeedCorrect == DashSpec => []FeedUnbroken
<1>1. DashInit => FeedInv
  BY FeedInitially DEF DashInit
<1>2. FeedInv /\ [DashNext]_dashVars => FeedInv'
  <2>1. [DashNext]_dashVars => [Next]_vars
    BY DEF DashNext, dashVars
  <2> QED BY <2>1, FeedStep
<1> QED BY <1>1, <1>2, FeedEnough, PTL DEF DashSpec
=============================================================================
