---------------------------- MODULE ResourcePages ----------------------------
(***************************************************************************)
(* The pages of the dashboard that show what the server holds and change   *)
(* it: agents, automation (crons), sessions, settings.  A page is rendered *)
(* from what the server answers; its cards and dialogs then send requests  *)
(* of their own (lib/api.ts) and ask the router to render it again.  One   *)
(* tab is followed; a cell of a row stands for all fields that the page    *)
(* treats alike, and 0 for what is not set or not filled in.               *)
(*                                                                         *)
(* External: the router of Next.js, which renders one refresh after the    *)
(* other; other tabs, agents and clients; the awaits of the routes.        *)
(***************************************************************************)
EXTENDS Naturals

CONSTANTS
  Pages,          \* pages the tab may show
  MaxCalls,       \* bound: requests of the tab
  MaxEdits,       \* bound: cells changed in a form
  MaxElsewhere,   \* bound: changes made elsewhere, and restarts
  MaxIds          \* bound: rows created, those of the start included

ASSUME PagesAssumption == {MaxCalls, MaxEdits, MaxElsewhere, MaxIds} \subseteq Nat

VARIABLES
  tab,        \* the page shown
  rows,       \* what the server holds, by id (the configuration has id 1)
  born,       \* ids given out so far
  file,       \* config.json: the cells overridden
  props,      \* what the page was last rendered with
  held,       \* what the form of each mounted card keeps in useState
  editing,    \* the card whose form is open, 0 if none
  form,       \* the cells in that form
  busy,       \* the controls that are disabled, as <<control, id>>
  calls,      \* requests of the tab, at the server or on their way back
  made, edits, elsewhere,   \* counters for the bounds
  refreshes,  \* router.refresh() asked for
  render,     \* what a refresh has read from the server, if one is under way
  touched,    \* ghost: cells the user has changed in the open form
  sound,      \* ghost: the open form was filled from what the server held
  strayed,    \* ghost: rows changed otherwise than through their form, and
              \*        forms left without saving
  disturbed,  \* ghost: the server may have changed unknown to the page
  unsaved     \* ghost: a write of config.json has failed

server  == <<rows, born, file, unsaved>>
client  == <<props, held, editing, form, touched, sound>>
bounds  == <<made, edits, elsewhere>>
router  == <<refreshes, render>>
pageVars == <<tab, server, client, busy, calls, bounds, router, strayed, disturbed>>

(* Three cells stand for the kinds there are.  `name` is read from the     *)
(* props whenever a form opens.  `option` is kept in useState from when    *)
(* the card is mounted, and so outlives a form that is closed: an agent's  *)
(* backend; a cron's timezone, steps and `enabled`; on the settings page   *)
(* both cells.  `tools` is never filled in: an agent's tools and           *)
(* permissions.                                                            *)
Cells == {"name", "option", "tools"}
Held(f) == f = "option" \/ tab = "settings"

(* An agent's backend is none of its own, the platform's default by name,  *)
(* or another.                                                             *)
DefaultBackend == 1
OfAgent(f) == tab = "agents" /\ f = "option"
Values(f) == IF OfAgent(f) THEN 0 .. 2 ELSE 0 .. 1

FirstRow == [f \in Cells |-> 1]
NewAgent == [FirstRow EXCEPT !.option = 0]
Nothing == [f \in {} |-> 0]

(* The value of g where it has one, and of f elsewhere. *)
Override(f, g) ==
  [x \in DOMAIN f \cup DOMAIN g |-> IF x \in DOMAIN g THEN g[x] ELSE f[x]]

(* toRuntimeInfo(): an agent is listed with the backend it runs on. *)
Listed(row) ==
  [f \in DOMAIN row |-> IF OfAgent(f) /\ row[f] = 0 THEN DefaultBackend ELSE row[f]]
Listing == [i \in DOMAIN rows |-> Listed(rows[i])]

AgentFormBlank(id) == [name |-> 0, option |-> held[id].option, tools |-> 0]

(* What the forms are filled with. *)
AgentForm(id) == [name |-> props[id].name, option |-> held[id].option, tools |-> 0]
CronForm(id) == [name |-> props[id].name, option |-> held[id].option]
ConfigForm(row) == [name |-> row.name, option |-> row.option]

(* ConfigManager.initialize(). *)
AtBoot == Override(FirstRow, file)

PageInit ==
  /\ tab \in Pages
  /\ rows = [i \in {1} |-> IF tab = "agents" THEN NewAgent ELSE FirstRow]
  /\ born = 1
  /\ file = Nothing
  /\ props = Listing
  /\ held = props
  /\ IF tab = "settings" THEN editing = 1 /\ form = ConfigForm(FirstRow)
     ELSE editing = 0 /\ form = Nothing
  /\ busy = {} /\ calls = {}
  /\ made = 0 /\ edits = 0 /\ elsewhere = 0
  /\ refreshes = 0 /\ render = <<>>
  /\ touched = {} /\ sound = TRUE /\ strayed = {} /\ disturbed = FALSE
  /\ unsaved = FALSE

-----------------------------------------------------------------------------
(* Forms. *)

Type(f) ==
  /\ editing # 0 /\ f \in DOMAIN form
  /\ edits < MaxEdits /\ edits' = edits + 1
  /\ \E v \in Values(f) \ {form[f]} :
       /\ form' = [form EXCEPT ![f] = v]
       /\ held' = IF Held(f) THEN [held EXCEPT ![editing][f] = v] ELSE held
  /\ touched' = touched \cup {f}
  /\ UNCHANGED <<tab, server, props, editing, sound, busy, calls, made, elsewhere, router,
                 strayed, disturbed>>

(* setShowEdit(true): the dialog's content is mounted. *)
OpenForm(id, cells) ==
  /\ editing' = id /\ form' = cells /\ touched' = {}
  /\ sound' = (id \in DOMAIN rows /\ props[id] = Listed(rows[id]))
  /\ UNCHANGED <<tab, server, props, held, busy, calls, bounds, router, strayed, disturbed>>

Unmounted == editing' = 0 /\ form' = Nothing /\ touched' = {} /\ sound' = TRUE

(* onOpenChange(false) by the user, even while the form is being saved.    *)
(* What was changed and not saved stays in useState.                       *)
CloseForm ==
  /\ editing # 0 /\ tab # "settings"
  /\ strayed' = IF \E f \in touched : Held(f) THEN strayed \cup {editing} ELSE strayed
  /\ Unmounted
  /\ UNCHANGED <<tab, server, props, held, busy, calls, bounds, router, disturbed>>

-----------------------------------------------------------------------------
(* Requests, named for the functions of lib/api.ts.  A control is disabled *)
(* while its request is under way; a dialog is modal; what is left out is  *)
(* the check of a form that refuses empty cells.                           *)

Request(control, op, id, body) ==
  /\ <<control, id>> \notin busy /\ busy' = busy \cup {<<control, id>>}
  /\ made < MaxCalls /\ made' = made + 1
  /\ calls' = calls \cup
       {[n |-> made, control |-> control, op |-> op, id |-> id, body |-> body,
         at |-> "server", waits |-> TRUE, mounted |-> TRUE, touched |-> touched,
         sound |-> sound]}
  /\ UNCHANGED <<tab, server, client, edits, elsewhere, router, strayed, disturbed>>

Submit(op, body) == editing # 0 /\ Request("form", op, editing, body)

(* The agents page.  An agent's backend is left out if it is the default.  *)
AgentMenu == tab = "agents" /\ editing = 0
OpenAgentForm(id) == AgentMenu /\ OpenForm(id, AgentForm(id))
SaveAgent ==
  tab = "agents" /\ Submit("updateAgent",
    [f \in IF form.option = 0 THEN Cells \ {"option"} ELSE Cells |-> form[f]])
CreateAgent == AgentMenu /\ Request("create", "createAgent", 0, NewAgent)
RestartAgent(id) == AgentMenu /\ Request("card", "restartAgent", id, Nothing)
DeleteAgent(id) == AgentMenu /\ Request("card", "deleteAgent", id, Nothing)

(* The automation page. *)
CronMenu == tab = "automation" /\ editing = 0
OpenCronForm(id) == CronMenu /\ OpenForm(id, CronForm(id))
SaveCron == tab = "automation" /\ Submit("updateCron", form)
CreateCron == CronMenu /\ Request("create", "createCron", 0, FirstRow)
ToggleCron(id) ==
  CronMenu /\ Request("card", "updateCron", id, [f \in {"option"} |-> 1 - props[id][f]])
TriggerCron(id) == CronMenu /\ Request("card", "triggerCron", id, Nothing)
DeleteCron(id) == CronMenu /\ Request("card", "deleteCron", id, Nothing)

(* The sessions page. *)
SessionMenu == tab = "sessions"
SummarizeSession(id) == SessionMenu /\ Request("card", "summarizeSession", id, Nothing)
DeleteSession(id) == SessionMenu /\ Request("card", "deleteSession", id, Nothing)

(* The settings page. *)
SaveConfig == tab = "settings" /\ Submit("updateConfig", form)
ResetSystem == tab = "settings" /\ Request("danger", "resetSystem", 0, Nothing)

-----------------------------------------------------------------------------
(* The routes. *)

Creates(c) == c.op \in {"createAgent", "createCron"}
Updates(c) == c.op \in {"updateAgent", "updateCron", "updateConfig"}
Deletes(c) == c.op \in {"deleteAgent", "deleteCron", "deleteSession"}
Missing(c) == c.id \notin DOMAIN rows \cup {0}

Without(id) == [i \in DOMAIN rows \ {id} |-> rows[i]]

(* The rows after call c has been carried out; it may work on no row, and  *)
(* a reset leaves the configuration alone.                                 *)
Applied(c) ==
  CASE Creates(c) -> Override(rows, [i \in {born + 1} |-> c.body])
    [] Updates(c) /\ ~Missing(c) -> [rows EXCEPT ![c.id] = Override(@, c.body)]
    [] Deletes(c) -> Without(c.id)
    [] OTHER -> rows

(* What a call may leave.  A call that fails may have been carried out all *)
(* the same, if only its answer is lost or the list of crons not written;  *)
(* and an agent is gone if neither its new nor its old definition starts.  *)
AgentRoutes(c, ok) ==
  IF ok THEN {Applied(c)}
  ELSE {rows, Applied(c)} \cup (IF Updates(c) THEN {Without(c.id)} ELSE {})
CronRoutes(c, ok) == IF ok THEN {Applied(c)} ELSE {rows, Applied(c)}
SessionRoutes(c, ok) == IF ok THEN {Applied(c)} ELSE {rows, Applied(c)}
ConfigRoutes(c, ok) == IF ok THEN {Applied(c)} ELSE {rows, Applied(c)}

Persisted(body) == Override(file, body)

(* ConfigManager.update(): the file after the configuration. *)
Persist(body, ok) ==
  IF tab # "settings" \/ rows' = rows THEN UNCHANGED <<file, unsaved>>
  ELSE \/ file' = Persisted(body) /\ UNCHANGED unsaved
       \/ ~ok /\ unsaved' = TRUE /\ UNCHANGED file

(* A row that is missing is an error, unless it went while a session's     *)
(* deletion was summarizing it.                                            *)
Serve(c, ok) ==
  /\ c.at = "server"
  /\ Creates(c) => born < MaxIds
  /\ ok /\ Missing(c) => c.op = "deleteSession"
  /\ rows' \in CASE tab = "agents" -> AgentRoutes(c, ok)
                 [] tab = "automation" -> CronRoutes(c, ok)
                 [] tab = "sessions" -> SessionRoutes(c, ok)
                 [] tab = "settings" -> ConfigRoutes(c, ok)
  /\ born' = IF Creates(c) THEN born + 1 ELSE born
  /\ Persist(c.body, ok)
  /\ calls' = (calls \ {c}) \cup
       (IF c.waits THEN {[c EXCEPT !.at = IF ok THEN "ok" ELSE "failed"]} ELSE {})
  /\ disturbed' = (disturbed \/ (rows' # rows /\ ~(ok /\ c.waits)))
  /\ strayed' = IF rows' # rows /\ ~(ok /\ c.waits /\ c.control = "form")
                THEN strayed \cup {c.id} ELSE strayed
  /\ UNCHANGED <<tab, client, busy, bounds, router>>

(* Other tabs, clients and agents. *)
Elsewhere ==
  /\ elsewhere < MaxElsewhere /\ elsewhere' = elsewhere + 1
  /\ \E id \in DOMAIN rows :
       /\ strayed' = strayed \cup {id}
       /\ \/ \E f \in IF tab = "agents" THEN Cells ELSE {"name", "option"} :
             \E v \in Values(f) \ {rows[id][f]} :
               LET body == [g \in {f} |-> v] IN
               /\ rows' = [rows EXCEPT ![id] = Override(@, body)]
               /\ Persist(body, TRUE)
          \/ /\ tab # "settings" /\ rows' = Without(id)
             /\ UNCHANGED <<file, unsaved>>
  /\ disturbed' = TRUE
  /\ UNCHANGED <<tab, born, client, busy, calls, made, edits, router>>

(* The server restarts, and with it what its requests were doing.          *)
ServerRestarts ==
  /\ elsewhere < MaxElsewhere /\ elsewhere' = elsewhere + 1
  /\ rows' = IF tab = "settings" THEN [i \in {1} |-> AtBoot] ELSE rows
  /\ strayed' = IF rows' # rows THEN strayed \cup {1} ELSE strayed
  /\ disturbed' = (disturbed \/ rows' # rows)
  /\ unsaved' = FALSE
  /\ calls' = {[c EXCEPT !.at = IF @ = "server" THEN "failed" ELSE @] :
                 c \in {c \in calls : c.at # "server" \/ c.waits}}
  /\ UNCHANGED <<tab, born, file, client, busy, made, edits, router>>

-----------------------------------------------------------------------------
(* Answers. *)

RefreshOnce == refreshes' = IF refreshes = 0 THEN 1 ELSE refreshes

(* router.refresh(). *)
Refresh == refreshes' = refreshes + 1

Release(c) == busy' = IF c.mounted THEN busy \ {<<c.control, c.id>>} ELSE busy

(* onOpenChange(false), even of a dialog opened again meanwhile. *)
FormSaved(c) ==
  /\ Unmounted
  /\ strayed' = IF \E f \in touched : f \notin DOMAIN c.body \/ form[f] # c.body[f]
                THEN strayed \cup {c.id} ELSE strayed

(* The form stays as it is. *)
ConfigSaved(c) ==
  /\ touched' = {f \in touched : form[f] # c.body[f]}
  /\ UNCHANGED <<editing, form, sound, strayed>>

(* A card that is no longer mounted only asks for the refresh. *)
Succeed(c) ==
  /\ c.at = "ok" /\ calls' = calls \ {c}
  /\ Release(c) /\ Refresh
  /\ IF c.control = "form" /\ c.mounted /\ editing = c.id
     THEN IF tab = "settings" THEN ConfigSaved(c) ELSE FormSaved(c)
     ELSE UNCHANGED <<editing, form, touched, sound, strayed>>
  /\ UNCHANGED <<tab, server, props, held, bounds, render, disturbed>>

(* The error is shown, and nothing is read again. *)
Fail(c) ==
  /\ c.at = "failed" /\ calls' = calls \ {c}
  /\ Release(c)
  /\ UNCHANGED <<tab, server, client, bounds, router, strayed, disturbed>>

(* AbortSignal.timeout(): reported as a failure, while the route goes on.  *)
Timeout(c) ==
  /\ c.at = "server" /\ c.waits
  /\ calls' = (calls \ {c}) \cup {[c EXCEPT !.waits = FALSE]}
  /\ Release(c)
  /\ strayed' = IF Updates(c) THEN strayed \cup {c.id} ELSE strayed
  /\ UNCHANGED <<tab, server, client, bounds, router, disturbed>>

(* The page is rendered by the server from what it reads, or without it.   *)
ReadRows ==
  /\ refreshes > 0 /\ render = <<>>
  /\ \/ render' = <<Listing>> /\ disturbed' = FALSE
     \/ render' = <<Nothing>> /\ disturbed' = TRUE
  /\ UNCHANGED <<tab, server, client, busy, calls, bounds, refreshes, strayed>>

(* A card that stays keeps its state, one that is new is mounted, and what *)
(* one that goes was waiting for no longer matters to any.                 *)
Rerender ==
  /\ render # <<>> /\ render' = <<>> /\ refreshes' = refreshes - 1
  /\ LET next == render[1]
         gone == DOMAIN props \ DOMAIN next
         new  == DOMAIN next \ DOMAIN props
     IN  /\ props' = next
         /\ held' = [i \in DOMAIN next |-> IF i \in new THEN next[i] ELSE held[i]]
         /\ busy' = {b \in busy : b[2] \notin gone}
         /\ calls' = {IF c.id \in gone THEN [c EXCEPT !.mounted = FALSE] ELSE c : c \in calls}
         /\ strayed' = strayed \cup {c.id : c \in {c \in calls : c.id \in gone}}
         /\ IF editing \in gone THEN Unmounted
            ELSE IF tab = "settings" /\ new # {}
            THEN /\ editing' = 1 /\ form' = ConfigForm(next[1]) /\ touched' = {}
                 /\ sound' = (next = rows)
            ELSE UNCHANGED <<editing, form, touched, sound>>
  /\ UNCHANGED <<tab, server, bounds, disturbed>>

PageNext ==
  \/ \E f \in Cells : Type(f)
  \/ CloseForm
  \/ SaveAgent \/ CreateAgent \/ SaveCron \/ CreateCron \/ SaveConfig \/ ResetSystem
  \/ \E id \in DOMAIN props :
       \/ OpenAgentForm(id) \/ RestartAgent(id) \/ DeleteAgent(id)
       \/ OpenCronForm(id) \/ ToggleCron(id) \/ TriggerCron(id) \/ DeleteCron(id)
       \/ SummarizeSession(id) \/ DeleteSession(id)
  \/ \E c \in calls :
       \/ \E ok \in BOOLEAN : Serve(c, ok)
       \/ Succeed(c) \/ Fail(c) \/ Timeout(c)
  \/ Elsewhere \/ ServerRestarts
  \/ ReadRows \/ Rerender

-----------------------------------------------------------------------------
(* A page at rest that nothing has disturbed shows what the server holds,  *)
(* whatever requests and refreshes overlapped; and the configuration is    *)
(* what a restart would bring back, unless a write has failed.             *)
QuietPageIsCurrent ==
  /\ calls = {} /\ refreshes = 0 /\ ~disturbed => props = Listing
  /\ tab = "settings" /\ ~unsaved => rows[1] = AtBoot

(* Saving a form leaves the row as it is or writes over the cells its user *)
(* has left alone what the page shows of them (if the form does at all),   *)
(* provided that it was opened on current values and that nothing else has *)
(* changed the row since its card was mounted, nor has a change been given *)
(* up.  The page shows what is held, except of an agent without a backend  *)
(* of its own: any save gives it the name of the default, for good.        *)
SavesKeepTheRest ==
  [][\A c \in calls \ calls' :
       c.control = "form" /\ c.sound /\ c.id \notin strayed \cup (DOMAIN rows \ DOMAIN rows') =>
         \/ rows'[c.id] = rows[c.id]
         \/ \A f \in Cells \ (c.touched \cup {"tools"}) :
              rows'[c.id][f] = Listed(rows[c.id])[f]]_pageVars
=============================================================================
