---------------------------- MODULE ProviderLogin ----------------------------
(***************************************************************************)
(* The credentials of one AI provider, and how the dashboard changes them: *)
(* API keys (server/src/routes/backends.ts, secret-store.ts) and a login   *)
(* through the provider's own CLI.  The latter runs in a terminal: the     *)
(* dialog components/settings/cli-login-terminal.tsx opens a WebSocket,    *)
(* server/src/terminal-ws.ts spawns the CLI behind pty-bridge.py.          *)
(*                                                                         *)
(* A terminal is known by its number.  External: the CLI, which may exit   *)
(* at any time and keeps its login across restarts; the user; other tabs.  *)
(* Left out: the second variable that two providers also take a key from,  *)
(* and the other providers' keys in the same file.                         *)
(***************************************************************************)
EXTENDS Naturals

(* claude's CLI is a REPL that is told /login and /exit, and is polled; pi *)
(* knows API keys only, codex and gemini have a command for the login.     *)
Providers == {"claude", "other", "pi"}

CONSTANTS
  Deployments,   \* the situations considered at the start, each with a bound
                 \* on the changes made elsewhere and restarts
  MaxTerminals   \* bound: clicks that open a terminal

ASSUME DeploymentsAssumption ==
  Deployments \subseteq [provider : Providers, compose : BOOLEAN, file : BOOLEAN,
                         cli : BOOLEAN, changes : Nat]
ASSUME OnlyKeysAssumption == \A d \in Deployments : d.provider = "pi" => ~d.cli
ASSUME TerminalsAssumption == MaxTerminals \in Nat \ {0}

VARIABLES
  provider,  \* which of them it is
  compose,   \* is there a key in the environment the server is started with?
  envKey,    \* the key in process.env: none, that of compose, or one set here
  fileKey,   \* is there a key in secrets.json?
  cli,       \* is the CLI logged in?
  changes,   \* changes still allowed
  drift,     \* ghost: may a restart bring another key than process.env has?
  conn,      \* each terminal's WebSocket
  child,     \* its CLI
  session,   \* alive (and then in `sessions`), exiting as well, or gone
  poll,      \* the poll of the login's state: off until /login is typed
  data,      \* hasReceivedData of the terminal shown
  clicks,    \* clicks on Login, Retry or Switch Account so far
  opened,    \* terminals opened so far
  state,     \* the dialog's state
  current,   \* the terminal it shows, 0 if none
  checks,    \* verifyAuth() under way: unanswered, and by answer
  starts,    \* handleStart() that wait for the logout
  card,      \* the mode the card was last told
  revoked    \* ghost: a credential has gone since the last check

vars == <<provider, compose, envKey, fileKey, cli, changes, drift, conn, child,
          session, poll, data, clicks, opened, state, current, checks, starts,
          card, revoked>>
keys     == <<provider, compose, envKey, fileKey, changes, drift>>
creds    == <<keys, cli>>
sessions == <<child, session, poll>>
dialog   == <<state, current, checks, starts, card, revoked>>

Terminals == 1 .. MaxTerminals
Repl == provider = "claude"
NoChecks == [asked |-> 0, yes |-> 0, no |-> 0]
Mode == IF envKey # "none" THEN "api_key" ELSE IF cli THEN "cli_login" ELSE "none"

(* SecretStore.initialize(): the environment first, then the file. *)
AtBoot == IF compose THEN "compose" ELSE IF fileKey THEN "set" ELSE "none"

Init ==
  /\ \E d \in Deployments :
       /\ provider = d.provider /\ compose = d.compose /\ fileKey = d.file /\ cli = d.cli
       /\ changes = d.changes
  /\ envKey = AtBoot
  /\ drift = FALSE
  /\ conn = [k \in Terminals |-> "none"]
  /\ child = [k \in Terminals |-> "none"]
  /\ session = [k \in Terminals |-> "none"]
  /\ poll = [k \in Terminals |-> "off"]
  /\ data = FALSE /\ clicks = 0 /\ opened = 0
  /\ state = "idle" /\ current = 0
  /\ checks = NoChecks /\ starts = 0
  /\ card = Mode /\ revoked = FALSE

-----------------------------------------------------------------------------
(* Credentials. *)

Changes == changes > 0 /\ changes' = changes - 1

KeepsKeys == UNCHANGED fileKey

RemoveBackendKeys == fileKey' = FALSE

(* persist() may fail before the file is opened, half-way or at the chmod. *)
WriteFails == fileKey' \in BOOLEAN /\ drift' = TRUE

(* applyApiKey() with a key: process.env first, and a write that may fail. *)
SetKey ==
  /\ Changes
  /\ envKey' = "set"
  /\ \/ fileKey' = TRUE /\ drift' = compose
     \/ WriteFails
  /\ UNCHANGED <<provider, compose, cli, conn, sessions, data, clicks, opened, dialog>>

ClearKey ==
  /\ Changes
  /\ envKey' = "none"
  /\ \/ RemoveBackendKeys /\ drift' = compose
     \/ fileKey /\ WriteFails
  /\ revoked' = TRUE
  /\ UNCHANGED <<provider, compose, cli, conn, sessions, data, clicks, opened, state,
                 current, checks, starts, card>>

(* logout() of a CLI, which may fail: process.env keeps the key. *)
CliLogout ==
  /\ provider # "pi"
  /\ cli' \in {cli, FALSE} /\ UNCHANGED envKey
  /\ \/ RemoveBackendKeys /\ drift' = (drift \/ (fileKey /\ ~compose))
     \/ fileKey /\ WriteFails

(* pi's logout() deletes the key from process.env. *)
KeyLogout ==
  /\ provider = "pi"
  /\ envKey' = "none" /\ UNCHANGED cli
  /\ \/ RemoveBackendKeys /\ drift' = compose
     \/ fileKey /\ WriteFails

(* The stored key is forgotten in any case, unless its own write fails. *)
Logout ==
  /\ CliLogout \/ KeyLogout
  /\ revoked' = TRUE

LogoutElsewhere ==
  /\ Changes
  /\ Logout
  /\ UNCHANGED <<provider, compose, conn, sessions, data, clicks, opened, state,
                 current, checks, starts, card>>

(* The server restarts: its pipes to the terminals close, and requests     *)
(* under way fail.                                                         *)
Restart ==
  /\ Changes
  /\ envKey' = AtBoot /\ drift' = FALSE
  /\ revoked' = TRUE
  /\ conn' = [k \in Terminals |->
               CASE conn[k] = "open" -> "shut" [] conn[k] = "left" -> "over"
                 [] OTHER -> conn[k]]
  /\ child' = [k \in Terminals |-> IF child[k] = "running" THEN "ending" ELSE child[k]]
  /\ session' = [k \in Terminals |-> IF k <= opened THEN "gone" ELSE "none"]
  /\ poll' = [k \in Terminals |-> "off"]
  /\ checks' = [checks EXCEPT !.no = @ + checks.asked, !.asked = 0]
  /\ UNCHANGED <<provider, compose, fileKey, cli, data, clicks, opened, state, current, starts, card>>

-----------------------------------------------------------------------------
(* The dialog. *)

(* The terminal's effect is cleaned up whenever the dialog stops running.  *)
Unmount ==
  /\ current' = 0
  /\ conn' = IF current = 0 THEN conn
             ELSE [conn EXCEPT ![current] = IF @ = "open" THEN "left" ELSE "over"]

(* handleStart: whoever is logged in is logged out first, and the button   *)
(* stays enabled meanwhile.  A card with an API key offers no login, nor    *)
(* does pi's.                                                              *)
HandleStart ==
  /\ provider # "pi" /\ card # "api_key" /\ state \notin {"running", "verifying"}
  /\ clicks < MaxTerminals /\ clicks' = clicks + 1
  /\ IF card = "cli_login" THEN starts' = starts + 1 /\ UNCHANGED state
     ELSE state' = "running" /\ UNCHANGED starts
  /\ UNCHANGED <<creds, conn, sessions, data, opened, current, checks, card, revoked>>

(* ... whether the logout works or fails. *)
LogoutThenRun ==
  /\ starts > 0 /\ starts' = starts - 1
  /\ state' = "running"
  /\ \/ Logout
     \/ UNCHANGED <<cli, envKey, fileKey, drift, revoked>>
  /\ UNCHANGED <<provider, compose, changes, conn, sessions, data, clicks, opened,
                 current, checks, card>>

Connect ==
  /\ state = "running" /\ current = 0
  /\ opened' = opened + 1 /\ current' = opened'
  /\ conn' = [conn EXCEPT ![opened'] = "open"]
  /\ data' = FALSE
  /\ UNCHANGED <<creds, sessions, clicks, state, checks, starts, card, revoked>>

VerifyAuth == state' = "verifying" /\ checks' = [checks EXCEPT !.asked = @ + 1]

Fails == state' = "error" /\ UNCHANGED checks

TrustsExit(received) ==
  IF received THEN state' = "success" /\ UNCHANGED checks ELSE Fails

(* handleExit(received ? 0 : 1). *)
HandleExit(received) == IF received THEN VerifyAuth ELSE Fails

(* ws.onclose. *)
OnClose ==
  /\ current # 0 /\ conn[current] = "shut"
  /\ HandleExit(data)
  /\ Unmount
  /\ UNCHANGED <<creds, sessions, data, clicks, opened, starts, card, revoked>>

(* ws.onerror, and the onclose that follows if the dialog has not been     *)
(* rendered in between.                                                    *)
OnError ==
  /\ current # 0 /\ conn[current] = "open"
  /\ Fails \/ HandleExit(data)
  /\ Unmount
  /\ UNCHANGED <<creds, sessions, data, clicks, opened, starts, card, revoked>>

(* handleClose: Done if a login URL was seen in the output (authUrl), or   *)
(* else Cancel.                                                            *)
HandleClose ==
  /\ state = "running"
  /\ VerifyAuth \/ (state' = "cancelled" /\ UNCHANGED checks)
  /\ Unmount
  /\ UNCHANGED <<creds, sessions, data, clicks, opened, starts, card, revoked>>

(* The server answers the check of verifyAuth(), or it fails. *)
Status ==
  /\ checks.asked > 0
  /\ \/ /\ Mode # "none"
        /\ checks' = [checks EXCEPT !.asked = @ - 1, !.yes = @ + 1]
        /\ revoked' = FALSE
     \/ /\ checks' = [checks EXCEPT !.asked = @ - 1, !.no = @ + 1]
        /\ UNCHANGED revoked
  /\ UNCHANGED <<creds, conn, sessions, data, clicks, opened, state, current,
                 starts, card>>

Verified ==
  /\ \/ checks.yes > 0 /\ checks' = [checks EXCEPT !.yes = @ - 1] /\ state' = "success"
     \/ checks.no > 0 /\ checks' = [checks EXCEPT !.no = @ - 1] /\ state' = "error"
  /\ Unmount
  /\ UNCHANGED <<creds, sessions, data, clicks, opened, starts, card, revoked>>

(* onComplete, or an API key saved: the card is told, and a card of another *)
(* kind starts with a new dialog.                                          *)
Refetch ==
  /\ card # Mode /\ card' = Mode
  /\ state' = "idle" /\ checks' = NoChecks /\ starts' = 0
  /\ Unmount
  /\ UNCHANGED <<creds, sessions, data, clicks, opened, revoked>>

-----------------------------------------------------------------------------
(* The server's terminals. *)

Spawn(k) ==
  /\ conn[k] = "open" /\ session[k] = "none"
  /\ \/ /\ child' = [child EXCEPT ![k] = "running"]
        /\ session' = [session EXCEPT ![k] = "alive"]
        /\ UNCHANGED <<conn, data>>
     \/ /\ session' = [session EXCEPT ![k] = "gone"]
        /\ conn' = [conn EXCEPT ![k] = "shut"]
        /\ data' = TRUE
        /\ UNCHANGED child
  /\ UNCHANGED <<creds, poll, clicks, opened, dialog>>

Lives(k) == session[k] \in {"alive", "exiting"}

(* pipeStreamToWs. *)
Output(k) ==
  /\ child[k] = "running" /\ conn[k] = "open"
  /\ ~data /\ data' = TRUE
  /\ UNCHANGED <<creds, conn, sessions, clicks, opened, state, current, checks, starts,
                 card, revoked>>

(* The user completes the login the CLI has asked for. *)
LogIn(k) ==
  /\ child[k] = "running" /\ (Repl => poll[k] # "off") /\ ~cli
  /\ cli' = TRUE
  /\ UNCHANGED <<keys, conn, sessions, data, clicks, opened, dialog>>

(* /login is typed into the REPL after two seconds, and polling begins. *)
Inject(k) ==
  /\ Repl /\ Lives(k) /\ poll[k] = "off"
  /\ poll' = [poll EXCEPT ![k] = "armed"]
  /\ UNCHANGED <<creds, conn, child, session, data, clicks, opened, dialog>>

PollStarts(k) ==
  /\ poll[k] = "armed"
  /\ poll' = [poll EXCEPT ![k] = IF Lives(k) THEN "asking" ELSE "over"]
  /\ UNCHANGED <<creds, conn, child, session, data, clicks, opened, dialog>>

(* gracefullyExitRepl: once only. *)
GracefullyExit(k) ==
  session' = [session EXCEPT ![k] = IF @ = "alive" THEN "exiting" ELSE @]

(* The answer of a poll: /exit if logged in, or else one more, even if     *)
(* close() has cleared the timer meanwhile.  The poll itself may fail.     *)
PollEnds(k) ==
  /\ poll[k] = "asking"
  /\ \/ cli /\ GracefullyExit(k) /\ poll' = [poll EXCEPT ![k] = "over"]
     \/ /\ poll' = [poll EXCEPT ![k] = IF Lives(k) THEN "armed" ELSE "over"]
        /\ UNCHANGED session
  /\ UNCHANGED <<creds, conn, child, data, clicks, opened, dialog>>

ClearTimer(k) == poll' = [poll EXCEPT ![k] = IF @ = "armed" THEN "over" ELSE @]

KeepsRunning(k) == UNCHANGED child

Ends(k) == child' = [child EXCEPT ![k] = IF @ = "running" THEN "ending" ELSE @]

Dies(k) == session' = [session EXCEPT ![k] = "gone"]

(* 1.5 s after /exit. *)
GraceKill(k) ==
  /\ session[k] = "exiting"
  /\ Dies(k) /\ Ends(k)
  /\ UNCHANGED <<creds, conn, poll, data, clicks, opened, dialog>>

KeepsOpen(k) == UNCHANGED conn

Shuts(k) == conn' = [conn EXCEPT ![k] = IF @ = "open" THEN "shut" ELSE @]

(* The hard timeout. *)
Timeout(k) ==
  /\ Lives(k)
  /\ Dies(k) /\ ClearTimer(k) /\ Ends(k) /\ Shuts(k)
  /\ UNCHANGED <<creds, data, clicks, opened, dialog>>

HandleProcessExit(k) ==
  /\ child[k] = "dead" /\ (Lives(k) \/ conn[k] = "open")
  /\ Dies(k) /\ Shuts(k)
  /\ UNCHANGED <<creds, child, poll, data, clicks, opened, dialog>>

(* close() of a terminal the browser has left.  Ending its stdin makes the *)
(* bridge hang up, whatever the grace.                                     *)
CloseHandler(k) ==
  /\ conn[k] = "left"
  /\ conn' = [conn EXCEPT ![k] = "over"]
  /\ IF ~Lives(k) THEN UNCHANGED sessions
     ELSE /\ ClearTimer(k) /\ Ends(k)
          /\ IF Repl THEN GracefullyExit(k) ELSE Dies(k)
  /\ UNCHANGED <<creds, data, clicks, opened, dialog>>

(* The CLI exits, told to or not, and the bridge after it. *)
ChildExits(k) ==
  /\ child[k] \in {"running", "ending"}
  /\ child' = [child EXCEPT ![k] = "dead"]
  /\ UNCHANGED <<creds, conn, session, poll, data, clicks, opened, dialog>>

ServerGoesOn(k) == \/ Spawn(k) \/ Timeout(k) \/ HandleProcessExit(k)
                   \/ CloseHandler(k) \/ GraceKill(k)
PollGoesOn(k) == PollStarts(k) \/ PollEnds(k)

Next ==
  \/ SetKey \/ ClearKey \/ LogoutElsewhere \/ Restart
  \/ HandleStart \/ LogoutThenRun \/ Connect \/ OnClose \/ OnError \/ HandleClose
  \/ Status \/ Verified \/ Refetch
  \/ \E k \in Terminals :
       \/ Output(k) \/ LogIn(k) \/ Inject(k) \/ ChildExits(k)
       \/ ServerGoesOn(k) \/ PollGoesOn(k)

(* Timers fire and requests are answered; a CLI that is told to end does.  *)
(* Nothing is assumed of the user, who may not even log in.                *)
Fairness ==
  /\ WF_vars(LogoutThenRun) /\ WF_vars(Connect) /\ WF_vars(OnClose)
  /\ WF_vars(Status) /\ WF_vars(Verified)
  /\ \A k \in Terminals :
       /\ WF_vars(ServerGoesOn(k)) /\ WF_vars(PollGoesOn(k))
       /\ WF_vars(child[k] = "ending" /\ ChildExits(k))

Spec == Init /\ [][Next]_vars /\ Fairness

-----------------------------------------------------------------------------
(* Every variable has its type. *)
TypeOK ==
  /\ provider \in Providers
  /\ {compose, fileKey, cli, drift, data, revoked} \subseteq BOOLEAN
  /\ envKey \in {"none", "compose", "set"} /\ changes \in Nat
  /\ conn \in [Terminals -> {"none", "open", "left", "shut", "over"}]
  /\ child \in [Terminals -> {"none", "running", "ending", "dead"}]
  /\ session \in [Terminals -> {"none", "alive", "exiting", "gone"}]
  /\ poll \in [Terminals -> {"off", "armed", "asking", "over"}]
  /\ clicks \in 0 .. MaxTerminals /\ opened \in 0 .. clicks
  /\ current \in 0 .. MaxTerminals
  /\ state \in {"idle", "running", "verifying", "success", "error", "cancelled"}
  /\ checks \in [asked : Nat, yes : Nat, no : Nat] /\ starts \in 0 .. MaxTerminals
  /\ card \in {"api_key", "cli_login", "none"}

(* The server runs with the key a restart would give it, except while the  *)
(* environment's is overridden by a key set here, by its clearing or by    *)
(* pi's logout; after a write that failed, until the next that does not or *)
(* the restart; and after a CLI's logout, which forgets the stored key but *)
(* not the one in use.                                                     *)
RestartKeepsKey == envKey = AtBoot \/ drift

(* The dialog tells success only of a login or a key that was there when   *)
(* it was checked, and it still is if nothing has been revoked since.      *)
SuccessIsTrue == state = "success" => Mode # "none" \/ revoked

(* No login terminal outlives its socket, its five minutes or the server:  *)
(* its CLI ends, it leaves the table and its polling stops, whatever the   *)
(* order of exit, poll, grace period, timeout and close.                   *)
TerminalsEnd ==
  \A k \in Terminals :
    conn[k] # "none" ~> /\ child[k] \in {"none", "dead"} /\ conn[k] = "over"
                        /\ ~Lives(k) /\ poll[k] \in {"off", "over"}

(* The dialog comes to a verdict, or is told to stop. *)
DialogSettles == state \in {"running", "verifying"} ~> state \notin {"running", "verifying"}

=============================================================================
