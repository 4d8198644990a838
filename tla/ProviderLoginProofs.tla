------------------------- MODULE ProviderLoginProofs -------------------------
(***************************************************************************)
(* Safety of the credentials of a provider and of the login dialog, for    *)
(* any deployment and any number of terminals, changes and restarts.       *)
(***************************************************************************)
EXTENDS ProviderLogin, TLAPS

(* A dialog that is about to open its terminal. *)
Connecting == state = "running" /\ current = 0

(* Every click opens at most one terminal, when its logout is over. *)
ClicksCover ==
  /\ opened + starts <= clicks
  /\ Connecting => opened + starts < clicks

(* A success that has been told, or that a check is about to tell, was one *)
(* of a credential that was there, and still is unless one was revoked.    *)
YesIsTrue == checks.yes > 0 => Mode # "none" \/ revoked

(* Only the terminal that the dialog shows has an open socket: whatever    *)
(* ends the dialog, by error, Done, Cancel, a check or a new card, has     *)
(* closed it (the cleanup of the terminal's effect).                       *)
OneOpenTerminal ==
  /\ current <= opened
  /\ \A k \in Terminals : /\ conn[k] = "open" => k = current
                          /\ k > opened => conn[k] = "none"

Types == TypeOK /\ ClicksCover /\ OneOpenTerminal
Told == YesIsTrue /\ SuccessIsTrue

Conn == {"none", "open", "left", "shut", "over"}

-----------------------------------------------------------------------------
(* The type invariant, conjunct by conjunct. *)
Parts ==
  /\ provider \in Providers /\ compose \in BOOLEAN /\ fileKey \in BOOLEAN /\ cli \in BOOLEAN
  /\ drift \in BOOLEAN /\ data \in BOOLEAN /\ revoked \in BOOLEAN
  /\ envKey \in {"none", "compose", "set"} /\ changes \in Nat
  /\ conn \in [Terminals -> Conn]
  /\ child \in [Terminals -> {"none", "running", "ending", "dead"}]
  /\ session \in [Terminals -> {"none", "alive", "exiting", "gone"}]
  /\ poll \in [Terminals -> {"off", "armed", "asking", "over"}]
  /\ clicks \in 0 .. MaxTerminals /\ opened \in 0 .. clicks
  /\ current \in 0 .. MaxTerminals
  /\ state \in {"idle", "running", "verifying", "success", "error", "cancelled"}
  /\ checks \in [asked : Nat, yes : Nat, no : Nat] /\ starts \in 0 .. MaxTerminals
  /\ card \in {"api_key", "cli_login", "none"}

LEMMA PartsOfType == TypeOK <=> Parts
<1>1. {compose, fileKey, cli, drift, data, revoked} \subseteq BOOLEAN
      <=> /\ compose \in BOOLEAN /\ fileKey \in BOOLEAN /\ cli \in BOOLEAN
          /\ drift \in BOOLEAN /\ data \in BOOLEAN /\ revoked \in BOOLEAN
  OBVIOUS
<1>2. ASSUME TypeOK PROVE Parts
  BY <1>1, <1>2 DEF TypeOK, Parts, Conn
<1>3. ASSUME Parts PROVE TypeOK
  <2>1. {compose, fileKey, cli, drift, data, revoked} \subseteq BOOLEAN
    BY <1>1, <1>3 DEF Parts
  <2> QED BY <1>3, <2>1 DEF TypeOK, Parts, Conn
<1> QED BY <1>2, <1>3

LEMMA PartsOfTypeNext == TypeOK' <=> Parts'
BY PartsOfType, PTL

LEMMA SumBounds == \A a, b, c \in Nat : a + b <= c => a <= c /\ b <= c
OBVIOUS

(* The numbers that the dialog's steps count with. *)
LEMMA Counts ==
  ASSUME TypeOK
  PROVE  /\ opened \in Nat /\ clicks \in Nat /\ starts \in Nat /\ current \in Nat
         /\ opened <= clicks /\ clicks <= MaxTerminals /\ MaxTerminals \in Nat
         /\ checks.asked \in Nat /\ checks.yes \in Nat /\ checks.no \in Nat
<1>1. checks \in [asked : Nat, yes : Nat, no : Nat]
  BY DEF TypeOK
<1>2. checks.asked \in Nat /\ checks.yes \in Nat /\ checks.no \in Nat
  BY <1>1
<1> QED BY <1>2, TerminalsAssumption DEF TypeOK

(* What the cleanup of the terminal's effect does to the sockets. *)
LEMMA Unmounts ==
  ASSUME Types, Unmount
  PROVE  /\ current' = 0 /\ conn' \in [Terminals -> Conn]
         /\ \A k \in Terminals : conn'[k] # "open"
         /\ \A k \in Terminals : k > opened => conn'[k] = "none"
<1>1. /\ conn \in [Terminals -> Conn] /\ current \in 0 .. MaxTerminals /\ current' = 0
      /\ OneOpenTerminal /\ MaxTerminals \in Nat
  BY TerminalsAssumption DEF Types, TypeOK, Conn, Unmount
<1>2. CASE current = 0
  <2>1. conn' = conn
    BY <1>2 DEF Unmount
  <2> QED BY <1>1, <1>2, <2>1 DEF OneOpenTerminal, Terminals
<1>3. CASE current # 0
  <2>1. /\ current \in Terminals
        /\ conn' = [conn EXCEPT ![current] = IF @ = "open" THEN "left" ELSE "over"]
    BY <1>1, <1>3 DEF Terminals, Unmount
  <2>2. conn' \in [Terminals -> Conn] /\ conn'[current] \in {"left", "over"}
    BY <1>1, <2>1 DEF Conn
  <2>3. \A k \in Terminals \ {current} : conn'[k] = conn[k]
    BY <1>1, <2>1
  <2>4. \A k \in Terminals : k > opened => k # current
    BY <1>1, Counts DEF OneOpenTerminal, Terminals, Types
  <2> QED BY <1>1, <2>1, <2>2, <2>3, <2>4 DEF OneOpenTerminal
<1> QED BY <1>2, <1>3

(* A step that changes nothing of the dialog's shape keeps what counts. *)
LEMMA CountsStay ==
  ASSUME Types, UNCHANGED <<opened, clicks, starts, state, current>>,
         conn' \in [Terminals -> Conn],
         \A k \in Terminals : /\ conn'[k] = "open" => conn[k] = "open"
                              /\ conn[k] = "none" => conn'[k] = "none"
  PROVE  ClicksCover' /\ OneOpenTerminal'
BY DEF Types, ClicksCover, OneOpenTerminal, Connecting

LEMMA TypesKept == Types /\ [Next]_vars => Types'
<1> SUFFICES ASSUME Types, [Next]_vars PROVE Types'
  OBVIOUS
<1>1. TypeOK /\ Parts /\ ClicksCover /\ OneOpenTerminal /\ conn \in [Terminals -> Conn]
  BY PartsOfType DEF Types, Parts
<1>2. CASE SetKey \/ ClearKey \/ LogoutElsewhere
  <2>1. UNCHANGED <<card, provider, compose, conn, child, session, poll, data, opened, clicks, starts,
                    state, current, checks>>
    BY <1>2 DEF SetKey, ClearKey, LogoutElsewhere, sessions, dialog
  <2>2. fileKey' \in BOOLEAN /\ cli' \in BOOLEAN /\ drift' \in BOOLEAN /\ revoked' \in BOOLEAN
    BY <1>1, <1>2 DEF Parts, SetKey, ClearKey, LogoutElsewhere, Logout, CliLogout, KeyLogout,
       RemoveBackendKeys, WriteFails, dialog
  <2>3. changes' \in Nat /\ envKey' \in {"none", "compose", "set"}
    <3>1. Changes /\ changes \in Nat
      BY <1>1, <1>2 DEF Parts, SetKey, ClearKey, LogoutElsewhere
    <3>2. envKey' \in {"set", "none", envKey}
      BY <1>2 DEF SetKey, ClearKey, LogoutElsewhere, Logout, CliLogout, KeyLogout
    <3> QED BY <1>1, <3>1, <3>2 DEF Parts, Changes
  <2>4. TypeOK'
    BY PartsOfTypeNext, <1>1, <2>1, <2>2, <2>3 DEF Parts
  <2> QED BY <1>1, <2>1, <2>4, CountsStay DEF Types
<1>3. CASE Restart
  <2>1. /\ UNCHANGED <<provider, compose, fileKey, cli, data, clicks, opened, state, current, starts,
                       card>>
        /\ drift' = FALSE /\ revoked' = TRUE /\ changes' \in Nat
        /\ envKey' \in {"none", "compose", "set"}
    BY <1>1, <1>3 DEF Parts, Restart, Changes, AtBoot
  <2>2. /\ conn' \in [Terminals -> Conn]
        /\ \A k \in Terminals : /\ conn'[k] = "open" => conn[k] = "open"
                                /\ conn[k] = "none" => conn'[k] = "none"
    <3> SUFFICES ASSUME NEW k \in Terminals
        PROVE  /\ conn'[k] \in Conn
               /\ conn'[k] = "open" => conn[k] = "open"
               /\ conn[k] = "none" => conn'[k] = "none"
      BY <1>3 DEF Restart
    <3>1. conn'[k] = CASE conn[k] = "open" -> "shut" [] conn[k] = "left" -> "over"
                       [] OTHER -> conn[k]
      BY <1>3 DEF Restart
    <3> QED BY <1>1, <3>1 DEF Conn
  <2>3. child' \in [Terminals -> {"none", "running", "ending", "dead"}]
    BY <1>1, <1>3 DEF Parts, Restart
  <2>4. session' \in [Terminals -> {"none", "alive", "exiting", "gone"}]
    BY <1>3 DEF Restart
  <2>5. poll' \in [Terminals -> {"off", "armed", "asking", "over"}]
    BY <1>3 DEF Restart
  <2>6. checks' \in [asked : Nat, yes : Nat, no : Nat]
    <3>1. checks.no + checks.asked \in Nat /\ checks \in [asked : Nat, yes : Nat, no : Nat]
      BY <1>1, Counts DEF Parts
    <3> QED BY <1>3, <3>1 DEF Restart
  <2>7. TypeOK'
    BY PartsOfTypeNext, <1>1, <2>1, <2>2, <2>3, <2>4, <2>5, <2>6 DEF Parts
  <2> QED BY <2>1, <2>2, <2>7, CountsStay DEF Types
<1>4. CASE HandleStart \/ LogoutThenRun \/ Connect
  <2>1. UNCHANGED <<provider, compose, changes, child, session, poll, checks, card>>
    BY <1>4 DEF HandleStart, LogoutThenRun, Connect, creds, keys, sessions
  <2>2. /\ fileKey' \in BOOLEAN /\ cli' \in BOOLEAN /\ drift' \in BOOLEAN /\ revoked' \in BOOLEAN
        /\ data' \in BOOLEAN /\ envKey' \in {"none", "compose", "set"}
    BY <1>1, <1>4 DEF Parts, HandleStart, LogoutThenRun, Connect, creds, keys, Logout, CliLogout,
       KeyLogout, RemoveBackendKeys, WriteFails
  <2>3. /\ clicks' \in 0 .. MaxTerminals /\ starts' \in Nat /\ current' \in Nat
        /\ state' \in {"idle", "running", "verifying", "success", "error", "cancelled"}
        /\ opened' \in Nat /\ current' <= opened'
        /\ ClicksCover'
    BY <1>1, <1>4, Counts DEF Parts, HandleStart, LogoutThenRun, Connect, ClicksCover, Connecting,
       OneOpenTerminal
  <2>4. opened' <= clicks' /\ starts' \in 0 .. MaxTerminals /\ current' \in 0 .. MaxTerminals
    <3>1. clicks' \in Nat /\ MaxTerminals \in Nat /\ clicks' <= MaxTerminals
      BY <2>3, TerminalsAssumption
    <3>2. opened' + starts' <= clicks'
      BY <2>3 DEF ClicksCover
    <3>3. starts' \in Nat /\ opened' \in Nat /\ current' \in Nat /\ current' <= opened'
      BY <2>3
    <3>4. opened' <= clicks' /\ starts' <= clicks'
      BY <3>1, <3>2, <3>3, SumBounds
    <3>6. starts' \in 0 .. MaxTerminals
      BY <3>1, <3>3, <3>4
    <3>7. current' \in 0 .. MaxTerminals
      BY <3>1, <3>3, <3>4
    <3> QED BY <3>4, <3>6, <3>7
  <2>5. conn' \in [Terminals -> Conn] /\ OneOpenTerminal'
    <3>1. CASE HandleStart \/ LogoutThenRun
      <4>1. UNCHANGED <<conn, current, opened>>
        BY <3>1 DEF HandleStart, LogoutThenRun
      <4> QED BY <1>1, <4>1 DEF OneOpenTerminal
    <3>2. CASE Connect
      <4>1. /\ opened' = opened + 1 /\ current' = opened' /\ current = 0
            /\ conn' = [conn EXCEPT ![opened'] = "open"]
        BY <3>2 DEF Connect
      <4>2. opened' \in Terminals /\ opened \in Nat /\ opened' \in Nat
        BY <1>1, <2>4, <4>1, Counts DEF Terminals
      <4>3. /\ conn' \in [Terminals -> Conn] /\ conn'[opened'] = "open"
            /\ \A k \in Terminals \ {opened'} : conn'[k] = conn[k]
        BY <1>1, <4>1, <4>2 DEF Conn
      <4> QED BY <1>1, <4>1, <4>2, <4>3 DEF OneOpenTerminal, Terminals
    <3> QED BY <1>4, <3>1, <3>2
  <2>6. TypeOK'
    BY PartsOfTypeNext, <1>1, <2>1, <2>2, <2>3, <2>4, <2>5 DEF Parts
  <2> QED BY <2>3, <2>5, <2>6 DEF Types
<1>5. CASE OnClose \/ OnError \/ HandleClose \/ Verified \/ Refetch
  <2>1. Unmount /\ UNCHANGED <<creds, sessions, data, clicks, opened>> /\ starts' \in {starts, 0}
    BY <1>5 DEF OnClose, OnError, HandleClose, Verified, Refetch
  <2>2. /\ current' = 0 /\ conn' \in [Terminals -> Conn]
        /\ \A k \in Terminals : conn'[k] # "open"
        /\ \A k \in Terminals : k > opened => conn'[k] = "none"
    BY <2>1, Unmounts
  <2>3. state' \in {"idle", "verifying", "success", "error", "cancelled"}
    BY <1>5 DEF OnClose, OnError, HandleClose, Verified, Refetch, HandleExit, Fails, VerifyAuth
  <2>4. /\ checks' \in [asked : Nat, yes : Nat, no : Nat] /\ revoked' \in BOOLEAN
        /\ card' \in {"api_key", "cli_login", "none"}
    BY <1>1, <1>5, Counts DEF Parts, OnClose, OnError, HandleClose, Verified, Refetch, HandleExit,
       Fails, VerifyAuth, NoChecks, Mode
  <2>5. ClicksCover' /\ OneOpenTerminal'
    BY <1>1, <2>1, <2>2, <2>3, Counts DEF ClicksCover, Connecting, OneOpenTerminal
  <2>6. TypeOK'
    BY PartsOfTypeNext, <1>1, <2>1, <2>2, <2>3, <2>4, Counts DEF Parts, creds, keys, sessions
  <2> QED BY <2>5, <2>6 DEF Types
<1>6. CASE Status
  <2>1. UNCHANGED <<creds, conn, sessions, data, clicks, opened, state, current, starts, card>>
    BY <1>6 DEF Status
  <2>2. checks' \in [asked : Nat, yes : Nat, no : Nat] /\ revoked' \in BOOLEAN
    <3>1. /\ checks.asked - 1 \in Nat /\ checks.yes + 1 \in Nat /\ checks.no + 1 \in Nat
          /\ checks \in [asked : Nat, yes : Nat, no : Nat] /\ revoked \in BOOLEAN
      BY <1>1, <1>6, Counts DEF Parts, Status
    <3> QED BY <1>6, <3>1 DEF Status
  <2>3. TypeOK'
    BY PartsOfTypeNext, <1>1, <2>1, <2>2 DEF Parts, creds, keys, sessions
  <2> QED BY <1>1, <2>1, <2>3, CountsStay DEF Types
<1>7. ASSUME NEW k \in Terminals,
             \/ Output(k) \/ LogIn(k) \/ Inject(k) \/ ChildExits(k)
             \/ ServerGoesOn(k) \/ PollGoesOn(k)
      PROVE  Types'
  <2>1. UNCHANGED <<keys, clicks, opened, dialog>>
    BY <1>7 DEF Output, LogIn, Inject, ChildExits, ServerGoesOn, PollGoesOn, Spawn, Timeout,
       HandleProcessExit, CloseHandler, GraceKill, PollStarts, PollEnds, creds, dialog
  <2>2. cli' \in BOOLEAN /\ data' \in BOOLEAN
    BY <1>1, <1>7 DEF Parts, Output, LogIn, Inject, ChildExits, ServerGoesOn, PollGoesOn, Spawn,
       Timeout, HandleProcessExit, CloseHandler, GraceKill, PollStarts, PollEnds, creds
  <2>3. /\ conn' \in [Terminals -> Conn]
        /\ \A j \in Terminals : /\ conn'[j] = "open" => conn[j] = "open"
                                /\ conn[j] = "none" => conn'[j] = "none"
    <3>1. \/ conn' = conn
          \/ conn[k] = "open" /\ conn' = [conn EXCEPT ![k] = "shut"]
          \/ conn[k] = "left" /\ conn' = [conn EXCEPT ![k] = "over"]
          \/ conn' = [conn EXCEPT ![k] = IF @ = "open" THEN "shut" ELSE @]
      BY <1>7 DEF Output, LogIn, Inject, ChildExits, ServerGoesOn, PollGoesOn, Spawn, Timeout,
         HandleProcessExit, CloseHandler, GraceKill, PollStarts, PollEnds, Shuts
    <3> QED BY <1>1, <3>1 DEF Conn
  <2>4. child' \in [Terminals -> {"none", "running", "ending", "dead"}]
    <3>1. \/ child' = child
          \/ child' = [child EXCEPT ![k] = "running"]
          \/ child' = [child EXCEPT ![k] = "dead"]
          \/ child' = [child EXCEPT ![k] = IF @ = "running" THEN "ending" ELSE @]
      BY <1>7 DEF Output, LogIn, Inject, ChildExits, ServerGoesOn, PollGoesOn, Spawn, Timeout,
         HandleProcessExit, CloseHandler, GraceKill, PollStarts, PollEnds, sessions, Ends
    <3> QED BY <1>1, <3>1 DEF Parts
  <2>5. session' \in [Terminals -> {"none", "alive", "exiting", "gone"}]
    <3>1. \/ session' = session
          \/ session' = [session EXCEPT ![k] = "alive"]
          \/ session' = [session EXCEPT ![k] = "gone"]
          \/ session' = [session EXCEPT ![k] = IF @ = "alive" THEN "exiting" ELSE @]
      BY <1>7 DEF Output, LogIn, Inject, ChildExits, ServerGoesOn, PollGoesOn, Spawn, Timeout,
         HandleProcessExit, CloseHandler, GraceKill, PollStarts, PollEnds, sessions, Dies,
         GracefullyExit
    <3> QED BY <1>1, <3>1 DEF Parts
  <2>6. poll' \in [Terminals -> {"off", "armed", "asking", "over"}]
    <3>1. \/ poll' = poll
          \/ \E to \in {"armed", "asking", "over"} : poll' = [poll EXCEPT ![k] = to]
          \/ poll' = [poll EXCEPT ![k] = IF @ = "armed" THEN "over" ELSE @]
      BY <1>7 DEF Output, LogIn, Inject, ChildExits, ServerGoesOn, PollGoesOn, Spawn, Timeout,
         HandleProcessExit, CloseHandler, GraceKill, PollStarts, PollEnds, sessions, ClearTimer
    <3> QED BY <1>1, <3>1 DEF Parts
  <2>7. TypeOK'
    BY PartsOfTypeNext, <1>1, <2>1, <2>2, <2>3, <2>4, <2>5, <2>6 DEF Parts, keys, dialog
  <2> QED BY <2>1, <2>3, <2>7, CountsStay DEF Types, dialog
<1>8. CASE UNCHANGED vars
  BY <1>1, <1>8, PartsOfTypeNext DEF vars, creds, keys, sessions, dialog, Types, Parts, ClicksCover,
     OneOpenTerminal, Connecting
<1> QED BY <1>2, <1>3, <1>4, <1>5, <1>6, <1>7, <1>8 DEF Next

LEMMA TypesAtStart == Init => Types
<1> SUFFICES ASSUME Init PROVE Types
  OBVIOUS
<1>1. provider \in Providers /\ compose \in BOOLEAN /\ fileKey \in BOOLEAN /\ cli \in BOOLEAN /\ changes \in Nat
  BY DeploymentsAssumption DEF Init
<1>2. checks \in [asked : Nat, yes : Nat, no : Nat] /\ envKey \in {"none", "compose", "set"}
  BY DEF Init, NoChecks, AtBoot
<1>3. TypeOK
  <2>1. /\ conn \in [Terminals -> Conn]
        /\ child \in [Terminals -> {"none", "running", "ending", "dead"}]
        /\ session \in [Terminals -> {"none", "alive", "exiting", "gone"}]
        /\ poll \in [Terminals -> {"off", "armed", "asking", "over"}]
    BY DEF Init, Conn
  <2>2. /\ clicks \in 0 .. MaxTerminals /\ opened \in 0 .. clicks /\ starts \in 0 .. MaxTerminals
        /\ current \in 0 .. MaxTerminals
    BY TerminalsAssumption DEF Init
  <2>3. drift \in BOOLEAN /\ data \in BOOLEAN /\ revoked \in BOOLEAN
    BY DEF Init
  <2>4. state = "idle" /\ card \in {"api_key", "cli_login", "none"}
    BY DEF Init, Mode
  <2> QED BY <1>1, <1>2, <2>1, <2>2, <2>3, <2>4, PartsOfType DEF Parts
<1> QED BY <1>3 DEF Init, Types, ClicksCover, OneOpenTerminal, Connecting

(***************************************************************************)
(* Every variable has its type; in particular no more terminals are opened *)
(* than the user has clicked, however the clicks and their logouts overlap.*)
(***************************************************************************)
THEOREM TypeCorrect == Spec => []TypeOK
<1>1. Types => TypeOK
  BY DEF Types
<1> QED BY <1>1, TypesAtStart, TypesKept, PTL DEF Spec

(***************************************************************************)
(* At most one terminal's socket is open, that of the terminal the dialog  *)
(* shows: cli-login-terminal.tsx leaves none behind, so that what is heard *)
(* from a socket (hasReceivedData) is of the login under way.              *)
(***************************************************************************)
THEOREM OneTerminal == Spec => []OneOpenTerminal
<1>1. Types => OneOpenTerminal
  BY DEF Types
<1> QED BY <1>1, TypesAtStart, TypesKept, PTL DEF Spec

(***************************************************************************)
(* The server runs with the key that a restart would give it, except where *)
(* applyApiKey() and logout() have let them drift apart: over a key of the *)
(* environment, by a write that failed, or by the logout of a CLI, which   *)
(* leaves the key in process.env while the stored one goes.                *)
(***************************************************************************)
THEOREM KeyCorrect == Spec => []RestartKeepsKey
<1>1. Init => RestartKeepsKey
  BY DEF Init, RestartKeepsKey, AtBoot
<1>2. TypeOK /\ RestartKeepsKey /\ [Next]_vars => RestartKeepsKey'
  <2> SUFFICES ASSUME TypeOK, RestartKeepsKey, [Next]_vars PROVE RestartKeepsKey'
    OBVIOUS
  <2>1. compose \in BOOLEAN /\ fileKey \in BOOLEAN /\ drift \in BOOLEAN
    BY DEF TypeOK
  <2>2. CASE SetKey
    BY <2>1, <2>2 DEF SetKey, WriteFails, RestartKeepsKey, AtBoot
  <2>3. CASE ClearKey
    BY <2>1, <2>3 DEF ClearKey, RemoveBackendKeys, WriteFails, RestartKeepsKey, AtBoot
  <2>4. CASE Logout /\ UNCHANGED compose
    <3>1. CASE CliLogout
      BY <2>1, <2>4, <3>1 DEF CliLogout, RemoveBackendKeys, WriteFails, RestartKeepsKey, AtBoot
    <3>2. CASE KeyLogout
      BY <2>1, <2>4, <3>2 DEF KeyLogout, RemoveBackendKeys, WriteFails, RestartKeepsKey, AtBoot
    <3> QED BY <2>4, <3>1, <3>2 DEF Logout
  <2>5. CASE Restart
    BY <2>5 DEF Restart, RestartKeepsKey, AtBoot
  <2>6. CASE UNCHANGED keys
    BY <2>6 DEF keys, RestartKeepsKey, AtBoot
  <2>7. CASE LogoutThenRun
    BY <2>4, <2>6, <2>7 DEF LogoutThenRun, keys
  <2>8. CASE LogoutElsewhere
    BY <2>4, <2>8 DEF LogoutElsewhere
  <2>9. CASE \/ HandleStart \/ Connect \/ OnClose \/ OnError \/ HandleClose
             \/ Status \/ Verified \/ Refetch
             \/ \E k \in Terminals : \/ Output(k) \/ LogIn(k) \/ Inject(k) \/ ChildExits(k)
                                     \/ ServerGoesOn(k) \/ PollGoesOn(k)
    BY <2>6, <2>9 DEF creds, HandleStart, Connect, OnClose, OnError, HandleClose, Status, Verified,
       Refetch, Output, LogIn, Inject, ChildExits, ServerGoesOn, PollGoesOn, Spawn, Timeout,
       HandleProcessExit, CloseHandler, GraceKill, PollStarts, PollEnds
  <2> QED BY <2>2, <2>3, <2>5, <2>6, <2>7, <2>8, <2>9 DEF Next, vars, keys
<1> QED BY <1>1, <1>2, TypeCorrect, PTL DEF Spec

LEMMA ToldKept == TypeOK /\ Told /\ [Next]_vars => Told'
<1> SUFFICES ASSUME TypeOK, Told, [Next]_vars PROVE Told'
  OBVIOUS
<1>1. /\ cli \in BOOLEAN /\ revoked \in BOOLEAN
      /\ checks.asked \in Nat /\ checks.yes \in Nat /\ checks.no \in Nat
      /\ YesIsTrue /\ SuccessIsTrue
  BY Counts DEF TypeOK, Told
<1>2. CASE revoked'
  BY <1>2 DEF Told, YesIsTrue, SuccessIsTrue
<1>3. CASE SetKey
  <2>1. Mode' # "none"
    BY <1>3 DEF SetKey, Mode
  <2> QED BY <2>1 DEF Told, YesIsTrue, SuccessIsTrue
<1>4. ASSUME Mode # "none" => Mode' # "none", revoked' = revoked,
             checks'.yes > 0 => checks.yes > 0, state' = "success" => state = "success"
      PROVE  Told'
  BY <1>1, <1>4 DEF Told, YesIsTrue, SuccessIsTrue
<1>5. CASE ClearKey \/ LogoutElsewhere \/ Restart
  BY <1>2, <1>5 DEF ClearKey, LogoutElsewhere, Logout, Restart
<1>6. CASE LogoutThenRun
  <2>1. /\ revoked' \/ UNCHANGED <<envKey, cli, revoked, checks>>
        /\ state' = "running"
    BY <1>6 DEF LogoutThenRun, Logout
  <2> QED BY <1>2, <1>4, <2>1 DEF Mode
<1>7. CASE HandleStart \/ Connect \/ OnClose \/ OnError \/ HandleClose \/ Refetch
  <2>1. UNCHANGED <<envKey, cli, revoked>>
    BY <1>7 DEF HandleStart, Connect, OnClose, OnError, HandleClose, Refetch, creds, keys
  <2>2. state' = "success" => state = "success"
    BY <1>7 DEF HandleStart, Connect, OnClose, OnError, HandleClose, Refetch, HandleExit, Fails,
       VerifyAuth
  <2>3. checks' = checks \/ checks' = NoChecks \/ checks' = [checks EXCEPT !.asked = @ + 1]
    BY <1>7 DEF HandleStart, Connect, OnClose, OnError, HandleClose, Refetch, HandleExit, Fails,
       VerifyAuth
  <2>4. checks'.yes > 0 => checks.yes > 0
    BY <1>1, <2>3 DEF NoChecks, TypeOK
  <2> QED BY <1>4, <2>1, <2>2, <2>4 DEF Mode
<1>8. CASE Status
  <2>1. UNCHANGED <<envKey, cli, state>>
    BY <1>8 DEF Status, creds, keys
  <2>2. CASE Mode # "none"
    BY <2>1, <2>2 DEF Mode, Told, YesIsTrue, SuccessIsTrue
  <2>3. CASE Mode = "none"
    <3>1. checks' = [checks EXCEPT !.asked = @ - 1, !.no = @ + 1] /\ revoked' = revoked
      BY <1>8, <2>3 DEF Status
    <3>2. checks'.yes = checks.yes
      BY <3>1 DEF TypeOK
    <3> QED BY <1>4, <2>1, <3>1, <3>2 DEF Mode
  <2> QED BY <2>2, <2>3
<1>9. CASE Verified
  <2>1. UNCHANGED <<envKey, cli, revoked>>
    BY <1>9 DEF Verified, creds, keys
  <2>2. Mode' = Mode
    BY <2>1 DEF Mode
  <2>3. \/ checks.yes > 0 /\ checks'.yes = checks.yes - 1
        \/ checks'.yes = checks.yes /\ state' = "error"
    BY <1>1, <1>9 DEF Verified, TypeOK
  <2> QED BY <1>1, <2>1, <2>2, <2>3 DEF Told, YesIsTrue, SuccessIsTrue
<1>10. ASSUME NEW k \in Terminals,
              \/ Output(k) \/ LogIn(k) \/ Inject(k) \/ ChildExits(k)
              \/ ServerGoesOn(k) \/ PollGoesOn(k)
       PROVE  Told'
  <2>1. UNCHANGED <<envKey, state, checks, revoked>> /\ (cli' = cli \/ cli' = TRUE)
    BY <1>10 DEF Output, LogIn, Inject, ChildExits, ServerGoesOn, PollGoesOn, Spawn, Timeout,
       HandleProcessExit, CloseHandler, GraceKill, PollStarts, PollEnds, creds, keys, dialog
  <2> QED BY <1>4, <2>1 DEF Mode
<1>11. CASE UNCHANGED vars
  BY <1>4, <1>11 DEF vars, creds, keys, dialog, Mode
<1> QED BY <1>3, <1>5, <1>6, <1>7, <1>8, <1>9, <1>10, <1>11 DEF Next

(***************************************************************************)
(* The dialog tells success only of a login or key that was there when     *)
(* verifyAuth() asked, whichever of an exit, an error, a click on Done, an *)
(* older check or another tab's logout came in between.                    *)
(***************************************************************************)
THEOREM SuccessCorrect == Spec => []SuccessIsTrue
<1>1. Init => Told
  BY DEF Init, NoChecks, Told, YesIsTrue, SuccessIsTrue
<1>2. Told => SuccessIsTrue
  BY DEF Told
<1> QED BY <1>1, <1>2, TypeCorrect, ToldKept, PTL DEF Spec
=============================================================================
