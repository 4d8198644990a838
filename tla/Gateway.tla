------------------------------- MODULE Gateway -------------------------------
(***************************************************************************)
(* The front of the server (server/src/index.ts): every request passes the *)
(* rate limiter, and the upgrades to /ws/debug then open a feed on the     *)
(* DebugBus (debug-bus.ts, debug-websocket.ts).  Each console is the hook  *)
(* use-debug-websocket.ts of one page: it connects, reconnects after a     *)
(* drop, and is switched on and off by its user.                           *)
(*                                                                         *)
(* A debug event is its number; a connection is its console and the number *)
(* of the attempt.  The delay of a reconnection is abstracted away.        *)
(***************************************************************************)
EXTENDS Naturals, Sequences, FiniteSets, SequencesExt

CONSTANTS
  Consoles,     \* debug pages
  Addrs,        \* addresses requests come from
  AddrOf,       \* the address of each console
  MaxRequests, Window, MaxEntries,   \* the limiter's configuration
  SweepEvery,   \* evictionInterval
  Buffer,       \* DebugBus.maxBuffer
  History,      \* events sent to a console that connects
  MaxDebugClients,
  MaxShown,     \* MAX_CLIENT_EVENTS
  KindOf,       \* the category and level of each event, as one kind
  Filters,      \* filters a client may ask for, sets of kinds
  MaxConns,     \* bound: connections of each console
  MaxEvents, MaxVisits, MaxTime     \* bounds

ASSUME ConsoleAssumption == AddrOf \in [Consoles -> Addrs]
ASSUME LimitAssumption ==
  {MaxRequests, Window, MaxEntries, SweepEvery} \subseteq Nat \ {0}
ASSUME FeedAssumption ==
  /\ {Buffer, History, MaxDebugClients, MaxShown} \subseteq Nat \ {0}
  /\ {MaxEvents, MaxVisits, MaxTime} \subseteq Nat
  /\ MaxConns \in [Consoles -> Nat]
  /\ DOMAIN KindOf = 1 .. MaxEvents

VARIABLES
  now,         \* Date.now()
  store,       \* the limiter's Map, with the number of the insertion of each key
  requests,    \* checks so far
  checks,      \* checksSinceEviction
  ring, head, count, emitted,   \* the DebugBus and the events so far
  mode,        \* of the server: "up", "stopping" or "down"
  asked,       \* upgrades on their way to the server
  clients,     \* connections subscribed to the bus
  filter,      \* ws.data.filter: the kinds let through, {} for all of them
  left,        \* connections closed by the browser, unknown to the server
  wire,        \* frames under way to the browser
  page,        \* the hook's connection status ("waiting": a timer is armed)
  conn,        \* number of wsRef's connection
  shown,       \* the hook's events
  visits,      \* other requests so far
  log,         \* ghost: the requests of the last Window, numbered
  forced,      \* ghost: addresses whose live entry was evicted
  since,       \* ghost: events emitted before the connection was opened
  feed,        \* ghost: what the present connection has delivered
  withheld     \* ghost: events its filter has kept back

limiter == <<now, store, requests, checks, visits, log, forced>>
bus     == <<ring, head, count, emitted>>
sockets == <<asked, clients, filter, left, wire>>
hook    == <<page, conn, shown>>
ghosts  == <<since, feed, withheld>>
vars    == <<limiter, bus, mode, sockets, hook, ghosts>>

Conns == UNION {{c} \X (1 .. MaxConns[c]) : c \in Consoles}
Current(c) == <<c, conn[c]>>

Init ==
  /\ now = 0 /\ store = <<>> /\ requests = 0 /\ checks = 0 /\ visits = 0
  /\ log = {} /\ forced = {}
  /\ ring = [i \in 0 .. Buffer - 1 |-> 0] /\ head = 0 /\ count = 0
  /\ emitted = 0 /\ mode = "up"
  /\ asked = {} /\ clients = {} /\ left = {}
  /\ filter = [x \in Conns |-> {}]
  /\ wire = [x \in Conns |-> <<>>]
  /\ page = [c \in Consoles |-> "off"]
  /\ conn = [c \in Consoles |-> 0]
  /\ shown = [c \in Consoles |-> <<>>]
  /\ since = [x \in Conns |-> 0]
  /\ feed = [c \in Consoles |-> <<>>]
  /\ withheld = [x \in Conns |-> {}]

-----------------------------------------------------------------------------
(* RateLimiter. *)

ExpiresLate(e) == now > e.resetAt
Expired(e) == now >= e.resetAt

Unexpired(s) == Restrict(s, {a \in DOMAIN s : ~Expired(s[a])})

InsertedAfter(s, a) == {b \in DOMAIN s : s[a].born < s[b].born}

(* evictIfNeeded: the expired entries, then the first inserted ones.       *)
Evict(s) ==
  LET t == Unexpired(s)
  IN  Restrict(t, {a \in DOMAIN t : Cardinality(InsertedAfter(t, a)) < MaxEntries})

(* The entry of address a after it has been counted: set() keeps the place *)
(* of a key that is there.                                                 *)
Counted(a) ==
  IF a \in DOMAIN store /\ ~Expired(store[a])
  THEN [store[a] EXCEPT !.count = @ + 1]
  ELSE [count |-> 1, resetAt |-> now + Window,
        born |-> IF a \in DOMAIN store THEN store[a].born ELSE requests + 1]

Put(a) == [b \in DOMAIN store \cup {a} |-> IF b = a THEN Counted(a) ELSE store[b]]

Allowed(a) == Counted(a).count <= MaxRequests

Check(a) ==
  LET full  == Cardinality(DOMAIN Put(a)) > MaxEntries
      sweep == checks + 1 >= SweepEvery
      after == CASE full -> Evict(Put(a))
                 [] ~full /\ sweep -> Unexpired(Put(a))
                 [] OTHER -> Put(a)
  IN  /\ store' = after
      /\ requests' = requests + 1
      /\ checks' = IF full \/ sweep THEN 0 ELSE checks + 1
      /\ log' = log \cup {[num |-> requests', addr |-> a, at |-> now, ok |-> Allowed(a)]}
      /\ forced' = forced \cup (DOMAIN Unexpired(Put(a)) \ DOMAIN after)
      /\ UNCHANGED now

(* Any other request than a console's upgrade. *)
Visit(a) ==
  /\ visits < MaxVisits /\ visits' = visits + 1
  /\ mode # "down"
  /\ Check(a)
  /\ UNCHANGED <<bus, mode, sockets, hook, ghosts>>

Tick ==
  /\ now < MaxTime /\ now' = now + 1
  /\ log' = {r \in log : r.at + Window > now + 1}
  /\ UNCHANGED <<store, requests, checks, visits, forced, bus, mode, sockets, hook, ghosts>>

-----------------------------------------------------------------------------
(* DebugBus and the feeds. *)

Unwrapped == [i \in 1 .. count |-> ring[i - 1]]

(* toArray: from the oldest event to the newest. *)
ToArray ==
  [i \in 1 .. count |->
     IF count < Buffer THEN ring[i - 1] ELSE ring[(head + i - 1) % Buffer]]

GetRecent == SubSeq(ToArray, IF count > History THEN count - History + 1 ELSE 1, count)

Passes(x, n) == filter[x] = {} \/ KindOf[n] \in filter[x]

Frame(type, events) == [type |-> type, events |-> events]

Emit ==
  /\ emitted < MaxEvents /\ mode # "down"
  /\ LET n == emitted + 1 IN
     /\ emitted' = n
     /\ ring' = [ring EXCEPT ![head] = n]
     /\ wire' = [x \in Conns |-> IF x \in clients \ left /\ Passes(x, n)
                                 THEN Append(wire[x], Frame("event", <<n>>)) ELSE wire[x]]
     /\ withheld' = [x \in Conns |-> IF x \in clients \ left /\ ~Passes(x, n)
                                     THEN withheld[x] \cup {n} ELSE withheld[x]]
  /\ head' = (head + 1) % Buffer
  /\ count' = IF count < Buffer THEN count + 1 ELSE count
  /\ UNCHANGED <<limiter, mode, asked, clients, filter, left, hook, since, feed>>

(* The first frames of connection x, unless its browser is gone. *)
Greets(x, frames) ==
  wire' = [wire EXCEPT ![x] = IF x \in left THEN <<>> ELSE frames]

Opened == Frame("open", <<>>)
Closes == Frame("close", <<>>)

(* open() of the debug handler once the upgrade is accepted. *)
Open(x) ==
  IF Cardinality(clients) >= MaxDebugClients
  THEN /\ Greets(x, <<Opened, Closes>>)
       /\ UNCHANGED <<clients, since>>
  ELSE /\ Greets(x, <<Opened, Frame("history", GetRecent)>>)
       /\ clients' = clients \cup {x}
       /\ since' = [since EXCEPT ![x] = IF x \in left THEN 0 ELSE emitted]

(* fetch() of an upgrade to /ws/debug. *)
Upgrade(x) ==
  /\ x \in asked /\ asked' = asked \ {x}
  /\ \/ /\ mode # "down"
        /\ Check(AddrOf[x[1]])
        /\ IF Allowed(AddrOf[x[1]]) THEN Open(x)
           ELSE /\ Greets(x, <<Closes>>)
                /\ UNCHANGED <<clients, since>>
     \/ /\ mode = "down"
        /\ Greets(x, <<Closes>>)
        /\ UNCHANGED <<now, store, requests, checks, log, forced, clients, since>>
  /\ UNCHANGED <<visits, bus, mode, filter, left, hook, feed, withheld>>

(* A debug_subscribe message, validated (no page of the dashboard sends    *)
(* one).                                                                   *)
Subscribe(x, kinds) ==
  /\ x \in clients /\ x \notin left
  /\ filter[x] # kinds
  /\ filter' = [filter EXCEPT ![x] = kinds]
  /\ UNCHANGED <<limiter, bus, mode, asked, clients, left, wire, hook, ghosts>>

(* close() at the server. *)
Closed(x) ==
  /\ x \in left /\ x \notin asked
  /\ left' = left \ {x} /\ clients' = clients \ {x}
  /\ filter' = [filter EXCEPT ![x] = {}]
  /\ UNCHANGED <<limiter, bus, mode, asked, wire, hook, ghosts>>

HangUp ==
  [x \in Conns |-> IF x \in clients \ left THEN Append(wire[x], Closes) ELSE wire[x]]

(* debugWs.shutdown(); the server answers on while the rest shuts down.    *)
Shutdown ==
  /\ mode = "up" /\ mode' = "stopping"
  /\ clients' = {} /\ wire' = HangUp
  /\ UNCHANGED <<limiter, bus, asked, filter, left, hook, ghosts>>

Exit ==
  /\ mode = "stopping" /\ mode' = "down"
  /\ clients' = {} /\ wire' = HangUp
  /\ UNCHANGED <<limiter, bus, asked, filter, left, hook, ghosts>>

-----------------------------------------------------------------------------
(* The hook. *)

(* connect(), by the effect of `enabled` or by the reconnection timer.     *)
Connect(c) ==
  /\ page[c] \in {"off", "waiting"} /\ conn[c] < MaxConns[c]
  /\ page' = [page EXCEPT ![c] = "connecting"]
  /\ conn' = [conn EXCEPT ![c] = @ + 1]
  /\ asked' = asked \cup {<<c, conn[c] + 1>>}
  /\ feed' = [feed EXCEPT ![c] = <<>>]
  /\ UNCHANGED <<limiter, bus, mode, clients, filter, left, wire, shown, since, withheld>>

Capped(s) == IF Len(s) > MaxShown THEN SubSeq(s, Len(s) - MaxShown + 1, Len(s)) ELSE s

(* onopen, onmessage or onclose of the present connection. *)
Receive(c) ==
  LET x == Current(c)
      frame == Head(wire[x])
  IN  /\ page[c] \in {"connecting", "open"}
      /\ wire[x] # <<>> /\ wire' = [wire EXCEPT ![x] = Tail(@)]
      /\ page' = [page EXCEPT ![c] = CASE frame.type = "open" -> "open"
                                       [] frame.type = "close" -> "waiting"
                                       [] OTHER -> @]
      /\ shown' = [shown EXCEPT ![c] = Capped(@ \o frame.events)]
      /\ feed' = [feed EXCEPT ![c] = @ \o frame.events]
      /\ UNCHANGED <<limiter, bus, mode, asked, clients, filter, left, conn, since, withheld>>

LetsGo(c) ==
  /\ left' = left \cup {Current(c)}
  /\ wire' = [wire EXCEPT ![Current(c)] = <<>>]
  /\ since' = [since EXCEPT ![Current(c)] = 0]
  /\ withheld' = [withheld EXCEPT ![Current(c)] = {}]
  /\ feed' = [feed EXCEPT ![c] = <<>>]

(* The connection breaks. *)
Drop(c) ==
  /\ page[c] = "open"
  /\ LetsGo(c)
  /\ page' = [page EXCEPT ![c] = "waiting"]
  /\ UNCHANGED <<limiter, bus, mode, asked, clients, filter, conn, shown>>

(* disconnect() when the page is switched off, whatever state it is in.    *)
Disable(c) ==
  /\ page[c] # "off" /\ page' = [page EXCEPT ![c] = "off"]
  /\ IF page[c] = "waiting" THEN UNCHANGED <<left, wire, ghosts>> ELSE LetsGo(c)
  /\ UNCHANGED <<limiter, bus, mode, asked, clients, filter, conn, shown>>

Clear(c) ==
  /\ shown[c] # <<>> /\ shown' = [shown EXCEPT ![c] = <<>>]
  /\ UNCHANGED <<limiter, bus, mode, sockets, page, conn, ghosts>>

-----------------------------------------------------------------------------

Next ==
  \/ \E a \in Addrs : Visit(a)
  \/ Tick \/ Emit \/ Shutdown \/ Exit
  \/ \E x \in Conns : Upgrade(x) \/ Closed(x) \/ \E k \in Filters : Subscribe(x, k)
  \/ \E c \in Consoles : Connect(c) \/ Receive(c) \/ Drop(c) \/ Disable(c) \/ Clear(c)

Spec == Init /\ [][Next]_vars

-----------------------------------------------------------------------------

(* What the present connection has delivered and what is under way on it. *)
Segments(c) ==
  <<feed[c]>> \o [i \in DOMAIN wire[Current(c)] |-> wire[Current(c)][i].events]

Content(segments) == UNION {ToSet(segments[i]) : i \in DOMAIN segments}

Rising(s) == \A i, j \in DOMAIN s : i < j => s[i] < s[j]

InOrder(segments) ==
  /\ \A i \in DOMAIN segments : Rising(segments[i])
  /\ \A i, j \in DOMAIN segments : i < j =>
       \A m \in ToSet(segments[i]), n \in ToSet(segments[j]) : m < n

Backlog(x) == Min({since[x], Buffer, History})

(* A console that is subscribed is delivered the recent history and then   *)
(* every later event its filter lets through, each once and in order,      *)
(* whatever the ring has overwritten and whatever earlier connections of   *)
(* the same page the server still holds; and its list is the end of that.  *)
FeedUnbroken ==
  \A c \in Consoles :
    LET x == Current(c)
    IN  /\ page[c] # "off" /\ conn[c] > 0 /\ x \in clients \ left
           => /\ InOrder(Segments(c))
              /\ Content(Segments(c)) = (since[x] - Backlog(x) + 1 .. emitted) \ withheld[x]
        /\ IsSuffix(shown[c], feed[c]) \/ IsSuffix(Capped(feed[c]), shown[c])

(* The fixed windows keep two promises about any Window of time: a request *)
(* is refused only after MaxRequests others of its address, and fewer than *)
(* twice MaxRequests of an address are admitted unless its entry had to    *)
(* make room for others.                                                   *)
LimitHolds ==
  /\ \A r \in log : r.at = now /\ ~r.ok =>
       MaxRequests <= Cardinality({q \in log : q.addr = r.addr /\ q.num < r.num})
  /\ \A a \in Addrs \ forced :
       Cardinality({r \in log : r.addr = a /\ r.ok}) < 2 * MaxRequests

(* The table never holds more than maxEntries addresses, and an address    *)
(* whose window is not over leaves it only when that is needed: the table  *)
(* is then full of addresses that came in after it.                        *)
StoreBounded == Cardinality(DOMAIN store) <= MaxEntries

ForcesOutOldest ==
  [][\A a \in DOMAIN store \ DOMAIN store' :
       \/ Expired(store[a])
       \/ /\ Cardinality(DOMAIN store') = MaxEntries
          /\ \A b \in DOMAIN store' : store[a].born < store'[b].born]_vars
=============================================================================
