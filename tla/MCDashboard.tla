------------------------------ MODULE MCDashboard ------------------------------
(* The debug page: one console and two addresses, a bus that wraps around, *)
(* a limiter that evicts, and room for one debug client, so that a         *)
(* connection the server still holds keeps the page's next one out.  The   *)
(* resource pages: two requests of the tab, two edits and one change       *)
(* elsewhere.  The memory page: two queries, two options, three changes.   *)
EXTENDS Dashboard

CONSTANTS c1, a1, a2, e1, e2
MCConsoles == {c1}
MCAddrs == {a1, a2}
MCAddrOf == [c \in MCConsoles |-> a1]
MCMaxConns == [c \in MCConsoles |-> 2]
MCFilters == {{"warn"}}
MCKindOf == [n \in 1 .. MaxEvents |-> IF n = 2 THEN "debug" ELSE "warn"]
MCPages == {"debug", "memory", "agents", "automation", "sessions", "settings"}

(* The limiter is watched over more requests, or the bus over more events. *)
MCEither == visits <= 1 \/ emitted <= 1
=============================================================================
