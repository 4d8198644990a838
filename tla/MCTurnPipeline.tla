--------------------------- MODULE MCTurnPipeline ---------------------------
(* Two plugins that may both reject and veto, in either order of age; one  *)
(* turn, as turns only meet in the list of handlers.                       *)
EXTENDS TurnPipeline

CONSTANTS p1, p2, t1
MCPlugins == {p1, p2}
MCPriority == [p \in MCPlugins |-> IF p = p1 THEN 2 ELSE 1]
MCHooks == [p \in MCPlugins |-> {"before_message", "before_store"} \union
                                IF p = p1 THEN {"after_response"} ELSE {"after_search"}]
MCOwnHooks == [p \in MCPlugins |-> IF p = p1 THEN {"before_message", "before_store"} ELSE {}]
MCTurns == {t1}
=============================================================================
