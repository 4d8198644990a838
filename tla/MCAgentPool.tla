----------------------------- MODULE MCAgentPool -----------------------------
(***************************************************************************)
(* TLC instance: one seed and one agent of the user, two definitions, two  *)
(* overlapping calls.  Bound: the properties say nothing of an id after    *)
(* calls on it overlapped, until the next start.  A history in which they   *)
(* overlapped on the user's agent is not followed further; one in which     *)
(* they overlapped on the seed is, for what it may do to the other agent,   *)
(* up to the next reset or exit.                                           *)
(***************************************************************************)
EXTENDS AgentPool, TLC

Symmetry == Permutations(Calls) \union Permutations(Objects) \union Permutations(Defs)

OnlySeedsRace == raced = {} \/ (raced \subseteq Seeds /\ reset = "idle")
=============================================================================
