----------------------------- MODULE MCConductor -----------------------------
(* TLC instance: three queued messages, a queue for one, two streams.      *)
EXTENDS Conductor, TLC

Symmetry == Permutations(Queued) \union Permutations(Streamed)
=============================================================================
