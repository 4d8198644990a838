------------------------- MODULE MCSessionProcessPool -------------------------
(* Two sessions compete for one place, through two concurrent calls.        *)
EXTENDS SessionProcessPool, TLC

CONSTANTS s1, s2, k1, k2, o1, p1, p2, p3
MCSessions == {s1, s2}
MCCalls == {k1, k2}
MCConfigs == {o1}
MCHandles == {p1, p2, p3}

(* Handles, sessions and calls are interchangeable; the run checks safety   *)
(* only.                                                                    *)
Symmetry == Permutations(MCHandles) \union Permutations(MCSessions) \union Permutations(MCCalls)
=============================================================================
