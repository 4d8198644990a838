---------------------------- MODULE MCCronManager ----------------------------
(* Two crons, two executions and two saves at a time; an entry is enabled   *)
(* (in two versions), disabled, or one the scheduler rejects.               *)
EXTENDS CronManager, TLC

CONSTANTS c1, c2, on, other, off, bad, r1, r2, k1, k2
MCIds == {c1, c2}
MCEntries == {on, other, off, bad}
MCEnabled == {on, other, bad}
MCSound == {on, other, off}
MCRuns == {r1, r2}
MCSaves == {k1, k2}

Symmetry == Permutations(MCIds) \union Permutations({on, other})
            \union Permutations(MCRuns) \union Permutations(MCSaves)
=============================================================================
