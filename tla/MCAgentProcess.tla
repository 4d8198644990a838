---------------------------- MODULE MCAgentProcess ----------------------------
(* Two messages, a stream, and two control calls at a time, the idle        *)
(* timer's stop among them.  No symmetry: liveness is checked.              *)
EXTENDS AgentProcess

CONSTANTS m1, m2, st1, x1, x2, h1, h2
MCSends == {m1, m2}
MCStreams == {st1}
MCOps == {x1, x2}
MCHandles == {h1, h2}
=============================================================================
