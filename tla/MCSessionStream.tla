--------------------------- MODULE MCSessionStream ---------------------------
(* Two browsers on one session, two messages and two chunks, so that a      *)
(* stream can be superseded by the other browser's question and a client    *)
(* can leave and come back in the middle of a reply.                        *)
EXTENDS SessionStream

CONSTANTS c1, c2
MCClients == {c1, c2}
=============================================================================
