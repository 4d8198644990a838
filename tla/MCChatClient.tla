---------------------------- MODULE MCChatClient ----------------------------
(* The followed tab and another one, two questions of two chunks, one       *)
(* conductor_status frame each and one slash command.                       *)
EXTENDS ChatClient

CONSTANTS c1, c2
MCClients == {c1, c2}
=============================================================================
