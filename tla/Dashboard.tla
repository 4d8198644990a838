------------------------------- MODULE Dashboard -------------------------------
(***************************************************************************)
(* A tab of the dashboard on one of its pages: the debug console behind    *)
(* the server's gateway, the memory page, or a page of resources.  The     *)
(* state of a page starts anew whenever the page is shown, so that one     *)
(* page at a time is all there is to it.                                   *)
(***************************************************************************)
EXTENDS Gateway, ResourcePages, MemoryPage

dashVars == <<vars, pageVars, memoryVars>>

DashInit == Init /\ PageInit /\ MemoryInit

DashNext ==
  \/ tab = "debug" /\ Next /\ UNCHANGED <<pageVars, memoryVars>>
  \/ tab = "memory" /\ MemoryNext /\ UNCHANGED <<vars, pageVars>>
  \/ tab \notin {"debug", "memory"} /\ PageNext /\ UNCHANGED <<vars, memoryVars>>

DashSpec == DashInit /\ [][DashNext]_dashVars
=============================================================================
