--------------------------- MODULE MCProviderLogin ---------------------------
(* claude logged in, left alone; with changes made elsewhere: claude with  *)
(* a stored key, another CLI without credentials, and another with a key   *)
(* of the environment besides a stored one; pi with a key of the           *)
(* environment and with a stored one, or with both.                        *)
EXTENDS ProviderLogin

Deployed(p, e, f, c, n) ==
  [provider |-> p, compose |-> e, file |-> f, cli |-> c, changes |-> n]
MCDeployments ==
  {Deployed("claude", FALSE, FALSE, TRUE, 0), Deployed("claude", FALSE, TRUE, FALSE, 1),
   Deployed("other", FALSE, FALSE, FALSE, 1), Deployed("other", TRUE, TRUE, FALSE, 2),
   Deployed("pi", TRUE, FALSE, FALSE, 3), Deployed("pi", FALSE, TRUE, FALSE, 3),
   Deployed("pi", TRUE, TRUE, FALSE, 3)}
=============================================================================
