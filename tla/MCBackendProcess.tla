-------------------------- MODULE MCBackendProcess --------------------------
(* Every backend, two sends, two lines before the last one of an answer.   *)
EXTENDS BackendProcess

CONSTANTS m1, m2
MCMessages == {m1, m2}
MCFlavors == {"claude", "codex", "gemini", "ollama", "pi"}
=============================================================================
