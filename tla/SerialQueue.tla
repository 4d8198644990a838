----------------------------- MODULE SerialQueue -----------------------------
(***************************************************************************)
(* What the conductor's queue promises to the callers of handleMessage():  *)
(* while it is open messages are executed one at a time, in the order they *)
(* came in; no more than Depth of them wait; each has one outcome, and one *)
(* that is refused was not executed.  Closing refuses those that wait.     *)
(* After that nothing is promised about overlaps.                          *)
(***************************************************************************)
EXTENDS Naturals, Sequences

CONSTANTS
  Messages,
  Depth     \* how many may wait

VARIABLES
  line,       \* those that wait, in order
  executing,  \* those being executed
  outcome,    \* how each ended
  open

svars == <<line, executing, outcome, open>>

Final == {"answered", "failed"}

InLine == {line[i] : i \in DOMAIN line}
Unknown(m) == outcome[m] = "none" /\ m \notin InLine \union executing

Init ==
  /\ line = <<>>
  /\ executing = {}
  /\ outcome = [m \in Messages |-> "none"]
  /\ open = TRUE

Start(m) ==
  /\ Unknown(m)
  /\ open => executing = {} /\ line = <<>>
  /\ executing' = executing \union {m}
  /\ UNCHANGED <<line, outcome, open>>

LineUp(m) ==
  /\ Unknown(m)
  /\ executing # {} /\ Len(line) < Depth
  /\ line' = Append(line, m)
  /\ UNCHANGED <<executing, outcome, open>>

Refuse(m) ==
  /\ Unknown(m)
  /\ outcome' = [outcome EXCEPT ![m] = "refused"]
  /\ UNCHANGED <<line, executing, open>>

(* The next in line starts as soon as one ends. *)
End(m) ==
  /\ m \in executing
  /\ \E o \in Final : outcome' = [outcome EXCEPT ![m] = o]
  /\ \/ /\ line = <<>>
        /\ executing' = executing \ {m}
        /\ UNCHANGED line
     \/ /\ line # <<>>
        /\ executing' = (executing \ {m}) \union {Head(line)}
        /\ line' = Tail(line)
  /\ UNCHANGED open

Close ==
  /\ open
  /\ open' = FALSE
  /\ line' = <<>>
  /\ outcome' = [m \in Messages |-> IF m \in InLine THEN "refused" ELSE outcome[m]]
  /\ UNCHANGED executing

Next == Close \/ \E m \in Messages : Start(m) \/ LineUp(m) \/ Refuse(m) \/ End(m)

Spec == Init /\ [][Next]_svars
=============================================================================
