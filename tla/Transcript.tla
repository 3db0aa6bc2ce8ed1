----------------------------- MODULE Transcript -----------------------------
(***************************************************************************)
(* What the callbacks promise: a run's transcript holds what its runner    *)
(* reported, in that order and nothing twice, whatever is lost on the way, *)
(* between the rows that transitions of the run write, and nothing is      *)
(* added once a transition has ended the run.                              *)
(***************************************************************************)
EXTENDS Integers, Sequences

VARIABLES reported, rows, closed

vars == <<reported, rows, closed>>

TransitionRow == 0

Init == reported = 0 /\ rows = <<>> /\ closed = FALSE

\* The runner reports one more thing.
Report == reported' = reported + 1 /\ UNCHANGED <<rows, closed>>

\* Some of what was reported, in order, after all that is there.
Store ==
  /\ ~closed
  /\ \E first \in 1..reported, last \in 1..reported :
       /\ \A i \in 1..Len(rows) : rows[i] < first
       /\ rows' = rows \o [i \in 1..(last - first + 1) |-> first + i - 1]
  /\ UNCHANGED <<reported, closed>>

\* The run starts or ends: its last row is that of its end.
Transition ==
  /\ ~closed /\ closed' \in BOOLEAN
  /\ rows' = Append(rows, TransitionRow)
  /\ UNCHANGED reported

Next == Report \/ Store \/ Transition

Spec == Init /\ [][Next]_vars
=============================================================================
