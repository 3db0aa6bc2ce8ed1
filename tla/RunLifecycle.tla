---------------------------- MODULE RunLifecycle ----------------------------
(***************************************************************************)
(* What the runs table promises everyone who reads it (the board, the CLI, *)
(* the webhook handlers): a run is created queued, only on a ticket with   *)
(* no active run, and from then on it only ever takes the arrows of        *)
(* state.py's diagram.  Who moves it, and how many processes race to, is   *)
(* not visible here: RunExecution is shown to implement this module.       *)
(***************************************************************************)
EXTENDS RunStates

CONSTANTS
  Runs,         \* the rows that may ever be inserted
  Tickets,
  TicketOf      \* the ticket of each run, a function from Runs to Tickets

VARIABLE status \* runs.status, Absent before the insert

\* The other runs of r's ticket.
Rivals(r) == {q \in Runs \ {r} : TicketOf[q] = TicketOf[r]}

Init == status = [r \in Runs |-> Absent]

\* An insert that uq_runs_one_active_per_ticket lets through.
Create(r) ==
  /\ status[r] = Absent
  /\ \A q \in Rivals(r) : status[q] \notin ACTIVE_STATUSES
  /\ status' = [status EXCEPT ![r] = "queued"]

\* A status change that apply_transition accepts.
Advance(r, target) ==
  /\ can_transition(status[r], target)
  /\ status' = [status EXCEPT ![r] = target]

Next ==
  \E r \in Runs :
    \/ Create(r)
    \/ \E target \in RunStatus : Advance(r, target)

Spec == Init /\ [][Next]_status
=============================================================================
