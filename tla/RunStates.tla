----------------------------- MODULE RunStates -----------------------------
(***************************************************************************)
(* The run state machine of backend/nextix/runs/state.py: the statuses of  *)
(* a row of `runs`, the sets the rest of the code tests membership in, and *)
(* the transitions `apply_transition` accepts.  The names are the code's.  *)
(***************************************************************************)

\* The status of a row that has not been inserted yet (the code has no name for it).
Absent == "absent"

ACTIVE_STATUSES == {"queued", "claimed", "running"}

TERMINAL_STATUSES == {"succeeded", "failed", "timed_out", "needs_input", "cancelled"}

\* What counts against NEXTIX_MAX_RUNS_PER_REPO, and what the reaper listens for.
SILENT == {"claimed", "running"}

RunStatus == ACTIVE_STATUSES \union TERMINAL_STATUSES

TRANSITIONS ==
  [s \in RunStatus |->
     CASE s = "queued"  -> {"claimed", "cancelled"}
       [] s = "claimed" -> {"running", "failed", "cancelled"}
       [] s = "running" -> TERMINAL_STATUSES
       [] OTHER         -> {}]

can_transition(current, target) ==
  current \in RunStatus /\ target \in TRANSITIONS[current]
=============================================================================
