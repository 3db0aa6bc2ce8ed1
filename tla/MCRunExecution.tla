--------------------------- MODULE MCRunExecution ---------------------------
(* Instances of RunExecution small enough for TLC. *)
EXTENDS RunExecution, TLC

CONSTANTS r1, r2, t1, t2, p1, w1, w2

\* Two attempts on one ticket: reruns, retries, one branch, one pull request.
OneTicket == (r1 :> t1) @@ (r2 :> t1)

\* One run on each of two tickets.
RunEach == (r1 :> t1) @@ (r2 :> t2)

\* A single run.
OneRun == (r1 :> t1)

OneRepo == (t1 :> p1)
SameRepo == (t1 :> p1) @@ (t2 :> p1)

\* The worker processes are interchangeable, and so are the attempts on one ticket.
AnyWorker == Permutations(Workers)
AnyWorkerOrRun == Permutations(Workers) \union Permutations(Runs)
=============================================================================
