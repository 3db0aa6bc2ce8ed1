---------------------------- MODULE GitHubClient ----------------------------
(***************************************************************************)
(* Calls to GitHub (github/client.py) and the installation token they      *)
(* share (github/app_auth.py).  Tokens are numbered as GitHub issues them. *)
(* A call that got a token with the refresh margin left does not outlive   *)
(* it: only a revocation makes a token in use worthless.                   *)
(***************************************************************************)
EXTENDS Integers

CONSTANTS Callers, NoOne

VARIABLES
  cached,     \* _tokens: the token, 0 when there is none
  aged,       \* less than TOKEN_REFRESH_MARGIN_S is left of it
  lock,       \* _locks: who mints
  minted,     \* how many tokens GitHub has issued
  revoked,    \* the tokens up to this one were revoked
  call        \* each caller's call

client == <<cached, aged, lock, minted, revoked, call>>

\* What a call comes to: the answer, a status for raise_for_status, another exception.
Outcomes == {"none", "ok", "status", "unauthorized", "error"}

Calls ==
  [at: {"idle", "lock", "minting", "sent", "waiting"}, token: Nat,
   retried_auth: BOOLEAN, retried_limit: BOOLEAN,
   revoked: Nat,          \* history: the revoked tokens when the call began
   outcome: Outcomes]

NoCall == [at |-> "idle", token |-> 0, retried_auth |-> FALSE, retried_limit |-> FALSE,
           revoked |-> 0, outcome |-> "none"]

ClientInit ==
  /\ cached = 0 /\ aged = FALSE /\ lock = NoOne /\ minted = 0 /\ revoked = 0
  /\ call = [c \in Callers |-> NoCall]

Fresh(token) == token # 0 /\ ~aged

Update(c, r) == call' = [call EXCEPT ![c] = r]
Done(c, outcome) == Update(c, [NoCall EXCEPT !.revoked = call[c].revoked, !.outcome = outcome])

Mint(c, r) ==
  /\ minted' = minted + 1 /\ lock' = c
  /\ Update(c, [r EXCEPT !.at = "minting", !.token = minted + 1])

\* installation_token: the cached token, or a new one under the lock.  Nothing is awaited before.
installation_token(c, r, token) ==
  \/ /\ Fresh(token)
     /\ Update(c, [r EXCEPT !.at = "sent", !.token = token]) /\ UNCHANGED <<lock, minted>>
  \/ ~Fresh(token) /\ lock = NoOne /\ Mint(c, r)
  \/ /\ ~Fresh(token) /\ lock # NoOne
     /\ Update(c, [r EXCEPT !.at = "lock"]) /\ UNCHANGED <<lock, minted>>

Begin(c) ==
  /\ installation_token(c, [NoCall EXCEPT !.revoked = revoked], cached)
  /\ UNCHANGED <<cached, aged, revoked>>

\* Under the lock: another caller may have minted one meanwhile.
LockAndLook(c) ==
  /\ call[c].at = "lock" /\ lock = NoOne
  /\ installation_token(c, call[c], cached)
  /\ UNCHANGED <<cached, aged, revoked>>

Minted(c) ==
  /\ call[c].at = "minting"
  /\ cached' = call[c].token /\ aged' = FALSE /\ lock' = NoOne
  /\ Update(c, [call[c] EXCEPT !.at = "sent"])
  /\ UNCHANGED <<minted, revoked>>

\* Wrong: an exception leaves the lock taken.
Held == lock

Released == NoOne

\* A 401, 403 or 404 is a GitHubAuthError, which no caller of this module handles.
MintFails(c) ==
  /\ call[c].at = "minting"
  /\ lock' = Released
  /\ \E outcome \in {"status", "error"} : Done(c, outcome)
  /\ UNCHANGED <<cached, aged, minted, revoked>>

\* Wrong: the cached token stays.
KeepToken == cached

invalidate == 0

\* A 401 is tried once more with a new token.
Unauthorized(c) ==
  /\ call[c].at = "sent" /\ call[c].token <= revoked
  /\ \/ call[c].retried_auth /\ Done(c, "unauthorized") /\ UNCHANGED <<cached, aged, lock, minted>>
     \/ /\ ~call[c].retried_auth
        /\ cached' = invalidate /\ aged' = (aged /\ invalidate # 0)
        /\ installation_token(c, [call[c] EXCEPT !.retried_auth = TRUE], invalidate)
  /\ UNCHANGED revoked

\* A rate limit is waited out once.
RateLimited(c) ==
  /\ call[c].at = "sent" /\ call[c].token > revoked
  /\ IF call[c].retried_limit
       THEN Done(c, "status")
       ELSE Update(c, [call[c] EXCEPT !.at = "waiting", !.retried_limit = TRUE])
  /\ UNCHANGED <<cached, aged, lock, minted, revoked>>

WaitEnds(c) ==
  /\ call[c].at = "waiting"
  /\ installation_token(c, call[c], cached)
  /\ UNCHANGED <<cached, aged, revoked>>

Answers(c) ==
  /\ call[c].at = "sent" /\ call[c].token > revoked
  /\ Done(c, "ok")
  /\ UNCHANGED <<cached, aged, lock, minted, revoked>>

\* A 4xx or 5xx, or no answer at all.
Fails(c) ==
  /\ call[c].at = "sent" /\ call[c].token > revoked
  /\ \E outcome \in {"status", "error"} : Done(c, outcome)
  /\ UNCHANGED <<cached, aged, lock, minted, revoked>>

\* The installation is suspended and unsuspended: its tokens are worthless.
Revoke == revoked < minted /\ revoked' = minted /\ UNCHANGED <<cached, aged, lock, minted, call>>

TokenAges == cached # 0 /\ ~aged /\ aged' = TRUE /\ UNCHANGED <<cached, lock, minted, revoked, call>>

ClientTypeOK ==
  /\ cached \in 0..minted /\ aged \in BOOLEAN /\ lock \in Callers \union {NoOne}
  /\ minted \in Nat /\ revoked \in 0..minted
  /\ call \in [Callers -> Calls]
  /\ \A c \in Callers : lock = c <=> call[c].at = "minting"

\* A call that ends unauthorized met a revocation while it was under way: one that came before is
\* answered with a new token, whoever else mints or invalidates at the same time (_request).
OldRevocationsAreHarmless ==
  \A c \in Callers : call[c].outcome = "unauthorized" => revoked > call[c].revoked
=============================================================================
