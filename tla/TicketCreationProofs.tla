------------------------ MODULE TicketCreationProofs ------------------------
(***************************************************************************)
(* Theorems about TicketCreation, for any number of requests, keys, bodies *)
(* and faults.  The invariant joins TokenInv, what the calls to GitHub     *)
(* keep of the token they share, to what a request holds (RequestInv) and  *)
(* what is behind a key (KeyInv).                                          *)
(***************************************************************************)
EXTENDS TicketCreation, FiniteSetTheorems, TLAPS

-----------------------------------------------------------------------------
(* What the calls keep of the token, whoever makes them: only the variables of *)
(* GitHubClient occur here.                                                    *)

\* A token that is being minted was issued after the revocations a call knew of.
MintedSince(known) == lock # NoOne => call[lock].token > known

\* Once a call has been refused a token, the tokens it may get are newer than the revocations it
\* knew of.
CallInv(c) ==
  /\ call[c].token <= minted /\ call[c].revoked <= revoked
  /\ call[c].at # "idle" => call[c].outcome = "none"
  /\ call[c].at \in {"sent", "waiting"} => MintedSince(call[c].revoked)
  /\ call[c].retried_auth /\ call[c].at # "idle" =>
       /\ Fresh(cached) => cached > call[c].revoked
       /\ MintedSince(call[c].revoked)
       /\ call[c].at # "lock" => call[c].token > call[c].revoked

\* Whoever mints does so because the cached token is of no use.
TokenInv ==
  /\ ClientTypeOK
  /\ lock # NoOne => ~Fresh(cached)
  /\ \A c \in Callers : CallInv(c)
  /\ OldRevocationsAreHarmless

\* What ClientTypeOK says of the variables but the calls.
LEMMA Ranges ==
  ASSUME TokenInv
  PROVE  /\ cached \in Nat /\ minted \in Nat /\ revoked \in Nat /\ cached <= minted /\ revoked <= minted
         /\ lock \in Callers \union {NoOne} /\ call \in [Callers -> Calls]
  BY DEF TokenInv, ClientTypeOK

LEMMA NoCallIsACall ==
  /\ NoCall \in Calls
  /\ NoCall.at = "idle" /\ NoCall.token = 0 /\ ~NoCall.retried_auth /\ NoCall.revoked = 0
  /\ NoCall.outcome = "none"
  BY DEF NoCall, Calls, Outcomes

\* No call is under way.
LEMMA TokenIdle ==
  ASSUME NoOne \notin Callers, call \in [Callers -> Calls], \A c \in Callers : call[c] = NoCall,
         cached = 0, aged \in BOOLEAN, lock = NoOne, minted \in Nat, revoked \in 0..minted
  PROVE  TokenInv
<1>1. \A c \in Callers : (lock = c <=> call[c].at = "minting")
  BY NoCallIsACall
<1>2. ClientTypeOK
  BY <1>1 DEF ClientTypeOK
<1>3. ASSUME NEW c \in Callers PROVE CallInv(c)
  <2>1. call[c].at = "idle" /\ call[c].token = 0 /\ call[c].revoked = 0
    BY NoCallIsACall
  <2>2. call[c].token <= minted /\ call[c].revoked <= revoked
    BY <2>1
  <2>3. QED
    BY <2>1, <2>2 DEF CallInv
<1>4. ~Fresh(cached)
  BY DEF Fresh
<1>5. OldRevocationsAreHarmless
  BY NoCallIsACall DEF OldRevocationsAreHarmless
<1>6. QED
  BY <1>2, <1>3, <1>4, <1>5 DEF TokenInv

LEMMA TokenInit ==
  ASSUME NoOne \notin Callers, ClientInit
  PROVE  TokenInv
<1>1. cached = 0 /\ lock = NoOne /\ minted = 0 /\ revoked = 0 /\ call = [c \in Callers |-> NoCall]
  BY DEF ClientInit
<1>2. aged \in BOOLEAN
  BY Zenon DEF ClientInit
<1>3. call \in [Callers -> Calls] /\ \A c \in Callers : call[c] = NoCall
  BY <1>1, NoCallIsACall
<1>4. minted \in Nat /\ revoked \in 0..minted
  BY <1>1
<1>5. QED
  BY <1>1, <1>2, <1>3, <1>4, TokenIdle

\* The other calls keep what they had when c's call is replaced, the cached token stays or is
\* dropped, and who mints stays or ends or is c.
LEMMA OthersKeep ==
  ASSUME TokenInv, NoOne \notin Callers, NEW c \in Callers, NEW d \in Callers, d # c,
         call' = [call EXCEPT ![c] = call'[c]], call'[c].token \in Nat, revoked' = revoked,
         minted' \in Nat, minted <= minted', Fresh(cached)' => Fresh(cached) /\ cached' = cached,
         \/ lock' = lock /\ lock # c
         \/ lock' = NoOne
         \/ lock' = c /\ call'[c].token > minted
  PROVE  CallInv(d)'
<1>1. call'[d] = call[d] /\ call[d] \in Calls /\ CallInv(d)
  BY Ranges DEF TokenInv
<1>2. call[d].revoked <= minted /\ call[d].revoked \in Nat /\ call[d].token \in Nat
  BY <1>1, Ranges DEF CallInv, Calls
<1>3. MintedSince(call[d].revoked) => (lock' # NoOne => call'[lock'].token > call[d].revoked)
  <2>1. CASE lock' = lock /\ lock # c
    <3>1. lock # NoOne => call'[lock] = call[lock]
      BY <2>1, Ranges
    <3>2. QED
      BY <2>1, <3>1 DEF MintedSince
  <2>2. CASE lock' = NoOne
    BY <2>2
  <2>3. CASE lock' = c /\ call'[c].token > minted
    <3>1. call'[c].token > call[d].revoked
      BY <2>3, <1>2, Ranges
    <3>2. QED
      BY <2>3, <3>1
  <2>4. QED
    BY <2>1, <2>2, <2>3
<1>4. MintedSince(call[d].revoked) => MintedSince(call[d].revoked)'
  BY <1>1, <1>3 DEF MintedSince
<1>5. call'[d].token <= minted' /\ call'[d].revoked <= revoked'
  BY <1>1, <1>2, Ranges DEF CallInv
<1>6. QED
  BY <1>1, <1>4, <1>5 DEF CallInv, MintedSince

\* The rest of the invariant, when c's call is replaced.
LEMMA CallReplaced ==
  ASSUME TokenInv, NoOne \notin Callers, NEW c \in Callers,
         call' = [call EXCEPT ![c] = call'[c]], call'[c] \in Calls, revoked' = revoked,
         minted' \in Nat, minted <= minted', cached' \in 0..minted', aged' \in BOOLEAN,
         Fresh(cached)' => Fresh(cached) /\ cached' = cached,
         \/ lock' = lock /\ lock # c /\ call'[c].at # "minting"
         \/ lock' = NoOne /\ lock \in {c, NoOne} /\ call'[c].at # "minting"
         \/ lock' = c /\ lock = NoOne /\ call'[c].at = "minting" /\ call'[c].token > minted
              /\ ~Fresh(cached)',
         CallInv(c)',
         call'[c].outcome = "unauthorized" => revoked > call'[c].revoked
  PROVE  TokenInv'
<1>1. \A d \in Callers : d # c => call'[d] = call[d]
  BY Ranges
<1>2. ClientTypeOK'
  <2>1. call' \in [Callers -> Calls] /\ lock' \in Callers \union {NoOne}
    BY Ranges
  <2>2. revoked' \in 0..minted'
    BY Ranges
  <2>3. \A d \in Callers : (lock' = d <=> call'[d].at = "minting")
    <3>1. \A d \in Callers : (lock = d <=> call[d].at = "minting")
      BY DEF TokenInv, ClientTypeOK
    <3>2. QED
      BY <3>1, <1>1
  <2>4. QED
    BY <2>1, <2>2, <2>3 DEF ClientTypeOK
<1>3. (lock # NoOne => ~Fresh(cached))'
  BY DEF TokenInv
<1>4. call'[c].token \in Nat
  BY DEF Calls
<1>5. \A d \in Callers : CallInv(d)'
  BY <1>4, OthersKeep
<1>6. OldRevocationsAreHarmless'
  BY <1>1 DEF TokenInv, OldRevocationsAreHarmless
<1>7. QED
  BY <1>2, <1>3, <1>5, <1>6 DEF TokenInv

\* A call ends, or waits for a rate limit.
LEMMA CallEnds ==
  ASSUME TokenInv, NoOne \notin Callers, NEW c \in Callers, NEW r \in Calls, Update(c, r),
         UNCHANGED <<cached, aged, minted, revoked>>,
         \/ lock' = lock /\ call[c].at # "minting"
         \/ lock' = NoOne /\ call[c].at = "minting",
         \/ r.at = "idle" /\ r.token = 0 /\ r.revoked <= revoked
         \/ /\ r.at = "waiting" /\ call[c].at = "sent"
            /\ r.revoked = call[c].revoked /\ r.token = call[c].token
            /\ r.retried_auth = call[c].retried_auth /\ r.outcome = call[c].outcome,
         r.outcome = "unauthorized" => revoked > r.revoked
  PROVE  TokenInv'
<1>1. call' = [call EXCEPT ![c] = r] /\ call'[c] = r
  BY Ranges DEF Update
<1>2. CallInv(c) /\ (lock = c <=> call[c].at = "minting") /\ aged \in BOOLEAN
  BY Zenon DEF TokenInv, ClientTypeOK
<1>3. (Fresh(cached)' <=> Fresh(cached)) /\ aged' \in BOOLEAN
  BY Zenon, <1>2 DEF Fresh
<1>4. CallInv(c)'
  <2>1. CASE r.at = "idle"
    <3>1. call'[c].token <= minted' /\ call'[c].revoked <= revoked'
      BY <2>1, <1>1, Ranges
    <3>2. QED
      BY <2>1, <3>1, <1>1 DEF CallInv
  <2>2. CASE r.at = "waiting"
    <3>1. MintedSince(call[c].revoked)
      BY <2>2, <1>2 DEF CallInv
    <3>2. lock' = lock /\ lock # c
      BY <2>2, <1>2
    <3>3. MintedSince(call[c].revoked)'
      BY <3>1, <3>2, <1>1, <2>2, Ranges DEF MintedSince
    <3>4. QED
      BY <2>2, <3>3, <1>1, <1>2, <1>3 DEF CallInv
  <2>3. QED
    BY <2>1, <2>2
<1>5. cached' \in 0..minted' /\ minted' \in Nat /\ minted <= minted' /\ revoked' = revoked
  BY Ranges
<1>6. \/ lock' = lock /\ lock # c
      \/ lock' = NoOne /\ lock \in {c, NoOne}
  BY <1>2
<1>7. call'[c].at # "minting"
  BY <1>1
<1>8. QED
  BY <1>1, <1>3, <1>4, <1>5, <1>6, <1>7, CallReplaced

\* A call asks for a token: for the first time, again when it holds the lock or has waited, or
\* after a refusal, for which the cached token was dropped.
LEMMA TokenAsked ==
  ASSUME TokenInv, NoOne \notin Callers, NEW c \in Callers, NEW r \in Calls, NEW token \in Nat,
         installation_token(c, r, token), call[c].at # "minting", revoked' = revoked,
         \/ token = cached /\ cached' = cached /\ aged' = aged
         \/ token = 0 /\ cached' = 0 /\ aged' \in BOOLEAN,
         r.token <= minted, r.revoked <= revoked, r.outcome = "none",
         r.retried_auth => /\ MintedSince(r.revoked)
                           /\ Fresh(token) => token > r.revoked
  PROVE  TokenInv'
<1>1. lock # c /\ aged \in BOOLEAN
  BY Zenon DEF TokenInv, ClientTypeOK
<1>2. /\ Fresh(cached)' => Fresh(cached) /\ cached' = cached /\ Fresh(token) /\ token = cached
      /\ Fresh(token) => token = cached /\ cached' = cached
  <2>1. CASE token = cached /\ cached' = cached /\ aged' = aged
    BY Zenon, <2>1 DEF Fresh
  <2>2. CASE token = 0 /\ cached' = 0 /\ aged' \in BOOLEAN
    BY Zenon, <2>2 DEF Fresh
  <2>3. QED
    BY Zenon, <2>1, <2>2
<1>3. aged' \in BOOLEAN
  BY Zenon, <1>1
<1>4. token <= minted /\ cached' <= minted /\ cached' \in Nat
  BY Ranges
<1>5. CASE Fresh(token) /\ Update(c, [r EXCEPT !.at = "sent", !.token = token]) /\ UNCHANGED <<lock, minted>>
  <2> DEFINE new == [r EXCEPT !.at = "sent", !.token = token]
  <2>1. /\ new \in Calls /\ new.at = "sent" /\ new.token = token /\ new.revoked = r.revoked
        /\ new.outcome = r.outcome /\ new.retried_auth = r.retried_auth
    BY DEF Calls
  <2>2. call' = [call EXCEPT ![c] = new] /\ call'[c] = new
    BY <1>5, Ranges DEF Update
  <2> HIDE DEF new
  <2>3. lock' = NoOne /\ lock = NoOne
    BY <1>5, <1>2 DEF TokenInv
  <2>4. CallInv(c)'
    BY <2>1, <2>2, <2>3, <1>2, <1>4, <1>5 DEF CallInv, MintedSince
  <2>5. cached' \in 0..minted' /\ minted' \in Nat /\ minted <= minted'
    BY <1>5, <1>4, Ranges
  <2>6. QED
    BY <2>1, <2>2, <2>3, <2>4, <2>5, <1>2, <1>3, CallReplaced
<1>6. CASE ~Fresh(token) /\ lock = NoOne /\ Mint(c, r)
  <2> DEFINE new == [r EXCEPT !.at = "minting", !.token = minted + 1]
  <2>0. minted + 1 \in Nat
    BY Ranges
  <2>1. /\ new \in Calls /\ new.at = "minting" /\ new.token = minted + 1 /\ new.revoked = r.revoked
        /\ new.outcome = r.outcome /\ new.retried_auth = r.retried_auth
    BY <2>0 DEF Calls
  <2>2. call' = [call EXCEPT ![c] = new] /\ call'[c] = new
    BY <1>6, Ranges DEF Update, Mint
  <2> HIDE DEF new
  <2>3. lock' = c /\ lock = NoOne /\ minted' = minted + 1
    BY <1>6 DEF Mint
  <2>4. ~Fresh(cached)'
    BY <1>2, <1>6
  <2>5. r.revoked \in Nat /\ r.revoked <= minted
    BY Ranges DEF Calls
  <2>6. CallInv(c)'
    BY <2>1, <2>2, <2>3, <2>4, <2>5, <1>4, Ranges DEF CallInv, MintedSince
  <2>7. cached' \in 0..minted' /\ minted' \in Nat /\ minted <= minted' /\ call'[c].token > minted
    BY <2>1, <2>2, <2>3, <1>4, Ranges
  <2>8. QED
    BY <2>1, <2>2, <2>3, <2>4, <2>6, <2>7, <1>2, <1>3, CallReplaced
<1>7. CASE ~Fresh(token) /\ lock # NoOne /\ Update(c, [r EXCEPT !.at = "lock"]) /\ UNCHANGED <<lock, minted>>
  <2> DEFINE new == [r EXCEPT !.at = "lock"]
  <2>1. /\ new \in Calls /\ new.at = "lock" /\ new.token = r.token /\ new.revoked = r.revoked
        /\ new.outcome = r.outcome /\ new.retried_auth = r.retried_auth
    BY DEF Calls
  <2>2. call' = [call EXCEPT ![c] = new] /\ call'[c] = new
    BY <1>7, Ranges DEF Update
  <2> HIDE DEF new
  <2>3. lock' = lock /\ minted' = minted /\ call'[lock] = call[lock]
    BY <1>1, <1>7, <2>2, Ranges
  <2>4. ~Fresh(cached)'
    BY <1>2, <1>7
  <2>5. CallInv(c)'
    BY <2>1, <2>2, <2>3, <2>4 DEF CallInv, MintedSince
  <2>6. cached' \in 0..minted' /\ minted' \in Nat /\ minted <= minted'
    BY <2>3, <1>4, Ranges
  <2>7. QED
    BY <2>1, <2>2, <2>3, <2>4, <2>5, <2>6, <1>1, <1>2, <1>3, CallReplaced
<1>8. QED
  BY <1>5, <1>6, <1>7 DEF installation_token

-----------------------------------------------------------------------------
(* The operations. *)

LEMMA Kept_Begin ==
  ASSUME TokenInv, NoOne \notin Callers, NEW c \in Callers, Begin(c), call[c].at = "idle"
  PROVE  TokenInv'
<1> DEFINE r == [NoCall EXCEPT !.revoked = revoked]
<1>1. r \in Calls /\ r.token = 0 /\ r.revoked = revoked /\ r.outcome = "none" /\ ~r.retried_auth
  BY Ranges DEF NoCall, Calls, Outcomes
<1>2. installation_token(c, r, cached) /\ UNCHANGED <<cached, aged, revoked>>
  BY DEF Begin
<1> HIDE DEF r
<1>3. r.token <= minted /\ r.revoked <= revoked
  BY <1>1, Ranges
<1>4. QED
  BY <1>1, <1>2, <1>3, Ranges, TokenAsked

\* A call that goes on has no outcome yet.
LEMMA Asking ==
  ASSUME TokenInv, NoOne \notin Callers, NEW c \in Callers,
         call[c].at \in {"lock", "waiting"},
         installation_token(c, call[c], cached), UNCHANGED <<cached, aged, revoked>>
  PROVE  TokenInv'
<1>1. call[c] \in Calls /\ CallInv(c)
  BY Ranges DEF TokenInv
<1>2. /\ call[c].token <= minted /\ call[c].revoked <= revoked /\ call[c].outcome = "none"
      /\ call[c].retried_auth => /\ MintedSince(call[c].revoked)
                                 /\ Fresh(cached) => cached > call[c].revoked
  BY <1>1 DEF CallInv
<1>3. QED
  BY <1>1, <1>2, Ranges, TokenAsked

LEMMA Kept_Minted ==
  ASSUME TokenInv, NoOne \notin Callers, NEW c \in Callers, Minted(c)
  PROVE  TokenInv'
<1> DEFINE new == [call[c] EXCEPT !.at = "sent"]
<1>1. call[c] \in Calls /\ CallInv(c) /\ (lock = c <=> call[c].at = "minting")
  BY Ranges DEF TokenInv, ClientTypeOK
<1>2. /\ new \in Calls /\ new.at = "sent" /\ new.token = call[c].token
      /\ new.revoked = call[c].revoked /\ new.outcome = "none"
      /\ new.retried_auth = call[c].retried_auth
  BY <1>1 DEF Calls, CallInv, Minted
<1>3. call' = [call EXCEPT ![c] = new] /\ call'[c] = new
  BY Ranges DEF Minted, Update
<1> HIDE DEF new
<1>4. /\ lock = c /\ lock' = NoOne /\ cached' = call[c].token /\ minted' = minted
      /\ revoked' = revoked /\ call[c].at = "minting"
  BY <1>1 DEF Minted
<1>5. cached' \in 0..minted' /\ cached' \in Nat
  BY <1>1, <1>4, Ranges DEF CallInv, Calls
<1>6. aged' \in BOOLEAN
  BY Zenon DEF Minted
<1>7. call[c].token > call[c].revoked \/ ~call[c].retried_auth
  BY <1>1, <1>4 DEF CallInv
<1>8. CallInv(c)'
  BY <1>1, <1>2, <1>3, <1>4, <1>7 DEF CallInv, MintedSince
<1>9. \A d \in Callers \ {c} : CallInv(d)'
  <2> SUFFICES ASSUME NEW d \in Callers, d # c PROVE CallInv(d)'
    OBVIOUS
  <2>1. call'[d] = call[d] /\ CallInv(d)
    BY <1>3, Ranges DEF TokenInv
  <2>2. MintedSince(call[d].revoked) => call[c].token > call[d].revoked
    BY <1>4 DEF MintedSince, TokenInv
  <2>3. QED
    BY <2>1, <2>2, <1>4 DEF CallInv, MintedSince
<1>10. ClientTypeOK'
  <2>1. call' \in [Callers -> Calls] /\ lock' \in Callers \union {NoOne}
    BY <1>2, <1>3, <1>4, Ranges
  <2>2. \A d \in Callers : (lock' = d <=> call'[d].at = "minting")
    <3>1. \A d \in Callers : (lock = d <=> call[d].at = "minting")
      BY DEF TokenInv, ClientTypeOK
    <3>2. \A d \in Callers : d # c => call'[d] = call[d]
      BY <1>3, Ranges
    <3>3. QED
      BY <3>1, <3>2, <1>2, <1>3, <1>4
  <2>3. revoked' \in 0..minted' /\ minted' \in Nat
    BY <1>4, Ranges
  <2>4. QED
    BY <2>1, <2>2, <2>3, <1>5, <1>6 DEF ClientTypeOK
<1>11. OldRevocationsAreHarmless'
  <2>1. \A d \in Callers : d # c => call'[d] = call[d]
    BY <1>3, Ranges
  <2>2. QED
    BY <2>1, <1>2, <1>3, <1>4 DEF TokenInv, OldRevocationsAreHarmless
<1>12. QED
  BY <1>4, <1>8, <1>9, <1>10, <1>11 DEF TokenInv

\* A call ends with an outcome.
LEMMA Ending ==
  ASSUME TokenInv, NoOne \notin Callers, NEW c \in Callers, NEW outcome \in Outcomes,
         Done(c, outcome), UNCHANGED <<cached, aged, minted, revoked>>,
         \/ lock' = lock /\ call[c].at # "minting"
         \/ lock' = NoOne /\ call[c].at = "minting",
         outcome = "unauthorized" => revoked > call[c].revoked
  PROVE  TokenInv'
<1> DEFINE r == [NoCall EXCEPT !.revoked = call[c].revoked, !.outcome = outcome]
<1>1. call[c] \in Calls /\ CallInv(c)
  BY Ranges DEF TokenInv
<1>2. r \in Calls /\ r.at = "idle" /\ r.token = 0 /\ r.revoked = call[c].revoked /\ r.outcome = outcome
  BY <1>1 DEF NoCall, Calls
<1>3. Update(c, r)
  BY DEF Done
<1> HIDE DEF r
<1>4. r.revoked <= revoked
  BY <1>1, <1>2 DEF CallInv
<1>5. QED
  BY <1>2, <1>3, <1>4, CallEnds

\* A caller takes the outcome.
LEMMA Kept_EndCall ==
  ASSUME TokenInv, NoOne \notin Callers, NEW c \in Callers, call[c].at = "idle",
         Update(c, NoCall), UNCHANGED <<cached, aged, lock, minted, revoked>>
  PROVE  TokenInv'
<1>1. NoCall.revoked <= revoked
  BY NoCallIsACall, Ranges
<1>2. QED
  BY <1>1, NoCallIsACall, CallEnds

LEMMA Kept_MintFails ==
  ASSUME TokenInv, NoOne \notin Callers, NEW c \in Callers, MintFails(c)
  PROVE  TokenInv'
<1>1. PICK outcome \in {"status", "error"} : Done(c, outcome)
  BY DEF MintFails
<1>2. outcome \in Outcomes /\ outcome # "unauthorized"
  BY DEF Outcomes
<1>3. lock' = NoOne /\ call[c].at = "minting" /\ UNCHANGED <<cached, aged, minted, revoked>>
  BY DEF MintFails, Released
<1>4. QED
  BY <1>1, <1>2, <1>3, Ending

LEMMA Kept_Unauthorized ==
  ASSUME TokenInv, NoOne \notin Callers, NEW c \in Callers, Unauthorized(c)
  PROVE  TokenInv'
<1>1. call[c] \in Calls /\ CallInv(c)
  BY Ranges DEF TokenInv
<1>2. call[c].at = "sent" /\ call[c].token <= revoked /\ revoked' = revoked /\ call[c].outcome = "none"
  BY <1>1 DEF Unauthorized, CallInv
<1>3. CASE call[c].retried_auth /\ Done(c, "unauthorized") /\ UNCHANGED <<cached, aged, lock, minted>>
  <2>1. call[c].token > call[c].revoked
    BY <1>1, <1>2, <1>3 DEF CallInv
  <2>2. revoked > call[c].revoked
    BY <2>1, <1>1, <1>2, Ranges DEF Calls
  <2>3. "unauthorized" \in Outcomes
    BY DEF Outcomes
  <2>4. QED
    BY <1>2, <1>3, <2>2, <2>3, Ending
<1>4. CASE /\ ~call[c].retried_auth
           /\ cached' = invalidate /\ aged' = (aged /\ invalidate # 0)
           /\ installation_token(c, [call[c] EXCEPT !.retried_auth = TRUE], invalidate)
  <2> DEFINE r == [call[c] EXCEPT !.retried_auth = TRUE]
  <2>1. /\ r \in Calls /\ r.token = call[c].token /\ r.revoked = call[c].revoked
        /\ r.outcome = "none"
    BY <1>1, <1>2 DEF Calls
  <2>2. installation_token(c, r, 0) /\ cached' = 0
    BY <1>4 DEF invalidate
  <2> HIDE DEF r
  <2>3. aged' \in BOOLEAN
    BY Zenon, <1>4
  <2>4. r.token <= minted /\ r.revoked <= revoked /\ MintedSince(r.revoked)
    BY <2>1, <1>1, <1>2 DEF CallInv
  <2>5. ~Fresh(0)
    BY DEF Fresh
  <2>6. QED
    BY <2>1, <2>2, <2>3, <2>4, <2>5, <1>2, TokenAsked
<1>5. QED
  BY <1>3, <1>4 DEF Unauthorized

LEMMA Kept_RateLimited ==
  ASSUME TokenInv, NoOne \notin Callers, NEW c \in Callers, RateLimited(c)
  PROVE  TokenInv'
<1>1. call[c].at = "sent" /\ lock' = lock /\ UNCHANGED <<cached, aged, minted, revoked>>
  BY DEF RateLimited
<1>2. call[c] \in Calls
  BY Ranges
<1>3. CASE Done(c, "status")
  <2>1. "status" \in Outcomes
    BY DEF Outcomes
  <2>2. QED
    BY <1>1, <1>3, <2>1, Ending
<1>4. CASE Update(c, [call[c] EXCEPT !.at = "waiting", !.retried_limit = TRUE])
  <2> DEFINE r == [call[c] EXCEPT !.at = "waiting", !.retried_limit = TRUE]
  <2>1. /\ r \in Calls /\ r.at = "waiting" /\ r.token = call[c].token
        /\ r.revoked = call[c].revoked /\ r.outcome = call[c].outcome
        /\ r.retried_auth = call[c].retried_auth
    BY <1>2 DEF Calls
  <2>2. Update(c, r)
    BY <1>4
  <2> HIDE DEF r
  <2>3. r.outcome # "unauthorized"
    BY <1>1, <2>1 DEF TokenInv, CallInv
  <2>4. QED
    BY <1>1, <2>1, <2>2, <2>3, CallEnds
<1>5. QED
  BY <1>3, <1>4 DEF RateLimited

LEMMA Kept_Answers ==
  ASSUME TokenInv, NoOne \notin Callers, NEW c \in Callers, Answers(c)
  PROVE  TokenInv'
<1>1. "ok" \in Outcomes
  BY DEF Outcomes
<1>2. /\ call[c].at # "minting" /\ lock' = lock /\ Done(c, "ok")
      /\ UNCHANGED <<cached, aged, minted, revoked>>
  BY DEF Answers
<1>3. QED
  BY <1>1, <1>2, Ending

LEMMA Kept_Fails ==
  ASSUME TokenInv, NoOne \notin Callers, NEW c \in Callers, Fails(c)
  PROVE  TokenInv'
<1>1. PICK outcome \in {"status", "error"} : Done(c, outcome)
  BY DEF Fails
<1>2. outcome \in Outcomes /\ outcome # "unauthorized"
  BY DEF Outcomes
<1>3. /\ call[c].at # "minting" /\ lock' = lock /\ UNCHANGED <<cached, aged, minted, revoked>>
  BY DEF Fails
<1>4. QED
  BY <1>1, <1>2, <1>3, Ending

\* The tokens are revoked, or the cached one grows old.
LEMMA Kept_TokenTrouble ==
  ASSUME TokenInv, Revoke \/ TokenAges
  PROVE  TokenInv'
<1>1. /\ UNCHANGED <<cached, lock, minted, call>> /\ aged' \in BOOLEAN
      /\ Fresh(cached)' => Fresh(cached)
  BY Zenon DEF TokenInv, ClientTypeOK, Revoke, TokenAges, Fresh
<1>2. revoked' \in 0..minted /\ revoked <= revoked'
  BY Ranges DEF Revoke, TokenAges
<1>3. ClientTypeOK'
  BY <1>1, <1>2 DEF TokenInv, ClientTypeOK
<1>4. ASSUME NEW c \in Callers PROVE CallInv(c)'
  <2>1. CallInv(c) /\ call[c].revoked \in Nat /\ call' = call /\ cached' = cached /\ minted' = minted
    BY <1>1, Ranges DEF TokenInv, Calls
  <2>2. MintedSince(call[c].revoked) => MintedSince(call[c].revoked)'
    BY <1>1 DEF MintedSince
  <2>3. call[c].revoked <= revoked'
    BY <2>1, <1>2, Ranges DEF CallInv
  <2>4. QED
    BY <2>1, <2>2, <2>3, <1>1 DEF CallInv
<1>5. OldRevocationsAreHarmless'
  <2>1. \A c \in Callers : call[c].revoked \in Nat
    BY Ranges DEF Calls
  <2>2. QED
    BY <2>1, <1>1, <1>2, Ranges DEF TokenInv, OldRevocationsAreHarmless
<1>6. QED
  BY <1>1, <1>3, <1>4, <1>5 DEF TokenInv

\* The process that holds the tokens ends.
LEMMA Kept_ClientCrash ==
  ASSUME TokenInv, NoOne \notin Callers, call' = [c \in Callers |-> NoCall],
         cached' = 0, aged' = FALSE, lock' = NoOne, UNCHANGED <<minted, revoked>>
  PROVE  TokenInv'
<1>1. minted \in Nat /\ revoked \in 0..minted /\ aged' \in BOOLEAN
  BY Zenon DEF TokenInv, ClientTypeOK
<1>2. call' \in [Callers -> Calls] /\ \A c \in Callers : call'[c] = NoCall
  BY NoCallIsACall
<1>3. \A c \in Callers : (lock' = c <=> call'[c].at = "minting")
  BY NoCallIsACall, <1>2
<1>4. ClientTypeOK'
  BY <1>1, <1>2, <1>3 DEF ClientTypeOK
<1>5. ASSUME NEW c \in Callers PROVE CallInv(c)'
  <2>1. call'[c].at = "idle" /\ call'[c].token = 0 /\ call'[c].revoked = 0
    BY NoCallIsACall, <1>2
  <2>2. call'[c].token <= minted' /\ call'[c].revoked <= revoked'
    BY <2>1, <1>1
  <2>3. QED
    BY <2>1, <2>2 DEF CallInv
<1>6. OldRevocationsAreHarmless'
  BY NoCallIsACall, <1>2 DEF OldRevocationsAreHarmless
<1>7. QED
  BY <1>4, <1>5, <1>6 DEF TokenInv

-----------------------------------------------------------------------------
(* What those who make the calls need to know of them. *)

LEMMA DoneFacts ==
  ASSUME TokenInv, NEW c \in Callers, NEW outcome, Done(c, outcome)
  PROVE  /\ \A d \in Callers : d # c => call'[d] = call[d]
         /\ call'[c].outcome = outcome /\ call'[c].at = "idle"
<1> DEFINE r == [NoCall EXCEPT !.revoked = call[c].revoked, !.outcome = outcome]
<1>1. r.outcome = outcome /\ r.at = "idle"
  BY DEF NoCall
<1>2. call' = [call EXCEPT ![c] = r]
  BY DEF Done, Update
<1> HIDE DEF r
<1>3. QED
  BY <1>1, <1>2, Ranges

LEMMA AskFacts ==
  ASSUME TokenInv, NEW c \in Callers, NEW r \in Calls, NEW token, installation_token(c, r, token)
  PROVE  /\ \A d \in Callers : d # c => call'[d] = call[d]
         /\ call'[c].outcome = r.outcome /\ call'[c].at # "idle"
<1>1. PICK at \in {"sent", "minting", "lock"}, t \in {token, minted + 1, r.token} :
        call' = [call EXCEPT ![c] = [r EXCEPT !.at = at, !.token = t]]
  <2>1. CASE Update(c, [r EXCEPT !.at = "sent", !.token = token])
    BY <2>1 DEF Update
  <2>2. CASE Mint(c, r)
    BY <2>2 DEF Update, Mint
  <2>3. CASE Update(c, [r EXCEPT !.at = "lock"])
    <3>1. [r EXCEPT !.at = "lock"] = [r EXCEPT !.at = "lock", !.token = r.token]
      BY DEF Calls
    <3>2. QED
      BY <2>3, <3>1 DEF Update
  <2>4. QED
    BY <2>1, <2>2, <2>3 DEF installation_token
<1> DEFINE new == [r EXCEPT !.at = at, !.token = t]
<1>2. new.outcome = r.outcome /\ new.at # "idle"
  BY DEF Calls
<1>3. call' = [call EXCEPT ![c] = new]
  BY <1>1
<1> HIDE DEF new
<1>4. QED
  BY <1>2, <1>3, Ranges

LEMMA BeginFacts ==
  ASSUME TokenInv, NoOne \notin Callers, NEW c \in Callers, call[c].at = "idle", Begin(c)
  PROVE  /\ TokenInv'
         /\ \A d \in Callers : d # c => call'[d] = call[d]
         /\ call'[c].outcome = "none"
<1> DEFINE r == [NoCall EXCEPT !.revoked = revoked]
<1>1. r \in Calls /\ r.outcome = "none"
  BY Ranges DEF NoCall, Calls, Outcomes
<1>2. installation_token(c, r, cached)
  BY DEF Begin
<1> HIDE DEF r
<1>3. QED
  BY <1>1, <1>2, Kept_Begin, AskFacts

LEMMA EndCallFacts ==
  ASSUME TokenInv, NoOne \notin Callers, NEW c \in Callers, call[c].at = "idle",
         Update(c, NoCall), UNCHANGED <<cached, aged, lock, minted, revoked>>
  PROVE  /\ TokenInv'
         /\ \A d \in Callers : d # c => call'[d] = call[d]
         /\ call'[c].outcome = "none" /\ call'[c].at = "idle"
  BY Kept_EndCall, NoCallIsACall, Ranges DEF Update

\* A call under way makes a step; only GitHub's answer is one.
Unanswered(c) ==
  \/ LockAndLook(c) \/ Minted(c) \/ MintFails(c) \/ Unauthorized(c)
  \/ RateLimited(c) \/ WaitEnds(c) \/ Fails(c)

LEMMA CallStepFacts ==
  ASSUME TokenInv, NoOne \notin Callers, NEW c \in Callers, Unanswered(c) \/ Answers(c)
  PROVE  /\ TokenInv'
         /\ \A d \in Callers : d # c => call'[d] = call[d]
         /\ Unanswered(c) => call'[c].outcome # "ok"
<1>1. call[c] \in Calls /\ CallInv(c)
  BY Ranges DEF TokenInv
<1>2. CASE LockAndLook(c) \/ WaitEnds(c)
  <2>1. /\ installation_token(c, call[c], cached) /\ UNCHANGED <<cached, aged, revoked>>
        /\ call[c].at \in {"lock", "waiting"}
    BY <1>2 DEF LockAndLook, WaitEnds
  <2>2. call[c].outcome = "none"
    BY <1>1, <2>1 DEF CallInv
  <2>3. QED
    BY <1>1, <2>1, <2>2, Asking, AskFacts
<1>3. CASE Minted(c)
  <2>1. call' = [call EXCEPT ![c] = [call[c] EXCEPT !.at = "sent"]] /\ call[c].outcome = "none"
    BY <1>1, <1>3 DEF Minted, Update, CallInv
  <2>2. [call[c] EXCEPT !.at = "sent"].outcome = "none"
    BY <1>1, <2>1 DEF Calls
  <2>3. QED
    BY <1>3, <2>1, <2>2, Kept_Minted, Ranges
<1>4. CASE MintFails(c)
  BY <1>4, Kept_MintFails, DoneFacts DEF MintFails
<1>5. CASE Unauthorized(c)
  <2>1. CASE Done(c, "unauthorized")
    BY <1>5, <2>1, Kept_Unauthorized, DoneFacts
  <2>2. CASE installation_token(c, [call[c] EXCEPT !.retried_auth = TRUE], invalidate)
    <3> DEFINE r == [call[c] EXCEPT !.retried_auth = TRUE]
    <3>1. call[c].outcome = "none"
      BY <1>1, <1>5 DEF Unauthorized, CallInv
    <3>2. r \in Calls /\ r.outcome = "none"
      BY <1>1, <3>1 DEF Calls
    <3>3. installation_token(c, r, invalidate)
      BY <2>2
    <3> HIDE DEF r
    <3>4. QED
      BY <1>5, <3>2, <3>3, Kept_Unauthorized, AskFacts
  <2>3. QED
    BY <1>5, <2>1, <2>2 DEF Unauthorized
<1>6. CASE RateLimited(c)
  <2>1. CASE Done(c, "status")
    BY <1>6, <2>1, Kept_RateLimited, DoneFacts
  <2>2. CASE Update(c, [call[c] EXCEPT !.at = "waiting", !.retried_limit = TRUE])
    <3> DEFINE r == [call[c] EXCEPT !.at = "waiting", !.retried_limit = TRUE]
    <3>1. call[c].outcome = "none"
      BY <1>1, <1>6 DEF RateLimited, CallInv
    <3>2. r.outcome = "none"
      BY <1>1, <3>1 DEF Calls
    <3>3. call' = [call EXCEPT ![c] = r]
      BY <2>2 DEF Update
    <3> HIDE DEF r
    <3>4. QED
      BY <1>6, <3>2, <3>3, Kept_RateLimited, Ranges
  <2>3. QED
    BY <1>6, <2>1, <2>2 DEF RateLimited
<1>8. CASE Fails(c)
  BY <1>8, Kept_Fails, DoneFacts DEF Fails
<1>7. Unanswered(c) => TokenInv' /\ call'[c].outcome # "ok" /\ \A d \in Callers : d # c => call'[d] = call[d]
  BY <1>2, <1>3, <1>4, <1>5, <1>6, <1>8 DEF Unanswered
<1>9. CASE Answers(c)
  BY <1>7, <1>9, Kept_Answers, DoneFacts DEF Answers
<1>10. QED
  BY <1>7, <1>9

-----------------------------------------------------------------------------
(* What the requests keep. *)

\* The steps of an attempt that has its key.
Holding == {"check", "triage", "triage again", "store", "respond"} \union CALLS

\* A request at work holds its key; what it has done on GitHub is filed under it.
RequestInv(q) ==
  /\ pc[q] \notin CALLS => call[q].at = "idle"
  /\ pc[q] \in {"reserve", "earlier"} => sent[q].key \in Keys
  /\ pc[q] \in Holding /\ sent[q].key \in Keys =>
       keys[sent[q].key].status = "reserved" /\ keys[sent[q].key].by = q
  /\ pc[q] \in {"comment", "store", "respond"} \/ (pc[q] = "issue" /\ call[q].outcome = "ok") =>
       q \in issues /\ (sent[q].key \in Keys => q \in filed[sent[q].key])
  /\ pc[q] = "respond" => q \in tickets
  /\ pc[q] # "done" => answer[q].code = 0
  /\ pc[q] = "unsent" => q \notin issues
  /\ answer[q].code = 201 => answer[q].issue \in tickets /\ sent[answer[q].issue] = sent[q]

\* The last attempt under a key is behind it, and every issue filed under it is that attempt's or
\* that of one which freed it.
KeyInv(k) ==
  /\ keys[k].status # "free" =>
       /\ keys[k].by \in Requests
       /\ sent[keys[k].by].key = k /\ sent[keys[k].by].body = keys[k].body
       /\ pc[keys[k].by] \in Holding \union {"done"}
  /\ keys[k].status = "reserved" => pc[keys[k].by] \in Holding \/ answer[keys[k].by].code \in {0, 500}
  /\ keys[k].status = "answered" => keys[k].by \in filed[k] /\ keys[k].by \in tickets
  /\ \A q \in filed[k] :
       sent[q].key = k /\ (q \in Freed \/ (keys[k].status # "free" /\ keys[k].by = q))

Inv ==
  /\ TypeOK /\ TokenInv
  /\ \A q \in Requests : RequestInv(q)
  /\ \A k \in Keys : KeyInv(k)

LEMMA Types ==
  ASSUME Inv
  PROVE  /\ sent \in [Requests -> [key: Keys \union {NoKey}, body: Bodies \union {NoKey}]]
         /\ pc \in [Requests -> Steps]
         /\ keys \in [Keys -> Rows]
         /\ issues \subseteq Requests /\ tickets \subseteq issues
         /\ filed \in [Keys -> SUBSET issues]
         /\ answer \in [Requests -> [code: {0, 201, 404, 409, 422, 500, 502, 503},
                                     issue: Requests \union {NoOne}]]
         /\ faults \in 0..MaxFaults
         /\ \A q \in Requests : RequestInv(q)
         /\ \A k \in Keys : KeyInv(k)
         /\ TokenInv
  BY DEF Inv, TypeOK

\* A request that is not touched, nor what it stands on.
LEMMA RequestKept ==
  ASSUME Inv, NEW d \in Requests,
         pc'[d] = pc[d], sent'[d] = sent[d], answer'[d] = answer[d],
         call'[d].at = call[d].at, call'[d].outcome = call[d].outcome,
         \A r \in Requests : pc[r] # "unsent" => sent'[r] = sent[r],
         pc[d] \in Holding /\ sent[d].key \in Keys =>
           keys'[sent[d].key] = keys[sent[d].key] /\ filed[sent[d].key] \subseteq filed'[sent[d].key],
         issues \subseteq issues', d \in issues' => d \in issues, tickets \subseteq tickets'
  PROVE  RequestInv(d)'
<1>1. RequestInv(d)
  BY Types
<1>2. answer[d].code = 201 => answer[d].issue \in tickets' /\ sent'[answer[d].issue] = sent'[d]
  <2>1. SUFFICES ASSUME answer[d].code = 201
                 PROVE  answer[d].issue \in tickets' /\ sent'[answer[d].issue] = sent'[d]
    OBVIOUS
  <2>2. answer[d].issue \in tickets /\ sent[answer[d].issue] = sent[d]
    BY <1>1, <2>1 DEF RequestInv
  <2>3. answer[d].issue \in Requests /\ answer[d].issue \in issues
    BY <2>2, Types
  <2>4. pc[answer[d].issue] # "unsent"
    BY <2>3, Types DEF RequestInv
  <2>5. QED
    BY <2>2, <2>3, <2>4
<1>3. pc[d] \in {"comment", "store", "respond", "issue"} => pc[d] \in Holding
  BY DEF Holding, CALLS
<1>4. QED
  BY <1>1, <1>2, <1>3 DEF RequestInv

\* A key that is not touched, when no attempt behind it goes back or is answered twice.
LEMMA KeyKept ==
  ASSUME Inv, NEW k \in Keys, keys'[k] = keys[k], filed'[k] = filed[k],
         tickets \subseteq tickets', issues \subseteq issues',
         \A r \in Requests :
           /\ pc[r] # "unsent" => sent'[r] = sent[r]
           /\ pc[r] \in Holding \union {"done"} => pc'[r] \in Holding \union {"done"}
           /\ pc[r] \in Holding /\ keys[k].status = "reserved" /\ keys[k].by = r =>
                pc'[r] \in Holding \/ answer'[r].code \in {0, 500}
           /\ answer[r].code # 0 \/ pc[r] = "done" => answer'[r] = answer[r]
  PROVE  KeyInv(k)'
<1>1. KeyInv(k) /\ filed[k] \subseteq issues
  BY Types
<1>2. Holding \intersect {"unsent", "done"} = {}
  BY DEF Holding, CALLS
<1>3. keys[k].status # "free" =>
        /\ keys[k].by \in Requests
        /\ sent'[keys[k].by] = sent[keys[k].by]
        /\ pc[keys[k].by] \in Holding \union {"done"}
        /\ pc'[keys[k].by] \in Holding \union {"done"}
  BY <1>1, <1>2 DEF KeyInv
<1>4. keys[k].status = "reserved" => pc'[keys[k].by] \in Holding \/ answer'[keys[k].by].code \in {0, 500}
  BY <1>1, <1>2, <1>3 DEF KeyInv
<1>5. ASSUME NEW q \in filed[k]
      PROVE  sent'[q].key = k /\ (q \in Freed' \/ (keys[k].status # "free" /\ keys[k].by = q))
  <2>1. q \in Requests /\ q \in issues /\ pc[q] # "unsent"
    BY <1>1, Types DEF RequestInv
  <2>2. sent'[q] = sent[q]
    BY <2>1
  <2>3. q \in Freed => q \in Freed'
    BY <2>1 DEF Freed
  <2>4. QED
    BY <1>1, <2>2, <2>3 DEF KeyInv
<1>6. QED
  BY <1>1, <1>3, <1>4, <1>5 DEF KeyInv

\* The calls are as they were.
LEMMA ClientKept ==
  ASSUME Inv, UNCHANGED client
  PROVE  TokenInv' /\ call' = call
  BY DEF Inv, TokenInv, ClientTypeOK, CallInv, MintedSince, Fresh, OldRevocationsAreHarmless, client

LEMMA StepSets ==
  /\ CALLS \subseteq Holding /\ Holding \subseteq Steps
  /\ Holding \intersect {"unsent", "reserve", "earlier", "done"} = {}
  /\ {"unsent", "reserve", "earlier", "done"} \subseteq Steps
  BY DEF Holding, CALLS, Steps

-----------------------------------------------------------------------------
(* One lemma for each way a request goes on. *)

\* A request at work goes to a step that promises nothing new.
LEMMA Moves ==
  ASSUME Inv, NEW q \in Requests, NEW step \in Holding, pc[q] \in Holding, Goto(q, step), TokenInv',
         \A d \in Callers : d # q => call'[d] = call[d],
         step \notin CALLS => call'[q].at = "idle",
         step # "respond",
         step \in {"comment", "store"} \/ (step = "issue" /\ call'[q].outcome = "ok") =>
           pc[q] = "comment" \/ (pc[q] = "issue" /\ call[q].outcome = "ok"),
         UNCHANGED <<sent, answer, keys, issues, filed, tickets>>, faults' \in 0..MaxFaults
  PROVE  Inv'
<1>1. pc' = [pc EXCEPT ![q] = step] /\ pc'[q] = step /\ \A d \in Requests : d # q => pc'[d] = pc[d]
  BY Types DEF Goto
<1>2. pc' \in [Requests -> Steps]
  BY <1>1, StepSets, Types
<1>3. TypeOK'
  BY <1>2, Types DEF TypeOK, TokenInv
<1>4. RequestInv(q)'
  <2>1. RequestInv(q) /\ pc'[q] \in Holding
    BY <1>1, Types
  <2>2. pc'[q] \notin {"unsent", "reserve", "earlier", "done"} /\ pc[q] # "done"
    BY <2>1, StepSets
  <2>3. answer[q].code = 0
    BY <2>1, <2>2 DEF RequestInv
  <2>4. pc'[q] # "respond" /\ (pc'[q] \notin CALLS => call'[q].at = "idle")
    BY <1>1
  <2>5. sent[q].key \in Keys => keys[sent[q].key].status = "reserved" /\ keys[sent[q].key].by = q
    BY <2>1 DEF RequestInv
  <2>6. pc'[q] \in {"comment", "store"} \/ (pc'[q] = "issue" /\ call'[q].outcome = "ok") =>
          q \in issues /\ (sent[q].key \in Keys => q \in filed[sent[q].key])
    BY <2>1, <1>1 DEF RequestInv
  <2>7. QED
    BY <2>2, <2>3, <2>4, <2>5, <2>6 DEF RequestInv
<1>5. \A d \in Requests : d # q => RequestInv(d)'
  BY <1>1, RequestKept DEF Requests
<1>6. \A k \in Keys : KeyInv(k)'
  BY <1>1, KeyKept
<1>7. QED
  BY <1>3, <1>4, <1>5, <1>6 DEF Inv

LEMMA Kept_Send ==
  ASSUME Inv, NEW q \in Requests, Send(q)
  PROVE  Inv'
<1>1. PICK k \in Keys \union {NoKey}, b \in Bodies :
        sent' = [sent EXCEPT ![q] = [key |-> k, body |-> b]]
  BY DEF Send
<1>2. /\ pc[q] = "unsent" /\ pc' = [pc EXCEPT ![q] = IF k = NoKey THEN "check" ELSE "reserve"]
      /\ UNCHANGED <<client, answer, keys, issues, filed, tickets, faults>>
  <2>1. sent'[q].key = k
    BY <1>1, Types
  <2>2. QED
    BY <2>1 DEF Send, Goto
<1>3. /\ sent'[q].key = k /\ \A d \in Requests : d # q => sent'[d] = sent[d] /\ pc'[d] = pc[d]
      /\ pc'[q] = IF k = NoKey THEN "check" ELSE "reserve"
  BY <1>1, <1>2, Types
<1>4. TokenInv' /\ call' = call
  BY <1>2, ClientKept
<1>5. TypeOK'
  <2>1. pc' \in [Requests -> Steps]
    BY <1>2, Types DEF Steps
  <2>2. sent' \in [Requests -> [key: Keys \union {NoKey}, body: Bodies \union {NoKey}]]
    BY <1>1, Types
  <2>3. QED
    BY <2>1, <2>2, <1>2, <1>4, Types DEF TypeOK, TokenInv
<1>6. RequestInv(q)'
  <2>1. RequestInv(q)
    BY Types
  <2>2. answer[q].code = 0 /\ q \notin issues /\ call[q].at = "idle"
    BY <2>1, <1>2 DEF RequestInv, CALLS
  <2>3. pc'[q] = "check" => sent'[q].key \notin Keys
    BY <1>3, CreationAssumption
  <2>4. pc'[q] = "reserve" => sent'[q].key \in Keys
    BY <1>3
  <2>5. pc'[q] \in {"check", "reserve"} /\ "reserve" \notin Holding
    BY <1>3, StepSets
  <2>6. QED
    BY <2>2, <2>3, <2>4, <2>5, <1>2, <1>4 DEF RequestInv
<1>7. \A d \in Requests : d # q => RequestInv(d)'
  BY <1>2, <1>3, <1>4, RequestKept
<1>8. ASSUME NEW l \in Keys PROVE KeyInv(l)'
  <2>1. q \notin issues /\ pc[q] \notin Holding \union {"done"}
    BY <1>2, StepSets, Types DEF RequestInv
  <2>2. QED
    BY <1>2, <1>3, <2>1, KeyKept
<1>9. QED
  BY <1>4, <1>5, <1>6, <1>7, <1>8 DEF Inv

LEMMA Kept_Reserve ==
  ASSUME Inv, NEW q \in Requests, Reserve(q)
  PROVE  Inv'
<1>1. /\ pc[q] = "reserve" /\ UNCHANGED <<client, sent, answer, issues, filed, tickets, faults>>
      /\ sent[q].key \in Keys /\ RequestInv(q)
  BY Types DEF Reserve, RequestInv
<1>0. PICK k \in Keys : k = sent[q].key
  BY <1>1
<1>2. TokenInv' /\ call' = call
  BY <1>1, ClientKept
<1>3. call[q].at = "idle" /\ answer[q].code = 0
  BY <1>1 DEF RequestInv, CALLS
<1>4. CASE /\ keys[k].status = "free" /\ Goto(q, "check")
           /\ keys' = [keys EXCEPT ![k] = Row(q, "reserved")]
  <2>1. pc' = [pc EXCEPT ![q] = "check"] /\ pc'[q] = "check" /\ \A d \in Requests : d # q => pc'[d] = pc[d]
    BY <1>4, Types DEF Goto
  <2>2. /\ keys'[k].status = "reserved" /\ keys'[k].by = q /\ keys'[k].body = sent[q].body
        /\ \A l \in Keys : l # k => keys'[l] = keys[l]
    BY <1>1, <1>4, <1>0, Types DEF Row
  <2>3. TypeOK'
    <3>1. Row(q, "reserved") \in Rows
      BY Types DEF Row, Rows
    <3>2. pc' \in [Requests -> Steps]
      BY <2>1, Types DEF Steps
    <3>3. keys' \in [Keys -> Rows]
      BY <3>1, <1>4, Types
    <3>4. QED
      BY <3>2, <3>3, <1>1, <1>2, Types DEF TypeOK, TokenInv
  <2>4. RequestInv(q)'
    BY <2>1, <2>2, <1>1, <1>2, <1>3, <1>0 DEF RequestInv
  <2>5. ASSUME NEW d \in Requests, d # q PROVE RequestInv(d)'
    <3>1. RequestInv(d)
      BY Types
    <3>2. pc[d] \in Holding /\ sent[d].key \in Keys => sent[d].key # k
      BY <3>1, <1>4 DEF RequestInv
    <3>3. QED
      BY <3>2, <2>1, <2>2, <2>5, <1>1, <1>2, RequestKept
  <2>6. ASSUME NEW l \in Keys, l # k PROVE KeyInv(l)'
    <3>1. pc[q] \notin Holding \union {"done"}
      BY <1>1, StepSets
    <3>2. QED
      BY <3>1, <2>1, <2>2, <2>6, <1>1, KeyKept
  <2>7. KeyInv(k)'
    <3>1. \A r \in filed[k] : sent[r].key = k /\ r \in Freed
      BY <1>1, <1>4, Types DEF KeyInv
    <3>2. Freed' = Freed
      BY <1>1 DEF Freed
    <3>3. pc'[q] \in Holding
      BY <2>1 DEF Holding
    <3>4. QED
      BY <3>1, <3>2, <3>3, <2>2, <1>1, <1>0 DEF KeyInv
  <2>8. QED
    BY <2>3, <2>4, <2>5, <2>6, <2>7, <1>2 DEF Inv
<1>5. CASE keys[k].status # "free" /\ Goto(q, "earlier") /\ UNCHANGED keys
  <2>1. pc' = [pc EXCEPT ![q] = "earlier"] /\ pc'[q] = "earlier" /\ \A d \in Requests : d # q => pc'[d] = pc[d]
    BY <1>5, Types DEF Goto
  <2>2. TypeOK'
    <3>1. pc' \in [Requests -> Steps]
      BY <2>1, Types DEF Steps
    <3>2. QED
      BY <3>1, <1>1, <1>2, <1>5, Types DEF TypeOK, TokenInv
  <2>3. "earlier" \notin Holding /\ pc[q] \notin Holding \union {"done"}
    BY <1>1, StepSets
  <2>4. RequestInv(q)'
    BY <2>1, <2>3, <1>1, <1>2, <1>3, <1>5 DEF RequestInv
  <2>5. \A d \in Requests : d # q => RequestInv(d)'
    BY <2>1, <1>1, <1>2, <1>5, RequestKept
  <2>6. \A l \in Keys : KeyInv(l)'
    BY <2>1, <2>3, <1>1, <1>5, KeyKept
  <2>7. QED
    BY <2>2, <2>4, <2>5, <2>6, <1>2 DEF Inv
<1>6. QED
  BY <1>0, <1>4, <1>5 DEF Reserve, MayReserve

\* A request is answered without a ticket, or with that of an earlier attempt.
LEMMA Kept_LookUp ==
  ASSUME Inv, NEW q \in Requests, LookUp(q)
  PROVE  Inv'
<1>1. /\ pc[q] = "earlier" /\ UNCHANGED <<client, sent, keys, issues, filed, tickets, faults>>
      /\ sent[q].key \in Keys /\ RequestInv(q)
  BY Types DEF LookUp, RequestInv
<1>2. TokenInv' /\ call' = call
  BY <1>1, ClientKept
<1>3. PICK k \in Keys : k = sent[q].key
  BY <1>1
<1>4. PICK code \in {201, 409, 422, 500}, i \in Requests \union {NoOne} :
        /\ Reply(q, code, i)
        /\ code = 201 => keys[k].status = "answered" /\ ~OtherBody(q, keys[k]) /\ i = keys[k].by
  <2>1. keys[k].by \in Requests \union {NoOne}
    BY Types DEF Rows
  <2>2. QED
    BY <1>3, <2>1 DEF LookUp
<1>5. /\ pc'[q] = "done" /\ answer'[q] = Answer(code, i)
      /\ \A d \in Requests : d # q => pc'[d] = pc[d] /\ answer'[d] = answer[d]
  BY <1>4, Types DEF Reply, Goto
<1>6. TypeOK'
  <2>1. pc' \in [Requests -> Steps]
    BY <1>4, Types DEF Reply, Goto, Steps
  <2>2. answer' \in [Requests -> [code: {0, 201, 404, 409, 422, 500, 502, 503},
                                  issue: Requests \union {NoOne}]]
    BY <1>4, Types DEF Reply, Answer
  <2>3. QED
    BY <2>1, <2>2, <1>1, <1>2, Types DEF TypeOK, TokenInv
<1>7. RequestInv(q)'
  <2>1. code = 201 => i \in tickets /\ sent[i] = sent[q]
    <3>1. SUFFICES ASSUME code = 201 PROVE i \in tickets /\ sent[i] = sent[q]
      OBVIOUS
    <3>2. KeyInv(k) /\ keys[k].status = "answered" /\ i = keys[k].by
      BY <1>4, <3>1, Types
    <3>3. i \in tickets /\ i \in Requests /\ sent[i].key = k /\ sent[i].body = keys[k].body
      BY <3>2 DEF KeyInv
    <3>4. sent[q].body = keys[k].body
      BY <1>4, <3>1 DEF OtherBody
    <3>5. QED
      BY <3>3, <3>4, <1>3, Types
  <2>2. answer'[q].code = code /\ answer'[q].issue = i
    BY <1>5 DEF Answer
  <2>3. call[q].at = "idle"
    BY <1>1 DEF RequestInv, CALLS
  <2>4. pc'[q] \notin Holding
    BY <1>5, StepSets
  <2>5. QED
    BY <2>1, <2>2, <2>3, <2>4, <1>1, <1>2, <1>5 DEF RequestInv
<1>8. \A d \in Requests : d # q => RequestInv(d)'
  BY <1>1, <1>2, <1>5, RequestKept
<1>9. \A l \in Keys : KeyInv(l)'
  <2>1. pc[q] \notin Holding \union {"done"} /\ answer[q].code = 0
    BY <1>1, StepSets DEF RequestInv
  <2>2. QED
    BY <2>1, <1>1, <1>5, KeyKept
<1>10. QED
  BY <1>2, <1>6, <1>7, <1>8, <1>9 DEF Inv

\* An attempt at work ends without a ticket: refused, it frees its key; broken off, it keeps it.
LEMMA Ends ==
  ASSUME Inv, NEW q \in Requests, pc[q] \in Holding, NEW code \in {404, 500, 502, 503},
         TokenInv', call'[q].at = "idle", \A d \in Callers : d # q => call'[d] = call[d],
         Reply(q, code, NoOne), UNCHANGED <<sent, issues, filed, tickets>>, faults' \in 0..MaxFaults,
         IF code = 500 THEN UNCHANGED keys ELSE FreesKey(q)
  PROVE  Inv'
<1>1. /\ pc'[q] = "done" /\ answer'[q].code = code
      /\ \A d \in Requests : d # q => pc'[d] = pc[d] /\ answer'[d] = answer[d]
  BY Types DEF Reply, Goto, Answer
<1>2. RequestInv(q) /\ answer[q].code = 0 /\ pc[q] \notin {"unsent", "reserve", "earlier", "done"}
  BY Types, StepSets DEF RequestInv
<1>3. ASSUME NEW k \in Keys, k = sent[q].key
      PROVE  keys[k].status = "reserved" /\ keys[k].by = q
  BY <1>2, <1>3 DEF RequestInv
<1>4. \A k \in Keys : k # sent[q].key => keys'[k] = keys[k]
  BY Types DEF FreesKey
<1>5. keys' \in [Keys -> Rows]
  <2>1. Free \in Rows
    BY DEF Free, Rows
  <2>2. QED
    BY <2>1, Types DEF FreesKey
<1>6. TypeOK'
  <2>1. pc' \in [Requests -> Steps]
    BY Types DEF Reply, Goto, Steps
  <2>2. answer' \in [Requests -> [code: {0, 201, 404, 409, 422, 500, 502, 503},
                                  issue: Requests \union {NoOne}]]
    BY Types DEF Reply, Answer
  <2>3. QED
    BY <2>1, <2>2, <1>5, Types DEF TypeOK, TokenInv
<1>7. RequestInv(q)'
  <2>1. pc'[q] \notin Holding
    BY <1>1, StepSets
  <2>2. QED
    BY <2>1, <1>1 DEF RequestInv
<1>8. ASSUME NEW d \in Requests, d # q PROVE RequestInv(d)'
  <2>1. RequestInv(d)
    BY Types
  <2>2. pc[d] \in Holding /\ sent[d].key \in Keys => keys'[sent[d].key] = keys[sent[d].key]
    BY <2>1, <1>3, <1>4, <1>8 DEF RequestInv
  <2>3. QED
    BY <2>2, <1>1, <1>8, RequestKept DEF Requests
<1>9. ASSUME NEW k \in Keys, k # sent[q].key \/ code = 500 PROVE KeyInv(k)'
  <2>1. keys[k].by # q \/ keys[k].status # "reserved" \/ code = 500
    BY <1>9, Types DEF KeyInv
  <2>2. keys'[k] = keys[k]
    BY <1>4, <1>9
  <2>3. QED
    BY <2>1, <2>2, <1>1, <1>2, KeyKept
<1>10. ASSUME NEW k \in Keys, k = sent[q].key, code # 500 PROVE KeyInv(k)'
  <2>1. keys'[k] = Free
    BY <1>10 DEF FreesKey
  <2>2. ASSUME NEW r \in filed[k] PROVE sent[r].key = k /\ r \in Freed'
    <3>1. r \in issues /\ r \in Requests /\ sent[r].key = k /\ (r \in Freed \/ r = q)
      BY <1>3, <1>10, Types DEF KeyInv
    <3>2. r # q => answer'[r] = answer[r]
      BY <1>1, <3>1
    <3>3. QED
      BY <3>1, <3>2, <1>1, <1>10 DEF Freed
  <2>3. QED
    BY <2>1, <2>2 DEF KeyInv, Free
<1>11. QED
  BY <1>6, <1>7, <1>8, <1>9, <1>10 DEF Inv

\* GitHub makes a request's issue, whether or not the call is answered.
LEMMA Creates ==
  ASSUME Inv, NEW q \in Requests, pc[q] = "issue", CreateIssue(q), TokenInv',
         \A d \in Callers : d # q => call'[d] = call[d],
         UNCHANGED <<sent, pc, answer, keys, tickets>>, faults' \in 0..MaxFaults
  PROVE  Inv'
<1>1. RequestInv(q) /\ pc[q] \in Holding /\ issues' = issues \union {q}
  BY Types DEF CreateIssue, Holding, CALLS
<1>2. \A k \in Keys : filed'[k] = IF k = sent[q].key THEN filed[k] \union {q} ELSE filed[k]
  BY DEF CreateIssue
<1>3. filed' \in [Keys -> SUBSET issues']
  BY <1>1, Types DEF CreateIssue
<1>4. TypeOK'
  BY <1>1, <1>3, Types DEF TypeOK, TokenInv
<1>5. RequestInv(q)'
  BY <1>1, <1>2 DEF RequestInv, CALLS
<1>6. \A d \in Requests : d # q => RequestInv(d)'
  BY <1>1, <1>2, RequestKept DEF Requests
<1>7. ASSUME NEW k \in Keys, k # sent[q].key PROVE KeyInv(k)'
  BY <1>1, <1>2, <1>7, KeyKept
<1>8. ASSUME NEW k \in Keys, k = sent[q].key PROVE KeyInv(k)'
  <2>1. keys[k].status = "reserved" /\ keys[k].by = q
    BY <1>1, <1>8 DEF RequestInv
  <2>2. \A r \in filed[k] : sent[r].key = k /\ (r \in Freed \/ r = q)
    BY <2>1, Types DEF KeyInv
  <2>3. Freed \subseteq Freed'
    BY <1>1 DEF Freed
  <2>4. filed'[k] = filed[k] \union {q}
    BY <1>2, <1>8
  <2>5. \A r \in filed'[k] : sent'[r].key = k /\ (r \in Freed' \/ r = q)
    BY <2>2, <2>3, <2>4, <1>8
  <2>6. KeyInv(k)
    BY Types
  <2>7. QED
    BY <2>1, <2>5, <2>6 DEF KeyInv
<1>9. QED
  BY <1>4, <1>5, <1>6, <1>7, <1>8 DEF Inv

LEMMA Kept_Store ==
  ASSUME Inv, NEW q \in Requests, Store(q)
  PROVE  Inv'
<1>1. /\ pc[q] = "store" /\ RequestInv(q) /\ tickets' = tickets \union {q}
      /\ UNCHANGED <<client, sent, answer, keys, issues, filed, faults>>
  BY Types DEF Store
<1>2. pc'[q] = "respond" /\ \A d \in Requests : d # q => pc'[d] = pc[d]
  BY Types DEF Store, Goto
<1>3. TokenInv' /\ call' = call
  BY <1>1, ClientKept
<1>4. pc[q] \in Holding /\ "respond" \in Holding
  BY <1>1 DEF Holding
<1>5. TypeOK'
  <2>1. pc' \in [Requests -> Steps]
    BY Types DEF Store, Goto, Steps
  <2>2. q \in issues
    BY <1>1 DEF RequestInv
  <2>3. QED
    BY <2>1, <2>2, <1>1, <1>3, Types DEF TypeOK, TokenInv
<1>6. RequestInv(q)'
  <2>1. call[q].at = "idle"
    BY <1>1 DEF RequestInv, CALLS
  <2>2. answer[q].code = 0
    BY <1>1 DEF RequestInv
  <2>3. QED
    BY <2>1, <2>2, <1>1, <1>2, <1>3, <1>4 DEF RequestInv
<1>7. \A d \in Requests : d # q => RequestInv(d)'
  BY <1>1, <1>2, <1>3, RequestKept
<1>8. \A k \in Keys : KeyInv(k)'
  BY <1>1, <1>2, <1>4, KeyKept
<1>9. QED
  BY <1>3, <1>5, <1>6, <1>7, <1>8 DEF Inv

LEMMA Kept_Respond ==
  ASSUME Inv, NEW q \in Requests, Respond(q)
  PROVE  Inv'
<1>1. /\ pc[q] = "respond" /\ RequestInv(q) /\ q \in tickets /\ answer[q].code = 0
      /\ UNCHANGED <<client, sent, issues, filed, tickets, faults>>
  BY Types DEF Respond, RequestInv
<1>2. /\ pc'[q] = "done" /\ answer'[q] = Answer(201, q)
      /\ \A d \in Requests : d # q => pc'[d] = pc[d] /\ answer'[d] = answer[d]
  <2>1. Reply(q, 201, q)
    BY DEF Respond
  <2>2. QED
    BY <2>1, Types DEF Reply, Goto
<1>3. TokenInv' /\ call' = call
  BY <1>1, ClientKept
<1>4. pc[q] \in Holding /\ "respond" \notin CALLS
  BY <1>1 DEF Holding, CALLS
<1>5. ASSUME NEW k \in Keys, k = sent[q].key
      PROVE  /\ keys[k].status = "reserved" /\ keys[k].by = q /\ q \in filed[k]
             /\ keys'[k].status = "answered" /\ keys'[k].by = q /\ keys'[k].body = keys[k].body
  <2>1. keys[k].status = "reserved" /\ keys[k].by = q /\ q \in filed[k]
    BY <1>1, <1>4, <1>5 DEF RequestInv
  <2>2. keys'[k] = [keys[k] EXCEPT !.status = "answered", !.by = q]
    BY <2>1, <1>5 DEF Respond
  <2>3. QED
    BY <2>1, <2>2, Types DEF Rows
<1>6. \A k \in Keys : k # sent[q].key => keys'[k] = keys[k]
  BY DEF Respond
<1>7. TypeOK'
  <2>1. pc' \in [Requests -> Steps]
    <3>1. pc' = [pc EXCEPT ![q] = "done"]
      BY DEF Respond, Reply, Goto
    <3>2. QED
      BY <3>1, Types DEF Steps
  <2>2. answer' \in [Requests -> [code: {0, 201, 404, 409, 422, 500, 502, 503},
                                  issue: Requests \union {NoOne}]]
    <3>1. answer' = [answer EXCEPT ![q] = Answer(201, q)]
      BY DEF Respond, Reply
    <3>2. QED
      BY <3>1, Types DEF Answer
  <2>3. ASSUME NEW k \in Keys PROVE keys'[k] \in Rows
    <3>1. keys[k] \in Rows
      BY Types
    <3>2. [keys[k] EXCEPT !.status = "answered", !.by = q] \in Rows
      BY <3>1 DEF Rows
    <3>3. keys'[k] \in {keys[k], [keys[k] EXCEPT !.status = "answered", !.by = q]}
      BY DEF Respond
    <3>4. QED
      BY <3>1, <3>2, <3>3
  <2>4. keys' \in [Keys -> Rows]
    BY <2>3 DEF Respond
  <2>5. QED
    BY <2>1, <2>2, <2>4, <1>1, <1>3, Types DEF TypeOK, TokenInv
<1>8. RequestInv(q)'
  <2>1. pc'[q] \notin Holding /\ answer'[q].code = 201 /\ answer'[q].issue = q
    BY <1>2, StepSets DEF Answer
  <2>2. call[q].at = "idle"
    BY <1>1, <1>4 DEF RequestInv
  <2>3. QED
    BY <2>1, <2>2, <1>1, <1>2, <1>3 DEF RequestInv
<1>9. ASSUME NEW d \in Requests, d # q PROVE RequestInv(d)'
  <2>1. RequestInv(d)
    BY Types
  <2>2. pc[d] \in Holding /\ sent[d].key \in Keys => keys'[sent[d].key] = keys[sent[d].key]
    BY <2>1, <1>5, <1>6, <1>9 DEF RequestInv
  <2>3. QED
    BY <2>2, <1>1, <1>2, <1>3, <1>9, RequestKept
<1>10. ASSUME NEW k \in Keys, k # sent[q].key PROVE KeyInv(k)'
  <2>1. keys[k].by # q \/ keys[k].status # "reserved"
    BY <1>10, Types DEF KeyInv
  <2>2. keys'[k] = keys[k]
    BY <1>6, <1>10
  <2>3. pc[q] # "done"
    BY <1>1
  <2>4. QED
    BY <2>1, <2>2, <2>3, <1>1, <1>2, KeyKept
<1>11. ASSUME NEW k \in Keys, k = sent[q].key PROVE KeyInv(k)'
  <2>1. ASSUME NEW r \in filed[k] PROVE sent[r].key = k /\ (r \in Freed' \/ r = q)
    <3>1. r \in issues /\ r \in Requests /\ sent[r].key = k /\ (r \in Freed \/ r = q)
      BY <1>5, <1>11, Types DEF KeyInv
    <3>2. r # q => answer'[r] = answer[r]
      BY <1>2, <3>1
    <3>3. QED
      BY <3>1, <3>2, <1>1 DEF Freed
  <2>2. sent[q].body = keys[k].body
    BY <1>5, <1>11, Types DEF KeyInv
  <2>3. QED
    BY <2>1, <2>2, <1>1, <1>2, <1>5, <1>11 DEF KeyInv
<1>12. QED
  BY <1>3, <1>7, <1>8, <1>9, <1>10, <1>11 DEF Inv

-----------------------------------------------------------------------------
(* Around the requests. *)

LEMMA Kept_Crash ==
  ASSUME Inv, Crash
  PROVE  Inv'
<1>1. /\ UNCHANGED <<sent, answer, keys, issues, filed, tickets>>
      /\ pc' = [q \in Requests |-> IF InProgress(q) THEN "done" ELSE pc[q]]
      /\ call' = [q \in Callers |-> NoCall]
  BY DEF Crash
<1>2. TokenInv'
  BY Kept_ClientCrash, CreationAssumption, Types DEF Crash, Requests
<1>3. faults' \in 0..MaxFaults
  BY Types, CreationAssumption DEF Crash, Fault
<1>4. TypeOK'
  <2>1. pc' \in [Requests -> Steps]
    BY <1>1, Types, StepSets
  <2>2. QED
    BY <2>1, <1>1, <1>2, <1>3, Types DEF TypeOK, TokenInv
<1>5. ASSUME NEW q \in Requests PROVE pc'[q] \in {"unsent", "done"} /\ (pc'[q] = "unsent" <=> pc[q] = "unsent")
  BY <1>1 DEF InProgress
<1>6. ASSUME NEW q \in Requests PROVE RequestInv(q)'
  <2>1. pc'[q] \notin Holding /\ pc'[q] \in {"unsent", "done"} /\ (pc'[q] = "unsent" <=> pc[q] = "unsent")
    BY <1>5, StepSets
  <2>2. call'[q].at = "idle"
    BY <1>1, NoCallIsACall DEF Requests
  <2>3. RequestInv(q)
    BY Types
  <2>4. QED
    BY <2>1, <2>2, <2>3, <1>1 DEF RequestInv
<1>7. ASSUME NEW k \in Keys PROVE KeyInv(k)'
  <2>1. ASSUME NEW q \in Requests, pc[q] \in Holding \union {"done"}
        PROVE  pc'[q] \in Holding \union {"done"} /\ (pc[q] \in Holding => answer'[q].code = 0)
    BY <2>1, <1>1, <1>5, StepSets, Types DEF RequestInv
  <2>2. QED
    BY <2>1, <1>1, KeyKept
<1>8. QED
  BY <1>2, <1>4, <1>6, <1>7 DEF Inv

\* A token loses its worth, or a webhook makes a ticket.
LEMMA Kept_Around ==
  ASSUME Inv, TokenTrouble \/ WebhookOpened
  PROVE  Inv'
<1>1. /\ UNCHANGED <<sent, pc, answer, keys, issues, filed, call>>
      /\ tickets \subseteq tickets' /\ tickets' \subseteq issues
  BY Types DEF TokenTrouble, WebhookOpened, Revoke, TokenAges, client
<1>2. TokenInv'
  BY ClientKept, Kept_TokenTrouble, Types DEF TokenTrouble, WebhookOpened
<1>3. faults' \in 0..MaxFaults
  BY Types, CreationAssumption DEF TokenTrouble, WebhookOpened, Fault
<1>4. TypeOK'
  BY <1>1, <1>2, <1>3, Types DEF TypeOK, TokenInv
<1>5. \A q \in Requests : RequestInv(q)'
  BY <1>1, RequestKept
<1>6. \A k \in Keys : KeyInv(k)'
  BY <1>1, KeyKept
<1>7. QED
  BY <1>2, <1>4, <1>5, <1>6 DEF Inv

LEMMA Kept_Prune ==
  ASSUME Inv, NEW k \in Keys, prune_ticket_creations(k)
  PROVE  Inv'
<1>1. /\ UNCHANGED <<client, sent, pc, answer, issues, tickets, faults>>
      /\ \A q \in Requests : sent[q].key = k => pc[q] \in {"unsent", "done"}
      /\ keys' = [keys EXCEPT ![k] = Free] /\ filed' = [filed EXCEPT ![k] = {}]
  BY DEF prune_ticket_creations, InProgress
<1>2. TokenInv' /\ call' = call
  BY <1>1, ClientKept
<1>3. TypeOK'
  <2>1. Free \in Rows
    BY DEF Free, Rows
  <2>2. keys' \in [Keys -> Rows] /\ filed' \in [Keys -> SUBSET issues]
    BY <2>1, <1>1, Types
  <2>3. QED
    BY <2>2, <1>1, <1>2, Types DEF TypeOK, TokenInv
<1>4. ASSUME NEW q \in Requests PROVE RequestInv(q)'
  <2>1. pc[q] \in Holding => sent[q].key # k
    BY <1>1, StepSets
  <2>2. pc[q] \in Holding /\ sent[q].key \in Keys =>
          keys'[sent[q].key] = keys[sent[q].key] /\ filed'[sent[q].key] = filed[sent[q].key]
    BY <2>1, <1>1, Types
  <2>3. QED
    BY <2>2, <1>1, <1>2, RequestKept
<1>5. \A l \in Keys : l # k => KeyInv(l)'
  BY <1>1, KeyKept, Types
<1>6. KeyInv(k)'
  <2>1. keys'[k] = Free /\ filed'[k] = {}
    BY <1>1, Types
  <2>2. QED
    BY <2>1 DEF KeyInv, Free
<1>7. QED
  BY <1>2, <1>3, <1>4, <1>5, <1>6 DEF Inv

-----------------------------------------------------------------------------
(* The steps of create_ticket. *)

\* Where an attempt is at work no call is left over; what a call left is put away.
LEMMA CallsOfOne ==
  ASSUME Inv, NEW q \in Requests
  PROVE  /\ Begin(q) /\ call[q].at = "idle" =>
              /\ TokenInv' /\ call'[q].outcome = "none"
              /\ \A d \in Callers : d # q => call'[d] = call[d]
         /\ EndCall(q) /\ call[q].at = "idle" =>
              /\ TokenInv' /\ call'[q].at = "idle" /\ call'[q].outcome = "none"
              /\ \A d \in Callers : d # q => call'[d] = call[d]
         /\ call[q].outcome # "none" => call[q].at = "idle"
         /\ pc[q] \notin CALLS => call[q].at = "idle"
<1>1. TokenInv /\ NoOne \notin Callers /\ q \in Callers /\ CallInv(q) /\ RequestInv(q)
  BY Types, CreationAssumption DEF Requests, TokenInv
<1>2. QED
  BY <1>1, BeginFacts, EndCallFacts DEF EndCall, CallInv, RequestInv

LEMMA Kept_CallNext ==
  ASSUME Inv, NEW q \in Requests, pc[q] \in Holding, call[q].at = "idle",
         NEW step \in CALLS, CallNext(q, step),
         step = "comment" => pc[q] = "issue" /\ call[q].outcome = "ok"
  PROVE  Inv'
<1>1. /\ TokenInv' /\ call'[q].outcome = "none" /\ \A d \in Callers : d # q => call'[d] = call[d]
  BY CallsOfOne DEF CallNext
<1>2. /\ Goto(q, step) /\ UNCHANGED <<sent, answer, keys, issues, filed, tickets, faults>>
  BY DEF CallNext
<1>3. step \in Holding /\ step \notin {"respond", "store"}
  BY DEF Holding, CALLS
<1>4. faults' \in 0..MaxFaults
  BY <1>2, Types
<1>5. QED
  BY <1>1, <1>2, <1>3, <1>4, Moves

LEMMA Refused ==
  ASSUME Inv, NEW q \in Requests, pc[q] \in Holding, NEW code \in {404, 502, 503}, Refuse(q, code),
         TokenInv', call'[q].at = "idle", \A d \in Callers : d # q => call'[d] = call[d],
         faults' \in 0..MaxFaults
  PROVE  Inv'
  BY Ends DEF Refuse

LEMMA FaultFacts ==
  ASSUME Inv, NEW kind, Fault(kind)
  PROVE  faults' \in 0..MaxFaults
  BY Types, CreationAssumption DEF Fault

LEMMA Kept_Check ==
  ASSUME Inv, NEW q \in Requests, Check(q)
  PROVE  Inv'
<1>1. pc[q] = "check" /\ pc[q] \in Holding /\ pc[q] \notin CALLS
  BY DEF Check, Holding, CALLS
<1>2. call[q].at = "idle"
  BY <1>1, CallsOfOne
<1>3. CASE CallNext(q, "labels")
  BY <1>1, <1>2, <1>3, Kept_CallNext DEF CALLS
<1>4. CASE Fault("triage") /\ (Refuse(q, 404) \/ Refuse(q, 503)) /\ UNCHANGED client
  <2>1. TokenInv' /\ call' = call
    BY <1>4, ClientKept
  <2>2. faults' \in 0..MaxFaults
    BY <1>4, FaultFacts
  <2>3. QED
    BY <1>1, <1>2, <1>4, <2>1, <2>2, Refused
<1>5. QED
  BY <1>3, <1>4 DEF Check

LEMMA Kept_Triage ==
  ASSUME Inv, NEW q \in Requests, Triage(q)
  PROVE  Inv'
<1>1. pc[q] \in {"triage", "triage again"} /\ pc[q] \in Holding /\ pc[q] \notin CALLS
  BY DEF Triage, Holding, CALLS
<1>2. call[q].at = "idle"
  BY <1>1, CallsOfOne
<1>3. CASE Validated(q)
  BY <1>1, <1>2, <1>3, Kept_CallNext DEF CALLS, Validated
<1>4. CASE Fault("triage") /\ Refuse(q, 502) /\ UNCHANGED client
  <2>1. TokenInv' /\ call' = call
    BY <1>4, ClientKept
  <2>2. faults' \in 0..MaxFaults
    BY <1>4, FaultFacts
  <2>3. QED
    BY <1>1, <1>2, <1>4, <2>1, <2>2, Refused
<1>5. CASE /\ Fault("triage") /\ Goto(q, "triage again")
           /\ UNCHANGED <<client, sent, answer, keys, issues, filed, tickets>>
  <2>1. "triage again" \in Holding /\ TokenInv' /\ call' = call
    BY <1>5, ClientKept DEF Holding
  <2>2. QED
    BY <1>1, <1>2, <1>5, <2>1, FaultFacts, Moves
<1>6. QED
  BY <1>3, <1>4, <1>5 DEF Triage, Malformed, TriageFails

LEMMA Kept_Proceed ==
  ASSUME Inv, NEW q \in Requests, Proceed(q)
  PROVE  Inv'
<1>1. pc[q] \in CALLS /\ pc[q] \in Holding /\ call[q].outcome = "ok" /\ call[q].at = "idle"
  BY CallsOfOne, StepSets DEF Proceed
<1>2. CASE CallNext(q, "label") \/ CallNext(q, "issue") \/ (pc[q] = "issue" /\ CallNext(q, "comment"))
  BY <1>1, <1>2, Kept_CallNext DEF CALLS
<1>3. ASSUME NEW step \in {"triage", "store"}, Goto(q, step), EndCall(q),
             step = "store" => pc[q] \in {"issue", "comment"},
             UNCHANGED <<sent, answer, keys, issues, filed, tickets, faults>>
      PROVE  Inv'
  <2>1. step \in Holding /\ step \notin CALLS
    BY DEF Holding, CALLS
  <2>2. TokenInv' /\ call'[q].at = "idle" /\ \A d \in Callers : d # q => call'[d] = call[d]
    BY <1>1, <1>3, CallsOfOne
  <2>3. faults' \in 0..MaxFaults
    BY <1>3, Types
  <2>4. QED
    BY <1>1, <1>3, <2>1, <2>2, <2>3, Moves
<1>4. QED
  BY <1>2, <1>3 DEF Proceed

LEMMA Kept_CallFailed ==
  ASSUME Inv, NEW q \in Requests, CallFailed(q)
  PROVE  Inv'
<1>1. pc[q] \in Holding /\ call[q].outcome # "none" /\ EndCall(q) /\ faults' = faults
  BY StepSets DEF CallFailed
<1>2. TokenInv' /\ call'[q].at = "idle" /\ \A d \in Callers : d # q => call'[d] = call[d]
  BY <1>1, CallsOfOne
<1>3. faults' \in 0..MaxFaults
  BY <1>1, Types
<1>4. CASE Refuse(q, 502)
  BY <1>1, <1>2, <1>3, <1>4, Refused
<1>5. CASE Break(q)
  BY <1>1, <1>2, <1>3, <1>5, Ends DEF Break
<1>6. QED
  BY <1>4, <1>5 DEF CallFailed

LEMMA Kept_Calling ==
  ASSUME Inv, NEW q \in Requests, Calling(q)
  PROVE  Inv'
<1>1. /\ pc[q] \in CALLS /\ pc[q] \in Holding /\ pc[q] \notin {"respond", "store"}
      /\ UNCHANGED <<sent, pc, answer, keys, tickets>>
  BY StepSets DEF Calling, CALLS
<1>2. (Unanswered(q) \/ Answers(q)) /\ faults' \in 0..MaxFaults
  BY FaultFacts, Types DEF Calling, Unanswered
<1>3. /\ TokenInv' /\ \A d \in Callers : d # q => call'[d] = call[d]
      /\ Unanswered(q) => call'[q].outcome # "ok"
  BY <1>2, Types, CallStepFacts, CreationAssumption DEF Requests
<1>4. CASE pc[q] = "issue" /\ CreateIssue(q)
  BY <1>1, <1>2, <1>3, <1>4, Creates
<1>5. CASE UNCHANGED <<issues, filed>> /\ (pc[q] = "issue" => call'[q].outcome # "ok")
  <2>1. Goto(q, pc[q])
    BY <1>1, Types DEF Goto
  <2>2. QED
    BY <1>1, <1>2, <1>3, <1>5, <2>1, Moves
<1>6. QED
  BY <1>3, <1>4, <1>5 DEF Calling, Unanswered

-----------------------------------------------------------------------------
(* The theorems. *)

LEMMA InvInit ==
  ASSUME Init
  PROVE  Inv
<1>1. TokenInv
  BY TokenInit, CreationAssumption DEF Init, Requests
<1>2. /\ \A q \in Requests : /\ sent[q] = [key |-> NoKey, body |-> NoKey] /\ pc[q] = "unsent"
                             /\ answer[q] = NoAnswer /\ call[q] = NoCall
      /\ \A k \in Keys : keys[k] = Free /\ filed[k] = {}
      /\ issues = {} /\ tickets = {} /\ faults = 0
  BY DEF Init, ClientInit, Requests
<1>3. TypeOK
  <2>1. sent \in [Requests -> [key: Keys \union {NoKey}, body: Bodies \union {NoKey}]]
    BY DEF Init
  <2>2. pc \in [Requests -> Steps] /\ filed \in [Keys -> SUBSET issues]
    BY DEF Init, Steps
  <2>3. Free \in Rows
    BY DEF Free, Rows
  <2>4. keys \in [Keys -> Rows]
    BY <2>3 DEF Init
  <2>5. answer \in [Requests -> [code: {0, 201, 404, 409, 422, 500, 502, 503},
                                 issue: Requests \union {NoOne}]]
    BY DEF Init, NoAnswer, Answer
  <2>6. faults \in 0..MaxFaults
    BY <1>2, CreationAssumption
  <2>7. QED
    BY <1>1, <1>2, <2>1, <2>2, <2>4, <2>5, <2>6 DEF TypeOK, TokenInv
<1>4. ASSUME NEW q \in Requests PROVE RequestInv(q)
  <2>1. pc[q] = "unsent" /\ q \notin issues /\ answer[q].code = 0 /\ call[q].at = "idle"
    BY <1>2, NoCallIsACall DEF NoAnswer, Answer
  <2>2. pc[q] \notin Holding
    BY <2>1, StepSets
  <2>3. QED
    BY <2>1, <2>2 DEF RequestInv
<1>5. \A k \in Keys : KeyInv(k)
  BY <1>2 DEF KeyInv, Free
<1>6. QED
  BY <1>1, <1>3, <1>4, <1>5 DEF Inv

LEMMA InvNext ==
  ASSUME Inv, [Next]_vars
  PROVE  Inv'
<1>1. CASE UNCHANGED vars
  <2>1. /\ TokenInv' /\ UNCHANGED <<sent, pc, keys, issues, tickets, answer, filed, faults, call>>
    BY <1>1, ClientKept DEF vars, client
  <2>2. TypeOK'
    BY <2>1, Types DEF TypeOK, TokenInv
  <2>3. (\A q \in Requests : RequestInv(q)') /\ (\A k \in Keys : KeyInv(k)')
    BY <2>1, RequestKept, KeyKept
  <2>4. QED
    BY <2>1, <2>2, <2>3 DEF Inv
<1>2. ASSUME NEW q \in Requests, Send(q) \/ Handle(q) PROVE Inv'
  BY <1>2, Kept_Send, Kept_Reserve, Kept_LookUp, Kept_Check, Kept_Calling, Kept_Proceed,
     Kept_CallFailed, Kept_Triage, Kept_Store, Kept_Respond DEF Handle
<1>3. QED
  BY <1>1, <1>2, Kept_Prune, Kept_Crash, Kept_Around DEF Next

LEMMA InvHolds == Spec => []Inv
<1>1. Init => Inv
  BY InvInit
<1>2. Inv /\ [Next]_vars => Inv'
  BY InvNext
<1>3. QED
  BY <1>1, <1>2, PTL DEF Spec

\* Every variable stays in its range, and a caller holds the lock exactly while it mints.
THEOREM TypeCorrect == Spec => []TypeOK
<1>1. Inv => TypeOK
  BY DEF Inv
<1>2. QED
  BY <1>1, InvHolds, PTL

\* No call of a request ends unauthorized for a revocation that came before it (_request).
THEOREM OldTokensAreReplaced == Spec => []OldRevocationsAreHarmless
<1>1. Inv => OldRevocationsAreHarmless
  BY DEF Inv, TokenInv
<1>2. QED
  BY <1>1, InvHolds, PTL

\* A second issue under a key needs an attempt that was refused after GitHub had made its issue
\* (post_ticket, _reserve_key).
THEOREM OneIssueOrAFreedKey == Spec => []SecondIssueNeedsAFreedKey
<1>1. ASSUME Inv, NEW k \in Keys
      PROVE  Cardinality(filed[k]) <= 1 + Cardinality(Freed \intersect Under(k))
  <2> DEFINE freed == Freed \intersect Under(k)
  <2>1. \A q \in filed[k] : q = keys[k].by \/ q \in freed
    BY <1>1, Types DEF KeyInv, Under
  <2>2. IsFiniteSet(freed)
    BY CreationAssumption, FS_Subset, Types, <1>1 DEF Under
  <2>3. filed[k] \subseteq freed \union {keys[k].by}
    BY <2>1
  <2> HIDE DEF freed
  <2>4. /\ IsFiniteSet(freed \union {keys[k].by})
        /\ Cardinality(freed \union {keys[k].by}) <= Cardinality(freed) + 1
    <3>1. Cardinality(freed) \in Nat
      BY <2>2, FS_CardinalityType
    <3>2. /\ IsFiniteSet(freed \union {keys[k].by})
          /\ Cardinality(freed \union {keys[k].by}) \in {Cardinality(freed), Cardinality(freed) + 1}
      BY <2>2, FS_AddElement, Zenon
    <3>3. QED
      BY <3>1, <3>2
  <2>5. Cardinality(filed[k]) <= Cardinality(freed \union {keys[k].by}) /\ IsFiniteSet(filed[k])
    BY <2>3, <2>4, FS_Subset
  <2>6. Cardinality(filed[k]) \in Nat /\ Cardinality(freed) \in Nat
        /\ Cardinality(freed \union {keys[k].by}) \in Nat
    BY <2>2, <2>4, <2>5, FS_CardinalityType
  <2>7. Cardinality(filed[k]) <= 1 + Cardinality(freed)
    BY <2>4, <2>5, <2>6
  <2>8. QED
    BY <2>7 DEF freed
<1>2. Inv => SecondIssueNeedsAFreedKey
  BY <1>1 DEF SecondIssueNeedsAFreedKey
<1>3. QED
  BY <1>2, InvHolds, PTL

\* A key is in progress only while its request is, or after one that broke off, and a key that
\* answers names an issue made under it, the only one unless an attempt was freed (post_ticket).
THEOREM KeysAreTruthful == Spec => []KeysTellTheTruth
<1>1. ASSUME Inv, NEW k \in Keys
      PROVE  /\ keys[k].status = "reserved" => InProgress(keys[k].by) \/ answer[keys[k].by].code \in {0, 500}
             /\ keys[k].status = "answered" =>
                  /\ keys[k].by \in filed[k] \intersect tickets
                  /\ Freed \intersect Under(k) = {} => filed[k] = {keys[k].by}
  <2>1. KeyInv(k)
    BY <1>1, Types
  <2>2. keys[k].status = "reserved" => InProgress(keys[k].by) \/ answer[keys[k].by].code \in {0, 500}
    BY <2>1, StepSets DEF KeyInv, InProgress
  <2>3. \A q \in filed[k] : q = keys[k].by \/ q \in Freed \intersect Under(k)
    BY <1>1, <2>1, Types DEF KeyInv, Under
  <2>4. QED
    BY <2>1, <2>2, <2>3 DEF KeyInv
<1>2. Inv => KeysTellTheTruth
  BY <1>1 DEF KeysTellTheTruth
<1>3. QED
  BY <1>2, InvHolds, PTL

\* Whoever was told of a ticket was told of one that exists, made for the same body under the
\* same key (_reserve_key).
THEOREM RepliesAreTrue == Spec => []AnswersAreTrue
<1>1. Inv => AnswersAreTrue
  BY Types DEF AnswersAreTrue, RequestInv
<1>2. QED
  BY <1>1, InvHolds, PTL
=============================================================================
