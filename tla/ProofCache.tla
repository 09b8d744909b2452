----------------------------- MODULE ProofCache -----------------------------
(***************************************************************************)
(* One App verification proof for Ting and the calls that use it           *)
(* (delivery/adapter.rs), with the classification of Ting's and Silicon    *)
(* Accounts' answers (infrastructure/ting.rs, infrastructure/accounts.rs). *)
(*                                                                         *)
(* A process keeps one cache per scope.  Calls share it behind a lock that *)
(* is held across the renewal's network calls.  A call may be dropped at   *)
(* any await: by the publisher's timeout, the request timeout or shutdown. *)
(* Accounts may act on a request whose answer is lost.                     *)
(*                                                                         *)
(* Proof n is the n-th Accounts issued, and refresh token n came with it.  *)
(* Times are what is left of them: left to the renewal, pause to the next  *)
(* request.                                                                *)
(***************************************************************************)
EXTENDS Naturals, FiniteSets

CONSTANTS
    Calls,          \* calls under way at once (publisher, receipts)
    NoCall,         \* nobody
    MaxProofs,      \* bound: proofs Accounts ever issues
    Life,           \* time from issue to renewal (expiry less 60 seconds)
    FirstPause,     \* FIRST_PROOF_PAUSE
    MaxPause        \* MAX_PROOF_PAUSE

ASSUME CacheAssumption ==
    /\ NoCall \notin Calls
    /\ MaxProofs \in Nat /\ Life \in Nat \ {0}
    /\ FirstPause \in Nat \ {0} /\ MaxPause \in Nat /\ FirstPause <= MaxPause

VARIABLES
    scope,      \* the cache's scope, fixed
    lock,       \* who holds the cache's mutex
    proof,      \* CacheState.proof
    failures,   \* consecutive failed requests, up to where the pause stops growing
    pause,      \* time left of paused_until
    call,       \* what each call is doing
    reply,      \* the proof an answer on its way carries, if any
    issued,     \* proofs issued by Accounts
    valid,      \* refresh tokens Accounts will still exchange
    worn        \* proofs that ran out, were refused by Ting, or were lost on the way

vars == <<scope, lock, proof, failures, pause, call, reply, issued, valid, worn>>

None == 0
Proofs == 1 .. MaxProofs
NoProof == [token |-> None, refresh |-> None, left |-> 0]
Idle == [phase |-> "idle", token |-> None, refused |-> None]
Phases == {"idle", "locking", "refreshing", "issuing", "posting", "forgetting"}
Asking == {"refreshing", "issuing"}

Init ==
    /\ scope \in {"tings.send", "sent.query"}
    /\ lock = NoCall
    /\ proof = NoProof
    /\ failures = 0
    /\ pause = 0
    /\ call = [c \in Calls |-> Idle]
    /\ reply = [c \in Calls |-> None]
    /\ issued = 0
    /\ valid = {}
    /\ worn = {}

----------------------------------------------------------------------------
(* What answers mean.  Ting's answer is a status with the code of its      *)
(* body, a success whose body does not confirm the request, an oversized   *)
(* body, or no answer.                                                     *)

Refusals == {"invalid_proof", "proof_expired", "proof_consumed", "proof_revoked"}
Codes == {"proof_expired", "proof_verification_uncertain", "rate_limited", "ting_rejected"}
Answers == [kind : {"http"}, status : {200, 202, 204, 401, 403, 429, 503},
            code : Codes, confirms : BOOLEAN]
           \cup [kind : {"transport", "too_large"}]

(* rejection: a code Ting is not known to use is recorded as ting_rejected. *)
Rejection(a) == [kind |-> "rejected", status |-> a.status, code |-> a.code]
(* TingClient::post.                                                       *)
Post(a) ==
    IF a.kind = "http" /\ a.status \notin 200 .. 299 THEN Rejection(a) ELSE a

(* The success that a request expects, confirmed by the body.              *)
DecodeAcceptance(r) == r.status \in {200, 202} /\ r.confirms
DecodeReceipt(r) == r.status = 200 /\ r.confirms
(* TingClient::send and receipt.                                           *)
Outcome(s, a) ==
    LET r == Post(a)
        confirmed == IF s = "tings.send" THEN DecodeAcceptance(r) ELSE DecodeReceipt(r)
    IN  IF r.kind # "http" THEN r
        ELSE [kind |-> IF confirmed THEN "ok" ELSE "invalid_response"]

(* TingError::proof_refused.                                               *)
ProofRefused(o) == o.kind = "rejected" /\ o.status = 401 /\ o.code \in Refusals

(* AccountsError: a status below 500 other than 429 is a refusal; 0 stands *)
(* for no answer.                                                          *)
Statuses == {0, 401, 429, 503}
AccountsRejects(status) == status \in (400 .. 499) \ {429}

(* proof_pause: doubled with each failure, the shift bounded by 8.         *)
ProofPause(n) ==
    LET doublings == IF n = 0 THEN 0 ELSE IF n - 1 < 8 THEN n - 1 ELSE 8
        length == FirstPause * 2 ^ doublings
    IN  IF length \in 0 .. MaxPause THEN length ELSE MaxPause
(* Failures after which one more makes no difference.                      *)
Saturated(n) == n > 0 /\ ProofPause(n) = ProofPause(n + 1)

----------------------------------------------------------------------------
(* Calls.                                                                  *)

Begin(c) ==
    /\ call[c].phase = "idle"
    /\ call' = [call EXCEPT ![c] = [Idle EXCEPT !.phase = "locking"]]
    /\ UNCHANGED <<scope, lock, proof, failures, pause, reply, issued, valid, worn>>

(* CachedProof::fresh.                                                     *)
Fresh == proof.token # None /\ proof.left > 0

(* A renewal may be asked for.                                             *)
MayAsk == pause = 0

(* Mutant: a call sleeps until the pause is over.                          *)
TokenSleeping(c) ==
    /\ call[c].phase = "locking"
    /\ lock = NoCall
    /\ \/ /\ Fresh
          /\ call' = [call EXCEPT ![c].phase = "posting", ![c].token = proof.token]
          /\ UNCHANGED lock
       \/ /\ ~Fresh /\ MayAsk
          /\ lock' = c
          /\ call' = [call EXCEPT ![c].phase =
                IF proof.refresh = None THEN "issuing" ELSE "refreshing"]
    /\ UNCHANGED <<scope, proof, failures, pause, reply, issued, valid, worn>>
(* ProofCache::token up to its first network call: with the lock, a fresh  *)
(* proof is returned, a pause ends the call, and otherwise Accounts is     *)
(* asked, for a refresh where there is a refresh token.                    *)
Token(c) ==
    /\ call[c].phase = "locking"
    /\ lock = NoCall
    /\ \/ /\ Fresh
          /\ call' = [call EXCEPT ![c].phase = "posting", ![c].token = proof.token]
          /\ UNCHANGED lock
       \/ /\ ~Fresh /\ ~MayAsk
          /\ call' = [call EXCEPT ![c] = Idle]
          /\ UNCHANGED lock
       \/ /\ ~Fresh /\ MayAsk
          /\ lock' = c
          /\ call' = [call EXCEPT ![c].phase =
                IF proof.refresh = None THEN "issuing" ELSE "refreshing"]
    /\ UNCHANGED <<scope, proof, failures, pause, reply, issued, valid, worn>>

(* Accounts issues a proof or exchanges a refresh token, which rotates.    *)
AccountsIssues(c) ==
    /\ call[c].phase \in Asking
    /\ reply[c] = None
    /\ call[c].phase = "refreshing" => proof.refresh \in valid
    /\ issued < MaxProofs
    /\ issued' = issued + 1
    /\ reply' = [reply EXCEPT ![c] = issued + 1]
    /\ valid' = (IF call[c].phase = "refreshing" THEN valid \ {proof.refresh} ELSE valid)
                \cup {issued + 1}
    /\ UNCHANGED <<scope, lock, proof, failures, pause, call, worn>>

(* Mutant: the refresh token of the proof before stays in the cache.       *)
CachedBeside(n, rotated) ==
    [token |-> n, left |-> Life,
     refresh |-> IF proof.refresh # None THEN proof.refresh
                 ELSE IF rotated THEN n ELSE None]
(* cache(): what is kept of an issued proof; the refresh token is optional. *)
Cached(n, rotated) ==
    [token |-> n, left |-> Life, refresh |-> IF rotated THEN n ELSE None]

(* ProofCache::obtain returns, and the failures are forgotten.             *)
Obtain(c) ==
    /\ call[c].phase \in Asking
    /\ reply[c] # None
    /\ \E rotated \in BOOLEAN : proof' = Cached(reply[c], rotated)
    /\ failures' = 0 /\ pause' = 0
    /\ lock' = NoCall
    /\ call' = [call EXCEPT ![c].phase = "posting", ![c].token = reply[c]]
    /\ reply' = [reply EXCEPT ![c] = None]
    /\ UNCHANGED <<scope, issued, valid, worn>>

(* An answer of Accounts is lost with its proof.                           *)
Lost(c) == worn' = worn \cup ({reply[c]} \ {None})

(* A refused refresh falls back to a new proof within the same call.       *)
RefreshRefused(c, status) ==
    /\ call[c].phase = "refreshing"
    /\ reply[c] = None
    /\ AccountsRejects(status)
    /\ call' = [call EXCEPT ![c].phase = "issuing"]
    /\ UNCHANGED <<scope, lock, proof, failures, pause, reply, issued, valid, worn>>

(* Any other failure, and a refused issue, starts or lengthens the pause.  *)
ObtainFails(c, status) ==
    LET n == IF Saturated(failures) THEN failures ELSE failures + 1
    IN  /\ call[c].phase \in Asking
        /\ call[c].phase = "refreshing" => ~AccountsRejects(status)
        /\ failures' = n
        /\ pause' = ProofPause(n)
        /\ lock' = NoCall
        /\ Lost(c)
        /\ reply' = [reply EXCEPT ![c] = None]
        /\ call' = [call EXCEPT ![c] = Idle]
        /\ UNCHANGED <<scope, proof, issued, valid>>

(* Mutant: the lock outlives the call that held it.                        *)
CancelKeepingLock(c) ==
    /\ call[c].phase # "idle"
    /\ Lost(c)
    /\ reply' = [reply EXCEPT ![c] = None]
    /\ call' = [call EXCEPT ![c] = Idle]
    /\ UNCHANGED <<scope, lock, proof, failures, pause, issued, valid>>
(* The call is dropped; the lock goes with it and nothing is recorded.     *)
Cancel(c) ==
    /\ call[c].phase # "idle"
    /\ lock' = IF lock = c THEN NoCall ELSE lock
    /\ Lost(c)
    /\ reply' = [reply EXCEPT ![c] = None]
    /\ call' = [call EXCEPT ![c] = Idle]
    /\ UNCHANGED <<scope, proof, failures, pause, issued, valid>>

(* TingAdapter::send and receipt after the request: a send whose proof was *)
(* refused for the first time forgets it and goes round once more.         *)
TingAnswers(c) ==
    /\ call[c].phase = "posting"
    /\ \E a \in Answers :
         LET refused == ProofRefused(Outcome(scope, a))
         IN  /\ worn' = IF refused THEN worn \cup {call[c].token} ELSE worn
             /\ call' = [call EXCEPT ![c] =
                    IF refused /\ call[c].refused = None
                    THEN [phase |-> "forgetting", token |-> None, refused |-> call[c].token]
                    ELSE Idle]
    /\ UNCHANGED <<scope, lock, proof, failures, pause, reply, issued, valid>>

(* Mutant: whatever proof is cached by now is forgotten.                   *)
ForgottenAnyway(t) == [proof EXCEPT !.left = 0]
(* ProofCache::forget_token: the token is dated back, its refresh stays.   *)
Forgotten(t) == IF proof.token = t THEN [proof EXCEPT !.left = 0] ELSE proof

ForgetToken(c) ==
    /\ call[c].phase = "forgetting"
    /\ lock = NoCall
    /\ proof' = Forgotten(call[c].refused)
    /\ call' = [call EXCEPT ![c] =
          IF scope = "tings.send" THEN [@ EXCEPT !.phase = "locking", !.token = None]
                                  ELSE Idle]
    /\ UNCHANGED <<scope, lock, failures, pause, reply, issued, valid, worn>>

Tick ==
    /\ pause > 0 \/ proof.left > 0
    /\ pause' = IF pause > 0 THEN pause - 1 ELSE 0
    /\ proof' = [proof EXCEPT !.left = IF @ > 0 THEN @ - 1 ELSE 0]
    /\ worn' = IF proof'.left = 0 THEN worn \cup ({proof.token} \ {None}) ELSE worn
    /\ UNCHANGED <<scope, lock, failures, call, reply, issued, valid>>

(* TingAdapter::enrol keeps nothing: its proof is used once and dropped,   *)
(* so it has no action here.                                               *)

(* What a call does by itself.                                             *)
Answered(c) ==
    \/ Obtain(c)
    \/ \E status \in Statuses : RefreshRefused(c, status) \/ ObtainFails(c, status)
    \/ TingAnswers(c)
Step(c) == Token(c) \/ ForgetToken(c) \/ Answered(c)

Next ==
    \/ \E c \in Calls :
          Begin(c) \/ Step(c) \/ AccountsIssues(c) \/ Cancel(c)
    \/ Tick

(* The mutex is fair (tokio's queues its waiters), and every network call  *)
(* ends by its client timeout.                                             *)
Fairness ==
    \A c \in Calls : SF_vars(Token(c) \/ ForgetToken(c)) /\ WF_vars(Answered(c))
Spec == Init /\ [][Next]_vars /\ Fairness

----------------------------------------------------------------------------
(* Properties.                                                             *)

(* The types; the lock is held exactly by a call that asks Accounts.       *)
TypeOK ==
    /\ scope \in {"tings.send", "sent.query"}
    /\ proof \in [token : 0 .. MaxProofs, refresh : 0 .. MaxProofs, left : 0 .. Life]
    /\ failures \in Nat /\ pause \in 0 .. MaxPause
    /\ call \in [Calls -> [phase : Phases, token : 0 .. MaxProofs,
                           refused : 0 .. MaxProofs]]
    /\ reply \in [Calls -> 0 .. MaxProofs]
    /\ issued \in 0 .. MaxProofs
    /\ valid \subseteq Proofs /\ worn \subseteq Proofs
    /\ lock \in Calls \cup {NoCall}
    /\ \A c \in Calls : lock = c <=> call[c].phase \in Asking

(* No proof is replaced while it is good: whatever was issued before the   *)
(* latest proof had run out, was refused by Ting, or never arrived.  A     *)
(* refusal that comes back late does not cost the proof that came since.   *)
GoodProofIsKept == \A n \in 1 .. issued - 1 : n \in worn

(* Nobody asks Accounts while a pause is in force, so one cause does not   *)
(* become a request per queued send.                                       *)
NobodyAsksDuringPause == pause > 0 => \A c \in Calls : call[c].phase \notin Asking

(* Once the answer to a refresh has arrived, its refresh token is never    *)
(* presented again: while a call refreshes, the cached token is the latest *)
(* that Hook received.                                                     *)
SpentRefreshIsNotPresented ==
    \A c \in Calls : call[c].phase = "refreshing" => proof.refresh = proof.token

(* A send repeated after a refusal carries another proof than the refused. *)
RetriedWithAnotherProof ==
    \A c \in Calls : (call[c].phase = "posting" /\ call[c].refused # None)
                     => call[c].token # call[c].refused

(* What Silicon Accounts is asked for is warranted: not while it asked for *)
(* a pause, not with a refresh token it has exchanged, and not for a proof *)
(* that Ting refused already.                                              *)
RequestsAreWarranted ==
    NobodyAsksDuringPause /\ SpentRefreshIsNotPresented /\ RetriedWithAnotherProof


(* Every call comes to an end: nobody waits for ever behind a renewal.     *)
CallsEnd == \A c \in Calls : call[c].phase # "idle" ~> call[c].phase = "idle"

(* "a rotating refresh token is never presented twice": while a call       *)
(* refreshes, Accounts has not exchanged its refresh token for another     *)
(* call before.  It does not hold, and no run checks it: an answer that is *)
(* lost or cancelled leaves the exchanged token in the cache.              *)
RefreshTokenNotReused ==
    \A c \in Calls : (call[c].phase = "refreshing" /\ reply[c] = None)
                     => proof.refresh \in valid
=============================================================================
