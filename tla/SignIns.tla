------------------------------- MODULE SignIns -------------------------------
(***************************************************************************)
(* Who a request speaks for: the access tokens of one account, as          *)
(* authenticate and require_active_token (application/access.rs) decide    *)
(* them with the signing keys, the introspection memory and the            *)
(* confirmations that AccountsGateway keeps (infrastructure/accounts.rs).  *)
(*                                                                         *)
(* Accounts' actions and the passing of time each take an instant of       *)
(* clock; a token's iat is rounded down to a second of Second instants,    *)
(* while a sign-out carries its instant.  Hook learns of a sign-out when   *)
(* its event has been applied (AccountsDirectory).                         *)
(***************************************************************************)
EXTENDS Naturals, FiniteSets

CONSTANTS
    Tokens,         \* access tokens Accounts may issue
    Requests,       \* requests Hook authenticates at once
    SecondLength,   \* instants to a second
    Refetch,        \* JWKS_REFETCH_INTERVAL
    MaxKeys,        \* bound: signing keys
    MaxInstant      \* bound: the clock

ASSUME SignInAssumption ==
    /\ SecondLength \in Nat \ {0} /\ Refetch \in Nat \ {0}
    /\ MaxKeys \in Nat \ {0} /\ MaxInstant \in Nat

VARIABLES
    clock,
    token,      \* Accounts: when each token was issued, and with which key
    ended,      \* when Hook's own revocation ended a token at Accounts (0: not)
    signOuts,   \* instants at which all sign-ins of the account ended
    key,        \* the latest signing key; all up to it are published
    revoked,    \* revoked_before in Hook's row (0: NULL)
    jwks,       \* the cached key set and when it was fetched (0: never)
    inactive,   \* tokens remembered as inactive
    confirmed,  \* (token, sign-out) pairs Accounts confirmed
    asked,      \* what each request is at
    fetching    \* who holds jwks_fetch

signInVars == <<clock, token, ended, signOuts, key, revoked, jwks, inactive,
                confirmed, asked, fetching>>

Unissued == [at |-> 0, key |-> 0]
Free == [phase |-> "idle"]
SignInPhases == {"idle", "keys", "fetch", "account", "confirm", "introspect",
                 "accepted", "ended", "unknown_key"}

SignInInit ==
    /\ clock = 1
    /\ token = [k \in Tokens |-> Unissued]
    /\ ended = [k \in Tokens |-> 0]
    /\ signOuts = {}
    /\ key = 1
    /\ revoked = 0
    /\ jwks \in {[keys |-> 0, at |-> 0], [keys |-> 1, at |-> 1]}   \* another account's
    /\ inactive = {}
    /\ confirmed = {}
    /\ asked = [r \in Requests |-> Free]
    /\ fetching = {}

----------------------------------------------------------------------------
(* Silicon Accounts and time.                                              *)

Passes == clock < MaxInstant /\ clock' = clock + 1
hookVars == <<revoked, jwks, inactive, confirmed, asked, fetching>>

IssueToken(k) ==
    /\ token[k] = Unissued
    /\ Passes
    /\ token' = [token EXCEPT ![k] = [at |-> clock + 1, key |-> key]]
    /\ UNCHANGED <<ended, signOuts, key, hookVars>>
EndSignIns ==
    /\ Passes
    /\ signOuts' = signOuts \cup {clock + 1}
    /\ UNCHANGED <<token, ended, key, hookVars>>
RevokeOne(k) ==
    /\ token[k] # Unissued /\ ended[k] = 0
    /\ Passes
    /\ ended' = [ended EXCEPT ![k] = clock + 1]
    /\ UNCHANGED <<token, signOuts, key, hookVars>>
RotateSigningKey ==
    /\ key < MaxKeys
    /\ Passes
    /\ key' = key + 1
    /\ UNCHANGED <<token, ended, signOuts, hookVars>>
SignInTick == Passes /\ UNCHANGED <<token, ended, signOuts, key, hookVars>>

(* What introspection answers.                                             *)
Active(k) == ended[k] = 0 /\ \A t \in signOuts : t < token[k].at

(* The event of a sign-out is applied.                                     *)
LearnSignOut(t) ==
    /\ t \in signOuts
    /\ revoked' = IF t > revoked THEN t ELSE revoked
    /\ UNCHANGED <<clock, token, ended, signOuts, key, jwks, inactive, confirmed,
                   asked, fetching>>

----------------------------------------------------------------------------
(* Requests.                                                               *)

(* A request goes on; what else Hook keeps stays.                          *)
Goes(r, phase) == asked' = [asked EXCEPT ![r].phase = phase]
accountsVars == <<clock, token, ended, signOuts, key>>

(* A request on a route that asks Accounts (Check::Introspect) or not.     *)
BeginRequest(r, k, check) ==
    /\ asked[r] = Free
    /\ token[k] # Unissued
    /\ asked' = [asked EXCEPT ![r] =
          [phase |-> "keys", token |-> k, check |-> check, since |-> clock,
           seen |-> jwks, before |-> 0]]
    /\ UNCHANGED <<accountsVars, revoked, jwks, inactive, confirmed, fetching>>

(* AccountsGateway::verify with the cached keys.                           *)
Verify(r) ==
    /\ asked[r].phase = "keys"
    /\ asked' = [asked EXCEPT ![r].seen = jwks, ![r].phase =
          IF jwks.at = 0 \/ token[asked[r].token].key > jwks.keys THEN "fetch" ELSE "account"]
    /\ UNCHANGED <<accountsVars, revoked, jwks, inactive, confirmed, fetching>>

(* Mutant: a set that was fetched once is good for ever.                   *)
ReuseAnySet(r) == jwks.at # 0
(* fetch_keys, with the lock: a set that was replaced since the request    *)
(* looked, or fetched within the interval, is used as it is.               *)
Reuse(r) ==
    /\ jwks.at # 0
    /\ asked[r].seen.at = 0 \/ jwks # asked[r].seen \/ clock - jwks.at < Refetch

AfterFetch(r, keys) ==
    Goes(r, IF token[asked[r].token].key > keys THEN "unknown_key" ELSE "account")
ReuseKeys(r) ==
    /\ asked[r].phase = "fetch" /\ fetching = {}
    /\ Reuse(r)
    /\ AfterFetch(r, jwks.keys)
    /\ UNCHANGED <<accountsVars, revoked, jwks, inactive, confirmed, fetching>>
StartFetch(r) ==
    /\ asked[r].phase = "fetch" /\ fetching = {}
    /\ ~Reuse(r)
    /\ fetching' = {<<r, key>>}     \* the set Accounts answers with
    /\ UNCHANGED <<accountsVars, revoked, jwks, inactive, confirmed, asked>>
FetchKeys(r) ==
    /\ \E keys \in 1 .. MaxKeys :
          /\ <<r, keys>> \in fetching
          /\ jwks' = [keys |-> keys, at |-> clock]
          /\ AfterFetch(r, keys)
    /\ fetching' = {}
    /\ UNCHANGED <<accountsVars, revoked, inactive, confirmed>>
FetchFails(r) ==
    /\ \E keys \in 1 .. MaxKeys : <<r, keys>> \in fetching
    /\ fetching' = {}
    /\ asked' = [asked EXCEPT ![r] = Free]
    /\ UNCHANGED <<accountsVars, revoked, jwks, inactive, confirmed>>

SecondOf(t) == t - (t % SecondLength)

(* Mutant: a token of the sign-out's own second is taken for a new one.    *)
EndedBySecond(iat, before) == IF iat < SecondOf(before) THEN "ended" ELSE "newer"
(* ended_by_sign_out: by the second, except within the sign-out's own.     *)
EndedBySignOut(iat, before) ==
    CASE iat < SecondOf(before) -> "ended"
      [] iat >= before -> "newer"
      [] OTHER -> "ask"

(* The rest of authenticate: the row, and the sign-out it knows of.        *)
ReadAccount(r) ==
    LET verdict == IF revoked = 0 THEN "newer"
                   ELSE EndedBySignOut(SecondOf(token[asked[r].token].at), revoked)
    IN  /\ asked[r].phase = "account"
        /\ asked' = [asked EXCEPT ![r].before = revoked, ![r].phase =
              CASE verdict = "ended" -> "ended"
                [] verdict = "ask" -> "confirm"
                [] verdict = "newer" -> IF asked[r].check THEN "introspect" ELSE "accepted"]
        /\ UNCHANGED <<accountsVars, revoked, jwks, inactive, confirmed, fetching>>

(* issued_after_sign_out's memory.                                         *)
WasConfirmed(k, t) == <<k, t>> \in confirmed

(* introspect_active: inactive answers are remembered, active ones never.  *)
Introspected(k) == k \notin inactive /\ Active(k)

Remember(k, active) == inactive' = IF active THEN inactive ELSE inactive \cup {k}

ConfirmAfterSignOut(r) ==
    LET k == asked[r].token
        known == WasConfirmed(k, asked[r].before)
        active == known \/ Introspected(k)
    IN  /\ asked[r].phase = "confirm"
        /\ confirmed' = IF active THEN confirmed \cup {<<k, asked[r].before>>} ELSE confirmed
        /\ IF known THEN UNCHANGED inactive ELSE Remember(k, active)
        /\ Goes(r, IF ~active THEN "ended"
                   ELSE IF asked[r].check THEN "introspect" ELSE "accepted")
        /\ UNCHANGED <<accountsVars, revoked, jwks, fetching>>

RequireActiveToken(r) ==
    LET active == Introspected(asked[r].token)
    IN  /\ asked[r].phase = "introspect"
        /\ Remember(asked[r].token, active)
        /\ Goes(r, IF active THEN "accepted" ELSE "ended")
        /\ UNCHANGED <<accountsVars, revoked, jwks, confirmed, fetching>>

(* The answer is given, or Accounts did not answer; or a memory that is    *)
(* full or too old forgets.                                                *)
EndRequest(r) ==
    /\ asked[r].phase \in {"accepted", "ended", "unknown_key", "confirm", "introspect"}
    /\ asked' = [asked EXCEPT ![r] = Free]
    /\ UNCHANGED <<accountsVars, revoked, jwks, inactive, confirmed, fetching>>
ForgetAnswers ==
    /\ inactive # {} \/ confirmed # {}
    /\ \/ inactive' = {} /\ UNCHANGED confirmed
       \/ confirmed' = {} /\ UNCHANGED inactive
    /\ UNCHANGED <<accountsVars, revoked, jwks, asked, fetching>>

SignInNext ==
    \/ \E k \in Tokens : IssueToken(k) \/ RevokeOne(k)
    \/ EndSignIns \/ RotateSigningKey \/ SignInTick
    \/ \E t \in signOuts : LearnSignOut(t)
    \/ \E r \in Requests, k \in Tokens, check \in BOOLEAN : BeginRequest(r, k, check)
    \/ \E r \in Requests :
          \/ Verify(r) \/ ReuseKeys(r) \/ StartFetch(r) \/ FetchKeys(r) \/ FetchFails(r)
          \/ ReadAccount(r) \/ ConfirmAfterSignOut(r) \/ RequireActiveToken(r)
          \/ EndRequest(r)
    \/ ForgetAnswers

SignInSpec == SignInInit /\ [][SignInNext]_signInVars

----------------------------------------------------------------------------
(* Properties.                                                             *)

Request(phase) == {r \in Requests : asked[r].phase = phase}

(* A token is accepted only if it was issued after every sign-out Hook had *)
(* recorded when it read the account, to the instant and not the second.   *)
SignedOutStaysOut == \A r \in Request("accepted") : asked[r].before < token[asked[r].token].at

(* On a route that must see a sign-out at once, an accepted token was      *)
(* active while the request was being served.                              *)
AcceptedWasActive ==
    \A r \in Request("accepted") : asked[r].check =>
        LET k == asked[r].token
        IN  /\ \A t \in signOuts : t <= asked[r].since => t < token[k].at
            /\ ended[k] = 0 \/ ended[k] > asked[r].since

(* "This sign-in ended" is said only of sign-ins that ended: one made right *)
(* after a sign-out works at once.                                         *)
NewSignInWorks == \A r \in Request("ended") : ~Active(asked[r].token)

(* A token whose key is published is called unknown only if Hook fetched   *)
(* the key set less than an interval before the request, or after.         *)
PublishedKeyIsKnown == \A r \in Request("unknown_key") : jwks.at + Refetch > asked[r].since

(* Who is let in is signed in: by what Hook recorded of sign-outs, and, on  *)
(* the routes that ask, by what Silicon Accounts says at the time.         *)
AcceptedIsSignedIn == SignedOutStaysOut /\ AcceptedWasActive

(* Who is turned away is not signed in, or uses a key that Hook had no     *)
(* leave to look for yet.                                                  *)
RefusedRightly == NewSignInWorks /\ PublishedKeyIsKnown
=============================================================================
