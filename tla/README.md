# Silicon Hook in TLA+

Silicon Hook receives provider webhooks for *Silicons* (machine accounts). It
verifies each request against the hook's signing policy, stores it as an event
and notifies the Silicon and its observers through Ting. This directory holds
TLA+ models of the service, of its signature language and of the client code
that keeps state, the TLC configurations that check them, and TLAPS proofs. The
subjects are what depends on interleavings, stale reads, time and crashes, and
the pure functions whose edges decide what is verified. Source paths below are
relative to the repository.

- [1 Inventory](#1-inventory)
- [2 Modules](#2-modules)
- [3 What the runs show](#3-what-the-runs-show)
- [4 What is proved](#4-what-is-proved)
- [5 Disagreements between the code and its
  documentation](#5-disagreements-between-the-code-and-its-documentation)
- [6 Plan](#6-plan)
- [7 What stays outside](#7-what-stays-outside)
- [8 Running it](#8-running-it)

## 1 Inventory

All durable state is in PostgreSQL. `hook-api` processes (any number) serve
HTTP and each run one Ting publisher; `hook-worker` processes run the retention
purges. Nothing is shared between processes but the database. Silicon Accounts
and Ting are HTTP services.

| Component | State | Operations | Hard behaviour |
|---|---|---|---|
| Public ingress (`application/ingress.rs`, `postgres/events.rs`) | `hook.events`, `hook.blocked_requests`, `delivery_sequences` | `receive_request`: resolve, check address, capture, verify, accept or block | five database calls, each with its own snapshot; a handler can be dropped between any two |
| Client-address safety (`domain/safety.rs`, `postgres/safety.rs`) | `ip_blocks` | `check_ip_block`, `record_unverified_request` | decisions use the time the request arrived, not the time they are applied |
| Endpoint keys (`postgres/hooks.rs`) | `hooks.endpoint_key`, `retired_endpoint_keys` | rotate, resolve, retire | routing reads the live and the retired keys in two queries |
| Hook management (`application/hooks.rs`, `postgres/hooks.rs`, `domain/hook.rs`) | `hook.hooks` | create, update, enable, disable, delete, restore, rotate, prepare the Accounts hook | authorisation, the row and the time are read before the transaction |
| Management idempotency (`postgres/idempotency.rs`) | `management_idempotency` | reserve, replay, conflict, expire | retries after a lost answer; secrets in replays |
| Ting outbox and publishers (`postgres/ting.rs`, `delivery/publisher.rs`) | `ting_outbox` | enqueue, claim, check, complete, retry | leases between processes, network calls outside transactions, unknown outcomes |
| Proof cache (`delivery/adapter.rs`) | one proof and refresh token per scope, in memory | obtain, renew, forget, pause | cancellation during a renewal, lost answers, late refusals |
| Observer subscriptions (`delivery/subscriptions.rs`, `api/subscriptions.rs`) | `observer_subscriptions` | subscribe, unsubscribe, fan out | access is checked long before the insert; rows are deleted by four other operations |
| Accounts events (`postgres/accounts_events.rs`) | `accounts`, `accounts_events` | `apply`: id, profile, custodian, revocation, deletion | unordered, duplicated events next to lookups |
| Access (`application/access.rs`, `application/sharing.rs`, `postgres/access.rs`) | `silicon_grants`, allow-list; signing keys and confirmations in memory | authenticate, authorise, grant, revoke | checked before, used after; sign-outs known late; keys that rotate |
| Signing policies (`application/hooks.rs`, `domain/signature/config.rs`, `keys.rs`) | the signing columns of `hook.hooks` | patch, rotate | a patch is resolved against a row read earlier |
| Signature engine (`domain/signature/`) | none | tokenize, parse, print, evaluate, verify | absent values, encodings, limits, candidates |
| History (`application/history.rs`, `postgres/events.rs`, `domain/cursor.rs`) | none but the cursor the client holds | keyset pages | events commit late, expire and are purged during a listing |
| Maintenance (`worker/`, `postgres/maintenance.rs`) | none | six purges in batches and rounds | victims are selected without a row lock; failing classes; shutdown with a deadline for the loop and none for the pool |
| Identity linking (`bin/hook_migrate.rs`, `postgres/identity_links.rs`) | `identity_links`, uuids of old rows | apply a mapping file | files that contradict one another, while the service runs |
| Client crate (`crates/client`) | none; the app's own store | receive callbacks, sign in with a device code | repeated batches, crashes before the answer; slow answers |
| Command-line tool (`crates/cli`) | `profiles.json` | login, refresh, logout, status | several processes, killed at any step, with rotating tokens |
| Capture, cipher, configuration, migrations, HTTP surface, web console | none that changes at run time | | pure or one-off |

How they interact:

- *ingress -> outbox*: the acceptance transaction inserts the event, the
  outbox row for the Silicon and one per observer. The publisher claims those
  rows later.
- *management -> ingress*: rotation, update, disabling and deletion change the
  `hooks` row that a request has already read. The acceptance transaction locks
  the row, but looks at the status only.
- *maintenance -> everything*: a purge of a hook cascades to its events,
  outbox rows, blocked log and address rows. Retired keys stay.
- *Accounts -> management, ingress*: `account.deleted` deletes all hooks of a
  Silicon; requests authorised before do not look again.

What makes each component correct:

- ingress: a stored event was authentic when it was received; positions are
  dense; a URL once issued is recognised; an address in its block stays out;
- management: a repeated creation makes one hook; a secret told is the secret
  in force; the slot limit. That a successful deletion deletes, that a purge
  takes only deleted hooks and that a replaced secret is dead are documented and
  refuted (section 5);
- outbox: one publisher per send; a recorded acceptance is true and final;
  whatever Ting would accept is eventually accepted;
- proof cache: a good proof is kept, a spent refresh token is not presented, a
  pause is one pause, every call ends;
- observers and access: nobody without access receives an event; a subscription
  lies between two events; nothing is queued for a deleted account;
- accounts and sign-ins: once all events are applied Hook knows what Accounts
  knows; a signed-out token is refused and a new one is not; a published key is
  known;
- policies: a hook that requires signatures has key material, and can verify
  with it as long as no rotation crossed a change of the encoding; signature
  engine: exactly the language is accepted, what is absent is never signed, what
  the provider sends verifies;
- history and receivers: a listing is complete and in order; an event is called
  unavailable only when it is gone for good, and answered only when saved;
- workers: whatever is due is removed, and a worker that was told to stop
  ends, or waits for its pool alone;
- command line: no spent token is presented, no sign-in is lost sight of.

`PROJECT.json` lists every component with its status, and every hazard with
the line where it bites and the properties that would catch it.

## 2 Modules

Each module has its state as VARIABLES, one action per operation or await, and
its properties at the end, after the mutants' alternatives (definitions marked
"Mutant"), which no action uses.

### TingOutbox and Notifications

Rows of `hook_private.ting_outbox`, the publishers of several `hook-api`
processes, the wire to Ting and what Ting has stored. One action per await of
`publish_one`: `Claim`, `CheckClaim`, `Post`, `ProofRefused`, `Accepted`,
`AskedToWait`, `SendFails`, `TimesOut`, `Complete`, `Retry`; `Abandon` is
shutdown, crash or a storage error. A request on the wire may reach Ting long
after its publisher has given up. `Enqueue`, `Expire` and `Remove` are the
acceptance, the 14-day expiry and the cascades that delete a row under its
publisher.

Time is relative. A row keeps the time left to its next attempt and to the end
of its lease; a publisher keeps the time spent in its step. So behaviours are
unbounded although the states are finite, and liveness can be checked. `earlier`
is the order of the index `(next_attempt_at, ...)` that `claim_ting` reads.
`attempts` saturates where `retry_delay` stops growing. `Parked` rows are those
that migration 0019 left with the diagnostic `legacy_identity`. Leases are
reused once nobody holds them, which stands for fresh random UUIDs.

`Notifications` is the abstract promise, without leases, publishers or time: a
notification is wanted once, reaches Ting at most once, is confirmed only
afterwards, and is never taken up again once it is held or its row is gone.
`TingOutbox` instantiates it with the state that `publication_status` reports
(`known <- Known`) and what Ting has stored (`arrived <- stored`), and
`ImplementsNotifications` is that specification as a property.

### HookLifecycle and SigningPolicies

`HookLifecycle`: the hooks of one Silicon and the idempotency records. A request
is `Authorise`, possibly `GetHook`, then one transaction. What is older than
that transaction is explicit: the row that update, deletion and rotation read,
and the time that the request carries (`Stamps`: between `clock - Lag` and
`clock + Ahead`, and not before the request's preceding step). `answer` is the
success the latest step told the client. `overdue` is a history variable: the
hooks restored when a request with the most advanced clock no longer counted
them, so that their slot may be another's and a purge may have selected them.
Purges are two steps, selection and deletion, as the statement takes no row
locks. A request that fails only ends (`GiveUp`), because its transaction is
rolled back.

`SigningPolicies`: the signing columns of one hook. A request reads them,
resolves its patch (`signing_input`, `resolve`, the checks of
`domain/signature/config.rs`), and stores the result later. A secret is a set
of encodings it can be read in, a public key is the algorithm it parses for.
`crossed` is a history variable: a rotation stored a secret that it had
generated for an encoding no longer in force.

### Ingress

One provider request through `receive_request`, several handlers at once, and
the operations that change what they read. A signing policy is a version number
and a request is signed under one version or under none; `Optional` are the
versions that require no signature. `Receive` takes the snapshot of
`resolve_endpoint` with the database's time; everything after decides with it.
`replaced` and `barred` are history variables for the properties.

Decisions of the model:

- the outbox row is part of the event's row (one transaction); observers'
  copies are in `SiliconAccess`;
- the Silicon segment of the URL is left out; the key alone routes;
- `PurgeHook` does not wait for handlers in flight: a purge that selected a
  hook before its restoration can meet them;
- `Tick` lets no handler live longer than `RequestTime`, the server's timeout
  (`api/middleware.rs`); `Abandon` may end it at any earlier point;
- a handler that has answered keeps only the URL it answered about.

### SignatureExpressions, SignatureLanguage, SignatureCheck

The signature engine as functions. `SignatureExpressions`: what the parser
leaves, the expressions whose calls nest at most `n` deep. `SignatureLanguage`:
the lexer on characters, the recursive-descent parser on tokens with its depth
and node counts, and the printer; `typed` grows token by token, so that TLC
visits every token sequence up to the bound. `SignatureCheck`: values and their
conversions, every function of the language, the evaluation of an expression for
a request, the extraction of candidates from what the request presents, and
`verify`. Text and bytes are sequences of characters; an encoding writes marked
names and a digest or signature is a term that holds what it was made from, so
decoding, comparison and the UTF-8 check come out as they do in the code.

The lexer, the parser and the printer are RECURSIVE operators and TLC's alone.
`SignatureCheck` recurs by functions: the evaluator over the depth of an
expression, `json_encode` over the nesting of a value, the scanners and joins
over a length. That is what `SignatureProofs` reasons about. `IsCase` says what
a request and a configuration are there: expressions within the depth, headers
of names and values, a body of bytes, which the names that encodings give to
bytes are not.

### SiliconAccess, AccountsDirectory, SignIns

`SiliconAccess`: custodian, grants, allow-list, subscriptions of one Silicon,
and the copies of its events. A request is `AuthorizeSilicon`, then its own
checks, then its transaction (`PutGrant`, `DeleteGrant`, `Subscribe`); an
acceptance is `ReadObservers` and `EnqueueObservers`; Accounts' events and
lookups change the same rows at any point in between. `replaced` is a history
variable: who was replaced as custodian at some time.

`AccountsDirectory`: the truth at Accounts as a sequence of changes, the events
they cause, lookups with their answer under way, and the one row of
`hook_private.accounts`. Every column has the clock that the code compares.

`SignIns`: tokens, signing keys and sign-outs at Accounts; Hook's key set, its
introspection memory and confirmations; and the requests that `authenticate`
and `require_active_token` decide, one action per await. A token's `iat` is
rounded down to a second of `SecondLength` instants.

### EventHistory and Receiving

`EventHistory`: the rows of both logs, requests captured and not yet committed,
hooks deleted, restored and purged, batches of the purge, and clients that list
page by page with whatever cursor they hold. `Receiving` extends it with an app
that gets references from Ting in batches, fetches each event with its own
access, saves the outcomes and answers.

### ProofCache and Worker

`ProofCache`: one cache and the calls that share it, one action per await;
`AccountsIssues` is apart from the answer's arrival, so that it can be lost.
`Worker`: processes with their loop (a class's statement is its snapshot, then
its deletion, an error or a lost connection), and the select, drain and
deadline of `run`. A `JoinHandle` gives its task's outcome once. After drain,
`run` awaits the closing of its pool without a deadline (`PoolCloses`): that
ends once every connection is back, so a statement that waits for an answer on a
lost connection may hold it up (sqlx, whose source is not here, decides when an
aborted statement's connection is given up; the model lets either happen).

### IdentityLinks, CliSessions, DeviceSignIn

`IdentityLinks`: links, old hooks and their history rows; one action per mapping
file, the service's actions beside it. `CliSessions`: `profiles.json`, its lock,
`hook` processes that may die at any step, and Accounts' families of rotating
tokens. `DeviceSignIn`: the polling loop of `wait_for_device` against the clock
and against Accounts' view of it.

### Configurations

An MC module declares the model values and symmetry sets of its runs. Symmetry
is used in runs without liveness only, and over sets whose members the
specification does not tell apart. Where several parts or scenarios share a run,
a variable of the MC module (`part`, `scenario`) is chosen in the initial state
and never changes; the other parts keep their initial state. A scenario only
bounds the steps further: each is a set of behaviours of the specification.

## 3 What the runs show

A property that joins several statements is a conjunction of definitions of its
own, each with its comment; the parts are in parentheses.

| Run | Properties | Instance |
|---|---|---|
| `outbox_safety` | `OneSender`, `AcceptanceRecordable`, `NoWorkAfterAcceptance`, `ImplementsNotifications` | 2 publishers, 2 sends, 2 leases, lease 4, timeout 1, call 1 |
| `outbox_liveness` | `Delivered` | 1 publisher, 3 sends, one of them parked |
| `hooks` | `TypeOK`, `NoDuplicateCreation`, `ToldSecretVerifies`, `RetainedLimit` | three scenarios, lag 1, recovery 1: creations and purges of 2 hooks; 2 requests at once on one hook and its 2 secrets; 2 requests at once on 2 hooks beside a third, limit 2 |
| `ingress` | `TypeOK`, `SequenceIsDense`, `IssuedKeyIsKnown`, `AuthenticWhenReceived`, `BlockedIsRejected` | four scenarios: routing (2 hooks, 2 keys of one of them, 2 events), positions (3 events), policy (4 versions, 4 instants), blocks (3 handlers that live for 1 instant, threshold 2, block of 3 of 6 instants) |
| `proofs_and_workers` | `TypesOK`, `GoodProofIsKept`, `RequestsAreWarranted` (`NobodyAsksDuringPause`, `SpentRefreshIsNotPresented`, `RetriedWithAnotherProof`), `CallsEnd`, `DueIsRemoved`, `ToldToStopEnds` | 2 calls, 3 proofs, pauses of 1 and 2; 1 or 2 workers, 2 classes, batches of 1, 2 rounds |
| `sign_ins` | `DirectoryConverges`, `RowIsConsistent` (types, `DeletedStaysNameless`), `AcceptedIsSignedIn` (`SignedOutStaysOut`, `AcceptedWasActive`), `RefusedRightly` (`NewSignInWorks`, `PublishedKeyIsKnown`), `SpentTokenNotPresented`, `SignInsAccounted` (types, `NoSignInLeftBehind`), `PollsAsTold` (types, `PolledAsTold`, `NoApprovalMissed`) | 3 changes with up to 4 events, 2 ids, 1 lookup; 1 token, 2 requests, 2 keys, 4 instants with sign-outs and 5 over a key set from before, 3 to a second; 2 processes, 1 account, 3 pairs of tokens, at most 1 sign-in left; intervals and lives on both sides of the client's limits |
| `access_logs_links_policies` | `CopiesFollowSubscriptions` (types, `NoCopyForDeleted`, `SubscriptionBetweenEvents`), `CopiesGoWithGrants`, `ListingIsExact` (types, `ListingComplete`, `SeenInOrder`), `OutcomesAreTrue` (`UnavailableIsGone`, `AcknowledgedIsSaved`), `FilesDecide` (`RowsFollowLastFile`, `CheckedFileApplies`), `PolicyIsUsable` (`RequiredHasMaterial`, `VerifiesUnlessCrossed`, `StoredSecretReads`) | 2 Carbons, 1 other Silicon; 1 caller, 1 allowance at a time, at most 1 deletion, and beside a subscription no allowance and no other Silicon's grant; or 2 callers with neither custodian nor deletion; 3 rows, pages of 1 and 2, budget 2; batches of 2; 3 ids and uuids, 2 hooks, 1 closed account; 2 editors, 15 patches |
| `signatures` | `TextReadsBack` (`AcceptsExactlyTheLanguage`, `ReadsBack`, `QuotedReadsBack`, `NothingIsLost`), `AbsentIsNeverSigned`, `VerifiesExactlyTheSigned` (`VerifiedWasSigned`, `GenuineVerifies`), `FunctionsAgree` (types, `QueryIsCanonical`), `EncodingsDecode` | 8 tokens of 22, depth 2, 5 nodes, nesting 2; literals of 4 characters; every function on every block, every pair of functions; presented texts of 4 characters, 4 candidates |
| `rotation_lost`, `deletion_lost`, `purge_race`, `worker_panics` | `ReplacedSecretIsDead`, `DeletionIsEffective`, `PurgeTakesDeletedHooks`, `RunReturns` | expected violations, section 5 |

Why the bounds are enough. In the outbox, two publishers are the fewest that
can collide, and 4 > 1 + 1 + 1 is the tightest lease the assumption allows. One
of the two sends is an observer copy, so that rows also vanish under their
publisher. In the lifecycle, two clients and one hook are every two-request
race; `Lag = 1` against `Recovery = 1` and `KeyLife = 2` puts requests on
both sides of every deadline. A limit of 2 leaves one slot beside the hook that
stays, and the two hooks that compete for it can be deleted, counted out and
restored past each other. In ingress, one handler suffices for routing and
authenticity, since handlers do not read one another's state (the proofs cover
any number); three events are the fewest in which a position can be reused after
a purge. For blocks, two handlers admitted before a block are enough to begin
another one after it, the third waits for its check meanwhile; `RequestTime = 1`
and `BlockTime = 3` is the shortest block that `BlockAssumption` allows (in the
code a day, against a request timeout of at most 120 s), and `MaxClock = 5`
leaves room for a block, its end and another strike.

Of the proof cache, three proofs are one to begin with, one that replaces it and
one that a late refusal could hit; two calls are one that renews and one that
waits or comes back late. A worker alone meets every failure; of two, one waits
for the other's victims, and batches of one make every batch full. In the
directory three changes are two that can be swapped and one that a lookup
overtakes; four events leave room for an update of the profile beside them. A
second of three instants has a token and a sign-out in it in both orders. A page
of one row with a budget of two and a row of weight three meets the limit, the
budget and a row above it. Two former Silicons and a Carbon can swap uuids and
be of the wrong kind. Eight tokens are the shortest call with two arguments and
an option; depth and nodes are lowered until both limits lie within. Of the
client's waits, `MaxInterval` and `MaxExpires` lie between the values Accounts
may give. One sign-in left that nobody could end or keep lets each kind of loss
happen by itself, at every step of the other process; the proofs cover any
number.

Two properties rest on an assumption about what the code does not control or does
not lock, and fail without it; changing the constant or dropping the conjunct
shows how:

- the scenario "blocks" of `ingress` has `PurgesOnlyLapsed`: no purge of stale
  rows takes one whose address was blocked after the purge selected it. Such a
  purge (the row must have rested for 30 days before) ends the block that has
  just begun, since the victims are not locked and not looked at again.
- `SpentTokenNotPresented` of `sign_ins` has `BusyAfterRotation = FALSE`: Silicon
  Accounts answers no refresh with 429 or 5xx after it rotated the token.

Three others say what they leave out, since the code breaks it. `RetainedLimit`
does not count hooks in `overdue`; `VerifiesUnlessCrossed` and
`StoredSecretReads` end at a crossing; `CopiesGoWithGrants` excepts those in
`replaced`. What is left out is in section 5.

**Fairness.**

- `outbox_liveness`: each publisher's loop goes on (`run` in
  `delivery/publisher.rs` has no exit but shutdown, and it polls again after
  every outcome): `WF(PublisherStep(p))`. Time passes: `SF(Tick)`, strong
  because a publisher at its step's limit disables `Tick` until it moves. A
  request on the wire arrives: `WF(TingReceives(s))`. Crashes may happen any
  number of times, but not for ever. Nothing is assumed of what Ting answers.
  `Delivered` then takes, per send, the premise that publishers who try it again
  and again get a proof and Ting's acceptance; another send that fails for ever
  must not keep it waiting.
- proof cache: tokio's mutex queues its waiters, so a call that wants the lock
  gets it (`SF(Token(c) \/ ForgetToken(c))`), and every network call ends by its
  client's timeout (`WF(Answered(c))`).
- workers: the ticker ticks and statements end by an answer or the server's
  timeout (weak fairness of the loop); a statement that can succeed does not
  fail each time (`SF(DeleteVictims(w, c))`, nothing for classes in `failing`);
  the process ends its select and drain, its pool closes unless a statement
  hangs, and a supervisor starts it again. Hanging connections are allowed,
  which is why `DueIsRemoved` excuses a state in which every worker hangs, and
  `ToldToStopEnds` one in which the pool's closing waits for a hanging
  statement.

The other runs check safety only. That a command of the tool ends and that
`wait_for_device` returns follows from its clocks and was not stated, since its
state space with liveness takes longer than the rest of the project.

Deadlock is checked for the outbox. The other modules have bounded clocks and
bounded numbers of secrets, keys, events, changes and tokens, and parts that are
over: `CHECK_DEADLOCK FALSE`.

## 4 What is proved

Each theorem holds for every value of the constants that satisfies the named
assumptions. Where a theorem needs more than those, its statement says so: a
condition on constants with `ASSUME`, one on behaviours (`PurgesOnlyLapsed`) as a
hypothesis.

| Module | Proves about | Properties of section 3 |
|---|---|---|
| `TingOutboxProofs` | `TingOutbox`, `Notifications` | `OneSender`, `AcceptanceRecordable`, `NoWorkAfterAcceptance`, `ImplementsNotifications` |
| `IngressProofs` | `Ingress` | `TypeOK`, `SequenceIsDense`, `IssuedKeyIsKnown`, `AuthenticWhenReceived`; on a condition `BlockedIsRejected` |
| `ProcessesProofs` | `ProofCache`, `Worker` | `GoodProofIsKept`, `RequestsAreWarranted`, `TypesOK` |
| `HookLifecycleProofs` | `HookLifecycle` | `TypeOK`, `NoDuplicateCreation`, `ToldSecretVerifies`, `RetainedLimit` |
| `AccountsProofs` | `AccountsDirectory`, `SignIns` | `RowIsConsistent`, `DirectoryConverges`, `AcceptedIsSignedIn`, `RefusedRightly` |
| `ServiceProofs` | `SiliconAccess`, `SigningPolicies`, `IdentityLinks`, `EventHistory`, `Receiving` | `CopiesFollowSubscriptions`, `CopiesGoWithGrants`, `PolicyIsUsable`, `FilesDecide`, `ListingIsExact`, `OutcomesAreTrue` |
| `CliProofs` | `DeviceSignIn`, `CliSessions` | `PollsAsTold`, `SignInsAccounted`; on a condition `SpentTokenNotPresented` |
| `SignatureProofs` | `SignatureCheck` | `AbsentIsNeverSigned`, `VerifiesExactlyTheSigned`; with `MaxDepth > 1` `EncodingsDecode` |

In every module one lemma says that the initial states satisfy the inductive
invariant, one lemma per action that the action keeps it, and a last one puts
these together.

**TingOutboxProofs** (from `OutboxAssumption`, above all
`LeaseTime > CallTime + SendTimeout + CallTime`; in the code 180 s against
13 + 60 + 13 s):

- `TypeCorrect`, and `Invariance` of the inductive invariant `Inv`;
- `MutualExclusion`: `OneSender` for any number of publishers and sends;
- `NoLostAcceptance`: `AcceptanceRecordable`;
- `Truthful`: `AcceptedIsStored`; `AcceptedIsFinal`: `NoWorkAfterAcceptance`;
- `WorkIsCovered`: `LeaseCovers`; `ParkedStays`: `ParkedNeverSent`;
- `Refinement`: `ImplementsNotifications`.

`OneSender` is not inductive: nothing in it says that a lease outlasts a
publisher's work. `LeaseCovers` does. The row of a working publisher carries
its lease, and what is left of that lease is at least the floor of the step it
is in, less the time spent in the step. The floors are `LeaseTime`, then
`LeaseTime - CallTime`, then `LeaseTime - CallTime - SendTimeout`. Each step's
limit is below the next floor, so the lease never reaches zero under a
publisher, and a row that is `Due` has no publisher. That is the whole argument;
`AcceptanceRecordable` follows from the same floor.

The refinement uses the invariant twice: a publisher that completes holds an
acceptance, so what it confirms has arrived (`AcceptedIsStored`), and rows that
are parked or gone are with no publisher. `SentRowsStep` says which rows a step
can change, `KnownStutters` and `KnownChanges` turn that into steps of what
`Notifications` knows, and `PromiseStep` takes the actions one by one.

**IngressProofs** (from `IngressAssumption`: the bounds are natural numbers; and
for the last theorem `BlockAssumption`: `BlockTime > 2 * RequestTime`):

- `TypeCorrect`, and `Invariance` of `IInv`;
- `DensePositions`: `SequenceIsDense`;
- `IssuedUrlsAreKnown`: `IssuedKeyIsKnown`;
- `StoredIsAuthentic`: `AuthenticWhenReceived`;
- `BlockHolds`: `BlockedIsRejected` of every behaviour with `PurgesOnlyLapsed`.

`IInv` adds six facts. `EarlierKeysAreRetired`, `UnroutedIsGone` and
`UnknownIsGone` carry what the first query of `resolve_endpoint` saw over to the
second and to the answer. `PolicyHistory` says that exactly the versions before
the present one have been replaced, no later than now. `ReceivedInThePast`
bounds the times that handlers and events carry. `SnapshotWasInForce` says that
a handler's policy was in force when its request arrived; the lemma
`InForceStays` keeps that true while the policy is replaced, since a version
ends now or later and so not before any arrival. `HandlerStep` reduces the eight
handler actions to three cases for one request (it arrives, goes on, or
answers), so each conjunct is proved once per case.

`BlockHolds` is not a matter of how many strikes are in flight. Strikes that were
admitted before a block may complete another window and replace the block by one
that ends earlier, since `record_unverified` dates a block from the arrival of
its last request. But whoever strikes now was received at most `RequestTime` ago
(`HandlersAreInTime`), so its block ends more than `RequestTime` from now, when
every request that waits for its check is over. Hence `BlockOutlastsRequest`: the
row of a waiting request's address keeps the block's end, or one that the
request does not live to see; `UntilMoves` says what a step may make of that end.
A strike clears a block only if it was received after the block's end.

**ProcessesProofs** (from `CacheAssumption`: the bounds are natural numbers, a
proof lives for some time, and nobody is not a call; and `WorkerAssumption`:
classes are numbered, batches and rounds positive):

- `CacheInvariance` of the inductive invariant `CacheInv`;
- `GoodProofsAreKept`: `GoodProofIsKept`;
- `WarrantedRequests`: `RequestsAreWarranted`;
- `WorkerInvariance` of `WorkerInv`; `TypesAreRight`: `TypesOK` of the
  composition `MCSpec`;
- `CyclesAdvance` and `BatchesAreBounded`, action properties of the workers.

Neither property of the cache is inductive. `ReplyIsNewest` says that an answer
on its way is the newest proof and belongs to the one call that asks;
`AskingForGoodReason` that this call saw no good proof and no pause;
`ProofsAccounted` that every proof is worn out, cached or on its way. So what an
arriving proof replaces is worn out, and a call that comes back after a refusal,
whose refused proof is no newer than the cached one (`CallsAreBehind`), finds
that one stale or another (`RefusedIsForgotten`).

`CyclesAdvance` is the variant behind "bounded and fair": each statement of a
cycle takes it to a later class of the round or to a later round, and to the
same class again only after a full batch, so that a cycle has at most `Rounds`
statements per class, whatever fails or comes due meanwhile. `BatchesAreBounded`
counts: a victim has a number of older rows of its own, below the limit
(`VictimsAreABatch`), and what other workers removed meanwhile only lessens a
batch.

**HookLifecycleProofs** (from `LimitsAssumption` and `AbsentAssumption`):

- `HookInvariance` of `HookInv`; `HooksTyped`: `TypeOK`;
- `CreationHappensOnce`: `NoDuplicateCreation`, however the clocks differ;
- `ToldSecretsAreStored`: `ToldSecretVerifies`;
- `LimitInvariance` and `LimitIsKept`: `RetainedLimit`, for any `Lag` and
  `Ahead`;
- if `RecordsAreShort` (`KeyLife + Ahead + 2 * Lag <= Recovery`):
  `LateInvariance` and `RecordsOutlivedByHooks` (`ReplayableHookExists`).

That a creation happens once is not visible in the rows: what forbids a second
hook is the idempotency record of the first. `CreationIsRecorded` says that
every stored hook still has the record of its creation, or that this record has
lapsed since. A record lapses `KeyLife` after the time its creation carried, and
a later creation carries a time at most `Lag` before the present, hence the
distance of `KeyLife - Lag` between two creations with one key.
`RecordsNameTheirHook` and `ReadersHaveHook` say what the other kinds of record
and a request in flight name.

The limit is kept although a restoration reserves no slot. A creation counts the
hooks that are in use or were deleted not longer ago than the recovery period
by the time it carries; `RetainedLimit` counts by the most advanced clock, which
counts no hook that a creation leaves out. So the count grows by a creation
alone (`MovedCounts`), which found a free slot, and a restoration either takes
back a hook that still counts or adds it to `overdue`. No step of the proof asks
how far clocks differ.

A purge may remove a hook that was restored meanwhile, whatever the clocks
(`purge_race`). `RecordsOutlivedByHooks` says what that costs a replay: with
24 hours of life for a record, 45 days of recovery and clocks that differ by
less than two weeks, the hook of a record in force was not yet deleted long
enough to be selected (`RecordedHooksRemain`), unless it was restored when a
purge might have selected it already, which `VictimsHaveExpired` sets apart.

**ServiceProofs on SiliconAccess** (from `AccessAssumption`):

- `AccessInvariance` of `AccessInv`;
- `SubscribersGetTheirEvents`: `CopiesFollowSubscriptions`;
- `RevokedGetNothing`: `CopiesGoWithGrants`, from the invariant `ReplacedInv`.

The heart is `ReadingIsCurrent`: between its two statements an acceptance holds
what it has read, and no subscription made meanwhile is missed, because
`subscribe` waits for the lock that the acceptance shares. With
`UnlapsedHaveAccess` (a subscription whose owner always kept access is one whose
owner has access now, so it is read) this keeps `CopiesAreComplete`: every event
since a subscription began has its copy. `CopiesHaveSubscription` and
`NumbersAreUnique` make the removal of one subscription remove its copies and no
others; `CallerStates` says who can be in which step.

That nothing waits for someone whose grant was revoked is not a matter of what
an acceptance reads, but of what was read or queued before. An acceptance
between its two statements may hold a subscription whose grant ends meanwhile;
what it then inserts fails by the foreign key, as the revocation removed the
subscription with the grant. A revocation that kept the subscription took its
grantee for the custodian, and at its end that is still so, or the custodian was
replaced (`ReplacedInv`). `GrantsEnd` says by which steps a grant ends and what
goes with it; `EntitledStay` and `CopiesComeFrom` say that nobody else stops
being entitled and that copies come from subscriptions that were read.

**AccountsProofs** (from `DirectoryAssumption` and `SignInAssumption`):

- `DirectoryInvariance` of `DirectoryInv`; `DeletionWins`: `RowIsConsistent`;
- `EventsConverge`: `DirectoryConverges`;
- `SignInInvariance` of `SignInInv`; `LetInIsSignedIn`: `AcceptedIsSignedIn`;
- `TurnedAwayRightly`: `RefusedRightly`.

Convergence is about any order and number of events beside lookups that answer
late, and is proved from where each column comes from. `IdHasSource` and
`CustodianHasSource`: what the row says was so at the time the row gives for it,
or later, or was recorded by the last lookup. `AppliedLeaveTheirTime`: an applied
event has left its time on the row, or a later one. `ChangesAreTold` and
`EventsAreTrue`: every change has its event and an event says what was. Had the
id changed after the time on the row, that change's event would have been
applied and left a later time.

`RequestsAreRight` says what a request has established by the step it is in: it
is past the sign-out it has read, it was active after it began, its token has
ended, or the key set is the one it saw or a newer one. `MemoryIsTrue` says the
same of what the gateway remembers. `InstantsAreDistinct` and the lemmas on
seconds carry the comparison by the second over to instants: of two instants the
one whose second begins earlier is the earlier one. The interval between two
fetches is positive, a constant of the code.

**ServiceProofs** (from `PatchesAssumption`, `LinksAssumption` and the
assumptions of `Receiving` and `EventHistory`: numbers of rows and bytes are
natural, `CursorAssumption` says that no cursor at all is not a cursor):

- `PolicyInvariance` of `PolicyInv`; `StoredPoliciesAreUsable`: `PolicyIsUsable`;
- `LinksInvariance` of `LinksInv`; `LastFileDecides`: `FilesDecide`;
- `HistoryInvariance` of `HistoryInv`; `ListingsAreExact`: `ListingIsExact`;
- `ReceivingInvariance` of `ReceivingInv`; `ReceiversLearnTheTruth`:
  `OutcomesAreTrue`.

A policy is stored that was resolved from a row read earlier, so `PolicyInv`
also says that what a request is about to store can be used. It needs more than
the property: until a rotation crosses a change of the encoding, a secret reads
in its policy's encoding whatever the algorithm in force, since a later patch of
the algorithm alone brings the stored secret back into use. After a crossing,
what is proved is that a hook which requires signatures has a public key of its
algorithm or some secret, readable or not. Identity links are kept one-to-one
and equal to what the files said (`LinksInv`), so the unique index admits the
upserts of a checked file in any order.

Of each client's listing `HistoryInv` says that it goes on just after the last
row it showed and with the query it began with (`Continues`), that whatever it
has not shown yet of the rows it began with lies beyond its cursor or is not to
be shown any more (`NothingSkipped`), that what it showed is in order
(`InOrder`), and that the rows it began with are none of those still to be
logged (`BeganBefore`). Three facts carry it: a genuine cursor of this version
and query is the listing's own (`CursorIsOwn`, `ForeignIsRefused`); a hook that
is no longer kept stays so (`HistoryMoves`), so that a row once passed over does
not come back; and the sorted rows contain each row once (`NewestFirstSorts`),
since no two rows have as many newer ones and as many ranks as rows are then all
taken. The length of a page exists (`PageLengthIs`) because there is a least
length at which `collect_page` stops (`LeastOf`, a minimal counterexample where
an induction over the length would be usual).

`ReceivingInv` says that an event that Hook no longer has is gone for good
(rows have ids of their own, a purged hook does not return), so that the
outcomes of a batch under way and those saved stay true.

**CliProofs** (from `DeviceAssumption` and `SessionsAssumption`):

- `DeviceInvariance` of `DeviceInv`; `PollsAreAsTold`: `PollsAsTold`;
- `SessionsInvariance` of `SessionsInv`; `SignInsAreAccounted`:
  `SignInsAccounted`;
- if `BusyAfterRotation = FALSE`: `UnspentInvariance` of `UnspentInv`, and
  `NoTokenIsReused`: `SpentTokenNotPresented`.

The device flow keeps a pace that is at least what it was told, and sleeps a
whole pace or up to the deadline (`SleepsLongEnough`, `AskedInTime`). Of a
profile's sign-ins, `ProcessFits` says for each process what it has in hand at
its step, that it holds the file's lock exactly if it is about to write, that it
then works on the token that is saved, and that what it read of Accounts' answer
is so; `SavedFits` says what the file holds. A family that works is then never
dropped without a trace, because whoever replaces or forgets a saved session has
it in hand until Accounts has ended it or it is recorded as left. The lemma
`ProcessMoves` reduces every step of a process to that process, the file and the
families it touches.

`SpentTokenNotPresented` rests on the lock: only its holder spends, and what it
spends is the saved token (`AtAccounts`), which is unspent while no outcome is
uncertain (`SavedUnspent`); tokens bought and not yet saved are new and nobody
else's (`BoughtIsNew`, `BoughtApart`). The condition is about Silicon Accounts:
the client reads an answer 429 or 5xx to a refresh as "not processed" and keeps
the token, which is right only if Accounts never sends one after rotating it. The
run has the same value of the constant.

**SignatureProofs** (from `DepthAssumption` and `CheckAssumption`):

- `CheckInvariance` of `CheckInv`: a case is one the parser and the receiver
  admit, and the outcome is its verdict or there is none yet;
- `AbsentNeverSigned`: `AbsentIsNeverSigned`;
- `TheSignedAndOnlyTheSigned`: `VerifiesExactlyTheSigned`;
- `EncodedIsDecoded`, where a decoding of an encoding fits the depth
  (`MaxDepth > 1`): `EncodingsDecode`.

They hold for every expression of any depth, any request, any headers and bodies
and any limits. The library's induction theorems are out of reach, so each
recursive function is shown to exist by a least counterexample (`Upward`,
`Recursion`) and then taken by its equations (`EvaluatorIs`, `JoinIs`, `ScanIs`,
`UnmarkIs`).

That nothing absent is signed goes by depth: a call that succeeds had results
for all its arguments, none of them null (`ArgumentsAreGiven`), unless it is
`json_encode`, which writes an absent value as `null`; so what the payload needs
was there (`NeededIsGiven`). That only the signed verifies is read off `Judge`.
That the signed verifies follows the header. `HeadersObject` joins the values of
repeated headers with a comma and a blank where the property joins them with a
blank, and a scan ends its token at either (`SeparatorsEndTokens`,
`JoinedHeaders`); the joined text is at most one character longer for each value
(`JoinedFits`); a token has at most two candidates, so the first `MaxCandidates`
hold all of the first half as many tokens (`FirstTokensAreTried`), among them the
genuine one (`GenuineTokenDecodes`).

That encodings decode goes character by character. In what an encoding writes,
the part of each character stands where the parts before it end
(`PartsStand`). Each part is a mark and the character's name, and names are
nobody else's (`NamesApart`, `NamedBack`), so the decoder, read from its end,
takes one part after the other (`UnmarkedAre`); `url_decode` first turns plus
into a blank, which no other part contains (`BlankedCodes`).

**Only model-checked**: liveness (`Delivered`, `CallsEnd`, `DueIsRemoved`,
`ToldToStopEnds`), which the prover does not reach; `TextReadsBack`, whose
lexer, parser and printer are RECURSIVE operators over text and trees;
`FunctionsAgree`, the kinds of all values and the canonical query, which is a
sort of pairs that were cut from text and are cut again from what is written;
and the properties of section 5, which do not hold.

## 5 Disagreements between the code and its documentation

Four are runs that TLC ends with a counterexample; `PROJECT.json` quotes the
lines.

| Run | Property | What happens |
|---|---|---|
| `rotation_lost` | `ReplacedSecretIsDead` | an update that read the hook before a rotation writes the old secret back |
| `deletion_lost` | `DeletionIsEffective` | a deletion whose carried time precedes a concurrent disabling answers success and deletes nothing |
| `purge_race` | `PurgeTakesDeletedHooks` | a purge removes a hook that was restored after it was selected |
| `worker_panics` | `RunReturns` | a maintenance loop that ends by itself makes `run` poll its `JoinHandle` twice, which panics instead of returning the error |

The others were met while modelling. Those with a property of their own are
stated in their module without a run; TLC refutes them within minutes when they
are added to the configuration named.

| Property | Configuration | What happens |
|---|---|---|
| `ProofCache!RefreshTokenNotReused` | `MCProcesses.cfg` | a renewal cancelled or lost after Accounts rotated the token leaves the spent token in the cache, and it is presented again (`delivery/adapter.rs:154`) |
| `SiliconAccess!QueuedCopyHasAccess` | `MCService.cfg` | a lookup that brings another custodian leaves the former one's subscription and the copies queued for it |
| `AccountsDirectory!CustodianMovesForward` | `MCSignIns.cfg` | a `custodian_changed` that comes after a later `account.updated` replaces the newer custodian, since an update records no time of it |
| `CliSessions!SavedIdIsTheAccounts` | `MCSignIns.cfg`, two holders | `hook login status` stores the id it learned in a session of another account that was saved meanwhile |
| `CliSessions!CallGoesWhereAsked` | `MCSignIns.cfg`, two Hooks | a command that decided on its Hook before another login sends that login's token there |
| `SigningPolicies!RequiredCanVerify` | `MCService.cfg` | a rotation generates its secret for the encoding it read (`application/hooks.rs:367`) and stores it after an update to another encoding; the hook then blocks every request, although secrets "must decode to a non-empty key in the selected encoding" (`docs/api/README.md:210`) |

Without a property: restorations carried from before the recovery deadline can
take a Silicon above its limit, which counts "recoverable deleted ones"
(`docs/api/README.md:179`), since nothing reserves a slot for them
(`RetainedLimit` without its exception is refuted by `MCHooks.cfg`); `run`
promises an error when "graceful shutdown exceeds its configured deadline"
(`worker/mod.rs:26`) and the closing of the pool after it has none; a creation
or restoration authorised before `account.deleted` leaves a hook of a deleted
account (`create_hook` and `restore_hook` do not look at the owner again); a
captured request within the bounds of `domain/request.rs` but beyond the checks
of `0001_initial.sql:194` is verified and then answered as an internal error,
without a row in either log; `without_credentials` is never called; nothing
re-encrypts stored secrets, so an old encryption key can never be retired
(`reencrypt` in `infrastructure/crypto.rs` has no caller); for the plain digests
"the payload must include `secret`" (`domain/signature/config.rs:44`) is not
enforced; and an object keeps the order of its members "so canonicalization is
explicit" (`domain/signature/value.rs:10`), but `json_encode` goes through a
sorted map, so that the order which `sort_keys` made is lost there.

## 6 Plan

Done, in the order of importance: the outbox, its abstract promise and the
refinement; the lifecycle of hooks and their policies; ingress; the proof cache
and the workers; the account directory, sign-ins and access; histories and their
receivers; the signature engine; identity linking; the command line's sign-ins.
All have proofs, the signature engine from its evaluator on. Next:

1. Proofs: the parser of the signature language as a recursive function over the
   length of what was typed, so that `TextReadsBack` can be proved; the sort of
   pairs, for `QueryIsCanonical`; and the composition of item 2.
2. A composition of `Ingress` and `TingOutbox`: from an accepted request to a
   notification that Ting has, with `Notifications` as the interface.
3. The replayed rotation of an endpoint key, whose answer repeats a URL that a
   later rotation may have retired.
4. Size limits of captured requests and of intermediate values, next to the
   checks of the tables.

## 7 What stays outside

- Cryptography and byte formats: ciphers, key formats, digests and signatures
  are terms; the size limits of captured requests and of intermediate values are
  left out.
- Configuration, schema checks and migrations run once, before any concurrency
  (migration 0019's parked rows are initial states of `TingOutbox`, and the
  linking of identities is `IdentityLinks`).
- Routing, headers, contract versions and error documents of the HTTP surface,
  the typed wrappers of the client crate and the commands that print an answer
  keep no state. The request timeout is part of `Ingress`.
- The choice of a random endpoint key: a collision is one of 36^8, and every
  model that has one consists of it.
- The web console, the documentation site and the deployment scripts.
- TLAPS 1.4.5 does not reach liveness under fairness or `ENABLED`, nor the
  induction theorems of its library that take a predicate (`ServiceProofs` and
  `SignatureProofs` use a least counterexample instead), nor modules with
  RECURSIVE operators (`SignatureLanguage`); those stay with TLC.

## 8 Running it

    tlc -workers 2 -config MCIngress.cfg MCIngress
    tlapm IngressProofs.tla

`PROJECT.json` names the module and configuration of every run and what it is
expected to show.
