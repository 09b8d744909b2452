--------------------------- MODULE HookLifecycle ---------------------------
(***************************************************************************)
(* The hooks of one Silicon: creation, update, activation, soft deletion,  *)
(* restoration and secret rotation as the management API performs them,    *)
(* the idempotency records behind them, the deletion of the Silicon's      *)
(* account, and the worker's permanent purge.                              *)
(*                                                                         *)
(* A request is authorised first and changes the database later, in one    *)
(* transaction.  Two of its inputs are older than that transaction: the    *)
(* row that update, deletion and rotation read beforehand, and the time it *)
(* carries, which the application reads from its own clock.  The           *)
(* database's clock is clock; a carried time lies between clock - Lag and  *)
(* clock + Ahead, and not before the request's preceding step.             *)
(* A request that fails rolls its transaction back: it only ends.          *)
(***************************************************************************)
EXTENDS Integers, FiniteSets

CONSTANTS
    Hooks,          \* hook ids the Silicon may ever use (each is used once)
    Clients,        \* requests the API serves at once
    Keys,           \* Idempotency-Key values
    Limit,          \* MAX_RETAINED_HOOKS_PER_SILICON
    Recovery,       \* HOOK_RECOVERY_DAYS
    KeyLife,        \* how long an idempotency record lives (24 hours)
    SecretReplay,   \* how long a secret-bearing answer is replayed (10 minutes)
    Lag,            \* how far a carried time may be behind the database's clock
    Ahead,          \* how far it may be ahead (another machine's clock)
    MaxClock,       \* bound: the last tick explored
    MaxSecret,      \* bound: the secrets ever encrypted
    NoHook, NoKey   \* absent values

ASSUME LimitsAssumption ==
    /\ Limit \in Nat \ {0} /\ Recovery \in Nat /\ KeyLife \in Nat
    /\ SecretReplay \in Nat /\ SecretReplay <= KeyLife
    /\ Lag \in Nat /\ Ahead \in Nat /\ MaxClock \in Nat /\ MaxSecret \in Nat
ASSUME AbsentAssumption == NoHook \notin Hooks /\ NoKey \notin Keys

VARIABLES
    hooks,      \* hook.hooks
    records,    \* hook_private.management_idempotency
    account,    \* the Silicon's hook_private.accounts row: "live", "noticed"
                \* (a lookup found it deleted) or "deleted" (the event came)
    request,    \* what each request under way holds
    answer,     \* the successful answer given by the latest step, if any
    victims,    \* the hooks a running purge statement has selected
    issued,     \* secrets encrypted so far; secret n is the n-th
    clock,
    overdue     \* history: the hooks that were restored when a request with
                \* the most advanced clock no longer counted them

vars == <<hooks, records, account, request, answer, victims, issued, clock, overdue>>

Bodies == {"hmac", "public_key", "accounts", "empty"}
Times == 0 .. MaxClock + Ahead
NoSecret == 0

(* A row: since is disabled_at or deleted_at, whichever the status calls   *)
(* for; cause is the key of the request that created the hook.             *)
Row == [status : {"unused", "active", "disabled", "deleted", "purged"},
        asymmetric : BOOLEAN, secret : 0 .. MaxSecret, created : Times,
        since : Times, default : BOOLEAN, cause : Keys \cup {NoKey}]
Record == [op : {"create", "connect", "restore", "rotate"},
           target : Hooks \cup {NoHook}, key : Keys, body : Bodies,
           resource : Hooks, secret : 0 .. MaxSecret,
           expires : 0 .. MaxClock + Ahead + KeyLife,
           replay : 0 .. MaxClock + Ahead + KeyLife]
Request == [phase : {"idle", "authorised", "read", "activated"},
            hook : Hooks \cup {NoHook},
            asymmetric : BOOLEAN, secret : 0 .. MaxSecret, since : 0 .. MaxClock]
Answers == [op : {"none", "create", "rotate", "restore", "delete"},
            hook : Hooks \cup {NoHook}, secret : 0 .. MaxSecret]

EmptyRow == [status |-> "unused", asymmetric |-> FALSE, secret |-> NoSecret,
             created |-> 0, since |-> 0, default |-> FALSE, cause |-> NoKey]
Idle == [phase |-> "idle", hook |-> NoHook, asymmetric |-> FALSE, secret |-> NoSecret,
         since |-> 0]
NoAnswer == [op |-> "none", hook |-> NoHook, secret |-> NoSecret]

Init ==
    /\ hooks = [h \in Hooks |-> EmptyRow]
    /\ records = {}
    /\ account = "live"
    /\ request = [c \in Clients |-> Idle]
    /\ answer = NoAnswer
    /\ victims = {}
    /\ issued = 0
    /\ clock = 0
    /\ overdue = {}

----------------------------------------------------------------------------
(* What the statements select.                                             *)

Stored == {h \in Hooks : hooks[h].status \notin {"unused", "purged"}}
Usable == {h \in Stored : hooks[h].status # "deleted"}

(* Mutant: the cutoff is exclusive, unlike the one of a restoration.       *)
RetainedExclusive(at) ==
    {h \in Stored : hooks[h].status = "deleted" => hooks[h].since > at - Recovery}
(* Hooks that take one of the Silicon's slots at a time.                   *)
Retained(at) ==
    {h \in Stored : hooks[h].status = "deleted" => hooks[h].since >= at - Recovery}

(* Times a request may carry when its transaction runs: read from the      *)
(* application's clock after the request's last step, at most Lag ago.     *)
Stamps(c) ==
    {t \in Times : /\ clock - Lag <= t /\ request[c].since <= t
                   /\ t <= clock + Ahead}

----------------------------------------------------------------------------
(* Idempotency records.                                                    *)

Scope(op, h, k) == [op |-> op, target |-> h, key |-> k]
InScope(r, s) == r.op = s.op /\ r.target = s.target /\ r.key = s.key

(* Mutant: a record stops counting once its secret may not be replayed.    *)
HeldWhileReplayable(s, at) == {r \in records : InScope(r, s) /\ r.replay > at}
(* The record that keeps a key reserved.                                   *)
Held(s, at) == {r \in records : InScope(r, s) /\ r.expires > at}

(* A record answers a repeated request.                                    *)
Replays(r, body, at) == r.body = body /\ r.replay >= at

(* Mutant: the expired record of the scope stays.                          *)
ReserveBeside(s, body, h, secret, at) ==
    records' = records \cup
        {[op |-> s.op, target |-> s.target, key |-> s.key, body |-> body,
          resource |-> h, secret |-> secret, expires |-> at + KeyLife,
          replay |-> IF secret = NoSecret THEN at + KeyLife ELSE at + SecretReplay]}
(* The record a fresh request leaves; an expired one of its scope goes.    *)
Reserve(s, body, h, secret, at) ==
    records' = {r \in records : ~InScope(r, s)} \cup
        {[op |-> s.op, target |-> s.target, key |-> s.key, body |-> body,
          resource |-> h, secret |-> secret, expires |-> at + KeyLife,
          replay |-> IF secret = NoSecret THEN at + KeyLife ELSE at + SecretReplay]}

----------------------------------------------------------------------------
(* Requests.                                                               *)

Reply(c, op, h, secret) ==
    /\ request' = [request EXCEPT ![c] = Idle]
    /\ answer' = [op |-> op, hook |-> h, secret |-> secret]

(* Authentication and access: a deleted account is refused here only.      *)
Authorise(c) ==
    /\ request[c].phase = "idle"
    /\ account = "live"
    /\ request' = [request EXCEPT ![c].phase = "authorised", ![c].since = clock]
    /\ answer' = NoAnswer
    /\ UNCHANGED <<hooks, records, account, victims, issued, clock>>

(* A request ends without success: refused, failed, or its process died.   *)
GiveUp(c) ==
    /\ request[c].phase # "idle"
    /\ request' = [request EXCEPT ![c] = Idle]
    /\ answer' = NoAnswer
    /\ UNCHANGED <<hooks, records, account, victims, issued, clock>>

(* Update, deletion and rotation read the hook before their transaction.   *)
GetHook(c, h) ==
    /\ request[c].phase = "authorised"
    /\ h \in Usable
    /\ request' = [request EXCEPT ![c] =
           [phase |-> "read", hook |-> h, asymmetric |-> hooks[h].asymmetric,
            secret |-> hooks[h].secret, since |-> clock]]
    /\ answer' = NoAnswer
    /\ UNCHANGED <<hooks, records, account, victims, issued, clock>>

(* Mutant: a replayed secret may be one that was replaced since.           *)
AnswersSecretAnyway(r) == r.resource \in Usable
(* A replay of a secret needs the hook, with that very secret.             *)
AnswersSecret(r) == r.resource \in Usable /\ hooks[r.resource].secret = r.secret

(* The default hook is the one for the Silicon's own Accounts events; a    *)
(* unique index allows one of them.                                        *)
CreateHook(c, k, body, default) ==
    LET scope == Scope(IF default THEN "connect" ELSE "create", NoHook, k)
        secret == IF body = "public_key" THEN NoSecret ELSE issued + 1
    IN  /\ request[c].phase = "authorised"
        /\ \E at \in Stamps(c) :
           \/ \E r \in Held(scope, at) :
                 /\ Replays(r, body, at) /\ AnswersSecret(r)
                 /\ Reply(c, "create", r.resource, r.secret)
                 /\ UNCHANGED <<hooks, records, issued>>
           \/ /\ Held(scope, at) = {}
              /\ Cardinality(Retained(at)) < Limit
              /\ default => ~ \E d \in Stored : hooks[d].default
              /\ secret <= MaxSecret
              /\ \E h \in Hooks :
                    /\ hooks[h].status = "unused"
                    /\ hooks' = [hooks EXCEPT ![h] =
                          [status |-> "active", asymmetric |-> (body = "public_key"),
                           secret |-> secret, created |-> at, since |-> 0,
                           default |-> default, cause |-> k]]
                    /\ Reserve(scope, body, h, secret, at)
                    /\ Reply(c, "create", h, secret)
              /\ issued' = IF secret = NoSecret THEN issued ELSE secret
        /\ UNCHANGED <<account, victims, clock>>

(* What a patch of the signing policy becomes, given the row that was read *)
(* before: members it does not name keep the values read.                  *)
Patches == {"metadata", "config", "secret", "asymmetric", "symmetric"}
Applies(patch, read) == patch = "secret" => ~read.asymmetric
SigningPolicy(patch, read) ==
    CASE patch = "config" -> [asymmetric |-> read.asymmetric, secret |-> read.secret]
      [] patch = "secret" -> [asymmetric |-> FALSE, secret |-> issued + 1]
      [] patch = "asymmetric" -> [asymmetric |-> TRUE, secret |-> NoSecret]
      [] patch = "symmetric" -> [asymmetric |-> FALSE, secret |-> read.secret]

(* The transaction of an update: the policy is replaced as a whole.        *)
UpdateHook(c, patch) ==
    LET h == request[c].hook
        policy == IF patch = "metadata"
                  THEN [asymmetric |-> hooks[h].asymmetric, secret |-> hooks[h].secret]
                  ELSE SigningPolicy(patch, request[c])
    IN  /\ request[c].phase \in {"read", "activated"}
        /\ Applies(patch, request[c])
        /\ h \in Usable
        /\ \E at \in Stamps(c) : at >= hooks[h].created
        /\ policy.secret <= MaxSecret
        /\ hooks' = [hooks EXCEPT ![h].asymmetric = policy.asymmetric,
                                  ![h].secret = policy.secret]
        /\ issued' = IF policy.secret > issued THEN policy.secret ELSE issued
        /\ request' = [request EXCEPT ![c] = Idle]
        /\ answer' = NoAnswer
        /\ UNCHANGED <<records, account, victims, clock>>

(* A batch is enabled or disabled as a whole; hooks already there stay as  *)
(* they are.                                                               *)
Activates(H, enabled, at) ==
    /\ H \subseteq Usable
    /\ \A h \in H :
          IF enabled THEN hooks[h].status = "disabled" => at >= hooks[h].since
                     ELSE hooks[h].status = "active" => at >= hooks[h].created
Activated(h, enabled, at) ==
    CASE enabled /\ hooks[h].status = "disabled" ->
            [hooks[h] EXCEPT !.status = "active", !.since = 0]
      [] ~enabled /\ hooks[h].status = "active" ->
            [hooks[h] EXCEPT !.status = "disabled", !.since = at]
      [] OTHER -> hooks[h]

(* On its own, or as the first of the two transactions of an update.       *)
SetHooksEnabled(c, H, enabled) ==
    /\ \/ /\ request[c].phase = "authorised"
          /\ request' = [request EXCEPT ![c] = Idle]
       \/ /\ request[c].phase = "read" /\ H = {request[c].hook}
          /\ request' = [request EXCEPT ![c].phase = "activated"]
    /\ \E at \in Stamps(c) :
          /\ Activates(H, enabled, at)
          /\ hooks' = [h \in Hooks |->
                IF h \in H THEN Activated(h, enabled, at) ELSE hooks[h]]
    /\ answer' = NoAnswer
    /\ UNCHANGED <<records, account, victims, issued, clock>>

(* Hook::delete: the time may not precede creation or disabling.           *)
Deletes(h, at) ==
    /\ h \in Usable
    /\ at >= hooks[h].created
    /\ hooks[h].status = "disabled" => at >= hooks[h].since

(* A hook already deleted, and any conflict, are answered as success.      *)
DeleteHook(c, h) ==
    /\ \/ /\ request[c].phase = "authorised"
          /\ h \in Stored \ Usable
          /\ UNCHANGED hooks
       \/ /\ request[c].phase = "read" /\ request[c].hook = h
          /\ h \in Stored
          /\ \E at \in Stamps(c) :
                hooks' = IF Deletes(h, at)
                         THEN [hooks EXCEPT ![h].status = "deleted", ![h].since = at]
                         ELSE hooks
    /\ Reply(c, "delete", h, NoSecret)
    /\ UNCHANGED <<records, account, victims, issued, clock>>

(* Hook::restore.                                                          *)
Restores(h, at) ==
    /\ h \in Stored \ Usable
    /\ hooks[h].since <= at /\ at <= hooks[h].since + Recovery

RestoreHook(c, h, k) ==
    LET scope == Scope("restore", h, k)
    IN  /\ request[c].phase = "authorised"
        /\ h \in Stored
        /\ \E at \in Stamps(c) :
           \/ /\ \E r \in Held(scope, at) : Replays(r, "empty", at)
              /\ h \in Usable
              /\ UNCHANGED <<hooks, records>>
           \/ /\ Held(scope, at) = {}
              /\ Restores(h, at)
              /\ hooks' = [hooks EXCEPT ![h].status = "active", ![h].since = 0]
              /\ Reserve(scope, "empty", h, NoSecret, at)
        /\ Reply(c, "restore", h, NoSecret)
        /\ UNCHANGED <<account, victims, issued, clock>>

(* The row read before decides whether the policy has a secret to rotate.  *)
RotateHookSecret(c, k) ==
    LET h == request[c].hook
        scope == Scope("rotate", h, k)
    IN  /\ request[c].phase = "read"
        /\ ~request[c].asymmetric
        /\ \E at \in Stamps(c) :
           \/ \E r \in Held(scope, at) :
                 /\ Replays(r, "empty", at) /\ AnswersSecret(r)
                 /\ Reply(c, "rotate", h, r.secret)
                 /\ UNCHANGED <<hooks, records, issued>>
           \/ /\ Held(scope, at) = {}
              /\ h \in Usable
              /\ at >= hooks[h].created
              /\ issued < MaxSecret
              /\ issued' = issued + 1
              /\ hooks' = [hooks EXCEPT ![h].secret = issued + 1]
              /\ Reserve(scope, "empty", h, issued + 1, at)
              /\ Reply(c, "rotate", h, issued + 1)
        /\ UNCHANGED <<account, victims, clock>>

(* The Silicon's Accounts hook is restored, returned or created.           *)
PrepareAccountsHook(c, k) ==
    \/ \E h \in Stored \ Usable : hooks[h].default /\ RestoreHook(c, h, k)
    \/ CreateHook(c, k, "accounts", TRUE)

----------------------------------------------------------------------------
(* Silicon Accounts, the worker and time.                                  *)

(* A lookup that finds the account deleted only marks the account.         *)
LookupFindsDeleted ==
    /\ account = "live"
    /\ account' = "noticed"
    /\ answer' = NoAnswer
    /\ UNCHANGED <<hooks, records, request, victims, issued, clock>>

(* account.deleted: every hook is deleted at the database's time.  The row *)
(* constraint on updated_at fails the event while a hook's creation still  *)
(* lies ahead.                                                             *)
AccountDeleted ==
    /\ account # "deleted"
    /\ \A h \in Usable : hooks[h].created <= clock
    /\ account' = "deleted"
    /\ hooks' = [h \in Hooks |->
          IF h \in Usable THEN [hooks[h] EXCEPT !.status = "deleted", !.since = clock]
                          ELSE hooks[h]]
    /\ answer' = NoAnswer
    /\ UNCHANGED <<records, request, victims, issued, clock>>

Expired == {h \in Stored \ Usable : hooks[h].since < clock - Recovery}

(* One DELETE: it selects its victims, then removes those rows by id,      *)
(* waiting for whoever has them locked.                                    *)
SelectExpiredHooks ==
    /\ victims = {}
    /\ Expired # {}
    /\ victims' = Expired
    /\ answer' = NoAnswer
    /\ UNCHANGED <<hooks, records, account, request, issued, clock>>

PurgeHooks ==
    /\ victims # {}
    /\ hooks' = [h \in Hooks |->
          IF h \in victims THEN [EmptyRow EXCEPT !.status = "purged"] ELSE hooks[h]]
    /\ victims' = {}
    /\ answer' = NoAnswer
    /\ UNCHANGED <<records, account, request, issued, clock>>

PurgeIdempotency ==
    /\ \E r \in records : r.expires <= clock
    /\ records' = {r \in records : r.expires > clock}
    /\ answer' = NoAnswer
    /\ UNCHANGED <<hooks, account, request, victims, issued, clock>>

Tick ==
    /\ clock < MaxClock
    /\ clock' = clock + 1
    /\ answer' = NoAnswer
    /\ UNCHANGED <<hooks, records, account, request, victims, issued>>

Manage(c) ==
    \/ Authorise(c)
    \/ GiveUp(c)
    \/ \E h \in Hooks : GetHook(c, h)
    \/ \E k \in Keys, body \in {"hmac", "public_key"} : CreateHook(c, k, body, FALSE)
    \/ \E patch \in Patches : UpdateHook(c, patch)
    \/ \E H \in SUBSET Hooks \ {{}}, e \in BOOLEAN : SetHooksEnabled(c, H, e)
    \/ \E h \in Hooks : DeleteHook(c, h)
    \/ \E h \in Hooks, k \in Keys : RestoreHook(c, h, k)
    \/ \E k \in Keys : RotateHookSecret(c, k)
    \/ \E k \in Keys : PrepareAccountsHook(c, k)

Step ==
    \/ \E c \in Clients : Manage(c)
    \/ LookupFindsDeleted
    \/ AccountDeleted
    \/ SelectExpiredHooks
    \/ PurgeHooks
    \/ PurgeIdempotency
    \/ Tick

(* Restorations that took back a hook whose slot may be another's.         *)
RestoredLate ==
    {h \in Stored \ Usable : h \in Usable' /\ hooks[h].since < clock + Ahead - Recovery}

Next == Step /\ overdue' = overdue \cup RestoredLate

Spec == Init /\ [][Next]_vars

----------------------------------------------------------------------------
(* Properties.                                                             *)

(* The types of the rows, records and requests; a primary key has one row. *)
TypeOK ==
    /\ hooks \in [Hooks -> Row]
    /\ records \subseteq Record
    /\ \A r, s \in records : InScope(r, s) => r = s
    /\ account \in {"live", "noticed", "deleted"}
    /\ request \in [Clients -> Request]
    /\ answer \in Answers
    /\ victims \subseteq Hooks
    /\ issued \in 0 .. MaxSecret
    /\ clock \in 0 .. MaxClock
    /\ overdue \subseteq Hooks

(* Repeating a creation with its key makes no second hook, whatever became *)
(* of the answer, until the record has lapsed: two hooks with the same     *)
(* cause were created a record's life apart, less the age that a carried   *)
(* time may have.                                                          *)
NoDuplicateCreation ==
    \A g, h \in Stored :
        (g # h /\ hooks[g].cause = hooks[h].cause /\ hooks[g].default = hooks[h].default)
        => \/ hooks[g].created - hooks[h].created >= KeyLife - Lag
           \/ hooks[h].created - hooks[g].created >= KeyLife - Lag

(* A secret told to a client, at once or as a replay, is the one that      *)
(* verifies the hook's requests at that moment.                            *)
ToldSecretVerifies ==
    answer.op \in {"create", "rotate"} =>
        /\ answer.hook \in Usable
        /\ hooks[answer.hook].secret = answer.secret

(* However the clocks of requests differ, the Silicon never keeps more     *)
(* hooks than its limit, recoverable deleted ones included, although a     *)
(* restoration reserves no slot: nothing but hooks that were restored when *)
(* they no longer counted comes on top.                                    *)
RetainedLimit == Cardinality(Retained(clock + Ahead) \ overdue) <= Limit

(* A record that can still be replayed names a hook that still exists,     *)
(* since it is purged long after: unless the hook was restored so late     *)
(* that a purge may already have selected it.                              *)
ReplayableHookExists ==
    \A r \in records : r.expires > clock - Lag => r.resource \in Stored \cup overdue

(* A deletion answered with success leaves the hook deleted: "Its endpoint *)
(* stops accepting requests at once".  Refuted: the conflict with a        *)
(* disabling that committed a later time is answered as success.           *)
DeletionIsEffective == answer.op = "delete" => answer.hook \notin Usable

(* "The worker purges deleted hooks after 45 days": what it removes is     *)
(* deleted, and for that long.  Refuted: the hook may have been restored   *)
(* after the statement selected it.                                        *)
PurgeTakesDeletedHooks ==
    [][\A h \in Hooks :
          hooks[h].status # "purged" /\ hooks'[h].status = "purged" => h \in Expired]_vars

(* A secret that was replaced never verifies requests again: the hook's    *)
(* secret only ever moves to a newly encrypted one, or to none.  Refuted:  *)
(* an update writes back the secret of the row it read.                    *)
ReplacedSecretIsDead ==
    [][\A h \in Hooks : hooks'[h].secret # hooks[h].secret =>
           hooks'[h].secret \notin 1 .. issued]_vars
=============================================================================
