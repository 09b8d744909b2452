------------------------------- MODULE Ingress -------------------------------
(***************************************************************************)
(* Public ingress of silicon-hook: one provider request goes through       *)
(* receive_request (application/ingress.rs) as a chain of independent      *)
(* database statements:                                                    *)
(*                                                                         *)
(*   Receive           resolve_endpoint's first query: a snapshot of the   *)
(*                     hook together with the database's time              *)
(*   FindRetired       its second query, when no live key matched          *)
(*   CheckIpBlock      check_ip_block reads the address's row              *)
(*   CountRejection    check_ip_block counts the request it refuses        *)
(*   AcceptEvent       the acceptance transaction                          *)
(*   RecordUnverified  the strike transaction                              *)
(*   RecordBlocked     the blocked log's transaction                       *)
(*   Abandon           the handler is dropped: timeout, disconnection,     *)
(*                     crash, database failure                             *)
(*                                                                         *)
(* Between two of them other requests, the management operations on the    *)
(* same hook and the maintenance worker may run.  Everything a request     *)
(* decides with after Receive is the snapshot it read there.  A hook's     *)
(* signing policy is a version number; a request is signed under one       *)
(* version or under none.                                                  *)
(***************************************************************************)
EXTENDS Naturals, FiniteSets

CONSTANTS
    Hooks,          \* the hooks of one Silicon
    Addresses,      \* client addresses
    Requests,       \* concurrent handlers
    Optional,       \* the policy versions that do not require a signature
    Threshold,      \* UNVERIFIED_REQUESTS_PER_BLOCK
    BlockTime,      \* BLOCK_DURATION
    StaleAfter,     \* STALE_IP_BLOCK_DAYS
    RequestTime,    \* the server's request timeout
    MaxClock, MaxPolicy, MaxKey, MaxEvents      \* bounds of the model

ASSUME IngressAssumption ==
    /\ {Threshold, BlockTime, MaxClock, MaxPolicy, MaxKey} \subseteq Nat \ {0}
    /\ {StaleAfter, RequestTime, MaxEvents} \subseteq Nat
    /\ Hooks # {} /\ Addresses # {}

\* A block lasts a day, a request at most two minutes.
ASSUME BlockAssumption == BlockTime > 2 * RequestTime

VARIABLES
    hooks,      \* rows of hook.hooks
    retired,    \* rows of hook_private.retired_endpoint_keys
    owner,      \* hook_private.accounts.deleted_at of the Silicon
    blocks,     \* rows of hook_private.ip_blocks
    events,     \* rows of hook.events, each with its Ting outbox row
    sequence,   \* hook_private.delivery_sequences.last_sequence
    withheld,   \* whether hook.blocked_requests has a row of the hook
    request,    \* the handlers in flight
    stale,      \* the ip_blocks rows a running purge has selected
    clock,      \* the database's clock
    replaced    \* history: when each policy version was replaced

vars == <<hooks, retired, owner, blocks, events, sequence, withheld, request,
          stale, clock, replaced>>

Policies == 1..MaxPolicy
Keys == 1..MaxKey
Times == 0..(MaxClock + BlockTime)
Unsigned == 0
NotYet == MaxClock + 1
Status == {"active", "disabled", "deleted", "purged"}

\* A row of hook.hooks, as far as ingress reads it.
HookRow == [status : Status, key : Keys, policy : Policies]

\* A row of hook_private.ip_blocks; until = 0 is a NULL blocked_until.
NoRow == [strikes |-> 0, until |-> 0, updated |-> 0]
BlockRow == [strikes : 0..(Threshold - 1), until : Times, updated : 0..MaxClock]

\* A handler between two statements, with the snapshot it decides on.
Stage == {"idle", "unrouted", "routed", "rejecting", "admitted", "struck"}
Answer == {"none", "ok", "ip_blocked", "endpoint_retired", "account_deleted",
           "inactive", "unknown", "internal"}
Handler == [at : 0..MaxClock, hook : Hooks, key : Keys, address : Addresses,
            signed : Policies \cup {Unsigned}, policy : Policies,
            stage : Stage, answer : Answer, barred : Times]

\* A handler that has answered, and forgotten the request.
Waiting == [at |-> 0, hook |-> CHOOSE h \in Hooks : TRUE, key |-> 1,
            address |-> CHOOSE a \in Addresses : TRUE, signed |-> Unsigned,
            policy |-> 1, stage |-> "idle", answer |-> "none",
            barred |-> 0]

\* A row of hook.events.
Event == [seq : 1..MaxEvents, hook : Hooks, at : 0..MaxClock,
          signed : Policies \cup {Unsigned}]

TypeOK ==
    /\ hooks \in [Hooks -> HookRow]
    /\ retired \subseteq Hooks \X Keys
    /\ owner \in {"present", "deleted"}
    /\ blocks \in [Hooks -> [Addresses -> BlockRow]]
    /\ events \subseteq Event
    /\ sequence \in 0..MaxEvents
    /\ withheld \subseteq Hooks
    /\ request \in [Requests -> Handler]
    /\ stale \subseteq Hooks \X Addresses
    /\ clock \in 1..MaxClock
    /\ replaced \in [Hooks -> [Policies -> 1..NotYet]]

Init ==
    /\ hooks = [h \in Hooks |-> [status |-> "active", key |-> 1, policy |-> 1]]
    /\ retired = {}
    /\ owner = "present"
    /\ blocks = [h \in Hooks |-> [a \in Addresses |-> NoRow]]
    /\ events = {}
    /\ sequence = 0
    /\ withheld = {}
    /\ request = [r \in Requests |-> Waiting]
    /\ stale = {}
    /\ clock = 1
    /\ replaced = [h \in Hooks |-> [v \in Policies |-> NotYet]]

-----------------------------------------------------------------------------
(* The decisions of the handler.                                           *)

\* IpBlockState::check at the instant the request carries.
BlockedAt(row, now) == now < row.until

\* As Verifies, with a grace for the secret that was replaced last.
VerifiesPrevious(policy, signed) ==
    policy \in Optional \/ signed \in {policy, policy - 1}

\* receive_request accepts: the snapshot's policy asks for no signature, or
\* the signature was made under that policy.
Verifies(policy, signed) == policy \in Optional \/ signed = policy

\* As Struck, clearing a block that has not expired.
StruckClearing(row, now) ==
    IF row.strikes + 1 < Threshold
    THEN [strikes |-> row.strikes + 1, until |-> 0, updated |-> now]
    ELSE [strikes |-> 0, until |-> now + BlockTime, updated |-> now]

\* As Struck, blocking one request too late.
StruckLate(row, now) ==
    IF row.strikes < Threshold
    THEN [row EXCEPT !.strikes = @ + 1, !.updated = now]
    ELSE [strikes |-> 0, until |-> now + BlockTime, updated |-> now]

\* IpBlockState::record_unverified, and the UPDATE that stores its result.
Struck(row, now) ==
    LET open == IF row.until # 0 /\ now >= row.until THEN 0 ELSE row.until IN
    IF row.strikes + 1 < Threshold
    THEN [strikes |-> row.strikes + 1, until |-> open, updated |-> now]
    ELSE [strikes |-> 0, until |-> now + BlockTime, updated |-> now]

\* As NextSequence, counting the retained events instead.
NextSequenceCounted == Cardinality(events) + 1

\* The position the sequence counter hands to the next event.
NextSequence == sequence + 1

Advance(r, stage) == request' = [request EXCEPT ![r].stage = stage]

\* The handler answers; only the URL it answered about is kept, as history.
Answered(p, answer) ==
    [Waiting EXCEPT !.hook = p.hook, !.key = p.key, !.answer = answer]

Finish(r, answer) == request' = [request EXCEPT ![r] = Answered(@, answer)]

-----------------------------------------------------------------------------
(* One request.                                                            *)

\* resolve_endpoint's first query.  The request names a URL Hook has issued.
\* barred is history: the end of the address's block, if one is in force.
Receive(r, h, k, a, signed) ==
    LET row == hooks[h]
        live == row.status # "purged" /\ row.key = k
        arrived == [at |-> clock, hook |-> h, key |-> k, address |-> a,
                    signed |-> signed, policy |-> row.policy,
                    stage |-> IF live THEN "routed" ELSE "unrouted",
                    answer |-> "none",
                    barred |-> IF clock < blocks[h][a].until
                               THEN blocks[h][a].until ELSE 0]
    IN
    /\ request[r].stage = "idle"
    /\ k <= row.key /\ signed <= row.policy
    /\ request' = [request EXCEPT ![r] =
         CASE live /\ owner = "deleted" -> Answered(arrived, "account_deleted")
           [] live /\ owner # "deleted" /\ row.status # "active" ->
                Answered(arrived, "inactive")
           [] OTHER -> arrived]
    /\ UNCHANGED <<hooks, retired, owner, blocks, events, sequence, withheld,
                   stale, clock, replaced>>

\* resolve_endpoint's second query.
FindRetired(r) ==
    /\ request[r].stage = "unrouted"
    /\ Finish(r, IF <<request[r].hook, request[r].key>> \in retired
                 THEN "endpoint_retired" ELSE "unknown")
    /\ UNCHANGED <<hooks, retired, owner, blocks, events, sequence, withheld,
                   stale, clock, replaced>>

CheckIpBlock(r) ==
    LET p == request[r] IN
    /\ p.stage = "routed"
    /\ Advance(r, IF BlockedAt(blocks[p.hook][p.address], p.at)
                  THEN "rejecting" ELSE "admitted")
    /\ UNCHANGED <<hooks, retired, owner, blocks, events, sequence, withheld,
                   stale, clock, replaced>>

\* The rejection is counted in a statement of its own, with the time the
\* request carries; a row purged in between is left absent.
CountRejection(r) ==
    LET p == request[r] IN
    /\ p.stage = "rejecting"
    /\ blocks' = IF blocks[p.hook][p.address] = NoRow THEN blocks
                 ELSE [blocks EXCEPT ![p.hook][p.address].updated = p.at]
    /\ Finish(r, "ip_blocked")
    /\ UNCHANGED <<hooks, retired, owner, events, sequence, withheld, stale,
                   clock, replaced>>

\* accept and accept_event: one transaction that locks the hook's row, checks
\* that it is still active, takes a position and inserts the event with its
\* outbox row.
AcceptEvent(r) ==
    LET p == request[r] IN
    /\ p.stage = "admitted"
    /\ Verifies(p.policy, p.signed)
    /\ \/ /\ hooks[p.hook].status = "active"
          /\ sequence < MaxEvents
          /\ sequence' = NextSequence
          /\ events' = events \cup {[seq |-> NextSequence, hook |-> p.hook,
                                     at |-> p.at, signed |-> p.signed]}
          /\ Finish(r, "ok")
       \/ /\ hooks[p.hook].status # "active"
          /\ Finish(r, "inactive")
          /\ UNCHANGED <<events, sequence>>
    /\ UNCHANGED <<hooks, retired, owner, blocks, withheld, stale, clock,
                   replaced>>

\* block, first half: the strike.  It does not look at the hook's status, but
\* the row it inserts refers to the hook.
RecordUnverified(r) ==
    LET p == request[r] IN
    /\ p.stage = "admitted"
    /\ ~Verifies(p.policy, p.signed)
    /\ \/ /\ hooks[p.hook].status # "purged"
          /\ blocks' = [blocks EXCEPT ![p.hook][p.address] = Struck(@, p.at)]
          /\ Advance(r, "struck")
       \/ /\ hooks[p.hook].status = "purged"
          /\ Finish(r, "internal")
          /\ UNCHANGED blocks
    /\ UNCHANGED <<hooks, retired, owner, events, sequence, withheld, stale,
                   clock, replaced>>

\* block, second half: the blocked log, for an active hook only.
RecordBlocked(r) ==
    LET p == request[r] IN
    /\ p.stage = "struck"
    /\ \/ /\ hooks[p.hook].status = "active"
          /\ withheld' = withheld \cup {p.hook}
          /\ Finish(r, "ok")
       \/ /\ hooks[p.hook].status # "active"
          /\ Finish(r, "inactive")
          /\ UNCHANGED withheld
    /\ UNCHANGED <<hooks, retired, owner, blocks, events, sequence, stale,
                   clock, replaced>>

\* The handler's future is dropped between two statements.
Abandon(r) ==
    /\ request[r].stage # "idle"
    /\ Finish(r, "none")
    /\ UNCHANGED <<hooks, retired, owner, blocks, events, sequence, withheld,
                   stale, clock, replaced>>

-----------------------------------------------------------------------------
(* Management of the hook, as far as ingress can see it.                   *)

\* rotate_hook_secret and update_hook put a new policy in force.
ReplacePolicy(h) ==
    /\ hooks[h].status \in {"active", "disabled"}
    /\ hooks[h].policy < MaxPolicy
    /\ replaced' = [replaced EXCEPT ![h][hooks[h].policy] = clock]
    /\ hooks' = [hooks EXCEPT ![h].policy = @ + 1]
    /\ UNCHANGED <<retired, owner, blocks, events, sequence, withheld, request,
                   stale, clock>>

\* rotate_hook_endpoint: the new key and the retirement commit together.
RotateEndpoint(h) ==
    /\ hooks[h].status \in {"active", "disabled"}
    /\ hooks[h].key < MaxKey
    /\ hooks' = [hooks EXCEPT ![h].key = @ + 1]
    /\ retired' = retired \cup {<<h, hooks[h].key>>}
    /\ UNCHANGED <<owner, blocks, events, sequence, withheld, request, stale,
                   clock, replaced>>

\* Enabling, disabling, deleting and restoring.
SetStatus(h, status) ==
    /\ <<hooks[h].status, status>> \in
         {<<"active", "disabled">>, <<"disabled", "active">>,
          <<"active", "deleted">>, <<"disabled", "deleted">>,
          <<"deleted", "active">>}
    /\ hooks' = [hooks EXCEPT ![h].status = status]
    /\ UNCHANGED <<retired, owner, blocks, events, sequence, withheld, request,
                   stale, clock, replaced>>

\* The account.deleted event.
AccountDeleted ==
    /\ owner = "present"
    /\ owner' = "deleted"
    /\ hooks' = [h \in Hooks |->
         IF hooks[h].status = "purged" THEN hooks[h]
         ELSE [hooks[h] EXCEPT !.status = "deleted"]]
    /\ UNCHANGED <<retired, blocks, events, sequence, withheld, request, stale,
                   clock, replaced>>

\* As PurgeHook, with a cascade that reaches the retired keys.
PurgeHookAndKeys(h) ==
    /\ hooks[h].status = "deleted"
    /\ hooks' = [hooks EXCEPT ![h].status = "purged"]
    /\ events' = {e \in events : e.hook # h}
    /\ withheld' = withheld \ {h}
    /\ blocks' = [blocks EXCEPT ![h] = [a \in Addresses |-> NoRow]]
    /\ retired' = {hk \in retired : hk[1] # h}
    /\ UNCHANGED <<owner, sequence, request, stale, clock, replaced>>

\* The purge of a hook takes the rows that refer to it; its retired keys
\* refer to nothing and stay.  A purge that selected the hook before it was
\* restored can meet a request in flight (see HookLifecycle), so the purge
\* does not wait for handlers.
PurgeHook(h) ==
    /\ hooks[h].status = "deleted"
    /\ hooks' = [hooks EXCEPT ![h].status = "purged"]
    /\ events' = {e \in events : e.hook # h}
    /\ withheld' = withheld \ {h}
    /\ blocks' = [blocks EXCEPT ![h] = [a \in Addresses |-> NoRow]]
    /\ UNCHANGED <<retired, owner, sequence, request, stale, clock, replaced>>

\* PURGE_STALE_IP_BLOCKS_SQL: the statement's snapshot chooses its victims ...
SelectStaleBlocks ==
    /\ stale = {}
    /\ stale' = {ha \in Hooks \X Addresses :
         LET row == blocks[ha[1]][ha[2]] IN
         /\ row # NoRow
         /\ row.until <= clock
         /\ row.updated + StaleAfter < clock}
    /\ stale' # {}
    /\ UNCHANGED <<hooks, retired, owner, blocks, events, sequence, withheld,
                   request, clock, replaced>>

\* ... and then deletes them by their key, without looking at them again.
PurgeStaleBlocks ==
    /\ stale # {}
    /\ blocks' = [h \in Hooks |-> [a \in Addresses |->
         IF <<h, a>> \in stale THEN NoRow ELSE blocks[h][a]]]
    /\ stale' = {}
    /\ UNCHANGED <<hooks, retired, owner, events, sequence, withheld, request,
                   clock, replaced>>

\* Time passes; no handler outlives the server's request timeout.
Tick ==
    /\ clock < MaxClock
    /\ \A r \in Requests :
         request[r].stage # "idle"
            => clock + 1 <= request[r].at + RequestTime
    /\ clock' = clock + 1
    /\ UNCHANGED <<hooks, retired, owner, blocks, events, sequence, withheld,
                   request, stale, replaced>>

Serve(r) ==
    \/ \E h \in Hooks, k \in Keys, a \in Addresses,
          signed \in Policies \cup {Unsigned} : Receive(r, h, k, a, signed)
    \/ FindRetired(r)
    \/ CheckIpBlock(r)
    \/ CountRejection(r)
    \/ AcceptEvent(r)
    \/ RecordUnverified(r)
    \/ RecordBlocked(r)
    \/ Abandon(r)

Manage(h) ==
    \/ ReplacePolicy(h)
    \/ RotateEndpoint(h)
    \/ \E status \in Status : SetStatus(h, status)
    \/ PurgeHook(h)

Next ==
    \/ \E r \in Requests : Serve(r)
    \/ \E h \in Hooks : Manage(h)
    \/ AccountDeleted
    \/ SelectStaleBlocks
    \/ PurgeStaleBlocks
    \/ Tick

Spec == Init /\ [][Next]_vars
-----------------------------------------------------------------------------
(* Properties.                                                             *)

\* The versions in force at some moment of time t, for a policy that has come
\* to version current and whose versions ended at the times ended.
InForce(current, ended, t) ==
    {v \in 1..current : (v = 1 \/ ended[v - 1] <= t) /\ t <= ended[v]}

\* accept_event: every stored event verifies under a policy that was in force
\* at the instant the event says it was received, however many rotations and
\* updates ran while the request was in flight.
AuthenticWhenReceived ==
    \A e \in events :
        \E v \in InForce(hooks[e.hook].policy, replaced[e.hook], e.at) :
            v \in Optional \/ e.signed = v

\* accept_event: the Silicon's events have distinct positions with no gap, in
\* spite of acceptances that fail half way and of handlers that are dropped;
\* only a purged hook leaves gaps.
SequenceIsDense ==
    /\ \A e, f \in events : e.seq = f.seq => e = f
    /\ \A e \in events : e.seq <= sequence
    /\ \A n \in 1..sequence :
         (\A h \in Hooks : hooks[h].status # "purged")
            => \E e \in events : e.seq = n

\* check_ip_block: a request that arrived during a block of its address is not
\* let through before that block's end, whatever the requests in flight at the
\* time do to the address's row meanwhile.
BlockedIsRejected ==
    [][\A r \in Requests :
          /\ request[r].stage = "routed" /\ request'[r].stage = "admitted"
          /\ hooks[request[r].hook].status # "purged"
          => clock >= request[r].barred]_vars

\* resolve_endpoint: its two queries are not one snapshot, yet a URL that Hook
\* issued is answered 404 unknown only when its hook was purged, and then for
\* the hook's last key only: the keys it had before stay retired for ever.
IssuedKeyIsKnown ==
    \A r \in Requests :
        request[r].answer = "unknown"
            => /\ hooks[request[r].hook].status = "purged"
               /\ request[r].key >= hooks[request[r].hook].key

-----------------------------------------------------------------------------
(* What makes the properties inductive.                                    *)

\* Every key a hook had before its present one is retired.
EarlierKeysAreRetired ==
    \A h \in Hooks : \A k \in Keys : k < hooks[h].key => <<h, k>> \in retired

\* A request whose first query found nothing is for a key that is retired, or
\* for a hook that is gone.
UnroutedIsGone ==
    \A r \in Requests :
        request[r].stage = "unrouted"
            => \/ hooks[request[r].hook].status = "purged"
               \/ <<request[r].hook, request[r].key>> \in retired

\* A request answered as unknown was for a hook that is gone, with a key that
\* is not retired.
UnknownIsGone ==
    \A r \in Requests :
        request[r].answer = "unknown"
            => /\ hooks[request[r].hook].status = "purged"
               /\ <<request[r].hook, request[r].key>> \notin retired

\* A policy has been replaced exactly when it is not the present one.
PolicyHistory ==
    \A h \in Hooks : \A v \in Policies :
        IF v < hooks[h].policy THEN replaced[h][v] <= clock
                               ELSE replaced[h][v] = NotYet

\* Nothing was received in the future.
ReceivedInThePast ==
    /\ \A r \in Requests : request[r].at <= clock
    /\ \A e \in events : e.at <= clock

\* The snapshot a request decides on was in force when it arrived.
SnapshotWasInForce ==
    \A r \in Requests :
        request[r].stage \in {"routed", "rejecting", "admitted", "struck"}
            => request[r].policy \in InForce(hooks[request[r].hook].policy,
                                             replaced[request[r].hook],
                                             request[r].at)

\* No handler outlives the server's request timeout.
HandlersAreInTime ==
    \A r \in Requests :
        request[r].stage # "idle" => clock <= request[r].at + RequestTime

\* While a block lasts that was in force when a request arrived, the address's
\* row bars the request, if not with the same end then with one that the
\* request does not live to see.
BlockOutlastsRequest ==
    \A r \in Requests :
        LET p == request[r] IN
        /\ p.stage = "routed" /\ clock < p.barred
        /\ hooks[p.hook].status # "purged"
        => \/ blocks[p.hook][p.address].until >= p.barred
           \/ blocks[p.hook][p.address].until > p.at + RequestTime

\* A purge takes no row of an address that was blocked after the purge had
\* selected it: the condition under which blocks last.
PurgesOnlyLapsed ==
    PurgeStaleBlocks =>
        \A ha \in stale : blocks[ha[1]][ha[2]].until <= clock

IInv ==
    /\ TypeOK
    /\ SequenceIsDense
    /\ EarlierKeysAreRetired /\ UnroutedIsGone /\ UnknownIsGone
    /\ PolicyHistory /\ ReceivedInThePast /\ SnapshotWasInForce
    /\ AuthenticWhenReceived
=============================================================================
