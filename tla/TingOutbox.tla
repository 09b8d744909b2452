----------------------------- MODULE TingOutbox -----------------------------
(***************************************************************************)
(* The durable outbox of notifications to Ting and the publishers that     *)
(* drain it (src/src/infrastructure/postgres/ting.rs,                      *)
(* src/src/delivery/publisher.rs).                                         *)
(*                                                                         *)
(* A row of hook_private.ting_outbox is inserted in the transaction that   *)
(* accepts an event, one per recipient.  Every hook-api process runs one   *)
(* publisher: it leases a due row, checks the lease once more, asks for a  *)
(* proof and posts the row's bytes to Ting with no transaction open, and   *)
(* records the outcome only if its lease is still current.                 *)
(*                                                                         *)
(* Time is relative: a row keeps how long it is until its next attempt     *)
(* (dueIn) and until its lease lapses (leaseLeft), a publisher how long it *)
(* has been in its present step (spent); Tick moves all of them.  That     *)
(* keeps the state finite without bounding the length of a behaviour.      *)
(* The fourteen-day expiry of an event is far longer than any of these     *)
(* times, so it is an event of its own that may come at any moment.        *)
(***************************************************************************)
EXTENDS Integers, FiniteSets

CONSTANTS
    Sends,        \* rows of the outbox, one per (event, recipient)
    Observed,     \* the rows that are copies for an observer subscription
    Parked,       \* the rows migration 0019 parked as 'legacy_identity'
    Publishers,   \* one per hook-api process
    Leases,       \* lease ids (gen_random_uuid)
    NoLease, NoSend,
    LeaseTime,    \* 180 s: the lease of a claim
    SendTimeout,  \* 60 s: the timeout around TingAdapter.send
    CallTime,     \* 13 s: pool acquire (3 s) plus statement timeout (10 s)
    BaseDelay,    \* 2 s: the first delay of retry_delay
    MaxDelay,     \* 300 s: the longest delay of retry_delay
    MaxExponent,  \* 8: the most doublings of retry_delay
    AskedDelays   \* delays asked by Ting's Retry-After or by a proof pause

(***************************************************************************)
(* The lease must cover the check of the claim, the send and the recording *)
(* of its outcome.  With the defaults of src/src/config.rs: 13+60+13 < 180.*)
(***************************************************************************)
ASSUME OutboxAssumption ==
    /\ Observed \subseteq Sends /\ Parked \subseteq Sends
    /\ NoLease \notin Leases /\ NoSend \notin Sends
    /\ LeaseTime \in Nat /\ SendTimeout \in Nat /\ CallTime \in Nat
    /\ LeaseTime > CallTime + SendTimeout + CallTime
    /\ BaseDelay \in Nat /\ MaxDelay \in Nat /\ MaxExponent \in Nat
    /\ AskedDelays \subseteq Nat

VARIABLES
    status,     \* a row's life: none, queued, parked, accepted, gone
    expired,    \* whether the row's event is past expires_at
    attempts,   \* claims so far, saturating where retry_delay stops growing
    dueIn,      \* time left until next_attempt_at
    lease,      \* lease_id
    leaseLeft,  \* time left until lease_until
    earlier,    \* <<r, s>>: r comes before s in the index the claim reads
    pub,        \* the publishers
    wire,       \* requests sent to Ting that it may still receive
    stored      \* the notifications Ting holds, one per producer key

rowVars == <<status, expired, attempts, dueIn, lease, leaseLeft, earlier>>
vars == <<status, expired, attempts, dueIn, lease, leaseLeft, earlier,
          pub, wire, stored>>

-----------------------------------------------------------------------------
Idle == [pc |-> "idle", send |-> NoSend, lease |-> NoLease, spent |-> 0,
         delay |-> 0, retried |-> FALSE]

Working == {"claimed", "sending", "posted", "answered", "failed"}

Publisher ==
    [pc : Working \cup {"idle"}, send : Sends \cup {NoSend},
     lease : Leases \cup {NoLease}, spent : Nat, delay : Nat,
     retried : BOOLEAN]

TypeOK ==
    /\ status \in [Sends -> {"none", "queued", "parked", "accepted", "gone"}]
    /\ expired \in [Sends -> BOOLEAN]
    /\ attempts \in [Sends -> 0..(MaxExponent + 1)]
    /\ dueIn \in [Sends -> Nat]
    /\ lease \in [Sends -> Leases \cup {NoLease}]
    /\ leaseLeft \in [Sends -> Nat]
    /\ earlier \subseteq Sends \X Sends
    /\ pub \in [Publishers -> Publisher]
    /\ \A p \in Publishers : pub[p].pc \in Working => pub[p].send \in Sends
    /\ wire \subseteq Sends
    /\ stored \subseteq Sends

Init ==
    /\ status = [s \in Sends |-> IF s \in Parked THEN "parked" ELSE "none"]
    /\ expired = [s \in Sends |-> FALSE]
    /\ attempts = [s \in Sends |-> 0]
    /\ dueIn = [s \in Sends |-> 0]
    /\ lease = [s \in Sends |-> NoLease]
    /\ leaseLeft = [s \in Sends |-> 0]
    /\ earlier = {}
    /\ pub = [p \in Publishers |-> Idle]
    /\ wire = {}
    /\ stored = {}

-----------------------------------------------------------------------------
(* The row.                                                                *)

\* The pairs of the index without s (it holds unaccepted rows only).
Unindexed(s) == earlier \cap ((Sends \ {s}) \X (Sends \ {s}))

\* Mutant: the index ignores next_attempt_at and keeps the order of creation.
ReorderedByCreation(s, d) == Unindexed(s) \cup {pair \in earlier : s \in {pair[1], pair[2]}}

\* The index position of a row whose next_attempt_at becomes now + d.
Reordered(s, d) ==
    LET others == {r \in Sends \ {s} : status[r] = "queued"}
    IN  Unindexed(s)
          \cup {<<r, s>> : r \in {r \in others : dueIn[r] <= d}}
          \cup {<<s, r>> : r \in {r \in others : dueIn[r] > d}}

\* accept_event inserts the row with the event, due at once.
Enqueue(s) ==
    /\ status[s] = "none"
    /\ status' = [status EXCEPT ![s] = "queued"]
    /\ earlier' = Reordered(s, 0)
    /\ UNCHANGED <<expired, attempts, dueIn, lease, leaseLeft, pub, wire, stored>>

\* Mutant: the lease is not looked at.
DueWhileLeased(s) == status[s] = "queued" /\ ~expired[s] /\ dueIn[s] = 0

\* Mutant: the acceptance is not looked at.
DueWhenAccepted(s) ==
    status[s] \in {"queued", "accepted"} /\ ~expired[s] /\ dueIn[s] = 0 /\ leaseLeft[s] = 0

\* The rows "WITH due AS" selects in claim_ting.
Due(s) ==
    /\ status[s] = "queued"
    /\ ~expired[s]
    /\ dueIn[s] = 0
    /\ leaseLeft[s] = 0

\* The claim's condition in ting_claim_is_current, complete_ting and retry_ting.
Current(p) ==
    LET s == pub[p].send
    IN  /\ status[s] \in {"queued", "parked"}
        /\ lease[s] = pub[p].lease
        /\ leaseLeft[s] > 0
        /\ ~expired[s]

\* Lease ids somebody could still present; a random uuid is none of these.
HeldLeases == {pub[p].lease : p \in Publishers}

-----------------------------------------------------------------------------
(* The publisher: one action per await of publish_one.                     *)

\* claim_ting leases the first due row of the index.
Claim(p) ==
    /\ pub[p].pc = "idle"
    /\ \E s \in Sends, l \in Leases \ HeldLeases :
        /\ Due(s)
        /\ \A r \in Sends : Due(r) => <<r, s>> \notin earlier
        /\ lease' = [lease EXCEPT ![s] = l]
        /\ leaseLeft' = [leaseLeft EXCEPT ![s] = LeaseTime]
        /\ attempts' = [attempts EXCEPT ![s] =
                            IF @ <= MaxExponent THEN @ + 1 ELSE @]
        /\ pub' = [pub EXCEPT ![p] =
                      [Idle EXCEPT !.pc = "claimed", !.send = s,
                                   !.lease = l]]
    /\ UNCHANGED <<status, expired, dueIn, earlier, wire, stored>>

\* ting_claim_is_current answers yes and the send starts, or no and the
\* claim is dropped.
CheckClaim(p) ==
    /\ pub[p].pc = "claimed"
    /\ pub' = [pub EXCEPT ![p] =
                  IF Current(p) THEN [@ EXCEPT !.pc = "sending", !.spent = 0]
                                ELSE Idle]
    /\ UNCHANGED <<rowVars, wire, stored>>

\* TingAdapter.send has a proof and posts the persisted bytes.
Post(p) ==
    /\ pub[p].pc = "sending"
    /\ pub' = [pub EXCEPT ![p].pc = "posted"]
    /\ wire' = wire \cup {pub[p].send}
    /\ UNCHANGED <<rowVars, stored>>

\* Ting refused the proof: the adapter renews it once and posts again.
ProofRefused(p) ==
    /\ pub[p].pc = "posted"
    /\ ~pub[p].retried
    /\ pub' = [pub EXCEPT ![p] = [@ EXCEPT !.pc = "sending", !.retried = TRUE]]
    /\ UNCHANGED <<rowVars, wire, stored>>

\* Ting answered with its acceptance: the notification is stored there.
Accepted(p) ==
    /\ pub[p].pc = "posted"
    /\ pub[p].send \in stored
    /\ pub' = [pub EXCEPT ![p] = [@ EXCEPT !.pc = "answered", !.spent = 0]]
    /\ UNCHANGED <<rowVars, wire, stored>>

\* retry_delay: 2 s doubling with each attempt up to 300 s, or 300 s.
RetryDelay(n, transient) ==
    LET exponent == IF n = 0 THEN 0 ELSE n - 1
        delay == BaseDelay * 2 ^ exponent
    IN  IF transient /\ delay \in 0..MaxDelay THEN delay ELSE MaxDelay

\* The send failed and `delay` is how long publish_one will wait.
Fails(p, delay) ==
    /\ pub' = [pub EXCEPT ![p] = [@ EXCEPT !.pc = "failed", !.spent = 0,
                                           !.delay = delay]]
    /\ UNCHANGED <<rowVars, wire, stored>>

\* No proof from Silicon Accounts (Proof, ProofPaused), or an answer from
\* Ting that asks for a delay.
AskedToWait(p) ==
    /\ pub[p].pc \in {"sending", "posted"}
    /\ \E d \in AskedDelays : Fails(p, d)

\* A failed transport or a refusal from Ting.
SendFails(p) ==
    /\ pub[p].pc = "posted"
    /\ \E transient \in BOOLEAN :
           Fails(p, RetryDelay(attempts[pub[p].send], transient))

\* tokio::time::timeout around the whole send: its outcome is unknown.
TimesOut(p) ==
    /\ pub[p].pc \in {"sending", "posted"}
    /\ pub[p].spent = SendTimeout
    /\ Fails(p, RetryDelay(attempts[pub[p].send], TRUE))

\* Mutant: a stale claim is recorded like a current one.
CompleteStale(p) ==
    LET s == pub[p].send
    IN  /\ pub[p].pc = "answered"
        /\ status' = [status EXCEPT ![s] = "accepted"]
        /\ lease' = [lease EXCEPT ![s] = NoLease]
        /\ leaseLeft' = [leaseLeft EXCEPT ![s] = 0]
        /\ earlier' = Unindexed(s)
        /\ pub' = [pub EXCEPT ![p] = Idle]
        /\ UNCHANGED <<expired, attempts, dueIn, wire, stored>>

\* complete_ting: a stale claim changes nothing.
Complete(p) ==
    LET s == pub[p].send
    IN  /\ pub[p].pc = "answered"
        /\ IF Current(p)
           THEN /\ status' = [status EXCEPT ![s] = "accepted"]
                /\ lease' = [lease EXCEPT ![s] = NoLease]
                /\ leaseLeft' = [leaseLeft EXCEPT ![s] = 0]
                /\ earlier' = Unindexed(s)
           ELSE UNCHANGED <<status, lease, leaseLeft, earlier>>
        /\ pub' = [pub EXCEPT ![p] = Idle]
        /\ UNCHANGED <<expired, attempts, dueIn, wire, stored>>

\* retry_ting: a stale claim changes nothing.
Retry(p) ==
    LET s == pub[p].send
    IN  /\ pub[p].pc = "failed"
        /\ IF Current(p)
           THEN /\ dueIn' = [dueIn EXCEPT ![s] = pub[p].delay]
                /\ earlier' = Reordered(s, pub[p].delay)
                /\ lease' = [lease EXCEPT ![s] = NoLease]
                /\ leaseLeft' = [leaseLeft EXCEPT ![s] = 0]
           ELSE UNCHANGED <<dueIn, earlier, lease, leaseLeft>>
        /\ pub' = [pub EXCEPT ![p] = Idle]
        /\ UNCHANGED <<status, expired, attempts, wire, stored>>

\* Shutdown, crash, or a StoreError: the lease and any request stay behind.
Abandon(p) ==
    /\ pub[p].pc \in Working
    /\ pub' = [pub EXCEPT ![p] = Idle]
    /\ UNCHANGED <<rowVars, wire, stored>>

-----------------------------------------------------------------------------
(* Ting, retention and time.                                               *)

\* Ting stores a request; the stable producer key makes repeats one.
TingReceives(s) ==
    /\ s \in wire
    /\ wire' = wire \ {s}
    /\ stored' = stored \cup {s}
    /\ UNCHANGED <<rowVars, pub>>

Expire(s) ==
    /\ status[s] \in {"queued", "parked", "accepted"}
    /\ ~expired[s]
    /\ expired' = [expired EXCEPT ![s] = TRUE]
    /\ UNCHANGED <<status, attempts, dueIn, lease, leaseLeft, earlier,
                   pub, wire, stored>>

\* The purge of an expired event, or the end of an observer subscription,
\* deletes the row by cascade whatever its lease.
Remove(s) ==
    /\ status[s] \in {"queued", "parked", "accepted"}
    /\ expired[s] \/ s \in Observed
    /\ status' = [status EXCEPT ![s] = "gone"]
    /\ lease' = [lease EXCEPT ![s] = NoLease]
    /\ leaseLeft' = [leaseLeft EXCEPT ![s] = 0]
    /\ attempts' = [attempts EXCEPT ![s] = 0]
    /\ dueIn' = [dueIn EXCEPT ![s] = 0]
    /\ expired' = [expired EXCEPT ![s] = FALSE]
    /\ earlier' = Unindexed(s)
    /\ UNCHANGED <<pub, wire, stored>>

\* Mutant: no timeout around the send.
StepLimitNoTimeout(pc) ==
    IF pc \in {"sending", "posted"} THEN SendTimeout + LeaseTime ELSE CallTime

\* How long a publisher can stay in a step.
StepLimit(pc) == IF pc \in {"sending", "posted"} THEN SendTimeout ELSE CallTime

Countdown(f) == [s \in Sends |-> IF f[s] > 0 THEN f[s] - 1 ELSE 0]

Tick ==
    /\ \A p \in Publishers :
           pub[p].pc \in Working => pub[p].spent < StepLimit(pub[p].pc)
    /\ dueIn' = Countdown(dueIn)
    /\ leaseLeft' = Countdown(leaseLeft)
    /\ pub' = [p \in Publishers |->
                  IF pub[p].pc \in Working
                  THEN [pub[p] EXCEPT !.spent = @ + 1] ELSE pub[p]]
    /\ UNCHANGED <<status, expired, attempts, lease, earlier, wire, stored>>

-----------------------------------------------------------------------------
PublisherStep(p) ==
    \/ Claim(p) \/ CheckClaim(p) \/ Post(p) \/ ProofRefused(p) \/ Accepted(p)
    \/ AskedToWait(p) \/ SendFails(p) \/ TimesOut(p) \/ Complete(p) \/ Retry(p)
    \/ Abandon(p)

Next ==
    \/ \E p \in Publishers : PublisherStep(p)
    \/ \E s \in Sends : Enqueue(s) \/ TingReceives(s) \/ Expire(s) \/ Remove(s)
    \/ Tick

Spec == Init /\ [][Next]_vars

-----------------------------------------------------------------------------
(* Safety.                                                                 *)

\* Two publishers never work on the same send at once: a claim made by one
\* hook-api process keeps every other away until its outcome is recorded,
\* because the lease of claim_ting outlasts the check, the timeout around
\* the send and the recording, and publish_one does nothing without a lease.
OneSender ==
    \A p, q \in Publishers :
        /\ p # q
        /\ pub[p].pc \in Working
        /\ pub[q].pc \in Working
        => pub[p].send # pub[q].send

\* An acceptance Ting has confirmed can always be recorded: when
\* publish_one comes to complete_ting, its claim is still current unless the
\* event expired or its row was deleted.  The update is never lost to
\* another publisher or to a lapsed lease.
AcceptanceRecordable ==
    \A p \in Publishers :
        pub[p].pc = "answered" =>
            LET s == pub[p].send
            IN  Current(p) \/ expired[s] \/ status[s] = "gone"

\* The outbox tells the truth: a row is marked accepted only when Ting holds
\* the notification, whatever was lost, timed out, or sent twice.
AcceptedIsStored ==
    \A s \in Sends : status[s] = "accepted" => s \in stored

\* Nothing is sent, and no outcome is pending, for a row already accepted,
\* so a recorded acceptance is never followed by another attempt.
NoWorkAfterAcceptance ==
    \A p \in Publishers :
        pub[p].pc \in Working => status[pub[p].send] # "accepted"

\* A row parked by migration 0019 never reaches Ting.
ParkedNeverSent == Parked \cap (stored \cup wire) = {}

-----------------------------------------------------------------------------
(* What the outbox implements.                                             *)

\* publication_status: what a row says of its notification.
Known ==
    [s \in Sends |->
        CASE status[s] = "none" -> "not_queued"
          [] status[s] = "queued" -> "pending"
          [] status[s] = "parked" -> "not_delivered_legacy"
          [] status[s] = "accepted" -> "accepted_by_ting"
          [] OTHER -> "forgotten"]

Promise == INSTANCE Notifications
               WITH Wanted <- Sends, HeldBack <- Parked, known <- Known, arrived <- stored

\* Leases, crashes, timeouts and repeated posts keep the promise of
\* Notifications: in particular a row that was removed while its send was
\* under way is not brought back by complete_ting, and a confirmed
\* notification does not reach Ting again.
ImplementsNotifications == Promise!NotificationSpec

-----------------------------------------------------------------------------
(* The inductive invariant.                                                *)

\* The part of the lease that a publisher in step pc has left at least.
LeaseFloor(pc) ==
    CASE pc = "claimed" -> LeaseTime
      [] pc \in {"sending", "posted"} -> LeaseTime - CallTime
      [] OTHER -> LeaseTime - CallTime - SendTimeout

\* A working publisher is inside its step's time and its row, while there is
\* one, carries its lease with at least the floor of its step left.
LeaseCovers ==
    \A p \in Publishers : pub[p].pc \in Working =>
        LET s == pub[p].send
        IN  /\ pub[p].spent <= StepLimit(pub[p].pc)
            /\ pub[p].lease \in Leases
            /\ status[s] \in {"queued", "gone"}
            /\ s \notin Parked
            /\ status[s] = "queued" =>
                   /\ lease[s] = pub[p].lease
                   /\ leaseLeft[s] >= LeaseFloor(pub[p].pc) - pub[p].spent

AnsweredIsStored ==
    \A p \in Publishers : pub[p].pc = "answered" => pub[p].send \in stored

ParkedStaysParked ==
    /\ ParkedNeverSent
    /\ \A s \in Parked : status[s] \in {"parked", "gone"}

Inv ==
    /\ TypeOK
    /\ LeaseCovers
    /\ OneSender
    /\ AnsweredIsStored
    /\ AcceptedIsStored
    /\ ParkedStaysParked

-----------------------------------------------------------------------------
(* Liveness.                                                               *)

\* Whichever publisher works on s gets a proof and posts it, or hears that
\* Ting accepted it.
PostSend(s) == \E p \in Publishers : pub[p].send = s /\ Post(p)
AcceptedSend(s) == \E p \in Publishers : pub[p].send = s /\ Accepted(p)

(***************************************************************************)
(* The run loop of every publisher goes on, time passes and a request on   *)
(* the wire arrives.  Shutdowns, crashes and storage errors interrupt      *)
(* sends any number of times, but not for ever.  Nothing is assumed of     *)
(* what Ting answers.                                                      *)
(***************************************************************************)
Fairness ==
    /\ SF_vars(Tick)
    /\ \A p \in Publishers : WF_vars(PublisherStep(p))
    /\ \A s \in Sends : WF_vars(TingReceives(s))
    /\ <>[][\A p \in Publishers : ~Abandon(p)]_vars

FairSpec == Spec /\ Fairness

\* A send is recorded as accepted, unless it expires or its row is deleted
\* first, provided that publishers who try it often enough get a proof and
\* Ting's acceptance (its recipient is registered).  No other send, however
\* often it fails, starves it in the order of claim_ting, and no crash
\* leaves its lease behind for ever.
Delivered ==
    \A s \in Sends :
        SF_vars(PostSend(s)) /\ SF_vars(AcceptedSend(s)) =>
            (status[s] = "queued" ~> (status[s] # "queued" \/ expired[s]))
=============================================================================
