---------------------------- MODULE SiliconAccess ----------------------------
(***************************************************************************)
(* Access to one Silicon's hooks: its custodian, the grants on it, the     *)
(* Carbons that observe it and the copies of its events queued for them    *)
(* (application/sharing.rs, postgres/access.rs, delivery/subscriptions.rs, *)
(* domain/policy.rs).                                                      *)
(*                                                                         *)
(* A request is authorised first; its checks, its enrolment with Ting and  *)
(* its transaction come later.  An acceptance reads the observers and then *)
(* inserts their copies: the observers lock keeps subscriptions out in     *)
(* between, but not what Accounts' events and revocations do.  Copies go   *)
(* with the subscription they were made for (ON DELETE CASCADE).           *)
(***************************************************************************)
EXTENDS Naturals, FiniteSets

CONSTANTS
    Owner,          \* the Silicon
    Observers,      \* Carbons
    Others,         \* Silicons of other custodians
    NoOne,          \* no custodian
    Callers,        \* requests under way at once
    MaxObservers,   \* MAX_OBSERVERS_PER_SILICON
    MaxSubscriptions,   \* bound: subscriptions ever made
    MaxAccepted     \* bound: events accepted

ASSUME AccessAssumption ==
    /\ Owner \notin Observers \cup Others /\ Observers \cap Others = {}
    /\ NoOne \notin Observers \cup Others
    /\ MaxObservers \in Nat /\ MaxSubscriptions \in Nat /\ MaxAccepted \in Nat

VARIABLES
    custodian,      \* custodian_uuid of the Silicon's row
    grants,         \* silicon_grants: who has one, of either level
    allowances,     \* silicon_allowances of the Others: <<Silicon, sharer>>
    gone,           \* accounts deleted
    subscriptions,  \* observer_subscriptions
    numbered,       \* subscriptions made so far
    copies,         \* the observers' rows of ting_outbox
    accepted,       \* events accepted so far
    reading,        \* the acceptance under way: the observers it has read
    caller,         \* what each request holds
    lapsed,         \* subscriptions whose owner was without access at some time
    replaced        \* history: the custodians that others have replaced

accessVars == <<custodian, grants, allowances, gone, subscriptions, numbered,
                copies, accepted, reading, caller, lapsed, replaced>>

People == Observers \cup Others
NotReading == {<<>>}
IdleCaller == [phase |-> "idle"]

AccessInit ==
    /\ custodian \in Observers \cup {NoOne}
    /\ grants = {}
    /\ allowances = {}
    /\ gone = {}
    /\ subscriptions = {}
    /\ numbered = 0
    /\ copies = {}
    /\ accepted = 0
    /\ reading = NotReading
    /\ caller = [r \in Callers |-> IdleCaller]
    /\ lapsed = {}
    /\ replaced = {}

----------------------------------------------------------------------------
(* Policy.                                                                 *)

(* authorize_silicon: why an account may act on the Silicon's hooks.       *)
AccessOf(p) ==
    CASE p = Owner -> "self"
      [] p # Owner /\ p \in Observers /\ p = custodian -> "custodian"
      [] OTHER -> IF p \in grants THEN "grant" ELSE "none"

(* domain/policy.rs authorize.                                             *)
Full == {"self", "custodian"}
Allows(access, p, action) ==
    CASE action = "ManageAccess" -> access \in Full
      [] action = "ManageAllowList" -> access \in Full
      [] action = "Observe" -> p \in Observers /\ access # "self"
      [] action = "Leave" -> TRUE

HasAccess(p) == AccessOf(p) # "none"
(* Those whose subscriptions lapse when state changes to the primed one.   *)
Lapses == lapsed' = lapsed \cup {s.id : s \in {x \in subscriptions' :
    x.who \in gone' \/ (x.who # custodian' /\ x.who \notin grants')}}

----------------------------------------------------------------------------
(* Requests.                                                               *)

(* What a request does not touch.                                          *)
requestOnly == <<custodian, grants, allowances, gone, subscriptions, numbered,
                 copies, accepted, reading>>
Done(r) == caller' = [caller EXCEPT ![r] = IdleCaller]

AuthorizeSilicon(r, p) ==
    /\ caller[r].phase = "idle"
    /\ p \notin gone /\ Owner \notin gone
    /\ HasAccess(p)
    /\ caller' = [caller EXCEPT ![r] =
          [phase |-> "authorised", who |-> p, access |-> AccessOf(p)]]
    /\ UNCHANGED <<requestOnly, lapsed>>

GiveUpRequest(r) ==
    /\ caller[r].phase # "idle"
    /\ Done(r)
    /\ UNCHANGED <<requestOnly, lapsed>>

(* A Silicon outside the owner's circle must have allowed the owner or its *)
(* custodian; the Others have custodians of their own.                     *)
Reachable(p) == p \in Others => \E x \in {Owner, custodian} : <<p, x>> \in allowances

(* grant_access up to put_grant.                                           *)
CheckGrant(r, p) ==
    /\ caller[r].phase = "authorised"
    /\ Allows(caller[r].access, caller[r].who, "ManageAccess")
    /\ p \notin gone /\ p # custodian
    /\ Reachable(p)
    /\ caller' = [caller EXCEPT ![r] = [phase |-> "granting", who |-> p]]
    /\ UNCHANGED <<requestOnly, lapsed>>
PutGrant(r) ==
    /\ caller[r].phase = "granting"
    /\ grants' = grants \cup {caller[r].who}
    /\ Done(r)
    /\ UNCHANGED <<custodian, allowances, gone, subscriptions, numbered, copies,
                   accepted, reading>>
    /\ Lapses

(* revoke_access up to delete_grant: a grantee may always leave.           *)
CheckRevocation(r, p) ==
    /\ caller[r].phase = "authorised"
    /\ p = caller[r].who \/ Allows(caller[r].access, caller[r].who, "ManageAccess")
    /\ caller' = [caller EXCEPT ![r] =
          [phase |-> "revoking", who |-> p, keeps |-> (p = custodian)]]
    /\ UNCHANGED <<requestOnly, lapsed>>

(* Subscriptions are deleted, and their queued copies with them.           *)
Unsubscribed(gonners) ==
    /\ subscriptions' = {s \in subscriptions : s.who \notin gonners}
    /\ copies' = {c \in copies : c.who \notin gonners}

DeleteGrant(r) ==
    LET p == caller[r].who
    IN  /\ caller[r].phase = "revoking"
        /\ grants' = grants \ {p}
        /\ IF p \in grants /\ ~caller[r].keeps
           THEN Unsubscribed({p}) ELSE UNCHANGED <<subscriptions, copies>>
        /\ Done(r)
        /\ UNCHANGED <<custodian, allowances, gone, numbered, accepted, reading>>
        /\ Lapses

(* allow and disallow, by another Silicon or its custodian.                *)
PutAllowance(q, x) ==
    /\ q \notin gone /\ x \notin gone
    /\ allowances' = allowances \cup {<<q, x>>}
    /\ UNCHANGED <<custodian, grants, gone, subscriptions, numbered, copies, accepted,
                   reading, caller, lapsed>>
DeleteAllowance(q, x) ==
    /\ <<q, x>> \in allowances
    /\ allowances' = allowances \ {<<q, x>>}
    /\ UNCHANGED <<custodian, grants, gone, subscriptions, numbered, copies, accepted,
                   reading, caller, lapsed>>

----------------------------------------------------------------------------
(* Observers.                                                              *)

(* api/subscriptions.rs subscribe up to Ting's answer.                     *)
Enrol(r) ==
    /\ caller[r].phase = "authorised"
    /\ Allows(caller[r].access, caller[r].who, "Observe")
    /\ caller' = [caller EXCEPT ![r] = [phase |-> "enrolled", who |-> caller[r].who]]
    /\ UNCHANGED <<requestOnly, lapsed>>

(* Mutant: the change does not wait for acceptances.                       *)
LockedLoosely == TRUE
(* lock_observers, exclusively.                                            *)
Locked == reading = NotReading

(* subscribe, under the lock: MAX_OBSERVERS_PER_SILICON is not reached.    *)
RoomLeft == Cardinality(subscriptions) < MaxObservers

(* subscribe: an existing subscription is returned as it is.               *)
Subscribe(r) ==
    LET p == caller[r].who
    IN  /\ caller[r].phase = "enrolled"
        /\ Locked
        /\ \/ /\ \E s \in subscriptions : s.who = p
              /\ UNCHANGED <<subscriptions, numbered>>
           \/ /\ ~ \E s \in subscriptions : s.who = p
              /\ RoomLeft
              /\ numbered < MaxSubscriptions
              /\ numbered' = numbered + 1
              /\ subscriptions' = subscriptions \cup
                    {[who |-> p, id |-> numbered + 1, after |-> accepted]}
        /\ Done(r)
        /\ UNCHANGED <<custodian, grants, allowances, gone, copies, accepted, reading>>
        /\ Lapses

(* unsubscribe needs a sign-in, not access.                                *)
Unsubscribe(p) ==
    /\ p \notin gone
    /\ Locked
    /\ \E s \in subscriptions : s.who = p
    /\ Unsubscribed({p})
    /\ UNCHANGED <<custodian, grants, allowances, gone, numbered, accepted, reading,
                   caller, lapsed>>

(* Mutant: a subscription is enough.                                       *)
ReceivingAnyway(s) == s.who \notin gone
(* The observers an event is copied to.                                    *)
Receiving(s) == s.who \notin gone /\ (s.who = custodian \/ s.who \in grants)

(* enqueue_observers: the observers are read ...                           *)
ReadObservers ==
    /\ reading = NotReading
    /\ accepted < MaxAccepted /\ Owner \notin gone
    /\ reading' = {s \in subscriptions : Receiving(s)}
    /\ UNCHANGED <<custodian, grants, allowances, gone, subscriptions, numbered,
                   copies, accepted, caller, lapsed>>

(* The foreign key of a copy.                                              *)
StillSubscribed(S) == S \subseteq subscriptions

(* ... and their copies inserted with the event, or the acceptance fails   *)
(* as a whole.                                                             *)
EnqueueObservers ==
    /\ reading # NotReading
    /\ reading' = NotReading
    /\ IF StillSubscribed(reading)
       THEN /\ accepted' = accepted + 1
            /\ copies' = copies \cup
                  {[event |-> accepted + 1, who |-> s.who, id |-> s.id] : s \in reading}
       ELSE UNCHANGED <<accepted, copies>>
    /\ UNCHANGED <<custodian, grants, allowances, gone, subscriptions, numbered,
                   caller, lapsed>>

(* An acceptance rolled back for another reason.                           *)
AbortAcceptance ==
    /\ reading # NotReading
    /\ reading' = NotReading
    /\ UNCHANGED <<custodian, grants, allowances, gone, subscriptions, numbered,
                   copies, accepted, caller, lapsed>>

(* Ting has a copy: its row no longer waits.                               *)
Published(c) ==
    /\ c \in copies /\ c.event = 1
    /\ copies' = copies \ {c}
    /\ UNCHANGED <<custodian, grants, allowances, gone, subscriptions, numbered,
                   accepted, reading, caller, lapsed>>

----------------------------------------------------------------------------
(* What Accounts' events and lookups change here.                          *)

(* custodian_changed: the custodian that the event calls the previous one  *)
(* stops observing unless it has a grant.                                  *)
ChangeCustodianTo(from, p) ==
    /\ p # from
    /\ custodian' = p
    /\ IF from # NoOne /\ from \notin grants
       THEN Unsubscribed({from}) ELSE UNCHANGED <<subscriptions, copies>>
    /\ UNCHANGED <<grants, allowances, gone, numbered, accepted, reading, caller>>
    /\ Lapses

(* record_account_view: the custodian alone.                               *)
LookUpCustodian(p) ==
    /\ p # custodian /\ Owner \notin gone
    /\ custodian' = p
    /\ UNCHANGED <<grants, allowances, gone, subscriptions, numbered, copies, accepted,
                   reading, caller>>
    /\ Lapses

(* revoke: a sign-out or removed access.                                   *)
SignedOut(p) ==
    /\ Unsubscribed({p})
    /\ UNCHANGED <<custodian, grants, allowances, gone, numbered, accepted, reading,
                   caller, lapsed>>

(* deleted: what the account gave, received or observed.                   *)
AccountGone(p) ==
    /\ p \notin gone
    /\ gone' = gone \cup {p}
    /\ grants' = IF p = Owner THEN {} ELSE grants \ {p}
    /\ allowances' = {a \in allowances : p \notin {a[1], a[2]}}
    /\ Unsubscribed(IF p = Owner THEN People ELSE {p})
    /\ UNCHANGED <<custodian, numbered, accepted, reading, caller>>
    /\ Lapses

AccessStep ==
    \/ \E r \in Callers :
          \/ \E p \in People \cup {Owner} : AuthorizeSilicon(r, p)
          \/ GiveUpRequest(r)
          \/ \E p \in People : CheckGrant(r, p)
          \/ PutGrant(r)
          \/ \E p \in People : CheckRevocation(r, p)
          \/ DeleteGrant(r)
          \/ Enrol(r)
          \/ Subscribe(r)
    \/ \E q \in Others, x \in Observers \cup {Owner} :
          PutAllowance(q, x) \/ DeleteAllowance(q, x)
    \/ \E p \in Observers : Unsubscribe(p) \/ SignedOut(p)
    \/ ReadObservers \/ EnqueueObservers \/ AbortAcceptance
    \/ \E c \in copies : Published(c)
    \/ \E from, p \in Observers \cup {NoOne} : ChangeCustodianTo(from, p)
    \/ \E p \in Observers \cup {NoOne} : LookUpCustodian(p)
    \/ \E p \in People \cup {Owner} : AccountGone(p)

AccessNext ==
    AccessStep /\ replaced' = replaced \cup ({custodian} \ {custodian', NoOne})

AccessSpec == AccessInit /\ [][AccessNext]_accessVars

----------------------------------------------------------------------------
(* Properties.                                                             *)

(* The types; an account has one subscription, and the Silicon at most its *)
(* limit of them.                                                          *)
AccessTypeOK ==
    /\ custodian \in Observers \cup {NoOne}
    /\ grants \subseteq People
    /\ allowances \subseteq Others \X (Observers \cup {Owner})
    /\ gone \subseteq People \cup {Owner}
    /\ Cardinality(subscriptions) <= MaxObservers
    /\ \A s, t \in subscriptions : s.who = t.who => s = t
    /\ \A s \in subscriptions : s.who \in Observers /\ s.id \in 1 .. numbered

(* Nothing is queued for a deleted account, whatever was in flight when it *)
(* was deleted.                                                            *)
NoCopyForDeleted == \A c \in copies : c.who \notin gone

(* "a subscription starts exactly between two events": it has no copy of   *)
(* an event accepted before it, and one of every event since, as long as   *)
(* its owner keeps access (and Ting has not taken the copy over).          *)
SubscriptionBetweenEvents ==
    /\ \A c \in copies : \E s \in subscriptions : s.id = c.id /\ s.after < c.event
    /\ \A s \in subscriptions : s.id \notin lapsed =>
          \A e \in s.after + 1 .. accepted :
             e = 1 \/ \E c \in copies : c.event = e /\ c.id = s.id

(* Subscriptions, access and the copies of events agree, whatever was in   *)
(* flight: one subscription each within the limit, its copies exactly the  *)
(* events since it began, and none for a deleted account.                  *)
CopiesFollowSubscriptions == AccessTypeOK /\ NoCopyForDeleted /\ SubscriptionBetweenEvents

(* "the subscription is removed when the grant is revoked": whatever       *)
(* subscribes, is read or is queued while a grant is revoked, nothing      *)
(* waits for an observer without access, except for one who was replaced   *)
(* as custodian at some time.  A lookup that brings another custodian, and *)
(* a revocation that still took its grantee for the custodian, leave the   *)
(* subscription and what waits for it.                                     *)
CopiesGoWithGrants == \A c \in copies : HasAccess(c.who) \/ c.who \in replaced

(* "the subscription is removed when the grant is revoked, the custodian   *)
(* changes away, or the Carbon signs out, removes access or is deleted":   *)
(* what is queued for an observer is for one who has access.  Refuted: a   *)
(* lookup that brings another custodian leaves the subscription of the     *)
(* former one, and what waits for it.                                      *)
QueuedCopyHasAccess == \A c \in copies : HasAccess(c.who)
=============================================================================
