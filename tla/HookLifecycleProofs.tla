------------------------- MODULE HookLifecycleProofs -------------------------
(***************************************************************************)
(* The safety of the hook lifecycle for any number of hooks, clients and   *)
(* keys, any limits and any difference between the clocks.                 *)
(***************************************************************************)
EXTENDS HookLifecycle, FiniteSetTheorems, TLAPS

----------------------------------------------------------------------------
(* The inductive invariant.                                                *)

\* A record of a creation has no target; one of a restoration or rotation is
\* about its target.
RecordsNameTheirHook ==
    \A r \in records :
        /\ r.op \in {"create", "connect"} => r.target = NoHook
        /\ r.op \in {"restore", "rotate"} => r.resource = r.target

\* A request that has read a hook names it.
ReadersHaveHook ==
    \A c \in Clients : request[c].phase \in {"read", "activated"} => request[c].hook \in Hooks

\* The scope of the record that a creation leaves.
CreationScope(row) == Scope(IF row.default THEN "connect" ELSE "create", NoHook, row.cause)

\* Every stored hook still has the record of its creation, or the record has
\* lapsed since.
CreationIsRecorded ==
    \A h \in Stored :
        /\ hooks[h].cause \in Keys
        /\ \/ clock >= hooks[h].created + KeyLife
           \/ \E r \in records : /\ InScope(r, CreationScope(hooks[h]))
                                 /\ r.expires >= hooks[h].created + KeyLife

HookInv ==
    /\ TypeOK /\ RecordsNameTheirHook /\ ReadersHaveHook
    /\ CreationIsRecorded /\ NoDuplicateCreation /\ ToldSecretVerifies

----------------------------------------------------------------------------
(* The parts of the model.                                                 *)

\* Times and secrets are numbers.
LEMMA HookNumbers ==
    /\ Limit \in Nat /\ Recovery \in Nat /\ KeyLife \in Nat /\ SecretReplay \in Nat
    /\ SecretReplay <= KeyLife /\ Lag \in Nat /\ Ahead \in Nat /\ MaxClock \in Nat
    /\ MaxSecret \in Nat
    /\ Times \subseteq Nat
    /\ \A t \in Times : t + KeyLife \in 0 .. MaxClock + Ahead + KeyLife
                        /\ t + SecretReplay \in 0 .. MaxClock + Ahead + KeyLife
    /\ 0 \in Times /\ 0 .. MaxClock \subseteq Times
  BY LimitsAssumption DEF Times

\* The fields of a row.
LEMMA RowFields ==
    ASSUME TypeOK, NEW h \in Hooks
    PROVE  /\ hooks[h] \in Row
           /\ hooks[h].secret \in 0 .. MaxSecret /\ hooks[h].created \in Times
           /\ hooks[h].created \in Nat /\ hooks[h].since \in Nat
           /\ hooks[h].default \in BOOLEAN /\ hooks[h].asymmetric \in BOOLEAN
  BY HookNumbers DEF TypeOK, Row

\* A record made by a transaction is one.
LEMMA ReservedIsRecord ==
    ASSUME NEW op \in {"create", "connect", "restore", "rotate"},
           NEW h \in Hooks \cup {NoHook}, NEW k \in Keys, NEW body \in Bodies,
           NEW resource \in Hooks, NEW secret \in 0 .. MaxSecret, NEW at \in Times,
           TypeOK, Reserve(Scope(op, h, k), body, resource, secret, at)
    PROVE  /\ records' \subseteq Record
           /\ \A r, s \in records' : InScope(r, s) => r = s
           /\ \A r \in records' :
                 \/ r \in records
                 \/ r.op = op /\ r.target = h /\ r.key = k /\ r.resource = resource
                    /\ r.expires = at + KeyLife
           /\ \A r \in records : ~InScope(r, Scope(op, h, k)) => r \in records'
           /\ \E r \in records' : InScope(r, Scope(op, h, k)) /\ r.expires = at + KeyLife
  <1> DEFINE replay == IF secret = NoSecret THEN at + KeyLife ELSE at + SecretReplay
             new == [op |-> op, target |-> h, key |-> k, body |-> body,
                     resource |-> resource, secret |-> secret, expires |-> at + KeyLife,
                     replay |-> replay]
  <1>1. /\ at + KeyLife \in 0 .. MaxClock + Ahead + KeyLife
        /\ replay \in 0 .. MaxClock + Ahead + KeyLife
    BY HookNumbers
  <1> HIDE DEF replay
  <1>2. new \in Record
    BY <1>1 DEF Record
  <1>3. records' = {r \in records : ~InScope(r, Scope(op, h, k))} \cup {new}
    BY DEF Reserve, Scope, replay
  <1>4. /\ new.op = op /\ new.target = h /\ new.key = k /\ new.resource = resource
        /\ new.expires = at + KeyLife
    OBVIOUS
  <1> HIDE DEF new
  <1>5. InScope(new, Scope(op, h, k))
    BY <1>4 DEF InScope, Scope
  <1>6. \A r \in records : InScope(r, new) => InScope(r, Scope(op, h, k))
    BY <1>4 DEF InScope, Scope
  <1>7. \A r \in records : InScope(new, r) => InScope(r, Scope(op, h, k))
    BY <1>4 DEF InScope, Scope
  <1>8. \A r, s \in records' : InScope(r, s) => r = s
    BY <1>3, <1>6, <1>7 DEF TypeOK
  <1>9. QED
    BY <1>2, <1>3, <1>4, <1>5, <1>8 DEF TypeOK

\* A step that keeps what was created, and the records of creations until
\* they lapse, keeps creations recorded and apart.
LEMMA CreationsKept ==
    ASSUME HookInv, clock' \in Nat, clock' >= clock,
           \A h \in Stored' : /\ h \in Stored
                              /\ hooks'[h].cause = hooks[h].cause
                              /\ hooks'[h].created = hooks[h].created
                              /\ hooks'[h].default = hooks[h].default,
           \A r \in records : r.op \in {"create", "connect"} =>
                                  r \in records' \/ r.expires <= clock
    PROVE  CreationIsRecorded' /\ NoDuplicateCreation'
  <1>1. clock \in Nat /\ KeyLife \in Nat
    BY HookNumbers DEF HookInv, TypeOK
  <1>2. ASSUME NEW h \in Stored'
        PROVE  /\ hooks'[h].cause \in Keys
               /\ \/ clock' >= hooks'[h].created + KeyLife
                  \/ \E r \in records' : /\ InScope(r, CreationScope(hooks'[h]))
                                         /\ r.expires >= hooks'[h].created + KeyLife
    <2>1. h \in Stored /\ h \in Hooks /\ CreationScope(hooks'[h]) = CreationScope(hooks[h])
      BY <1>2 DEF Stored, CreationScope
    <2>2. hooks[h].created \in Nat
      BY <2>1, RowFields DEF HookInv
    <2>3. CASE clock >= hooks[h].created + KeyLife
      BY <1>1, <1>2, <2>1, <2>2, <2>3 DEF HookInv, CreationIsRecorded
    <2>4. CASE \E r \in records : /\ InScope(r, CreationScope(hooks[h]))
                                  /\ r.expires >= hooks[h].created + KeyLife
      <3>1. PICK r \in records : /\ InScope(r, CreationScope(hooks[h]))
                                 /\ r.expires >= hooks[h].created + KeyLife
        BY <2>4
      <3>2. r.op \in {"create", "connect"} /\ r.expires \in Nat
        BY <1>1, <3>1, HookNumbers DEF InScope, CreationScope, Scope, HookInv, TypeOK, Record
      <3>3. r \in records' \/ clock' >= hooks[h].created + KeyLife
        BY <1>1, <2>2, <3>1, <3>2
      <3> QED
        BY <1>2, <2>1, <3>1, <3>3 DEF HookInv, CreationIsRecorded
    <2> QED
      BY <2>1, <2>3, <2>4 DEF HookInv, CreationIsRecorded
  <1>3. CreationIsRecorded'
    BY <1>2 DEF CreationIsRecorded, InScope, CreationScope, Scope
  <1>4. NoDuplicateCreation'
    BY DEF HookInv, NoDuplicateCreation
  <1>5. QED
    BY <1>3, <1>4

----------------------------------------------------------------------------

\* There are no hooks, and nothing was told, at first.
LEMMA HooksInitially ==
    ASSUME Init
    PROVE  HookInv
  <1>1. EmptyRow \in Row /\ Idle \in Request /\ NoAnswer \in Answers
    BY HookNumbers DEF EmptyRow, Row, Idle, Request, NoAnswer, Answers, NoSecret
  <1>2. TypeOK
    BY <1>1, HookNumbers DEF Init, TypeOK
  <1>3. Stored = {}
    BY DEF Init, Stored, EmptyRow
  <1>4. QED
    BY <1>2, <1>3 DEF HookInv, RecordsNameTheirHook, ReadersHaveHook, CreationIsRecorded,
        NoDuplicateCreation, ToldSecretVerifies, Init, Idle, NoAnswer

\* What is left to show for a step that creates no hook and tells no secret.
LEMMA QuietStep ==
    ASSUME HookInv, TypeOK', RecordsNameTheirHook', ReadersHaveHook',
           answer'.op \notin {"create", "rotate"},
           clock' >= clock,
           \A h \in Stored' : /\ h \in Stored
                              /\ hooks'[h].cause = hooks[h].cause
                              /\ hooks'[h].created = hooks[h].created
                              /\ hooks'[h].default = hooks[h].default,
           \A r \in records : r.op \in {"create", "connect"} =>
                                  r \in records' \/ r.expires <= clock
    PROVE  HookInv'
  <1>1. clock' \in Nat
    BY DEF TypeOK
  <1>2. ToldSecretVerifies'
    BY DEF ToldSecretVerifies
  <1>3. QED
    BY <1>1, <1>2, CreationsKept DEF HookInv

\* A request's record is one.
LEMMA RequestFields ==
    ASSUME HookInv, NEW c \in Clients
    PROVE  /\ request[c] \in Request
           /\ request[c].hook \in Hooks \cup {NoHook} /\ request[c].asymmetric \in BOOLEAN
           /\ request[c].secret \in 0 .. MaxSecret /\ request[c].since \in Nat
           /\ request[c].phase \in {"read", "activated"} => request[c].hook \in Hooks
  BY HookNumbers DEF HookInv, TypeOK, ReadersHaveHook, Request

\* A request that ends holds nothing.
LEMMA IdleRequest == Idle \in Request /\ Idle.phase = "idle"
  BY HookNumbers DEF Idle, Request, NoSecret

\* Requests as they come and go.
LEMMA ComeAndGoStep ==
    ASSUME HookInv, overdue' \subseteq Hooks, NEW c \in Clients,
           Authorise(c) \/ GiveUp(c) \/ \E h \in Hooks : GetHook(c, h)
    PROVE  HookInv'
  <1>1. /\ answer' = NoAnswer
        /\ UNCHANGED <<hooks, records, account, victims, issued, clock>>
    BY DEF Authorise, GiveUp, GetHook
  <1>2. clock \in 0 .. MaxClock /\ request \in [Clients -> Request]
    BY DEF HookInv, TypeOK
  <1>3. PICK q \in Request : /\ request' = [request EXCEPT ![c] = q]
                             /\ q.phase \in {"read", "activated"} => q.hook \in Hooks
    <2>1. CASE Authorise(c)
      <3> DEFINE q == [request[c] EXCEPT !.phase = "authorised", !.since = clock]
      <3>1. q \in Request /\ q.phase = "authorised"
        BY <1>2 DEF Request
      <3>2. request' = [request EXCEPT ![c] = q]
        BY <1>2, <2>1 DEF Authorise
      <3> QED
        BY <3>1, <3>2
    <2>2. CASE GiveUp(c)
      BY <2>2, IdleRequest DEF GiveUp
    <2>3. CASE \E h \in Hooks : GetHook(c, h)
      <3>1. PICK h \in Hooks : GetHook(c, h)
        BY <2>3
      <3> DEFINE q == [phase |-> "read", hook |-> h, asymmetric |-> hooks[h].asymmetric,
                       secret |-> hooks[h].secret, since |-> clock]
      <3>2. q \in Request /\ q.hook \in Hooks
        BY <1>2, RowFields DEF Request, HookInv
      <3>3. request' = [request EXCEPT ![c] = q]
        BY <3>1 DEF GetHook
      <3> QED
        BY <3>2, <3>3
    <2> QED
      BY <2>1, <2>2, <2>3
  <1>4. TypeOK'
    <2>1. request' \in [Clients -> Request]
      BY <1>2, <1>3
    <2>2. NoAnswer \in Answers
      BY HookNumbers DEF NoAnswer, Answers, NoSecret
    <2> QED
      BY <1>1, <2>1, <2>2 DEF HookInv, TypeOK, InScope
  <1>5. RecordsNameTheirHook'
    BY <1>1 DEF HookInv, RecordsNameTheirHook
  <1>6. ReadersHaveHook'
    BY <1>2, <1>3 DEF HookInv, ReadersHaveHook
  <1>7. \A h \in Stored' : h \in Stored
    BY <1>1 DEF Stored
  <1>8. answer'.op \notin {"create", "rotate"} /\ clock' >= clock
    BY <1>1, <1>2 DEF NoAnswer
  <1>9. QED
    BY <1>1, <1>4, <1>5, <1>6, <1>7, <1>8, QuietStep

\* What is left to show for the other steps of a request: the rows, the
\* records and the answer.
LEMMA AnsweredStep ==
    ASSUME HookInv, overdue' \subseteq Hooks, NEW c \in Clients,
           NEW q \in Request, request' = [request EXCEPT ![c] = q],
           q.phase \in {"read", "activated"} => q.hook \in Hooks,
           UNCHANGED <<account, victims, clock>>,
           hooks' \in [Hooks -> Row], answer' \in Answers, issued' \in 0 .. MaxSecret,
           records' \subseteq Record, \A r, s \in records' : InScope(r, s) => r = s
    PROVE  TypeOK' /\ ReadersHaveHook'
  <1>1. request' \in [Clients -> Request]
    BY DEF HookInv, TypeOK
  <1>2. TypeOK'
    BY <1>1 DEF HookInv, TypeOK, InScope
  <1>3. ReadersHaveHook'
    BY DEF HookInv, TypeOK, ReadersHaveHook
  <1>4. QED
    BY <1>2, <1>3

\* update: the policy may be the one read before; creations stay what they
\* were.
LEMMA UpdateStep ==
    ASSUME HookInv, overdue' \subseteq Hooks, NEW c \in Clients, NEW patch \in Patches, UpdateHook(c, patch)
    PROVE  HookInv'
  <1>a. PICK h, policy :
            /\ h = request[c].hook
            /\ policy = IF patch = "metadata"
                        THEN [asymmetric |-> hooks[h].asymmetric, secret |-> hooks[h].secret]
                        ELSE SigningPolicy(patch, request[c])
    OBVIOUS
  <1>1. /\ h \in Hooks /\ policy.secret <= MaxSecret
        /\ hooks' = [hooks EXCEPT ![h].asymmetric = policy.asymmetric,
                                  ![h].secret = policy.secret]
        /\ issued' = IF policy.secret > issued THEN policy.secret ELSE issued
        /\ request' = [request EXCEPT ![c] = Idle]
        /\ answer' = NoAnswer
        /\ UNCHANGED <<records, account, victims, clock>>
    BY <1>a DEF UpdateHook, Usable, Stored
  <1>2. /\ issued \in 0 .. MaxSecret /\ issued \in Nat /\ MaxSecret \in Nat /\ clock \in Nat
        /\ hooks \in [Hooks -> Row] /\ 0 \in 0 .. MaxSecret
    BY HookNumbers DEF HookInv, TypeOK
  <1>3. policy.asymmetric \in BOOLEAN /\ policy.secret \in 0 .. MaxSecret
    <2>1. /\ hooks[h].asymmetric \in BOOLEAN /\ hooks[h].secret \in 0 .. MaxSecret
          /\ request[c].asymmetric \in BOOLEAN /\ request[c].secret \in 0 .. MaxSecret
      BY <1>1, RowFields, RequestFields DEF HookInv
    <2>2. CASE patch = "metadata"
      BY <1>a, <2>1, <2>2
    <2>3. CASE patch = "config"
      BY <1>a, <2>1, <2>3 DEF SigningPolicy
    <2>4. CASE patch = "secret"
      <3>1. policy.asymmetric = FALSE /\ policy.secret = issued + 1
        BY <1>a, <2>4 DEF SigningPolicy
      <3>2. policy.asymmetric \in BOOLEAN
        BY <3>1
      <3>3. issued + 1 \in 0 .. MaxSecret
        BY <1>1, <1>2, <3>1
      <3> QED
        BY <3>1, <3>2, <3>3
    <2>5. CASE patch = "asymmetric"
      BY <1>a, <1>2, <2>5 DEF SigningPolicy, NoSecret
    <2>6. CASE patch = "symmetric"
      BY <1>a, <2>1, <2>6 DEF SigningPolicy
    <2> QED
      BY <2>2, <2>3, <2>4, <2>5, <2>6 DEF Patches
  <1>4. hooks' \in [Hooks -> Row]
    <2>1. PICK row : row = [hooks[h] EXCEPT !.asymmetric = policy.asymmetric,
                                            !.secret = policy.secret]
      OBVIOUS
    <2>2. hooks[h] \in Row
      BY <1>1, <1>2
    <2>3. row \in Row
      BY <1>3, <2>1, <2>2 DEF Row
    <2>4. hooks' = [hooks EXCEPT ![h] = row]
      BY <1>1, <1>2, <2>1
    <2> QED
      BY <1>2, <2>3, <2>4
  <1>5. \A g \in Hooks : /\ hooks'[g].status = hooks[g].status
                         /\ hooks'[g].cause = hooks[g].cause
                         /\ hooks'[g].created = hooks[g].created
                         /\ hooks'[g].default = hooks[g].default
    BY <1>1, <1>2 DEF Row
  <1>6. issued' \in 0 .. MaxSecret /\ answer' \in Answers /\ answer'.op = "none"
    BY <1>1, <1>2, <1>3 DEF NoAnswer, Answers, NoSecret
  <1>7. TypeOK' /\ ReadersHaveHook'
    BY <1>1, <1>4, <1>6, IdleRequest, AnsweredStep DEF HookInv, TypeOK
  <1>8. RecordsNameTheirHook'
    BY <1>1 DEF HookInv, RecordsNameTheirHook
  <1>9. \A g \in Stored' : g \in Stored /\ g \in Hooks
    BY <1>5 DEF Stored
  <1>10. QED
    BY <1>1, <1>2, <1>5, <1>6, <1>7, <1>8, <1>9, QuietStep

\* A batch enabled or disabled keeps its rows' creations.
LEMMA ActivatedRow ==
    ASSUME TypeOK, NEW h \in Hooks, NEW enabled \in BOOLEAN, NEW at \in Times
    PROVE  LET row == Activated(h, enabled, at)
           IN  /\ row \in Row
               /\ row.cause = hooks[h].cause /\ row.created = hooks[h].created
               /\ row.default = hooks[h].default
               /\ row.status \in {"unused", "purged", "deleted"} \/ hooks[h].status \in {"active", "disabled"}
               /\ row.status = hooks[h].status \/ {row.status, hooks[h].status} \subseteq {"active", "disabled"}
  <1>1. hooks[h] \in Row /\ 0 \in Times
    BY RowFields, HookNumbers
  <1>2. CASE enabled /\ hooks[h].status = "disabled"
    <2>1. Activated(h, enabled, at) = [hooks[h] EXCEPT !.status = "active", !.since = 0]
      BY <1>2 DEF Activated
    <2> QED
      BY <1>1, <1>2, <2>1 DEF Row
  <1>3. CASE ~enabled /\ hooks[h].status = "active"
    <2>1. Activated(h, enabled, at) = [hooks[h] EXCEPT !.status = "disabled", !.since = at]
      BY <1>3 DEF Activated
    <2> QED
      BY <1>1, <1>3, <2>1 DEF Row
  <1>4. CASE ~(enabled /\ hooks[h].status = "disabled") /\ ~(~enabled /\ hooks[h].status = "active")
    <2>1. Activated(h, enabled, at) = hooks[h]
      BY <1>4 DEF Activated
    <2> QED
      BY <1>1, <2>1 DEF Row
  <1>5. QED
    BY <1>2, <1>3, <1>4

\* enable and disable, on their own or in an update.
LEMMA SetEnabledStep ==
    ASSUME HookInv, overdue' \subseteq Hooks, NEW c \in Clients, NEW H \in SUBSET Hooks, NEW e \in BOOLEAN,
           SetHooksEnabled(c, H, e)
    PROVE  HookInv'
  <1>1. PICK at \in Times :
            hooks' = [h \in Hooks |-> IF h \in H THEN Activated(h, e, at) ELSE hooks[h]]
    BY DEF SetHooksEnabled, Stamps
  <1>2. answer' = NoAnswer /\ UNCHANGED <<records, account, victims, issued, clock>>
    BY DEF SetHooksEnabled
  <1>3. PICK q \in Request : /\ request' = [request EXCEPT ![c] = q]
                             /\ q.phase \in {"read", "activated"} => q.hook \in Hooks
    <2>1. CASE request' = [request EXCEPT ![c] = Idle]
      BY <2>1, IdleRequest
    <2>2. CASE request[c].phase = "read" /\ request' = [request EXCEPT ![c].phase = "activated"]
      <3> DEFINE q == [request[c] EXCEPT !.phase = "activated"]
      <3>1. q \in Request /\ q.hook \in Hooks
        BY <2>2, RequestFields DEF Request
      <3>2. request' = [request EXCEPT ![c] = q]
        BY <2>2 DEF HookInv, TypeOK
      <3> QED
        BY <3>1, <3>2
    <2> QED
      BY <2>1, <2>2 DEF SetHooksEnabled
  <1>4. ASSUME NEW h \in Hooks
        PROVE  /\ hooks'[h] \in Row
               /\ hooks'[h].cause = hooks[h].cause /\ hooks'[h].created = hooks[h].created
               /\ hooks'[h].default = hooks[h].default
               /\ h \in Stored' => h \in Stored
    <2>1. CASE h \in H
      BY <1>1, <2>1, ActivatedRow DEF HookInv, Stored
    <2>2. CASE h \notin H
      BY <1>1, <2>2, RowFields DEF HookInv, Stored
    <2> QED
      BY <2>1, <2>2
  <1>5. hooks' \in [Hooks -> Row]
    BY <1>1, <1>4
  <1>6. answer' \in Answers /\ answer'.op = "none" /\ issued' \in 0 .. MaxSecret
    BY <1>2, HookNumbers DEF NoAnswer, Answers, NoSecret, HookInv, TypeOK
  <1>7. TypeOK' /\ ReadersHaveHook'
    BY <1>2, <1>3, <1>5, <1>6, AnsweredStep DEF HookInv, TypeOK
  <1>8. RecordsNameTheirHook' /\ clock' >= clock
    BY <1>2 DEF HookInv, RecordsNameTheirHook, TypeOK
  <1>9. \A h \in Stored' : h \in Hooks
    BY DEF Stored
  <1>10. QED
    BY <1>2, <1>4, <1>6, <1>7, <1>8, <1>9, QuietStep

\* delete: nothing is told, the row stays or is deleted.
LEMMA DeleteStep ==
    ASSUME HookInv, overdue' \subseteq Hooks, NEW c \in Clients, NEW h \in Hooks, DeleteHook(c, h)
    PROVE  HookInv'
  <1>1. /\ request' = [request EXCEPT ![c] = Idle]
        /\ answer' = [op |-> "delete", hook |-> h, secret |-> NoSecret]
        /\ UNCHANGED <<records, account, victims, issued, clock>>
    BY DEF DeleteHook, Reply
  <1>2. hooks \in [Hooks -> Row]
    BY DEF HookInv, TypeOK
  <1>3. /\ hooks' \in [Hooks -> Row]
        /\ \A g \in Stored' : /\ g \in Stored
                              /\ hooks'[g].cause = hooks[g].cause
                              /\ hooks'[g].created = hooks[g].created
                              /\ hooks'[g].default = hooks[g].default
    <2>1. CASE hooks' = hooks
      BY <1>2, <2>1 DEF Stored
    <2>2. CASE hooks' # hooks
      <3>1. PICK at \in Times : hooks' = [hooks EXCEPT ![h].status = "deleted", ![h].since = at]
        BY <2>2 DEF DeleteHook, Stamps
      <3>2. h \in Stored
        BY <2>2 DEF DeleteHook
      <3>3. [hooks[h] EXCEPT !.status = "deleted", !.since = at] \in Row
        BY <1>2 DEF Row
      <3>4. hooks' = [hooks EXCEPT ![h] = [hooks[h] EXCEPT !.status = "deleted", !.since = at]]
        BY <1>2, <3>1
      <3>5. hooks' \in [Hooks -> Row]
        BY <1>2, <3>3, <3>4
      <3>6. \A g \in Hooks : /\ hooks'[g].cause = hooks[g].cause
                             /\ hooks'[g].created = hooks[g].created
                             /\ hooks'[g].default = hooks[g].default
                             /\ g # h => hooks'[g] = hooks[g]
        BY <1>2, <3>1 DEF Row
      <3> QED
        BY <3>2, <3>5, <3>6 DEF Stored
    <2> QED
      BY <2>1, <2>2
  <1>4. answer' \in Answers /\ answer'.op = "delete" /\ issued' \in 0 .. MaxSecret
    BY <1>1, HookNumbers DEF Answers, NoSecret, HookInv, TypeOK
  <1>5. TypeOK' /\ ReadersHaveHook'
    BY <1>1, <1>3, <1>4, IdleRequest, AnsweredStep DEF HookInv, TypeOK
  <1>6. RecordsNameTheirHook' /\ clock' >= clock
    BY <1>1 DEF HookInv, RecordsNameTheirHook, TypeOK
  <1>7. QED
    BY <1>1, <1>3, <1>4, <1>5, <1>6, QuietStep

\* restore: a record about its hook, an active row.
LEMMA RestoreStep ==
    ASSUME HookInv, overdue' \subseteq Hooks, NEW c \in Clients, NEW h \in Hooks, NEW k \in Keys, RestoreHook(c, h, k)
    PROVE  HookInv'
  <1>1. /\ h \in Stored
        /\ request' = [request EXCEPT ![c] = Idle]
        /\ answer' = [op |-> "restore", hook |-> h, secret |-> NoSecret]
        /\ UNCHANGED <<account, victims, issued, clock>>
    BY DEF RestoreHook, Reply
  <1>2. hooks \in [Hooks -> Row] /\ 0 \in Times
    BY HookNumbers DEF HookInv, TypeOK
  <1>3. /\ records' \subseteq Record
        /\ \A r, s \in records' : InScope(r, s) => r = s
        /\ RecordsNameTheirHook'
        /\ \A r \in records : r.op \in {"create", "connect"} => r \in records'
    <2>1. CASE records' = records
      BY <2>1 DEF HookInv, TypeOK, RecordsNameTheirHook
    <2>2. CASE records' # records
      <3>1. PICK at \in Times : Reserve(Scope("restore", h, k), "empty", h, NoSecret, at)
        BY <2>2 DEF RestoreHook, Stamps
      <3>2. "empty" \in Bodies /\ NoSecret \in 0 .. MaxSecret
        BY HookNumbers DEF Bodies, NoSecret
      <3>3. /\ records' \subseteq Record
            /\ \A r, s \in records' : InScope(r, s) => r = s
            /\ \A r \in records' : r \in records
                  \/ (r.op = "restore" /\ r.target = h /\ r.key = k /\ r.resource = h)
            /\ \A r \in records : ~InScope(r, Scope("restore", h, k)) => r \in records'
        BY <3>1, <3>2, ReservedIsRecord DEF HookInv
      <3>4. RecordsNameTheirHook'
        BY <3>3 DEF HookInv, RecordsNameTheirHook
      <3> QED
        BY <3>3, <3>4 DEF InScope, Scope
    <2> QED
      BY <2>1, <2>2
  <1>4. /\ hooks' \in [Hooks -> Row]
        /\ \A g \in Stored' : /\ g \in Stored
                              /\ hooks'[g].cause = hooks[g].cause
                              /\ hooks'[g].created = hooks[g].created
                              /\ hooks'[g].default = hooks[g].default
    <2>1. CASE hooks' = hooks
      BY <1>2, <2>1 DEF Stored
    <2>2. CASE hooks' = [hooks EXCEPT ![h].status = "active", ![h].since = 0]
      <3>1. [hooks[h] EXCEPT !.status = "active", !.since = 0] \in Row
        BY <1>2 DEF Row
      <3>2. hooks' = [hooks EXCEPT ![h] = [hooks[h] EXCEPT !.status = "active", !.since = 0]]
        BY <1>2, <2>2
      <3>3. hooks' \in [Hooks -> Row]
        BY <1>2, <3>1, <3>2
      <3>4. \A g \in Hooks : /\ hooks'[g].cause = hooks[g].cause
                             /\ hooks'[g].created = hooks[g].created
                             /\ hooks'[g].default = hooks[g].default
                             /\ g # h => hooks'[g] = hooks[g]
        BY <1>2, <2>2 DEF Row
      <3> QED
        BY <1>1, <3>3, <3>4 DEF Stored
    <2> QED
      BY <2>1, <2>2 DEF RestoreHook
  <1>5. answer' \in Answers /\ answer'.op = "restore" /\ issued' \in 0 .. MaxSecret
    BY <1>1, HookNumbers DEF Answers, NoSecret, HookInv, TypeOK
  <1>6. TypeOK' /\ ReadersHaveHook'
    BY <1>1, <1>3, <1>4, <1>5, IdleRequest, AnsweredStep
  <1>7. clock' >= clock
    BY <1>1 DEF HookInv, TypeOK
  <1>8. QED
    BY <1>1, <1>3, <1>4, <1>5, <1>6, <1>7, QuietStep

\* The rows of a rotation: one secret is another.
LEMMA RotatedRow ==
    ASSUME TypeOK, NEW h \in Hooks, NEW n \in 0 .. MaxSecret,
           hooks' = [hooks EXCEPT ![h].secret = n]
    PROVE  /\ hooks' \in [Hooks -> Row]
           /\ hooks'[h].secret = n
           /\ \A g \in Hooks : /\ hooks'[g].status = hooks[g].status
                               /\ hooks'[g].cause = hooks[g].cause
                               /\ hooks'[g].created = hooks[g].created
                               /\ hooks'[g].default = hooks[g].default
  <1>1. hooks \in [Hooks -> Row]
    BY DEF TypeOK
  <1>2. [hooks[h] EXCEPT !.secret = n] \in Row
    BY <1>1 DEF Row
  <1>3. hooks' = [hooks EXCEPT ![h] = [hooks[h] EXCEPT !.secret = n]]
    BY <1>1
  <1>4. hooks' \in [Hooks -> Row]
    BY <1>1, <1>2, <1>3
  <1>5. QED
    BY <1>1, <1>4 DEF Row

\* rotate: the secret told is the one just stored, or the recorded one after
\* a comparison with the stored one.
LEMMA RotateStep ==
    ASSUME HookInv, overdue' \subseteq Hooks, NEW c \in Clients, NEW k \in Keys, RotateHookSecret(c, k)
    PROVE  HookInv'
  <1>a. PICK h : h = request[c].hook
    OBVIOUS
  <1>1. /\ h \in Hooks
        /\ request' = [request EXCEPT ![c] = Idle]
        /\ UNCHANGED <<account, victims, clock>>
        /\ clock' >= clock /\ clock' \in Nat
    BY <1>a, RequestFields, HookNumbers DEF RotateHookSecret, Reply, HookInv, TypeOK
  <1>2. PICK at \in Times :
          \/ \E r \in Held(Scope("rotate", h, k), at) :
                /\ AnswersSecret(r)
                /\ Reply(c, "rotate", h, r.secret)
                /\ UNCHANGED <<hooks, records, issued>>
          \/ /\ h \in Usable
             /\ issued < MaxSecret
             /\ issued' = issued + 1
             /\ hooks' = [hooks EXCEPT ![h].secret = issued + 1]
             /\ Reserve(Scope("rotate", h, k), "empty", h, issued + 1, at)
             /\ Reply(c, "rotate", h, issued + 1)
    BY <1>a DEF RotateHookSecret, Stamps
  <1>3. CASE \E r \in Held(Scope("rotate", h, k), at) :
                /\ AnswersSecret(r)
                /\ Reply(c, "rotate", h, r.secret)
                /\ UNCHANGED <<hooks, records, issued>>
    <2>1. PICK r \in Held(Scope("rotate", h, k), at) :
                /\ AnswersSecret(r)
                /\ Reply(c, "rotate", h, r.secret)
                /\ UNCHANGED <<hooks, records, issued>>
      BY <1>3
    <2>2. r \in records /\ r.op = "rotate" /\ r.target = h /\ r.secret \in 0 .. MaxSecret
      BY <2>1 DEF Held, InScope, Scope, HookInv, TypeOK, Record
    <2>3. h \in Usable /\ hooks[h].secret = r.secret
      BY <2>1, <2>2 DEF AnswersSecret, HookInv, RecordsNameTheirHook
    <2>4. answer' = [op |-> "rotate", hook |-> h, secret |-> r.secret]
      BY <2>1 DEF Reply
    <2>5. answer' \in Answers
      BY <1>1, <2>2, <2>4 DEF Answers
    <2>6. TypeOK' /\ ReadersHaveHook'
      BY <1>1, <2>1, <2>5, IdleRequest, AnsweredStep DEF HookInv, TypeOK
    <2>7. RecordsNameTheirHook'
      BY <2>1 DEF HookInv, RecordsNameTheirHook
    <2>8. CreationIsRecorded' /\ NoDuplicateCreation'
      BY <1>1, <2>1, CreationsKept DEF Stored
    <2>9. ToldSecretVerifies'
      BY <2>1, <2>3, <2>4 DEF ToldSecretVerifies, Usable, Stored
    <2> QED
      BY <2>6, <2>7, <2>8, <2>9 DEF HookInv
  <1>4. CASE /\ h \in Usable
             /\ issued < MaxSecret
             /\ issued' = issued + 1
             /\ hooks' = [hooks EXCEPT ![h].secret = issued + 1]
             /\ Reserve(Scope("rotate", h, k), "empty", h, issued + 1, at)
             /\ Reply(c, "rotate", h, issued + 1)
    <2>1. issued \in 0 .. MaxSecret /\ MaxSecret \in Nat
      BY HookNumbers DEF HookInv, TypeOK
    <2>2. PICK n \in 0 .. MaxSecret : n = issued + 1
      BY <1>4, <2>1
    <2>3. /\ hooks' \in [Hooks -> Row]
          /\ hooks'[h].secret = n
          /\ \A g \in Hooks : /\ hooks'[g].status = hooks[g].status
                              /\ hooks'[g].cause = hooks[g].cause
                              /\ hooks'[g].created = hooks[g].created
                              /\ hooks'[g].default = hooks[g].default
      BY <1>1, <1>4, <2>2, RotatedRow DEF HookInv
    <2>4. /\ records' \subseteq Record
          /\ \A r, s \in records' : InScope(r, s) => r = s
          /\ \A r \in records' : r \in records
                \/ (r.op = "rotate" /\ r.target = h /\ r.key = k /\ r.resource = h)
          /\ \A r \in records : ~InScope(r, Scope("rotate", h, k)) => r \in records'
      <3>1. Reserve(Scope("rotate", h, k), "empty", h, n, at) /\ "empty" \in Bodies
        BY <1>4, <2>2 DEF Bodies
      <3> QED
        BY <1>1, <3>1, ReservedIsRecord DEF HookInv
    <2>5. answer' = [op |-> "rotate", hook |-> h, secret |-> n]
      BY <1>4, <2>2 DEF Reply
    <2>6. answer' \in Answers
      BY <1>1, <2>5 DEF Answers
    <2>7. TypeOK' /\ ReadersHaveHook'
      BY <1>1, <1>4, <2>2, <2>3, <2>4, <2>6, IdleRequest, AnsweredStep
    <2>8. RecordsNameTheirHook'
      BY <2>4 DEF HookInv, RecordsNameTheirHook
    <2>9. \A r \in records : r.op \in {"create", "connect"} => r \in records'
      BY <2>4 DEF InScope, Scope
    <2>10. \A g \in Stored' : g \in Stored /\ g \in Hooks
      BY <2>3 DEF Stored
    <2>11. CreationIsRecorded' /\ NoDuplicateCreation'
      BY <1>1, <2>3, <2>9, <2>10, CreationsKept
    <2>12. h \in Usable'
      BY <1>1, <1>4, <2>3 DEF Usable, Stored
    <2>13. ToldSecretVerifies'
      BY <2>3, <2>5, <2>12 DEF ToldSecretVerifies
    <2> QED
      BY <2>7, <2>8, <2>11, <2>13 DEF HookInv
  <1>5. QED
    BY <1>2, <1>3, <1>4

\* A new row, for the request with key k, when its scope holds no record.
LEMMA FreshCreation ==
    ASSUME HookInv, NEW h \in Hooks, h \notin Stored, NEW k \in Keys,
           NEW default \in BOOLEAN, NEW at \in Times, at >= clock - Lag, clock' = clock,
           Held(Scope(IF default THEN "connect" ELSE "create", NoHook, k), at) = {},
           hooks'[h].cause = k, hooks'[h].default = default, hooks'[h].created = at,
           \A g \in Hooks \ {h} : hooks'[g] = hooks[g],
           \A r \in records :
              ~InScope(r, Scope(IF default THEN "connect" ELSE "create", NoHook, k))
                  => r \in records',
           \E r \in records' :
              /\ InScope(r, Scope(IF default THEN "connect" ELSE "create", NoHook, k))
              /\ r.expires = at + KeyLife
    PROVE  CreationIsRecorded' /\ NoDuplicateCreation'
  <1>a. PICK scope : scope = Scope(IF default THEN "connect" ELSE "create", NoHook, k)
    OBVIOUS
  <1>1. clock \in Nat /\ KeyLife \in Nat /\ Lag \in Nat /\ at \in Nat
    BY HookNumbers DEF HookInv, TypeOK
  <1>2. \A g \in Stored' : g \in Hooks /\ (g = h \/ (g \in Stored /\ hooks'[g] = hooks[g]))
    BY DEF Stored
  <1>3. \A g \in Stored : hooks[g].created \in Nat
    BY RowFields DEF Stored, HookInv
  \* a hook with the same cause was created at least the age of a time before
  <1>4. ASSUME NEW g \in Stored, hooks[g].cause = k, hooks[g].default = default
        PROVE  /\ at - hooks[g].created >= KeyLife - Lag
               /\ \/ clock >= hooks[g].created + KeyLife
                  \/ at >= hooks[g].created + KeyLife
    <2>1. CreationScope(hooks[g]) = scope
      BY <1>4, <1>a DEF CreationScope
    <2>2. CASE clock >= hooks[g].created + KeyLife
      BY <1>1, <1>3, <2>2
    <2>3. CASE \E r \in records : /\ InScope(r, CreationScope(hooks[g]))
                                  /\ r.expires >= hooks[g].created + KeyLife
      <3>1. PICK r \in records : /\ InScope(r, scope)
                                 /\ r.expires >= hooks[g].created + KeyLife
        BY <2>1, <2>3
      <3>2. ~(r.expires > at) /\ r.expires \in Nat
        BY <1>1, <1>a, <3>1, HookNumbers DEF Held, HookInv, TypeOK, Record
      <3> QED
        BY <1>1, <1>3, <3>1, <3>2
    <2> QED
      BY <2>2, <2>3 DEF HookInv, CreationIsRecorded
  <1>5. PICK new \in records' : InScope(new, scope) /\ new.expires = at + KeyLife
    BY <1>a
  <1>6. ASSUME NEW g \in Stored'
        PROVE  /\ hooks'[g].cause \in Keys
               /\ \/ clock' >= hooks'[g].created + KeyLife
                  \/ \E r \in records' : /\ InScope(r, CreationScope(hooks'[g]))
                                         /\ r.expires >= hooks'[g].created + KeyLife
    <2>1. CASE g = h
      <3>1. CreationScope(hooks'[h]) = scope
        BY <1>a DEF CreationScope
      <3>2. new.expires >= hooks'[h].created + KeyLife
        BY <1>1, <1>5
      <3> QED
        BY <1>5, <2>1, <3>1, <3>2
    <2>2. CASE g \in Stored /\ hooks'[g] = hooks[g]
      <3>1. hooks[g].cause \in Keys
        BY <2>2 DEF HookInv, CreationIsRecorded
      <3>2. CASE hooks[g].cause = k /\ hooks[g].default = default
        <4>1. CreationScope(hooks'[g]) = scope
          BY <1>a, <2>2, <3>2 DEF CreationScope
        <4>2. \/ clock >= hooks[g].created + KeyLife
              \/ at >= hooks[g].created + KeyLife
          BY <1>4, <2>2, <3>2
        <4>3. \/ clock >= hooks[g].created + KeyLife
              \/ new.expires >= hooks[g].created + KeyLife
          BY <1>1, <1>3, <1>5, <2>2, <4>2
        <4> QED
          BY <1>5, <2>2, <3>1, <4>1, <4>3
      <3>3. CASE ~(hooks[g].cause = k /\ hooks[g].default = default)
        <4>1. hooks[g].default \in BOOLEAN /\ g \in Hooks
          BY <2>2, RowFields DEF Stored, HookInv
        <4>2. \A r \in records : InScope(r, CreationScope(hooks[g])) => r \in records'
          BY <3>3, <4>1 DEF InScope, CreationScope, Scope
        <4> QED
          BY <2>2, <3>1, <4>2 DEF HookInv, CreationIsRecorded
      <3> QED
        BY <3>2, <3>3
    <2> QED
      BY <1>2, <2>1, <2>2
  <1>7. CreationIsRecorded'
    BY <1>6 DEF CreationIsRecorded, InScope, CreationScope, Scope
  <1>8. ASSUME NEW g \in Stored', NEW i \in Stored', g # i,
               hooks'[g].cause = hooks'[i].cause, hooks'[g].default = hooks'[i].default
        PROVE  \/ hooks'[g].created - hooks'[i].created >= KeyLife - Lag
               \/ hooks'[i].created - hooks'[g].created >= KeyLife - Lag
    <2>1. CASE g = h
      <3>1. i \in Stored /\ hooks'[i] = hooks[i]
        BY <1>2, <1>8, <2>1
      <3>2. at - hooks[i].created >= KeyLife - Lag
        BY <1>4, <1>8, <2>1, <3>1
      <3> QED
        BY <2>1, <3>1, <3>2
    <2>2. CASE i = h
      <3>1. g \in Stored /\ hooks'[g] = hooks[g]
        BY <1>2, <1>8, <2>2
      <3>2. at - hooks[g].created >= KeyLife - Lag
        BY <1>4, <1>8, <2>2, <3>1
      <3> QED
        BY <2>2, <3>1, <3>2
    <2>3. CASE g # h /\ i # h
      BY <1>2, <1>8, <2>3 DEF HookInv, NoDuplicateCreation
    <2> QED
      BY <2>1, <2>2, <2>3
  <1>9. NoDuplicateCreation'
    BY <1>8 DEF NoDuplicateCreation
  <1>10. QED
    BY <1>7, <1>9

\* create: a replay tells the stored secret; a fresh request leaves a row
\* and its record.
LEMMA CreateStep ==
    ASSUME HookInv, overdue' \subseteq Hooks, NEW c \in Clients, NEW k \in Keys,
           NEW body \in Bodies, NEW default \in BOOLEAN,
           CreateHook(c, k, body, default)
    PROVE  HookInv'
  <1>a. PICK op, scope, secret :
            /\ op = IF default THEN "connect" ELSE "create"
            /\ scope = Scope(op, NoHook, k)
            /\ secret = IF body = "public_key" THEN NoSecret ELSE issued + 1
    OBVIOUS
  <1>b. op \in {"create", "connect"}
    BY <1>a
  <1>1. /\ UNCHANGED <<account, victims, clock>>
        /\ clock' >= clock /\ clock' \in Nat
    BY HookNumbers DEF CreateHook, HookInv, TypeOK
  <1>2. PICK at \in Stamps(c) :
           \/ \E r \in Held(scope, at) :
                 /\ Replays(r, body, at) /\ AnswersSecret(r)
                 /\ Reply(c, "create", r.resource, r.secret)
                 /\ UNCHANGED <<hooks, records, issued>>
           \/ /\ Held(scope, at) = {}
              /\ secret <= MaxSecret
              /\ \E h \in Hooks :
                    /\ hooks[h].status = "unused"
                    /\ hooks' = [hooks EXCEPT ![h] =
                          [status |-> "active", asymmetric |-> (body = "public_key"),
                           secret |-> secret, created |-> at, since |-> 0,
                           default |-> default, cause |-> k]]
                    /\ Reserve(scope, body, h, secret, at)
                    /\ Reply(c, "create", h, secret)
              /\ issued' = IF secret = NoSecret THEN issued ELSE secret
    BY <1>a DEF CreateHook
  <1>3. CASE \E r \in Held(scope, at) :
                 /\ AnswersSecret(r)
                 /\ Reply(c, "create", r.resource, r.secret)
                 /\ UNCHANGED <<hooks, records, issued>>
    <2>1. PICK r \in Held(scope, at) :
                 /\ AnswersSecret(r)
                 /\ Reply(c, "create", r.resource, r.secret)
                 /\ UNCHANGED <<hooks, records, issued>>
      BY <1>3
    <2>2. r \in records /\ r.secret \in 0 .. MaxSecret /\ r.resource \in Hooks
      BY <2>1 DEF Held, HookInv, TypeOK, Record
    <2>3. r.resource \in Usable /\ hooks[r.resource].secret = r.secret
      BY <2>1 DEF AnswersSecret
    <2>4. /\ answer' = [op |-> "create", hook |-> r.resource, secret |-> r.secret]
          /\ request' = [request EXCEPT ![c] = Idle]
      BY <2>1 DEF Reply
    <2>5. answer' \in Answers
      BY <2>2, <2>4 DEF Answers
    <2>6. TypeOK' /\ ReadersHaveHook'
      BY <1>1, <2>1, <2>4, <2>5, IdleRequest, AnsweredStep DEF HookInv, TypeOK
    <2>7. RecordsNameTheirHook'
      BY <2>1 DEF HookInv, RecordsNameTheirHook
    <2>8. CreationIsRecorded' /\ NoDuplicateCreation'
      BY <1>1, <2>1, CreationsKept DEF Stored
    <2>9. ToldSecretVerifies'
      BY <2>1, <2>3, <2>4 DEF ToldSecretVerifies, Usable, Stored
    <2> QED
      BY <2>6, <2>7, <2>8, <2>9 DEF HookInv
  <1>4. CASE /\ Held(scope, at) = {}
             /\ secret <= MaxSecret
             /\ \E h \in Hooks :
                   /\ hooks[h].status = "unused"
                   /\ hooks' = [hooks EXCEPT ![h] =
                         [status |-> "active", asymmetric |-> (body = "public_key"),
                          secret |-> secret, created |-> at, since |-> 0,
                          default |-> default, cause |-> k]]
                   /\ Reserve(scope, body, h, secret, at)
                   /\ Reply(c, "create", h, secret)
             /\ issued' = IF secret = NoSecret THEN issued ELSE secret
    <2>1. PICK h \in Hooks :
                   /\ hooks[h].status = "unused"
                   /\ hooks' = [hooks EXCEPT ![h] =
                         [status |-> "active", asymmetric |-> (body = "public_key"),
                          secret |-> secret, created |-> at, since |-> 0,
                          default |-> default, cause |-> k]]
                   /\ Reserve(scope, body, h, secret, at)
                   /\ Reply(c, "create", h, secret)
      BY <1>4
    <2>2. at \in Times /\ clock - Lag <= at /\ 0 \in Times
      BY HookNumbers DEF Stamps
    <2>3. secret \in 0 .. MaxSecret
      <3>1. issued \in 0 .. MaxSecret /\ MaxSecret \in Nat
        BY HookNumbers DEF HookInv, TypeOK
      <3>2. CASE body = "public_key"
        BY <1>a, <3>1, <3>2 DEF NoSecret
      <3>3. CASE body # "public_key"
        BY <1>4, <1>a, <3>1, <3>3
      <3> QED
        BY <3>2, <3>3
    <2>4. issued' \in 0 .. MaxSecret
      BY <1>4, <2>3 DEF HookInv, TypeOK
    <2>5. PICK row : row = [status |-> "active", asymmetric |-> (body = "public_key"),
                            secret |-> secret, created |-> at, since |-> 0,
                            default |-> default, cause |-> k]
      OBVIOUS
    <2>6. /\ row \in Row
          /\ row.status = "active" /\ row.secret = secret /\ row.created = at
          /\ row.default = default /\ row.cause = k
      <3>1. (body = "public_key") \in BOOLEAN
        OBVIOUS
      <3> QED
        BY <2>2, <2>3, <2>5, <3>1 DEF Row
    <2>7. /\ hooks' \in [Hooks -> Row] /\ hooks'[h] = row
          /\ \A g \in Hooks \ {h} : hooks'[g] = hooks[g]
      <3>1. hooks \in [Hooks -> Row] /\ hooks' = [hooks EXCEPT ![h] = row]
        BY <2>1, <2>5 DEF HookInv, TypeOK
      <3> QED
        BY <2>6, <3>1
    <2>8. /\ records' \subseteq Record
          /\ \A r, s \in records' : InScope(r, s) => r = s
          /\ \A r \in records' : r \in records
                \/ (r.op = op /\ r.target = NoHook /\ r.key = k /\ r.resource = h)
          /\ \A r \in records : ~InScope(r, scope) => r \in records'
          /\ \E r \in records' : InScope(r, scope) /\ r.expires = at + KeyLife
      <3>1. Reserve(Scope(op, NoHook, k), body, h, secret, at)
        BY <1>a, <2>1
      <3>2. op \in {"create", "connect", "restore", "rotate"} /\ NoHook \in Hooks \cup {NoHook}
        BY <1>b
      <3> QED
        BY <1>a, <2>2, <2>3, <3>1, <3>2, ReservedIsRecord DEF HookInv
    <2>9. /\ answer' = [op |-> "create", hook |-> h, secret |-> secret]
          /\ request' = [request EXCEPT ![c] = Idle]
      BY <2>1 DEF Reply
    <2>10. answer' \in Answers
      BY <2>3, <2>9 DEF Answers
    <2>11. TypeOK' /\ ReadersHaveHook'
      BY <1>1, <2>4, <2>7, <2>8, <2>9, <2>10, IdleRequest, AnsweredStep
    <2>12. RecordsNameTheirHook'
      BY <1>b, <2>8 DEF HookInv, RecordsNameTheirHook
    <2>13. h \notin Stored
      BY <2>1 DEF Stored
    <2>14. at >= clock - Lag
      BY <2>2, HookNumbers DEF HookInv, TypeOK
    <2>15. CreationIsRecorded' /\ NoDuplicateCreation'
      BY <1>1, <1>4, <1>a, <2>2, <2>6, <2>7, <2>8, <2>13, <2>14, FreshCreation
    <2>16. ToldSecretVerifies'
      BY <2>6, <2>7, <2>9 DEF ToldSecretVerifies, Usable, Stored
    <2> QED
      BY <2>11, <2>12, <2>15, <2>16 DEF HookInv
  <1>5. QED
    BY <1>2, <1>3, <1>4

----------------------------------------------------------------------------
(* Silicon Accounts, the worker and time.                                  *)

\* What no request does keeps the rows' creations, or removes the row.
LEMMA BackgroundStep ==
    ASSUME HookInv, overdue' \subseteq Hooks,
           \/ LookupFindsDeleted \/ AccountDeleted \/ SelectExpiredHooks
           \/ PurgeHooks \/ PurgeIdempotency \/ Tick
    PROVE  HookInv'
  <1>1. answer' = NoAnswer /\ UNCHANGED <<request, issued>>
    BY DEF LookupFindsDeleted, AccountDeleted, SelectExpiredHooks, PurgeHooks,
        PurgeIdempotency, Tick
  <1>2. /\ clock \in 0 .. MaxClock /\ MaxClock \in Nat
        /\ hooks \in [Hooks -> Row] /\ 0 .. MaxClock \subseteq Times
    BY HookNumbers DEF HookInv, TypeOK
  <1>3. /\ clock' \in 0 .. MaxClock /\ clock' >= clock
        /\ account' \in {"live", "noticed", "deleted"}
        /\ victims' \subseteq Hooks
    <2>1. CASE Tick
      BY <1>2, <2>1 DEF Tick, HookInv, TypeOK
    <2>2. CASE \/ LookupFindsDeleted \/ AccountDeleted \/ SelectExpiredHooks
               \/ PurgeHooks \/ PurgeIdempotency
      <3>1. clock' = clock
        BY <2>2 DEF LookupFindsDeleted, AccountDeleted, SelectExpiredHooks, PurgeHooks,
            PurgeIdempotency
      <3>2. account' \in {"live", "noticed", "deleted"}
        BY <2>2 DEF LookupFindsDeleted, AccountDeleted, SelectExpiredHooks, PurgeHooks,
            PurgeIdempotency, HookInv, TypeOK
      <3>3. victims' \subseteq Hooks
        BY <2>2 DEF LookupFindsDeleted, AccountDeleted, SelectExpiredHooks, PurgeHooks,
            PurgeIdempotency, HookInv, TypeOK, Expired, Stored
      <3> QED
        BY <1>2, <3>1, <3>2, <3>3
    <2> QED
      BY <2>1, <2>2
  <1>4. /\ records' \subseteq records
        /\ \A r \in records : r \in records' \/ r.expires <= clock
    <2>1. CASE PurgeIdempotency
      <3>1. \A r \in records : r.expires \in Nat
        BY HookNumbers DEF HookInv, TypeOK, Record
      <3> QED
        BY <1>2, <2>1, <3>1 DEF PurgeIdempotency
    <2>2. CASE \/ LookupFindsDeleted \/ AccountDeleted \/ SelectExpiredHooks
               \/ PurgeHooks \/ Tick
      BY <2>2 DEF LookupFindsDeleted, AccountDeleted, SelectExpiredHooks, PurgeHooks, Tick
    <2> QED
      BY <2>1, <2>2
  <1>5. /\ hooks' \in [Hooks -> Row]
        /\ \A g \in Stored' : /\ g \in Stored
                              /\ hooks'[g].cause = hooks[g].cause
                              /\ hooks'[g].created = hooks[g].created
                              /\ hooks'[g].default = hooks[g].default
    <2>1. CASE AccountDeleted
      <3>1. hooks' = [h \in Hooks |->
                IF h \in Usable THEN [hooks[h] EXCEPT !.status = "deleted", !.since = clock]
                                ELSE hooks[h]]
        BY <2>1 DEF AccountDeleted
      <3>2. ASSUME NEW h \in Hooks
            PROVE  /\ hooks'[h] \in Row
                   /\ h \in Stored' => h \in Stored
                   /\ hooks'[h].cause = hooks[h].cause
                   /\ hooks'[h].created = hooks[h].created
                   /\ hooks'[h].default = hooks[h].default
        <4>1. hooks[h] \in Row
          BY <1>2
        <4>2. CASE h \in Usable
          BY <1>2, <3>1, <4>1, <4>2 DEF Row, Usable
        <4>3. CASE h \notin Usable
          BY <3>1, <4>1, <4>3 DEF Stored
        <4> QED
          BY <4>2, <4>3
      <3> QED
        BY <3>1, <3>2 DEF Stored
    <2>2. CASE PurgeHooks
      <3>1. hooks' = [h \in Hooks |->
                IF h \in victims THEN [EmptyRow EXCEPT !.status = "purged"] ELSE hooks[h]]
        BY <2>2 DEF PurgeHooks
      <3>2. PICK gone : gone = [EmptyRow EXCEPT !.status = "purged"]
        OBVIOUS
      <3>3. gone \in Row /\ gone.status = "purged"
        <4>1. EmptyRow \in Row
          BY HookNumbers DEF EmptyRow, Row, NoSecret
        <4> QED
          BY <3>2, <4>1 DEF Row
      <3>4. \A h \in Hooks : hooks'[h] = IF h \in victims THEN gone ELSE hooks[h]
        BY <3>1, <3>2
      <3>5. hooks' \in [Hooks -> Row]
        BY <1>2, <3>1, <3>2, <3>3
      <3> QED
        BY <3>3, <3>4, <3>5 DEF Stored
    <2>3. CASE LookupFindsDeleted \/ SelectExpiredHooks \/ PurgeIdempotency \/ Tick
      <3>1. hooks' = hooks
        BY <2>3 DEF LookupFindsDeleted, SelectExpiredHooks, PurgeIdempotency, Tick
      <3> QED
        BY <1>2, <3>1 DEF Stored
    <2> QED
      BY <2>1, <2>2, <2>3
  <1>6. NoAnswer \in Answers /\ NoAnswer.op = "none"
    BY HookNumbers DEF NoAnswer, Answers, NoSecret
  <1>7. \A r, s \in records' : InScope(r, s) => r = s
    BY <1>4 DEF HookInv, TypeOK
  <1>8. TypeOK'
    BY <1>1, <1>3, <1>4, <1>5, <1>6, <1>7 DEF HookInv, TypeOK, InScope
  <1>9. RecordsNameTheirHook' /\ ReadersHaveHook'
    BY <1>1, <1>4 DEF HookInv, RecordsNameTheirHook, ReadersHaveHook
  <1>10. QED
    BY <1>1, <1>3, <1>4, <1>5, <1>6, <1>8, <1>9, QuietStep

----------------------------------------------------------------------------
(* The theorems.                                                           *)

\* Every step keeps the invariant.
LEMMA HooksKept ==
    ASSUME HookInv, [Next]_vars
    PROVE  HookInv'
  <1>a. overdue' \subseteq Hooks
    BY DEF HookInv, TypeOK, vars, Next, RestoredLate, Stored
  <1>1. ASSUME NEW c \in Clients, Manage(c)
        PROVE  HookInv'
    <2>1. CASE Authorise(c) \/ GiveUp(c) \/ \E h \in Hooks : GetHook(c, h)
      BY <1>a, <2>1, ComeAndGoStep
    <2>2. CASE \E k \in Keys, body \in {"hmac", "public_key"} : CreateHook(c, k, body, FALSE)
      BY <1>a, <2>2, CreateStep DEF Bodies
    <2>3. CASE \E patch \in Patches : UpdateHook(c, patch)
      BY <1>a, <2>3, UpdateStep
    <2>4. CASE \E H \in SUBSET Hooks \ {{}}, e \in BOOLEAN : SetHooksEnabled(c, H, e)
      BY <1>a, <2>4, SetEnabledStep
    <2>5. CASE \E h \in Hooks : DeleteHook(c, h)
      BY <1>a, <2>5, DeleteStep
    <2>6. CASE \E h \in Hooks, k \in Keys : RestoreHook(c, h, k)
      BY <1>a, <2>6, RestoreStep
    <2>7. CASE \E k \in Keys : RotateHookSecret(c, k)
      BY <1>a, <2>7, RotateStep
    <2>8. CASE \E k \in Keys : PrepareAccountsHook(c, k)
      <3>1. PICK k \in Keys : PrepareAccountsHook(c, k)
        BY <2>8
      <3>2. CASE CreateHook(c, k, "accounts", TRUE)
        BY <1>a, <3>2, CreateStep DEF Bodies
      <3>3. CASE \E h \in Stored \ Usable : RestoreHook(c, h, k)
        BY <1>a, <3>3, RestoreStep DEF Stored
      <3> QED
        BY <3>1, <3>2, <3>3 DEF PrepareAccountsHook
    <2> QED
      BY <1>1, <2>1, <2>2, <2>3, <2>4, <2>5, <2>6, <2>7, <2>8 DEF Manage
  <1>2. CASE UNCHANGED vars
    BY <1>2 DEF vars, HookInv, TypeOK, RecordsNameTheirHook, ReadersHaveHook,
        CreationIsRecorded, NoDuplicateCreation, ToldSecretVerifies, Stored, Usable, InScope
  <1>3. QED
    BY <1>a, <1>1, <1>2, BackgroundStep DEF Next, Step

\* The invariant holds throughout.
THEOREM HookInvariance == Spec => []HookInv
  <1>1. Init => HookInv
    BY HooksInitially
  <1>2. HookInv /\ [Next]_vars => HookInv'
    BY HooksKept
  <1>3. QED
    BY <1>1, <1>2, PTL DEF Spec

\* Rows, records and requests keep their types, and one row answers for a
\* key in its scope (the primary key of management_idempotency).
THEOREM HooksTyped == Spec => []TypeOK
  <1>1. HookInv => TypeOK
    BY DEF HookInv
  <1>2. QED
    BY <1>1, HookInvariance, PTL

\* Two hooks made by requests with one key were created a record's life
\* apart, less the age of a carried time: repeating create_hook, whatever
\* became of its answer and however the clocks differ, makes no second hook
\* before.
THEOREM CreationHappensOnce == Spec => []NoDuplicateCreation
  <1>1. HookInv => NoDuplicateCreation
    BY DEF HookInv
  <1>2. QED
    BY <1>1, HookInvariance, PTL

\* A secret told by create_hook or rotate_hook_secret, replays included, is
\* the one stored for a hook in use.
THEOREM ToldSecretsAreStored == Spec => []ToldSecretVerifies
  <1>1. HookInv => ToldSecretVerifies
    BY DEF HookInv
  <1>2. QED
    BY <1>1, HookInvariance, PTL

----------------------------------------------------------------------------
(* How a step moves a row, and the times it may carry.                     *)

Near == {t \in Times : clock - Lag <= t /\ t <= clock + Ahead}

Untouched(h) ==
    /\ hooks'[h].status = hooks[h].status
    /\ hooks'[h].created = hooks[h].created /\ hooks'[h].since = hooks[h].since
Toggled(h) ==
    /\ h \in Usable /\ h \in Usable'
    /\ hooks'[h].created = hooks[h].created
    /\ \E at \in Near : hooks'[h].since \in {0, at}
Deleted(h) ==
    /\ h \in Usable /\ h \in Stored' \ Usable'
    /\ hooks'[h].created = hooks[h].created /\ hooks'[h].since \in Near
Restored(h) ==
    /\ h \in Stored \ Usable /\ h \in Usable'
    /\ hooks'[h].created = hooks[h].created /\ hooks'[h].since = 0
    /\ \E at \in Near : at <= hooks[h].since + Recovery
Purged(h) == h \in victims /\ victims' = {} /\ h \notin Stored'
Moved(h) == Untouched(h) \/ Toggled(h) \/ Deleted(h) \/ Restored(h) \/ Purged(h)

Created(h) ==
    /\ h \notin Stored /\ h \in Usable' /\ hooks'[h].since = 0
    /\ hooks'[h].created \in Near
    /\ Cardinality(Retained(hooks'[h].created)) < Limit

\* The times of requests are near the database's.
LEMMA StampsAreNear ==
    ASSUME NEW c \in Clients
    PROVE  Stamps(c) \subseteq Near
  BY DEF Stamps, Near

\* Rows kept as they are.
LEMMA RowsStay ==
    ASSUME hooks' = hooks
    PROVE  \A h \in Hooks : Moved(h)
  BY DEF Moved, Untouched

\* One row replaced.
LEMMA RowMoves ==
    ASSUME HookInv, NEW h \in Hooks, NEW row, hooks' = [hooks EXCEPT ![h] = row],
           Untouched(h) \/ Toggled(h) \/ Deleted(h) \/ Restored(h)
    PROVE  \A g \in Hooks : Moved(g)
  BY DEF HookInv, TypeOK, Moved, Untouched

\* Each action moves rows in one of these ways.
LEMMA RequestMoves ==
    ASSUME HookInv, NEW c \in Clients, Manage(c)
    PROVE  \/ \E h \in Hooks : Created(h) /\ \A g \in Hooks \ {h} : Untouched(g)
           \/ \A h \in Hooks : Moved(h)
  <1>1. hooks \in [Hooks -> Row]
    BY DEF HookInv, TypeOK
  <1>2. ASSUME NEW k \in Keys, NEW body, NEW default, CreateHook(c, k, body, default)
        PROVE  \/ \E h \in Hooks : Created(h) /\ \A g \in Hooks \ {h} : Untouched(g)
               \/ \A h \in Hooks : Moved(h)
    <2>1. CASE hooks' = hooks
      BY <2>1, RowsStay
    <2>2. CASE hooks' # hooks
      <3>a. PICK secret : secret = IF body = "public_key" THEN NoSecret ELSE issued + 1
        OBVIOUS
      <3>b. PICK at \in Stamps(c), h \in Hooks :
                /\ Cardinality(Retained(at)) < Limit
                /\ hooks[h].status = "unused"
                /\ hooks' = [hooks EXCEPT ![h] =
                      [status |-> "active", asymmetric |-> (body = "public_key"),
                       secret |-> secret, created |-> at, since |-> 0,
                       default |-> default, cause |-> k]]
        BY <1>2, <2>2, <3>a DEF CreateHook
      <3>c. PICK row : row = [status |-> "active", asymmetric |-> (body = "public_key"),
                              secret |-> secret, created |-> at, since |-> 0,
                              default |-> default, cause |-> k]
        OBVIOUS
      <3>1. /\ Cardinality(Retained(at)) < Limit
            /\ hooks[h].status = "unused"
            /\ row.status = "active" /\ row.created = at /\ row.since = 0
            /\ hooks' = [hooks EXCEPT ![h] = row]
        BY <3>b, <3>c
      <3>2. hooks'[h] = row /\ \A g \in Hooks \ {h} : hooks'[g] = hooks[g]
        BY <1>1, <3>1
      <3>3. Created(h)
        BY <3>1, <3>2, StampsAreNear DEF Created, Stored, Usable
      <3> QED
        BY <3>2, <3>3 DEF Untouched
    <2> QED
      BY <2>1, <2>2
  <1>3. ASSUME NEW h \in Hooks, NEW k \in Keys, RestoreHook(c, h, k)
        PROVE  \A g \in Hooks : Moved(g)
    <2>1. CASE hooks' = hooks
      BY <2>1, RowsStay
    <2>2. CASE hooks' # hooks
      <3>1. PICK at \in Stamps(c) :
                /\ Restores(h, at)
                /\ hooks' = [hooks EXCEPT ![h].status = "active", ![h].since = 0]
        BY <1>3, <2>2 DEF RestoreHook
      <3>2. PICK row : row = [hooks[h] EXCEPT !.status = "active", !.since = 0]
        OBVIOUS
      <3>3. hooks' = [hooks EXCEPT ![h] = row]
        BY <1>1, <3>1, <3>2
      <3>4. /\ hooks'[h].status = "active" /\ hooks'[h].since = 0
            /\ hooks'[h].created = hooks[h].created
        BY <1>1, <3>2, <3>3 DEF Row
      <3>5. Restored(h)
        BY <3>1, <3>4, StampsAreNear DEF Restored, Restores, Usable, Stored
      <3> QED
        BY <3>3, <3>5, RowMoves
    <2> QED
      BY <2>1, <2>2
  <1>4. ASSUME NEW h \in Hooks, DeleteHook(c, h)
        PROVE  \A g \in Hooks : Moved(g)
    <2>1. CASE hooks' = hooks
      BY <2>1, RowsStay
    <2>2. CASE hooks' # hooks
      <3>1. PICK at \in Stamps(c) :
                /\ Deletes(h, at)
                /\ hooks' = [hooks EXCEPT ![h].status = "deleted", ![h].since = at]
        BY <1>4, <2>2 DEF DeleteHook
      <3>2. PICK row : row = [hooks[h] EXCEPT !.status = "deleted", !.since = at]
        OBVIOUS
      <3>3. hooks' = [hooks EXCEPT ![h] = row]
        BY <1>1, <3>1, <3>2
      <3>4. /\ hooks'[h].status = "deleted" /\ hooks'[h].since = at
            /\ hooks'[h].created = hooks[h].created
        BY <1>1, <3>2, <3>3 DEF Row
      <3>5. Deleted(h)
        BY <3>1, <3>4, StampsAreNear DEF Deleted, Deletes, Usable, Stored
      <3> QED
        BY <3>3, <3>5, RowMoves
    <2> QED
      BY <2>1, <2>2
  <1>5. ASSUME NEW H \in SUBSET Hooks, NEW e \in BOOLEAN, SetHooksEnabled(c, H, e)
        PROVE  \A g \in Hooks : Moved(g)
    <2>1. PICK at \in Stamps(c) :
              /\ H \subseteq Usable
              /\ hooks' = [h \in Hooks |-> IF h \in H THEN Activated(h, e, at) ELSE hooks[h]]
      BY <1>5 DEF SetHooksEnabled, Activates
    <2>2. ASSUME NEW g \in Hooks
          PROVE  Moved(g)
      <3>1. hooks'[g] = IF g \in H THEN Activated(g, e, at) ELSE hooks[g]
        BY <2>1
      <3>2. hooks[g] \in Row /\ at \in Near
        BY <1>1, StampsAreNear
      <3>3. CASE g \in H /\ hooks'[g] = [hooks[g] EXCEPT !.status = "active", !.since = 0]
        <4>1. /\ hooks'[g].status = "active" /\ hooks'[g].since = 0
              /\ hooks'[g].created = hooks[g].created
          BY <3>2, <3>3 DEF Row
        <4>2. g \in Usable /\ g \in Usable'
          BY <2>1, <3>3, <4>1 DEF Usable, Stored
        <4> QED
          BY <3>2, <4>1, <4>2 DEF Moved, Toggled
      <3>4. CASE g \in H /\ hooks'[g] = [hooks[g] EXCEPT !.status = "disabled", !.since = at]
        <4>1. /\ hooks'[g].status = "disabled" /\ hooks'[g].since = at
              /\ hooks'[g].created = hooks[g].created
          BY <3>2, <3>4 DEF Row
        <4>2. g \in Usable /\ g \in Usable'
          BY <2>1, <3>4, <4>1 DEF Usable, Stored
        <4> QED
          BY <3>2, <4>1, <4>2 DEF Moved, Toggled
      <3>5. CASE hooks'[g] = hooks[g]
        BY <3>5 DEF Moved, Untouched
      <3> QED
        BY <3>1, <3>3, <3>4, <3>5 DEF Activated
    <2> QED
      BY <2>2
  <1>6. ASSUME \/ \E patch \in Patches : UpdateHook(c, patch)
               \/ \E k \in Keys : RotateHookSecret(c, k)
        PROVE  \A g \in Hooks : Moved(g)
    <2>1. CASE \E patch \in Patches : UpdateHook(c, patch)
      <3>1. PICK patch \in Patches : UpdateHook(c, patch)
        BY <2>1
      <3>2. PICK h, policy :
                /\ h = request[c].hook
                /\ policy = IF patch = "metadata"
                       THEN [asymmetric |-> hooks[h].asymmetric, secret |-> hooks[h].secret]
                       ELSE SigningPolicy(patch, request[c])
        OBVIOUS
      <3>3. hooks' = [hooks EXCEPT ![h].asymmetric = policy.asymmetric,
                                   ![h].secret = policy.secret]
        BY <3>1, <3>2 DEF UpdateHook
      <3> QED
        BY <1>1, <3>3 DEF Moved, Untouched, Row
    <2>2. CASE \E k \in Keys : RotateHookSecret(c, k)
      <3>1. PICK h : h = request[c].hook
        OBVIOUS
      <3>2. hooks' = hooks \/ hooks' = [hooks EXCEPT ![h].secret = issued + 1]
        BY <2>2, <3>1 DEF RotateHookSecret
      <3> QED
        BY <1>1, <3>2 DEF Moved, Untouched, Row
    <2> QED
      BY <1>6, <2>1, <2>2
  <1>7. ASSUME Authorise(c) \/ GiveUp(c) \/ \E h \in Hooks : GetHook(c, h)
        PROVE  \A g \in Hooks : Moved(g)
    BY <1>7, RowsStay DEF Authorise, GiveUp, GetHook
  <1>8. QED
    <2>1. CASE \E k \in Keys : PrepareAccountsHook(c, k)
      BY <1>2, <1>3, <2>1 DEF PrepareAccountsHook, Stored
    <2>2. CASE \E k \in Keys, body \in {"hmac", "public_key"} : CreateHook(c, k, body, FALSE)
      BY <1>2, <2>2
    <2>3. CASE \E H \in SUBSET Hooks \ {{}}, e \in BOOLEAN : SetHooksEnabled(c, H, e)
      BY <1>5, <2>3
    <2> QED
      BY <1>3, <1>4, <1>6, <1>7, <2>1, <2>2, <2>3 DEF Manage

\* Rows, the clock and the purge, over any step.
LEMMA StepMoves ==
    ASSUME HookInv, Next
    PROVE  /\ clock \in Nat /\ clock' \in Nat /\ clock' >= clock
           /\ \/ \E h \in Hooks : Created(h) /\ \A g \in Hooks \ {h} : Untouched(g)
              \/ \A h \in Hooks : Moved(h)
           /\ clock' = clock \/ \A h \in Hooks : Untouched(h)
           /\ \/ victims' \subseteq victims
              \/ victims' = Expired /\ clock' = clock /\ hooks' = hooks
  <1>1. clock \in Nat
    BY HookNumbers DEF HookInv, TypeOK
  <1>2. CASE \E c \in Clients : Manage(c)
    <2>1. PICK c \in Clients : Manage(c)
      BY <1>2
    <2>2. clock' = clock /\ victims' = victims
      BY <2>1 DEF Manage, Authorise, GiveUp, GetHook, CreateHook, UpdateHook, SetHooksEnabled,
          DeleteHook, RestoreHook, RotateHookSecret, PrepareAccountsHook
    <2> QED
      BY <1>1, <2>1, <2>2, RequestMoves
  <1>3. CASE LookupFindsDeleted \/ SelectExpiredHooks \/ PurgeIdempotency \/ Tick
    <2>1. hooks' = hooks
      BY <1>3 DEF LookupFindsDeleted, SelectExpiredHooks, PurgeIdempotency, Tick
    <2>2. clock' \in Nat /\ clock' >= clock
      BY <1>1, <1>3 DEF LookupFindsDeleted, SelectExpiredHooks, PurgeIdempotency, Tick
    <2>3. \/ victims' \subseteq victims
          \/ victims' = Expired /\ clock' = clock
      BY <1>3 DEF LookupFindsDeleted, SelectExpiredHooks, PurgeIdempotency, Tick
    <2> QED
      BY <1>1, <2>1, <2>2, <2>3, RowsStay DEF Untouched
  <1>4. CASE AccountDeleted
    <2>1. /\ clock' = clock /\ victims' = victims
          /\ hooks' = [h \in Hooks |->
                IF h \in Usable THEN [hooks[h] EXCEPT !.status = "deleted", !.since = clock]
                                ELSE hooks[h]]
      BY <1>4 DEF AccountDeleted
    <2>2. clock \in Near
      BY <1>1, HookNumbers DEF Near, HookInv, TypeOK
    <2>3. ASSUME NEW h \in Hooks
          PROVE  Moved(h)
      <3>1. hooks[h] \in Row
        BY RowFields DEF HookInv
      <3>2. CASE h \in Usable
        <4>1. hooks'[h] = [hooks[h] EXCEPT !.status = "deleted", !.since = clock]
          BY <2>1, <3>2
        <4>2. /\ hooks'[h].status = "deleted" /\ hooks'[h].since = clock
              /\ hooks'[h].created = hooks[h].created
          BY <3>1, <4>1 DEF Row
        <4>3. h \in Stored' \ Usable'
          BY <4>2 DEF Usable, Stored
        <4> QED
          BY <2>2, <3>2, <4>2, <4>3 DEF Moved, Deleted
      <3>3. CASE h \notin Usable
        BY <2>1, <3>3 DEF Moved, Untouched
      <3> QED
        BY <3>2, <3>3
    <2>4. clock' = clock /\ victims' = victims
      BY <1>4 DEF AccountDeleted
    <2>5. clock' \in Nat /\ clock' >= clock
      BY <1>1, <2>4
    <2> QED
      BY <1>1, <2>3, <2>4, <2>5
  <1>5. CASE PurgeHooks
    <2>1. /\ clock' = clock /\ victims' = {}
          /\ hooks' = [h \in Hooks |->
                IF h \in victims THEN [EmptyRow EXCEPT !.status = "purged"] ELSE hooks[h]]
      BY <1>5 DEF PurgeHooks
    <2>2. ASSUME NEW h \in Hooks
          PROVE  Moved(h)
      <3>1. CASE h \in victims
        <4>1. hooks'[h].status = "purged"
          BY <2>1, <3>1 DEF EmptyRow
        <4> QED
          BY <2>1, <3>1, <4>1 DEF Moved, Purged, Stored
      <3>2. CASE h \notin victims
        BY <2>1, <3>2 DEF Moved, Untouched
      <3> QED
        BY <3>1, <3>2
    <2> QED
      BY <1>1, <2>1, <2>2
  <1>6. QED
    BY <1>2, <1>3, <1>4, <1>5 DEF Next, Step

\* A record is an earlier one or that of a hook in use.
LEMMA RecordsMove ==
    ASSUME HookInv, Next, NEW r \in records', r \notin records
    PROVE  /\ r.resource \in Usable'
           /\ \E at \in Near : r.expires = at + KeyLife
           /\ clock' = clock
  <1>1. hooks \in [Hooks -> Row]
    BY DEF HookInv, TypeOK
  <1>2. PICK c \in Clients : Manage(c)
    BY DEF Next, Step, LookupFindsDeleted, AccountDeleted, SelectExpiredHooks, PurgeHooks,
        PurgeIdempotency, Tick
  <1>3. clock' = clock
    BY <1>2 DEF Manage, Authorise, GiveUp, GetHook, CreateHook, UpdateHook, SetHooksEnabled,
        DeleteHook, RestoreHook, RotateHookSecret, PrepareAccountsHook
  <1>4. ASSUME NEW s, NEW body, NEW h, NEW secret, NEW at, Reserve(s, body, h, secret, at)
        PROVE  r.resource = h /\ r.expires = at + KeyLife
    <2>1. PICK new : /\ new.resource = h /\ new.expires = at + KeyLife
                     /\ records' = {q \in records : ~InScope(q, s)} \cup {new}
      BY <1>4 DEF Reserve
    <2> QED
      BY <2>1
  <1>5. ASSUME NEW k \in Keys, NEW body, NEW default, CreateHook(c, k, body, default)
        PROVE  r.resource \in Usable' /\ \E at \in Near : r.expires = at + KeyLife
    <2>1. PICK secret, scope :
              /\ secret = IF body = "public_key" THEN NoSecret ELSE issued + 1
              /\ scope = Scope(IF default THEN "connect" ELSE "create", NoHook, k)
      OBVIOUS
    <2>2. PICK at \in Stamps(c), h \in Hooks :
                /\ hooks' = [hooks EXCEPT ![h] =
                      [status |-> "active", asymmetric |-> (body = "public_key"),
                       secret |-> secret, created |-> at, since |-> 0,
                       default |-> default, cause |-> k]]
                /\ Reserve(scope, body, h, secret, at)
      BY <1>5, <2>1 DEF CreateHook
    <2>3. hooks'[h].status = "active"
      BY <1>1, <2>2
    <2>4. h \in Usable'
      BY <2>3 DEF Usable, Stored
    <2> QED
      BY <1>4, <2>2, <2>4, StampsAreNear
  <1>6. ASSUME NEW h \in Hooks, NEW k \in Keys, RestoreHook(c, h, k)
        PROVE  r.resource \in Usable' /\ \E at \in Near : r.expires = at + KeyLife
    <2>1. PICK at \in Stamps(c) :
              /\ hooks' = [hooks EXCEPT ![h].status = "active", ![h].since = 0]
              /\ Reserve(Scope("restore", h, k), "empty", h, NoSecret, at)
      BY <1>6 DEF RestoreHook
    <2>2. hooks'[h].status = "active"
      BY <1>1, <2>1 DEF Row
    <2>3. h \in Usable'
      BY <2>2 DEF Usable, Stored
    <2> QED
      BY <1>4, <2>1, <2>3, StampsAreNear
  <1>7. ASSUME NEW k \in Keys, RotateHookSecret(c, k)
        PROVE  r.resource \in Usable' /\ \E at \in Near : r.expires = at + KeyLife
    <2>1. PICK h : h = request[c].hook
      OBVIOUS
    <2>2. PICK at \in Stamps(c) :
              /\ h \in Usable
              /\ hooks' = [hooks EXCEPT ![h].secret = issued + 1]
              /\ Reserve(Scope("rotate", h, k), "empty", h, issued + 1, at)
      BY <1>7, <2>1 DEF RotateHookSecret
    <2>3. hooks'[h].status = hooks[h].status
      BY <1>1, <2>2 DEF Row, Usable, Stored
    <2>4. h \in Usable'
      BY <2>2, <2>3 DEF Usable, Stored
    <2> QED
      BY <1>4, <2>2, <2>4, StampsAreNear
  <1>8. QED
    <2>1. \/ \E k \in Keys, body \in {"hmac", "public_key"} : CreateHook(c, k, body, FALSE)
          \/ \E h \in Hooks, k \in Keys : RestoreHook(c, h, k)
          \/ \E k \in Keys : RotateHookSecret(c, k)
          \/ \E k \in Keys : PrepareAccountsHook(c, k)
      BY <1>2 DEF Manage, Authorise, GiveUp, GetHook, UpdateHook, SetHooksEnabled, DeleteHook
    <2>2. CASE \E k \in Keys : PrepareAccountsHook(c, k)
      BY <1>3, <1>5, <1>6, <2>2 DEF PrepareAccountsHook, Stored
    <2> QED
      BY <1>3, <1>5, <1>6, <1>7, <2>1, <2>2

----------------------------------------------------------------------------
(* The limit, whatever the clocks.                                         *)

\* The hooks that count, even by the most advanced clock.
Counted == Retained(clock + Ahead) \ overdue

LimitInv == IsFiniteSet(Stored) /\ RetainedLimit

\* A hook that a step moves counts afterwards only if it counted before: a
\* restoration that takes back another is overdue.
LEMMA MovedCounts ==
    ASSUME HookInv, Next, NEW h \in Counted', Moved(h)
    PROVE  h \in Counted
  <1>1. /\ clock \in Nat /\ clock' \in Nat /\ clock' >= clock
        /\ Recovery \in Nat /\ Ahead \in Nat
    BY StepMoves, HookNumbers
  <1>2. /\ h \in Hooks /\ h \in Stored'
        /\ hooks'[h].status = "deleted" => hooks'[h].since >= clock' + Ahead - Recovery
        /\ h \notin overdue /\ h \notin RestoredLate
    <2>1. h \in Retained(clock + Ahead)' /\ h \notin overdue'
      BY DEF Counted
    <2>2. /\ h \in Stored'
          /\ hooks'[h].status = "deleted" => hooks'[h].since >= clock' + Ahead - Recovery
      BY <1>1, <2>1 DEF Retained
    <2>3. h \in Hooks
      BY <2>2 DEF Stored
    <2>4. h \notin overdue /\ h \notin RestoredLate
      BY <2>1 DEF Next
    <2> QED
      BY <2>2, <2>3, <2>4
  <1>3. hooks[h].since \in Nat
    BY <1>2, RowFields DEF HookInv
  <1>4. h \in Stored
    BY <1>2 DEF Moved, Untouched, Toggled, Deleted, Restored, Purged, Usable, Stored
  <1>5. hooks[h].status = "deleted" => hooks[h].since >= clock + Ahead - Recovery
    <2>1. CASE Untouched(h)
      BY <1>1, <1>2, <1>3, <2>1 DEF Untouched
    <2>2. CASE Toggled(h) \/ Deleted(h)
      BY <2>2 DEF Toggled, Deleted, Usable
    <2>3. CASE Restored(h)
      <3>1. h \in Stored \ Usable /\ h \in Usable'
        BY <2>3 DEF Restored
      <3>2. ~(hooks[h].since < clock + Ahead - Recovery)
        BY <1>2, <3>1 DEF RestoredLate
      <3> QED
        BY <1>1, <1>3, <3>2
    <2>4. ~Purged(h)
      BY <1>2 DEF Purged
    <2> QED
      BY <2>1, <2>2, <2>3, <2>4 DEF Moved
  <1>6. QED
    <2>1. h \in Retained(clock + Ahead)
      BY <1>1, <1>3, <1>4, <1>5 DEF Retained
    <2> QED
      BY <1>2, <2>1 DEF Counted

LEMMA LimitKept ==
    ASSUME HookInv, LimitInv, [Next]_vars
    PROVE  LimitInv'
  <1>1. CASE UNCHANGED vars
    BY <1>1 DEF vars, LimitInv, RetainedLimit, Retained, Stored
  <1>2. CASE Next
    <2>1. /\ clock \in Nat /\ Limit \in Nat /\ Ahead \in Nat /\ Recovery \in Nat
          /\ IsFiniteSet(Stored) /\ Cardinality(Counted) <= Limit
      BY <1>2, StepMoves, HookNumbers DEF LimitInv, RetainedLimit, Counted
    <2>2. IsFiniteSet(Counted) /\ Cardinality(Counted) \in Nat
      <3>1. Counted \in SUBSET Stored
        BY DEF Counted, Retained
      <3> QED
        BY <2>1, <3>1, FS_Subset, FS_CardinalityType
    <2>3. CASE \A h \in Hooks : Moved(h)
      <3>1. Stored' \in SUBSET Stored
        BY <2>3 DEF Moved, Untouched, Toggled, Deleted, Restored, Purged, Usable, Stored
      <3>2. IsFiniteSet(Stored')
        BY <2>1, <3>1, FS_Subset
      <3>3. Counted' \in SUBSET Counted
        <4>1. ASSUME NEW h \in Counted'
              PROVE  h \in Counted
          <5>1. h \in Hooks
            BY DEF Counted, Retained, Stored
          <5> QED
            BY <1>2, <2>3, <5>1, MovedCounts
        <4> QED
          BY <4>1
      <3>4. IsFiniteSet(Counted') /\ Cardinality(Counted') <= Cardinality(Counted)
        BY <2>2, <3>3, FS_Subset
      <3>5. Cardinality(Counted') \in Nat
        BY <3>4, FS_CardinalityType
      <3>6. Cardinality(Counted') <= Limit
        BY <2>1, <2>2, <3>4, <3>5
      <3> QED
        BY <3>2, <3>6 DEF LimitInv, RetainedLimit, Counted
    <2>4. CASE \E h \in Hooks : Created(h) /\ \A g \in Hooks \ {h} : Untouched(g)
      <3>1. PICK h \in Hooks : Created(h) /\ \A g \in Hooks \ {h} : Untouched(g)
        BY <2>4
      <3> DEFINE at == hooks'[h].created
      <3>2. /\ at \in Nat /\ at <= clock + Ahead
            /\ Cardinality(Retained(at)) < Limit
        BY <3>1, HookNumbers DEF Created, Near
      <3> HIDE DEF at
      <3>3. Counted \in SUBSET Retained(at)
        <4>1. ASSUME NEW g \in Counted
              PROVE  g \in Retained(at)
          <5>1. g \in Stored /\ g \in Hooks
            BY DEF Counted, Retained, Stored
          <5>2. hooks[g].since \in Nat
            BY <5>1, RowFields DEF HookInv
          <5>3. hooks[g].status = "deleted" => hooks[g].since >= clock + Ahead - Recovery
            <6>1. g \in Retained(clock + Ahead)
              BY DEF Counted
            <6> QED
              BY <2>1, <6>1 DEF Retained
          <5>4. hooks[g].status = "deleted" => hooks[g].since >= at - Recovery
            BY <2>1, <3>2, <5>2, <5>3
          <5> QED
            BY <5>1, <5>4 DEF Retained
        <4> QED
          BY <4>1
      <3>4. IsFiniteSet(Retained(at)) /\ Cardinality(Retained(at)) \in Nat
        <4>1. Retained(at) \in SUBSET Stored
          BY DEF Retained
        <4> QED
          BY <2>1, <4>1, FS_Subset, FS_CardinalityType
      <3>5. Cardinality(Counted) < Limit
        <4>1. Cardinality(Counted) <= Cardinality(Retained(at))
          BY <3>3, <3>4, FS_Subset
        <4> QED
          BY <2>1, <2>2, <3>2, <3>4, <4>1
      <3>6. Stored' \in SUBSET (Stored \cup {h})
        BY <3>1 DEF Untouched, Stored
      <3>7. IsFiniteSet(Stored')
        BY <2>1, <3>6, FS_AddElement, FS_Subset
      <3>8. Counted' \in SUBSET (Counted \cup {h})
        <4>1. ASSUME NEW g \in Counted', g # h
              PROVE  g \in Counted
          <5>1. g \in Hooks
            BY DEF Counted, Retained, Stored
          <5>2. Moved(g)
            BY <3>1, <4>1, <5>1 DEF Moved
          <5> QED
            BY <1>2, <5>2, MovedCounts
        <4> QED
          BY <4>1
      <3>9. /\ IsFiniteSet(Counted \cup {h})
            /\ Cardinality(Counted \cup {h}) \in Nat
            /\ Cardinality(Counted \cup {h}) <= Cardinality(Counted) + 1
        <4>1. /\ IsFiniteSet(Counted \cup {h})
              /\ Cardinality(Counted \cup {h}) =
                    IF h \in Counted THEN Cardinality(Counted) ELSE Cardinality(Counted) + 1
          BY <2>2, FS_AddElement
        <4> QED
          BY <2>2, <4>1
      <3>10. IsFiniteSet(Counted') /\ Cardinality(Counted') <= Cardinality(Counted \cup {h})
        BY <3>8, <3>9, FS_Subset
      <3>11. Cardinality(Counted') \in Nat
        BY <3>10, FS_CardinalityType
      <3>12. Cardinality(Counted') <= Limit
        BY <2>1, <2>2, <3>5, <3>9, <3>10, <3>11
      <3> QED
        BY <3>7, <3>12 DEF LimitInv, RetainedLimit, Counted
    <2>5. QED
      BY <1>2, <2>3, <2>4, StepMoves
  <1>3. QED
    BY <1>1, <1>2

LEMMA LimitInitially ==
    ASSUME Init
    PROVE  LimitInv
  <1>1. Stored = {}
    BY DEF Init, Stored, EmptyRow
  <1>2. Retained(clock + Ahead) \ overdue = {}
    BY <1>1 DEF Retained
  <1>3. RetainedLimit
    BY <1>2, FS_EmptySet, HookNumbers DEF RetainedLimit
  <1>4. IsFiniteSet(Stored)
    BY <1>1, FS_EmptySet
  <1>5. QED
    BY <1>3, <1>4 DEF LimitInv

\* Stored hooks are finitely many and those that count within the limit.
THEOREM LimitInvariance == Spec => []LimitInv
  <1>1. Init => LimitInv
    BY LimitInitially
  <1>2. HookInv /\ LimitInv /\ [Next]_vars => LimitInv'
    BY LimitKept
  <1>3. QED
    BY <1>1, <1>2, HookInvariance, PTL DEF Spec

\* A Silicon never keeps more hooks than its limit, recoverable ones
\* included, beyond those that were restored when they counted no more,
\* however the clocks of requests differ from the database's: create_hook
\* counts under the lock, and restore_hook otherwise only takes back a hook
\* that every clock still counted.
THEOREM LimitIsKept == Spec => []RetainedLimit
  <1>1. LimitInv => RetainedLimit
    BY DEF LimitInv
  <1>2. QED
    BY <1>1, LimitInvariance, PTL

----------------------------------------------------------------------------
(* Records lapse before their hooks can be purged: 24 hours, against 45    *)
(* days, and clocks that differ by no more than what lies between.         *)

RecordsAreShort == KeyLife + Ahead + 2 * Lag <= Recovery

\* What the purge selected stays deleted, unless it was restored too late.
VictimsHaveExpired ==
    \A h \in victims \ overdue : h \in Stored \ Usable /\ hooks[h].since < clock - Recovery

\* The hook of a record that no request takes for lapsed remains, and was not
\* deleted before the record was made.
RecordedHooksRemain ==
    \A r \in records :
        /\ r.expires <= clock + Ahead + KeyLife
        /\ r.resource \notin overdue =>
              /\ r.resource \in Stored \/ r.expires <= clock - Lag
              /\ r.resource \in Stored \ Usable =>
                    r.expires <= hooks[r.resource].since + Lag + Ahead + KeyLife

LateInv == VictimsHaveExpired /\ RecordedHooksRemain

LEMMA LateKept ==
    ASSUME HookInv, RecordsAreShort, LateInv, [Next]_vars
    PROVE  LateInv'
  <1>1. CASE UNCHANGED vars
    BY <1>1 DEF vars, LateInv, VictimsHaveExpired, RecordedHooksRemain, Stored, Usable
  <1>2. CASE Next
    <2>1. /\ clock \in Nat /\ clock' \in Nat /\ clock' >= clock
          /\ Recovery \in Nat /\ KeyLife \in Nat /\ Ahead \in Nat /\ Lag \in Nat
          /\ KeyLife + Ahead + Lag + Lag <= Recovery
      BY <1>2, StepMoves, HookNumbers DEF RecordsAreShort
    <2>2. \A at \in Near : at \in Nat /\ clock - Lag <= at /\ at <= clock + Ahead
      BY <2>1, HookNumbers DEF Near
    <2>a. overdue' = overdue \cup RestoredLate
      BY <1>2 DEF Next
    <2>3. ASSUME NEW h \in victims, h \in victims', h \notin overdue'
          PROVE  h \in Stored' \ Usable' /\ hooks'[h].since < clock' - Recovery
      <3>1. /\ h \in Stored \ Usable /\ hooks[h].since < clock - Recovery
            /\ h \in Hooks
        BY <2>a, <2>3 DEF LateInv, VictimsHaveExpired, Stored
      <3>2. hooks[h].since \in Nat
        BY <3>1, RowFields DEF HookInv
      <3>3. ~Restored(h)
        <4>1. hooks[h].since < clock + Ahead - Recovery
          BY <2>1, <3>1, <3>2
        <4> QED
          BY <2>a, <2>3, <4>1 DEF Restored, RestoredLate
      <3>4. Untouched(h)
        BY <1>2, <2>3, <3>1, <3>3, StepMoves DEF Created, Moved, Toggled, Deleted, Purged
      <3>5. h \in Stored' \ Usable'
        BY <3>1, <3>4 DEF Untouched, Stored, Usable
      <3>6. hooks'[h].since < clock' - Recovery
        BY <2>1, <3>1, <3>2, <3>4 DEF Untouched
      <3> QED
        BY <3>5, <3>6
    <2>4. VictimsHaveExpired'
      <3>1. CASE victims' \subseteq victims
        BY <2>3, <3>1 DEF VictimsHaveExpired
      <3>2. CASE victims' = Expired /\ clock' = clock /\ hooks' = hooks
        BY <3>2 DEF VictimsHaveExpired, Expired, Stored, Usable
      <3> QED
        BY <1>2, <3>1, <3>2, StepMoves
    <2>5. ASSUME NEW r \in records
          PROVE  /\ r.expires <= clock' + Ahead + KeyLife
                 /\ r.resource \notin overdue' =>
                       /\ r.resource \in Stored' \/ r.expires <= clock' - Lag
                       /\ r.resource \in Stored' \ Usable' =>
                             r.expires <= hooks'[r.resource].since + Lag + Ahead + KeyLife
      <3>a. PICK h : h = r.resource
        OBVIOUS
      <3>b. /\ r.expires <= clock + Ahead + KeyLife
            /\ h \in Hooks /\ r.expires \in Nat
        BY <3>a, HookNumbers DEF LateInv, RecordedHooksRemain, HookInv, TypeOK, Record
      <3>3. r.expires <= clock' + Ahead + KeyLife
        BY <2>1, <3>b
      <3>c. CASE h \in overdue'
        BY <3>a, <3>3, <3>c
      <3>d. CASE h \notin overdue'
        <4>a. /\ h \in Stored \/ r.expires <= clock - Lag
              /\ h \in Stored \ Usable => r.expires <= hooks[h].since + Lag + Ahead + KeyLife
              /\ h \notin overdue
          BY <2>a, <3>a, <3>d DEF LateInv, RecordedHooksRemain
        <4>b. hooks[h].since \in Nat
          BY <3>b, RowFields DEF HookInv
        <4>4. CASE Untouched(h)
          <5>1. h \in Stored' <=> h \in Stored
            BY <4>4 DEF Untouched, Stored
          <5>2. h \in Usable' <=> h \in Usable
            BY <4>4, <5>1 DEF Untouched, Usable
          <5>3. r.expires <= clock - Lag => r.expires <= clock' - Lag
            BY <2>1, <3>b
          <5> QED
            BY <3>a, <3>3, <4>a, <4>4, <5>1, <5>2, <5>3 DEF Untouched
        <4>5. CASE Toggled(h) \/ Restored(h) \/ Created(h)
          BY <3>a, <3>3, <4>5 DEF Toggled, Restored, Created, Usable
        <4>6. CASE Deleted(h)
          <5>1. hooks'[h].since \in Nat /\ clock - Lag <= hooks'[h].since
            BY <2>2, <4>6 DEF Deleted
          <5>2. r.expires <= hooks'[h].since + Lag + Ahead + KeyLife
            BY <2>1, <3>b, <5>1
          <5> QED
            BY <3>a, <3>3, <4>6, <5>2 DEF Deleted
        <4>7. CASE Purged(h)
          <5>1. h \in Stored \ Usable /\ hooks[h].since < clock - Recovery
            BY <4>7, <4>a DEF Purged, LateInv, VictimsHaveExpired
          <5>2. r.expires <= clock' - Lag
            BY <2>1, <3>b, <4>a, <4>b, <5>1
          <5> QED
            BY <3>a, <3>3, <4>7, <5>2 DEF Purged
        <4> QED
          BY <1>2, <3>b, <4>4, <4>5, <4>6, <4>7, StepMoves DEF Moved
      <3> QED
        BY <3>c, <3>d
    <2>6. ASSUME NEW r \in records', r \notin records
          PROVE  /\ r.expires <= clock' + Ahead + KeyLife
                 /\ r.resource \in Usable' /\ r.resource \in Stored'
      <3>1. /\ r.resource \in Usable' /\ clock' = clock
            /\ \E at \in Near : r.expires = at + KeyLife
        BY <1>2, <2>6, RecordsMove
      <3>2. r.expires <= clock' + Ahead + KeyLife
        BY <2>1, <2>2, <3>1
      <3>3. r.resource \in Stored'
        BY <3>1 DEF Usable
      <3> QED
        BY <3>1, <3>2, <3>3
    <2>7. RecordedHooksRemain'
      BY <2>5, <2>6 DEF RecordedHooksRemain
    <2> QED
      BY <2>4, <2>7 DEF LateInv
  <1>3. QED
    BY <1>1, <1>2

\* What is true of purges and records when records are short.
THEOREM LateInvariance ==
    ASSUME RecordsAreShort
    PROVE  Spec => []LateInv
  <1>1. Init => LateInv
    BY DEF Init, LateInv, VictimsHaveExpired, RecordedHooksRemain
  <1>2. HookInv /\ LateInv /\ [Next]_vars => LateInv'
    BY LateKept
  <1>3. QED
    BY <1>1, <1>2, HookInvariance, PTL DEF Spec

\* A record that may still be replayed names a hook that exists, unless the
\* hook was restored when it counted no more, so that a purge may have
\* selected it: PURGE_EXPIRED_HOOKS_SQL removes no hook that
\* select_replayed_scoped_hook would look for, if a record's life and twice the
\* difference of the clocks fit in the recovery period.
THEOREM RecordsOutlivedByHooks ==
    ASSUME RecordsAreShort
    PROVE  Spec => []ReplayableHookExists
  <1>1. HookInv /\ LateInv => ReplayableHookExists
    <2> SUFFICES ASSUME HookInv, LateInv, NEW r \in records, r.expires > clock - Lag,
                        r.resource \notin overdue
                 PROVE  r.resource \in Stored
      BY DEF ReplayableHookExists
    <2>1. Lag \in Nat /\ clock \in Nat /\ r.expires \in Nat
      BY HookNumbers DEF HookInv, TypeOK, Record
    <2>2. ~(r.expires <= clock - Lag)
      BY <2>1
    <2> QED
      BY <2>2 DEF LateInv, RecordedHooksRemain
  <1>2. QED
    BY <1>1, HookInvariance, LateInvariance, PTL
=============================================================================
