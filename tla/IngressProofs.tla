---------------------------- MODULE IngressProofs ----------------------------
(***************************************************************************)
(* What ingress stores and answers, for any number of hooks, addresses and *)
(* concurrent handlers, any threshold and any times.                       *)
(***************************************************************************)
EXTENDS Ingress, TLAPS

LEMMA ConstantTypes ==
    /\ Threshold \in Nat \ {0} /\ BlockTime \in Nat \ {0}
    /\ MaxClock \in Nat \ {0} /\ MaxPolicy \in Nat \ {0}
    /\ MaxKey \in Nat \ {0} /\ MaxEvents \in Nat
    /\ StaleAfter \in Nat /\ RequestTime \in Nat
    /\ Hooks # {} /\ Addresses # {}
  BY IngressAssumption

\* A handler at rest has the shape of a handler.
LEMMA WaitingType == Waiting \in Handler /\ NoRow \in BlockRow
  <1>1. (CHOOSE h \in Hooks : TRUE) \in Hooks
    BY ConstantTypes
  <1>2. (CHOOSE a \in Addresses : TRUE) \in Addresses
    BY ConstantTypes
  <1>3. QED
    BY <1>1, <1>2, ConstantTypes
    DEF Waiting, Handler, Keys, Policies, Stage, Answer, Times, NoRow, BlockRow

\* A handler that answers keeps the URL it answered about and nothing else.
LEMMA AnsweredType ==
    ASSUME NEW p \in Handler, NEW answer \in Answer
    PROVE  /\ Answered(p, answer) \in Handler
           /\ Answered(p, answer).hook = p.hook
           /\ Answered(p, answer).key = p.key
           /\ Answered(p, answer).answer = answer
           /\ Answered(p, answer).stage = "idle"
           /\ Answered(p, answer).at = 0
  <1>1. Waiting \in Handler
    BY WaitingType
  <1>2. p.hook \in Hooks /\ p.key \in Keys
    BY DEF Handler
  <1>3. Waiting.stage = "idle" /\ Waiting.at = 0
    BY DEF Waiting
  <1>4. QED
    BY <1>1, <1>2, <1>3 DEF Answered, Handler

\* A handler that goes on keeps its snapshot.
LEMMA AdvancedType ==
    ASSUME NEW p \in Handler, NEW stage \in Stage
    PROVE  [p EXCEPT !.stage = stage] \in Handler
  BY DEF Handler

\* record_unverified keeps the row in its range: the strike that reaches the
\* threshold is never stored.
LEMMA StruckType ==
    ASSUME NEW row \in BlockRow, NEW now \in 0..MaxClock
    PROVE  Struck(row, now) \in BlockRow
  <1>1. /\ row.strikes \in 0..(Threshold - 1)
        /\ row.until \in Times
    BY DEF BlockRow
  <1>2. CASE row.strikes + 1 < Threshold
    BY <1>1, <1>2, ConstantTypes DEF Struck, BlockRow, Times
  <1>3. CASE ~(row.strikes + 1 < Threshold)
    BY <1>1, <1>3, ConstantTypes DEF Struck, BlockRow, Times
  <1>4. QED
    BY <1>2, <1>3

\* One handler's record is replaced.
LEMMA RequestType ==
    ASSUME TypeOK, NEW r \in Requests, NEW p \in Handler,
           request' = [request EXCEPT ![r] = p]
    PROVE  request' \in [Requests -> Handler]
  BY DEF TypeOK

\* One row of ip_blocks is replaced.
LEMMA BlocksType ==
    ASSUME TypeOK, NEW h \in Hooks, NEW a \in Addresses, NEW row \in BlockRow,
           blocks' = [blocks EXCEPT ![h][a] = row]
    PROVE  blocks' \in [Hooks -> [Addresses -> BlockRow]]
  <1>1. blocks' = [blocks EXCEPT ![h] = [blocks[h] EXCEPT ![a] = row]]
    OBVIOUS
  <1>2. [blocks[h] EXCEPT ![a] = row] \in [Addresses -> BlockRow]
    BY DEF TypeOK
  <1>3. QED
    BY <1>1, <1>2 DEF TypeOK

LEMMA AdvanceType ==
    ASSUME TypeOK, NEW r \in Requests, NEW stage \in Stage, Advance(r, stage)
    PROVE  request' \in [Requests -> Handler]
  <1>1. request[r] \in Handler
    BY DEF TypeOK
  <1>2. request' = [request EXCEPT ![r] = [request[r] EXCEPT !.stage = stage]]
    BY DEF Advance
  <1>3. QED
    BY <1>1, <1>2, AdvancedType, RequestType

LEMMA FinishType ==
    ASSUME TypeOK, NEW r \in Requests, NEW answer \in Answer, Finish(r, answer)
    PROVE  request' \in [Requests -> Handler]
  <1>1. request[r] \in Handler
    BY DEF TypeOK
  <1>2. request' = [request EXCEPT ![r] = Answered(request[r], answer)]
    BY DEF Finish
  <1>3. QED
    BY <1>1, <1>2, AnsweredType, RequestType

\* Every statement of a request, every management operation and the worker
\* keep the types.
LEMMA TypeStep ==
    ASSUME TypeOK, [Next]_vars
    PROVE  TypeOK'
  <1> USE ConstantTypes
  <1>1. ASSUME NEW r \in Requests, NEW h \in Hooks, NEW k \in Keys,
               NEW a \in Addresses, NEW signed \in Policies \cup {Unsigned},
               Receive(r, h, k, a, signed)
        PROVE  TypeOK'
    <2> DEFINE live == hooks[h].status # "purged" /\ hooks[h].key = k
               arrived == [at |-> clock, hook |-> h, key |-> k, address |-> a,
                    signed |-> signed, policy |-> hooks[h].policy,
                    stage |-> IF live THEN "routed" ELSE "unrouted",
                    answer |-> "none",
                    barred |-> IF clock < blocks[h][a].until
                               THEN blocks[h][a].until ELSE 0]
    <2>1. hooks[h].policy \in Policies /\ blocks[h][a].until \in Times
      BY DEF TypeOK, HookRow, BlockRow
    <2>2. arrived \in Handler
      BY <2>1 DEF TypeOK, Handler, Stage, Answer, Times
    <2>3. /\ Answered(arrived, "account_deleted") \in Handler
          /\ Answered(arrived, "inactive") \in Handler
      BY <2>2, AnsweredType DEF Answer
    <2> HIDE DEF arrived
    <2>4. \E p \in Handler : request' = [request EXCEPT ![r] = p]
      BY <1>1, <2>2, <2>3 DEF Receive, arrived
    <2>5. request' \in [Requests -> Handler]
      BY <2>4, RequestType
    <2>6. QED
      BY <1>1, <2>5 DEF TypeOK, Receive
  <1>2. ASSUME NEW r \in Requests, FindRetired(r)
        PROVE  TypeOK'
    <2>1. PICK answer \in Answer : Finish(r, answer)
      BY <1>2 DEF FindRetired, Answer
    <2>2. request' \in [Requests -> Handler]
      BY <2>1, FinishType
    <2>3. QED
      BY <1>2, <2>2 DEF TypeOK, FindRetired
  <1>3. ASSUME NEW r \in Requests, CheckIpBlock(r)
        PROVE  TypeOK'
    <2>1. PICK stage \in Stage : Advance(r, stage)
      BY <1>3 DEF CheckIpBlock, Stage
    <2>2. request' \in [Requests -> Handler]
      BY <2>1, AdvanceType
    <2>3. QED
      BY <1>3, <2>2 DEF TypeOK, CheckIpBlock
  <1>4. ASSUME NEW r \in Requests, CountRejection(r)
        PROVE  TypeOK'
    <2>1. request' \in [Requests -> Handler]
      BY <1>4, FinishType DEF CountRejection, Answer
    <2>2. /\ request[r].hook \in Hooks /\ request[r].address \in Addresses
          /\ request[r].at \in 0..MaxClock
      BY DEF TypeOK, Handler
    <2>3. blocks' \in [Hooks -> [Addresses -> BlockRow]]
      <3> DEFINE row == [blocks[request[r].hook][request[r].address]
                            EXCEPT !.updated = request[r].at]
      <3>1. blocks[request[r].hook][request[r].address] \in BlockRow
        BY <2>2 DEF TypeOK
      <3>2. row \in BlockRow
        BY <2>2, <3>1 DEF BlockRow
      <3>3. CASE blocks[request[r].hook][request[r].address] = NoRow
        BY <1>4, <3>3 DEF TypeOK, CountRejection
      <3>4. CASE blocks[request[r].hook][request[r].address] # NoRow
        <4>1. blocks' = [blocks EXCEPT ![request[r].hook][request[r].address] = row]
          BY <1>4, <3>4 DEF CountRejection
        <4>2. QED
          BY <2>2, <3>2, <4>1, BlocksType
      <3>5. QED
        BY <3>3, <3>4
    <2>4. QED
      BY <1>4, <2>1, <2>3 DEF TypeOK, CountRejection
  <1>5. ASSUME NEW r \in Requests, AcceptEvent(r)
        PROVE  TypeOK'
    <2>1. PICK answer \in Answer : Finish(r, answer)
      BY <1>5 DEF AcceptEvent, Answer
    <2>2. request' \in [Requests -> Handler]
      BY <2>1, FinishType
    <2>3. /\ request[r].hook \in Hooks /\ request[r].at \in 0..MaxClock
          /\ request[r].signed \in Policies \cup {Unsigned}
      BY DEF TypeOK, Handler
    <2>4. events' \subseteq Event /\ sequence' \in 0..MaxEvents
      BY <1>5, <2>3 DEF TypeOK, AcceptEvent, NextSequence, Event
    <2>5. QED
      BY <1>5, <2>2, <2>4 DEF TypeOK, AcceptEvent
  <1>6. ASSUME NEW r \in Requests, RecordUnverified(r)
        PROVE  TypeOK'
    <2>1. request' \in [Requests -> Handler]
      BY <1>6, FinishType, AdvanceType DEF RecordUnverified, Answer, Stage
    <2>2. /\ request[r].hook \in Hooks /\ request[r].address \in Addresses
          /\ request[r].at \in 0..MaxClock
      BY DEF TypeOK, Handler
    <2>3. blocks[request[r].hook][request[r].address] \in BlockRow
      BY <2>2 DEF TypeOK
    <2>4. Struck(blocks[request[r].hook][request[r].address], request[r].at)
             \in BlockRow
      BY <2>2, <2>3, StruckType
    <2>5. blocks' \in [Hooks -> [Addresses -> BlockRow]]
      <3>1. CASE hooks[request[r].hook].status = "purged"
        BY <1>6, <3>1 DEF TypeOK, RecordUnverified
      <3>2. CASE hooks[request[r].hook].status # "purged"
        <4>1. blocks' = [blocks EXCEPT ![request[r].hook][request[r].address] =
                Struck(blocks[request[r].hook][request[r].address], request[r].at)]
          BY <1>6, <3>2 DEF RecordUnverified
        <4>2. QED
          BY <2>2, <2>4, <4>1, BlocksType
      <3>3. QED
        BY <3>1, <3>2
    <2>6. QED
      BY <1>6, <2>1, <2>5 DEF TypeOK, RecordUnverified
  <1>7. ASSUME NEW r \in Requests, RecordBlocked(r)
        PROVE  TypeOK'
    <2>1. PICK answer \in Answer : Finish(r, answer)
      BY <1>7 DEF RecordBlocked, Answer
    <2>2. request' \in [Requests -> Handler]
      BY <2>1, FinishType
    <2>3. request[r].hook \in Hooks
      BY DEF TypeOK, Handler
    <2>4. QED
      BY <1>7, <2>2, <2>3 DEF TypeOK, RecordBlocked
  <1>8. ASSUME NEW r \in Requests, Abandon(r)
        PROVE  TypeOK'
    <2>1. request' \in [Requests -> Handler]
      BY <1>8, FinishType DEF Abandon, Answer
    <2>2. QED
      BY <1>8, <2>1 DEF TypeOK, Abandon
  <1>9. ASSUME NEW h \in Hooks, ReplacePolicy(h)
        PROVE  TypeOK'
    <2>1. hooks[h].policy \in Policies
      BY DEF TypeOK, HookRow
    <2>2. hooks' \in [Hooks -> HookRow]
      <3>1. hooks[h].policy + 1 \in Policies
        BY <1>9, <2>1 DEF ReplacePolicy, Policies
      <3>2. [hooks[h] EXCEPT !.policy = hooks[h].policy + 1] \in HookRow
        BY <3>1 DEF TypeOK, HookRow
      <3>3. QED
        BY <1>9, <3>2 DEF TypeOK, ReplacePolicy
    <2>3. replaced' \in [Hooks -> [Policies -> 1..NotYet]]
      BY <1>9, <2>1 DEF TypeOK, ReplacePolicy, NotYet
    <2>4. QED
      BY <1>9, <2>2, <2>3 DEF TypeOK, ReplacePolicy
  <1>10. ASSUME NEW h \in Hooks, RotateEndpoint(h)
        PROVE  TypeOK'
    <2>1. hooks[h].key \in Keys
      BY DEF TypeOK, HookRow
    <2>2. hooks' \in [Hooks -> HookRow]
      <3>1. hooks[h].key + 1 \in Keys
        BY <1>10, <2>1 DEF RotateEndpoint, Keys
      <3>2. [hooks[h] EXCEPT !.key = hooks[h].key + 1] \in HookRow
        BY <3>1 DEF TypeOK, HookRow
      <3>3. QED
        BY <1>10, <3>2 DEF TypeOK, RotateEndpoint
    <2>3. QED
      BY <1>10, <2>1, <2>2 DEF TypeOK, RotateEndpoint
  <1>11. ASSUME NEW h \in Hooks, NEW status \in Status, SetStatus(h, status)
        PROVE  TypeOK'
    <2>1. hooks' \in [Hooks -> HookRow]
      BY <1>11 DEF TypeOK, SetStatus, HookRow
    <2>2. QED
      BY <1>11, <2>1 DEF TypeOK, SetStatus
  <1>12. ASSUME NEW h \in Hooks, PurgeHook(h)
        PROVE  TypeOK'
    <2>1. hooks' \in [Hooks -> HookRow]
      BY <1>12 DEF TypeOK, PurgeHook, HookRow, Status
    <2>2. blocks' \in [Hooks -> [Addresses -> BlockRow]]
      BY <1>12, WaitingType DEF TypeOK, PurgeHook
    <2>3. QED
      BY <1>12, <2>1, <2>2 DEF TypeOK, PurgeHook
  <1>13. CASE AccountDeleted
    <2>1. hooks' \in [Hooks -> HookRow]
      BY <1>13 DEF TypeOK, AccountDeleted, HookRow, Status
    <2>2. QED
      BY <1>13, <2>1 DEF TypeOK, AccountDeleted
  <1>14. CASE SelectStaleBlocks
    BY <1>14 DEF TypeOK, SelectStaleBlocks
  <1>15. CASE PurgeStaleBlocks
    BY <1>15, WaitingType DEF TypeOK, PurgeStaleBlocks
  <1>16. CASE Tick
    BY <1>16 DEF TypeOK, Tick
  <1>17. CASE UNCHANGED vars
    BY <1>17 DEF TypeOK, vars
  <1>18. QED
    BY <1>1, <1>2, <1>3, <1>4, <1>5, <1>6, <1>7, <1>8, <1>9, <1>10, <1>11, <1>12, <1>13, <1>14, <1>15, <1>16, <1>17 DEF Next, Serve, Manage

\* The handlers, the rows and the counters always have their types: a row of
\* ip_blocks never holds the number of strikes that should have become a block.
THEOREM TypeCorrect == Spec => []TypeOK
  <1>1. Init => TypeOK
    BY WaitingType, ConstantTypes
    DEF Init, TypeOK, HookRow, Status, Keys, Policies, NotYet
  <1>2. TypeOK /\ [Next]_vars => TypeOK'
    BY TypeStep
  <1>3. QED
    BY <1>1, <1>2, PTL DEF Spec

-----------------------------------------------------------------------------
(* What a step can do, seen from each part of the state.                   *)

\* The handler r receives a request: it keeps what it read, or answers.
Arrives(r) ==
    \E h \in Hooks, k \in Keys :
        LET p == request'[r] IN
        /\ hooks' = hooks /\ retired' = retired /\ clock' = clock
        /\ replaced' = replaced
        /\ p.hook = h /\ p.key = k /\ p.at \in {0, clock}
        /\ p.answer # "unknown"
        /\ k <= hooks[h].key
        /\ p.stage \in {"idle", "routed", "unrouted"}
        /\ p.stage # "idle" => p.at = clock
        /\ p.stage = "routed" =>
              /\ p.policy = hooks[h].policy
              /\ p.barred = 0 \/ p.barred = blocks[h][p.address].until
              /\ blocks' = blocks
        /\ p.stage = "unrouted" => hooks[h].status = "purged" \/ hooks[h].key # k

\* The handler r goes on to its next statement.
GoesOn(r) ==
    \E stage \in {"rejecting", "admitted", "struck"} :
        /\ request[r].stage \in {"routed", "admitted"}
        /\ request'[r] = [request[r] EXCEPT !.stage = stage]
        /\ stage = "admitted" =>
              ~BlockedAt(blocks[request[r].hook][request[r].address], request[r].at)
        /\ hooks' = hooks /\ retired' = retired /\ clock' = clock
        /\ replaced' = replaced

\* The handler r answers.
Answers(r) ==
    \E answer \in Answer :
        /\ request'[r] = Answered(request[r], answer)
        /\ hooks' = hooks /\ retired' = retired /\ clock' = clock
        /\ replaced' = replaced
        /\ answer = "unknown" => /\ request[r].stage = "unrouted"
                                 /\ <<request[r].hook, request[r].key>> \notin retired

LEMMA OneHandler ==
    ASSUME TypeOK, NEW r \in Requests, NEW p, NEW q \in Requests,
           request' = [request EXCEPT ![r] = p]
    PROVE  request'[q] = IF q = r THEN p ELSE request[q]
  BY DEF TypeOK

LEMMA HandlerStep ==
    ASSUME TypeOK, [Next]_vars, NEW q \in Requests
    PROVE  request'[q] = request[q] \/ Arrives(q) \/ GoesOn(q) \/ Answers(q)
  <1> USE ConstantTypes
  <1>1. ASSUME NEW r \in Requests, NEW h \in Hooks, NEW k \in Keys,
               NEW a \in Addresses, NEW signed \in Policies \cup {Unsigned},
               Receive(r, h, k, a, signed), q = r
        PROVE  Arrives(q)
    <2> DEFINE live == hooks[h].status # "purged" /\ hooks[h].key = k
               arrived == [at |-> clock, hook |-> h, key |-> k, address |-> a,
                    signed |-> signed, policy |-> hooks[h].policy,
                    stage |-> IF live THEN "routed" ELSE "unrouted",
                    answer |-> "none",
                    barred |-> IF clock < blocks[h][a].until
                               THEN blocks[h][a].until ELSE 0]
    <2>1. hooks[h].policy \in Policies /\ blocks[h][a].until \in Times
      BY DEF TypeOK, HookRow, BlockRow
    <2>2. arrived \in Handler
      BY <2>1 DEF TypeOK, Handler, Stage, Answer, Times
    <2>3. /\ arrived.hook = h /\ arrived.key = k /\ arrived.at = clock
          /\ arrived.answer = "none" /\ arrived.policy = hooks[h].policy
          /\ arrived.stage = IF live THEN "routed" ELSE "unrouted"
          /\ arrived.barred = 0 \/ arrived.barred = blocks[h][arrived.address].until
      OBVIOUS
    <2> HIDE DEF arrived
    <2>4. PICK p \in {arrived, Answered(arrived, "account_deleted"),
                      Answered(arrived, "inactive")} :
              request' = [request EXCEPT ![r] = p]
      BY <1>1 DEF Receive, arrived
    <2>5. request'[q] = p
      BY <1>1, <2>4 DEF TypeOK
    <2>6. /\ hooks' = hooks /\ retired' = retired /\ clock' = clock
          /\ replaced' = replaced /\ k <= hooks[h].key /\ blocks' = blocks
      BY <1>1 DEF Receive
    <2>7. CASE p = arrived
      <3>1. /\ request'[q].hook = h /\ request'[q].key = k
            /\ request'[q].at = clock /\ request'[q].answer # "unknown"
            /\ request'[q].policy = hooks[h].policy
            /\ request'[q].stage = IF live THEN "routed" ELSE "unrouted"
            /\ request'[q].barred \in {0, blocks[h][request'[q].address].until}
        BY <2>3, <2>5, <2>7
      <3>2. QED
        BY <2>6, <3>1 DEF Arrives
    <2>8. CASE p # arrived
      <3>1. PICK answer \in {"account_deleted", "inactive"} :
                p = Answered(arrived, answer)
        BY <2>8
      <3>2. /\ p.hook = h /\ p.key = k /\ p.at = 0 /\ p.stage = "idle"
            /\ p.answer # "unknown"
        BY <2>2, <2>3, <3>1, AnsweredType DEF Answer
      <3>3. QED
        BY <2>5, <2>6, <3>2 DEF Arrives
    <2>9. QED
      BY <2>7, <2>8
  <1>2. ASSUME NEW r \in Requests, NEW h \in Hooks, NEW k \in Keys,
               NEW a \in Addresses, NEW signed \in Policies \cup {Unsigned},
               Receive(r, h, k, a, signed), q # r
        PROVE  request'[q] = request[q]
    BY <1>2 DEF Receive, TypeOK
  <1>3. ASSUME NEW r \in Requests, FindRetired(r)
        PROVE  request'[q] = request[q] \/ Answers(q)
    BY <1>3 DEF FindRetired, Finish, Answers, TypeOK, Answer
  <1>4. ASSUME NEW r \in Requests, CheckIpBlock(r)
        PROVE  request'[q] = request[q] \/ GoesOn(q)
    <2>1. PICK stage \in {"rejecting", "admitted"} :
              /\ Advance(r, stage)
              /\ stage = "admitted" =>
                    ~BlockedAt(blocks[request[r].hook][request[r].address], request[r].at)
      BY <1>4 DEF CheckIpBlock
    <2>2. request' = [request EXCEPT ![r] = [request[r] EXCEPT !.stage = stage]]
      BY <2>1 DEF Advance
    <2>3. QED
      BY <1>4, <2>1, <2>2, OneHandler DEF CheckIpBlock, GoesOn
  <1>5. ASSUME NEW r \in Requests, CountRejection(r)
        PROVE  request'[q] = request[q] \/ Answers(q)
    BY <1>5 DEF CountRejection, Finish, Answers, TypeOK, Answer
  <1>6. ASSUME NEW r \in Requests, AcceptEvent(r)
        PROVE  request'[q] = request[q] \/ Answers(q)
    BY <1>6 DEF AcceptEvent, Finish, Answers, TypeOK, Answer
  <1>7. ASSUME NEW r \in Requests, RecordUnverified(r)
        PROVE  request'[q] = request[q] \/ GoesOn(q) \/ Answers(q)
    <2>1. CASE Advance(r, "struck")
      <3>1. request' = [request EXCEPT ![r] = [request[r] EXCEPT !.stage = "struck"]]
        BY <2>1 DEF Advance
      <3>2. QED
        BY <1>7, <3>1, OneHandler DEF RecordUnverified, GoesOn
    <2>2. CASE Finish(r, "internal")
      BY <1>7, <2>2 DEF RecordUnverified, Finish, Answers, TypeOK, Answer
    <2>3. QED
      BY <1>7, <2>1, <2>2 DEF RecordUnverified
  <1>8. ASSUME NEW r \in Requests, RecordBlocked(r)
        PROVE  request'[q] = request[q] \/ Answers(q)
    BY <1>8 DEF RecordBlocked, Finish, Answers, TypeOK, Answer
  <1>9. ASSUME NEW r \in Requests, Abandon(r)
        PROVE  request'[q] = request[q] \/ Answers(q)
    BY <1>9 DEF Abandon, Finish, Answers, TypeOK, Answer
  <1>10. ASSUME NEW h \in Hooks, Manage(h)
         PROVE  request' = request
    BY <1>10 DEF Manage, ReplacePolicy, RotateEndpoint, SetStatus, PurgeHook
  <1>11. CASE AccountDeleted \/ SelectStaleBlocks \/ PurgeStaleBlocks \/ Tick
    BY <1>11 DEF AccountDeleted, SelectStaleBlocks, PurgeStaleBlocks, Tick
  <1>12. CASE UNCHANGED vars
    BY <1>12 DEF vars
  <1>13. QED
    BY <1>1, <1>2, <1>3, <1>4, <1>5, <1>6, <1>7, <1>8, <1>9, <1>10, <1>11,
       <1>12 DEF Next, Serve

\* A request's statement touches neither the hooks nor their keys and policies,
\* and the events only in an acceptance.
LEMMA ServeFrame ==
    ASSUME NEW r \in Requests, Serve(r)
    PROVE  /\ hooks' = hooks /\ retired' = retired
           /\ clock' = clock /\ replaced' = replaced
           /\ AcceptEvent(r) \/ (events' = events /\ sequence' = sequence)
  <1> DEFINE Goal == /\ hooks' = hooks /\ retired' = retired
                     /\ clock' = clock /\ replaced' = replaced
                     /\ AcceptEvent(r) \/ (events' = events /\ sequence' = sequence)
  <1>1. ASSUME NEW h \in Hooks, NEW k \in Keys, NEW a \in Addresses,
               NEW signed \in Policies \cup {Unsigned}, Receive(r, h, k, a, signed)
        PROVE  Goal
    BY <1>1 DEF Receive
  <1>2. CASE FindRetired(r)
    BY <1>2 DEF FindRetired
  <1>3. CASE CheckIpBlock(r)
    BY <1>3 DEF CheckIpBlock
  <1>4. CASE CountRejection(r)
    BY <1>4 DEF CountRejection
  <1>5. CASE AcceptEvent(r)
    BY <1>5 DEF AcceptEvent
  <1>6. CASE RecordUnverified(r)
    BY <1>6 DEF RecordUnverified
  <1>7. CASE RecordBlocked(r)
    BY <1>7 DEF RecordBlocked
  <1>8. CASE Abandon(r)
    BY <1>8 DEF Abandon
  <1>9. QED
    BY <1>1, <1>2, <1>3, <1>4, <1>5, <1>6, <1>7, <1>8 DEF Serve

\* A purged hook changes no more, and its keys are settled; what is retired
\* stays retired.
LEMMA PurgedIsFinal ==
    ASSUME TypeOK, [Next]_vars, NEW h \in Hooks
    PROVE  /\ retired \subseteq retired'
           /\ hooks[h].status = "purged"
                => /\ hooks'[h].status = "purged"
                   /\ \A k : <<h, k>> \in retired' => <<h, k>> \in retired
  <1>1. ASSUME NEW g \in Hooks, RotateEndpoint(g)
        PROVE  /\ retired \subseteq retired'
               /\ hooks[h].status = "purged"
                    => /\ hooks'[h].status = "purged"
                       /\ \A k : <<h, k>> \in retired' => <<h, k>> \in retired
    BY <1>1 DEF RotateEndpoint, TypeOK, HookRow
  <1>2. ASSUME NEW g \in Hooks, ReplacePolicy(g)
        PROVE  hooks'[h].status = hooks[h].status /\ retired' = retired
    BY <1>2 DEF ReplacePolicy, TypeOK, HookRow
  <1>3. ASSUME NEW g \in Hooks, NEW status \in Status, SetStatus(g, status)
        PROVE  /\ hooks[h].status = "purged" => hooks'[h].status = "purged"
               /\ retired' = retired
    BY <1>3 DEF SetStatus, TypeOK, HookRow
  <1>4. ASSUME NEW g \in Hooks, PurgeHook(g)
        PROVE  /\ hooks[h].status = "purged" => hooks'[h].status = "purged"
               /\ retired' = retired
    BY <1>4 DEF PurgeHook, TypeOK, HookRow
  <1>5. ASSUME AccountDeleted
        PROVE  /\ hooks[h].status = "purged" => hooks'[h].status = "purged"
               /\ retired' = retired
    BY <1>5 DEF AccountDeleted, TypeOK, HookRow
  <1>6. ASSUME NEW r \in Requests, Serve(r)
        PROVE  hooks' = hooks /\ retired' = retired
    BY <1>6, ServeFrame
  <1>7. ASSUME SelectStaleBlocks \/ PurgeStaleBlocks \/ Tick \/ UNCHANGED vars
        PROVE  hooks' = hooks /\ retired' = retired
    BY <1>7 DEF SelectStaleBlocks, PurgeStaleBlocks, Tick, vars
  <1>8. QED
    BY <1>1, <1>2, <1>3, <1>4, <1>5, <1>6, <1>7 DEF Next, Manage

\* The log of events changes by an acceptance or by a purge.
Accepts(r) ==
    LET p == request[r] IN
    /\ p.stage = "admitted" /\ Verifies(p.policy, p.signed)
    /\ sequence' = sequence + 1
    /\ events' = events \cup {[seq |-> sequence + 1, hook |-> p.hook,
                               at |-> p.at, signed |-> p.signed]}
    /\ hooks' = hooks /\ clock' = clock /\ replaced' = replaced

LEMMA EventsStep ==
    ASSUME TypeOK, [Next]_vars
    PROVE  \/ events' = events /\ sequence' = sequence
           \/ \E r \in Requests : Accepts(r)
           \/ \E h \in Hooks : PurgeHook(h)
  <1>1. ASSUME NEW r \in Requests, AcceptEvent(r)
        PROVE  (events' = events /\ sequence' = sequence) \/ Accepts(r)
    BY <1>1 DEF AcceptEvent, Accepts, NextSequence
  <1>2. ASSUME NEW r \in Requests, Serve(r), ~AcceptEvent(r)
        PROVE  events' = events /\ sequence' = sequence
    BY <1>2, ServeFrame
  <1>3. ASSUME NEW h \in Hooks, Manage(h), ~PurgeHook(h)
        PROVE  events' = events /\ sequence' = sequence
    BY <1>3 DEF Manage, ReplacePolicy, RotateEndpoint, SetStatus
  <1>4. ASSUME \/ AccountDeleted \/ SelectStaleBlocks \/ PurgeStaleBlocks
               \/ Tick \/ UNCHANGED vars
        PROVE  events' = events /\ sequence' = sequence
    BY <1>4 DEF AccountDeleted, SelectStaleBlocks, PurgeStaleBlocks, Tick, vars
  <1>5. QED
    BY <1>1, <1>2, <1>3, <1>4 DEF Next

\* Keys, policies and time change in their own operations only.
LEMMA PolicyStep ==
    ASSUME TypeOK, [Next]_vars, NEW h \in Hooks
    PROVE  /\ hooks'[h].policy = hooks[h].policy \/ ReplacePolicy(h)
           /\ replaced'[h] = replaced[h] \/ ReplacePolicy(h)
           /\ hooks'[h].key = hooks[h].key \/ RotateEndpoint(h)
           /\ clock <= clock'
  <1>1. ASSUME NEW g \in Hooks, ReplacePolicy(g)
        PROVE  /\ g # h => /\ hooks'[h] = hooks[h]
                           /\ replaced'[h] = replaced[h]
               /\ hooks'[h].key = hooks[h].key
               /\ clock' = clock
    BY <1>1 DEF ReplacePolicy, TypeOK, HookRow
  <1>2. ASSUME NEW g \in Hooks, RotateEndpoint(g)
        PROVE  /\ g # h => hooks'[h] = hooks[h]
               /\ hooks'[h].policy = hooks[h].policy
               /\ replaced' = replaced /\ clock' = clock
    BY <1>2 DEF RotateEndpoint, TypeOK, HookRow
  <1>3. ASSUME NEW g \in Hooks, NEW status \in Status,
               SetStatus(g, status) \/ PurgeHook(g) \/ AccountDeleted
        PROVE  /\ hooks'[h].policy = hooks[h].policy
               /\ hooks'[h].key = hooks[h].key
               /\ replaced' = replaced /\ clock' = clock
    <2>1. CASE SetStatus(g, status)
      BY <2>1 DEF SetStatus, TypeOK, HookRow
    <2>2. CASE PurgeHook(g)
      BY <2>2 DEF PurgeHook, TypeOK, HookRow
    <2>3. CASE AccountDeleted
      BY <2>3 DEF AccountDeleted, TypeOK, HookRow
    <2>4. QED
      BY <1>3, <2>1, <2>2, <2>3
  <1>4. ASSUME NEW r \in Requests, Serve(r)
        PROVE  hooks' = hooks /\ replaced' = replaced /\ clock' = clock
    BY <1>4, ServeFrame
  <1>5. ASSUME SelectStaleBlocks \/ PurgeStaleBlocks \/ Tick \/ UNCHANGED vars
        PROVE  hooks' = hooks /\ replaced' = replaced /\ clock <= clock'
    BY <1>5 DEF SelectStaleBlocks, PurgeStaleBlocks, Tick, vars, TypeOK
  <1>6. clock \in Nat
    BY DEF TypeOK
  <1>7. "active" \in Status
    BY DEF Status
  <1>8. QED
    BY <1>1, <1>2, <1>3, <1>4, <1>5, <1>6, <1>7 DEF Next, Manage

-----------------------------------------------------------------------------
(* The inductive invariant.                                                *)

LEMMA SequenceStep ==
    ASSUME TypeOK, [Next]_vars, SequenceIsDense
    PROVE  SequenceIsDense'
  <1>0. /\ sequence \in Nat
        /\ \A e \in events : e.seq \in Nat
        /\ \A h \in Hooks :
             hooks[h].status = "purged" => hooks'[h].status = "purged"
    BY PurgedIsFinal DEF TypeOK, Event
  <1>1. CASE events' = events /\ sequence' = sequence
    BY <1>0, <1>1 DEF SequenceIsDense
  <1>2. ASSUME NEW r \in Requests, Accepts(r)
        PROVE  SequenceIsDense'
    <2> DEFINE new == [seq |-> sequence + 1, hook |-> request[r].hook,
                       at |-> request[r].at, signed |-> request[r].signed]
    <2>1. /\ events' = events \cup {new} /\ sequence' = sequence + 1
          /\ hooks' = hooks
      BY <1>2 DEF Accepts
    <2>2. new.seq = sequence + 1
      OBVIOUS
    <2> HIDE DEF new
    <2>3. \A e \in events : e.seq <= sequence
      BY DEF SequenceIsDense
    <2>4. \A e, f \in events' : e.seq = f.seq => e = f
      BY <1>0, <2>1, <2>2, <2>3 DEF SequenceIsDense
    <2>5. \A e \in events' : e.seq <= sequence'
      BY <1>0, <2>1, <2>2, <2>3
    <2>6. ASSUME NEW n \in 1..sequence', \A h \in Hooks : hooks'[h].status # "purged"
          PROVE  \E e \in events' : e.seq = n
      <3>1. CASE n = sequence + 1
        BY <2>1, <2>2, <3>1
      <3>2. CASE n # sequence + 1
        <4>1. n \in 1..sequence
          BY <1>0, <2>1, <3>2
        <4>2. QED
          BY <2>1, <2>6, <4>1 DEF SequenceIsDense
      <3>3. QED
        BY <3>1, <3>2
    <2>7. QED
      BY <2>4, <2>5, <2>6 DEF SequenceIsDense
  <1>3. ASSUME NEW h \in Hooks, PurgeHook(h)
        PROVE  SequenceIsDense'
    <2>1. events' \subseteq events /\ sequence' = sequence
      BY <1>3 DEF PurgeHook
    <2>2. hooks'[h].status = "purged"
      BY <1>3 DEF PurgeHook, TypeOK, HookRow
    <2>3. QED
      BY <2>1, <2>2 DEF SequenceIsDense
  <1>4. QED
    BY <1>1, <1>2, <1>3, EventsStep

LEMMA KeysStep ==
    ASSUME TypeOK, [Next]_vars, EarlierKeysAreRetired
    PROVE  EarlierKeysAreRetired'
  <1> SUFFICES ASSUME NEW h \in Hooks, NEW k \in Keys, k < hooks'[h].key
               PROVE  <<h, k>> \in retired'
    BY DEF EarlierKeysAreRetired
  <1>1. retired \subseteq retired'
    BY PurgedIsFinal
  <1>2. CASE hooks'[h].key = hooks[h].key
    BY <1>1, <1>2 DEF EarlierKeysAreRetired
  <1>3. CASE RotateEndpoint(h)
    <2>1. hooks[h].key \in Nat /\ k \in Nat
      BY ConstantTypes DEF TypeOK, HookRow, Keys
    <2>2. hooks'[h].key = hooks[h].key + 1
      BY <1>3 DEF RotateEndpoint, TypeOK, HookRow
    <2>3. <<h, hooks[h].key>> \in retired'
      BY <1>3 DEF RotateEndpoint
    <2>4. k < hooks[h].key \/ k = hooks[h].key
      BY <2>1, <2>2
    <2>5. QED
      BY <1>1, <2>3, <2>4 DEF EarlierKeysAreRetired
  <1>4. QED
    BY <1>2, <1>3, PolicyStep

LEMMA RoutingStep ==
    ASSUME TypeOK, TypeOK', [Next]_vars,
           EarlierKeysAreRetired, UnroutedIsGone, UnknownIsGone
    PROVE  UnroutedIsGone' /\ UnknownIsGone'
  <1> SUFFICES ASSUME NEW r \in Requests
               PROVE  /\ request'[r].stage = "unrouted"
                           => \/ hooks'[request'[r].hook].status = "purged"
                              \/ <<request'[r].hook, request'[r].key>> \in retired'
                      /\ request'[r].answer = "unknown"
                           => /\ hooks'[request'[r].hook].status = "purged"
                              /\ <<request'[r].hook, request'[r].key>> \notin retired'
    BY DEF UnroutedIsGone, UnknownIsGone
  <1>0. request[r] \in Handler /\ request[r].hook \in Hooks
    BY DEF TypeOK, Handler
  <1>1. CASE request'[r] = request[r]
    BY <1>0, <1>1, PurgedIsFinal DEF UnroutedIsGone, UnknownIsGone
  <1>2. CASE Arrives(r)
    <2>1. PICK h \in Hooks, k \in Keys :
              /\ hooks' = hooks /\ retired' = retired
              /\ request'[r].hook = h /\ request'[r].key = k
              /\ request'[r].answer # "unknown" /\ k <= hooks[h].key
              /\ request'[r].stage = "unrouted"
                   => hooks[h].status = "purged" \/ hooks[h].key # k
      BY <1>2 DEF Arrives
    <2>2. hooks[h].key \in Nat /\ k \in Nat
      BY ConstantTypes DEF TypeOK, HookRow, Keys
    <2>3. k < hooks[h].key => <<h, k>> \in retired
      BY DEF EarlierKeysAreRetired
    <2>4. request'[r].stage = "unrouted"
             => hooks[h].status = "purged" \/ <<h, k>> \in retired
      BY <2>1, <2>2, <2>3
    <2>5. QED
      BY <2>1, <2>4
  <1>3. CASE GoesOn(r)
    <2>1. PICK stage \in {"rejecting", "admitted", "struck"} :
              /\ request'[r] = [request[r] EXCEPT !.stage = stage]
              /\ hooks' = hooks /\ retired' = retired
      BY <1>3 DEF GoesOn
    <2>2. /\ request'[r].stage = stage /\ request'[r].hook = request[r].hook
          /\ request'[r].key = request[r].key
          /\ request'[r].answer = request[r].answer
      BY <1>0, <2>1 DEF Handler
    <2>3. QED
      BY <2>1, <2>2 DEF UnknownIsGone
  <1>4. CASE Answers(r)
    <2>1. PICK answer \in Answer :
              /\ request'[r] = Answered(request[r], answer)
              /\ hooks' = hooks /\ retired' = retired
              /\ answer = "unknown" =>
                   /\ request[r].stage = "unrouted"
                   /\ <<request[r].hook, request[r].key>> \notin retired
      BY <1>4 DEF Answers
    <2>2. /\ request'[r].hook = request[r].hook
          /\ request'[r].key = request[r].key
          /\ request'[r].answer = answer /\ request'[r].stage = "idle"
      BY <1>0, <2>1, AnsweredType
    <2>3. QED
      BY <2>1, <2>2 DEF UnroutedIsGone
  <1>5. QED
    BY <1>1, <1>2, <1>3, <1>4, HandlerStep

LEMMA HistoryStep ==
    ASSUME TypeOK, TypeOK', [Next]_vars, PolicyHistory
    PROVE  PolicyHistory'
  <1> SUFFICES ASSUME NEW h \in Hooks, NEW v \in Policies
               PROVE  IF v < hooks'[h].policy THEN replaced'[h][v] <= clock'
                                              ELSE replaced'[h][v] = NotYet
    BY DEF PolicyHistory
  <1>0. clock <= clock'
    BY PolicyStep
  <1>1. /\ clock \in Nat /\ clock' \in Nat /\ clock <= clock'
        /\ hooks[h].policy \in Policies /\ v \in Nat
        /\ hooks[h].policy \in Nat /\ replaced[h][v] \in Nat
    <2>1. hooks[h].policy \in Policies /\ replaced[h][v] \in 1..NotYet
      BY DEF TypeOK, HookRow
    <2>2. clock \in Nat /\ clock' \in Nat
      BY ConstantTypes DEF TypeOK
    <2>3. v \in Nat /\ hooks[h].policy \in Nat
      BY <2>1, ConstantTypes DEF Policies
    <2>4. replaced[h][v] \in Nat
      BY <2>1, ConstantTypes DEF NotYet
    <2>5. QED
      BY <1>0, <2>1, <2>2, <2>3, <2>4
  <1>2. CASE ReplacePolicy(h)
    <2>1. /\ hooks'[h].policy = hooks[h].policy + 1 /\ clock' = clock
      BY <1>2 DEF ReplacePolicy, TypeOK, HookRow
    <2>2. replaced'[h] = [replaced[h] EXCEPT ![hooks[h].policy] = clock]
      BY <1>2 DEF ReplacePolicy, TypeOK
    <2>3. replaced'[h][v] = IF v = hooks[h].policy THEN clock ELSE replaced[h][v]
      BY <1>1, <2>2 DEF TypeOK
    <2>4. CASE v = hooks[h].policy
      BY <1>1, <2>1, <2>3, <2>4
    <2>5. CASE v # hooks[h].policy
      BY <1>1, <2>1, <2>3, <2>5 DEF PolicyHistory
    <2>6. QED
      BY <2>4, <2>5
  <1>3. CASE hooks'[h].policy = hooks[h].policy /\ replaced'[h] = replaced[h]
    BY <1>1, <1>3 DEF PolicyHistory
  <1>4. QED
    BY <1>2, <1>3, PolicyStep

\* A policy that was in force at some past instant stays so.
LEMMA InForceStays ==
    ASSUME TypeOK, [Next]_vars, NEW h \in Hooks, NEW t \in Nat, t <= clock,
           NEW v \in InForce(hooks[h].policy, replaced[h], t)
    PROVE  v \in InForce(hooks'[h].policy, replaced'[h], t)
  <1>0. hooks[h].policy \in Policies
    BY DEF TypeOK, HookRow
  <1>1. /\ clock \in Nat /\ v \in 1..hooks[h].policy /\ hooks[h].policy \in Nat
        /\ v = 1 \/ replaced[h][v - 1] <= t
        /\ t <= replaced[h][v]
    BY <1>0, ConstantTypes DEF TypeOK, Policies, InForce
  <1>2. v \in Policies /\ v \in Nat /\ (v # 1 => v - 1 \in Policies)
    BY <1>0, <1>1, ConstantTypes DEF Policies
  <1>3. CASE ReplacePolicy(h)
    <2>1. hooks'[h].policy = hooks[h].policy + 1
      BY <1>3 DEF ReplacePolicy, TypeOK, HookRow
    <2>2. replaced'[h] = [replaced[h] EXCEPT ![hooks[h].policy] = clock]
      BY <1>3 DEF ReplacePolicy, TypeOK
    <2>3. \A w \in Policies : replaced'[h][w] =
             IF w = hooks[h].policy THEN clock ELSE replaced[h][w]
      BY <2>2 DEF TypeOK
    <2>4. t <= replaced'[h][v]
      BY <1>1, <1>2, <2>3
    <2>5. v = 1 \/ replaced'[h][v - 1] <= t
      BY <1>1, <1>2, <2>3
    <2>6. v \in 1..hooks'[h].policy
      BY <1>1, <2>1
    <2>7. QED
      BY <2>4, <2>5, <2>6 DEF InForce
  <1>4. CASE hooks'[h].policy = hooks[h].policy /\ replaced'[h] = replaced[h]
    BY <1>4
  <1>5. QED
    BY <1>3, <1>4, PolicyStep

LEMMA TimeStep ==
    ASSUME TypeOK, TypeOK', [Next]_vars, ReceivedInThePast
    PROVE  ReceivedInThePast'
  <1>1. clock \in Nat /\ clock' \in Nat /\ clock <= clock'
    BY PolicyStep, ConstantTypes DEF TypeOK
  <1>2. ASSUME NEW r \in Requests
        PROVE  request'[r].at <= clock'
    <2>1. /\ request[r] \in Handler /\ request[r].at \in Nat
          /\ request[r].at <= clock
      BY DEF TypeOK, Handler, ReceivedInThePast
    <2>2. CASE request'[r] = request[r]
      BY <1>1, <2>1, <2>2
    <2>3. CASE Arrives(r)
      <3>1. request'[r].at \in {0, clock}
        BY <2>3 DEF Arrives
      <3>2. QED
        BY <1>1, <3>1
    <2>4. CASE GoesOn(r)
      <3>1. request'[r].at = request[r].at
        BY <2>1, <2>4 DEF GoesOn, Handler
      <3>2. QED
        BY <1>1, <2>1, <3>1
    <2>5. CASE Answers(r)
      <3>1. request'[r].at = 0
        BY <2>1, <2>5, AnsweredType DEF Answers
      <3>2. QED
        BY <1>1, <3>1
    <2>6. QED
      BY <2>2, <2>3, <2>4, <2>5, HandlerStep
  <1>3. ASSUME NEW e \in events'
        PROVE  e.at <= clock'
    <2>1. \A f \in events : f.at \in Nat /\ f.at <= clock
      BY DEF TypeOK, Event, ReceivedInThePast
    <2>2. CASE events' = events
      BY <1>1, <2>1, <2>2
    <2>3. ASSUME NEW r \in Requests, Accepts(r)
          PROVE  e.at <= clock'
      <3>1. request[r].at \in Nat /\ request[r].at <= clock
        BY DEF TypeOK, Handler, ReceivedInThePast
      <3>2. e \in events \/ e.at = request[r].at
        BY <2>3 DEF Accepts
      <3>3. QED
        BY <1>1, <2>1, <3>1, <3>2
    <2>4. ASSUME NEW h \in Hooks, PurgeHook(h)
          PROVE  e.at <= clock'
      BY <1>1, <2>1, <2>4 DEF PurgeHook
    <2>5. QED
      BY <2>2, <2>3, <2>4, EventsStep
  <1>4. QED
    BY <1>2, <1>3 DEF ReceivedInThePast


LEMMA SnapshotStep ==
    ASSUME TypeOK, TypeOK', [Next]_vars, PolicyHistory, ReceivedInThePast,
           SnapshotWasInForce
    PROVE  SnapshotWasInForce'
  <1> DEFINE Working == {"routed", "rejecting", "admitted", "struck"}
  <1> SUFFICES ASSUME NEW r \in Requests, request'[r].stage \in Working
               PROVE  request'[r].policy \in InForce(hooks'[request'[r].hook].policy,
                                                    replaced'[request'[r].hook],
                                                    request'[r].at)
    BY DEF SnapshotWasInForce
  <1>0. /\ request[r] \in Handler /\ request[r].hook \in Hooks
        /\ request[r].at \in Nat /\ request[r].at <= clock
    BY DEF TypeOK, Handler, ReceivedInThePast
  <1>1. ASSUME request[r].stage \in Working
        PROVE  request[r].policy \in InForce(hooks'[request[r].hook].policy,
                                            replaced'[request[r].hook],
                                            request[r].at)
    <2>1. request[r].policy \in InForce(hooks[request[r].hook].policy,
                                       replaced[request[r].hook], request[r].at)
      BY <1>1 DEF SnapshotWasInForce
    <2>2. \A h \in Hooks : \A t \in Nat : \A v :
             /\ t <= clock
             /\ v \in InForce(hooks[h].policy, replaced[h], t)
             => v \in InForce(hooks'[h].policy, replaced'[h], t)
      BY InForceStays
    <2>3. QED
      BY <1>0, <2>1, <2>2
  <1>2. CASE request'[r] = request[r]
    BY <1>1, <1>2
  <1>3. CASE Arrives(r)
    <2>1. PICK h \in Hooks :
              /\ hooks' = hooks /\ replaced' = replaced
              /\ request'[r].hook = h /\ request'[r].at = clock
              /\ request'[r].policy = hooks[h].policy
      BY <1>3 DEF Arrives
    <2>2. /\ hooks[h].policy \in Policies /\ hooks[h].policy \in Nat \ {0}
          /\ clock \in 1..MaxClock
      <3>1. hooks[h].policy \in Policies /\ clock \in 1..MaxClock
        BY DEF TypeOK, HookRow
      <3>2. QED
        BY <3>1, ConstantTypes DEF Policies
    <2>3. clock <= replaced[h][hooks[h].policy]
      BY <2>2, ConstantTypes DEF PolicyHistory, NotYet
    <2>4. hooks[h].policy = 1 \/ replaced[h][hooks[h].policy - 1] <= clock
      <3>1. CASE hooks[h].policy # 1
        <4>1. hooks[h].policy - 1 \in Policies
          BY <2>2, <3>1, ConstantTypes DEF Policies
        <4>2. hooks[h].policy - 1 < hooks[h].policy
          BY <2>2
        <4>3. QED
          BY <4>1, <4>2 DEF PolicyHistory
      <3>2. QED
        BY <3>1
    <2>5. hooks[h].policy \in InForce(hooks[h].policy, replaced[h], clock)
      BY <2>2, <2>3, <2>4 DEF InForce
    <2>6. QED
      BY <2>1, <2>5
  <1>4. CASE GoesOn(r)
    <2>1. /\ request[r].stage \in Working
          /\ request'[r].hook = request[r].hook /\ request'[r].at = request[r].at
          /\ request'[r].policy = request[r].policy
      BY <1>0, <1>4 DEF GoesOn, Handler
    <2>2. QED
      BY <1>1, <2>1
  <1>5. CASE Answers(r)
    BY <1>0, <1>5, AnsweredType DEF Answers
  <1>6. QED
    BY <1>2, <1>3, <1>4, <1>5, HandlerStep

LEMMA AuthenticStep ==
    ASSUME TypeOK, [Next]_vars, ReceivedInThePast, SnapshotWasInForce,
           AuthenticWhenReceived
    PROVE  AuthenticWhenReceived'
  <1> SUFFICES ASSUME NEW e \in events'
               PROVE  \E v \in InForce(hooks'[e.hook].policy, replaced'[e.hook], e.at) :
                          v \in Optional \/ e.signed = v
    BY DEF AuthenticWhenReceived
  <1>1. ASSUME e \in events
        PROVE  \E v \in InForce(hooks'[e.hook].policy, replaced'[e.hook], e.at) :
                   v \in Optional \/ e.signed = v
    <2>1. e.hook \in Hooks /\ e.at \in Nat /\ e.at <= clock
      BY <1>1 DEF TypeOK, Event, ReceivedInThePast
    <2>2. PICK v \in InForce(hooks[e.hook].policy, replaced[e.hook], e.at) :
              v \in Optional \/ e.signed = v
      BY <1>1 DEF AuthenticWhenReceived
    <2>3. v \in InForce(hooks'[e.hook].policy, replaced'[e.hook], e.at)
      BY <2>1, <2>2, InForceStays
    <2>4. QED
      BY <2>2, <2>3
  <1>2. ASSUME NEW r \in Requests, Accepts(r), e \notin events
        PROVE  \E v \in InForce(hooks'[e.hook].policy, replaced'[e.hook], e.at) :
                   v \in Optional \/ e.signed = v
    <2>1. /\ e.hook = request[r].hook /\ e.at = request[r].at
          /\ e.signed = request[r].signed
          /\ hooks' = hooks /\ replaced' = replaced
          /\ request[r].stage = "admitted"
          /\ Verifies(request[r].policy, request[r].signed)
      BY <1>2 DEF Accepts
    <2>2. request[r].policy \in InForce(hooks[e.hook].policy, replaced[e.hook], e.at)
      BY <2>1 DEF SnapshotWasInForce
    <2>3. QED
      BY <2>1, <2>2 DEF Verifies
  <1>3. ASSUME NEW h \in Hooks, PurgeHook(h)
        PROVE  e \in events
    BY <1>3 DEF PurgeHook
  <1>4. QED
    BY <1>1, <1>2, <1>3, EventsStep

\* IInv holds in every reachable state.
THEOREM Invariance == Spec => []IInv
  <1>1. Init => IInv
    <2>1. Init => TypeOK
      BY WaitingType, ConstantTypes
      DEF Init, TypeOK, HookRow, Status, Keys, Policies, NotYet
    <2>2. Waiting.stage = "idle" /\ Waiting.answer = "none" /\ Waiting.at = 0
      BY DEF Waiting
    <2>3. Init => SequenceIsDense /\ AuthenticWhenReceived
      BY DEF Init, SequenceIsDense, AuthenticWhenReceived
    <2>4. Init => EarlierKeysAreRetired /\ PolicyHistory
      BY ConstantTypes DEF Init, EarlierKeysAreRetired, PolicyHistory, Keys, Policies
    <2>5. Init => /\ UnroutedIsGone /\ UnknownIsGone
                  /\ ReceivedInThePast /\ SnapshotWasInForce
      BY <2>2 DEF Init, UnroutedIsGone, UnknownIsGone, ReceivedInThePast,
                  SnapshotWasInForce
    <2>6. QED
      BY <2>1, <2>3, <2>4, <2>5 DEF IInv
  <1>2. IInv /\ [Next]_vars => IInv'
    BY TypeStep, SequenceStep, KeysStep, RoutingStep, HistoryStep, TimeStep,
       SnapshotStep, AuthenticStep DEF IInv
  <1>3. QED
    BY <1>1, <1>2, PTL DEF Spec

\* However acceptances, failures, purges and dropped handlers interleave, the
\* events of the Silicon have distinct positions without gaps.
THEOREM DensePositions == Spec => []SequenceIsDense
  BY Invariance, PTL DEF IInv

\* Although routing is two queries with other work between them, a URL that was
\* issued is answered as unknown only after its hook was purged, and never for
\* a key the hook had retired.
THEOREM IssuedUrlsAreKnown == Spec => []IssuedKeyIsKnown
  <1>1. IInv => IssuedKeyIsKnown
    <2> SUFFICES ASSUME IInv, NEW r \in Requests, request[r].answer = "unknown"
                 PROVE  /\ hooks[request[r].hook].status = "purged"
                        /\ request[r].key >= hooks[request[r].hook].key
      BY DEF IssuedKeyIsKnown
    <2>1. request[r] \in Handler
      BY DEF IInv, TypeOK
    <2>2. request[r].hook \in Hooks /\ request[r].key \in Keys
      BY <2>1 DEF Handler
    <2>3. hooks[request[r].hook].key \in Keys
      BY <2>2 DEF IInv, TypeOK, HookRow
    <2>4. /\ hooks[request[r].hook].status = "purged"
          /\ ~(request[r].key < hooks[request[r].hook].key)
      BY <2>2 DEF IInv, UnknownIsGone, EarlierKeysAreRetired
    <2>5. QED
      BY <2>2, <2>3, <2>4, ConstantTypes DEF Keys
  <1>2. QED
    BY <1>1, Invariance, PTL

\* However many policies are replaced while requests are in flight, what is
\* stored verifies under a policy that was in force when it was received.
THEOREM StoredIsAuthentic == Spec => []AuthenticWhenReceived
  BY Invariance, PTL DEF IInv

-----------------------------------------------------------------------------
(* Blocks.                                                                 *)

BlockInv == TypeOK /\ ReceivedInThePast /\ HandlersAreInTime /\ BlockOutlastsRequest

\* What a step may make of the end of an address's block: it stays, a handler
\* in flight or a purge takes it away once it has passed, or a handler in flight
\* sets a new one.
LEMMA UntilMoves ==
    ASSUME TypeOK, [Next]_vars, [PurgesOnlyLapsed]_vars, NEW h \in Hooks, NEW a \in Addresses,
           hooks'[h].status # "purged"
    PROVE  LET before == blocks[h][a].until
               after == blocks'[h][a].until
           IN  \/ after = before
               \/ \E q \in Requests : /\ request[q].stage # "idle"
                                      /\ \/ request[q].at >= before
                                         \/ after = request[q].at + BlockTime
               \/ before <= clock
  <1> DEFINE before == blocks[h][a].until
             after == blocks'[h][a].until
             Strikes(q) == /\ request[q].stage # "idle"
                           /\ \/ request[q].at >= before
                              \/ after = request[q].at + BlockTime
             Goal == after = before \/ (\E q \in Requests : Strikes(q)) \/ before <= clock
  <1>1. ASSUME NEW q \in Requests, CountRejection(q)
        PROVE  Goal
    <2>1. request[q].hook \in Hooks /\ request[q].address \in Addresses
      BY DEF TypeOK, Handler
    <2>2. after = before
      BY <1>1, <2>1 DEF CountRejection, TypeOK, BlockRow
    <2>3. QED
      BY <2>2
  <1>2. ASSUME NEW q \in Requests, RecordUnverified(q)
        PROVE  Goal
    <2> DEFINE p == request[q]
               old == blocks[p.hook][p.address]
    <2>1. p.hook \in Hooks /\ p.address \in Addresses /\ p.at \in Nat
      BY DEF TypeOK, Handler
    <2>2. CASE blocks' = blocks
      BY <2>2
    <2>3. CASE blocks' = [blocks EXCEPT ![p.hook][p.address] = Struck(old, p.at)]
      <3>1. CASE p.hook = h /\ p.address = a
        <4>1. after = Struck(blocks[h][a], p.at).until
          BY <2>1, <2>3, <3>1 DEF TypeOK
        <4>2. \/ after = before \/ p.at >= before
              \/ after = p.at + BlockTime
          BY <4>1 DEF Struck
        <4>3. p.stage # "idle"
          BY <1>2 DEF RecordUnverified
        <4>4. QED
          BY <4>2, <4>3
      <3>2. CASE ~(p.hook = h /\ p.address = a)
        BY <2>1, <2>3, <3>2 DEF TypeOK
      <3>3. QED
        BY <3>1, <3>2
    <2>4. QED
      BY <1>2, <2>2, <2>3 DEF RecordUnverified
  <1>3. ASSUME NEW g \in Hooks, PurgeHook(g)
        PROVE  Goal
    <2>1. g # h
      BY <1>3 DEF PurgeHook, TypeOK, HookRow
    <2>2. QED
      BY <1>3, <2>1 DEF PurgeHook, TypeOK
  <1>4. CASE PurgeStaleBlocks
    <2>1. CASE <<h, a>> \in stale
      <3>1. PurgesOnlyLapsed
        BY <1>4 DEF PurgeStaleBlocks, vars
      <3>2. before <= clock
        BY <1>4, <2>1, <3>1 DEF PurgesOnlyLapsed
      <3>3. QED
        BY <3>2
    <2>2. CASE <<h, a>> \notin stale
      BY <1>4, <2>2 DEF PurgeStaleBlocks
    <2>3. QED
      BY <2>1, <2>2
  <1>5. ASSUME blocks' = blocks
        PROVE  Goal
    BY <1>5
  <1>6. QED
    <2>1. ASSUME NEW q \in Requests, Serve(q)
          PROVE  Goal
      <3>1. ASSUME NEW g \in Hooks, NEW k \in Keys, NEW b \in Addresses,
                   NEW signed \in Policies \cup {Unsigned}, Receive(q, g, k, b, signed)
            PROVE  blocks' = blocks
        BY <3>1 DEF Receive
      <3> HIDE DEF Goal
      <3>2. QED
        BY <1>1, <1>2, <1>5, <2>1, <3>1
           DEF Serve, FindRetired, CheckIpBlock, AcceptEvent, RecordBlocked, Abandon
    <2>2. ASSUME NEW g \in Hooks, Manage(g)
          PROVE  Goal
      BY <1>3, <1>5, <2>2 DEF Manage, ReplacePolicy, RotateEndpoint, SetStatus
    <2>3. ASSUME AccountDeleted \/ SelectStaleBlocks \/ Tick \/ UNCHANGED vars
          PROVE  Goal
      BY <1>5, <2>3 DEF AccountDeleted, SelectStaleBlocks, Tick, vars
    <2>4. QED
      BY <1>4, <2>1, <2>2, <2>3 DEF Next

\* The request timeout, and the clock that no step but Tick moves.
LEMMA InTimeStep ==
    ASSUME TypeOK, TypeOK', [Next]_vars, HandlersAreInTime
    PROVE  HandlersAreInTime'
  <1> SUFFICES ASSUME NEW r \in Requests, request'[r].stage # "idle"
               PROVE  clock' <= request'[r].at + RequestTime
    BY DEF HandlersAreInTime
  <1>1. CASE Tick
    BY <1>1 DEF Tick
  <1>2. CASE clock' = clock
    <2>1. /\ clock \in Nat /\ request[r] \in Handler /\ RequestTime \in Nat
          /\ request[r].at \in Nat /\ request'[r].at \in Nat
      BY ConstantTypes DEF TypeOK, Handler
    <2>2. CASE request'[r] = request[r]
      BY <1>2, <2>2 DEF HandlersAreInTime
    <2>3. CASE Arrives(r)
      <3>1. request'[r].at = clock
        BY <2>3 DEF Arrives
      <3>2. QED
        BY <1>2, <2>1, <3>1
    <2>4. CASE GoesOn(r)
      <3>1. request[r].stage # "idle" /\ request'[r].at = request[r].at
        BY <2>1, <2>4 DEF GoesOn, Handler
      <3>2. QED
        BY <1>2, <3>1 DEF HandlersAreInTime
    <2>5. CASE Answers(r)
      BY <2>1, <2>5, AnsweredType DEF Answers
    <2>6. QED
      BY <2>2, <2>3, <2>4, <2>5, HandlerStep
  <1>3. QED
    <2>1. ASSUME NEW q \in Requests, Serve(q)
          PROVE  clock' = clock
      BY <2>1, ServeFrame
    <2>2. ASSUME NEW g \in Hooks, Manage(g)
          PROVE  clock' = clock
      BY <2>2 DEF Manage, ReplacePolicy, RotateEndpoint, SetStatus, PurgeHook
    <2>3. ASSUME AccountDeleted \/ SelectStaleBlocks \/ PurgeStaleBlocks \/ UNCHANGED vars
          PROVE  clock' = clock
      BY <2>3 DEF AccountDeleted, SelectStaleBlocks, PurgeStaleBlocks, vars
    <2>4. QED
      BY <1>1, <1>2, <2>1, <2>2, <2>3 DEF Next

\* A request that waits for its check keeps a row that bars it: who shortens or
\* lifts the block was received too late for the block or so recently that its
\* own block outlasts the request.
LEMMA OutlastsStep ==
    ASSUME BlockInv, TypeOK', [Next]_vars, [PurgesOnlyLapsed]_vars
    PROVE  BlockOutlastsRequest'
  <1> SUFFICES ASSUME NEW r \in Requests, request'[r].stage = "routed",
                      clock' < request'[r].barred,
                      hooks'[request'[r].hook].status # "purged"
               PROVE  LET p == request'[r]
                          until == blocks'[p.hook][p.address].until
                      IN  until >= p.barred \/ until > p.at + RequestTime
    BY DEF BlockOutlastsRequest
  <1> DEFINE p == request[r]
             before == blocks[p.hook][p.address].until
             after == blocks'[p.hook][p.address].until
  <1>1. /\ TypeOK /\ clock \in Nat /\ clock' \in Nat /\ clock <= clock'
        /\ p \in Handler /\ p.hook \in Hooks /\ p.address \in Addresses
        /\ \A q \in Requests : request[q].at \in Nat
    BY PolicyStep, ConstantTypes DEF BlockInv, TypeOK, Handler
  <1>2. CASE request'[r] = request[r]
    <2>1. /\ p.stage = "routed" /\ clock < p.barred /\ p.barred \in Nat
          /\ hooks[p.hook].status # "purged"
      <3>1. p.barred \in Nat
        BY <1>1, ConstantTypes DEF Handler, Times
      <3>2. hooks[p.hook].status # "purged"
        BY <1>1, <1>2, PurgedIsFinal
      <3>3. QED
        BY <1>1, <1>2, <3>1, <3>2
    <2>2. before \in Nat /\ after \in Nat
      BY <1>1, ConstantTypes DEF TypeOK, BlockRow, Times
    <2>3. before >= p.barred \/ before > p.at + RequestTime
      BY <2>1 DEF BlockInv, BlockOutlastsRequest
    <2>4. clock <= p.at + RequestTime /\ p.at <= clock /\ p.at \in Nat
      BY <1>1, <2>1 DEF BlockInv, HandlersAreInTime, ReceivedInThePast
    <2>5. before > clock
      BY <1>1, <2>1, <2>2, <2>3, <2>4, ConstantTypes
    <2>6. CASE after = before
      BY <1>2, <2>3, <2>6
    <2>7. ASSUME NEW q \in Requests, request[q].stage # "idle",
                 request[q].at >= before \/ after = request[q].at + BlockTime
          PROVE  after > p.at + RequestTime
      <3>1. request[q].at <= clock /\ clock <= request[q].at + RequestTime
        BY <2>7 DEF BlockInv, HandlersAreInTime, ReceivedInThePast
      <3>2. after = request[q].at + BlockTime
        BY <1>1, <2>2, <2>5, <2>7, <3>1
      <3>3. QED
        BY <1>1, <2>2, <2>4, <3>1, <3>2, ConstantTypes, BlockAssumption
    <2>8. ~(before <= clock)
      BY <1>1, <2>2, <2>5
    <2>9. QED
      BY <1>1, <1>2, <2>6, <2>7, <2>8, UntilMoves
  <1>3. CASE Arrives(r)
    <2>1. PICK h \in Hooks :
              /\ request'[r].hook = h /\ blocks' = blocks
              /\ \/ request'[r].barred = 0
                 \/ request'[r].barred = blocks[h][request'[r].address].until
      BY <1>3 DEF Arrives
    <2>2. request'[r].barred # 0
      BY <1>1
    <2>3. request'[r].barred \in Nat
      BY ConstantTypes DEF TypeOK, Handler, Times
    <2>4. QED
      BY <2>1, <2>2, <2>3
  <1>4. CASE GoesOn(r)
    BY <1>1, <1>4 DEF GoesOn, Handler
  <1>5. CASE Answers(r)
    BY <1>1, <1>5, AnsweredType DEF Answers
  <1>6. QED
    BY <1>1, <1>2, <1>3, <1>4, <1>5, HandlerStep

\* Where a step lets a request through, its address's block has ended.
LEMMA AdmitsAfterBlock ==
    ASSUME BlockInv, [Next]_vars, NEW r \in Requests,
           request[r].stage = "routed", request'[r].stage = "admitted",
           hooks[request[r].hook].status # "purged"
    PROVE  clock >= request[r].barred
  <1> DEFINE p == request[r]
             until == blocks[p.hook][p.address].until
  <1>1. /\ TypeOK /\ clock \in Nat /\ p \in Handler
        /\ p.hook \in Hooks /\ p.address \in Addresses
        /\ p.at \in Nat /\ p.barred \in Nat /\ p.at <= clock
    BY ConstantTypes DEF BlockInv, TypeOK, Handler, Times, ReceivedInThePast
  <1>2. until \in Nat
    BY <1>1, ConstantTypes DEF TypeOK, BlockRow, Times
  <1>3. ~BlockedAt(blocks[p.hook][p.address], p.at)
    <2>1. request'[r] # request[r]
      OBVIOUS
    <2>2. ~Arrives(r)
      BY DEF Arrives
    <2>3. ~Answers(r)
      BY <1>1, AnsweredType DEF Answers
    <2>4. PICK stage \in {"rejecting", "admitted", "struck"} :
              /\ request'[r] = [request[r] EXCEPT !.stage = stage]
              /\ stage = "admitted" => ~BlockedAt(blocks[p.hook][p.address], p.at)
      BY <1>1, <2>1, <2>2, <2>3, HandlerStep DEF GoesOn
    <2>5. request'[r].stage = stage
      BY <1>1, <2>4 DEF Handler
    <2>6. QED
      BY <2>4, <2>5
  <1>4. until <= p.at
    BY <1>1, <1>2, <1>3 DEF BlockedAt
  <1>5. CASE clock < p.barred
    <2>1. until >= p.barred \/ until > p.at + RequestTime
      BY <1>5 DEF BlockInv, BlockOutlastsRequest
    <2>2. QED
      BY <1>1, <1>2, <1>4, <1>5, <2>1, ConstantTypes
  <1>6. QED
    BY <1>1, <1>5

\* A request that arrived during a block of its address is not let through before
\* the block's end, for any number of handlers in flight and any threshold: a
\* strike that comes late may replace the block by one that ends earlier, but none
\* that the waiting request lives to see.  This supposes that no purge takes a row
\* that was blocked after the purge selected it.
THEOREM BlockHolds == Spec /\ [][PurgesOnlyLapsed]_vars => BlockedIsRejected
  <1>1. Init => BlockInv
    <2>1. Init => TypeOK
      BY WaitingType, ConstantTypes
      DEF Init, TypeOK, HookRow, Status, Keys, Policies, NotYet
    <2>2. Waiting.stage = "idle" /\ Waiting.at = 0
      BY DEF Waiting
    <2>3. QED
      BY <2>1, <2>2 DEF Init, BlockInv, ReceivedInThePast, HandlersAreInTime,
                        BlockOutlastsRequest
  <1>2. BlockInv /\ [Next]_vars /\ [PurgesOnlyLapsed]_vars => BlockInv'
    BY TypeStep, TimeStep, InTimeStep, OutlastsStep DEF BlockInv
  <1>3. BlockInv /\ [Next]_vars
          => [\A r \in Requests :
                 /\ request[r].stage = "routed" /\ request'[r].stage = "admitted"
                 /\ hooks[request[r].hook].status # "purged"
                 => clock >= request[r].barred]_vars
    BY AdmitsAfterBlock
  <1>4. QED
    BY <1>1, <1>2, <1>3, PTL DEF Spec, BlockedIsRejected
=============================================================================
