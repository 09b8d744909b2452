-------------------------- MODULE TingOutboxProofs --------------------------
(***************************************************************************)
(* The safety of the outbox for any number of sends, publishers and lease  *)
(* ids, any delays and any lease that covers one attempt.                  *)
(***************************************************************************)
EXTENDS TingOutbox, TLAPS

\* retry_delay always yields a delay of at most MaxDelay.
LEMMA RetryDelayBounded ==
    ASSUME NEW n, NEW transient
    PROVE  RetryDelay(n, transient) \in 0..MaxDelay
  BY OutboxAssumption DEF RetryDelay

\* Whatever made a send fail, the next attempt waits for some delay.
LEMMA FailsWithDelay ==
    ASSUME NEW p \in Publishers, AskedToWait(p) \/ SendFails(p) \/ TimesOut(p)
    PROVE  \E d \in Nat : Fails(p, d)
  <1> USE OutboxAssumption
  <1>1. CASE AskedToWait(p)
    BY <1>1 DEF AskedToWait
  <1>2. CASE SendFails(p)
    <2>1. PICK transient \in BOOLEAN :
              Fails(p, RetryDelay(attempts[pub[p].send], transient))
      BY <1>2 DEF SendFails
    <2>2. RetryDelay(attempts[pub[p].send], transient) \in Nat
      BY RetryDelayBounded
    <2>3. QED
      BY <2>1, <2>2
  <1>3. CASE TimesOut(p)
    <2>1. RetryDelay(attempts[pub[p].send], TRUE) \in Nat
      BY DEF RetryDelay
    <2>2. QED
      BY <1>3, <2>1 DEF TimesOut
  <1>4. QED
    BY <1>1, <1>2, <1>3

\* Moving a row in the index of claim_ting leaves an index of rows.
LEMMA ReorderedType ==
    ASSUME TypeOK, NEW s \in Sends, NEW d
    PROVE  /\ Unindexed(s) \subseteq Sends \X Sends
           /\ Reordered(s, d) \subseteq Sends \X Sends
  BY DEF TypeOK, Unindexed, Reordered

LEMMA IdleType == Idle \in Publisher /\ Idle.pc \notin Working
  BY DEF Idle, Publisher, Working

\* A publisher whose record is replaced by one of the right shape.
LEMMA PublisherUpdate ==
    ASSUME TypeOK, NEW p \in Publishers, NEW r \in Publisher,
           r.pc \in Working => r.send \in Sends,
           pub' = [pub EXCEPT ![p] = r]
    PROVE  /\ pub' \in [Publishers -> Publisher]
           /\ \A q \in Publishers : pub'[q].pc \in Working => pub'[q].send \in Sends
  BY DEF TypeOK

\* The records publish_one goes through keep the shape of a publisher.
LEMMA RecordType ==
    ASSUME NEW r \in Publisher, r.pc \in Working, r.send \in Sends
    PROVE  /\ \A d \in Nat :
                  LET f == [r EXCEPT !.pc = "failed", !.spent = 0, !.delay = d]
                  IN  f \in Publisher /\ f.send \in Sends /\ f.pc = "failed"
           /\ LET f == [r EXCEPT !.pc = "answered", !.spent = 0]
              IN  f \in Publisher /\ f.send \in Sends /\ f.pc = "answered"
           /\ LET f == [r EXCEPT !.pc = "sending", !.spent = 0]
              IN  f \in Publisher /\ f.send \in Sends /\ f.pc = "sending"
           /\ LET f == [r EXCEPT !.pc = "sending", !.retried = TRUE]
              IN  f \in Publisher /\ f.send \in Sends /\ f.pc = "sending"
           /\ LET f == [r EXCEPT !.pc = "posted"]
              IN  f \in Publisher /\ f.send \in Sends /\ f.pc = "posted"
  BY DEF Publisher, Working

\* Every step of the publishers, Ting, retention and time keeps the types.
LEMMA TypeStep ==
    ASSUME TypeOK, [Next]_vars
    PROVE  TypeOK'
  <1> USE OutboxAssumption
  <1>0. \A p \in Publishers : pub[p] \in Publisher
    BY DEF TypeOK
  <1>1. ASSUME NEW s \in Sends, Enqueue(s)
        PROVE  TypeOK'
    BY <1>1, ReorderedType DEF Enqueue, TypeOK
  <1>2. ASSUME NEW s \in Sends, TingReceives(s)
        PROVE  TypeOK'
    BY <1>2 DEF TingReceives, rowVars, TypeOK
  <1>3. ASSUME NEW s \in Sends, Expire(s)
        PROVE  TypeOK'
    BY <1>3 DEF Expire, TypeOK
  <1>4. ASSUME NEW s \in Sends, Remove(s)
        PROVE  TypeOK'
    <2>1. earlier' \subseteq Sends \X Sends
      BY <1>4, ReorderedType DEF Remove
    <2>2. /\ status' \in [Sends -> {"none", "queued", "parked", "accepted", "gone"}]
          /\ expired' \in [Sends -> BOOLEAN]
      BY <1>4 DEF Remove, TypeOK
    <2>3. /\ attempts' \in [Sends -> 0..(MaxExponent + 1)]
          /\ dueIn' \in [Sends -> Nat]
      BY <1>4 DEF Remove, TypeOK
    <2>4. /\ lease' \in [Sends -> Leases \cup {NoLease}]
          /\ leaseLeft' \in [Sends -> Nat]
      BY <1>4 DEF Remove, TypeOK
    <2>5. QED
      BY <1>4, <2>1, <2>2, <2>3, <2>4 DEF Remove, TypeOK
  <1>5. ASSUME Tick
        PROVE  TypeOK'
    <2>1. dueIn' \in [Sends -> Nat] /\ leaseLeft' \in [Sends -> Nat]
      BY <1>5 DEF Tick, Countdown, TypeOK
    <2>2. /\ pub' \in [Publishers -> Publisher]
          /\ \A p \in Publishers : pub'[p].pc = pub[p].pc /\ pub'[p].send = pub[p].send
      BY <1>5, <1>0 DEF Tick, Publisher, Working
    <2>3. QED
      BY <1>5, <2>1, <2>2 DEF Tick, TypeOK
  <1>6. ASSUME NEW p \in Publishers, Claim(p)
        PROVE  TypeOK'
    <2>1. PICK s \in Sends, l \in Leases \ HeldLeases :
              /\ lease' = [lease EXCEPT ![s] = l]
              /\ leaseLeft' = [leaseLeft EXCEPT ![s] = LeaseTime]
              /\ attempts' = [attempts EXCEPT ![s] =
                                  IF @ <= MaxExponent THEN @ + 1 ELSE @]
              /\ pub' = [pub EXCEPT ![p] =
                            [Idle EXCEPT !.pc = "claimed", !.send = s, !.lease = l]]
      BY <1>6 DEF Claim
    <2> DEFINE r == [Idle EXCEPT !.pc = "claimed", !.send = s, !.lease = l]
    <2>2. r \in Publisher /\ r.send \in Sends
      BY DEF Idle, Publisher, Working
    <2>3. /\ pub' \in [Publishers -> Publisher]
          /\ \A q \in Publishers : pub'[q].pc \in Working => pub'[q].send \in Sends
      BY <2>1, <2>2, PublisherUpdate
    <2>4. QED
      BY <1>6, <2>1, <2>3 DEF Claim, TypeOK
  <1>7. ASSUME NEW p \in Publishers, NEW r \in Publisher,
               r.pc \in Working => r.send \in Sends,
               pub' = [pub EXCEPT ![p] = r],
               wire' \subseteq Sends, UNCHANGED <<rowVars, stored>>
        PROVE  TypeOK'
    BY <1>7, PublisherUpdate DEF rowVars, TypeOK
  <1>8. ASSUME NEW p \in Publishers, pub[p].pc \in Working
        PROVE  pub[p].send \in Sends
    BY <1>8 DEF TypeOK
  <1>9. ASSUME NEW p \in Publishers, CheckClaim(p)
        PROVE  TypeOK'
    BY <1>9, <1>0, <1>7, <1>8, IdleType, RecordType
       DEF CheckClaim, Working, TypeOK, rowVars
  <1>10. ASSUME NEW p \in Publishers, Post(p) \/ ProofRefused(p) \/ Accepted(p)
         PROVE  TypeOK'
    <2>1. pub[p] \in Publisher /\ pub[p].pc \in Working /\ pub[p].send \in Sends
      BY <1>10, <1>0, <1>8 DEF Post, ProofRefused, Accepted, Working
    <2>2. CASE Post(p)
      <3> DEFINE r == [pub[p] EXCEPT !.pc = "posted"]
      <3>1. r \in Publisher /\ r.send \in Sends
        BY <2>1, RecordType
      <3>2. pub' = [pub EXCEPT ![p] = r] /\ wire' \subseteq Sends
        BY <2>1, <2>2 DEF Post, TypeOK
      <3>3. QED
        BY <2>2, <3>1, <3>2, <1>7 DEF Post
    <2>3. CASE ProofRefused(p)
      <3> DEFINE r == [pub[p] EXCEPT !.pc = "sending", !.retried = TRUE]
      <3>1. r \in Publisher /\ r.send \in Sends
        BY <2>1, RecordType
      <3>2. QED
        BY <2>3, <3>1, <1>7 DEF ProofRefused, TypeOK
    <2>4. CASE Accepted(p)
      <3> DEFINE r == [pub[p] EXCEPT !.pc = "answered", !.spent = 0]
      <3>1. r \in Publisher /\ r.send \in Sends
        BY <2>1, RecordType
      <3>2. QED
        BY <2>4, <3>1, <1>7 DEF Accepted, TypeOK
    <2>5. QED
      BY <1>10, <2>2, <2>3, <2>4
  <1>11. ASSUME NEW p \in Publishers, NEW d \in Nat, pub[p].pc \in Working, Fails(p, d)
         PROVE  TypeOK'
    BY <1>11, <1>0, <1>7, <1>8, RecordType DEF Fails, TypeOK
  <1>12. ASSUME NEW p \in Publishers, AskedToWait(p) \/ SendFails(p) \/ TimesOut(p)
         PROVE  TypeOK'
    <2>1. pub[p].pc \in Working
      BY <1>12 DEF AskedToWait, SendFails, TimesOut, Working
    <2>2. \E d \in Nat : Fails(p, d)
      BY <1>12, FailsWithDelay
    <2>3. QED
      BY <1>11, <2>1, <2>2
  <1>13. ASSUME NEW p \in Publishers, Complete(p)
         PROVE  TypeOK'
    <2>1. pub[p].send \in Sends
      BY <1>8, <1>13 DEF Complete, Working
    <2>2. /\ pub' \in [Publishers -> Publisher]
          /\ \A q \in Publishers : pub'[q].pc \in Working => pub'[q].send \in Sends
      BY <1>13, PublisherUpdate, IdleType DEF Complete
    <2>3. Unindexed(pub[p].send) \subseteq Sends \X Sends
      BY <2>1, ReorderedType
    <2>4. /\ status' \in [Sends -> {"none", "queued", "parked", "accepted", "gone"}]
          /\ lease' \in [Sends -> Leases \cup {NoLease}]
          /\ leaseLeft' \in [Sends -> Nat]
          /\ earlier' \subseteq Sends \X Sends
      BY <1>13, <2>1, <2>3 DEF Complete, TypeOK
    <2>5. QED
      BY <1>13, <2>2, <2>4 DEF Complete, TypeOK
  <1>14. ASSUME NEW p \in Publishers, Retry(p)
         PROVE  TypeOK'
    <2>1. pub[p].send \in Sends /\ pub[p].delay \in Nat
      BY <1>0, <1>8, <1>14 DEF Retry, Working, Publisher
    <2>2. /\ pub' \in [Publishers -> Publisher]
          /\ \A q \in Publishers : pub'[q].pc \in Working => pub'[q].send \in Sends
      BY <1>14, PublisherUpdate, IdleType DEF Retry
    <2>3. QED
      BY <1>14, <2>1, <2>2, ReorderedType DEF Retry, TypeOK
  <1>15. ASSUME NEW p \in Publishers, Abandon(p)
         PROVE  TypeOK'
    BY <1>15, <1>7, IdleType DEF Abandon, TypeOK
  <1>16. CASE UNCHANGED vars
    BY <1>16 DEF vars, TypeOK
  <1>17. QED
    BY <1>1, <1>2, <1>3, <1>4, <1>5, <1>6, <1>9, <1>10, <1>12,
       <1>13, <1>14, <1>15, <1>16 DEF Next, PublisherStep

\* The types hold in every state of the outbox.
THEOREM TypeCorrect == Spec => []TypeOK
  <1>1. Init => TypeOK
    BY OutboxAssumption, IdleType DEF Init, TypeOK
  <1>2. TypeOK /\ [Next]_vars => TypeOK'
    BY TypeStep
  <1>3. QED
    BY <1>1, <1>2, PTL DEF Spec

-----------------------------------------------------------------------------
(* The lease covers the attempt.                                           *)

\* While a publisher works, its row's lease has not lapsed.
LEMMA LeaseAlive ==
    ASSUME TypeOK, LeaseCovers, NEW p \in Publishers, pub[p].pc \in Working,
           status[pub[p].send] = "queued"
    PROVE  leaseLeft[pub[p].send] > 0 /\ lease[pub[p].send] = pub[p].lease
  <1> DEFINE s == pub[p].send
  <1>1. /\ pub[p].spent \in Nat /\ leaseLeft[s] \in Nat
        /\ pub[p].spent <= StepLimit(pub[p].pc)
        /\ leaseLeft[s] >= LeaseFloor(pub[p].pc) - pub[p].spent
        /\ lease[s] = pub[p].lease
    BY DEF TypeOK, LeaseCovers, Publisher
  <1>2. LeaseFloor(pub[p].pc) - StepLimit(pub[p].pc) > 0
    BY OutboxAssumption DEF LeaseFloor, StepLimit, Working
  <1>3. LeaseFloor(pub[p].pc) \in Int /\ StepLimit(pub[p].pc) \in Int
    BY OutboxAssumption DEF LeaseFloor, StepLimit
  <1>4. QED
    BY <1>1, <1>2, <1>3

\* Nobody works on a row that claim_ting finds due.
LEMMA DueIsFree ==
    ASSUME TypeOK, LeaseCovers, NEW s \in Sends, Due(s),
           NEW q \in Publishers, pub[q].pc \in Working
    PROVE  pub[q].send # s
  BY LeaseAlive DEF Due, TypeOK

\* A step of one publisher that leaves the rows and Ting alone and keeps its
\* send and its lease, with no more than its share of the lease used.
LEMMA PublisherOnlyStep ==
    ASSUME Inv, NEW p \in Publishers, NEW r \in Publisher,
           UNCHANGED <<rowVars, stored>>, pub' = [pub EXCEPT ![p] = r],
           r.pc \in Working =>
               /\ pub[p].pc \in Working
               /\ r.send = pub[p].send /\ r.lease = pub[p].lease
               /\ r.spent <= StepLimit(r.pc)
               /\ LeaseFloor(r.pc) - r.spent <= LeaseFloor(pub[p].pc) - pub[p].spent
               /\ r.pc = "answered" => r.send \in stored,
           wire' \cap Parked = {}
    PROVE  /\ LeaseCovers' /\ OneSender' /\ AnsweredIsStored'
           /\ AcceptedIsStored' /\ ParkedStaysParked'
  <1>0. /\ TypeOK /\ pub'[p] = r
        /\ \A q \in Publishers : q # p => pub'[q] = pub[q]
        /\ \A q \in Publishers : pub[q] \in Publisher
    BY DEF Inv, TypeOK
  <1>1. LeaseCovers'
    <2> SUFFICES ASSUME NEW q \in Publishers, pub'[q].pc \in Working
                 PROVE  /\ pub'[q].spent <= StepLimit(pub'[q].pc)
                        /\ pub'[q].lease \in Leases
                        /\ status[pub'[q].send] \in {"queued", "gone"}
                        /\ pub'[q].send \notin Parked
                        /\ status[pub'[q].send] = "queued" =>
                              /\ lease[pub'[q].send] = pub'[q].lease
                              /\ leaseLeft[pub'[q].send]
                                     >= LeaseFloor(pub'[q].pc) - pub'[q].spent
      BY DEF LeaseCovers, rowVars
    <2>1. CASE q # p
      BY <1>0, <2>1 DEF Inv, LeaseCovers
    <2>2. CASE q = p
      <3>1. /\ pub[p].spent \in Nat /\ r.spent \in Nat /\ pub[p].send \in Sends
            /\ leaseLeft[pub[p].send] \in Nat
        BY <1>0, <2>2 DEF TypeOK, Publisher
      <3>2. LeaseFloor(r.pc) \in Int /\ LeaseFloor(pub[p].pc) \in Int
        BY OutboxAssumption DEF LeaseFloor
      <3>3. QED
        BY <1>0, <2>2, <3>1, <3>2 DEF Inv, LeaseCovers
    <2>3. QED
      BY <2>1, <2>2
  <1>2. OneSender'
    BY <1>0 DEF Inv, OneSender
  <1>3. AnsweredIsStored'
    BY <1>0 DEF Inv, AnsweredIsStored, Working
  <1>4. AcceptedIsStored' /\ ParkedStaysParked'
    BY DEF Inv, AcceptedIsStored, ParkedStaysParked, ParkedNeverSent, rowVars
  <1>5. QED
    BY <1>1, <1>2, <1>3, <1>4

\* Every step keeps the inductive invariant.
LEMMA InvStep ==
    ASSUME Inv, [Next]_vars
    PROVE  Inv'
  <1> DEFINE Rest == /\ LeaseCovers' /\ OneSender' /\ AnsweredIsStored'
                     /\ AcceptedIsStored' /\ ParkedStaysParked'
  <1> SUFFICES Rest
    BY TypeStep DEF Inv
  <1>0. /\ TypeOK /\ LeaseCovers /\ OneSender /\ TypeOK'
        /\ \A p \in Publishers : pub[p] \in Publisher
        /\ \A p \in Publishers : pub[p].pc \in Working => pub[p].send \in Sends
    BY TypeStep DEF Inv, TypeOK
  <1>1. ASSUME NEW s \in Sends, Enqueue(s)
        PROVE  Rest
    <2>1. s \notin Parked
      BY <1>1 DEF Enqueue, Inv, ParkedStaysParked
    <2>2. \A q \in Publishers : pub[q].pc \in Working => pub[q].send # s
      BY <1>1 DEF Enqueue, Inv, LeaseCovers
    <2>3. LeaseCovers'
      BY <1>0, <1>1, <2>2 DEF Enqueue, LeaseCovers, TypeOK
    <2>4. AcceptedIsStored' /\ ParkedStaysParked'
      BY <1>0, <1>1, <2>1
         DEF Enqueue, Inv, AcceptedIsStored, ParkedStaysParked, ParkedNeverSent, TypeOK
    <2>5. QED
      BY <1>1, <2>3, <2>4 DEF Enqueue, Inv, OneSender, AnsweredIsStored
  <1>2. ASSUME NEW s \in Sends, TingReceives(s)
        PROVE  Rest
    BY <1>2 DEF TingReceives, rowVars, Inv, LeaseCovers, OneSender,
                AnsweredIsStored, AcceptedIsStored, ParkedStaysParked, ParkedNeverSent
  <1>3. ASSUME NEW s \in Sends, Expire(s)
        PROVE  Rest
    BY <1>3 DEF Expire, Inv, LeaseCovers, OneSender,
                AnsweredIsStored, AcceptedIsStored, ParkedStaysParked, ParkedNeverSent
  <1>4. ASSUME NEW s \in Sends, Remove(s)
        PROVE  Rest
    <2>1. /\ status'[s] = "gone" /\ pub' = pub /\ stored' = stored /\ wire' = wire
          /\ \A r \in Sends : r # s => /\ status'[r] = status[r]
                                       /\ lease'[r] = lease[r]
                                       /\ leaseLeft'[r] = leaseLeft[r]
      BY <1>0, <1>4 DEF Remove, TypeOK
    <2>2. LeaseCovers'
      BY <1>0, <2>1 DEF LeaseCovers
    <2>3. AcceptedIsStored' /\ ParkedStaysParked'
      BY <2>1, OutboxAssumption
         DEF Inv, AcceptedIsStored, ParkedStaysParked, ParkedNeverSent
    <2>4. QED
      BY <2>1, <2>2, <2>3 DEF Inv, OneSender, AnsweredIsStored
  <1>5. ASSUME Tick
        PROVE  Rest
    <2>1. \A p \in Publishers :
              /\ pub'[p].pc = pub[p].pc
              /\ pub'[p].send = pub[p].send
              /\ pub'[p].lease = pub[p].lease
              /\ pub[p].pc \in Working =>
                     /\ pub'[p].spent = pub[p].spent + 1
                     /\ pub[p].spent < StepLimit(pub[p].pc)
                     /\ pub[p].spent \in Nat
      BY <1>0, <1>5 DEF Tick, Publisher
    <2>2. /\ status' = status /\ lease' = lease
          /\ \A s \in Sends : leaseLeft[s] \in Nat /\ leaseLeft'[s] >= leaseLeft[s] - 1
                              /\ leaseLeft'[s] \in Nat
      BY <1>0, <1>5 DEF Tick, Countdown, TypeOK
    <2>3. \A pc \in Working : LeaseFloor(pc) \in Int /\ StepLimit(pc) \in Nat
      BY OutboxAssumption DEF LeaseFloor, StepLimit
    <2>4. LeaseCovers'
      <3> SUFFICES ASSUME NEW p \in Publishers, pub[p].pc \in Working
                   PROVE  LET s == pub[p].send
                          IN  /\ pub[p].spent + 1 <= StepLimit(pub[p].pc)
                              /\ pub[p].lease \in Leases
                              /\ status[s] \in {"queued", "gone"}
                              /\ s \notin Parked
                              /\ status[s] = "queued" =>
                                    /\ lease[s] = pub[p].lease
                                    /\ leaseLeft'[s] >=
                                          LeaseFloor(pub[p].pc) - (pub[p].spent + 1)
        BY <2>1, <2>2 DEF LeaseCovers
      <3>1. pub[p].spent + 1 <= StepLimit(pub[p].pc)
        BY <2>1, <2>3
      <3>2. ASSUME status[pub[p].send] = "queued"
            PROVE  leaseLeft'[pub[p].send] >=
                       LeaseFloor(pub[p].pc) - (pub[p].spent + 1)
        <4>1. leaseLeft[pub[p].send] >= LeaseFloor(pub[p].pc) - pub[p].spent
          BY <1>0, <3>2 DEF LeaseCovers
        <4>2. QED
          BY <1>0, <2>1, <2>2, <2>3, <4>1
      <3>3. QED
        BY <1>0, <3>1, <3>2 DEF LeaseCovers
    <2>5. QED
      BY <1>5, <2>1, <2>2, <2>4
         DEF Tick, Inv, OneSender, AnsweredIsStored, AcceptedIsStored,
             ParkedStaysParked, ParkedNeverSent
  <1>6. ASSUME NEW p \in Publishers, Claim(p)
        PROVE  Rest
    <2>1. PICK s \in Sends, l \in Leases \ HeldLeases :
              /\ Due(s)
              /\ lease' = [lease EXCEPT ![s] = l]
              /\ leaseLeft' = [leaseLeft EXCEPT ![s] = LeaseTime]
              /\ pub' = [pub EXCEPT ![p] =
                            [Idle EXCEPT !.pc = "claimed", !.send = s, !.lease = l]]
      BY <1>6 DEF Claim
    <2>2. /\ pub'[p].pc = "claimed" /\ pub'[p].send = s /\ pub'[p].lease = l
          /\ pub'[p].spent = 0
          /\ \A q \in Publishers : q # p => pub'[q] = pub[q]
          /\ status' = status /\ stored' = stored /\ wire' = wire
      BY <1>0, <1>6, <2>1 DEF Claim, Idle, TypeOK
    <2>3. \A q \in Publishers : pub[q].pc \in Working => pub[q].send # s
      BY <1>0, <2>1, DueIsFree
    <2>4. status[s] = "queued" /\ s \notin Parked
      BY <2>1 DEF Due, Inv, ParkedStaysParked
    <2>5. LeaseCovers'
      <3> SUFFICES ASSUME NEW q \in Publishers, pub'[q].pc \in Working
                   PROVE  LET u == pub'[q].send
                          IN  /\ pub'[q].spent <= StepLimit(pub'[q].pc)
                              /\ pub'[q].lease \in Leases
                              /\ status'[u] \in {"queued", "gone"}
                              /\ u \notin Parked
                              /\ status'[u] = "queued" =>
                                    /\ lease'[u] = pub'[q].lease
                                    /\ leaseLeft'[u] >=
                                          LeaseFloor(pub'[q].pc) - pub'[q].spent
        BY DEF LeaseCovers
      <3>1. CASE q = p
        BY <1>0, <2>1, <2>2, <2>4, <3>1, OutboxAssumption
           DEF LeaseFloor, StepLimit, TypeOK
      <3>2. CASE q # p
        BY <1>0, <2>1, <2>2, <2>3, <3>2 DEF LeaseCovers, TypeOK
      <3>3. QED
        BY <3>1, <3>2
    <2>6. OneSender'
      BY <1>0, <2>2, <2>3 DEF OneSender
    <2>7. QED
      BY <2>2, <2>5, <2>6 DEF Inv, AnsweredIsStored, AcceptedIsStored,
                              ParkedStaysParked, ParkedNeverSent
  <1>7. ASSUME NEW p \in Publishers,
               CheckClaim(p) \/ Post(p) \/ ProofRefused(p) \/ Accepted(p) \/ Abandon(p)
        PROVE  Rest
    <2>1. /\ pub[p] \in Publisher /\ pub[p].pc \in Working /\ pub[p].send \in Sends
          /\ pub[p].spent \in Nat /\ pub[p].spent <= StepLimit(pub[p].pc)
          /\ pub[p].send \notin Parked
          /\ wire \cap Parked = {}
      BY <1>0, <1>7 DEF CheckClaim, Post, ProofRefused, Accepted, Abandon, Working,
                        Publisher, LeaseCovers, Inv, ParkedStaysParked, ParkedNeverSent
    <2>2. CASE pub' = [pub EXCEPT ![p] = Idle] /\ UNCHANGED <<rowVars, wire, stored>>
      BY <2>1, <2>2, IdleType, PublisherOnlyStep
    <2>3. CASE CheckClaim(p) /\ Current(p)
      <3> DEFINE r == [pub[p] EXCEPT !.pc = "sending", !.spent = 0]
      <3>1. /\ r \in Publisher /\ r.send = pub[p].send /\ r.lease = pub[p].lease
            /\ r.pc = "sending" /\ r.spent = 0
        BY <2>1 DEF Publisher, Working
      <3>2. LeaseFloor(r.pc) - r.spent <= LeaseFloor(pub[p].pc) - pub[p].spent
        BY <2>1, <2>3, <3>1, OutboxAssumption DEF CheckClaim, LeaseFloor, StepLimit
      <3>3. r.spent <= StepLimit(r.pc)
        BY <3>1, OutboxAssumption DEF StepLimit
      <3>4. pub' = [pub EXCEPT ![p] = r] /\ UNCHANGED <<rowVars, wire, stored>>
        BY <2>3 DEF CheckClaim
      <3>5. QED
        BY <2>1, <3>1, <3>2, <3>3, <3>4, PublisherOnlyStep
    <2>4. CASE Post(p)
      <3> DEFINE r == [pub[p] EXCEPT !.pc = "posted"]
      <3>1. /\ r \in Publisher /\ r.send = pub[p].send /\ r.lease = pub[p].lease
            /\ r.pc = "posted" /\ r.spent = pub[p].spent
        BY <2>1 DEF Publisher, Working
      <3>2. LeaseFloor(r.pc) - r.spent <= LeaseFloor(pub[p].pc) - pub[p].spent
        BY <2>1, <2>4, <3>1, OutboxAssumption DEF Post, LeaseFloor
      <3>3. r.spent <= StepLimit(r.pc)
        BY <2>1, <2>4, <3>1, OutboxAssumption DEF Post, StepLimit
      <3>4. pub' = [pub EXCEPT ![p] = r] /\ UNCHANGED <<rowVars, stored>>
            /\ wire' \cap Parked = {}
        BY <2>1, <2>4 DEF Post
      <3>5. QED
        BY <2>1, <3>1, <3>2, <3>3, <3>4, PublisherOnlyStep
    <2>5. CASE ProofRefused(p)
      <3> DEFINE r == [pub[p] EXCEPT !.pc = "sending", !.retried = TRUE]
      <3>1. /\ r \in Publisher /\ r.send = pub[p].send /\ r.lease = pub[p].lease
            /\ r.pc = "sending" /\ r.spent = pub[p].spent
        BY <2>1 DEF Publisher, Working
      <3>2. LeaseFloor(r.pc) - r.spent <= LeaseFloor(pub[p].pc) - pub[p].spent
        BY <2>1, <2>5, <3>1, OutboxAssumption DEF ProofRefused, LeaseFloor
      <3>3. r.spent <= StepLimit(r.pc)
        BY <2>1, <2>5, <3>1, OutboxAssumption DEF ProofRefused, StepLimit
      <3>4. pub' = [pub EXCEPT ![p] = r] /\ UNCHANGED <<rowVars, wire, stored>>
        BY <2>5 DEF ProofRefused
      <3>5. QED
        BY <2>1, <3>1, <3>2, <3>3, <3>4, PublisherOnlyStep
    <2>6. CASE Accepted(p)
      <3> DEFINE r == [pub[p] EXCEPT !.pc = "answered", !.spent = 0]
      <3>1. /\ r \in Publisher /\ r.send = pub[p].send /\ r.lease = pub[p].lease
            /\ r.pc = "answered" /\ r.spent = 0 /\ r.send \in stored
        BY <2>1, <2>6 DEF Publisher, Working, Accepted
      <3>2. LeaseFloor(r.pc) - r.spent <= LeaseFloor(pub[p].pc) - pub[p].spent
        BY <2>1, <2>6, <3>1, OutboxAssumption DEF Accepted, LeaseFloor, StepLimit
      <3>3. r.spent <= StepLimit(r.pc)
        BY <3>1, OutboxAssumption DEF StepLimit
      <3>4. pub' = [pub EXCEPT ![p] = r] /\ UNCHANGED <<rowVars, wire, stored>>
        BY <2>6 DEF Accepted
      <3>5. QED
        BY <2>1, <3>1, <3>2, <3>3, <3>4, PublisherOnlyStep
    <2>7. QED
      BY <1>7, <2>2, <2>3, <2>4, <2>5, <2>6 DEF CheckClaim, Abandon
  <1>8. ASSUME NEW p \in Publishers, NEW d \in Nat,
               pub[p].pc \in {"sending", "posted"}, Fails(p, d)
        PROVE  Rest
    <2> DEFINE r == [pub[p] EXCEPT !.pc = "failed", !.spent = 0, !.delay = d]
    <2>1. /\ pub[p] \in Publisher /\ pub[p].pc \in Working
          /\ pub[p].spent \in Nat /\ pub[p].spent <= StepLimit(pub[p].pc)
          /\ wire \cap Parked = {}
      BY <1>0, <1>8 DEF Working, Publisher, LeaseCovers, Inv,
                        ParkedStaysParked, ParkedNeverSent
    <2>2. /\ r \in Publisher /\ r.send = pub[p].send /\ r.lease = pub[p].lease
          /\ r.pc = "failed" /\ r.spent = 0
      BY <1>8, <2>1 DEF Publisher, Working
    <2>3. LeaseFloor(r.pc) - r.spent <= LeaseFloor(pub[p].pc) - pub[p].spent
      BY <1>8, <2>1, <2>2, OutboxAssumption DEF LeaseFloor, StepLimit
    <2>4. r.spent <= StepLimit(r.pc)
      BY <2>2, OutboxAssumption DEF StepLimit
    <2>5. pub' = [pub EXCEPT ![p] = r] /\ UNCHANGED <<rowVars, wire, stored>>
      BY <1>8 DEF Fails
    <2>6. QED
      BY <2>1, <2>2, <2>3, <2>4, <2>5, PublisherOnlyStep
  <1>9. ASSUME NEW p \in Publishers, AskedToWait(p) \/ SendFails(p) \/ TimesOut(p)
        PROVE  Rest
    <2>1. pub[p].pc \in {"sending", "posted"}
      BY <1>9 DEF AskedToWait, SendFails, TimesOut
    <2>2. \E d \in Nat : Fails(p, d)
      BY <1>9, FailsWithDelay
    <2>3. QED
      BY <1>8, <2>1, <2>2
  <1>10. ASSUME NEW p \in Publishers, Complete(p) \/ Retry(p)
         PROVE  Rest
    <2> DEFINE s == pub[p].send
    <2>1. /\ pub[p].pc \in Working /\ s \in Sends /\ s \notin Parked
          /\ pub' = [pub EXCEPT ![p] = Idle] /\ stored' = stored /\ wire' = wire
      BY <1>0, <1>10 DEF Complete, Retry, Working, LeaseCovers
    <2>2. /\ pub'[p].pc \notin Working
          /\ \A q \in Publishers : q # p => pub'[q] = pub[q]
      BY <1>0, <2>1, IdleType DEF TypeOK
    <2>3. \A r \in Sends : r # s => /\ status'[r] = status[r]
                                    /\ lease'[r] = lease[r]
                                    /\ leaseLeft'[r] = leaseLeft[r]
      BY <1>0, <1>10 DEF Complete, Retry, TypeOK
    <2>4. \A q \in Publishers : q # p /\ pub[q].pc \in Working => pub[q].send # s
      BY <1>0, <2>1 DEF OneSender
    <2>5. LeaseCovers'
      BY <1>0, <2>2, <2>3, <2>4 DEF LeaseCovers
    <2>6. OneSender' /\ AnsweredIsStored'
      BY <2>1, <2>2 DEF Inv, OneSender, AnsweredIsStored, Working
    <2>7. AcceptedIsStored'
      <3>1. status'[s] = "accepted" => s \in stored
        BY <1>0, <1>10, <2>1
           DEF Complete, Retry, Inv, AnsweredIsStored, AcceptedIsStored, TypeOK
      <3>2. QED
        BY <2>1, <2>3, <3>1 DEF Inv, AcceptedIsStored
    <2>8. ParkedStaysParked'
      BY <2>1, <2>3, OutboxAssumption DEF Inv, ParkedStaysParked, ParkedNeverSent
    <2>9. QED
      BY <2>5, <2>6, <2>7, <2>8
  <1>11. CASE UNCHANGED vars
    BY <1>11 DEF vars, Inv, LeaseCovers, OneSender, AnsweredIsStored,
                 AcceptedIsStored, ParkedStaysParked, ParkedNeverSent
  <1>12. QED
    BY <1>1, <1>2, <1>3, <1>4, <1>5, <1>6, <1>7, <1>9, <1>10, <1>11
       DEF Next, PublisherStep

\* The lease of claim_ting covers every attempt, whatever the interleaving.
THEOREM Invariance == Spec => []Inv
  <1>1. Init => Inv
    <2> SUFFICES ASSUME Init PROVE Inv
      OBVIOUS
    <2>1. TypeOK
      BY OutboxAssumption, IdleType DEF Init, TypeOK
    <2>2. \A p \in Publishers : pub[p].pc = "idle"
      BY DEF Init, Idle
    <2>3. QED
      BY <2>1, <2>2, OutboxAssumption
         DEF Init, Inv, LeaseCovers, OneSender, AnsweredIsStored, AcceptedIsStored,
             ParkedStaysParked, ParkedNeverSent, Working
  <1>2. Inv /\ [Next]_vars => Inv'
    BY InvStep
  <1>3. QED
    BY <1>1, <1>2, PTL DEF Spec

\* Two publishers never work on the same send at once.
THEOREM MutualExclusion == Spec => []OneSender
  <1>1. Inv => OneSender
    BY DEF Inv
  <1>2. QED
    BY <1>1, Invariance, PTL

\* The outbox marks a send accepted only when Ting holds it.
THEOREM Truthful == Spec => []AcceptedIsStored
  <1>1. Inv => AcceptedIsStored
    BY DEF Inv
  <1>2. QED
    BY <1>1, Invariance, PTL

\* A confirmed acceptance is recorded unless the event or its row is gone.
THEOREM NoLostAcceptance == Spec => []AcceptanceRecordable
  <1>1. Inv => AcceptanceRecordable
    <2> SUFFICES ASSUME Inv, NEW p \in Publishers, pub[p].pc = "answered"
                 PROVE  LET s == pub[p].send
                        IN  Current(p) \/ expired[s] \/ status[s] = "gone"
      BY DEF AcceptanceRecordable
    <2>1. pub[p].pc \in Working /\ status[pub[p].send] \in {"queued", "gone"}
      BY DEF Inv, LeaseCovers, Working
    <2>2. QED
      BY <2>1, LeaseAlive DEF Inv, Current
  <1>2. QED
    BY <1>1, Invariance, PTL

\* No attempt is under way for a send already recorded as accepted.
THEOREM AcceptedIsFinal == Spec => []NoWorkAfterAcceptance
  <1>1. Inv => NoWorkAfterAcceptance
    BY DEF Inv, LeaseCovers, NoWorkAfterAcceptance
  <1>2. QED
    BY <1>1, Invariance, PTL

\* What is left of a lease covers what is left of the attempt under it, so
\* claim_ting takes no row that publish_one still works on.
THEOREM WorkIsCovered == Spec => []LeaseCovers
  <1>1. Inv => LeaseCovers
    BY DEF Inv
  <1>2. QED
    BY <1>1, Invariance, PTL

\* The rows that migration 0019 parked never reach Ting.
THEOREM ParkedStays == Spec => []ParkedNeverSent
  <1>1. Inv => ParkedNeverSent
    BY DEF Inv, ParkedStaysParked, ParkedNeverSent
  <1>2. QED
    BY <1>1, Invariance, PTL

\* What is on its way to Ting or there has, or had, a queued row.
SentRows == \A s \in wire \cup stored : status[s] \in {"queued", "accepted", "gone"}

LEMMA SentRowsStep ==
  ASSUME Inv, SentRows, [Next]_vars
  PROVE  SentRows'
  <1> USE DEF SentRows
  <1>1. ASSUME NEW p \in Publishers, Post(p) PROVE SentRows'
    <2>1. pub[p].send \in Sends /\ status[pub[p].send] \in {"queued", "gone"}
      BY <1>1 DEF Inv, TypeOK, LeaseCovers, Post, Working
    <2>2. QED
      BY <1>1, <2>1 DEF Post, rowVars
  <1>2. ASSUME NEW p \in Publishers, Complete(p) PROVE SentRows'
    BY <1>2 DEF Complete, Inv, TypeOK
  <1>3. ASSUME NEW p \in Publishers,
               Claim(p) \/ CheckClaim(p) \/ ProofRefused(p) \/ Accepted(p)
               \/ AskedToWait(p) \/ SendFails(p) \/ TimesOut(p) \/ Retry(p) \/ Abandon(p)
        PROVE  SentRows'
    <2>1. UNCHANGED <<status, wire, stored>>
      BY <1>3 DEF Claim, CheckClaim, ProofRefused, Accepted, AskedToWait, SendFails,
                  TimesOut, Fails, Retry, Abandon, rowVars
    <2>2. QED
      BY <2>1
  <1>4. ASSUME NEW s \in Sends, Enqueue(s) \/ Expire(s) \/ Remove(s) PROVE SentRows'
    BY <1>4 DEF Enqueue, Expire, Remove, Inv, TypeOK
  <1>5. ASSUME NEW s \in Sends, TingReceives(s) PROVE SentRows'
    BY <1>5 DEF TingReceives, rowVars
  <1>6. CASE Tick \/ UNCHANGED vars
    BY <1>6 DEF Tick, vars
  <1>7. QED
    BY <1>1, <1>2, <1>3, <1>4, <1>5, <1>6 DEF Next, PublisherStep

\* A step that changes no status and gives Ting nothing stutters.
LEMMA KnownStutters ==
  ASSUME UNCHANGED <<status, stored>>
  PROVE  UNCHANGED <<Known, stored>>
  BY DEF Known

\* A step that changes the status of one row changes what is known of it only.
LEMMA KnownChanges ==
  ASSUME NEW s \in Sends, NEW new \in {"queued", "accepted", "gone"}, TypeOK,
         status' = [status EXCEPT ![s] = new]
  PROVE  Known' = [Known EXCEPT ![s] = CASE new = "queued" -> "pending"
                                         [] new = "accepted" -> "accepted_by_ting"
                                         [] OTHER -> "forgotten"]
  BY DEF Known, TypeOK

LEMMA PromiseStep ==
  ASSUME Inv, SentRows, [Next]_vars
  PROVE  [Promise!NextNotification]_<<Known, stored>>
  <1>1. ASSUME NEW p \in Publishers, Complete(p) PROVE [Promise!NextNotification]_<<Known, stored>>
    <2> DEFINE s == pub[p].send
    <2>1. s \in Sends /\ s \in stored /\ status[s] \in {"queued", "gone"}
      BY <1>1 DEF Complete, Inv, TypeOK, AnsweredIsStored, LeaseCovers, Working
    <2>2. CASE Current(p)
      <3>1. status[s] = "queued" /\ status' = [status EXCEPT ![s] = "accepted"]
            /\ UNCHANGED stored
        BY <1>1, <2>1, <2>2 DEF Complete, Current
      <3>2. Known[s] = "pending"
        BY <2>1, <3>1 DEF Known
      <3>3. Known' = [Known EXCEPT ![s] = "accepted_by_ting"]
        BY <2>1, <3>1, KnownChanges DEF Inv
      <3>4. Promise!Confirm(s)
        BY <2>1, <3>1, <3>2, <3>3 DEF Promise!Confirm
      <3>5. QED
        BY <2>1, <3>4 DEF Promise!NextNotification
    <2>3. CASE ~Current(p)
      BY <1>1, <2>3, KnownStutters DEF Complete
    <2>4. QED
      BY <2>2, <2>3
  <1>2. ASSUME NEW p \in Publishers,
               Claim(p) \/ CheckClaim(p) \/ Post(p) \/ ProofRefused(p) \/ Accepted(p)
               \/ AskedToWait(p) \/ SendFails(p) \/ TimesOut(p) \/ Retry(p) \/ Abandon(p)
        PROVE  [Promise!NextNotification]_<<Known, stored>>
    <2>1. UNCHANGED <<status, stored>>
      BY <1>2 DEF Claim, CheckClaim, Post, ProofRefused, Accepted, AskedToWait, SendFails,
                  TimesOut, Fails, Retry, Abandon, rowVars
    <2>2. QED
      BY <2>1, KnownStutters
  <1>3. ASSUME NEW s \in Sends, Enqueue(s) PROVE [Promise!NextNotification]_<<Known, stored>>
    <2>1. Known[s] = "not_queued"
      BY <1>3 DEF Enqueue, Known
    <2>2. Known' = [Known EXCEPT ![s] = "pending"] /\ UNCHANGED stored
      BY <1>3, KnownChanges DEF Enqueue, Inv
    <2>3. QED
      BY <2>1, <2>2 DEF Promise!Want, Promise!NextNotification
  <1>4. ASSUME NEW s \in Sends, Remove(s) PROVE [Promise!NextNotification]_<<Known, stored>>
    <2>1. Known[s] \in {"pending", "not_delivered_legacy", "accepted_by_ting"}
      BY <1>4 DEF Remove, Known
    <2>2. Known' = [Known EXCEPT ![s] = "forgotten"] /\ UNCHANGED stored
      BY <1>4, KnownChanges DEF Remove, Inv
    <2>3. QED
      BY <2>1, <2>2 DEF Promise!Forget, Promise!NextNotification
  <1>5. ASSUME NEW s \in Sends, TingReceives(s) PROVE [Promise!NextNotification]_<<Known, stored>>
    <2>1. s \in wire /\ stored' = stored \cup {s} /\ UNCHANGED status
      BY <1>5 DEF TingReceives, rowVars
    <2>2. UNCHANGED Known
      BY <2>1 DEF Known
    <2>3. CASE s \in stored
      BY <2>1, <2>2, <2>3
    <2>4. CASE s \notin stored
      <3>1. status[s] \in {"queued", "gone"} /\ s \notin Parked
        BY <2>1, <2>4 DEF SentRows, Inv, AcceptedIsStored, ParkedStaysParked, ParkedNeverSent
      <3>2. Known[s] \in {"pending", "forgotten"}
        BY <3>1 DEF Known
      <3>3. QED
        BY <2>1, <2>2, <3>1, <3>2 DEF Promise!Arrive, Promise!NextNotification
    <2>5. QED
      BY <2>3, <2>4
  <1>6. ASSUME NEW s \in Sends, Expire(s) PROVE [Promise!NextNotification]_<<Known, stored>>
    BY <1>6, KnownStutters DEF Expire
  <1>7. CASE Tick \/ UNCHANGED vars
    BY <1>7, KnownStutters DEF Tick, vars
  <1>8. QED
    BY <1>1, <1>2, <1>3, <1>4, <1>5, <1>6, <1>7 DEF Next, PublisherStep

\* The outbox keeps the promise of Notifications, for any sends, publishers
\* and times: publish_one and the statements of ting.rs implement it.
THEOREM Refinement == Spec => ImplementsNotifications
  <1>1. Init => Promise!InitNotifications
    <2> SUFFICES ASSUME Init PROVE Promise!InitNotifications
      OBVIOUS
    <2>1. \A s \in Sends : Known[s] = IF s \in Parked THEN "not_delivered_legacy" ELSE "not_queued"
      BY DEF Init, Known
    <2>2. Known = [s \in Sends |-> IF s \in Parked THEN "not_delivered_legacy" ELSE "not_queued"]
      BY <2>1 DEF Known
    <2>3. QED
      BY <2>2 DEF Init, Promise!InitNotifications
  <1>2. Init => SentRows
    BY DEF Init, SentRows
  <1>3. Inv /\ SentRows /\ [Next]_vars => SentRows'
    BY SentRowsStep
  <1>4. Inv /\ SentRows /\ [Next]_vars => [Promise!NextNotification]_<<Known, stored>>
    BY PromiseStep
  <1>5. QED
    BY <1>1, <1>2, <1>3, <1>4, Invariance, PTL
       DEF Spec, ImplementsNotifications, Promise!NotificationSpec
=============================================================================
