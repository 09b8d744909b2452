--------------------------- MODULE ProcessesProofs ---------------------------
(***************************************************************************)
(* The safety of the two processes that MCProcesses puts side by side: the *)
(* proof cache, for any number of calls and proofs, any life of a proof    *)
(* and any pauses; and the maintenance workers, for any number of them, of *)
(* classes and of rows, and any batches and rounds.                        *)
(***************************************************************************)
EXTENDS MCProcesses, FiniteSetTheorems, WellFoundedInduction, TLAPS

----------------------------------------------------------------------------
(* The inductive invariant.                                                *)

\* What is cached is one proof with its own refresh token or with none.
RefreshIsLatest ==
    /\ proof.refresh \in {None, proof.token}
    /\ proof.token = None => proof.left = 0

\* Accounts is asked only by a call that found no good proof and no pause;
\* a refresh only where there is a refresh token.
AskingForGoodReason ==
    \A c \in Calls : call[c].phase \in Asking =>
        /\ pause = 0 /\ proof.left = 0
        /\ call[c].phase = "refreshing" => proof.refresh # None

\* An answer on its way carries the newest proof, to a call that waits for it.
ReplyIsNewest ==
    /\ proof.token <= issued
    /\ \A c \in Calls : reply[c] # None =>
          call[c].phase \in Asking /\ reply[c] = issued /\ proof.token < issued

\* Calls carry proofs that were cached; a refused one is worn out.
CallsAreBehind ==
    \A c \in Calls :
        /\ call[c].token <= proof.token /\ call[c].refused <= proof.token
        /\ call[c].phase = "posting" => call[c].token # None
        /\ call[c].refused # None => call[c].refused \in worn

\* A call that comes back after a refusal does not find the refused proof.
RefusedIsForgotten ==
    \A c \in Calls :
        call[c].phase = "locking" /\ call[c].refused # None
            => proof.token # call[c].refused \/ proof.left = 0

\* Every proof ever issued is worn out, cached, or on its way.
ProofsAccounted ==
    /\ proof.token # None /\ proof.left = 0 => proof.token \in worn
    /\ \A n \in 1 .. issued :
          n \in worn \/ n = proof.token \/ \E c \in Calls : reply[c] = n

CacheInv ==
    /\ TypeOK
    /\ RefreshIsLatest /\ AskingForGoodReason /\ ReplyIsNewest
    /\ CallsAreBehind /\ RefusedIsForgotten /\ RetriedWithAnotherProof
    /\ ProofsAccounted /\ GoodProofIsKept

----------------------------------------------------------------------------

\* proof_pause never exceeds the longest pause.
LEMMA PauseBounded ==
    ASSUME NEW n
    PROVE  ProofPause(n) \in 0 .. MaxPause
  BY CacheAssumption DEF ProofPause

\* The lock admits one call: two that ask Accounts are the same call.
LEMMA OneAsks ==
    ASSUME TypeOK, NEW c \in Calls, NEW d \in Calls,
           call[c].phase \in Asking, call[d].phase \in Asking
    PROVE  c = d
  BY CacheAssumption DEF TypeOK

\* A new call asks for the lock.
LEMMA BeginStep ==
    ASSUME CacheInv, NEW c \in Calls, Begin(c)
    PROVE  CacheInv'
  <1> USE CacheAssumption DEF CacheInv, None, Proofs, Idle, NoProof, Phases, Asking
  <1>1. TypeOK'
    BY DEF TypeOK, CallsAreBehind, RetriedWithAnotherProof, ReplyIsNewest, Begin
  <1>2. RefreshIsLatest'
    BY DEF RefreshIsLatest, TypeOK, Begin
  <1>3. AskingForGoodReason'
    BY DEF AskingForGoodReason, TypeOK, RefreshIsLatest, Begin
  <1>4. ReplyIsNewest'
    BY DEF ReplyIsNewest, TypeOK, Begin
  <1>5. CallsAreBehind'
    BY DEF CallsAreBehind, TypeOK, ReplyIsNewest, Begin
  <1>6. RefusedIsForgotten'
    BY DEF RefusedIsForgotten, TypeOK, CallsAreBehind, ReplyIsNewest, Begin
  <1>7. RetriedWithAnotherProof'
    BY DEF RetriedWithAnotherProof, TypeOK, RefusedIsForgotten, CallsAreBehind, ReplyIsNewest, AskingForGoodReason, Begin
  <1>8. ProofsAccounted'
    BY DEF ProofsAccounted, TypeOK, AskingForGoodReason, ReplyIsNewest, CallsAreBehind, Begin
  <1>9. GoodProofIsKept'
    BY DEF GoodProofIsKept, TypeOK, ProofsAccounted, AskingForGoodReason, ReplyIsNewest, Begin
  <1> QED
    BY <1>1, <1>2, <1>3, <1>4, <1>5, <1>6, <1>7, <1>8, <1>9

\* ProofCache::token with the lock: the cached proof, a pause, or a request.
LEMMA TokenStep ==
    ASSUME CacheInv, NEW c \in Calls, Token(c)
    PROVE  CacheInv'
  <1> USE CacheAssumption DEF CacheInv, None, Proofs, Idle, NoProof, Phases, Asking
  <1>1. TypeOK'
    BY OneAsks DEF TypeOK, CallsAreBehind, RetriedWithAnotherProof, ReplyIsNewest, Token, Fresh, MayAsk
  <1>2. RefreshIsLatest'
    BY OneAsks DEF RefreshIsLatest, TypeOK, Token, Fresh, MayAsk
  <1>3. AskingForGoodReason'
    <2>1. CASE call' = [call EXCEPT ![c].phase = "posting", ![c].token = proof.token]
      BY <2>1 DEF AskingForGoodReason, TypeOK, Token
    <2>2. CASE call' = [call EXCEPT ![c] = Idle]
      BY <2>2 DEF AskingForGoodReason, TypeOK, Token
    <2>3. CASE ~Fresh /\ MayAsk /\ call' = [call EXCEPT ![c].phase =
                  IF proof.refresh = None THEN "issuing" ELSE "refreshing"]
      <3>1. pause = 0 /\ proof.left = 0
        BY <2>3 DEF Fresh, MayAsk, TypeOK, ProofsAccounted, RefreshIsLatest
      <3>2. QED
        BY <2>3, <3>1 DEF AskingForGoodReason, TypeOK, Token
    <2>4. QED
      BY <2>1, <2>2, <2>3 DEF Token
  <1>4. ReplyIsNewest'
    BY OneAsks DEF ReplyIsNewest, TypeOK, Token, Fresh, MayAsk
  <1>5. CallsAreBehind'
    BY OneAsks DEF CallsAreBehind, TypeOK, ReplyIsNewest, Token, Fresh, MayAsk
  <1>6. RefusedIsForgotten'
    BY OneAsks DEF RefusedIsForgotten, TypeOK, CallsAreBehind, ReplyIsNewest, Token, Fresh, MayAsk
  <1>7. RetriedWithAnotherProof'
    BY OneAsks DEF RetriedWithAnotherProof, TypeOK, RefusedIsForgotten, CallsAreBehind, ReplyIsNewest, AskingForGoodReason, Token, Fresh, MayAsk
  <1>8. ProofsAccounted'
    BY OneAsks DEF ProofsAccounted, TypeOK, AskingForGoodReason, ReplyIsNewest, CallsAreBehind, Token, Fresh, MayAsk
  <1>9. GoodProofIsKept'
    BY OneAsks DEF GoodProofIsKept, TypeOK, ProofsAccounted, AskingForGoodReason, ReplyIsNewest, Token, Fresh, MayAsk
  <1> QED
    BY <1>1, <1>2, <1>3, <1>4, <1>5, <1>6, <1>7, <1>8, <1>9

\* Accounts issues a proof; until its answer arrives nobody else asks.
LEMMA AccountsIssuesStep ==
    ASSUME CacheInv, NEW c \in Calls, AccountsIssues(c)
    PROVE  CacheInv'
  <1> USE CacheAssumption DEF CacheInv, None, Proofs, Idle, NoProof, Phases, Asking
  <1>1. TypeOK'
    <2>1. call' \in [Calls -> [phase : Phases, token : 0 .. MaxProofs, refused : 0 .. MaxProofs]]
      BY DEF TypeOK, AccountsIssues
    <2>2. lock' \in Calls \cup {NoCall} /\ \A d \in Calls : lock' = d <=> call'[d].phase \in Asking
      BY DEF TypeOK, AccountsIssues
    <2>3. worn' \subseteq Proofs /\ valid' \subseteq Proofs /\ issued' \in 0 .. MaxProofs
      <3>1. issued + 1 \in 1 .. MaxProofs
        BY DEF TypeOK, AccountsIssues
      <3>2. valid' \subseteq valid \cup {issued + 1}
        BY DEF AccountsIssues
      <3>3. valid' \subseteq Proofs
        BY <3>1, <3>2 DEF TypeOK
      <3>4. worn' = worn /\ issued' = issued + 1
        BY DEF AccountsIssues
      <3>5. QED
        BY <3>1, <3>3, <3>4 DEF TypeOK
    <2>4. reply' \in [Calls -> 0 .. MaxProofs]
      BY DEF TypeOK, AccountsIssues
    <2>5. QED
      BY <2>1, <2>2, <2>3, <2>4 DEF TypeOK, AccountsIssues
  <1>2. RefreshIsLatest'
    BY OneAsks DEF RefreshIsLatest, TypeOK, AccountsIssues
  <1>3. AskingForGoodReason'
    BY OneAsks DEF AskingForGoodReason, TypeOK, RefreshIsLatest, AccountsIssues
  <1>4. ReplyIsNewest'
    BY OneAsks DEF ReplyIsNewest, TypeOK, AccountsIssues
  <1>5. CallsAreBehind'
    BY OneAsks DEF CallsAreBehind, TypeOK, ReplyIsNewest, AccountsIssues
  <1>6. RefusedIsForgotten'
    BY OneAsks DEF RefusedIsForgotten, TypeOK, CallsAreBehind, ReplyIsNewest, AccountsIssues
  <1>7. RetriedWithAnotherProof'
    BY OneAsks DEF RetriedWithAnotherProof, TypeOK, RefusedIsForgotten, CallsAreBehind, ReplyIsNewest, AskingForGoodReason, AccountsIssues
  <1>8. ProofsAccounted'
    BY OneAsks DEF ProofsAccounted, TypeOK, AskingForGoodReason, ReplyIsNewest, CallsAreBehind, AccountsIssues
  <1>9. GoodProofIsKept'
    BY OneAsks DEF GoodProofIsKept, TypeOK, ProofsAccounted, AskingForGoodReason, ReplyIsNewest, AccountsIssues
  <1> QED
    BY <1>1, <1>2, <1>3, <1>4, <1>5, <1>6, <1>7, <1>8, <1>9

\* A proof arrives and replaces one that is worn out.
LEMMA ObtainStep ==
    ASSUME CacheInv, NEW c \in Calls, Obtain(c)
    PROVE  CacheInv'
  <1> USE CacheAssumption DEF CacheInv, None, Proofs, Idle, NoProof, Phases, Asking
  <1>1. TypeOK'
    BY OneAsks DEF TypeOK, CallsAreBehind, RetriedWithAnotherProof, ReplyIsNewest, Obtain, Cached
  <1>2. RefreshIsLatest'
    BY OneAsks DEF RefreshIsLatest, TypeOK, Obtain, Cached
  <1>3. AskingForGoodReason'
    BY OneAsks DEF AskingForGoodReason, TypeOK, RefreshIsLatest, Obtain, Cached
  <1>4. ReplyIsNewest'
    BY OneAsks DEF ReplyIsNewest, TypeOK, Obtain, Cached
  <1>5. CallsAreBehind'
    BY OneAsks DEF CallsAreBehind, TypeOK, ReplyIsNewest, Obtain, Cached
  <1>6. RefusedIsForgotten'
    BY OneAsks DEF RefusedIsForgotten, TypeOK, CallsAreBehind, ReplyIsNewest, Obtain, Cached
  <1>7. RetriedWithAnotherProof'
    BY OneAsks DEF RetriedWithAnotherProof, TypeOK, RefusedIsForgotten, CallsAreBehind, ReplyIsNewest, AskingForGoodReason, Obtain, Cached
  <1>8. ProofsAccounted'
    BY OneAsks DEF ProofsAccounted, TypeOK, AskingForGoodReason, ReplyIsNewest, CallsAreBehind, Obtain, Cached
  <1>9. GoodProofIsKept'
    BY OneAsks DEF GoodProofIsKept, TypeOK, ProofsAccounted, AskingForGoodReason, ReplyIsNewest, Obtain, Cached
  <1> QED
    BY <1>1, <1>2, <1>3, <1>4, <1>5, <1>6, <1>7, <1>8, <1>9

\* A refused refresh goes on as a new issue.
LEMMA RefreshRefusedStep ==
    ASSUME CacheInv, NEW c \in Calls, NEW status, RefreshRefused(c, status)
    PROVE  CacheInv'
  <1> USE CacheAssumption DEF CacheInv, None, Proofs, Idle, NoProof, Phases, Asking
  <1>1. TypeOK'
    BY OneAsks DEF TypeOK, CallsAreBehind, RetriedWithAnotherProof, ReplyIsNewest, RefreshRefused
  <1>2. RefreshIsLatest'
    BY OneAsks DEF RefreshIsLatest, TypeOK, RefreshRefused
  <1>3. AskingForGoodReason'
    BY OneAsks DEF AskingForGoodReason, TypeOK, RefreshIsLatest, RefreshRefused
  <1>4. ReplyIsNewest'
    BY OneAsks DEF ReplyIsNewest, TypeOK, RefreshRefused
  <1>5. CallsAreBehind'
    BY OneAsks DEF CallsAreBehind, TypeOK, ReplyIsNewest, RefreshRefused
  <1>6. RefusedIsForgotten'
    BY OneAsks DEF RefusedIsForgotten, TypeOK, CallsAreBehind, ReplyIsNewest, RefreshRefused
  <1>7. RetriedWithAnotherProof'
    BY OneAsks DEF RetriedWithAnotherProof, TypeOK, RefusedIsForgotten, CallsAreBehind, ReplyIsNewest, AskingForGoodReason, RefreshRefused
  <1>8. ProofsAccounted'
    BY OneAsks DEF ProofsAccounted, TypeOK, AskingForGoodReason, ReplyIsNewest, CallsAreBehind, RefreshRefused
  <1>9. GoodProofIsKept'
    BY OneAsks DEF GoodProofIsKept, TypeOK, ProofsAccounted, AskingForGoodReason, ReplyIsNewest, RefreshRefused
  <1> QED
    BY <1>1, <1>2, <1>3, <1>4, <1>5, <1>6, <1>7, <1>8, <1>9

\* A failed request begins a pause and gives the lock back.
LEMMA ObtainFailsStep ==
    ASSUME CacheInv, NEW c \in Calls, NEW status, ObtainFails(c, status)
    PROVE  CacheInv'
  <1> USE CacheAssumption DEF CacheInv, None, Proofs, Idle, NoProof, Phases, Asking
  <1>1. TypeOK'
    <2>1. call' \in [Calls -> [phase : Phases, token : 0 .. MaxProofs, refused : 0 .. MaxProofs]]
      BY DEF TypeOK, ObtainFails, Lost
    <2>2. lock' \in Calls \cup {NoCall} /\ \A d \in Calls : lock' = d <=> call'[d].phase \in Asking
      BY DEF TypeOK, ObtainFails, Lost
    <2>3. worn' \subseteq Proofs /\ valid' \subseteq Proofs /\ issued' \in 0 .. MaxProofs
      <3>1. reply[c] # None => reply[c] \in 1 .. MaxProofs
        BY DEF TypeOK
      <3>2. QED
        BY <3>1 DEF TypeOK, ObtainFails, Lost
    <2>4. reply' \in [Calls -> 0 .. MaxProofs]
      BY DEF TypeOK, ObtainFails, Lost
    <2>5. QED
      BY PauseBounded, <2>1, <2>2, <2>3, <2>4 DEF TypeOK, ObtainFails, Lost
  <1>2. RefreshIsLatest'
    BY OneAsks, PauseBounded DEF RefreshIsLatest, TypeOK, ObtainFails, Lost
  <1>3. AskingForGoodReason'
    BY OneAsks, PauseBounded DEF AskingForGoodReason, TypeOK, RefreshIsLatest, ObtainFails, Lost
  <1>4. ReplyIsNewest'
    BY OneAsks, PauseBounded DEF ReplyIsNewest, TypeOK, ObtainFails, Lost
  <1>5. CallsAreBehind'
    BY OneAsks, PauseBounded DEF CallsAreBehind, TypeOK, ReplyIsNewest, ObtainFails, Lost
  <1>6. RefusedIsForgotten'
    BY OneAsks, PauseBounded DEF RefusedIsForgotten, TypeOK, CallsAreBehind, ReplyIsNewest, ObtainFails, Lost
  <1>7. RetriedWithAnotherProof'
    BY OneAsks, PauseBounded DEF RetriedWithAnotherProof, TypeOK, RefusedIsForgotten, CallsAreBehind, ReplyIsNewest, AskingForGoodReason, ObtainFails, Lost
  <1>8. ProofsAccounted'
    BY OneAsks, PauseBounded DEF ProofsAccounted, TypeOK, AskingForGoodReason, ReplyIsNewest, CallsAreBehind, ObtainFails, Lost
  <1>9. GoodProofIsKept'
    BY OneAsks, PauseBounded DEF GoodProofIsKept, TypeOK, ProofsAccounted, AskingForGoodReason, ReplyIsNewest, ObtainFails, Lost
  <1> QED
    BY <1>1, <1>2, <1>3, <1>4, <1>5, <1>6, <1>7, <1>8, <1>9

\* A dropped call gives the lock back and loses the proof sent to it.
LEMMA CancelStep ==
    ASSUME CacheInv, NEW c \in Calls, Cancel(c)
    PROVE  CacheInv'
  <1> USE CacheAssumption DEF CacheInv, None, Proofs, Idle, NoProof, Phases, Asking
  <1>1. TypeOK'
    <2>1. call' \in [Calls -> [phase : Phases, token : 0 .. MaxProofs, refused : 0 .. MaxProofs]]
      BY DEF TypeOK, Cancel, Lost
    <2>2. lock' \in Calls \cup {NoCall} /\ \A d \in Calls : lock' = d <=> call'[d].phase \in Asking
      BY DEF TypeOK, Cancel, Lost
    <2>3. worn' \subseteq Proofs /\ valid' \subseteq Proofs /\ issued' \in 0 .. MaxProofs
      <3>1. reply[c] # None => reply[c] \in 1 .. MaxProofs
        BY DEF TypeOK
      <3>2. QED
        BY <3>1 DEF TypeOK, Cancel, Lost
    <2>4. reply' \in [Calls -> 0 .. MaxProofs]
      BY DEF TypeOK, Cancel, Lost
    <2>5. QED
      BY <2>1, <2>2, <2>3, <2>4 DEF TypeOK, Cancel, Lost
  <1>2. RefreshIsLatest'
    BY OneAsks DEF RefreshIsLatest, TypeOK, Cancel, Lost
  <1>3. AskingForGoodReason'
    BY OneAsks DEF AskingForGoodReason, TypeOK, RefreshIsLatest, Cancel, Lost
  <1>4. ReplyIsNewest'
    BY OneAsks DEF ReplyIsNewest, TypeOK, Cancel, Lost
  <1>5. CallsAreBehind'
    BY OneAsks DEF CallsAreBehind, TypeOK, ReplyIsNewest, Cancel, Lost
  <1>6. RefusedIsForgotten'
    BY OneAsks DEF RefusedIsForgotten, TypeOK, CallsAreBehind, ReplyIsNewest, Cancel, Lost
  <1>7. RetriedWithAnotherProof'
    BY OneAsks DEF RetriedWithAnotherProof, TypeOK, RefusedIsForgotten, CallsAreBehind, ReplyIsNewest, AskingForGoodReason, Cancel, Lost
  <1>8. ProofsAccounted'
    BY OneAsks DEF ProofsAccounted, TypeOK, AskingForGoodReason, ReplyIsNewest, CallsAreBehind, Cancel, Lost
  <1>9. GoodProofIsKept'
    BY OneAsks DEF GoodProofIsKept, TypeOK, ProofsAccounted, AskingForGoodReason, ReplyIsNewest, Cancel, Lost
  <1> QED
    BY <1>1, <1>2, <1>3, <1>4, <1>5, <1>6, <1>7, <1>8, <1>9

\* Ting's answer: a refused proof is worn out.
LEMMA TingAnswersStep ==
    ASSUME CacheInv, NEW c \in Calls, TingAnswers(c)
    PROVE  CacheInv'
  <1> USE CacheAssumption DEF CacheInv, None, Proofs, Idle, NoProof, Phases, Asking
  <1>1. TypeOK'
    <2>1. call' \in [Calls -> [phase : Phases, token : 0 .. MaxProofs, refused : 0 .. MaxProofs]]
      BY DEF TypeOK, TingAnswers
    <2>2. lock' \in Calls \cup {NoCall} /\ \A d \in Calls : lock' = d <=> call'[d].phase \in Asking
      BY DEF TypeOK, TingAnswers
    <2>3. worn' \subseteq Proofs /\ valid' \subseteq Proofs /\ issued' \in 0 .. MaxProofs
      <3>1. call[c].token \in 1 .. MaxProofs
        BY DEF TypeOK, CallsAreBehind, TingAnswers
      <3>2. worn' \in {worn, worn \cup {call[c].token}}
        BY DEF TingAnswers
      <3>3. QED
        BY <3>1, <3>2 DEF TypeOK, TingAnswers
    <2>4. reply' \in [Calls -> 0 .. MaxProofs]
      BY DEF TypeOK, TingAnswers
    <2>5. QED
      BY <2>1, <2>2, <2>3, <2>4 DEF TypeOK, TingAnswers
  <1>2. RefreshIsLatest'
    BY DEF RefreshIsLatest, TypeOK, TingAnswers
  <1>3. AskingForGoodReason'
    BY DEF AskingForGoodReason, TypeOK, RefreshIsLatest, TingAnswers
  <1>4. ReplyIsNewest'
    BY DEF ReplyIsNewest, TypeOK, TingAnswers
  <1>5. CallsAreBehind'
    BY DEF CallsAreBehind, TypeOK, ReplyIsNewest, TingAnswers
  <1>6. RefusedIsForgotten'
    BY DEF RefusedIsForgotten, TypeOK, CallsAreBehind, ReplyIsNewest, TingAnswers
  <1>7. RetriedWithAnotherProof'
    BY DEF RetriedWithAnotherProof, TypeOK, RefusedIsForgotten, CallsAreBehind, ReplyIsNewest, AskingForGoodReason, TingAnswers
  <1>8. ProofsAccounted'
    BY DEF ProofsAccounted, TypeOK, AskingForGoodReason, ReplyIsNewest, CallsAreBehind, TingAnswers
  <1>9. GoodProofIsKept'
    BY DEF GoodProofIsKept, TypeOK, ProofsAccounted, AskingForGoodReason, ReplyIsNewest, TingAnswers
  <1> QED
    BY <1>1, <1>2, <1>3, <1>4, <1>5, <1>6, <1>7, <1>8, <1>9

\* ProofCache::forget_token: the refused proof, if still cached, is not good.
LEMMA ForgetTokenStep ==
    ASSUME CacheInv, NEW c \in Calls, ForgetToken(c)
    PROVE  CacheInv'
  <1> USE CacheAssumption DEF CacheInv, None, Proofs, Idle, NoProof, Phases, Asking
  <1>1. TypeOK'
    <2>1. call' \in [Calls -> [phase : Phases, token : 0 .. MaxProofs, refused : 0 .. MaxProofs]]
      <3>1. CASE scope = "tings.send"
        <4> DEFINE r == [call[c] EXCEPT !.phase = "locking", !.token = None]
        <4>1. r \in [phase : Phases, token : 0 .. MaxProofs, refused : 0 .. MaxProofs]
          <5>1. call[c] \in [phase : Phases, token : 0 .. MaxProofs, refused : 0 .. MaxProofs]
            BY DEF TypeOK
          <5>2. None \in 0 .. MaxProofs /\ "locking" \in Phases
            OBVIOUS
          <5>3. QED
            BY <5>1, <5>2
        <4>2. call' = [call EXCEPT ![c] = r]
          BY <3>1 DEF ForgetToken
        <4>3. QED
          BY <4>1, <4>2 DEF TypeOK
      <3>2. CASE scope # "tings.send"
        BY <3>2 DEF TypeOK, ForgetToken
      <3>3. QED
        BY <3>1, <3>2
    <2>2. lock' \in Calls \cup {NoCall} /\ \A d \in Calls : lock' = d <=> call'[d].phase \in Asking
      BY DEF TypeOK, ForgetToken, Forgotten
    <2>3. worn' \subseteq Proofs /\ valid' \subseteq Proofs /\ issued' \in 0 .. MaxProofs
      BY DEF TypeOK, CallsAreBehind, ForgetToken, Forgotten
    <2>4. reply' \in [Calls -> 0 .. MaxProofs]
      BY DEF TypeOK, ForgetToken, Forgotten
    <2>5. QED
      BY <2>1, <2>2, <2>3, <2>4 DEF TypeOK, ForgetToken, Forgotten
  <1>2. RefreshIsLatest'
    BY DEF RefreshIsLatest, TypeOK, ForgetToken, Forgotten
  <1>3. AskingForGoodReason'
    BY DEF AskingForGoodReason, TypeOK, RefreshIsLatest, ForgetToken, Forgotten
  <1>4. ReplyIsNewest'
    BY DEF ReplyIsNewest, TypeOK, ForgetToken, Forgotten
  <1>5. CallsAreBehind'
    BY DEF CallsAreBehind, TypeOK, ReplyIsNewest, ForgetToken, Forgotten
  <1>6. RefusedIsForgotten'
    BY DEF RefusedIsForgotten, TypeOK, CallsAreBehind, ReplyIsNewest, ForgetToken, Forgotten
  <1>7. RetriedWithAnotherProof'
    BY DEF RetriedWithAnotherProof, TypeOK, RefusedIsForgotten, CallsAreBehind, ReplyIsNewest, AskingForGoodReason, ForgetToken, Forgotten
  <1>8. ProofsAccounted'
    BY DEF ProofsAccounted, TypeOK, AskingForGoodReason, ReplyIsNewest, CallsAreBehind, ForgetToken, Forgotten
  <1>9. GoodProofIsKept'
    BY DEF GoodProofIsKept, TypeOK, ProofsAccounted, AskingForGoodReason, ReplyIsNewest, ForgetToken, Forgotten
  <1> QED
    BY <1>1, <1>2, <1>3, <1>4, <1>5, <1>6, <1>7, <1>8, <1>9

\* Time passes.
LEMMA TickStep ==
    ASSUME CacheInv, Tick
    PROVE  CacheInv'
  <1> USE CacheAssumption DEF CacheInv, None, Proofs, NoProof, Asking
  <1> DEFINE less == IF proof.left > 0 THEN proof.left - 1 ELSE 0
  <1>1. proof' = [proof EXCEPT !.left = less] /\ less \in 0 .. Life
    BY DEF Tick, TypeOK
  <1>2. /\ proof'.token = proof.token /\ proof'.refresh = proof.refresh
        /\ proof'.left = less
        /\ proof' \in [token : 0 .. MaxProofs, refresh : 0 .. MaxProofs, left : 0 .. Life]
    BY <1>1 DEF TypeOK
  <1>3. worn \subseteq worn' /\ worn' \subseteq Proofs
        /\ (less = 0 /\ proof.token # None => proof.token \in worn')
    BY <1>2 DEF Tick, TypeOK
  <1>4. pause' \in 0 .. MaxPause /\ (pause = 0 => pause' = 0)
    BY DEF Tick, TypeOK
  <1>5. TypeOK'
    BY <1>2, <1>3, <1>4 DEF TypeOK, Tick
  <1>6. RefreshIsLatest' /\ AskingForGoodReason'
    BY <1>2, <1>4 DEF RefreshIsLatest, AskingForGoodReason, Tick, TypeOK
  <1>7. ReplyIsNewest' /\ CallsAreBehind'
    BY <1>2, <1>3 DEF ReplyIsNewest, CallsAreBehind, Tick
  <1>8. RefusedIsForgotten' /\ RetriedWithAnotherProof'
    BY <1>2 DEF RefusedIsForgotten, RetriedWithAnotherProof, Tick, TypeOK
  <1>9. ProofsAccounted' /\ GoodProofIsKept'
    BY <1>2, <1>3 DEF ProofsAccounted, GoodProofIsKept, Tick, TypeOK
  <1> QED
    BY <1>5, <1>6, <1>7, <1>8, <1>9

\* Every step of the calls, Accounts, Ting and time keeps the invariant.
LEMMA CacheStep == CacheInv /\ [Next]_vars => CacheInv'
  <1> SUFFICES ASSUME CacheInv, [Next]_vars PROVE CacheInv'
    OBVIOUS
  <1>1. CASE \E c \in Calls : Begin(c) \/ AccountsIssues(c) \/ Cancel(c)
    BY <1>1, BeginStep, AccountsIssuesStep, CancelStep
  <1>2. CASE \E c \in Calls : Step(c)
    <2>1. PICK c \in Calls : Step(c)
      BY <1>2
    <2>2. CASE Token(c) \/ ForgetToken(c)
      BY <2>2, TokenStep, ForgetTokenStep
    <2>3. CASE Obtain(c) \/ TingAnswers(c)
      BY <2>3, ObtainStep, TingAnswersStep
    <2>4. CASE \E status \in Statuses : RefreshRefused(c, status) \/ ObtainFails(c, status)
      BY <2>4, RefreshRefusedStep, ObtainFailsStep
    <2>5. QED
      BY <2>1, <2>2, <2>3, <2>4 DEF Step, Answered
  <1>3. CASE Tick
    BY <1>3, TickStep
  <1>4. CASE UNCHANGED vars
    BY <1>4 DEF CacheInv, TypeOK, RefreshIsLatest, AskingForGoodReason, ReplyIsNewest,
        CallsAreBehind, RefusedIsForgotten, RetriedWithAnotherProof, ProofsAccounted,
        GoodProofIsKept, vars
  <1>5. QED
    BY <1>1, <1>2, <1>3, <1>4 DEF Next

----------------------------------------------------------------------------

LEMMA CacheInitially == Init => CacheInv
  BY CacheAssumption
     DEF Init, CacheInv, TypeOK, RefreshIsLatest, AskingForGoodReason, ReplyIsNewest,
         CallsAreBehind, RefusedIsForgotten, RetriedWithAnotherProof, ProofsAccounted,
         GoodProofIsKept, None, Idle, NoProof, Phases, Asking, Proofs

\* The cache, its calls and Accounts, whatever is cancelled, lost or refused.
THEOREM CacheInvariance == Spec => []CacheInv
  BY CacheInitially, CacheStep, PTL DEF Spec

\* forget_token and the renewals of ProofCache::token never cost a proof that
\* is good: all proofs but the latest ran out, were refused or were lost.
THEOREM GoodProofsAreKept == Spec => []GoodProofIsKept
  <1>1. CacheInv => GoodProofIsKept
    BY DEF CacheInv
  <1>2. QED
    BY <1>1, CacheInvariance, PTL

\* ProofCache::token asks Accounts, and TingAdapter::send asks Ting again,
\* only for good reason.
THEOREM WarrantedRequests == Spec => []RequestsAreWarranted
  <1>1. CacheInv => RequestsAreWarranted
    <2> SUFFICES ASSUME CacheInv PROVE RequestsAreWarranted
      OBVIOUS
    <2>1. NobodyAsksDuringPause
      BY DEF CacheInv, AskingForGoodReason, NobodyAsksDuringPause
    <2>2. SpentRefreshIsNotPresented
      BY DEF CacheInv, AskingForGoodReason, RefreshIsLatest, Asking, SpentRefreshIsNotPresented
    <2>3. QED
      BY <2>1, <2>2 DEF CacheInv, RequestsAreWarranted
  <1>2. QED
    BY <1>1, CacheInvariance, PTL

----------------------------------------------------------------------------
(* The maintenance workers.                                                *)

\* Where a loop is: at rest, about to run the statement of an active class, or
\* waiting for its answer.
Choosing ==
    {c \in [phase : {"choosing"}, class : Classes, round : 1 .. Rounds,
            active : SUBSET Classes] : c.class \in c.active}
Deleting ==
    {c \in [phase : {"deleting"}, class : Classes, round : 1 .. Rounds,
            active : SUBSET Classes, victims : SUBSET Nat] :
        /\ c.class \in c.active
        /\ IsFiniteSet(c.victims) /\ Cardinality(c.victims) <= BatchSize}
CycleRecords == {Resting, [phase |-> "hanging"]} \cup Choosing \cup Deleting

WorkerInv ==
    /\ came \in [Classes -> Nat] /\ due \in [Classes -> SUBSET Nat]
    /\ cycle \in [Workers -> CycleRecords]
    /\ WorkerTypeOK

\* A loop goes from one statement to a later one of its cycle, and to the same
\* class in the next round only after a full batch.
CycleAdvances(w) ==
    LET now == cycle[w]
        next == cycle'[w]
    IN  now.phase = "deleting" /\ next.phase = "choosing" =>
          /\ next.round <= Rounds /\ next.active \subseteq now.active
          /\ next.round > now.round \/ (next.round = now.round /\ next.class > now.class)
          /\ now.class \in next.active =>
                Cardinality(due[now.class] \ due'[now.class]) = BatchSize

\* What one step removes of a class is at most a batch.
RemovesABatch(c) ==
    IsFiniteSet(due[c] \ due'[c]) /\ Cardinality(due[c] \ due'[c]) <= BatchSize

\* A set of numbers that is not empty has a least one.
LEMMA LeastOf ==
    ASSUME NEW T \in SUBSET Nat, T # {}
    PROVE  \E n \in T : \A m \in T : n <= m
  <1> DEFINE Below == {1 .. n : n \in T}
  <1>1. Below \subseteq FiniteSubsetsOf(Nat) /\ Below # {}
    <2>1. \A n \in T : 1 .. n \in SUBSET Nat /\ IsFiniteSet(1 .. n)
      BY FS_Interval
    <2>2. QED
      BY <2>1 DEF FiniteSubsetsOf
  <1>2. PICK low \in Below : \A b \in Below : <<b, low>> \notin StrictSubsetOrdering(Nat)
    <2> HIDE DEF Below
    <2>1. QED
      BY <1>1, FS_StrictSubsetOrderingWellFounded, WFMin
  <1>3. PICK n \in T : low = 1 .. n
    BY <1>2
  <1>4. ASSUME NEW m \in T PROVE n <= m
    <2>1. <<1 .. m, 1 .. n>> \notin StrictSubsetOrdering(Nat)
      BY <1>2, <1>3
    <2>2. ~(1 .. m \subseteq 1 .. n) \/ 1 .. m = 1 .. n
      BY <2>1 DEF StrictSubsetOrdering
    <2>3. m < n => n \notin 1 .. m /\ n \in 1 .. n /\ 1 .. m \subseteq 1 .. n
      OBVIOUS
    <2>4. QED
      BY <2>2, <2>3
  <1>5. QED
    BY <1>4

\* The first class of some.
LEMMA FirstIsLeast ==
    ASSUME NEW S \in SUBSET Classes, S # {}
    PROVE  First(S) \in S /\ \A d \in S : First(S) <= d
  <1>1. S \in SUBSET Nat
    BY WorkerAssumption
  <1>2. \E c \in S : \A d \in S : c <= d
    BY <1>1, LeastOf
  <1>3. QED
    BY <1>2 DEF First

\* Where a cycle goes on after a class.
LEMMA AfterFits ==
    ASSUME NEW class \in Classes, NEW round \in 1 .. Rounds, NEW active \in SUBSET Classes
    PROVE  LET next == After(class, round, active)
           IN  \/ next = Resting
               \/ /\ next \in Choosing /\ next.active = active
                  /\ next.round > round \/ (next.round = round /\ next.class > class)
  <1> DEFINE later == {c \in active : c > class}
  <1>1. CASE later # {}
    <2>1. First(later) \in later
      BY <1>1, FirstIsLeast
    <2>2. After(class, round, active) = NextIn(First(later), round, active)
      BY <1>1 DEF After
    <2>3. QED
      BY <2>1, <2>2 DEF NextIn, Choosing
  <1>2. CASE later = {} /\ active # {} /\ round < Rounds
    <2>1. First(active) \in active
      BY <1>2, FirstIsLeast
    <2>2. After(class, round, active) = NextIn(First(active), round + 1, active)
      BY <1>2 DEF After
    <2>3. round + 1 \in 1 .. Rounds /\ round + 1 > round
      BY <1>2, WorkerAssumption
    <2>4. QED
      BY <2>1, <2>2, <2>3 DEF NextIn, Choosing
  <1>3. CASE later = {} /\ ~(active # {} /\ round < Rounds)
    BY <1>3 DEF After
  <1>4. QED
    BY <1>1, <1>2, <1>3

\* A snapshot holds no more than a batch: of its rows each has a number of older
\* ones of its own, below the limit.
LEMMA VictimsAreABatch ==
    ASSUME WorkerInv, NEW c \in Classes
    PROVE  /\ Victims(c) \in SUBSET due[c] /\ IsFiniteSet(Victims(c))
           /\ Cardinality(Victims(c)) <= BatchSize
  <1> DEFINE D == due[c]
             Older(n) == {m \in D : m < n}
             rank == [n \in Victims(c) |-> Cardinality(Older(n))]
  <1>1. D \in SUBSET Nat /\ IsFiniteSet(D)
    <2>1. came[c] \in Nat /\ D \subseteq 1 .. came[c] /\ D \in SUBSET Nat
      BY DEF WorkerInv, WorkerTypeOK
    <2>2. IsFiniteSet(1 .. came[c])
      BY <2>1, FS_Interval
    <2>3. QED
      BY <2>1, <2>2, FS_Subset
  <1>2. \A n \in D : IsFiniteSet(Older(n)) /\ Cardinality(Older(n)) \in Nat
    BY <1>1, FS_Subset, FS_CardinalityType
  <1>3. ASSUME NEW a \in D, NEW b \in D, a < b
        PROVE  Cardinality(Older(a)) < Cardinality(Older(b))
    <2>1. Older(a) \cup {a} \in SUBSET Older(b) /\ a \notin Older(a)
      BY <1>1, <1>3
    <2>2. Cardinality(Older(a) \cup {a}) = Cardinality(Older(a)) + 1
      BY <1>2, <2>1, FS_AddElement
    <2> HIDE DEF Older
    <2>3. Cardinality(Older(a) \cup {a}) <= Cardinality(Older(b))
      BY <1>2, <2>1, FS_Subset
    <2>4. QED
      BY <1>2, <2>2, <2>3
  <1>4. /\ Victims(c) \in SUBSET D /\ IsFiniteSet(Victims(c))
        /\ \A n \in Victims(c) : Cardinality(Older(n)) < BatchSize
    <2>1. Victims(c) = {n \in D : Cardinality(Older(n)) < BatchSize}
      BY DEF Victims
    <2>2. QED
      BY <1>1, <2>1, FS_Subset
  <1> HIDE DEF Older, D
  <1>5. rank \in Injection(Victims(c), 0 .. BatchSize - 1)
    <2>1. rank \in [Victims(c) -> 0 .. BatchSize - 1]
      BY <1>2, <1>4, WorkerAssumption
    <2>2. \A a, b \in Victims(c) : rank[a] = rank[b] => a = b
      <3>1. \A a, b \in Victims(c) : a # b => a < b \/ b < a
        <4>1. Victims(c) \subseteq Nat
          BY <1>1, <1>4
        <4>2. \A a, b \in Nat : a # b => a < b \/ b < a
          OBVIOUS
        <4>3. QED
          BY <4>1, <4>2
      <3>2. \A a, b \in D : a # b /\ (a < b \/ b < a)
                => Cardinality(Older(a)) # Cardinality(Older(b))
        BY <1>2, <1>3
      <3>3. \A a \in Victims(c) : a \in D /\ rank[a] = Cardinality(Older(a))
        BY <1>4
      <3> HIDE DEF rank
      <3>4. QED
        BY <3>1, <3>2, <3>3
    <2>3. QED
      BY <2>1, <2>2 DEF Injection, IsInjective
  <1>6. IsFiniteSet(0 .. BatchSize - 1) /\ Cardinality(0 .. BatchSize - 1) = BatchSize
    BY WorkerAssumption, FS_Interval
  <1>7. Cardinality(Victims(c)) <= BatchSize
    BY <1>5, <1>6, FS_Injection
  <1>8. QED
    BY <1>4, <1>7 DEF D

\* A step of one worker's loop, seen from all.
LEMMA OneCycle ==
    ASSUME WorkerInv, NEW w \in Workers, NEW c \in CycleRecords,
           cycle' = [cycle EXCEPT ![w] = c], UNCHANGED <<came, failing>>,
           handle' \in [Workers -> {"none", "running", "finished", "taken"}],
           main' \in [Workers -> {"off", "serving", "draining", "closing", "stopped", "panicked"}],
           due' \in [Classes -> SUBSET Nat], \A d \in Classes : due'[d] \subseteq due[d]
    PROVE  /\ WorkerInv' /\ cycle'[w] = c
           /\ \A v \in Workers : v # w => cycle'[v] = cycle[v]
  <1>1. cycle' \in [Workers -> CycleRecords] /\ cycle'[w] = c
    BY DEF WorkerInv
  <1>2. \A v \in Workers : v # w => cycle'[v] = cycle[v]
    BY DEF WorkerInv
  <1>3. \A v \in Workers : cycle'[v].phase \in {"choosing", "deleting"} =>
            cycle'[v].round <= Rounds /\ cycle'[v].class \in cycle'[v].active
    <2>1. \A v \in Workers : cycle'[v] \in CycleRecords
      BY <1>1
    <2>2. \A x \in CycleRecords : x.phase \in {"choosing", "deleting"} =>
              x.round <= Rounds /\ x.class \in x.active
      BY WorkerAssumption DEF CycleRecords, Choosing, Deleting, Resting
    <2>3. QED
      BY <2>1, <2>2
  <1>4. QED
    BY <1>1, <1>2, <1>3 DEF WorkerInv, WorkerTypeOK

\* What a step of a worker does besides keeping the invariant.
Advances ==
    /\ \A w \in Workers : CycleAdvances(w)
    /\ \A c \in Classes : RemovesABatch(c)

\* A step that removes nothing and starts no statement after another.
LEMMA NothingRemoved ==
    ASSUME \A c \in Classes : due[c] \subseteq due'[c],
           \A w \in Workers : \/ cycle'[w] = cycle[w]
                              \/ cycle[w].phase # "deleting" \/ cycle'[w].phase # "choosing"
    PROVE  Advances
  <1>1. ASSUME NEW c \in Classes PROVE RemovesABatch(c)
    <2>1. due[c] \ due'[c] = {}
      OBVIOUS
    <2>2. IsFiniteSet({}) /\ Cardinality({}) = 0
      BY FS_EmptySet
    <2>3. QED
      BY <2>1, <2>2, WorkerAssumption DEF RemovesABatch
  <1>2. ASSUME NEW w \in Workers PROVE CycleAdvances(w)
    BY DEF CycleAdvances
  <1>3. QED
    BY <1>1, <1>2 DEF Advances

\* The workers' steps, each with all it does.
LEMMA WorkerStep ==
    ASSUME WorkerInv, [WorkerNext]_workerVars
    PROVE  WorkerInv' /\ Advances
  <1> DEFINE Handles == [Workers -> {"none", "running", "finished", "taken"}]
             Mains == [Workers -> {"off", "serving", "draining", "closing", "stopped", "panicked"}]
  <1>1. /\ handle \in Handles /\ main \in Mains /\ cycle \in [Workers -> CycleRecords]
        /\ due \in [Classes -> SUBSET Nat]
    BY DEF WorkerInv, WorkerTypeOK
  <1>2. Resting \in CycleRecords /\ [phase |-> "hanging"] \in CycleRecords
        /\ Resting.phase = "waiting"
    BY DEF CycleRecords, Resting
  <1>3. ASSUME NEW c \in Classes, ComeDue(c)
        PROVE  WorkerInv' /\ Advances
    <2>1. /\ came' \in [Classes -> Nat] /\ due' \in [Classes -> SUBSET Nat]
          /\ \A d \in Classes : came'[d] <= MaxDue /\ due'[d] \subseteq 1 .. came'[d]
      <3>1. /\ came[c] \in Nat /\ came[c] < MaxDue /\ due[c] \subseteq 1 .. came[c]
            /\ came'[c] = came[c] + 1 /\ due'[c] = due[c] \cup {came[c] + 1}
        BY <1>3 DEF ComeDue, WorkerInv, WorkerTypeOK
      <3>2. came'[c] <= MaxDue /\ due'[c] \subseteq 1 .. came'[c]
        BY <3>1, WorkerAssumption
      <3>3. QED
        BY <1>3, <3>1, <3>2 DEF ComeDue, WorkerInv, WorkerTypeOK
    <2>2. WorkerInv'
      BY <1>3, <2>1 DEF ComeDue, WorkerInv, WorkerTypeOK
    <2>3. \A d \in Classes : due[d] \subseteq due'[d]
      BY <1>1, <1>3 DEF ComeDue
    <2>4. cycle' = cycle
      BY <1>3 DEF ComeDue
    <2>5. QED
      BY <2>2, <2>3, <2>4, NothingRemoved
  <1>4. ASSUME NEW w \in Workers, StartCycle(w)
        PROVE  WorkerInv' /\ Advances
    <2>1. NextIn(First(Classes), 1, Classes) \in CycleRecords
      BY FirstIsLeast, WorkerAssumption DEF NextIn, CycleRecords, Choosing
    <2>2. /\ cycle' = [cycle EXCEPT ![w] = NextIn(First(Classes), 1, Classes)]
          /\ cycle[w].phase = "waiting" /\ due' = due
          /\ UNCHANGED <<came, failing>> /\ handle' \in Handles /\ main' \in Mains
      BY <1>1, <1>2, <1>4 DEF StartCycle
    <2>3. WorkerInv' /\ \A v \in Workers : v # w => cycle'[v] = cycle[v]
      BY <1>1, <2>1, <2>2, OneCycle
    <2>4. QED
      BY <2>2, <2>3, NothingRemoved
  <1>5. ASSUME NEW w \in Workers, ChooseVictims(w)
        PROVE  WorkerInv' /\ Advances
    <2> DEFINE c == cycle[w]
               next == [phase |-> "deleting", class |-> c.class, round |-> c.round,
                        active |-> c.active, victims |-> Victims(c.class)]
    <2>1. c \in Choosing
      BY <1>1, <1>5 DEF ChooseVictims, CycleRecords, Resting, Deleting
    <2>2. next \in CycleRecords
      BY <1>1, <2>1, VictimsAreABatch DEF CycleRecords, Choosing, Deleting
    <2>3. /\ cycle' = [cycle EXCEPT ![w] = next] /\ c.phase = "choosing" /\ due' = due
          /\ UNCHANGED <<came, failing>> /\ handle' \in Handles /\ main' \in Mains
      BY <1>1, <1>5 DEF ChooseVictims
    <2> HIDE DEF next
    <2>4. WorkerInv' /\ \A v \in Workers : v # w => cycle'[v] = cycle[v]
      BY <1>1, <2>2, <2>3, OneCycle
    <2>5. QED
      BY <2>3, <2>4, NothingRemoved
  <1>6. ASSUME NEW w \in Workers, NEW class \in Classes, DeleteVictims(w, class)
        PROVE  WorkerInv' /\ Advances
    <2> DEFINE c == cycle[w]
               removed == c.victims \cap due[class]
               full == Cardinality(removed) = BatchSize
               left == IF full THEN c.active ELSE c.active \ {class}
               next == After(class, c.round, left)
    <2>1. c \in Deleting /\ c.class = class
      BY <1>1, <1>6 DEF DeleteVictims, CycleRecords, Resting, Choosing
    <2>2. /\ c.round \in 1 .. Rounds /\ c.active \in SUBSET Classes
          /\ left \in SUBSET Classes /\ left \subseteq c.active
      BY <2>1 DEF Deleting
    <2>3. IsFiniteSet(removed) /\ Cardinality(removed) <= BatchSize
      <3>1. IsFiniteSet(c.victims) /\ Cardinality(c.victims) <= BatchSize
        BY <2>1 DEF Deleting
      <3>2. removed \in SUBSET c.victims
        OBVIOUS
      <3>3. QED
        BY <3>1, <3>2, FS_Subset, FS_CardinalityType, WorkerAssumption
    <2>4. \/ next = Resting
          \/ /\ next \in Choosing /\ next.active = left
             /\ next.round > c.round \/ (next.round = c.round /\ next.class > class)
      <3> HIDE DEF left
      <3>1. QED
        BY <2>2, AfterFits
    <2>5. next \in CycleRecords
      BY <1>2, <2>4 DEF CycleRecords
    <2>6. /\ cycle' = [cycle EXCEPT ![w] = next]
          /\ due' = [due EXCEPT ![class] = due[class] \ removed]
          /\ UNCHANGED <<came, failing>> /\ handle' \in Handles /\ main' \in Mains
      BY <1>1, <1>6 DEF DeleteVictims
    <2>7. /\ due' \in [Classes -> SUBSET Nat] /\ \A d \in Classes : due'[d] \subseteq due[d]
          /\ \A d \in Classes : due[d] \ due'[d] = IF d = class THEN removed ELSE {}
      BY <1>1, <2>6
    <2> HIDE DEF next
    <2>8. /\ WorkerInv' /\ cycle'[w] = next
          /\ \A v \in Workers : v # w => cycle'[v] = cycle[v]
      BY <2>5, <2>6, <2>7, OneCycle
    <2>9. ASSUME NEW d \in Classes PROVE RemovesABatch(d)
      <3>1. IsFiniteSet({}) /\ Cardinality({}) = 0
        BY FS_EmptySet
      <3> HIDE DEF removed
      <3>2. QED
        BY <2>3, <2>7, <3>1, WorkerAssumption DEF RemovesABatch
    <2>10. ASSUME NEW v \in Workers PROVE CycleAdvances(v)
      <3>1. CASE v # w
        BY <2>8, <3>1 DEF CycleAdvances
      <3>2. CASE v = w
        <4>1. CASE next = Resting
          BY <1>2, <2>8, <3>2, <4>1 DEF CycleAdvances
        <4>2. CASE next # Resting
          <5>1. /\ next \in Choosing /\ next.active = left
                /\ next.round > c.round \/ (next.round = c.round /\ next.class > class)
            BY <2>4, <4>2
          <5>2. next.round <= Rounds
            BY <5>1, WorkerAssumption DEF Choosing
          <5>3. class \in left => Cardinality(due[class] \ due'[class]) = BatchSize
            BY <2>7
          <5> HIDE DEF left, removed
          <5>4. QED
            BY <2>1, <2>2, <2>8, <3>2, <5>1, <5>2, <5>3 DEF CycleAdvances
        <4>3. QED
          BY <4>1, <4>2
      <3>3. QED
        BY <3>1, <3>2
    <2>11. QED
      BY <2>8, <2>9, <2>10 DEF Advances
  <1>7. ASSUME NEW w \in Workers, StatementFails(w)
        PROVE  WorkerInv' /\ Advances
    <2> DEFINE c == cycle[w]
               left == c.active \ {c.class}
               next == After(c.class, c.round, left)
    <2>1. c \in Deleting
      BY <1>1, <1>7 DEF StatementFails, CycleRecords, Resting, Choosing
    <2>2. /\ c.class \in Classes /\ c.round \in 1 .. Rounds
          /\ c.active \in SUBSET Classes /\ left \in SUBSET Classes
      BY <2>1 DEF Deleting
    <2>3. \/ next = Resting
          \/ /\ next \in Choosing /\ next.active = left
             /\ next.round > c.round \/ (next.round = c.round /\ next.class > c.class)
      <3> HIDE DEF left
      <3>1. QED
        BY <2>2, AfterFits
    <2>4. next \in CycleRecords
      BY <1>2, <2>3 DEF CycleRecords
    <2>5. /\ cycle' = [cycle EXCEPT ![w] = next] /\ due' = due
          /\ UNCHANGED <<came, failing>> /\ handle' \in Handles /\ main' \in Mains
      BY <1>1, <1>7 DEF StatementFails, AfterError
    <2> HIDE DEF next
    <2>6. /\ WorkerInv' /\ cycle'[w] = next
          /\ \A v \in Workers : v # w => cycle'[v] = cycle[v]
      BY <1>1, <2>4, <2>5, OneCycle
    <2>7. ASSUME NEW v \in Workers PROVE CycleAdvances(v)
      <3>1. CASE v # w \/ next = Resting
        BY <1>2, <2>6, <3>1 DEF CycleAdvances
      <3>2. CASE v = w /\ next # Resting
        <4>1. /\ next \in Choosing /\ next.active = left
              /\ next.round > c.round \/ (next.round = c.round /\ next.class > c.class)
          BY <2>3, <3>2
        <4>2. next.round <= Rounds
          BY <4>1, WorkerAssumption DEF Choosing
        <4>3. QED
          BY <2>6, <3>2, <4>1, <4>2 DEF CycleAdvances
      <3>3. QED
        BY <3>1, <3>2
    <2>8. ASSUME NEW d \in Classes PROVE RemovesABatch(d)
      <3>1. due[d] \ due'[d] = {}
        BY <2>5
      <3>2. IsFiniteSet({}) /\ Cardinality({}) = 0
        BY FS_EmptySet
      <3>3. QED
        BY <3>1, <3>2, WorkerAssumption DEF RemovesABatch
    <2>9. QED
      BY <2>6, <2>7, <2>8 DEF Advances
  <1>8. ASSUME NEW w \in Workers, NEW next \in {Resting, [phase |-> "hanging"]},
               cycle' = [cycle EXCEPT ![w] = next] \/ cycle' = cycle,
               UNCHANGED <<due, came, failing>>, handle' \in Handles, main' \in Mains
        PROVE  WorkerInv' /\ Advances
    <2>1. cycle' = [cycle EXCEPT ![w] = IF cycle' = cycle THEN cycle[w] ELSE next]
      BY <1>1, <1>8
    <2>2. (IF cycle' = cycle THEN cycle[w] ELSE next) \in CycleRecords
      BY <1>1, <1>2
    <2>3. WorkerInv'
      BY <1>1, <1>8, <2>1, <2>2, OneCycle
    <2>4. \A v \in Workers : cycle'[v] = cycle[v] \/ cycle'[v] = next
      BY <1>1, <1>8
    <2>5. next.phase # "choosing"
      BY <1>2
    <2>6. QED
      BY <1>8, <2>3, <2>4, <2>5, NothingRemoved
  <1>9. ASSUME NEW w \in Workers,
               \/ StatementHangs(w) \/ StartWorker(w) \/ LoopReturns(w) \/ LoopPanics(w)
               \/ SignalWorker(w) \/ UnexpectedExit(w) \/ Drain(w) \/ PoolCloses(w)
        PROVE  WorkerInv' /\ Advances
    <2>1. /\ UNCHANGED <<due, came, failing>>
          /\ \/ cycle' = cycle \/ cycle' = [cycle EXCEPT ![w] = Resting]
             \/ cycle' = [cycle EXCEPT ![w] = [phase |-> "hanging"]]
      BY <1>1, <1>9 DEF StatementHangs, StartWorker, LoopReturns, LoopPanics, SignalWorker,
                        UnexpectedExit, Drain, PoolCloses
    <2>2. handle' \in Handles /\ main' \in Mains
      BY <1>1, <1>9 DEF StatementHangs, StartWorker, LoopReturns, LoopPanics, SignalWorker,
                        UnexpectedExit, Drain, PoolCloses
    <2> HIDE DEF Handles, Mains
    <2>3. QED
      BY <1>8, <2>1, <2>2
  <1>10. ASSUME UNCHANGED workerVars
         PROVE  WorkerInv' /\ Advances
    <2>1. WorkerInv'
      BY <1>10 DEF WorkerInv, WorkerTypeOK, workerVars
    <2>2. due' = due /\ cycle' = cycle
      BY <1>10 DEF workerVars
    <2>3. QED
      BY <2>1, <2>2, NothingRemoved
  <1>11. QED
    BY <1>3, <1>4, <1>5, <1>6, <1>7, <1>9, <1>10 DEF WorkerNext

LEMMA WorkerInitially == WorkerInit => WorkerInv
  BY WorkerAssumption DEF WorkerInit, WorkerInv, WorkerTypeOK, CycleRecords, Resting

\* The inductive invariant holds throughout every behaviour of the workers.
THEOREM WorkerInvariance == WorkerSpec => []WorkerInv
  BY WorkerInitially, WorkerStep, PTL DEF WorkerSpec

\* "Bounded": a cycle moves on with every statement, through at most Rounds
\* rounds of the classes, and gives a class another turn only after a full batch,
\* whatever fails, comes due or is removed by another worker meanwhile
\* (run_maintenance_cycle).
THEOREM CyclesAdvance == WorkerSpec => [][\A w \in Workers : CycleAdvances(w)]_workerVars
  <1>1. WorkerInv /\ [WorkerNext]_workerVars
          => [\A w \in Workers : CycleAdvances(w)]_workerVars
    BY WorkerStep DEF Advances
  <1>2. QED
    BY <1>1, WorkerInvariance, PTL DEF WorkerSpec

\* A statement removes at most a batch (LIMIT $1 in the victims of each class).
THEOREM BatchesAreBounded == WorkerSpec => [][\A c \in Classes : RemovesABatch(c)]_workerVars
  <1>1. WorkerInv /\ [WorkerNext]_workerVars
          => [\A c \in Classes : RemovesABatch(c)]_workerVars
    BY WorkerStep DEF Advances
  <1>2. QED
    BY <1>1, WorkerInvariance, PTL DEF WorkerSpec

\* The types of the two processes side by side: the lock of the cache is held by
\* the call that asks, and a cycle ends within its rounds.
THEOREM TypesAreRight == MCSpec => []TypesOK
  <1>1. MCInit => CacheInv /\ WorkerInv
    BY CacheInitially, WorkerInitially DEF MCInit
  <1>2. CacheInv /\ WorkerInv /\ [MCNext]_<<vars, workerVars, part>>
          => CacheInv' /\ WorkerInv'
    <2>1. [MCNext]_<<vars, workerVars, part>> => [Next]_vars /\ [WorkerNext]_workerVars
      BY DEF MCNext
    <2>2. QED
      BY <2>1, CacheStep, WorkerStep
  <1>3. CacheInv /\ WorkerInv => TypesOK
    BY DEF CacheInv, WorkerInv, TypesOK
  <1>4. QED
    BY <1>1, <1>2, <1>3, PTL DEF MCSpec
=============================================================================
