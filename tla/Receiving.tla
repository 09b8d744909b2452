------------------------------ MODULE Receiving ------------------------------
(***************************************************************************)
(* An app that receives a Silicon's events through Ting with the client    *)
(* crate (crates/client/src/delivery.rs, delivery/calls.rs), over the logs *)
(* of EventHistory.                                                        *)
(*                                                                         *)
(* Ting hands over batches of references and repeats a batch until it is   *)
(* answered.  The receiver checks the whole batch, then fetches one event  *)
(* after the other with the recipient's own access; the host saves the     *)
(* outcomes and only then answers.  Between two fetches events expire,     *)
(* hooks are deleted, restored and purged, and access is lost and given.   *)
(***************************************************************************)
EXTENDS EventHistory

CONSTANTS
    MaxBatch,       \* MAX_BATCH_ITEMS
    Alien           \* a notification of another app or for another recipient

ASSUME ReceivingAssumption == MaxBatch \in Nat \ {0}

VARIABLES
    allowed,    \* Silicons the recipient has access to
    sent,       \* history: the events whose reference Ting was given
    waiting,    \* notifications Ting has no answer for
    batch,      \* the callback being worked on
    saved       \* outcomes the host has saved: event id -> outcome

receivingVars == <<allowed, sent, waiting, batch, saved>>

NoBatch == [phase |-> "none", left |-> {}, outcomes |-> {}]
Nothing == "nothing"

ReceivingInit ==
    /\ allowed = Holders
    /\ sent = {}
    /\ waiting = {Alien}
    /\ batch = NoBatch
    /\ saved = [id \in RowIds |-> Nothing]

----------------------------------------------------------------------------
(* prepare_event: the reference of a logged event is sent to its recipient *)
(* (TingOutbox); the provider's request stays in Hook.                     *)
Refer(row) ==
    /\ row \in rows /\ row.collection = "events"
    /\ row \notin sent
    /\ sent' = sent \cup {row}
    /\ waiting' = waiting \cup {row}
    /\ UNCHANGED <<allowed, batch, saved>>

(* Access comes and goes (SiliconAccess).                                  *)
ChangeAccess(s) ==
    /\ allowed' = IF s \in allowed THEN allowed \ {s} ELSE allowed \cup {s}
    /\ UNCHANGED <<sent, waiting, batch, saved>>

(* decode: every notification of the batch is a reference to an event for  *)
(* this recipient.                                                         *)
Decoded(S) == S # {} /\ Cardinality(S) <= MaxBatch /\ Alien \notin S

(* A callback; an error leaves the batch for Ting to retry.                *)
Callback(S) ==
    /\ batch = NoBatch
    /\ S \subseteq waiting
    /\ Decoded(S)
    /\ batch' = [phase |-> "resolving", left |-> S, outcomes |-> {}]
    /\ UNCHANGED <<allowed, sent, waiting, saved>>

(* Hook's answer to GET /silicons/{s}/events/{e}: the access first, then   *)
(* get_event over what is stored now.                                      *)
Hydrates(row) == row \in rows /\ Kept(row)
Answer(row) ==
    CASE holder[row.hook] \notin allowed -> "no_access"
      [] holder[row.hook] \in allowed /\ Hydrates(row) -> "event"
      [] OTHER -> "not_found"

(* Mutant: whatever Hook refuses is unavailable.                           *)
OutcomeOfAnyRefusal(answer) == IF answer = "event" THEN "event" ELSE "unavailable"
(* resolve_notification: only 404 not_found becomes an outcome.            *)
Outcome(answer) ==
    CASE answer = "event" -> "event"
      [] answer = "not_found" -> "unavailable"
      [] OTHER -> "error"

(* resolve: any error fails the batch.                                     *)
GoesOn(answer) == answer # "error"

(* The next notification; its fetch may also fail in the transport.        *)
ResolveNext(row, failed) ==
    LET outcome == IF failed THEN "error" ELSE Outcome(Answer(row))
    IN  /\ batch.phase = "resolving" /\ row \in batch.left
        /\ batch' = IF GoesOn(outcome)
                    THEN [batch EXCEPT !.left = @ \ {row},
                                       !.outcomes = @ \cup {[row |-> row, is |-> outcome]}]
                    ELSE NoBatch
        /\ UNCHANGED <<allowed, sent, waiting, saved>>

(* The host saves the batch, events it has already only once ...           *)
Save ==
    /\ batch.phase = "resolving" /\ batch.left = {}
    /\ saved' = [id \in RowIds |->
          IF saved[id] = Nothing /\ \E o \in batch.outcomes : o.row.id = id /\ o.is # "error"
          THEN (CHOOSE o \in batch.outcomes : o.row.id = id).is ELSE saved[id]]
    /\ batch' = [batch EXCEPT !.phase = "saved"]
    /\ UNCHANGED <<allowed, sent, waiting>>
(* ... and answers 204; or it crashes, or its answer is lost.              *)
Acknowledge ==
    /\ batch.phase = "saved"
    /\ waiting' = waiting \ {o.row : o \in batch.outcomes}
    /\ batch' = NoBatch
    /\ UNCHANGED <<allowed, sent, saved>>
LoseBatch ==
    /\ batch # NoBatch
    /\ batch' = NoBatch
    /\ UNCHANGED <<allowed, sent, waiting, saved>>

ReceivingNext ==
    \/ \E row \in rows : Refer(row)
    \/ \E s \in Holders : ChangeAccess(s)
    \/ \E S \in SUBSET waiting : Callback(S)
    \/ \E row \in batch.left, failed \in BOOLEAN : ResolveNext(row, failed)
    \/ Save \/ Acknowledge \/ LoseBatch

ReceivingSpec ==
    HistoryInit /\ ReceivingInit
    /\ [][\/ HistoryNext /\ UNCHANGED receivingVars
          \/ ReceivingNext /\ UNCHANGED historyVars]_<<historyVars, receivingVars>>

----------------------------------------------------------------------------
(* Properties.                                                             *)

(* "Hook no longer has" an event that was saved as unavailable, now or     *)
(* ever: not one that another account took the access to, nor one of a     *)
(* deleted hook that can still be restored.                                *)
UnavailableIsGone ==
    \A row \in rows : saved[row.id] = "unavailable" => ~Kept(row)

(* Ting stops repeating an event only when its outcome is saved, although  *)
(* one of a batch may fail, and crashes and lost answers repeat others.    *)
AcknowledgedIsSaved ==
    \A row \in sent : row \notin waiting => saved[row.id] # Nothing

(* The outcomes a receiver saves are true, and Ting is told of no other.   *)
OutcomesAreTrue == UnavailableIsGone /\ AcknowledgedIsSaved
=============================================================================
