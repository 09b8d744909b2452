---------------------------- MODULE Notifications ----------------------------
(***************************************************************************)
(* What Hook promises of its notifications, without the outbox: each one   *)
(* is wanted once, reaches Ting at most once, and is confirmed only after  *)
(* it did; one that is held or forgotten is never taken up again.          *)
(* The states are those publication_status answers; TingOutbox implements  *)
(* this.                                                                   *)
(***************************************************************************)
CONSTANTS
    Wanted,     \* notifications that may ever be wanted
    HeldBack    \* those that are held for good

VARIABLES
    known,      \* what Hook knows of each: its state towards the recipient
    arrived     \* the notifications Ting has

InitNotifications ==
    /\ known = [n \in Wanted |->
                IF n \in HeldBack THEN "not_delivered_legacy" ELSE "not_queued"]
    /\ arrived = {}

Want(n) ==
    /\ known[n] = "not_queued"
    /\ known' = [known EXCEPT ![n] = "pending"]
    /\ UNCHANGED arrived

(* It may still arrive after Hook has forgotten it, but not once more after *)
(* it is confirmed, and never when it is held back.                         *)
Arrive(n) ==
    /\ known[n] \in {"pending", "forgotten"} /\ n \notin HeldBack
    /\ arrived' = arrived \cup {n}
    /\ UNCHANGED known

Confirm(n) ==
    /\ known[n] = "pending" /\ n \in arrived
    /\ known' = [known EXCEPT ![n] = "accepted_by_ting"]
    /\ UNCHANGED arrived

(* Its event expired or nobody observes any more.                          *)
Forget(n) ==
    /\ known[n] \in {"not_delivered_legacy", "pending", "accepted_by_ting"}
    /\ known' = [known EXCEPT ![n] = "forgotten"]
    /\ UNCHANGED arrived

NextNotification ==
    \E n \in Wanted : Want(n) \/ Arrive(n) \/ Confirm(n) \/ Forget(n)

NotificationSpec == InitNotifications /\ [][NextNotification]_<<known, arrived>>
=============================================================================
