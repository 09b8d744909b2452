------------------------------ MODULE MCService ------------------------------
(***************************************************************************)
(* Small instances of four parts that share no state, for one run of TLC:  *)
(* access to a Silicon, the retained logs and their receivers, the linking *)
(* of former identities and a hook's signing policy.  Each behaviour is of *)
(* one part (part); the others keep their initial state.  The logs come in *)
(* three scenarios, access in two.                                         *)
(***************************************************************************)
EXTENDS SiliconAccess, Receiving, IdentityLinks, SigningPolicies, TLC

CONSTANTS c1, c2, q1, r1, r2, s1, s2, h1, h2, l1,
          i1, i2, i3, u1, u2, u3, o1, o2, e1, e2

VARIABLE part

MCObservers == {c1, c2}
MCOthers == {q1}
MCCallers == {r1, r2}
MCSymmetry == Permutations(MCObservers)
MCHolders == {s1, s2}
MCReceivers == {h1, h2}
MCListers == {l1}
MCIamIds == {i1, i2, i3}
MCUuids == {u1, u2, u3}
MCSilicons == {i1, i2, u1, u2}
MCOldHooks == {o1, o2}
MCIamOwner == o1 :> i1 @@ o2 :> i2
MCIamCreator == o1 :> i3 @@ o2 :> i2
MCEditors == {e1, e2}

Blank == [required |-> Unset, algorithm |-> Unset, encoding |-> Unset,
          public |-> Unset, secret |-> NoText]
MCPatches ==
    {[Blank EXCEPT !.required = r] : r \in BOOLEAN}
    \cup {[Blank EXCEPT !.encoding = e] : e \in Encodings}
    \cup {[Blank EXCEPT !.encoding = "base64", !.secret = Encodings],
          [Blank EXCEPT !.secret = {"utf8"}],
          [Blank EXCEPT !.algorithm = "HMAC", !.public = "clear"],
          [Blank EXCEPT !.algorithm = "HMAC", !.public = "clear", !.required = FALSE],
          [Blank EXCEPT !.algorithm = "Ed25519", !.public = "ed25519 key"],
          [Blank EXCEPT !.algorithm = "RSA", !.public = "rsa key"],
          [Blank EXCEPT !.algorithm = "RSA", !.public = "unusable"],
          [Blank EXCEPT !.public = "rsa key"]}

Access == {"access", "enrolment"}
Logs == {"rows", "hooks", "receiving"}

MCInit ==
    /\ part \in Access \cup Logs \cup {"links", "policy"}
    /\ AccessInit /\ HistoryInit /\ ReceivingInit /\ LinksInit /\ PolicyInit
    /\ part # "access" => custodian = NoOne
    /\ part \in Logs => holder[h1] = s1
    /\ part \notin Logs => holder = [h \in Receivers |-> s1]
    /\ part = "receiving" => holder[h2] = s2
    /\ part # "links" => history = {}
    /\ part # "policy" => policy.required /\ policy.encoding = "utf8"

(* The logs: at most one request is captured at a time, the heaviest row   *)
(* is the second, hook h1 stays.  "rows": no hook is deleted; "hooks":     *)
(* hooks are, within one tick; "receiving": an app instead of a listing.   *)
MCScopes == {q \in Scopes : q.silicon = s1 /\ q.filter # h2}
LogStep ==
    \/ part # "receiving" /\ (ListAgain(l1) \/ \E q \in MCScopes : Ask(l1, q))
       /\ UNCHANGED receivingVars
    \/ StoreNext /\ UNCHANGED receivingVars
    \/ part = "receiving" /\ ReceivingNext /\ UNCHANGED historyVars
LogBounds ==
    /\ Cardinality(captured') <= 1
    /\ \A r \in captured' : (r.weight = 3 <=> r.id = 2) /\ (r.hook = h1 => r.collection = "events")
    /\ deleted'[h1] = Live
    /\ part = "receiving" => \A r \in captured' : r.collection = "events" /\ r.id # 3
    /\ part = "rows" => deleted' = deleted
    /\ part = "hooks" => present' <= 1 /\ \A r \in captured' : r.collection = "events"

(* Access: one request and one allowance at a time, and beside a           *)
(* subscription neither an allowance nor another Silicon's grant; one      *)
(* account is deleted at most.  "enrolment": two requests, of a Silicon    *)
(* without a custodian, and nobody is deleted.                             *)
AccessBounds ==
    IF part = "access"
    THEN /\ caller'[r2] = IdleCaller
         /\ Cardinality(allowances') <= 1
         /\ Cardinality(gone') <= 1
         /\ subscriptions' # {} => allowances' = {} /\ grants' \subseteq Observers
    ELSE /\ custodian' = NoOne /\ gone' = {} /\ allowances' = {}
         /\ grants' \subseteq Observers

MCNext ==
    /\ \/ part \in Access /\ AccessNext /\ AccessBounds
          /\ UNCHANGED <<historyVars, receivingVars, linksVars, policyVars>>
       \/ part \in Logs /\ LogStep /\ LogBounds
          /\ UNCHANGED <<accessVars, linksVars, policyVars>>
       \/ part = "links" /\ LinksNext /\ Cardinality(closed') <= 1
          /\ UNCHANGED <<accessVars, historyVars, receivingVars, policyVars>>
       \/ part = "policy" /\ PolicyNext
          /\ UNCHANGED <<accessVars, historyVars, receivingVars, linksVars>>
    /\ UNCHANGED part

MCSpec ==
    MCInit /\ [][MCNext]_<<accessVars, historyVars, receivingVars, linksVars, policyVars, part>>
=============================================================================
