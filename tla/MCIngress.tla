----------------------------- MODULE MCIngress -----------------------------
(* Instances of Ingress for TLC.                                           *)
EXTENDS Ingress, TLC

CONSTANTS h1, h2, a1, a2, r1, r2, r3
VARIABLE scenario

\* The third policy version asks for no signature.
ThirdOptional == {3}

\* Handlers are interchangeable.
RequestSymmetry == Permutations(Requests)

\* Four scenarios with one set of constants, each within bounds of its own:
\* two hooks and the rotation of a key, at two times; events of two hooks at two
\* times, with nothing rejected; one event of a hook whose policy is replaced
\* again and again while time passes; and three handlers of one address of a hook
\* that is not deleted, through several blocks, with more strikes in flight than
\* a block takes.
MCInit == Init /\ scenario \in {"routing", "positions", "policy", "blocks"}
MCNext ==
    /\ Next
    /\ scenario = "routing" =>
          /\ clock' <= 1 /\ sequence' <= 2 /\ hooks'[h2].key = 1
          /\ \A h \in Hooks : hooks'[h].policy = 1
    /\ scenario = "positions" =>
          /\ clock' <= 2 /\ \A h \in Hooks : hooks'[h].policy = 1 /\ hooks'[h].key = 1
          /\ UNCHANGED <<blocks, stale>>
    /\ scenario = "policy" =>
          /\ sequence' <= 1 /\ clock' <= 3
          /\ \A h \in Hooks : hooks'[h].key = 1 /\ (h = h2 => hooks'[h] = hooks[h])
          /\ \A r \in Requests : request'[r].hook # h2
    /\ scenario = "blocks" =>
          /\ sequence' = 0 /\ UNCHANGED withheld /\ PurgesOnlyLapsed
          /\ hooks'[h2] = hooks[h2] /\ hooks'[h1].key = 1 /\ hooks'[h1].policy = 1
          /\ hooks'[h1].status # "deleted"
          /\ \A r \in Requests : request'[r].hook # h2 /\ request'[r].signed = Unsigned
    /\ (scenario # "blocks" => \E r \in Requests : \A q \in Requests \ {r} : request'[q] = Waiting)
    /\ UNCHANGED scenario
MCSpec == MCInit /\ [][MCNext]_<<vars, scenario>>
=============================================================================
