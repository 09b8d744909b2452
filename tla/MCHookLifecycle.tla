-------------------------- MODULE MCHookLifecycle --------------------------
(* Small instances of the hook lifecycle for TLC.                          *)
EXTENDS HookLifecycle, TLC
CONSTANTS h1, h2, h3, c1, c2, k1, Scenarios
VARIABLE scenario

MCHooks == {h1, h2, h3}
MCClients == {c1, c2}
MCOneHook == {h1}
MCOneClient == {c1}
MCKeys == {k1}
SymmetryTwo == Permutations({h1, h2}) \cup Permutations(MCClients)

Used == {h \in Hooks : hooks'[h].status # "unused"}
Busy == {c \in Clients : request'[c].phase # "idle"}

(* Three scenarios with one set of constants, each within bounds of its    *)
(* own, besides the free one:                                              *)
(* two hooks that are created and purged, one request after another;       *)
(* two requests at once on one hook and its secrets; and                   *)
(* two requests at once on two hooks with public keys, beside the Accounts *)
(* hook, which stays as it is.                                             *)
MCInit == Init /\ scenario \in Scenarios
MCNext ==
    /\ Next
    /\ scenario = "creation" => Cardinality(Busy) <= 1 /\ issued' <= 1 /\ h3 \notin Used
    /\ scenario = "secrets" => Cardinality(Used) <= 1 /\ h3 \notin Used /\ clock' <= 1
    /\ scenario = "limit" =>
          /\ issued' <= 1 /\ \A h \in Used \ {h3} : hooks'[h].asymmetric
          /\ Used = {} \/ h3 \in Used
          /\ \A h \in Used : hooks'[h].default <=> h = h3
          /\ hooks[h3].status # "unused" => hooks'[h3] = hooks[h3]
    /\ UNCHANGED scenario
MCSpec == MCInit /\ [][MCNext]_<<vars, scenario>>
=============================================================================
