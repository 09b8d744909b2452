----------------------------- MODULE MCSignIns -----------------------------
(***************************************************************************)
(* Small instances, for one run of TLC, of the four protocols with Silicon *)
(* Accounts: the account directory, the sign-ins that the service checks,  *)
(* the command-line tool's sessions and its device flow.  They share no    *)
(* state here, and each behaviour is of one part (part); the others keep   *)
(* their initial state.  "keys" is the sign-ins over a key set from        *)
(* before, without sign-outs.  Of the changes of "directory" at most four  *)
(* events are told; in "sessions" one sign-in at most is left that nobody  *)
(* could end or keep.                                                      *)
(***************************************************************************)
EXTENDS AccountsDirectory, SignIns, CliSessions, DeviceSignIn, TLC

CONSTANTS i1, i2, c1, l1, k1, r1, r2, p1, p2, a1, u1

VARIABLE part

MCPublicIds == {i1, i2}
MCCarbons == {c1}
MCLookups == {l1}
MCTokens == {k1}
MCRequests == {r1, r2}
MCProcesses == {p1, p2}
MCHolders == {a1}
MCUrls == {u1}
MCIntervals == {0, 1, 2, 4}
MCExpires == {0, 2, 7, 12}

(* Requests and processes are of different parts: the two of either are    *)
(* interchanged together, which is the same for one part and less work.    *)
Interchanged(a, b) == r1 :> a[1] @@ r2 :> a[2] @@ p1 :> b[1] @@ p2 :> b[2]
MCSymmetry ==
    Permutations(MCPublicIds) \cup
        {Interchanged(<<r1, r2>>, <<p1, p2>>), Interchanged(<<r2, r1>>, <<p2, p1>>)}

SignInParts == {"sign_ins", "keys"}

MCInit ==
    /\ DirectoryInit /\ SignInInit /\ SessionsInit /\ DeviceInit
    /\ part \in SignInParts \cup {"directory", "sessions", "device"}
    /\ part # "directory" => truth[0].id = i1 /\ truth[0].custodian = Nobody /\ ~retired
    /\ part = "keys" <=> jwks.at > 0
    /\ part # "sessions" => stale = {} /\ ~saved.session.started

(* Five instants for "keys", four where there are sign-outs as well.       *)
SignInBounds == IF part = "keys" THEN signOuts' = {} ELSE clock' < MaxInstant

MCNext ==
    /\ \/ part = "directory" /\ DirectoryNext /\ Cardinality(events') <= 4
          /\ UNCHANGED <<signInVars, sessionsVars, deviceVars>>
       \/ part \in SignInParts /\ SignInNext /\ SignInBounds
          /\ UNCHANGED <<directoryVars, sessionsVars, deviceVars>>
       \/ part = "sessions" /\ SessionsNext /\ Cardinality(left') <= 1
          /\ UNCHANGED <<directoryVars, signInVars, deviceVars>>
       \/ part = "device" /\ DeviceNext
          /\ UNCHANGED <<directoryVars, signInVars, sessionsVars>>
    /\ UNCHANGED part

MCSpec == MCInit /\ [][MCNext]_<<directoryVars, signInVars, sessionsVars, deviceVars, part>>
=============================================================================
