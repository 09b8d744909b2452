------------------------------ MODULE MCProcesses ------------------------------
(***************************************************************************)
(* Small instances of two parts of Hook's processes whose steps must end,  *)
(* for one run of TLC: the proof cache of the API process and the          *)
(* maintenance workers.  Each behaviour is of one part; the other keeps    *)
(* its initial state, in which none of its fair actions is enabled.        *)
(***************************************************************************)
EXTENDS ProofCache, Worker
CONSTANTS p1, p2, w1, w2, Parts
VARIABLE part

MCCalls == {p1, p2}
MCWorkers == {w1, w2}

MCInit ==
    /\ Init /\ WorkerInit
    /\ part \in Parts
    /\ part = "proofs" => failing = {}
    /\ part # "proofs" => scope = "tings.send"
(* A worker alone, or two of which one waits for the other's statement.    *)
MCNext ==
    /\ UNCHANGED part
    /\ \/ part = "proofs" /\ Next /\ UNCHANGED workerVars
       \/ part = "worker" /\ WorkerNext /\ UNCHANGED vars /\ main'[w2] = "off"
       \/ part = "workers" /\ WorkerNext /\ UNCHANGED vars /\ stops' = 0 /\ came'[2] <= 1
MCSpec == MCInit /\ [][MCNext]_<<vars, workerVars, part>> /\ Fairness /\ WorkerFairness


(* The types of both parts; a lock is held by the call that asks, and a    *)
(* cycle ends within its rounds.                                           *)
TypesOK == TypeOK /\ WorkerTypeOK
=============================================================================
