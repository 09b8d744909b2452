------------------------------- MODULE Worker -------------------------------
(***************************************************************************)
(* The maintenance workers (worker/mod.rs, worker/maintenance.rs,          *)
(* postgres/maintenance.rs): processes that remove, round by round and in  *)
(* batches, the rows of each class that are due, and that stop on a signal *)
(* or when their loop fails.                                               *)
(*                                                                         *)
(* A statement chooses its victims in a snapshot without locking them and  *)
(* deletes those that are still there, so two workers may share a batch.   *)
(* What makes rows due is in HookLifecycle, Ingress and EventHistory.      *)
(***************************************************************************)
EXTENDS Naturals, FiniteSets

CONSTANTS
    Workers,        \* worker processes
    Classes,        \* MaintenanceTask::ALL, numbered in its order
    BatchSize,      \* HOOK_MAINTENANCE_BATCH_SIZE
    Rounds,         \* HOOK_MAINTENANCE_BATCHES_PER_CYCLE
    MaxDue,         \* bound: rows of a class that ever come due
    MaxStops        \* bound: signals and failures of loops

ASSUME WorkerAssumption ==
    /\ Classes \subseteq Nat \ {0} /\ Classes # {}
    /\ BatchSize \in Nat \ {0} /\ Rounds \in Nat \ {0}
    /\ MaxDue \in Nat /\ MaxStops \in Nat

VARIABLES
    due,        \* rows of each class that can be removed, numbered as they came due
    came,       \* how many of each class ever came due
    failing,    \* classes whose statement always fails
    cycle,      \* the loop of each worker
    handle,     \* main's handle of the loop's task
    main,       \* the main task
    stops

workerVars == <<due, came, failing, cycle, handle, main, stops>>

(* The loop between two cycles; within one, class is next in round and the *)
(* active classes may have more work.                                      *)
Resting == [phase |-> "waiting"]
NextIn(class, round, active) ==
    [phase |-> "choosing", class |-> class, round |-> round, active |-> active]
First(S) == CHOOSE c \in S : \A d \in S : c <= d

WorkerInit ==
    /\ due = [c \in Classes |-> {}]
    /\ came = [c \in Classes |-> 0]
    /\ failing \in SUBSET Classes
    /\ cycle = [w \in Workers |-> Resting]
    /\ handle = [w \in Workers |-> "none"]
    /\ main = [w \in Workers |-> "off"]
    /\ stops = 0

(* A row expires, or is out of its recovery time.                          *)
ComeDue(c) ==
    /\ came[c] < MaxDue
    /\ came' = [came EXCEPT ![c] = @ + 1]
    /\ due' = [due EXCEPT ![c] = @ \cup {came'[c]}]
    /\ UNCHANGED <<failing, cycle, handle, main, stops>>

----------------------------------------------------------------------------
(* The loop.                                                               *)

Runs(w) == handle[w] = "running"

(* A tick starts a cycle unless the signal is there.                       *)
StartCycle(w) ==
    /\ Runs(w) /\ main[w] = "serving" /\ cycle[w] = Resting
    /\ cycle' = [cycle EXCEPT ![w] = NextIn(First(Classes), 1, Classes)]
    /\ UNCHANGED <<due, came, failing, handle, main, stops>>

(* The snapshot of a statement: the oldest rows that are due.              *)
Victims(c) == {n \in due[c] : Cardinality({m \in due[c] : m < n}) < BatchSize}
ChooseVictims(w) ==
    /\ Runs(w) /\ cycle[w].phase = "choosing"
    /\ cycle' = [cycle EXCEPT ![w] =
          [phase |-> "deleting", class |-> @.class, round |-> @.round,
           active |-> @.active, victims |-> Victims(@.class)]]
    /\ UNCHANGED <<due, came, failing, handle, main, stops>>

(* Where the cycle goes on after a class: the next one that is active, or  *)
(* the next round, or to rest.                                             *)
After(class, round, active) ==
    LET later == {c \in active : c > class}
    IN  CASE later # {} -> NextIn(First(later), round, active)
          [] later = {} /\ active # {} /\ round < Rounds ->
                NextIn(First(active), round + 1, active)
          [] OTHER -> Resting

(* Mutant: an error ends the cycle.                                        *)
AfterErrorRests(class, round, active) == Resting
(* A class whose statement failed is left alone for the rest of the cycle. *)
AfterError(class, round, active) == After(class, round, active \ {class})

(* purge: more work is expected only after a full batch.                   *)
DeleteVictims(w, class) ==
    LET c == cycle[w]
        removed == c.victims \cap due[class]
        full == Cardinality(removed) = BatchSize
    IN  /\ Runs(w) /\ c.phase = "deleting" /\ c.class = class /\ class \notin failing
        /\ due' = [due EXCEPT ![class] = @ \ removed]
        /\ cycle' = [cycle EXCEPT ![w] =
              After(class, c.round, IF full THEN c.active ELSE c.active \ {class})]
        /\ UNCHANGED <<came, failing, handle, main, stops>>

(* An error, the server's statement timeout included.                      *)
StatementFails(w) ==
    LET c == cycle[w]
    IN  /\ Runs(w) /\ c.phase = "deleting"
        /\ cycle' = [cycle EXCEPT ![w] = AfterError(c.class, c.round, c.active)]
        /\ UNCHANGED <<due, came, failing, handle, main, stops>>

(* The answer never comes: the connection is gone and nobody says so.      *)
StatementHangs(w) ==
    /\ Runs(w) /\ cycle[w].phase = "deleting" /\ stops < MaxStops
    /\ cycle' = [cycle EXCEPT ![w] = [phase |-> "hanging"]]
    /\ stops' = stops + 1
    /\ UNCHANGED <<due, came, failing, handle, main>>

----------------------------------------------------------------------------
(* The process.  A JoinHandle gives the outcome of its task once; polled   *)
(* again it panics.                                                        *)

StartWorker(w) ==
    /\ main[w] \in {"off", "stopped", "panicked"}
    /\ main' = [main EXCEPT ![w] = "serving"]
    /\ handle' = [handle EXCEPT ![w] = "running"]
    /\ cycle' = [cycle EXCEPT ![w] = Resting]
    /\ UNCHANGED <<due, came, failing, stops>>

(* The loop ends: it sees the signal between two cycles ...                *)
LoopReturns(w) ==
    /\ Runs(w) /\ main[w] = "draining" /\ cycle[w] = Resting
    /\ handle' = [handle EXCEPT ![w] = "finished"]
    /\ UNCHANGED <<due, came, failing, cycle, main, stops>>
(* ... or panics.                                                          *)
LoopPanics(w) ==
    /\ Runs(w) /\ cycle[w].phase \in {"choosing", "deleting"} /\ stops < MaxStops
    /\ stops' = stops + 1
    /\ handle' = [handle EXCEPT ![w] = "finished"]
    /\ cycle' = [cycle EXCEPT ![w] = Resting]
    /\ UNCHANGED <<due, came, failing, main>>

(* run's select: a signal, or the outcome of the loop.                     *)
SignalWorker(w) ==
    /\ main[w] = "serving" /\ stops < MaxStops
    /\ main' = [main EXCEPT ![w] = "draining"]
    /\ stops' = stops + 1
    /\ UNCHANGED <<due, came, failing, cycle, handle>>
UnexpectedExit(w) ==
    /\ main[w] = "serving" /\ handle[w] = "finished"
    /\ main' = [main EXCEPT ![w] = "draining"]
    /\ handle' = [handle EXCEPT ![w] = "taken"]
    /\ UNCHANGED <<due, came, failing, cycle, stops>>

(* Mutant: the loop is awaited for ever.                                   *)
DeadlineNever(w) == FALSE
(* drain's deadline can pass whenever the loop is still awaited.           *)
DeadlinePasses(w) == main[w] = "draining" /\ Runs(w)

(* drain: the outcome of the loop, or its end by abort.  run goes on to    *)
(* close the pool; the connection of a statement whose answer never comes  *)
(* stays behind.                                                           *)
Drain(w) ==
    /\ main[w] = "draining"
    /\ \/ handle[w] = "finished" /\ main' = [main EXCEPT ![w] = "closing"]
       \/ handle[w] = "taken" /\ main' = [main EXCEPT ![w] = "panicked"]
       \/ DeadlinePasses(w) /\ main' = [main EXCEPT ![w] = "closing"]
    /\ handle' = [handle EXCEPT ![w] = "none"]
    /\ cycle' = [cycle EXCEPT ![w] = IF @.phase = "hanging" THEN @ ELSE Resting]
    /\ UNCHANGED <<due, came, failing, stops>>

(* The pool is closed once its connections have come back; a lost one may  *)
(* never do so, and run sets no deadline for it.                           *)
PoolCloses(w) ==
    /\ main[w] = "closing"
    /\ main' = [main EXCEPT ![w] = "stopped"]
    /\ cycle' = [cycle EXCEPT ![w] = Resting]
    /\ UNCHANGED <<due, came, failing, handle, stops>>

WorkerNext ==
    \/ \E c \in Classes : ComeDue(c)
    \/ \E w \in Workers :
          \/ StartCycle(w) \/ ChooseVictims(w) \/ \E c \in Classes : DeleteVictims(w, c)
          \/ StatementFails(w) \/ StatementHangs(w)
          \/ StartWorker(w) \/ LoopReturns(w) \/ LoopPanics(w)
          \/ SignalWorker(w) \/ UnexpectedExit(w) \/ Drain(w) \/ PoolCloses(w)

(* The ticker ticks, a statement ends unless its connection is lost, and   *)
(* one that can succeed does not fail each time; a pool without a lost     *)
(* connection closes; a process that ended is started again.               *)
WorkerFairness ==
    \A w \in Workers :
        /\ WF_workerVars(\/ StartCycle(w) \/ ChooseVictims(w)
                         \/ StatementFails(w) \/ LoopReturns(w))
        /\ \A c \in Classes : SF_workerVars(DeleteVictims(w, c))
        /\ WF_workerVars(\/ UnexpectedExit(w) \/ Drain(w)
                         \/ cycle[w].phase # "hanging" /\ PoolCloses(w)
                         \/ main[w] # "off" /\ StartWorker(w))

WorkerSpec == WorkerInit /\ [][WorkerNext]_workerVars /\ WorkerFairness

----------------------------------------------------------------------------
(* Properties.                                                             *)

(* The types; a cycle ends within its rounds, whatever comes due meanwhile. *)
WorkerTypeOK ==
    /\ \A c \in Classes : came[c] <= MaxDue /\ due[c] \subseteq 1 .. came[c]
    /\ handle \in [Workers -> {"none", "running", "finished", "taken"}]
    /\ main \in [Workers -> {"off", "serving", "draining", "closing", "stopped", "panicked"}]
    /\ \A w \in Workers : cycle[w].phase \in {"choosing", "deleting"} =>
          cycle[w].round <= Rounds /\ cycle[w].class \in cycle[w].active

(* "bounded and fair": a row that is due is removed in the end, although   *)
(* another class fails every time, workers take the same batches, panic    *)
(* and are restarted; unless every worker waits for a lost connection, in  *)
(* its loop or in closing its pool.                                        *)
DueIsRemoved ==
    \A c \in Classes, n \in 1 .. MaxDue :
        n \in due[c] /\ c \notin failing /\ (\E w \in Workers : main[w] # "off")
        ~> n \notin due[c]
           \/ \A w \in Workers : main[w] = "off" \/ cycle[w].phase = "hanging"

(* A worker that was told to stop, or whose loop failed, awaits its loop   *)
(* no longer than the deadline, even while that waits for an answer that   *)
(* never comes; and it ends, unless such an answer is what the closing of  *)
(* its pool then waits for.                                                *)
ToldToStopEnds ==
    \A w \in Workers :
        main[w] = "draining"
        ~> \/ main[w] \in {"stopped", "panicked"}
           \/ main[w] = "closing" /\ cycle[w].phase = "hanging"

(* "Returns an error when ... the loop terminates unexpectedly": run gives *)
(* the loop's failure back instead of panicking over it.                   *)
RunReturns == \A w \in Workers : main[w] # "panicked"
=============================================================================
