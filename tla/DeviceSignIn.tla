---------------------------- MODULE DeviceSignIn ----------------------------
(***************************************************************************)
(* A Carbon's device sign-in from a command line: the client polls Silicon *)
(* Accounts for the tokens of a code until the Carbon approves or denies   *)
(* it on the account site, or the code expires                             *)
(* (crates/client/src/signin/flows.rs, crates/cli/src/login.rs).           *)
(*                                                                         *)
(* Time is counted in ticks.  The client's clock and Accounts' run alike,  *)
(* but an answer takes up to MaxLatency, so the two sides disagree on when *)
(* something happened.  Accounts may give any interval and life; the       *)
(* client clamps both.                                                     *)
(***************************************************************************)
EXTENDS Naturals, FiniteSetsExt

CONSTANTS
    SlowStep,       \* what slow_down adds to the interval (5 s)
    MaxInterval,    \* the longest interval the client takes (60 s)
    MaxExpires,     \* the longest life the client takes (1800 s)
    GivenIntervals, \* intervals Accounts may give
    GivenExpires,   \* lives Accounts may give
    MaxLatency      \* bound: ticks an answer takes

ASSUME DeviceAssumption ==
    /\ {SlowStep, MaxInterval, MaxExpires} \subseteq Nat \ {0} /\ MaxLatency \in Nat
    /\ GivenIntervals \cup GivenExpires \subseteq Nat

VARIABLES
    ticks,      \* ticks since the code was issued
    code,       \* Accounts: "none", "pending", "approved", "denied" or "taken"
    life,       \* Accounts: when the code expires
    told,       \* Accounts: the interval it has told the client
    device      \* the client's loop

deviceVars == <<ticks, code, life, told, device>>

Clamp(low, n, high) == IF n < low THEN low ELSE IF n > high THEN high ELSE n
Idle == [phase |-> "start", pace |-> 0, deadline |-> 0, wake |-> 0,
         sent |-> 0, before |-> 0, answer |-> "none", answered |-> 0]

DeviceInit ==
    ticks = 0 /\ code = "none" /\ life = 0 /\ told = 0 /\ device = Idle

(* At the latest the client polls at the deadline.                        *)
Sleep(d, pace) ==
    [d EXCEPT !.phase = "sleep", !.pace = pace,
              !.wake = ticks + Min({pace, d.deadline - ticks})]

(* Mutant: slow_down is taken for pending.                                 *)
LoopAtOldPace(d, pace) ==
    IF ticks >= d.deadline THEN [d EXCEPT !.phase = "gave_up"]
    ELSE Sleep(d, IF d.pace = 0 THEN pace ELSE d.pace)
(* The head of the loop: give up at the deadline, else sleep until the     *)
(* next poll, which is at the deadline at the latest.                      *)
Loop(d, pace) ==
    IF ticks >= d.deadline THEN [d EXCEPT !.phase = "gave_up"] ELSE Sleep(d, pace)

StartDevice(interval, expires) ==
    /\ device.phase = "start" /\ ticks = 0
    /\ code' = "pending" /\ life' = expires /\ told' = interval
    /\ device' = Loop([Idle EXCEPT !.deadline = Clamp(1, expires, MaxExpires)],
                      Clamp(1, interval, MaxInterval))
    /\ UNCHANGED ticks

(* The Carbon on the account site.                                         *)
Settle(answer) ==
    /\ code = "pending" /\ ticks < life
    /\ code' = answer
    /\ UNCHANGED <<ticks, life, told, device>>

(* poll_device: the request reaches Accounts and its answer is under way,  *)
(* or either gets lost.                                                    *)
Poll(answer) ==
    device' = [device EXCEPT !.phase = "asked", !.answer = answer,
                             !.sent = ticks, !.before = device.sent]
PollDevice ==
    /\ device.phase = "sleep" /\ ticks = device.wake
    /\ \/ Poll("lost") /\ UNCHANGED <<code, told>>
       \/ /\ ticks >= life \/ code = "taken"
          /\ Poll("expired") /\ UNCHANGED <<code, told>>
       \/ /\ ticks < life /\ code \in {"pending", "approved"}
          /\ Poll("slow_down")
          /\ told' = told + SlowStep /\ UNCHANGED code
       \/ /\ ticks < life /\ code = "pending"
          /\ Poll("pending") /\ UNCHANGED <<code, told>>
       \/ /\ ticks < life /\ code = "denied"
          /\ Poll("denied") /\ UNCHANGED <<code, told>>
       \/ /\ ticks < life /\ code = "approved"
          /\ \E answer \in {"tokens", "lost"} : Poll(answer)
          /\ code' = "taken" /\ UNCHANGED told
    /\ UNCHANGED <<ticks, life>>

(* wait_for_device: what the client makes of the answer.                   *)
Answered ==
    LET d == [device EXCEPT !.answered = ticks]
    IN  /\ device.phase = "asked"
        /\ device' = CASE d.answer \in {"tokens", "denied", "expired"} -> [d EXCEPT !.phase = "over"]
                       [] d.answer = "slow_down" -> Loop(d, d.pace + SlowStep)
                       [] OTHER -> Loop(d, d.pace)
        /\ UNCHANGED <<ticks, code, life, told>>

(* Ctrl-C.                                                                 *)
Interrupt ==
    /\ device.phase \in {"sleep", "asked"}
    /\ device' = [device EXCEPT !.phase = "interrupted"]
    /\ UNCHANGED <<ticks, code, life, told>>

(* Time passes up to the next thing the client does.                       *)
DeviceTick ==
    /\ \/ device.phase = "sleep" /\ ticks < device.wake
       \/ device.phase = "asked" /\ ticks < device.sent + MaxLatency
    /\ ticks' = ticks + 1
    /\ UNCHANGED <<code, life, told, device>>

DeviceNext ==
    \/ \E interval \in GivenIntervals, expires \in GivenExpires : StartDevice(interval, expires)
    \/ \E answer \in {"approved", "denied"} : Settle(answer)
    \/ PollDevice \/ Answered \/ Interrupt \/ DeviceTick

DeviceSpec == DeviceInit /\ [][DeviceNext]_deviceVars

----------------------------------------------------------------------------

DeviceTypeOK ==
    /\ ticks \in 0 .. MaxExpires + MaxLatency
    /\ code \in {"none", "pending", "approved", "denied", "taken"}
    /\ device.phase \in {"start", "sleep", "asked", "over", "gave_up", "interrupted"}
    /\ device.wake <= device.deadline

(* wait_for_device honours what it was told: two polls are as far apart as *)
(* the interval with every slow_down it has read, unless the later one is  *)
(* the last, at the deadline.                                              *)
PolledAsTold ==
    device.phase = "asked" /\ device.sent # device.deadline =>
        device.sent - device.before >= Min({told - (IF device.answer = "slow_down" THEN SlowStep ELSE 0),
                                            MaxInterval})

(* "the code's expiry" is honoured to its end: a client that gives up has  *)
(* had an answer at or after the deadline, so that it misses no approval   *)
(* in time whose answer reached it.                                        *)
NoApprovalMissed == device.phase = "gave_up" => device.answered >= device.deadline

(* wait_for_device keeps to what it was told, at both ends: never sooner   *)
(* than the interval, and never given up before the code's expiry.         *)
PollsAsTold == DeviceTypeOK /\ PolledAsTold /\ NoApprovalMissed
=============================================================================
