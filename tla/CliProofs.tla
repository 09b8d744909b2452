------------------------------ MODULE CliProofs ------------------------------
(***************************************************************************)
(* The command line's two protocols with Silicon Accounts, for any number  *)
(* of processes and tokens and any intervals and lives that Accounts       *)
(* gives: the sign-ins of a profile, and the device sign-in.               *)
(***************************************************************************)
EXTENDS CliSessions, DeviceSignIn, FiniteSetTheorems, TLAPS

----------------------------------------------------------------------------
(* The device sign-in.                                                     *)

Answers == {"none", "lost", "expired", "slow_down", "pending", "denied", "tokens"}
Devices ==
    [phase : {"start", "sleep", "asked", "over", "gave_up", "interrupted"},
     pace : Nat, deadline : 0 .. MaxExpires, wake : Nat, sent : Nat,
     before : Nat, answer : Answers, answered : Nat]

DeviceTypes ==
    /\ ticks \in Nat /\ life \in Nat /\ told \in Nat /\ device \in Devices
    /\ code \in {"none", "pending", "approved", "denied", "taken"}
    /\ device.phase = "start" => ticks = 0

\* The client's pace is no shorter than what it has been told.
AtLeast(pace, interval) == pace >= interval \/ pace >= MaxInterval

\* A client that waits does so for a whole pace since it last asked, or up to
\* the deadline.
SleepsLongEnough ==
    device.phase = "sleep" =>
        /\ device.sent <= ticks /\ ticks <= device.wake
        /\ AtLeast(device.pace, told)
        /\ device.wake < device.deadline => device.wake >= device.sent + device.pace

\* A client that has asked did so, and the answer is not later than possible.
AskedInTime ==
    device.phase = "asked" =>
        /\ device.sent <= ticks /\ ticks <= device.sent + MaxLatency
        /\ device.sent <= device.deadline
        /\ device.sent < device.deadline => device.sent >= device.before + device.pace
        /\ IF device.answer = "slow_down"
           THEN told >= SlowStep /\ AtLeast(device.pace, told - SlowStep)
           ELSE AtLeast(device.pace, told)

DeviceInv ==
    /\ DeviceTypes /\ SleepsLongEnough /\ AskedInTime /\ NoApprovalMissed
    /\ device.wake <= device.deadline /\ ticks <= MaxExpires + MaxLatency

\* The smaller of two numbers.
LEMMA MinOfTwo ==
    ASSUME NEW a \in Nat, NEW b \in Nat
    PROVE  Min({a, b}) = IF a <= b THEN a ELSE b
  <1> DEFINE m == IF a <= b THEN a ELSE b
  <1>1. m \in {a, b} /\ \A y \in {a, b} : m <= y
    OBVIOUS
  <1>2. \A x \in {a, b} : (\A y \in {a, b} : x <= y) => x = m
    OBVIOUS
  <1>3. (CHOOSE x \in {a, b} : \A y \in {a, b} : x <= y) = m
    <2> DEFINE Least(x) == x \in {a, b} /\ \A y \in {a, b} : x <= y
    <2>1. Least(m) /\ \A x : Least(x) => x = m
      BY <1>1, <1>2
    <2>2. Least(CHOOSE x : Least(x))
      <3> HIDE DEF Least
      <3> QED BY <2>1
    <2>3. (CHOOSE x : Least(x)) = m
      <3> HIDE DEF Least
      <3> QED BY <2>1, <2>2
    <2>4. QED
      BY <2>3
  <1>4. QED
    BY <1>3 DEF Min

\* What the loop's head comes to: a wait of at most a pace, or the end.
LEMMA LoopWaits ==
    ASSUME NEW d \in Devices, NEW pace \in Nat, ticks \in Nat
    PROVE  /\ Loop(d, pace) \in Devices
           /\ ticks >= d.deadline => Loop(d, pace) = [d EXCEPT !.phase = "gave_up"]
           /\ ticks < d.deadline =>
                /\ Loop(d, pace).phase = "sleep" /\ Loop(d, pace).pace = pace
                /\ Loop(d, pace).sent = d.sent /\ Loop(d, pace).deadline = d.deadline
                /\ ticks <= Loop(d, pace).wake /\ Loop(d, pace).wake <= d.deadline
                /\ \/ Loop(d, pace).wake = d.deadline
                   \/ Loop(d, pace).wake = ticks + pace
  <1> USE DeviceAssumption
  <1>1. CASE ticks >= d.deadline
    BY <1>1 DEF Loop, Devices
  <1>2. CASE ticks < d.deadline
    <2>1. d.deadline \in Nat /\ d.deadline - ticks \in Nat
      BY <1>2 DEF Devices
    <2>2. Min({pace, d.deadline - ticks}) =
            IF pace <= d.deadline - ticks THEN pace ELSE d.deadline - ticks
      BY <2>1, MinOfTwo
    <2> DEFINE wait == Min({pace, d.deadline - ticks})
    <2>3. Loop(d, pace) = [d EXCEPT !.phase = "sleep", !.pace = pace, !.wake = ticks + wait]
      BY <1>2, <2>1 DEF Loop, Sleep
    <2> HIDE DEF wait
    <2>4. /\ wait \in Nat /\ wait <= d.deadline - ticks
          /\ wait = pace \/ wait = d.deadline - ticks
      BY <2>1, <2>2 DEF wait
    <2>5. /\ ticks + wait \in Nat /\ ticks + wait <= d.deadline /\ ticks <= ticks + wait
          /\ ticks + wait = d.deadline \/ ticks + wait = ticks + pace
      BY <2>1, <2>4
    <2> DEFINE woken == ticks + wait
    <2>6. Loop(d, pace) = [d EXCEPT !.phase = "sleep", !.pace = pace, !.wake = woken]
      BY <2>3
    <2>7. /\ woken \in Nat /\ woken <= d.deadline /\ ticks <= woken
          /\ woken = d.deadline \/ woken = ticks + pace
      BY <2>5
    <2> HIDE DEF woken
    <2>8. /\ Loop(d, pace).phase = "sleep" /\ Loop(d, pace).pace = pace
          /\ Loop(d, pace).sent = d.sent /\ Loop(d, pace).deadline = d.deadline
          /\ Loop(d, pace).wake = woken /\ Loop(d, pace) \in Devices
      BY <2>6, <2>7 DEF Devices
    <2>9. QED
      BY <1>2, <2>1, <2>7, <2>8
  <1>3. QED
    BY <1>1, <1>2 DEF Devices

LEMMA DeviceInitially == DeviceInit => DeviceInv
  BY DeviceAssumption DEF DeviceInit, DeviceInv, DeviceTypes, SleepsLongEnough, AskedInTime,
        NoApprovalMissed, Idle, Devices, Answers

LEMMA DeviceKept == DeviceInv /\ [DeviceNext]_deviceVars => DeviceInv'
  <1> SUFFICES ASSUME DeviceInv, [DeviceNext]_deviceVars PROVE DeviceInv'
    OBVIOUS
  <1> USE DeviceAssumption
  <1>1. DeviceTypes
    BY DEF DeviceInv
  <1>2. ASSUME NEW interval \in GivenIntervals, NEW expires \in GivenExpires,
               StartDevice(interval, expires)
        PROVE  DeviceInv'
    <2> DEFINE d == [Idle EXCEPT !.deadline = Clamp(1, expires, MaxExpires)]
               pace == Clamp(1, interval, MaxInterval)
    <2>1. d \in Devices /\ d.deadline >= 1 /\ d.sent = 0 /\ pace \in Nat
      BY DEF Idle, Devices, Answers, Clamp
    <2>2. AtLeast(pace, interval) /\ interval \in Nat /\ expires \in Nat
      BY DEF Clamp, AtLeast
    <2>3. ticks = 0 /\ device' = Loop(d, pace) /\ told' = interval /\ ticks' = 0
          /\ code' = "pending" /\ life' = expires
      BY <1>2 DEF StartDevice
    <2> HIDE DEF d, pace
    <2>4. Loop(d, pace) \in Devices /\ Loop(d, pace).phase = "sleep" /\ Loop(d, pace).pace = pace
          /\ Loop(d, pace).sent = 0 /\ Loop(d, pace).deadline = d.deadline
          /\ 0 <= Loop(d, pace).wake /\ Loop(d, pace).wake <= d.deadline
          /\ (Loop(d, pace).wake = d.deadline \/ Loop(d, pace).wake = pace)
      <3>1. ticks \in Nat /\ ticks < d.deadline /\ ticks + pace = pace
        BY <2>1, <2>3 DEF Devices
      <3>2. QED
        BY <2>1, <2>3, <3>1, LoopWaits
    <2>5. d.deadline \in 0 .. MaxExpires
      BY <2>1 DEF Devices
    <2>6. QED
      BY <2>1, <2>2, <2>3, <2>4, <2>5
      DEF DeviceInv, DeviceTypes, SleepsLongEnough, AskedInTime, NoApprovalMissed, AtLeast
  <1>3. ASSUME NEW answer \in {"approved", "denied"}, Settle(answer)
        PROVE  DeviceInv'
    BY <1>3 DEF Settle, DeviceInv, DeviceTypes, SleepsLongEnough, AskedInTime, NoApprovalMissed, AtLeast
  <1>4. CASE PollDevice
    <2>1. PICK answer \in Answers :
            /\ device.phase = "sleep" /\ ticks = device.wake /\ ticks' = ticks /\ life' = life
            /\ Poll(answer)
            /\ IF answer = "slow_down" THEN told' = told + SlowStep ELSE told' = told
            /\ code' \in {code, "taken"}
      BY <1>4 DEF PollDevice, Poll, Answers
    <2>2. device' = [device EXCEPT !.phase = "asked", !.answer = answer,
                                   !.sent = ticks, !.before = device.sent]
      BY <2>1 DEF Poll
    <2>3. device' \in Devices
      BY <1>1, <2>2 DEF Devices, DeviceTypes
    <2>4. DeviceTypes'
      BY <1>1, <2>1, <2>2, <2>3 DEF DeviceTypes, Devices
    <2>5. AskedInTime'
      <3>1. device'.phase = "asked" /\ device'.sent = ticks /\ device'.before = device.sent
            /\ device'.pace = device.pace /\ device'.deadline = device.deadline
            /\ device'.answer = answer
        BY <1>1, <2>2 DEF Devices, DeviceTypes
      <3>2. /\ device.sent \in Nat /\ ticks \in Nat /\ device.pace \in Nat
            /\ told \in Nat /\ device.deadline \in Nat
        BY <1>1 DEF Devices, DeviceTypes
      <3>3. /\ AtLeast(device.pace, told) /\ ticks <= device.deadline
            /\ ticks < device.deadline => ticks >= device.sent + device.pace
        BY <2>1 DEF DeviceInv, SleepsLongEnough
      <3>4. QED
        BY <2>1, <3>1, <3>2, <3>3 DEF AskedInTime, AtLeast
    <2>6. /\ device'.phase = "asked" /\ device'.wake = device.wake
          /\ device'.deadline = device.deadline
      BY <1>1, <2>2 DEF Devices, DeviceTypes
    <2>7. QED
      BY <2>1, <2>4, <2>5, <2>6 DEF DeviceInv, SleepsLongEnough, NoApprovalMissed
  <1>5. CASE Answered
    <2> DEFINE d == [device EXCEPT !.answered = ticks]
    <2>1. d \in Devices /\ d.answered = ticks /\ d.deadline = device.deadline
          /\ d.pace = device.pace /\ d.sent = device.sent /\ d.answer = device.answer
          /\ d.phase = device.phase /\ d.wake = device.wake
      BY <1>1 DEF Devices, DeviceTypes
    <2>2. /\ device.phase = "asked" /\ UNCHANGED <<ticks, code, life, told>>
          /\ \/ device' = [d EXCEPT !.phase = "over"]
             \/ device.answer = "slow_down" /\ device' = Loop(d, d.pace + SlowStep)
             \/ device.answer # "slow_down" /\ device' = Loop(d, d.pace)
      BY <1>5, <2>1 DEF Answered
    <2> HIDE DEF d
    <2>3. CASE device' = [d EXCEPT !.phase = "over"]
      <3>1. device' \in Devices /\ device'.phase = "over" /\ device'.wake = device.wake
            /\ device'.deadline = device.deadline
        BY <2>1, <2>3 DEF Devices
      <3>2. QED
        BY <2>2, <3>1 DEF DeviceInv, DeviceTypes, SleepsLongEnough, AskedInTime, NoApprovalMissed
    <2>4. ASSUME NEW pace \in Nat, device' = Loop(d, pace), pace >= device.pace, AtLeast(pace, told)
          PROVE  DeviceInv'
      <3>1. ticks \in Nat
        BY <1>1 DEF DeviceTypes
      <3>2. CASE ticks >= d.deadline
        <4>1. device' = [d EXCEPT !.phase = "gave_up"]
          BY <2>1, <2>4, <3>1, <3>2, LoopWaits
        <4>2. /\ device' \in Devices /\ device'.phase = "gave_up" /\ device'.wake = device.wake
              /\ device'.deadline = device.deadline /\ device'.answered = ticks
          BY <2>1, <4>1 DEF Devices
        <4>3. QED
          BY <2>1, <2>2, <3>2, <4>2
          DEF DeviceInv, DeviceTypes, SleepsLongEnough, AskedInTime, NoApprovalMissed
      <3>3. CASE ticks < d.deadline
        <4>1. /\ device' \in Devices /\ device'.phase = "sleep" /\ device'.pace = pace
              /\ device'.sent = d.sent /\ device'.deadline = d.deadline
              /\ ticks <= device'.wake /\ device'.wake <= d.deadline
              /\ (device'.wake = d.deadline \/ device'.wake = ticks + pace)
          BY <2>1, <2>4, <3>1, <3>3, LoopWaits
        <4>2. d.sent <= ticks /\ d.sent \in Nat /\ d.deadline \in Nat
          BY <2>1, <2>2 DEF DeviceInv, AskedInTime, Devices
        <4>3. DeviceTypes' /\ NoApprovalMissed' /\ AskedInTime'
          BY <1>1, <2>2, <4>1 DEF DeviceTypes, NoApprovalMissed, AskedInTime
        <4>4. SleepsLongEnough'
          BY <2>2, <2>4, <3>1, <4>1, <4>2 DEF SleepsLongEnough, AtLeast
        <4>5. QED
          BY <2>2, <4>1, <4>3, <4>4 DEF DeviceInv
      <3>4. QED
        BY <2>1, <3>1, <3>2, <3>3 DEF Devices
    <2>5. CASE device.answer = "slow_down" /\ device' = Loop(d, d.pace + SlowStep)
      <3>1. d.pace \in Nat /\ told \in Nat /\ d.pace + SlowStep \in Nat
        BY <1>1, <2>1 DEF Devices, DeviceTypes
      <3>2. told >= SlowStep /\ AtLeast(device.pace, told - SlowStep)
        BY <2>2, <2>5 DEF DeviceInv, AskedInTime
      <3>3. AtLeast(d.pace + SlowStep, told)
        BY <2>1, <3>1, <3>2 DEF AtLeast
      <3>4. QED
        BY <2>1, <2>4, <2>5, <3>1, <3>3
    <2>6. CASE device.answer # "slow_down" /\ device' = Loop(d, d.pace)
      <3>1. d.pace \in Nat /\ AtLeast(d.pace, told)
        BY <2>1, <2>2, <2>6 DEF DeviceInv, AskedInTime, Devices
      <3>2. QED
        BY <2>1, <2>4, <2>6, <3>1
    <2>7. QED
      BY <2>2, <2>3, <2>5, <2>6
  <1>6. CASE Interrupt
    <2>1. /\ device' \in Devices /\ device'.phase = "interrupted" /\ device'.wake = device.wake
          /\ device'.deadline = device.deadline
      BY <1>1, <1>6 DEF Interrupt, Devices, DeviceTypes
    <2>2. QED
      BY <1>1, <1>6, <2>1 DEF Interrupt, DeviceInv, DeviceTypes, SleepsLongEnough, AskedInTime, NoApprovalMissed
  <1>7. CASE DeviceTick
    <2>1. /\ ticks \in Nat /\ ticks' = ticks + 1 /\ UNCHANGED <<code, life, told, device>>
          /\ device.wake \in Nat /\ device.deadline \in 0 .. MaxExpires /\ device.sent \in Nat
          /\ \/ device.phase = "sleep" /\ ticks < device.wake
             \/ device.phase = "asked" /\ ticks < device.sent + MaxLatency
      BY <1>1, <1>7 DEF DeviceTick, DeviceTypes, Devices
    <2>2. ticks + 1 <= MaxExpires + MaxLatency
      BY <2>1 DEF DeviceInv, AskedInTime
    <2>3. QED
      BY <1>1, <2>1, <2>2 DEF DeviceInv, DeviceTypes, SleepsLongEnough, AskedInTime, NoApprovalMissed, AtLeast
  <1>8. CASE UNCHANGED deviceVars
    BY <1>8 DEF deviceVars, DeviceInv, DeviceTypes, SleepsLongEnough, AskedInTime, NoApprovalMissed, AtLeast
  <1>9. QED
    BY <1>2, <1>3, <1>4, <1>5, <1>6, <1>7, <1>8 DEF DeviceNext

\* The inductive invariant of the device sign-in.
THEOREM DeviceInvariance == DeviceSpec => []DeviceInv
  BY DeviceInitially, DeviceKept, PTL DEF DeviceSpec

\* The client polls no sooner than it was told and gives up no sooner than
\* the code expires, for any intervals, lives and latencies (wait_for_device).
THEOREM PollsAreAsTold == DeviceSpec => []PollsAsTold
  <1>1. DeviceInv => PollsAsTold
    <2> SUFFICES ASSUME DeviceInv PROVE PollsAsTold
      OBVIOUS
    <2>1. DeviceTypeOK
      BY DeviceAssumption DEF DeviceInv, DeviceTypes, Devices, DeviceTypeOK
    <2>2. PolledAsTold
      <3> SUFFICES ASSUME device.phase = "asked", device.sent # device.deadline
                   PROVE  device.sent - device.before >=
                            Min({told - (IF device.answer = "slow_down" THEN SlowStep ELSE 0), MaxInterval})
        BY DEF PolledAsTold
      <3> DEFINE owed == told - (IF device.answer = "slow_down" THEN SlowStep ELSE 0)
      <3>1. /\ owed \in Nat /\ MaxInterval \in Nat /\ AtLeast(device.pace, owed)
            /\ device.sent \in Nat /\ device.before \in Nat /\ device.pace \in Nat
            /\ device.sent >= device.before + device.pace
        BY DeviceAssumption DEF DeviceInv, DeviceTypes, Devices, AskedInTime
      <3> HIDE DEF owed
      <3>2. Min({owed, MaxInterval}) = IF owed <= MaxInterval THEN owed ELSE MaxInterval
        BY <3>1, MinOfTwo
      <3>3. device.sent - device.before >= Min({owed, MaxInterval})
        BY <3>1, <3>2 DEF AtLeast
      <3>4. QED
        BY <3>3 DEF owed
    <2>3. QED
      BY <2>1, <2>2 DEF DeviceInv, PollsAsTold
  <1>2. QED
    BY <1>1, DeviceInvariance, PTL

----------------------------------------------------------------------------
(* The sign-ins of a profile.                                              *)

Running ==
    [cmd : Commands \cup {"save_id"}, url : Urls, forced : BOOLEAN,
     mine : Session \cup {NoSession}, renewed : Nat, phase : Phases,
     answer : {"none", "renewed", "ended", "kept", "uncertain"}]
InHandOf(r) == r # Waiting /\ r.mine # NoSession

\* Which command is at which step, and from when on it has a session in hand.
FitsStep(r) ==
    /\ r.phase \in {"read", "sent", "answered", "use"} => r.cmd = "call"
    /\ r.phase = "exchange" => r.cmd = "login" /\ r.mine = NoSession
    /\ r.phase \in {"revoke", "forget"} => r.cmd # "save_id"
    /\ r.phase = "forget" => r.cmd # "login"
    /\ r.phase \in {"lock", "locked"} => (r.cmd = "logout" <=> r.mine = NoSession)
    /\ r.mine = NoSession => r.phase \in {"read", "exchange", "lock", "locked"}
StepFits(p) ==
    /\ proc[p] \in {Waiting} \cup Running
    /\ proc[p] # Waiting => FitsStep(proc[p])
    /\ InHandOf(proc[p]) => proc[p].mine.token \in DOMAIN family

\* Exactly the processes that are about to write the file hold its lock.
Writes(r) == (r.phase \in Held) \/ (r.phase = "revoke" /\ r.cmd # "login")
HoldsIfWriting(p) == p \in lock <=> Writes(proc[p])

\* Who holds the lock works on the token that is saved.
HasSaved(p) ==
    Writes(proc[p]) /\ proc[p].phase # "locked" =>
        /\ saved.session # NoSession /\ saved.session.token = proc[p].mine.token
        /\ proc[p].phase \in {"sent", "answered"} => saved.session.started

\* What a process read of Accounts' answer is so, and what it is about to
\* forget has ended or could not be.
AnswerIsTrue(p) ==
    /\ proc[p].phase = "answered" =>
         /\ proc[p].answer # "none"
         /\ proc[p].answer = "renewed" =>
              /\ proc[p].renewed \in DOMAIN family
              /\ family[proc[p].renewed] = family[proc[p].mine.token]
         /\ proc[p].answer = "ended" => family[proc[p].mine.token] \in over
    /\ proc[p].phase = "forget" => family[proc[p].mine.token] \in over \cup left

ProcessFits(p) == StepFits(p) /\ HoldsIfWriting(p) /\ HasSaved(p) /\ AnswerIsTrue(p)

\* The saved token was issued, and one in a damaged file is known to be left.
SavedFits ==
    /\ saved \in [readable : BOOLEAN, session : Session \cup {NoSession}]
    /\ saved.session # NoSession => saved.session.token \in DOMAIN family
    /\ saved.session # NoSession /\ ~saved.readable => family[saved.session.token] \in left

Issued ==
    /\ \E n \in 1 .. MaxTokens : family \in [1 .. n -> Nat]
    /\ spent \cup stale \subseteq DOMAIN family

SessionsInv ==
    /\ proc = [p \in Processes |-> proc[p]]
    /\ \A p \in Processes : ProcessFits(p)
    /\ lock \subseteq Processes /\ \A p, q \in lock : p = q
    /\ SavedFits /\ Issued /\ NoSignInLeftBehind

\* A process that may keep a sign-in from being left behind.
Keeps(r) == r # Waiting /\ r.cmd \in {"login", "logout"} /\ r.mine # NoSession

\* Nothing that was issued changes, and what ended or was left stays so.
Grows ==
    /\ \A t \in DOMAIN family : t \in DOMAIN family' /\ family'[t] = family[t]
    /\ over \subseteq over' /\ left \subseteq left'

\* The sign-in of a token is accounted for by a process or the file.
AccountedFor(p, t) ==
    \/ family[t] \in over \cup left
    \/ saved.session # NoSession /\ family[saved.session.token] = family[t]
    \/ Keeps(proc[p]) /\ family[proc[p].mine.token] = family[t]

\* What a process or the file keeps accounted for.
KeptBy(p, t) ==
    \/ saved.session # NoSession /\ saved.session.token = t
    \/ Keeps(proc[p]) /\ proc[p].mine.token = t

\* A step of one process keeps the invariant if it does for that process and
\* the file, writes the file only without another's lock, and accounts for
\* the sign-ins that the process or the file kept, and for new ones.
LEMMA ProcessMoves ==
    ASSUME SessionsInv, NEW p \in Processes, NEW r,
           proc' = [proc EXCEPT ![p] = r], ProcessFits(p)', SavedFits', Issued', Grows,
           (saved' = saved) \/ (lock \subseteq {p}),
           lock' \subseteq lock \cup {p}, lock \subseteq lock' \cup {p},
           p \in lock' => lock \subseteq {p},
           \A t \in DOMAIN family : KeptBy(p, t) => AccountedFor(p, t)',
           \A t \in DOMAIN family' : t \notin DOMAIN family => AccountedFor(p, t)'
    PROVE  SessionsInv'
  <1>1. \A q \in Processes : q # p => proc'[q] = proc[q]
    BY DEF SessionsInv
  <1>2. proc' = [q \in Processes |-> proc'[q]] /\ proc'[p] = r
    BY DEF SessionsInv
  <1>3. lock' \subseteq Processes /\ \A q1, q2 \in lock' : q1 = q2
    BY DEF SessionsInv
  <1>4. ASSUME NEW q \in Processes, q # p PROVE ProcessFits(q)'
    <2>1. ProcessFits(q) /\ proc'[q] = proc[q] /\ (q \in lock' <=> q \in lock)
      BY <1>1, <1>4 DEF SessionsInv
    <2>2. StepFits(q)'
      BY <2>1 DEF ProcessFits, StepFits, Grows
    <2>3. HoldsIfWriting(q)'
      BY <2>1 DEF ProcessFits, HoldsIfWriting
    <2>4. Writes(proc[q]) => saved' = saved
      BY <1>4, <2>1 DEF ProcessFits, HoldsIfWriting
    <2>5. HasSaved(q)'
      BY <2>1, <2>4 DEF ProcessFits, HasSaved
    <2>6. proc[q].phase \in {"answered", "forget"} => proc[q].mine.token \in DOMAIN family
      <3>1. proc[q].phase \in {"answered", "forget"} => InHandOf(proc[q])
        BY <2>1 DEF ProcessFits, StepFits, FitsStep, InHandOf, Waiting
      <3>2. QED
        BY <2>1, <3>1 DEF ProcessFits, StepFits
    <2>7. AnswerIsTrue(q)'
      BY <2>1, <2>6 DEF ProcessFits, AnswerIsTrue, Grows
    <2>8. QED
      BY <2>2, <2>3, <2>5, <2>7 DEF ProcessFits
  <1>5. NoSignInLeftBehind'
    <2>1. SUFFICES ASSUME NEW t \in DOMAIN family', t \in DOMAIN family,
                          family'[t] \notin over' \cup left',
                          ~(saved'.session # NoSession /\ family'[saved'.session.token] = family'[t])
                   PROVE  \E q \in Processes : Keeps(proc'[q]) /\ family'[proc'[q].mine.token] = family'[t]
      BY <1>2 DEF NoSignInLeftBehind, AccountedFor, Keeps
    <2>2. family'[t] = family[t] /\ family[t] \notin over \cup left
      BY <2>1 DEF Grows
    <2>3. CASE saved.session # NoSession /\ family[saved.session.token] = family[t]
      <3>1. saved.session.token \in DOMAIN family /\ KeptBy(p, saved.session.token)
        BY <2>3 DEF SessionsInv, SavedFits, KeptBy
      <3> DEFINE u == saved.session.token
      <3>2. PICK x \in DOMAIN family : x = u /\ family[x] = family[t] /\ KeptBy(p, x)
        BY <2>3, <3>1
      <3>3. AccountedFor(p, x)' /\ family'[x] = family'[t]
        BY <2>2, <3>2 DEF Grows
      <3>4. QED
        BY <2>1, <3>3 DEF AccountedFor
    <2>4. CASE \E q \in Processes : Keeps(proc[q]) /\ family[proc[q].mine.token] = family[t]
      <3>1. PICK q \in Processes : Keeps(proc[q]) /\ family[proc[q].mine.token] = family[t]
        BY <2>4
      <3>2. proc[q].mine.token \in DOMAIN family
        BY <3>1 DEF SessionsInv, ProcessFits, StepFits, InHandOf, Keeps
      <3>3. CASE q # p
        BY <1>1, <2>2, <3>1, <3>2, <3>3 DEF Grows
      <3>4. CASE q = p
        <4>1. PICK x \in DOMAIN family : x = proc[p].mine.token /\ family[x] = family[t] /\ KeptBy(p, x)
          BY <3>1, <3>2, <3>4 DEF KeptBy
        <4>2. AccountedFor(p, x)' /\ family'[x] = family'[t]
          BY <2>2, <4>1 DEF Grows
        <4>3. QED
          BY <2>1, <4>2 DEF AccountedFor
      <3>5. QED
        BY <3>3, <3>4
    <2>5. QED
      BY <2>1, <2>2, <2>3, <2>4 DEF SessionsInv, NoSignInLeftBehind, Keeps
  <1>6. QED
    BY <1>2, <1>3, <1>4, <1>5 DEF SessionsInv

\* How many tokens were issued.
LEMMA IssuedCount ==
    ASSUME Issued
    PROVE  /\ Cardinality(DOMAIN family) \in 1 .. MaxTokens
           /\ DOMAIN family = 1 .. Cardinality(DOMAIN family)
           /\ family \in [1 .. Cardinality(DOMAIN family) -> Nat]
  <1>1. PICK n \in 1 .. MaxTokens : family \in [1 .. n -> Nat]
    BY DEF Issued
  <1>2. MaxTokens \in Nat
    BY SessionsAssumption
  <1>3. n \in Nat /\ n >= 1 /\ DOMAIN family = 1 .. n
    BY <1>1, <1>2
  <1>4. Cardinality(1 .. n) = n
    BY <1>3, FS_Interval
  <1>5. QED
    BY <1>1, <1>3, <1>4

LEMMA SessionsInitially == SessionsInit => SessionsInv
  <1> SUFFICES ASSUME SessionsInit PROVE SessionsInv
    OBVIOUS
  <1>1. PICK a \in Holders, u \in Urls, begun \in BOOLEAN :
          saved = [readable |-> TRUE,
                   session |-> [SessionFrom(1, a, u) EXCEPT !.started = begun]]
    BY DEF SessionsInit
  <1>2. 1 \in 1 .. MaxTokens /\ MaxTokens \in Nat
    BY SessionsAssumption
  <1>3. saved.session = [token |-> 1, who |-> a, url |-> u, id |-> a, started |-> begun]
        /\ saved.readable = TRUE
    BY <1>1 DEF SessionFrom
  <1>4. saved.session \in Session /\ saved.session.token = 1 /\ saved.session # NoSession
    BY <1>2, <1>3, SessionsAssumption DEF Session
  <1>5. /\ family = [t \in {1} |-> 1] /\ DOMAIN family = {1} /\ family[1] = 1
        /\ proc = [p \in Processes |-> Waiting]
        /\ lock = {} /\ spent \subseteq {1} /\ stale \subseteq {1}
    BY DEF SessionsInit
  <1>6. Issued
    <2>1. family \in [1 .. 1 -> Nat]
      BY <1>5
    <2>2. \E n \in 1 .. MaxTokens : family \in [1 .. n -> Nat]
      BY <1>2, <2>1
    <2>3. QED
      BY <1>5, <2>2 DEF Issued
  <1>7. SavedFits
    BY <1>1, <1>3, <1>4, <1>5 DEF SavedFits
  <1>8. ASSUME NEW p \in Processes PROVE ProcessFits(p)
    BY <1>5 DEF ProcessFits, StepFits, HoldsIfWriting, HasSaved, AnswerIsTrue, InHandOf,
        Writes, Held, Waiting
  <1>9. NoSignInLeftBehind
    BY <1>4, <1>5 DEF NoSignInLeftBehind
  <1>10. QED
    BY <1>5, <1>6, <1>7, <1>8, <1>9 DEF SessionsInv

\* What the invariant says of a process at work.
LEMMA AtWork ==
    ASSUME SessionsInv, NEW p \in Processes, proc[p].phase # "none"
    PROVE  /\ proc[p] \in Running /\ FitsStep(proc[p])
           /\ proc[p].mine # NoSession => proc[p].mine.token \in DOMAIN family
           /\ proc[p].mine # NoSession => proc[p].mine \in Session
           /\ p \in lock <=> Writes(proc[p])
           /\ p \in lock => lock \subseteq {p}
           /\ HasSaved(p) /\ AnswerIsTrue(p)
           /\ saved.session # NoSession => saved.session \in Session
  <1>1. ProcessFits(p) /\ proc[p] # Waiting
    BY DEF SessionsInv, Waiting
  <1>2. proc[p] \in Running /\ FitsStep(proc[p])
    BY <1>1 DEF ProcessFits, StepFits
  <1>3. proc[p].mine \in Session \cup {NoSession}
    BY <1>2 DEF Running
  <1>4. proc[p].mine # NoSession => proc[p].mine.token \in DOMAIN family
    BY <1>1 DEF ProcessFits, StepFits, InHandOf
  <1>5. p \in lock <=> Writes(proc[p])
    BY <1>1 DEF ProcessFits, HoldsIfWriting
  <1>6. p \in lock => lock \subseteq {p}
    BY DEF SessionsInv
  <1>7. saved.session # NoSession => saved.session \in Session
    BY DEF SessionsInv, SavedFits
  <1>8. QED
    BY <1>1, <1>2, <1>3, <1>4, <1>5, <1>6, <1>7 DEF ProcessFits

\* A step that neither writes the file nor issues a token keeps the invariant
\* if what the process does next fits, and a sign-in it drops has ended or is
\* known to be left.
LEMMA OnlyProcessMoves ==
    ASSUME SessionsInv, NEW p \in Processes, NEW r,
           proc' = [proc EXCEPT ![p] = r], UNCHANGED <<saved, family, spent, stale>>,
           over \subseteq over', left \subseteq left',
           (r = Waiting) \/ (r \in Running /\ FitsStep(r)),
           InHandOf(r) => r.mine.token \in DOMAIN family,
           lock' \subseteq lock \cup {p}, lock \subseteq lock' \cup {p},
           p \in lock' <=> Writes(r), p \in lock' => lock \subseteq {p},
           Writes(r) /\ r.phase # "locked" =>
             /\ saved.session # NoSession /\ saved.session.token = r.mine.token
             /\ r.phase \in {"sent", "answered"} => saved.session.started,
           r.phase = "answered" =>
             \/ r.answer \in {"kept", "uncertain"}
             \/ r.answer = "ended" /\ family[r.mine.token] \in over',
           r.phase = "forget" => family[r.mine.token] \in over' \cup left',
           Keeps(proc[p]) =>
             \/ family[proc[p].mine.token] \in over' \cup left'
             \/ saved.session # NoSession /\ saved.session.token = proc[p].mine.token
             \/ Keeps(r) /\ r.mine = proc[p].mine
    PROVE  SessionsInv'
  <1>1. proc'[p] = r
    BY DEF SessionsInv
  <1>2. ProcessFits(p)'
    BY <1>1 DEF ProcessFits, StepFits, HoldsIfWriting, HasSaved, AnswerIsTrue
  <1>3. SavedFits' /\ Issued' /\ Grows
    BY DEF SessionsInv, SavedFits, Issued, Grows
  <1>4. \A t \in DOMAIN family : KeptBy(p, t) => AccountedFor(p, t)'
    BY <1>1 DEF KeptBy, AccountedFor
  <1>5. QED
    BY <1>2, <1>3, <1>4, ProcessMoves

LEMMA StartKeeps ==
    ASSUME SessionsInv, NEW p \in Processes, NEW cmd \in Commands, NEW url \in Urls,
           Start(p, cmd, url)
    PROVE  SessionsInv'
  <1> DEFINE r == [cmd |-> cmd, url |-> url, forced |-> FALSE,
                   mine |-> NoSession, answer |-> "none", renewed |-> 0,
                   phase |-> CASE cmd = "call" -> "read"
                               [] cmd = "login" -> "exchange"
                               [] OTHER -> "lock"]
  <1>1. proc' = [proc EXCEPT ![p] = r] /\ UNCHANGED <<saved, lock, accountsSide, left>>
        /\ proc[p] = Waiting
    BY DEF Start, Goto
  <1>2. r.cmd = cmd /\ r.mine = NoSession
        /\ r.phase = (CASE cmd = "call" -> "read" [] cmd = "login" -> "exchange" [] OTHER -> "lock")
    OBVIOUS
  <1>3. r \in Running /\ FitsStep(r) /\ ~Writes(r) /\ r.phase \notin {"answered", "forget"}
        /\ r.mine = NoSession
    BY <1>2 DEF Running, FitsStep, Writes, Held, Commands, Phases
  <1> HIDE DEF r
  <1>4. p \notin lock /\ ~Keeps(proc[p])
    BY <1>1 DEF SessionsInv, ProcessFits, HoldsIfWriting, Writes, Held, Waiting, Keeps
  <1>5. QED
    BY <1>1, <1>3, <1>4, OnlyProcessMoves DEF accountsSide, InHandOf

LEMMA ReadKeeps ==
    ASSUME SessionsInv, NEW p \in Processes, ReadSession(p)
    PROVE  SessionsInv'
  <1> DEFINE s == saved.session
  <1>1. /\ proc[p].phase = "read" /\ UNCHANGED <<saved, lock, accountsSide, left>>
        /\ \/ proc' = [proc EXCEPT ![p] = Waiting]
           \/ \E phase \in {"use", "lock"} :
                 /\ s # NoSession
                 /\ proc' = [proc EXCEPT ![p] = [proc[p] EXCEPT !.phase = phase, !.mine = s]]
    BY DEF ReadSession, Goto
  <1>2. /\ proc[p] \in Running /\ proc[p].cmd = "call" /\ p \notin lock /\ ~Keeps(proc[p])
        /\ s # NoSession => s \in Session /\ s.token \in DOMAIN family
    BY <1>1, AtWork DEF FitsStep, Writes, Held, Keeps, SessionsInv, SavedFits
  <1>3. CASE proc' = [proc EXCEPT ![p] = Waiting]
    BY <1>1, <1>2, <1>3, OnlyProcessMoves DEF accountsSide, InHandOf, Waiting, Writes, Held
  <1>4. ASSUME NEW phase \in {"use", "lock"}, s # NoSession,
               proc' = [proc EXCEPT ![p] = [proc[p] EXCEPT !.phase = phase, !.mine = s]]
        PROVE  SessionsInv'
    <2> DEFINE r == [proc[p] EXCEPT !.phase = phase, !.mine = s]
    <2>1. r \in Running /\ r.phase = phase /\ r.cmd = "call" /\ r.mine = s
      BY <1>2, <1>4 DEF Running, Phases
    <2> HIDE DEF r
    <2>2. FitsStep(r) /\ ~Writes(r)
      BY <1>4, <2>1 DEF FitsStep, Writes, Held
    <2>3. proc' = [proc EXCEPT ![p] = r]
      BY <1>4 DEF r
    <2>4. QED
      BY <1>1, <1>2, <1>4, <2>1, <2>2, <2>3, OnlyProcessMoves DEF accountsSide, InHandOf
  <1>5. QED
    BY <1>1, <1>3, <1>4

LEMMA DieKeeps ==
    ASSUME SessionsInv, NEW p \in Processes, Die(p) \/ SaveFails(p)
    PROVE  SessionsInv'
  <1>1. /\ proc[p].phase # "none" /\ UNCHANGED <<saved, accountsSide>>
        /\ proc' = [proc EXCEPT ![p] = Waiting] /\ lock' = lock \ {p}
        /\ left' = IF proc[p].cmd = "login" /\ proc[p].mine # NoSession
                   THEN left \cup {family[proc[p].mine.token]} ELSE left
    <2>1. ProcessFits(p)
      BY DEF SessionsInv
    <2>2. proc[p] # Waiting => proc[p].phase # "none"
      BY <2>1 DEF ProcessFits, StepFits, Running, Phases
    <2>3. QED
      BY <2>2 DEF Die, SaveFails, Goto, Unlock, Abandons
  <1>2. proc[p] \in Running /\ FitsStep(proc[p]) /\ (p \in lock <=> Writes(proc[p])) /\ HasSaved(p)
    BY <1>1, AtWork
  <1>3. Keeps(proc[p]) =>
          \/ family[proc[p].mine.token] \in left'
          \/ saved.session # NoSession /\ saved.session.token = proc[p].mine.token
    <2>1. SUFFICES ASSUME Keeps(proc[p]), proc[p].cmd = "logout"
                   PROVE  saved.session # NoSession /\ saved.session.token = proc[p].mine.token
      BY <1>1 DEF Keeps
    <2>2. proc[p].phase \in {"revoke", "forget"}
      BY <1>2, <2>1 DEF Keeps, FitsStep, Running, Phases
    <2>3. QED
      BY <1>2, <2>1, <2>2 DEF HasSaved, Writes, Held
  <1>4. QED
    BY <1>1, <1>3, OnlyProcessMoves DEF accountsSide, InHandOf, Waiting, Writes, Held

LEMMA LockOpenKeeps ==
    ASSUME SessionsInv, NEW p \in Processes, LockOpen(p)
    PROVE  SessionsInv'
  <1>1. /\ proc[p].phase = "lock" /\ lock = {} /\ UNCHANGED <<accountsSide, left>>
        /\ \/ /\ proc' = [proc EXCEPT ![p] = [proc[p] EXCEPT !.phase = "locked"]]
              /\ lock' = {p} /\ saved' = saved
           \/ /\ proc' = [proc EXCEPT ![p] = [proc[p] EXCEPT !.phase = "locked"]]
              /\ lock' = {p} /\ saved' = [readable |-> TRUE, session |-> NoSession]
              /\ ~saved.readable
           \/ /\ proc' = [proc EXCEPT ![p] = Waiting] /\ lock' = {} /\ saved' = saved
              /\ proc[p].cmd # "login"
    BY DEF LockOpen, LockFree, Goto, Phase
  <1> DEFINE r == [proc[p] EXCEPT !.phase = "locked"]
  <1>2. /\ proc[p] \in Running /\ FitsStep(proc[p])
        /\ proc[p].mine # NoSession => proc[p].mine.token \in DOMAIN family
    BY <1>1, AtWork
  <1>3. r \in Running /\ r.phase = "locked" /\ r.cmd = proc[p].cmd /\ r.mine = proc[p].mine
    BY <1>2 DEF Running, Phases
  <1> HIDE DEF r
  <1>4. FitsStep(r) /\ Writes(r)
    BY <1>1, <1>2, <1>3 DEF FitsStep, Writes, Held
  <1>5. CASE proc' = [proc EXCEPT ![p] = r] /\ lock' = {p} /\ saved' = saved
    <2>1. UNCHANGED <<family, spent, stale, over, left>>
      BY <1>1 DEF accountsSide
    <2>2. Keeps(proc[p]) => Keeps(r) /\ r.mine = proc[p].mine
      BY <1>3 DEF Keeps, Waiting
    <2>3. InHandOf(r) => r.mine.token \in DOMAIN family
      BY <1>2, <1>3 DEF InHandOf
    <2>4. QED
      BY <1>1, <1>3, <1>4, <1>5, <2>1, <2>2, <2>3, OnlyProcessMoves
  <1>6. CASE /\ proc' = [proc EXCEPT ![p] = r]
             /\ lock' = {p} /\ saved' = [readable |-> TRUE, session |-> NoSession]
             /\ ~saved.readable
    <2>1. proc'[p] = r
      BY <1>6 DEF SessionsInv
    <2>2. ProcessFits(p)'
      BY <1>1, <1>2, <1>3, <1>4, <1>6, <2>1
      DEF ProcessFits, StepFits, HoldsIfWriting, HasSaved, AnswerIsTrue, InHandOf, accountsSide
    <2>3. SavedFits' /\ Issued' /\ Grows
      BY <1>1, <1>6 DEF SavedFits, Issued, Grows, accountsSide, SessionsInv
    <2>4. \A t \in DOMAIN family : KeptBy(p, t) => AccountedFor(p, t)'
      BY <1>1, <1>3, <1>6, <2>1 DEF KeptBy, AccountedFor, SessionsInv, SavedFits, Keeps, accountsSide, Waiting
    <2>5. family' = family
      BY <1>1 DEF accountsSide
    <2>6. QED
      BY <1>1, <1>4, <1>6, <2>2, <2>3, <2>4, <2>5, ProcessMoves
  <1>7. CASE proc' = [proc EXCEPT ![p] = Waiting] /\ lock' = {} /\ saved' = saved
             /\ proc[p].cmd # "login"
    BY <1>1, <1>2, <1>7, OnlyProcessMoves DEF accountsSide, InHandOf, Keeps, Waiting, Writes, Held, FitsStep
  <1>8. QED
    BY <1>1, <1>5, <1>6, <1>7 DEF r

LEMMA DecideKeeps ==
    ASSUME SessionsInv, NEW p \in Processes, Decide(p)
    PROVE  SessionsInv'
  <1> DEFINE s == saved.session
  <1>1. /\ proc[p].phase = "locked" /\ proc[p].cmd = "call" /\ UNCHANGED <<accountsSide, left>>
        /\ \/ proc' = [proc EXCEPT ![p] = Waiting] /\ lock' = lock \ {p} /\ saved' = saved
           \/ /\ s # NoSession /\ lock' = lock \ {p} /\ saved' = saved
              /\ proc' = [proc EXCEPT ![p] = [proc[p] EXCEPT !.phase = "use", !.mine = s]]
           \/ /\ s # NoSession /\ lock' = lock /\ saved' = saved
              /\ proc' = [proc EXCEPT ![p] = [proc[p] EXCEPT !.phase = "revoke", !.mine = s]]
           \/ /\ s # NoSession /\ lock' = lock
              /\ saved' = [saved EXCEPT !.session.started = TRUE, !.readable = TRUE]
              /\ proc' = [proc EXCEPT ![p] = [proc[p] EXCEPT !.phase = "sent", !.mine = s]]
    BY DEF Decide, Goto, Unlock
  <1>2. /\ proc[p] \in Running /\ ~Keeps(proc[p]) /\ p \in lock /\ lock \subseteq {p}
        /\ s # NoSession => s \in Session /\ s.token \in DOMAIN family
    BY <1>1, AtWork DEF Writes, Held, Keeps, SessionsInv, SavedFits
  <1>3. ASSUME NEW phase \in {"use", "revoke", "sent"}, s # NoSession
        PROVE  LET r == [proc[p] EXCEPT !.phase = phase, !.mine = s]
               IN  /\ r \in Running /\ r.phase = phase /\ r.cmd = "call" /\ r.mine = s
                   /\ FitsStep(r) /\ (Writes(r) <=> phase # "use") /\ r # Waiting
    <2> DEFINE r == [proc[p] EXCEPT !.phase = phase, !.mine = s]
    <2>1. r \in Running /\ r.phase = phase /\ r.cmd = "call" /\ r.mine = s
      BY <1>1, <1>2, <1>3 DEF Running, Phases
    <2> HIDE DEF r
    <2>2. FitsStep(r) /\ (Writes(r) <=> phase # "use") /\ r # Waiting
      BY <1>3, <2>1 DEF FitsStep, Writes, Held, Waiting
    <2>3. QED
      BY <2>1, <2>2 DEF r
  <1>4. CASE proc' = [proc EXCEPT ![p] = Waiting] /\ lock' = lock \ {p} /\ saved' = saved
    BY <1>1, <1>2, <1>4, OnlyProcessMoves DEF accountsSide, InHandOf, Waiting, Writes, Held
  <1>5. ASSUME NEW phase \in {"use", "revoke"}, s # NoSession, saved' = saved,
               lock' = IF phase = "use" THEN lock \ {p} ELSE lock,
               proc' = [proc EXCEPT ![p] = [proc[p] EXCEPT !.phase = phase, !.mine = s]]
        PROVE  SessionsInv'
    <2> DEFINE r == [proc[p] EXCEPT !.phase = phase, !.mine = s]
    <2>1. /\ r \in Running /\ r.phase = phase /\ r.cmd = "call" /\ r.mine = s
          /\ FitsStep(r) /\ (Writes(r) <=> phase # "use") /\ proc' = [proc EXCEPT ![p] = r]
      BY <1>3, <1>5
    <2> HIDE DEF r
    <2>2. QED
      BY <1>1, <1>2, <1>5, <2>1, OnlyProcessMoves DEF accountsSide, InHandOf
  <1>6. CASE /\ s # NoSession /\ lock' = lock
             /\ saved' = [saved EXCEPT !.session.started = TRUE, !.readable = TRUE]
             /\ proc' = [proc EXCEPT ![p] = [proc[p] EXCEPT !.phase = "sent", !.mine = s]]
    <2> DEFINE r == [proc[p] EXCEPT !.phase = "sent", !.mine = s]
    <2>1. /\ r \in Running /\ r.phase = "sent" /\ r.cmd = "call" /\ r.mine = s
          /\ FitsStep(r) /\ Writes(r) /\ r # Waiting /\ proc' = [proc EXCEPT ![p] = r]
      BY <1>3, <1>6
    <2> HIDE DEF r
    <2>2. /\ saved'.session \in Session /\ saved'.session.token = s.token /\ saved'.session.started
          /\ saved'.readable = TRUE /\ saved' \in [readable : BOOLEAN, session : Session \cup {NoSession}]
          /\ saved'.session # NoSession
      <3>1. saved \in [readable : BOOLEAN, session : Session \cup {NoSession}]
        BY DEF SessionsInv, SavedFits
      <3>2. saved' = [readable |-> TRUE, session |-> [s EXCEPT !.started = TRUE]]
        BY <1>6, <3>1
      <3>3. [s EXCEPT !.started = TRUE] \in Session /\ [s EXCEPT !.started = TRUE].token = s.token
            /\ [s EXCEPT !.started = TRUE].started
        BY <1>2, <1>6 DEF Session
      <3>4. QED
        BY <3>2, <3>3, SessionsAssumption
    <2>3. proc'[p] = r
      BY <2>1 DEF SessionsInv
    <2>4. ProcessFits(p)'
      BY <1>1, <1>2, <1>6, <2>1, <2>2, <2>3
      DEF ProcessFits, StepFits, HoldsIfWriting, HasSaved, AnswerIsTrue, InHandOf, accountsSide
    <2>5. SavedFits' /\ Issued' /\ Grows
      BY <1>1, <1>2, <1>6, <2>2 DEF SavedFits, Issued, Grows, accountsSide, SessionsInv
    <2>6. \A t \in DOMAIN family : KeptBy(p, t) => AccountedFor(p, t)'
      BY <1>1, <1>2, <2>2 DEF KeptBy, AccountedFor, accountsSide
    <2>7. family' = family
      BY <1>1 DEF accountsSide
    <2>8. QED
      BY <1>1, <1>2, <1>6, <2>1, <2>4, <2>5, <2>6, <2>7, ProcessMoves
  <1>7. QED
    BY <1>1, <1>4, <1>5, <1>6

\* How Accounts' answer is read.
LEMMA ClassifiedIs ==
    /\ Classified("tokens") = "renewed" /\ Classified("invalid_grant") = "ended"
    /\ \A wire \in {"timeout", "unreadable"} : Classified(wire) = "uncertain"
    /\ \A wire \in {"busy", "unreachable", "rejected"} : Classified(wire) = "kept"
  BY DEF Classified

LEMMA BusyKeeps ==
    ASSUME SessionsInv, NEW p \in Processes, AccountsBusy(p)
    PROVE  SessionsInv'
  <1>1. PICK answer \in {"kept", "uncertain"} :
          /\ proc[p].phase = "sent" /\ UNCHANGED <<saved, lock, accountsSide, left>>
          /\ proc' = [proc EXCEPT ![p] = [proc[p] EXCEPT !.phase = "answered",
                                                        !.answer = answer, !.renewed = 0]]
    BY ClassifiedIs DEF AccountsBusy, Answer, Goto
  <1> DEFINE r == [proc[p] EXCEPT !.phase = "answered", !.answer = answer, !.renewed = 0]
  <1>2. /\ proc[p] \in Running /\ FitsStep(proc[p]) /\ HasSaved(p) /\ Writes(proc[p])
        /\ p \in lock /\ lock \subseteq {p}
        /\ proc[p].mine # NoSession => proc[p].mine.token \in DOMAIN family
    BY <1>1, AtWork DEF Writes, Held
  <1>3. r \in Running /\ r.phase = "answered" /\ r.cmd = proc[p].cmd /\ r.mine = proc[p].mine
        /\ r.answer = answer
    BY <1>2 DEF Running, Phases
  <1> HIDE DEF r
  <1>4. FitsStep(r) /\ Writes(r) /\ ~Keeps(proc[p])
    BY <1>1, <1>2, <1>3 DEF FitsStep, Writes, Held, Keeps
  <1>5. saved.session # NoSession /\ saved.session.token = r.mine.token /\ saved.session.started
    BY <1>1, <1>2, <1>3 DEF HasSaved
  <1>6. proc' = [proc EXCEPT ![p] = r]
    BY <1>1 DEF r
  <1>7. QED
    BY <1>1, <1>2, <1>3, <1>4, <1>5, <1>6, OnlyProcessMoves DEF accountsSide, InHandOf

LEMMA RotateKeeps ==
    ASSUME SessionsInv, NEW p \in Processes, AccountsRotates(p)
    PROVE  SessionsInv'
  <1> DEFINE t == proc[p].mine.token
             n == Cardinality(DOMAIN family)
             Read(answer, renewed) ==
                 [proc[p] EXCEPT !.phase = "answered", !.answer = answer, !.renewed = renewed]
  <1>1. proc[p].phase = "sent" /\ UNCHANGED <<saved, lock, stale, left>>
    BY DEF AccountsRotates
  <1>2. \/ /\ UNCHANGED <<family, spent>> /\ over' = over \cup {family[t]}
           /\ proc' = [proc EXCEPT ![p] = Read("ended", 0)]
        \/ /\ n < MaxTokens /\ spent' = spent \cup {t} /\ over' = over
           /\ family' = [x \in 1 .. n + 1 |-> IF x = n + 1 THEN family[t] ELSE family[x]]
           /\ \E answer \in {"renewed", "uncertain", "kept"} :
                 proc' = [proc EXCEPT ![p] = Read(answer, n + 1)]
    <2>1. CASE family[t] \in over \/ t \in spent
      BY <2>1, ClassifiedIs DEF AccountsRotates, Answer, Goto
    <2>2. CASE ~(family[t] \in over \/ t \in spent)
      <3>1. /\ n < MaxTokens /\ spent' = spent \cup {t} /\ over' = over
            /\ family' = [x \in 1 .. n + 1 |-> IF x = n + 1 THEN family[t] ELSE family[x]]
            /\ \E wire \in {"tokens", "timeout", "unreadable", "busy"} : Answer(p, wire, n + 1)
        BY <2>2 DEF AccountsRotates
      <3>2. \A wire \in {"tokens", "timeout", "unreadable", "busy"} :
               Classified(wire) \in {"renewed", "uncertain", "kept"}
        BY ClassifiedIs
      <3>3. QED
        BY <3>1, <3>2 DEF Answer, Goto
    <2>3. QED
      BY <2>1, <2>2
  <1>3. /\ proc[p] \in Running /\ FitsStep(proc[p]) /\ HasSaved(p) /\ Writes(proc[p])
        /\ p \in lock /\ lock \subseteq {p} /\ proc[p].mine # NoSession /\ t \in DOMAIN family
    BY <1>1, AtWork DEF Writes, Held, FitsStep
  <1>4. saved.session # NoSession /\ saved.session.token = t /\ saved.session.started
    BY <1>1, <1>3 DEF HasSaved
  <1>5. ~Keeps(proc[p])
    BY <1>1, <1>3 DEF Keeps, FitsStep
  <1>6. ASSUME UNCHANGED <<family, spent>>, over' = over \cup {family[t]},
               proc' = [proc EXCEPT ![p] = Read("ended", 0)]
        PROVE  SessionsInv'
    <2> DEFINE r == Read("ended", 0)
    <2>1. r \in Running /\ r.phase = "answered" /\ r.cmd = proc[p].cmd /\ r.mine = proc[p].mine
          /\ r.answer = "ended"
      BY <1>3 DEF Running, Phases
    <2>2. proc' = [proc EXCEPT ![p] = r]
      BY <1>6
    <2> HIDE DEF r, Read
    <2>3. FitsStep(r) /\ Writes(r)
      BY <1>1, <1>3, <2>1 DEF FitsStep, Writes, Held
    <2>4. family[r.mine.token] \in over' /\ r.mine.token \in DOMAIN family
          /\ saved.session.token = r.mine.token
      BY <1>3, <1>4, <1>6, <2>1
    <2>5. QED
      BY <1>1, <1>3, <1>4, <1>5, <1>6, <2>1, <2>2, <2>3, <2>4, OnlyProcessMoves DEF InHandOf
  <1>7. ASSUME n < MaxTokens, spent' = spent \cup {t}, over' = over,
               family' = [x \in 1 .. n + 1 |-> IF x = n + 1 THEN family[t] ELSE family[x]],
               NEW answer \in {"renewed", "uncertain", "kept"},
               proc' = [proc EXCEPT ![p] = Read(answer, n + 1)]
        PROVE  SessionsInv'
    <2> DEFINE r == Read(answer, n + 1)
    <2>1. /\ n \in Nat /\ MaxTokens \in Nat /\ DOMAIN family = 1 .. n /\ family \in [1 .. n -> Nat]
          /\ n >= 1
      BY IssuedCount, SessionsAssumption DEF SessionsInv
    <2>2. r \in Running /\ r.phase = "answered" /\ r.cmd = proc[p].cmd /\ r.mine = proc[p].mine
          /\ r.answer = answer /\ r.renewed = n + 1
      <3> DEFINE new == n + 1
      <3>1. new \in Nat /\ r = Read(answer, new)
        BY <2>1
      <3> HIDE DEF new
      <3>2. /\ Read(answer, new) \in Running /\ Read(answer, new).phase = "answered"
            /\ Read(answer, new).cmd = proc[p].cmd /\ Read(answer, new).mine = proc[p].mine
            /\ Read(answer, new).answer = answer /\ Read(answer, new).renewed = new
        BY <1>3, <1>7, <3>1 DEF Running, Phases
      <3>3. QED
        BY <3>1, <3>2 DEF new
    <2>3. proc' = [proc EXCEPT ![p] = r] /\ proc'[p] = r
      BY <1>7 DEF SessionsInv
    <2> HIDE DEF r, n, Read
    <2>4. /\ family' \in [1 .. n + 1 -> Nat] /\ n + 1 \in 1 .. MaxTokens
          /\ DOMAIN family' = 1 .. n + 1 /\ family'[n + 1] = family[t]
          /\ \A x \in DOMAIN family : x \in DOMAIN family' /\ family'[x] = family[x]
      BY <1>3, <1>7, <2>1
    <2>5. FitsStep(r) /\ Writes(r)
      BY <1>1, <1>3, <2>2 DEF FitsStep, Writes, Held
    <2>6. ProcessFits(p)'
      <3>1. StepFits(p)'
        BY <1>3, <2>2, <2>3, <2>4, <2>5 DEF StepFits
      <3>2. HoldsIfWriting(p)'
        BY <1>1, <1>3, <2>3, <2>5 DEF HoldsIfWriting
      <3>3. HasSaved(p)'
        BY <1>1, <1>4, <2>2, <2>3 DEF HasSaved
      <3>4. AnswerIsTrue(p)'
        <4>1. n + 1 \in DOMAIN family'
          BY <2>1, <2>4
        <4>2. family'[r.mine.token] = family[t]
          BY <1>3, <2>2, <2>4
        <4>3. QED
          BY <1>7, <2>2, <2>3, <2>4, <4>1, <4>2 DEF AnswerIsTrue
      <3>5. QED
        BY <3>1, <3>2, <3>3, <3>4 DEF ProcessFits
    <2>7. SavedFits'
      BY <1>1, <1>3, <1>4, <2>4 DEF SavedFits, SessionsInv
    <2>8. Issued'
      <3>1. spent \cup stale \subseteq DOMAIN family
        BY DEF SessionsInv, Issued
      <3>2. QED
        BY <1>1, <1>3, <1>7, <2>4, <3>1 DEF Issued
    <2>9. Grows
      BY <1>1, <1>7, <2>4 DEF Grows
    <2>10. \A x \in DOMAIN family : KeptBy(p, x) => AccountedFor(p, x)'
      BY <1>1, <1>4, <1>5 DEF KeptBy, AccountedFor
    <2>11. \A x \in DOMAIN family' : x \notin DOMAIN family => AccountedFor(p, x)'
      <3>1. \A x \in DOMAIN family' : x \notin DOMAIN family => x = n + 1
        BY <2>1, <2>4
      <3>2. saved'.session # NoSession /\ family'[saved'.session.token] = family[t]
        BY <1>1, <1>3, <1>4, <2>4
      <3>3. QED
        BY <2>4, <3>1, <3>2 DEF AccountedFor
    <2>12. QED
      BY <1>1, <1>3, <2>3, <2>6, <2>7, <2>8, <2>9, <2>10, <2>11, ProcessMoves
  <1>8. QED
    BY <1>2, <1>6, <1>7

\* A step that writes the file and frees its lock keeps the invariant if the
\* sign-ins that the file or the process kept are still accounted for.
LEMMA FileWritten ==
    ASSUME SessionsInv, NEW p \in Processes, NEW r, NEW x \in Session \cup {NoSession},
           p \in lock, lock' = lock \ {p}, UNCHANGED <<accountsSide, left>>,
           saved' = [saved EXCEPT !.session = x, !.readable = TRUE],
           x # NoSession => x.token \in DOMAIN family,
           proc' = [proc EXCEPT ![p] = r],
           (r = Waiting) \/ (r \in Running /\ FitsStep(r)),
           InHandOf(r) => r.mine.token \in DOMAIN family, ~Writes(r),
           \A t \in DOMAIN family : KeptBy(p, t) =>
             \/ family[t] \in over \cup left
             \/ x # NoSession /\ family[x.token] = family[t]
             \/ Keeps(r) /\ family[r.mine.token] = family[t]
    PROVE  SessionsInv'
  <1>1. proc'[p] = r /\ lock \subseteq {p} /\ ~Writes(proc'[p])
    BY DEF SessionsInv
  <1>2. saved' = [readable |-> TRUE, session |-> x]
    BY DEF SessionsInv, SavedFits
  <1>3. UNCHANGED <<family, spent, stale, over, left>>
    BY DEF accountsSide
  <1>4. r.phase \notin {"answered", "forget"}
    BY DEF Writes, Held
  <1>5. ProcessFits(p)'
    BY <1>1, <1>3, <1>4 DEF ProcessFits, StepFits, HoldsIfWriting, HasSaved, AnswerIsTrue
  <1>6. SavedFits' /\ Issued' /\ Grows
    BY <1>2, <1>3 DEF SessionsInv, SavedFits, Issued, Grows
  <1>7. \A t \in DOMAIN family : KeptBy(p, t) => AccountedFor(p, t)'
    BY <1>1, <1>2, <1>3 DEF AccountedFor
  <1>8. QED
    BY <1>1, <1>3, <1>5, <1>6, <1>7, ProcessMoves

LEMMA RefreshKeeps ==
    ASSUME SessionsInv, NEW p \in Processes, Refreshed(p)
    PROVE  SessionsInv'
  <1> DEFINE s == [proc[p].mine EXCEPT !.started = FALSE]
             next == [s EXCEPT !.token = proc[p].renewed]
             read == [proc[p] EXCEPT !.answer = "none", !.renewed = 0]
             done == [read EXCEPT !.phase = "use", !.mine = next]
             revoked == [read EXCEPT !.phase = "revoke"]
  <1>1. proc[p].phase = "answered" /\ UNCHANGED <<accountsSide, left>>
    BY DEF Refreshed
  <1>2. /\ proc[p] \in Running /\ FitsStep(proc[p]) /\ HasSaved(p) /\ Writes(proc[p])
        /\ p \in lock /\ lock \subseteq {p} /\ AnswerIsTrue(p)
        /\ proc[p].mine \in Session /\ proc[p].mine.token \in DOMAIN family
    BY <1>1, AtWork DEF Writes, Held, FitsStep
  <1>3. saved.session # NoSession /\ saved.session.token = proc[p].mine.token
        /\ saved.session.started /\ proc[p].cmd = "call"
    BY <1>1, <1>2 DEF HasSaved, FitsStep
  <1>4. s \in Session /\ s.token = proc[p].mine.token /\ s # NoSession
    BY <1>2, SessionsAssumption DEF Session
  <1>5. \A t \in DOMAIN family : KeptBy(p, t) => t = proc[p].mine.token
    BY <1>3 DEF KeptBy, Keeps
  <1>6. read \in Running /\ read.cmd = "call" /\ read.mine = proc[p].mine
    BY <1>2, <1>3 DEF Running
  <1>7. CASE proc[p].answer = "renewed"
    <2>1. /\ proc[p].renewed \in DOMAIN family
          /\ family[proc[p].renewed] = family[proc[p].mine.token]
      BY <1>1, <1>2, <1>7 DEF AnswerIsTrue
    <2>2. proc[p].renewed \in 1 .. MaxTokens
      <3>1. /\ DOMAIN family = 1 .. Cardinality(DOMAIN family)
            /\ Cardinality(DOMAIN family) \in 1 .. MaxTokens
        BY IssuedCount DEF SessionsInv
      <3>2. QED
        BY <2>1, <3>1, SessionsAssumption
    <2>3. next \in Session /\ next.token = proc[p].renewed /\ next # NoSession
      BY <1>4, <2>2, SessionsAssumption DEF Session
    <2>4. /\ saved' = [saved EXCEPT !.session = next, !.readable = TRUE] /\ lock' = lock \ {p}
          /\ proc' = [proc EXCEPT ![p] = done]
      BY <1>7 DEF Refreshed, Save, Unlock, Goto
    <2> HIDE DEF next, read
    <2>5. done \in Running /\ done.phase = "use" /\ done.cmd = "call" /\ done.mine = next
      BY <1>6, <2>3 DEF Running, Phases
    <2> HIDE DEF done
    <2>6. FitsStep(done) /\ ~Writes(done)
      BY <2>3, <2>5 DEF FitsStep, Writes, Held
    <2>7. QED
      BY <1>1, <1>2, <1>5, <2>1, <2>3, <2>4, <2>5, <2>6, FileWritten DEF InHandOf
  <1>8. CASE proc[p].answer = "ended"
    <2>1. family[proc[p].mine.token] \in over
      BY <1>1, <1>2, <1>8 DEF AnswerIsTrue
    <2>2. /\ saved' = [saved EXCEPT !.session = NoSession, !.readable = TRUE] /\ lock' = lock \ {p}
          /\ proc' = [proc EXCEPT ![p] = Waiting]
      BY <1>8 DEF Refreshed, Save, Unlock, Goto
    <2>3. QED
      BY <1>1, <1>2, <1>5, <2>1, <2>2, FileWritten DEF InHandOf, Waiting, Writes, Held
  <1>9. CASE proc[p].answer = "kept"
    <2>1. /\ saved' = [saved EXCEPT !.session = s, !.readable = TRUE] /\ lock' = lock \ {p}
          /\ proc' = [proc EXCEPT ![p] = Waiting]
      BY <1>9 DEF Refreshed, Save, Unlock, Goto
    <2> HIDE DEF s
    <2>2. QED
      BY <1>1, <1>2, <1>4, <1>5, <2>1, FileWritten DEF InHandOf, Waiting, Writes, Held
  <1>10. CASE proc[p].answer = "uncertain"
    <2>1. proc' = [proc EXCEPT ![p] = revoked] /\ UNCHANGED <<saved, lock>>
      BY <1>10 DEF Refreshed, Goto
    <2> HIDE DEF read
    <2>2. revoked \in Running /\ revoked.phase = "revoke" /\ revoked.cmd = "call"
          /\ revoked.mine = proc[p].mine
      BY <1>6 DEF Running, Phases
    <2> HIDE DEF revoked
    <2>3. FitsStep(revoked) /\ Writes(revoked) /\ ~Keeps(proc[p])
      BY <1>2, <1>3, <2>2, SessionsAssumption DEF FitsStep, Writes, Held, Keeps
    <2>4. QED
      BY <1>1, <1>2, <1>3, <2>1, <2>2, <2>3, OnlyProcessMoves DEF accountsSide, InHandOf
  <1>11. QED
    BY <1>1, <1>2, <1>7, <1>8, <1>9, <1>10 DEF AnswerIsTrue, Running

LEMMA UseKeeps ==
    ASSUME SessionsInv, NEW p \in Processes, Use(p)
    PROVE  SessionsInv'
  <1>1. /\ proc[p].phase = "use" /\ UNCHANGED <<saved, lock, accountsSide, left>>
        /\ \/ proc' = [proc EXCEPT ![p] = Waiting]
           \/ proc' = [proc EXCEPT ![p] = [proc[p] EXCEPT !.phase = "read", !.forced = TRUE]]
           \/ proc' = [proc EXCEPT ![p] = [proc[p] EXCEPT !.phase = "lock", !.cmd = "save_id"]]
    BY DEF Use, Retried, Goto
  <1>2. /\ proc[p] \in Running /\ FitsStep(proc[p]) /\ p \notin lock /\ proc[p].cmd = "call"
        /\ proc[p].mine # NoSession /\ proc[p].mine.token \in DOMAIN family
    BY <1>1, AtWork DEF Writes, Held, FitsStep
  <1>3. ~Keeps(proc[p])
    BY <1>2 DEF Keeps
  <1>4. CASE proc' = [proc EXCEPT ![p] = Waiting]
    BY <1>1, <1>2, <1>3, <1>4, OnlyProcessMoves DEF accountsSide, InHandOf, Waiting, Writes, Held
  <1>5. CASE proc' = [proc EXCEPT ![p] = [proc[p] EXCEPT !.phase = "read", !.forced = TRUE]]
    <2> DEFINE r == [proc[p] EXCEPT !.phase = "read", !.forced = TRUE]
    <2>1. r \in Running /\ r.phase = "read" /\ r.cmd = "call" /\ r.mine = proc[p].mine
      BY <1>2 DEF Running, Phases
    <2> HIDE DEF r
    <2>2. FitsStep(r) /\ ~Writes(r)
      BY <1>2, <2>1 DEF FitsStep, Writes, Held
    <2>3. proc' = [proc EXCEPT ![p] = r]
      BY <1>5 DEF r
    <2>4. QED
      BY <1>1, <1>2, <1>3, <2>1, <2>2, <2>3, OnlyProcessMoves DEF accountsSide, InHandOf
  <1>6. CASE proc' = [proc EXCEPT ![p] = [proc[p] EXCEPT !.phase = "lock", !.cmd = "save_id"]]
    <2> DEFINE r == [proc[p] EXCEPT !.phase = "lock", !.cmd = "save_id"]
    <2>1. r \in Running /\ r.phase = "lock" /\ r.cmd = "save_id" /\ r.mine = proc[p].mine
      BY <1>2 DEF Running, Phases
    <2> HIDE DEF r
    <2>2. FitsStep(r) /\ ~Writes(r)
      BY <1>2, <2>1 DEF FitsStep, Writes, Held
    <2>3. proc' = [proc EXCEPT ![p] = r]
      BY <1>6 DEF r
    <2>4. QED
      BY <1>1, <1>2, <1>3, <2>1, <2>2, <2>3, OnlyProcessMoves DEF accountsSide, InHandOf
  <1>7. QED
    BY <1>1, <1>4, <1>5, <1>6

LEMMA ExchangeKeeps ==
    ASSUME SessionsInv, NEW p \in Processes, NEW a \in Holders, Exchange(p, a)
    PROVE  SessionsInv'
  <1> DEFINE new == Cardinality(DOMAIN family) + 1
             x == SessionFrom(new, a, proc[p].url)
             r == [proc[p] EXCEPT !.phase = "lock", !.mine = x]
  <1>1. /\ proc[p].phase = "exchange" /\ UNCHANGED <<saved, lock, spent, over, reused, stale>>
        /\ new <= MaxTokens
        /\ family' = [t \in 1 .. new |-> IF t = new THEN new ELSE family[t]]
        /\ \/ proc' = [proc EXCEPT ![p] = r] /\ left' = left
           \/ proc' = [proc EXCEPT ![p] = Waiting] /\ left' = left \cup {new}
    BY DEF Exchange, Goto
  <1>2. /\ proc[p] \in Running /\ p \notin lock /\ proc[p].cmd = "login"
        /\ proc[p].mine = NoSession /\ ~Keeps(proc[p])
    BY <1>1, AtWork DEF Writes, Held, FitsStep, Keeps
  <1> DEFINE n == Cardinality(DOMAIN family)
  <1>3. /\ MaxTokens \in Nat /\ new \in 1 .. MaxTokens /\ new \in Nat /\ new = n + 1 /\ n \in Nat
        /\ DOMAIN family = 1 .. n /\ family \in [1 .. n -> Nat]
    <2>1. n \in 1 .. MaxTokens /\ DOMAIN family = 1 .. n /\ family \in [1 .. n -> Nat]
      BY IssuedCount DEF SessionsInv
    <2>2. new = n + 1 /\ new <= MaxTokens /\ MaxTokens \in Nat
      BY <1>1, SessionsAssumption
    <2> HIDE DEF n, new
    <2>3. new \in Nat /\ new \in 1 .. MaxTokens /\ n \in Nat
      BY <2>1, <2>2
    <2>4. QED
      BY <2>1, <2>2, <2>3
  <1> HIDE DEF new, n
  <1>4. x \in Session /\ x.token = new /\ x # NoSession
    <2>1. proc[p].url \in Urls
      BY <1>2 DEF Running
    <2>2. x = [token |-> new, who |-> a, url |-> proc[p].url, id |-> a, started |-> FALSE]
      BY DEF SessionFrom
    <2> HIDE DEF x
    <2>3. new \in 1 .. MaxTokens
      BY <1>3
    <2>4. x \in Session
      BY <2>1, <2>2, <2>3 DEF Session
    <2>5. QED
      BY <2>2, <2>4, SessionsAssumption
  <1>5. /\ family' \in [1 .. new -> Nat] /\ DOMAIN family' = 1 .. new /\ family'[new] = new
        /\ \A t \in DOMAIN family : t \in DOMAIN family' /\ family'[t] = family[t]
        /\ \A t \in DOMAIN family' : t \notin DOMAIN family => t = new
    BY <1>1, <1>3
  <1>6. Grows /\ SavedFits' /\ Issued'
    <2>1. Grows
      BY <1>1, <1>5 DEF Grows
    <2>2. spent' \cup stale' \subseteq DOMAIN family'
      BY <1>1, <1>5 DEF SessionsInv, Issued
    <2>3. SavedFits'
      BY <1>1, <1>5, <2>1 DEF SessionsInv, SavedFits, Grows
    <2>4. QED
      BY <1>3, <1>5, <2>1, <2>2, <2>3 DEF Issued
  <1>7. \A t \in DOMAIN family : KeptBy(p, t) => AccountedFor(p, t)'
    BY <1>1, <1>2 DEF KeptBy, AccountedFor
  <1> HIDE DEF x
  <1>8. CASE proc' = [proc EXCEPT ![p] = r] /\ left' = left
    <2>1. r \in Running /\ r.phase = "lock" /\ r.cmd = "login" /\ r.mine = x
      BY <1>2, <1>4 DEF Running, Phases
    <2>2. proc' = [proc EXCEPT ![p] = r] /\ proc'[p] = r
      BY <1>8 DEF SessionsInv
    <2> HIDE DEF r
    <2>3. FitsStep(r) /\ ~Writes(r) /\ Keeps(r)
      BY <1>4, <2>1 DEF FitsStep, Writes, Held, Keeps, Waiting
    <2>4. ProcessFits(p)'
      <3>1. r.mine.token \in DOMAIN family'
        BY <1>3, <1>4, <1>5, <2>1
      <3>2. QED
        BY <1>1, <1>2, <2>1, <2>2, <2>3, <3>1
        DEF ProcessFits, StepFits, HoldsIfWriting, HasSaved, AnswerIsTrue
    <2>5. \A t \in DOMAIN family' : t \notin DOMAIN family => AccountedFor(p, t)'
      BY <1>4, <1>5, <2>1, <2>2, <2>3 DEF AccountedFor
    <2>6. QED
      BY <1>1, <1>2, <1>6, <1>7, <2>2, <2>4, <2>5, ProcessMoves
  <1>9. CASE proc' = [proc EXCEPT ![p] = Waiting] /\ left' = left \cup {new}
    <2>1. proc'[p] = Waiting
      BY <1>9 DEF SessionsInv
    <2>2. ProcessFits(p)'
      BY <1>1, <1>2, <2>1
      DEF ProcessFits, StepFits, HoldsIfWriting, HasSaved, AnswerIsTrue, InHandOf, Waiting, Writes, Held
    <2>3. \A t \in DOMAIN family' : t \notin DOMAIN family => AccountedFor(p, t)'
      BY <1>5, <1>9 DEF AccountedFor
    <2>4. QED
      BY <1>1, <1>2, <1>6, <1>7, <1>9, <2>2, <2>3, ProcessMoves
  <1>10. QED
    BY <1>1, <1>8, <1>9

LEMMA RefusalKeeps ==
    ASSUME SessionsInv, NEW p \in Processes, ExchangeRefused(p)
    PROVE  SessionsInv'
  <1>1. /\ proc[p].phase = "exchange" /\ UNCHANGED <<saved, lock, accountsSide, left>>
        /\ proc' = [proc EXCEPT ![p] = Waiting]
    BY DEF ExchangeRefused, Goto
  <1>2. p \notin lock /\ ~Keeps(proc[p])
    BY <1>1, AtWork DEF Writes, Held, FitsStep, Keeps
  <1>3. QED
    BY <1>1, <1>2, OnlyProcessMoves DEF accountsSide, InHandOf, Waiting, Writes, Held

LEMMA StoreKeeps ==
    ASSUME SessionsInv, NEW p \in Processes, StoreSession(p)
    PROVE  SessionsInv'
  <1> DEFINE x == proc[p].mine
             r == [proc[p] EXCEPT !.phase = "revoke", !.mine = saved.session]
  <1>1. /\ proc[p].phase = "locked" /\ proc[p].cmd = "login" /\ UNCHANGED <<accountsSide, left>>
        /\ saved' = [saved EXCEPT !.session = x, !.readable = TRUE] /\ lock' = lock \ {p}
        /\ \/ saved.session = NoSession /\ proc' = [proc EXCEPT ![p] = Waiting]
           \/ saved.session # NoSession /\ proc' = [proc EXCEPT ![p] = r]
    BY DEF StoreSession, Save, Unlock, Replaced, Goto
  <1>2. /\ proc[p] \in Running /\ p \in lock /\ x # NoSession /\ x \in Session
        /\ x.token \in DOMAIN family
        /\ saved.session # NoSession => saved.session \in Session
    BY <1>1, AtWork DEF Writes, Held, FitsStep
  <1>3. CASE saved.session = NoSession /\ proc' = [proc EXCEPT ![p] = Waiting]
    <2>1. \A t \in DOMAIN family : KeptBy(p, t) => t = x.token
      BY <1>3 DEF KeptBy
    <2> HIDE DEF x
    <2>2. QED
      BY <1>1, <1>2, <1>3, <2>1, FileWritten DEF InHandOf, Waiting, Writes, Held
  <1>4. CASE saved.session # NoSession /\ proc' = [proc EXCEPT ![p] = r]
    <2>1. r \in Running /\ r.phase = "revoke" /\ r.cmd = "login" /\ r.mine = saved.session
      BY <1>1, <1>2, <1>4 DEF Running, Phases
    <2>2. \A t \in DOMAIN family : KeptBy(p, t) => t = x.token \/ t = saved.session.token
      BY DEF KeptBy
    <2>3. saved.session.token \in DOMAIN family
      BY <1>4 DEF SessionsInv, SavedFits
    <2> HIDE DEF x, r
    <2>4. FitsStep(r) /\ ~Writes(r) /\ Keeps(r)
      BY <1>4, <2>1 DEF FitsStep, Writes, Held, Keeps, Waiting
    <2>5. InHandOf(r) => r.mine.token \in DOMAIN family
      BY <2>1, <2>3
    <2>6. \A t \in DOMAIN family : KeptBy(p, t) =>
             (x # NoSession /\ family[x.token] = family[t])
             \/ (Keeps(r) /\ family[r.mine.token] = family[t])
      BY <1>2, <2>1, <2>2, <2>4
    <2>7. QED
      BY <1>1, <1>2, <1>4, <2>1, <2>4, <2>5, <2>6, FileWritten
  <1>5. QED
    BY <1>1, <1>3, <1>4

LEMMA LogoutKeeps ==
    ASSUME SessionsInv, NEW p \in Processes, Logout(p)
    PROVE  SessionsInv'
  <1> DEFINE r == [proc[p] EXCEPT !.phase = "revoke", !.mine = saved.session]
  <1>1. /\ proc[p].phase = "locked" /\ proc[p].cmd = "logout"
        /\ UNCHANGED <<saved, accountsSide, left>>
        /\ \/ proc' = [proc EXCEPT ![p] = Waiting] /\ lock' = lock \ {p}
           \/ saved.session # NoSession /\ proc' = [proc EXCEPT ![p] = r] /\ lock' = lock
    BY DEF Logout, Unlock, Goto
  <1>2. /\ proc[p] \in Running /\ p \in lock /\ lock \subseteq {p} /\ ~Keeps(proc[p])
        /\ saved.session # NoSession => saved.session \in Session
    BY <1>1, AtWork DEF Writes, Held, FitsStep, Keeps
  <1>3. CASE proc' = [proc EXCEPT ![p] = Waiting] /\ lock' = lock \ {p}
    BY <1>1, <1>2, <1>3, OnlyProcessMoves DEF accountsSide, InHandOf, Waiting, Writes, Held
  <1>4. CASE saved.session # NoSession /\ proc' = [proc EXCEPT ![p] = r] /\ lock' = lock
    <2>1. r \in Running /\ r.phase = "revoke" /\ r.cmd = "logout" /\ r.mine = saved.session
      BY <1>1, <1>2, <1>4 DEF Running, Phases
    <2>2. saved.session.token \in DOMAIN family
      BY <1>4 DEF SessionsInv, SavedFits
    <2> HIDE DEF r
    <2>3. FitsStep(r) /\ Writes(r)
      BY <1>4, <2>1 DEF FitsStep, Writes, Held
    <2>4. QED
      BY <1>1, <1>2, <1>4, <2>1, <2>2, <2>3, OnlyProcessMoves DEF accountsSide, InHandOf
  <1>5. QED
    BY <1>1, <1>3, <1>4

LEMMA RevokeKeeps ==
    ASSUME SessionsInv, NEW p \in Processes, Revoke(p)
    PROVE  SessionsInv'
  <1> DEFINE f == family[proc[p].mine.token]
             r == [proc[p] EXCEPT !.phase = "forget"]
  <1>1. /\ proc[p].phase = "revoke" /\ UNCHANGED <<saved, lock, family, spent, stale>>
        /\ over \subseteq over' /\ left \subseteq left' /\ f \in over' \cup left'
        /\ \/ proc[p].cmd = "login" /\ proc' = [proc EXCEPT ![p] = Waiting]
           \/ proc[p].cmd # "login" /\ proc' = [proc EXCEPT ![p] = r]
    BY DEF Revoke, Goto, Phase
  <1>2. /\ proc[p] \in Running /\ FitsStep(proc[p]) /\ (p \in lock <=> Writes(proc[p]))
        /\ p \in lock => lock \subseteq {p}
        /\ HasSaved(p) /\ proc[p].mine # NoSession /\ proc[p].mine.token \in DOMAIN family
    BY <1>1, AtWork DEF FitsStep
  <1>3. CASE proc[p].cmd = "login" /\ proc' = [proc EXCEPT ![p] = Waiting]
    <2>1. p \notin lock
      BY <1>1, <1>2, <1>3 DEF Writes, Held
    <2>2. QED
      BY <1>1, <1>3, <2>1, OnlyProcessMoves DEF InHandOf, Waiting, Writes, Held
  <1>4. CASE proc[p].cmd # "login" /\ proc' = [proc EXCEPT ![p] = r]
    <2>1. p \in lock /\ lock \subseteq {p} /\ saved.session # NoSession
          /\ saved.session.token = proc[p].mine.token
      BY <1>1, <1>2, <1>4 DEF Writes, HasSaved
    <2>2. r \in Running /\ r.phase = "forget" /\ r.cmd = proc[p].cmd /\ r.mine = proc[p].mine
      BY <1>2 DEF Running, Phases
    <2> HIDE DEF r
    <2>3. FitsStep(r) /\ Writes(r)
      BY <1>1, <1>2, <1>4, <2>2 DEF FitsStep, Writes, Held
    <2>4. QED
      BY <1>1, <1>2, <1>4, <2>1, <2>2, <2>3, OnlyProcessMoves DEF InHandOf
  <1>5. QED
    BY <1>1, <1>3, <1>4

LEMMA ForgetKeeps ==
    ASSUME SessionsInv, NEW p \in Processes, Forget(p)
    PROVE  SessionsInv'
  <1>1. /\ proc[p].phase = "forget" /\ UNCHANGED <<accountsSide, left>>
        /\ saved' = [saved EXCEPT !.session = NoSession, !.readable = TRUE] /\ lock' = lock \ {p}
        /\ proc' = [proc EXCEPT ![p] = Waiting]
    BY DEF Forget, Save, Unlock, Goto
  <1>2. p \in lock /\ HasSaved(p) /\ AnswerIsTrue(p)
    BY <1>1, AtWork DEF Writes, Held
  <1>3. saved.session.token = proc[p].mine.token /\ family[proc[p].mine.token] \in over \cup left
    BY <1>1, <1>2, AtWork DEF HasSaved, Writes, Held, AnswerIsTrue
  <1>4. \A t \in DOMAIN family : KeptBy(p, t) => family[t] \in over \cup left
    BY <1>3 DEF KeptBy
  <1>5. QED
    BY <1>1, <1>2, <1>4, FileWritten DEF InHandOf, Waiting, Writes, Held

LEMMA SaveIdKeeps ==
    ASSUME SessionsInv, NEW p \in Processes, SaveId(p)
    PROVE  SessionsInv'
  <1> DEFINE x == IF saved.session = NoSession THEN NoSession
                  ELSE [saved.session EXCEPT !.id = proc[p].mine.who]
  <1>1. /\ proc[p].phase = "locked" /\ proc[p].cmd = "save_id" /\ UNCHANGED <<accountsSide, left>>
        /\ saved' = [saved EXCEPT !.session = x, !.readable = TRUE] /\ lock' = lock \ {p}
        /\ proc' = [proc EXCEPT ![p] = Waiting]
    BY DEF SaveId, Save, Unlock, Goto
  <1>2. /\ p \in lock /\ proc[p].mine \in Session /\ ~Keeps(proc[p])
        /\ saved.session # NoSession => saved.session \in Session /\ saved.session.token \in DOMAIN family
    BY <1>1, AtWork DEF Writes, Held, FitsStep, Keeps, SessionsInv, SavedFits
  <1>3. /\ x \in Session \cup {NoSession}
        /\ saved.session # NoSession => x # NoSession /\ x.token = saved.session.token
        /\ saved.session = NoSession => x = NoSession
    BY <1>2, SessionsAssumption DEF Session
  <1> HIDE DEF x
  <1>4. \A t \in DOMAIN family : KeptBy(p, t) => x # NoSession /\ family[x.token] = family[t]
    BY <1>2, <1>3 DEF KeptBy
  <1>5. QED
    BY <1>1, <1>2, <1>3, <1>4, FileWritten DEF InHandOf, Waiting, Writes, Held

\* What happens around the processes.
LEMMA AroundKeeps ==
    ASSUME SessionsInv,
           \/ \E t \in DOMAIN family : TokenAges(t)
           \/ \E t \in DOMAIN family : EndElsewhere(family[t])
           \/ Damage
    PROVE  SessionsInv'
  <1>1. /\ UNCHANGED <<lock, proc, family, spent>> /\ over \subseteq over' /\ left \subseteq left'
        /\ stale' \subseteq stale \cup DOMAIN family /\ saved'.session = saved.session
        /\ saved' \in [readable : BOOLEAN, session : Session \cup {NoSession}]
        /\ (saved' = saved) \/ (saved.session # NoSession => family[saved.session.token] \in left')
    BY DEF TokenAges, EndElsewhere, Damage, accountsSide, SessionsInv, SavedFits
  <1>2. ASSUME NEW p \in Processes PROVE ProcessFits(p)'
    <2>1. ProcessFits(p)
      BY DEF SessionsInv
    <2>2. StepFits(p)' /\ HoldsIfWriting(p)'
      BY <1>1, <2>1 DEF ProcessFits, StepFits, HoldsIfWriting
    <2>3. HasSaved(p)'
      BY <1>1, <2>1 DEF ProcessFits, HasSaved
    <2>4. AnswerIsTrue(p)'
      BY <1>1, <2>1 DEF ProcessFits, AnswerIsTrue
    <2>5. QED
      BY <2>2, <2>3, <2>4 DEF ProcessFits
  <1>3. SavedFits' /\ Issued'
    BY <1>1 DEF SessionsInv, SavedFits, Issued
  <1>4. NoSignInLeftBehind'
    BY <1>1 DEF SessionsInv, NoSignInLeftBehind
  <1>5. QED
    BY <1>1, <1>2, <1>3, <1>4 DEF SessionsInv

LEMMA SessionsKept == SessionsInv /\ [SessionsNext]_sessionsVars => SessionsInv'
  <1> SUFFICES ASSUME SessionsInv, [SessionsNext]_sessionsVars PROVE SessionsInv'
    OBVIOUS
  <1>1. ASSUME NEW p \in Processes, NEW cmd \in Commands, NEW url \in Urls, Start(p, cmd, url)
        PROVE  SessionsInv'
    BY <1>1, StartKeeps
  <1>2. ASSUME NEW p \in Processes, LockOpen(p) \/ Step(p) \/ Die(p)
        PROVE  SessionsInv'
    BY <1>2, LockOpenKeeps, ReadKeeps, DecideKeeps, RotateKeeps, BusyKeeps, RefreshKeeps, UseKeeps,
       RefusalKeeps, StoreKeeps, ExchangeKeeps, LogoutKeeps, RevokeKeeps, ForgetKeeps,
       SaveIdKeeps, DieKeeps DEF Step
  <1>3. CASE UNCHANGED sessionsVars
    <2>1. UNCHANGED <<saved, lock, proc, family, spent, over, reused, stale, left>>
      BY <1>3 DEF sessionsVars
    <2>2. ASSUME NEW p \in Processes PROVE ProcessFits(p)'
      <3>1. ProcessFits(p)
        BY DEF SessionsInv
      <3>2. QED
        BY <2>1, <3>1 DEF ProcessFits, StepFits, HoldsIfWriting, HasSaved, AnswerIsTrue
    <2>3. QED
      BY <2>1, <2>2 DEF SessionsInv, SavedFits, Issued, NoSignInLeftBehind
  <1>4. QED
    BY <1>1, <1>2, <1>3, AroundKeeps DEF SessionsNext

\* The inductive invariant of the sign-ins of a profile.
THEOREM SessionsInvariance == SessionsSpec => []SessionsInv
  BY SessionsInitially, SessionsKept, PTL DEF SessionsSpec

\* The file's lock is its writer's alone, and a sign-in that works is the
\* saved one, in the hands of a login or logout under way, or known to be
\* left, whichever processes die and whichever saves fail (fresh_session,
\* login, logout, save_id).
THEOREM SignInsAreAccounted == SessionsSpec => []SignInsAccounted
  <1>1. SessionsInv => SignInsAccounted
    <2> SUFFICES ASSUME SessionsInv PROVE SignInsAccounted
      OBVIOUS
    <2>1. Cardinality(lock) <= 1
      <3>1. (lock = {}) \/ (\E p \in Processes : lock = {p})
        BY DEF SessionsInv
      <3>2. QED
        BY <3>1, FS_EmptySet, FS_Singleton
    <2>2. ASSUME NEW p \in Processes
          PROVE  proc[p].phase \in Phases \cup {"none"} /\ (proc[p].phase \in Held => p \in lock)
      <3>1. ProcessFits(p)
        BY DEF SessionsInv
      <3>2. QED
        BY <3>1 DEF ProcessFits, StepFits, HoldsIfWriting, Writes, Running, Waiting
    <2>3. saved.session \in Session \cup {NoSession} /\ spent \cup stale \subseteq DOMAIN family
      BY DEF SessionsInv, SavedFits, Issued
    <2>4. QED
      BY <2>1, <2>2, <2>3 DEF SignInsAccounted, SessionsTypeOK, SessionsInv
  <1>2. QED
    BY <1>1, SessionsInvariance, PTL

----------------------------------------------------------------------------
(* Spent tokens.  The client reads an answer of 429 or 5xx as not          *)
(* processed, so that Accounts must not give one after rotating.           *)

\* A token that may be presented, or whose sign-in ended so that it does no
\* harm.
Unspent(t) == t \in spent => family[t] \in over

\* A login has bought a token and not yet saved it.
Pending(r) == r.phase \in {"lock", "locked"} /\ r.cmd = "login"
Renewed(r) == r.phase = "answered" /\ r.answer = "renewed"

SavedUnspent ==
    saved.session # NoSession /\ ~saved.session.started => Unspent(saved.session.token)
\* Who presents a token, or is about to save one, has one to present.
AtAccounts(r) ==
    /\ r.phase = "sent" => Unspent(r.mine.token)
    /\ r.phase = "answered" /\ r.answer = "kept" => Unspent(r.mine.token)
    /\ Renewed(r) => Unspent(r.renewed)
\* A token that a login has bought is in nobody else's hands.
BoughtIsNew(r) ==
    Pending(r) => /\ r.mine.token \notin spent
                  /\ saved.session # NoSession => saved.session.token # r.mine.token
BoughtApart(r, s) ==
    Pending(r) => /\ Pending(s) => s.mine.token # r.mine.token
                  /\ Renewed(s) => s.renewed # r.mine.token

UnspentInv ==
    /\ SessionsInv /\ reused = {} /\ SavedUnspent
    /\ \A p \in Processes : AtAccounts(proc[p]) /\ BoughtIsNew(proc[p])
    /\ \A p, q \in Processes : p # q => BoughtApart(proc[p], proc[q])

LEMMA UnspentInitially == SessionsInit => UnspentInv
  <1> SUFFICES ASSUME SessionsInit PROVE UnspentInv
    OBVIOUS
  <1>1. SessionsInv
    BY SessionsInitially
  <1>2. reused = {} /\ proc = [p \in Processes |-> Waiting]
    BY DEF SessionsInit
  <1>3. SavedUnspent
    BY DEF SessionsInit, SavedUnspent, Unspent
  <1>4. QED
    BY <1>1, <1>2, <1>3 DEF UnspentInv, AtAccounts, BoughtIsNew, BoughtApart, Pending, Renewed, Waiting

\* Only who holds the lock spends a token, and that one is the saved one.  So
\* it is enough to look at the process that moves and at the file.
LEMMA UnspentMoves ==
    ASSUME UnspentInv, SessionsInv', NEW p \in Processes, NEW r,
           proc' = [proc EXCEPT ![p] = r], Grows, reused' = {}, SavedUnspent',
           spent' # spent => p \in lock /\ saved.session # NoSession
                             /\ spent' = spent \cup {saved.session.token},
           AtAccounts(r)', BoughtIsNew(r)',
           \A q \in Processes : q # p =>
              /\ BoughtIsNew(proc[q])'
              /\ BoughtApart(r, proc[q]) /\ BoughtApart(proc[q], r)
    PROVE  UnspentInv'
  <1>1. \A q \in Processes : q # p => proc'[q] = proc[q]
    BY DEF UnspentInv, SessionsInv
  <1>2. proc'[p] = r
    BY DEF UnspentInv, SessionsInv
  <1>3. ASSUME NEW q \in Processes, q # p PROVE AtAccounts(proc[q])'
    <2>1. AtAccounts(proc[q]) /\ proc'[q] = proc[q] /\ ProcessFits(q)
      BY <1>1, <1>3 DEF UnspentInv, SessionsInv
    <2>2. proc[q].phase \in {"sent", "answered"} => q \in lock /\ InHandOf(proc[q])
      BY <2>1 DEF ProcessFits, HoldsIfWriting, Writes, Held, StepFits, FitsStep, InHandOf, Waiting
    <2>3. proc[q].phase \in {"sent", "answered"} => spent' = spent
      BY <1>3, <2>2 DEF UnspentInv, SessionsInv
    <2>4. /\ proc[q].phase \in {"sent", "answered"} => proc[q].mine.token \in DOMAIN family
          /\ Renewed(proc[q]) => proc[q].renewed \in DOMAIN family
      BY <2>1, <2>2 DEF ProcessFits, StepFits, AnswerIsTrue, Renewed
    <2>5. proc[q].phase = "sent" => Unspent(proc[q].mine.token)'
      <3>1. SUFFICES ASSUME proc[q].phase = "sent", proc'[q].mine.token \in spent'
                     PROVE  family'[proc'[q].mine.token] \in over'
        BY DEF Unspent
      <3>2. Unspent(proc[q].mine.token) /\ proc[q].mine.token \in DOMAIN family
        BY <2>1, <2>4, <3>1 DEF AtAccounts
      <3>3. QED
        BY <2>1, <2>3, <3>1, <3>2 DEF Unspent, Grows
    <2>6. proc[q].phase = "answered" /\ proc[q].answer = "kept" => Unspent(proc[q].mine.token)'
      <3>1. SUFFICES ASSUME proc[q].phase = "answered", proc[q].answer = "kept",
                            proc'[q].mine.token \in spent'
                     PROVE  family'[proc'[q].mine.token] \in over'
        BY DEF Unspent
      <3>2. Unspent(proc[q].mine.token) /\ proc[q].mine.token \in DOMAIN family
        BY <2>1, <2>4, <3>1 DEF AtAccounts
      <3>3. QED
        BY <2>1, <2>3, <3>1, <3>2 DEF Unspent, Grows
    <2>7. Renewed(proc[q]) => Unspent(proc[q].renewed)'
      <3>1. SUFFICES ASSUME Renewed(proc[q]), proc'[q].renewed \in spent'
                     PROVE  family'[proc'[q].renewed] \in over'
        BY DEF Unspent
      <3>2. Unspent(proc[q].renewed) /\ proc[q].renewed \in DOMAIN family
        BY <2>1, <2>4, <3>1 DEF AtAccounts
      <3>3. QED
        BY <2>1, <2>3, <3>1, <3>2 DEF Unspent, Grows, Renewed
    <2>8. QED
      BY <2>1, <2>5, <2>6, <2>7 DEF AtAccounts, Renewed
  <1>4. \A q \in Processes : AtAccounts(proc[q])' /\ BoughtIsNew(proc[q])'
    BY <1>2, <1>3
  <1>5. \A q1, q2 \in Processes : q1 # q2 => BoughtApart(proc[q1], proc[q2])'
    BY <1>1, <1>2 DEF UnspentInv, BoughtApart, Pending, Renewed
  <1>6. QED
    BY <1>4, <1>5 DEF UnspentInv

\* A step that spends no token, that leaves the saved token or removes it, and
\* after which the process has no other token to present or save.
LEMMA UnspentQuietly ==
    ASSUME UnspentInv, SessionsInv', NEW p \in Processes, NEW r,
           proc' = [proc EXCEPT ![p] = r], Grows, UNCHANGED <<reused, spent>>,
           \/ saved'.session = NoSession
           \/ /\ saved.session # NoSession /\ saved'.session.token = saved.session.token
              /\ ~saved'.session.started => ~saved.session.started \/ Unspent(saved.session.token),
           r.phase = "sent" => Unspent(r.mine.token) /\ r.mine.token \in DOMAIN family,
           r.phase = "answered" => r.answer # "renewed",
           r.phase = "answered" /\ r.answer = "kept" => Unspent(r.mine.token) /\ r.mine.token \in DOMAIN family,
           Pending(r) => Pending(proc[p]) /\ r.mine = proc[p].mine
    PROVE  UnspentInv'
  <1>1. \A q \in Processes : q # p => proc'[q] = proc[q]
    BY DEF UnspentInv, SessionsInv
  <1>2. ASSUME NEW t \in DOMAIN family, Unspent(t) PROVE Unspent(t)'
    BY <1>2 DEF Unspent, Grows
  <1>3. SavedUnspent'
    <2>1. SUFFICES ASSUME saved'.session # NoSession, ~saved'.session.started
                   PROVE  saved'.session.token \in spent => family'[saved'.session.token] \in over'
      BY DEF SavedUnspent, Unspent
    <2>2. saved.session # NoSession /\ saved'.session.token = saved.session.token
          /\ Unspent(saved.session.token)
      BY <2>1 DEF UnspentInv, SavedUnspent
    <2>3. saved.session.token \in DOMAIN family
      BY <2>2 DEF UnspentInv, SessionsInv, SavedFits
    <2>4. QED
      BY <2>2, <2>3 DEF Unspent, Grows
  <1>4. AtAccounts(r)'
    BY <1>2 DEF AtAccounts, Renewed
  <1>5. /\ BoughtIsNew(proc[p]) /\ \A q \in Processes : BoughtIsNew(proc[q])
        /\ \A q \in Processes : q # p => BoughtApart(proc[p], proc[q]) /\ BoughtApart(proc[q], proc[p])
    BY DEF UnspentInv
  <1>6. BoughtIsNew(r)'
    BY <1>5 DEF BoughtIsNew
  <1>7. ASSUME NEW q \in Processes, q # p
        PROVE  BoughtIsNew(proc[q])' /\ BoughtApart(r, proc[q]) /\ BoughtApart(proc[q], r)
    BY <1>1, <1>5, <1>7 DEF BoughtIsNew, BoughtApart, Renewed
  <1>8. QED
    BY <1>3, <1>4, <1>6, <1>7, UnspentMoves DEF UnspentInv

LEMMA StillUnspent ==
    ASSUME UnspentInv, SessionsInv', NEW p \in Processes,
           \/ \E cmd \in Commands, url \in Urls : Start(p, cmd, url)
           \/ LockOpen(p) \/ Die(p) \/ SaveFails(p) \/ ReadSession(p) \/ Decide(p)
           \/ Use(p) \/ ExchangeRefused(p) \/ Logout(p) \/ Revoke(p) \/ Forget(p) \/ SaveId(p)
           \/ AccountsBusy(p)
    PROVE  UnspentInv'
  <1> USE DEF Goto, Phase, Unlock, Save, accountsSide
  <1>1. SessionsInv
    BY DEF UnspentInv
  <1>2. proc[p].phase # "none" => proc[p] \in Running
    BY <1>1, AtWork
  <1>3. ASSUME Die(p) \/ SaveFails(p) \/ ExchangeRefused(p) \/ Forget(p) \/ SaveId(p)
        PROVE  UnspentInv'
    <2>1. /\ proc' = [proc EXCEPT ![p] = Waiting] /\ Grows /\ UNCHANGED <<reused, spent>>
          /\ \/ saved'.session = saved.session
             \/ saved'.session = NoSession
             \/ SaveId(p) /\ saved.session # NoSession
                /\ saved' = [saved EXCEPT !.session = [saved.session EXCEPT !.id = proc[p].mine.who],
                                          !.readable = TRUE]
      BY <1>1, <1>3 DEF Die, SaveFails, ExchangeRefused, Forget, SaveId, Abandons, Grows, SessionsInv, SavedFits
    <2>2. /\ Waiting.phase = "none"
          /\ ~Pending(Waiting)
      BY DEF Waiting, Pending
    <2>3. \/ saved'.session = NoSession
          \/ /\ saved.session # NoSession /\ saved'.session.token = saved.session.token
             /\ saved'.session.started = saved.session.started
      <3> DEFINE x == [saved.session EXCEPT !.id = proc[p].mine.who]
      <3>1. CASE saved'.session \in {saved.session, NoSession}
        BY <3>1
      <3>2. CASE /\ saved.session # NoSession
                 /\ saved' = [saved EXCEPT !.session = x, !.readable = TRUE]
        <4>1. saved.session \in Session
          BY <1>1, <3>2 DEF SessionsInv, SavedFits
        <4>2. x.token = saved.session.token /\ x.started = saved.session.started
          BY <4>1 DEF Session
        <4> HIDE DEF x
        <4>3. saved'.session = x
          BY <1>1, <3>2 DEF SessionsInv, SavedFits
        <4>4. QED
          BY <3>2, <4>2, <4>3
      <3>3. QED
        BY <2>1, <3>1, <3>2
    <2>4. QED
      BY <2>1, <2>2, <2>3, UnspentQuietly
  <1>4. ASSUME NEW cmd \in Commands, NEW url \in Urls, Start(p, cmd, url)
        PROVE  UnspentInv'
    <2> DEFINE r == [cmd |-> cmd, url |-> url, forced |-> FALSE,
                     mine |-> NoSession, answer |-> "none", renewed |-> 0,
                     phase |-> CASE cmd = "call" -> "read"
                                 [] cmd = "login" -> "exchange"
                                 [] OTHER -> "lock"]
    <2>1. r.cmd = cmd /\ r.phase = (CASE cmd = "call" -> "read" [] cmd = "login" -> "exchange" [] OTHER -> "lock")
      OBVIOUS
    <2>2. /\ proc' = [proc EXCEPT ![p] = r]
          /\ r.phase \in {"read", "exchange", "lock"} /\ (r.phase = "lock" => r.cmd # "login")
      BY <1>4, <2>1 DEF Start, Commands
    <2> HIDE DEF r
    <2>3. saved' = saved /\ Grows /\ UNCHANGED <<reused, spent>>
      BY <1>4 DEF Start, Grows
    <2>4. QED
      BY <2>2, <2>3, UnspentQuietly DEF Pending
  <1>5. ASSUME LockOpen(p)
        PROVE  UnspentInv'
    <2>1. proc[p].phase = "lock" /\ Grows /\ UNCHANGED <<reused, spent>>
          /\ (saved' = saved \/ saved'.session = NoSession)
          /\ \/ proc' = [proc EXCEPT ![p] = Waiting]
             \/ proc' = [proc EXCEPT ![p] = [proc[p] EXCEPT !.phase = "locked"]]
      BY <1>5 DEF LockOpen, Grows
    <2>2. CASE proc' = [proc EXCEPT ![p] = Waiting]
      BY <2>1, <2>2, UnspentQuietly DEF Pending, Waiting
    <2>3. CASE proc' = [proc EXCEPT ![p] = [proc[p] EXCEPT !.phase = "locked"]]
      <3> DEFINE r == [proc[p] EXCEPT !.phase = "locked"]
      <3>1. r.phase = "locked" /\ r.cmd = proc[p].cmd /\ r.mine = proc[p].mine
        BY <1>2, <2>1 DEF Running
      <3> HIDE DEF r
      <3>2. proc' = [proc EXCEPT ![p] = r]
        BY <2>3 DEF r
      <3>3. QED
        BY <2>1, <3>1, <3>2, UnspentQuietly DEF Pending
    <2>4. QED
      BY <2>1, <2>2, <2>3
  <1>6. ASSUME ReadSession(p) \/ Use(p) \/ Logout(p) \/ Revoke(p)
        PROVE  UnspentInv'
    <2>1. /\ proc[p].phase \in {"read", "use", "locked", "revoke"}
          /\ UNCHANGED <<saved, family, spent, reused>>
          /\ over \subseteq over' /\ left \subseteq left'
      BY <1>6 DEF ReadSession, Use, Logout, Revoke
    <2> DEFINE Calm(r) == r.phase \in {"none", "use", "lock", "read", "revoke", "forget"} /\ ~Pending(r)
    <2>2. \E r : proc' = [proc EXCEPT ![p] = r] /\ Calm(r)
      <3>1. proc[p] \in Running
        BY <1>2, <2>1
      <3>2. Calm(Waiting)
        BY DEF Waiting, Pending
      <3>3. CASE ReadSession(p)
        <4>1. ASSUME NEW phase \in {"use", "lock"}
              PROVE  Calm([proc[p] EXCEPT !.phase = phase, !.mine = saved.session])
          <5>1. proc[p].cmd = "call"
            BY <1>1, <3>3, AtWork DEF ReadSession, FitsStep
          <5>2. QED
            BY <3>1, <5>1 DEF Running, Pending
        <4>2. \/ proc' = [proc EXCEPT ![p] = Waiting]
              \/ \E phase \in {"use", "lock"} :
                    proc' = [proc EXCEPT ![p] = [proc[p] EXCEPT !.phase = phase, !.mine = saved.session]]
          BY <3>3 DEF ReadSession
        <4> HIDE DEF Calm
        <4>3. QED
          BY <3>2, <4>1, <4>2
      <3>4. CASE Use(p)
        <4> DEFINE again == [proc[p] EXCEPT !.phase = "read", !.forced = TRUE]
                   save == [proc[p] EXCEPT !.phase = "lock", !.cmd = "save_id"]
        <4>1. Calm(again) /\ Calm(save)
          BY <3>1 DEF Running, Pending
        <4>2. \/ proc' = [proc EXCEPT ![p] = Waiting]
              \/ proc' = [proc EXCEPT ![p] = again]
              \/ proc' = [proc EXCEPT ![p] = save]
          BY <3>4 DEF Use, Retried
        <4> HIDE DEF Calm, again, save
        <4>3. QED
          BY <3>2, <4>1, <4>2
      <3>5. CASE Logout(p)
        <4> DEFINE r == [proc[p] EXCEPT !.phase = "revoke", !.mine = saved.session]
        <4>1. Calm(r)
          BY <3>1 DEF Running, Pending
        <4>2. proc' = [proc EXCEPT ![p] = Waiting] \/ proc' = [proc EXCEPT ![p] = r]
          BY <3>5 DEF Logout
        <4> HIDE DEF Calm, r
        <4>3. QED
          BY <3>2, <4>1, <4>2
      <3>6. CASE Revoke(p)
        <4> DEFINE r == [proc[p] EXCEPT !.phase = "forget"]
        <4>1. Calm(r)
          BY <3>1 DEF Running, Pending
        <4>2. proc' = [proc EXCEPT ![p] = Waiting] \/ proc' = [proc EXCEPT ![p] = r]
          BY <3>6 DEF Revoke
        <4> HIDE DEF Calm, r
        <4>3. QED
          BY <3>2, <4>1, <4>2
      <3>7. QED
        BY <1>6, <3>3, <3>4, <3>5, <3>6
    <2>3. Grows
      BY <2>1 DEF Grows
    <2>4. PICK r : proc' = [proc EXCEPT ![p] = r] /\ Calm(r)
      BY <2>2
    <2>5. saved.session = NoSession \/ saved'.session.token = saved.session.token
      BY <2>1
    <2>6. QED
      BY <2>1, <2>3, <2>4, <2>5, UnspentQuietly
  <1>7. ASSUME Decide(p)
        PROVE  UnspentInv'
    <2>1. /\ proc[p].phase = "locked" /\ Grows /\ UNCHANGED <<reused, spent>>
          /\ \/ proc' = [proc EXCEPT ![p] = Waiting] /\ saved' = saved
             \/ \E phase \in {"use", "revoke"} : saved' = saved /\
                  proc' = [proc EXCEPT ![p] = [proc[p] EXCEPT !.phase = phase, !.mine = saved.session]]
             \/ /\ saved.session # NoSession /\ ~saved.session.started
                /\ saved' = [saved EXCEPT !.session.started = TRUE, !.readable = TRUE]
                /\ proc' = [proc EXCEPT ![p] = [proc[p] EXCEPT !.phase = "sent", !.mine = saved.session]]
      BY <1>7 DEF Decide, Grows, Uncertain
    <2>2. ASSUME NEW phase \in {"use", "revoke", "sent"}
          PROVE  LET r == [proc[p] EXCEPT !.phase = phase, !.mine = saved.session]
                 IN  r.phase = phase /\ r.mine = saved.session
      BY <1>2, <2>1 DEF Running
    <2>3. CASE proc' = [proc EXCEPT ![p] = Waiting] /\ saved' = saved
      BY <2>1, <2>3, UnspentQuietly DEF Pending, Waiting
    <2>4. ASSUME NEW phase \in {"use", "revoke"}, saved' = saved,
                 proc' = [proc EXCEPT ![p] = [proc[p] EXCEPT !.phase = phase, !.mine = saved.session]]
          PROVE  UnspentInv'
      <3> DEFINE r == [proc[p] EXCEPT !.phase = phase, !.mine = saved.session]
      <3>1. r.phase = phase /\ proc' = [proc EXCEPT ![p] = r]
        BY <2>2, <2>4
      <3> HIDE DEF r
      <3>2. QED
        BY <2>1, <2>4, <3>1, UnspentQuietly DEF Pending
    <2>5. CASE /\ saved.session # NoSession /\ ~saved.session.started
               /\ saved' = [saved EXCEPT !.session.started = TRUE, !.readable = TRUE]
               /\ proc' = [proc EXCEPT ![p] = [proc[p] EXCEPT !.phase = "sent", !.mine = saved.session]]
      <3> DEFINE r == [proc[p] EXCEPT !.phase = "sent", !.mine = saved.session]
      <3>1. r.phase = "sent" /\ r.mine = saved.session /\ proc' = [proc EXCEPT ![p] = r]
        BY <2>2, <2>5
      <3> HIDE DEF r
      <3>2. Unspent(saved.session.token) /\ saved.session.token \in DOMAIN family
        BY <1>1, <2>5 DEF UnspentInv, SavedUnspent, SessionsInv, SavedFits
      <3>3. saved'.session.token = saved.session.token /\ saved'.session.started
        BY <1>1, <2>5 DEF SessionsInv, SavedFits, Session
      <3>4. QED
        BY <2>1, <2>5, <3>1, <3>2, <3>3, UnspentQuietly DEF Pending
    <2>6. QED
      BY <2>1, <2>3, <2>4, <2>5
  <1>8. ASSUME AccountsBusy(p)
        PROVE  UnspentInv'
    <2>1. PICK answer \in {"kept", "uncertain"} :
            /\ proc[p].phase = "sent" /\ UNCHANGED <<saved, family, spent, over, reused, left>>
            /\ proc' = [proc EXCEPT ![p] = [proc[p] EXCEPT !.phase = "answered",
                                                          !.answer = answer, !.renewed = 0]]
      BY <1>8, ClassifiedIs DEF AccountsBusy, Answer
    <2> DEFINE r == [proc[p] EXCEPT !.phase = "answered", !.answer = answer, !.renewed = 0]
    <2>2. r.phase = "answered" /\ r.answer = answer /\ r.mine = proc[p].mine
          /\ proc' = [proc EXCEPT ![p] = r]
      BY <1>2, <2>1 DEF Running
    <2> HIDE DEF r
    <2>3. Unspent(proc[p].mine.token) /\ proc[p].mine.token \in DOMAIN family
      BY <1>1, <2>1, AtWork DEF UnspentInv, AtAccounts, FitsStep
    <2>4. Grows
      BY <2>1 DEF Grows
    <2>5. QED
      BY <2>1, <2>2, <2>3, <2>4, UnspentQuietly DEF Pending
  <1>9. QED
    BY <1>3, <1>4, <1>5, <1>6, <1>7, <1>8

LEMMA RotationSpendsOnce ==
    ASSUME UnspentInv, SessionsInv', BusyAfterRotation = FALSE, NEW p \in Processes,
           AccountsRotates(p)
    PROVE  UnspentInv'
  <1> DEFINE t == proc[p].mine.token
             n == Cardinality(DOMAIN family)
             Read(answer, renewed) ==
                 [proc[p] EXCEPT !.phase = "answered", !.answer = answer, !.renewed = renewed]
  <1>1. SessionsInv /\ proc[p].phase = "sent" /\ UNCHANGED <<saved, lock, left>>
    BY DEF AccountsRotates, UnspentInv
  <1>2. /\ proc[p] \in Running /\ p \in lock /\ lock \subseteq {p} /\ t \in DOMAIN family
        /\ HasSaved(p) /\ Writes(proc[p])
    BY <1>1, AtWork DEF Writes, Held, FitsStep
  <1>3. saved.session # NoSession /\ saved.session.token = t /\ saved.session.started
    BY <1>1, <1>2 DEF HasSaved
  <1>4. Unspent(t) /\ reused = {}
    BY <1>1 DEF UnspentInv, AtAccounts
  <1>5. CASE family[t] \in over \/ t \in spent
    <2> DEFINE r == Read("ended", 0)
    <2>1. /\ proc' = [proc EXCEPT ![p] = r] /\ UNCHANGED <<family, spent, reused>>
          /\ over' = over \cup {family[t]}
      BY <1>4, <1>5, ClassifiedIs DEF AccountsRotates, Answer, Goto, Unspent
    <2>2. r.phase = "answered" /\ r.answer = "ended"
      BY <1>2 DEF Running
    <2> HIDE DEF r, Read
    <2>3. Grows
      BY <1>1, <2>1 DEF Grows
    <2>4. QED
      BY <1>1, <1>3, <2>1, <2>2, <2>3, UnspentQuietly DEF Pending
  <1>6. CASE ~(family[t] \in over \/ t \in spent)
    <2>1. /\ spent' = spent \cup {t} /\ over' = over /\ reused' = reused
          /\ family' = [x \in 1 .. n + 1 |-> IF x = n + 1 THEN family[t] ELSE family[x]]
          /\ \E wire \in {"tokens", "timeout", "unreadable"} : Answer(p, wire, n + 1)
      BY <1>6 DEF AccountsRotates
    <2>2. PICK answer \in {"renewed", "uncertain"} :
            proc' = [proc EXCEPT ![p] = Read(answer, n + 1)]
      BY <2>1, ClassifiedIs DEF Answer, Goto
    <2>3. DOMAIN family = 1 .. n /\ n \in Nat /\ spent \subseteq DOMAIN family
      <3>1. MaxTokens \in Nat
        BY SessionsAssumption
      <3>2. QED
        BY <1>1, <3>1, IssuedCount DEF SessionsInv, Issued
    <2> DEFINE new == n + 1
    <2>4. PICK r : /\ r.phase = "answered" /\ r.answer = answer /\ r.renewed = new
                   /\ proc' = [proc EXCEPT ![p] = r]
      <3> DEFINE r == Read(answer, new)
      <3>1. r.phase = "answered" /\ r.answer = answer /\ r.renewed = new
        BY <1>2 DEF Running
      <3>2. proc' = [proc EXCEPT ![p] = r]
        BY <2>2
      <3> HIDE DEF r
      <3>3. QED
        BY <3>1, <3>2
    <2> HIDE DEF Read, n
    <2>5. new \notin DOMAIN family
      BY <2>3
    <2>6. Grows
      BY <1>1, <2>1, <2>3 DEF Grows
    <2> HIDE DEF new
    <2>7. AtAccounts(r)' /\ ~Pending(r)
      BY <1>2, <2>1, <2>3, <2>4, <2>5 DEF AtAccounts, Renewed, Unspent, Pending
    <2>8. SavedUnspent'
      BY <1>1, <1>3 DEF SavedUnspent
    <2>9. ASSUME NEW q \in Processes, q # p
          PROVE  /\ BoughtIsNew(proc[q])'
                 /\ BoughtApart(r, proc[q]) /\ BoughtApart(proc[q], r)
      <3>1. proc'[q] = proc[q] /\ BoughtIsNew(proc[q])
        BY <1>1, <2>4, <2>9 DEF UnspentInv, SessionsInv
      <3>2. Pending(proc[q]) => proc[q].mine.token \in DOMAIN family
        <4>1. ProcessFits(q)
          BY <1>1 DEF SessionsInv
        <4>2. QED
          BY <4>1 DEF ProcessFits, StepFits, FitsStep, InHandOf, Pending, Waiting
      <3>3. BoughtIsNew(proc[q])'
        BY <1>1, <1>3, <2>1, <3>1 DEF BoughtIsNew, Pending
      <3>4. BoughtApart(r, proc[q]) /\ BoughtApart(proc[q], r)
        BY <2>4, <2>5, <2>7, <3>2 DEF BoughtApart
      <3>5. QED
        BY <3>3, <3>4
    <2>10. BoughtIsNew(r)'
      BY <2>7 DEF BoughtIsNew
    <2>11. QED
      BY <1>2, <1>3, <1>4, <2>1, <2>4, <2>6, <2>7, <2>8, <2>9, <2>10, UnspentMoves
  <1>7. QED
    BY <1>5, <1>6

LEMMA RefreshSavesUnspent ==
    ASSUME UnspentInv, SessionsInv', NEW p \in Processes, Refreshed(p)
    PROVE  UnspentInv'
  <1> DEFINE s == [proc[p].mine EXCEPT !.started = FALSE]
             next == [s EXCEPT !.token = proc[p].renewed]
             read == [proc[p] EXCEPT !.answer = "none", !.renewed = 0]
             done == [read EXCEPT !.phase = "use", !.mine = next]
             revoked == [read EXCEPT !.phase = "revoke"]
  <1>1. /\ SessionsInv /\ proc[p].phase = "answered" /\ Grows /\ reused' = {}
        /\ UNCHANGED <<family, spent, over, reused>>
    BY DEF Refreshed, accountsSide, Grows, UnspentInv
  <1>2. /\ proc[p] \in Running /\ HasSaved(p) /\ Writes(proc[p])
        /\ proc[p].mine \in Session /\ proc[p].mine.token \in DOMAIN family /\ AnswerIsTrue(p)
    BY <1>1, AtWork DEF Writes, Held, FitsStep
  <1>3. saved.session # NoSession /\ saved.session.token = proc[p].mine.token
    BY <1>1, <1>2 DEF HasSaved
  <1>4. s \in Session /\ s.token = proc[p].mine.token
    BY <1>2 DEF Session
  <1>5. read.phase = "answered" /\ read.answer = "none" /\ read \in Running
    BY <1>1, <1>2 DEF Running
  <1>6. CASE proc[p].answer = "renewed"
    <2>1. /\ saved' = [saved EXCEPT !.session = next, !.readable = TRUE]
          /\ proc' = [proc EXCEPT ![p] = done]
      BY <1>6 DEF Refreshed, Save, Unlock, Goto
    <2>2. next.token = proc[p].renewed
      BY <1>4 DEF Session
    <2>3. saved'.session = next
      BY <1>1, <2>1 DEF SessionsInv, SavedFits
    <2>4. done.phase = "use"
      BY <1>5 DEF Running
    <2>5. Renewed(proc[p]) /\ Unspent(proc[p].renewed)
      BY <1>1, <1>6 DEF Renewed, UnspentInv, AtAccounts
    <2> HIDE DEF next, read, done
    <2>6. PICK r : r.phase = "use" /\ proc' = [proc EXCEPT ![p] = r]
      BY <2>1, <2>4
    <2>7. SavedUnspent'
      BY <1>1, <2>2, <2>3, <2>5 DEF SavedUnspent, Unspent
    <2>8. ASSUME NEW q \in Processes, q # p
          PROVE  /\ BoughtIsNew(proc[q])'
                 /\ BoughtApart(r, proc[q]) /\ BoughtApart(proc[q], r)
      <3>1. proc'[q] = proc[q] /\ BoughtIsNew(proc[q]) /\ BoughtApart(proc[q], proc[p])
        BY <1>1, <2>1, <2>8 DEF UnspentInv, SessionsInv
      <3>2. QED
        BY <1>1, <2>2, <2>3, <2>6, <2>5, <3>1 DEF BoughtIsNew, BoughtApart, Pending, Renewed
    <2>9. AtAccounts(r)' /\ BoughtIsNew(r)'
      BY <2>6 DEF AtAccounts, BoughtIsNew, Pending, Renewed
    <2>10. QED
      BY <1>1, <2>6, <2>7, <2>8, <2>9, UnspentMoves
  <1>7. CASE proc[p].answer = "ended"
    <2>1. saved'.session = NoSession /\ proc' = [proc EXCEPT ![p] = Waiting]
      BY <1>1, <1>7 DEF Refreshed, Save, Goto, SessionsInv, SavedFits
    <2>2. QED
      BY <1>1, <2>1, UnspentQuietly DEF Pending, Waiting
  <1>8. CASE proc[p].answer = "kept"
    <2>1. saved'.session = s /\ proc' = [proc EXCEPT ![p] = Waiting]
      BY <1>1, <1>8 DEF Refreshed, Save, Goto, SessionsInv, SavedFits
    <2>2. Unspent(proc[p].mine.token)
      BY <1>1, <1>8 DEF UnspentInv, AtAccounts
    <2> HIDE DEF s
    <2>3. QED
      BY <1>1, <1>3, <1>4, <2>1, <2>2, UnspentQuietly DEF Pending, Waiting
  <1>9. CASE proc[p].answer = "uncertain"
    <2>1. saved' = saved /\ proc' = [proc EXCEPT ![p] = revoked]
      BY <1>9 DEF Refreshed, Goto
    <2>2. revoked.phase = "revoke"
      BY <1>5 DEF Running
    <2> HIDE DEF revoked
    <2>3. QED
      BY <1>1, <1>3, <2>1, <2>2, UnspentQuietly DEF Pending
  <1>10. QED
    BY <1>1, <1>2, <1>6, <1>7, <1>8, <1>9 DEF AnswerIsTrue, Running

LEMMA BoughtIsSaved ==
    ASSUME UnspentInv, SessionsInv', NEW p \in Processes, StoreSession(p)
    PROVE  UnspentInv'
  <1> DEFINE x == proc[p].mine
             next == IF saved.session = NoSession THEN Waiting
                     ELSE [proc[p] EXCEPT !.phase = "revoke", !.mine = saved.session]
  <1>1. /\ SessionsInv /\ proc[p].phase = "locked" /\ proc[p].cmd = "login" /\ reused = {}
        /\ UNCHANGED <<family, spent, over, reused, left>>
        /\ saved' = [saved EXCEPT !.session = x, !.readable = TRUE]
        /\ proc' = [proc EXCEPT ![p] = next]
    BY DEF StoreSession, Save, Replaced, Goto, accountsSide, UnspentInv
  <1>2. proc[p] \in Running /\ x # NoSession
    BY <1>1, AtWork DEF FitsStep
  <1>3. saved'.session = x
    BY <1>1 DEF SessionsInv, SavedFits
  <1>4. next.phase \in {"none", "revoke"}
    BY <1>2 DEF Running, Waiting
  <1>5. proc' = [proc EXCEPT ![p] = next]
    BY <1>1
  <1> HIDE DEF next, x
  <1>6. PICK r : r = next
    OBVIOUS
  <1>7. r.phase \in {"none", "revoke"} /\ proc' = [proc EXCEPT ![p] = r]
    BY <1>4, <1>5, <1>6
  <1>8. Pending(proc[p]) /\ x.token \notin spent
    BY <1>1 DEF Pending, UnspentInv, BoughtIsNew, x
  <1>9. SavedUnspent' /\ Grows
    BY <1>1, <1>3, <1>8 DEF SavedUnspent, Unspent, Grows
  <1>10. AtAccounts(r)' /\ BoughtIsNew(r)' /\ ~Pending(r) /\ ~Renewed(r)
    BY <1>7 DEF AtAccounts, BoughtIsNew, Pending, Renewed
  <1>11. ASSUME NEW q \in Processes, q # p
        PROVE  /\ BoughtIsNew(proc[q])'
               /\ BoughtApart(r, proc[q]) /\ BoughtApart(proc[q], r)
    <2>1. proc'[q] = proc[q] /\ BoughtIsNew(proc[q]) /\ BoughtApart(proc[q], proc[p])
      BY <1>1, <1>7, <1>11 DEF UnspentInv, SessionsInv
    <2>2. Pending(proc[q]) => x.token # proc[q].mine.token
      BY <1>8, <2>1 DEF BoughtApart, x
    <2>3. QED
      BY <1>1, <1>3, <1>10, <2>1, <2>2 DEF BoughtIsNew, BoughtApart
  <1>12. QED
    BY <1>1, <1>7, <1>9, <1>10, <1>11, UnspentMoves

LEMMA ExchangeBuysNew ==
    ASSUME UnspentInv, SessionsInv', NEW p \in Processes, NEW a \in Holders, Exchange(p, a)
    PROVE  UnspentInv'
  <1> DEFINE n == Cardinality(DOMAIN family)
             new == n + 1
             x == SessionFrom(new, a, proc[p].url)
             bought == [proc[p] EXCEPT !.phase = "lock", !.mine = x]
  <1>1. /\ SessionsInv /\ proc[p].phase = "exchange" /\ UNCHANGED <<saved, spent, over, reused>>
        /\ family' = [t \in 1 .. new |-> IF t = new THEN new ELSE family[t]]
        /\ left \subseteq left' /\ reused = {}
        /\ \E r \in {bought, Waiting} : proc' = [proc EXCEPT ![p] = r]
    BY DEF Exchange, Goto, UnspentInv
  <1>2. proc[p] \in Running /\ proc[p].cmd = "login"
    BY <1>1, AtWork DEF FitsStep
  <1>3. DOMAIN family = 1 .. n /\ n \in Nat /\ spent \subseteq DOMAIN family
    <2>1. MaxTokens \in Nat
      BY SessionsAssumption
    <2>2. QED
      BY <1>1, <2>1, IssuedCount DEF SessionsInv, Issued
  <1>4. bought.phase = "lock" /\ bought.mine = x
    BY <1>2 DEF Running
  <1>5. x.token = new
    BY DEF SessionFrom
  <1>6. PICK r : r \in {bought, Waiting} /\ proc' = [proc EXCEPT ![p] = r]
    BY <1>1
  <1> HIDE DEF bought, x, n
  <1>7. new \notin DOMAIN family /\ Grows
    BY <1>1, <1>3 DEF Grows
  <1>8. (Pending(r) => r.mine.token = new) /\ r.phase \in {"none", "lock"}
    BY <1>4, <1>5, <1>6 DEF Pending, Waiting
  <1> HIDE DEF new
  <1>9. SavedUnspent'
    <2>1. SavedUnspent /\ (saved.session # NoSession => saved.session.token \in DOMAIN family)
      BY <1>1 DEF UnspentInv, SessionsInv, SavedFits
    <2>2. QED
      BY <1>1, <1>7, <2>1 DEF SavedUnspent, Unspent, Grows
  <1>10. AtAccounts(r)' /\ ~Renewed(r)
    BY <1>8 DEF AtAccounts, Renewed
  <1>11. BoughtIsNew(r)'
    BY <1>1, <1>3, <1>7, <1>8 DEF BoughtIsNew, SessionsInv, SavedFits
  <1>12. ASSUME NEW q \in Processes, q # p
         PROVE  /\ BoughtIsNew(proc[q])'
                /\ BoughtApart(r, proc[q]) /\ BoughtApart(proc[q], r)
    <2>1. proc'[q] = proc[q] /\ BoughtIsNew(proc[q]) /\ ProcessFits(q)
      BY <1>1, <1>6, <1>12 DEF UnspentInv, SessionsInv
    <2>2. Pending(proc[q]) => proc[q].mine.token \in DOMAIN family
      BY <2>1 DEF ProcessFits, StepFits, FitsStep, InHandOf, Pending, Waiting
    <2>3. Renewed(proc[q]) => proc[q].renewed \in DOMAIN family
      BY <2>1 DEF ProcessFits, AnswerIsTrue, Renewed
    <2>4. BoughtIsNew(proc[q])'
      BY <1>1, <2>1 DEF BoughtIsNew
    <2>5. QED
      BY <1>7, <1>8, <1>10, <2>2, <2>3, <2>4 DEF BoughtApart
  <1>13. QED
    BY <1>1, <1>6, <1>7, <1>9, <1>10, <1>11, <1>12, UnspentMoves

LEMMA UnspentKept ==
    ASSUME BusyAfterRotation = FALSE, UnspentInv, [SessionsNext]_sessionsVars
    PROVE  UnspentInv'
  <1>1. SessionsInv'
    BY SessionsKept DEF UnspentInv
  <1>2. ASSUME NEW p \in Processes,
               (\E cmd \in Commands, url \in Urls : Start(p, cmd, url))
               \/ LockOpen(p) \/ Step(p) \/ Die(p)
        PROVE  UnspentInv'
    BY <1>1, <1>2, StillUnspent, RotationSpendsOnce, RefreshSavesUnspent, BoughtIsSaved,
       ExchangeBuysNew DEF Step
  <1>3. CASE \/ \E t \in DOMAIN family : TokenAges(t)
             \/ \E t \in DOMAIN family : EndElsewhere(family[t])
             \/ Damage \/ UNCHANGED sessionsVars
    <2>1. /\ UNCHANGED <<proc, family, spent, reused>> /\ over \subseteq over'
          /\ saved'.session = saved.session
      BY <1>3 DEF TokenAges, EndElsewhere, Damage, accountsSide, sessionsVars, UnspentInv, SessionsInv, SavedFits
    <2>2. SavedUnspent' /\ \A p \in Processes : AtAccounts(proc[p])' /\ BoughtIsNew(proc[p])'
      BY <2>1 DEF UnspentInv, SavedUnspent, AtAccounts, BoughtIsNew, Unspent, Renewed
    <2>3. QED
      BY <1>1, <2>1, <2>2 DEF UnspentInv, BoughtApart, Pending, Renewed
  <1>4. QED
    BY <1>2, <1>3 DEF SessionsNext

\* The inductive invariant of what is spent, if Accounts answers 429 and 5xx
\* only before it rotates.
THEOREM UnspentInvariance ==
    ASSUME BusyAfterRotation = FALSE PROVE SessionsSpec => []UnspentInv
  <1>1. UnspentInv /\ [SessionsNext]_sessionsVars => UnspentInv'
    BY UnspentKept
  <1>2. QED
    BY <1>1, UnspentInitially, PTL DEF SessionsSpec

\* If Accounts answers 429 and 5xx only before it rotates, no spent refresh
\* token is presented again, whichever processes die, whichever answers are
\* lost and whichever saves fail (fresh_session, end_uncertain).
THEOREM NoTokenIsReused ==
    ASSUME BusyAfterRotation = FALSE PROVE SessionsSpec => []SpentTokenNotPresented
  <1>1. UnspentInv => SpentTokenNotPresented
    BY DEF UnspentInv, SpentTokenNotPresented
  <1>2. QED
    BY <1>1, UnspentInvariance, PTL
=============================================================================
