----------------------------- MODULE CliSessions -----------------------------
(***************************************************************************)
(* The sign-ins of one profile of the hook command-line tool: several hook *)
(* processes share profiles.json under a file lock (cli/src/session.rs,    *)
(* store.rs, login.rs, status.rs) and renew its rotating tokens at Silicon *)
(* Accounts.                                                               *)
(*                                                                         *)
(* A process may be killed at any step, which frees its lock and leaves    *)
(* the file as it was saved last; a save may fail; answers get lost.  A    *)
(* token stands for a pair of access and refresh tokens; sign-in is the    *)
(* first token of its family.  Accounts takes a spent refresh token for a  *)
(* stolen one and ends the sign-in.                                        *)
(***************************************************************************)
EXTENDS Naturals, FiniteSets

CONSTANTS
    Processes,          \* hook processes that run at once
    Holders,            \* accounts that sign in
    Urls,               \* Hook origins
    NoSession,          \* a profile without a session
    BusyAfterRotation,  \* whether Accounts may answer 5xx after rotating
    MaxTokens           \* bound: pairs of tokens issued

VARIABLES
    saved,      \* the profile in profiles.json
    lock,       \* who holds profiles.lock
    proc,       \* what each process is at
    family,     \* Accounts: the sign-in of each token issued
    spent,      \* Accounts: refresh tokens that were used
    over,       \* Accounts: sign-ins that ended
    reused,     \* Accounts: sign-ins of which a spent token was presented
    stale,      \* tokens with less than REFRESH_MARGIN left
    left        \* sign-ins nobody could end or keep

sessionsVars == <<saved, lock, proc, family, spent, over, reused, stale, left>>
accountsSide == <<family, spent, over, reused, stale>>

Commands == {"call", "login", "logout"}
Phases == {"read", "lock", "locked", "sent", "answered", "use", "exchange", "revoke", "forget"}
Waiting == [phase |-> "none"]
Session == [token : 1 .. MaxTokens, who : Holders, url : Urls,
            id : Holders, started : BOOLEAN]

ASSUME SessionsAssumption ==
    /\ BusyAfterRotation \in BOOLEAN /\ MaxTokens \in Nat \ {0}
    /\ NoSession \notin Session

(* session_from: what is saved of the tokens of a sign-in.                 *)
SessionFrom(token, a, url) ==
    [token |-> token, who |-> a, url |-> url, id |-> a, started |-> FALSE]

SessionsInit ==
    /\ \E a \in Holders, u \in Urls, started \in BOOLEAN :
          saved = [readable |-> TRUE,
                   session |-> [SessionFrom(1, a, u) EXCEPT !.started = started]]
    /\ family = [t \in {1} |-> 1]
    /\ \E rotated \in BOOLEAN : spent = IF rotated /\ saved.session.started THEN {1} ELSE {}
    /\ lock = {} /\ over = {} /\ reused = {} /\ left = {}
    /\ stale \in SUBSET {1}
    /\ proc = [p \in Processes |-> Waiting]

----------------------------------------------------------------------------
(* Processes.                                                              *)

Goto(p, r) == proc' = [proc EXCEPT ![p] = r]
Phase(p, phase) == Goto(p, [proc[p] EXCEPT !.phase = phase])
Unlock(p) == lock' = lock \ {p}
(* A login that ends early leaves the sign-in it has in hand: the new one, *)
(* or the one it replaced.                                                 *)
Abandons(p) == left' = IF proc[p].cmd = "login" /\ proc[p].mine # NoSession
                       THEN left \cup {family[proc[p].mine.token]} ELSE left

(* A command, with the URL in effect: a flag's, the profile's or a default. *)
Start(p, cmd, url) ==
    /\ proc[p] = Waiting
    /\ Goto(p, [cmd |-> cmd, url |-> url, forced |-> FALSE,
                mine |-> NoSession, answer |-> "none", renewed |-> 0,
                phase |-> CASE cmd = "call" -> "read"
                            [] cmd = "login" -> "exchange"
                            [] OTHER -> "lock"])
    /\ UNCHANGED <<saved, lock, accountsSide, left>>

(* A process ends, is interrupted or killed.                               *)
Die(p) ==
    /\ proc[p] # Waiting
    /\ Goto(p, Waiting) /\ Unlock(p)
    /\ Abandons(p)
    /\ UNCHANGED <<saved, accountsSide>>

LockFree(p) == lock = {}

(* Locked::open; hook login moves an unreadable file aside.                *)
LockOpen(p) ==
    /\ proc[p].phase = "lock" /\ LockFree(p)
    /\ \/ /\ saved.readable
          /\ lock' = lock \cup {p} /\ Phase(p, "locked")
          /\ UNCHANGED saved
       \/ /\ ~saved.readable /\ proc[p].cmd = "login"
          /\ lock' = lock \cup {p} /\ Phase(p, "locked")
          /\ saved' = [readable |-> TRUE, session |-> NoSession]
       \/ /\ ~saved.readable /\ proc[p].cmd # "login"
          /\ Goto(p, Waiting)
          /\ UNCHANGED <<saved, lock>>
    /\ UNCHANGED <<accountsSide, left>>

(* Locked::save and the end of the lock: the session is replaced, or the   *)
(* write fails and the command with it.                                    *)
Save(p, session) ==
    saved' = [saved EXCEPT !.session = session, !.readable = TRUE] /\ Unlock(p)
SaveFails(p) ==
    /\ proc[p].phase \in {"locked", "answered", "forget"}
    /\ Goto(p, Waiting) /\ Unlock(p)
    /\ Abandons(p)
    /\ UNCHANGED <<saved, accountsSide>>

----------------------------------------------------------------------------
(* A usable token: fresh_session.                                          *)

Fresh(s) == ~s.started /\ s.token \notin stale

(* The file is read without the lock; the session must be for the URL.     *)
ReadSession(p) ==
    LET s == saved.session
    IN  /\ proc[p].phase = "read"
        /\ IF ~saved.readable \/ s = NoSession \/ (s # NoSession /\ s.url # proc[p].url)
           THEN Goto(p, Waiting)
           ELSE IF ~proc[p].forced /\ Fresh(s)
                THEN Goto(p, [proc[p] EXCEPT !.phase = "use", !.mine = s])
                ELSE Goto(p, [proc[p] EXCEPT !.phase = "lock", !.mine = s])
        /\ UNCHANGED <<saved, lock, accountsSide, left>>

(* Mutant: a refresh that did not finish is simply tried again.            *)
UncertainRetried(s) == FALSE
(* A refresh was started and never finished.                               *)
Uncertain(s) == s.started

(* Found fresh with the lock, by oneself or because another renewed it.    *)
Usable(p, s) == Fresh(s) /\ (~proc[p].forced \/ s.token # proc[p].mine.token)

(* With the lock: use what is there, end what is uncertain, or announce a  *)
(* refresh in the file and send it.                                        *)
Decide(p) ==
    LET s == saved.session
    IN  /\ proc[p].phase = "locked" /\ proc[p].cmd = "call"
        /\ \/ /\ s = NoSession
              /\ Goto(p, Waiting) /\ Unlock(p) /\ UNCHANGED saved
           \/ /\ s # NoSession /\ Usable(p, s)
              /\ Goto(p, [proc[p] EXCEPT !.phase = "use", !.mine = s])
              /\ Unlock(p) /\ UNCHANGED saved
           \/ /\ s # NoSession /\ ~Usable(p, s) /\ Uncertain(s)
              /\ Goto(p, [proc[p] EXCEPT !.phase = "revoke", !.mine = s])
              /\ UNCHANGED <<saved, lock>>
           \/ /\ s # NoSession /\ ~Usable(p, s) /\ ~Uncertain(s)
              /\ saved' = [saved EXCEPT !.session.started = TRUE, !.readable = TRUE]
              /\ Goto(p, [proc[p] EXCEPT !.phase = "sent", !.mine = s])
              /\ UNCHANGED lock
        /\ UNCHANGED <<accountsSide, left>>

(* What the client makes of how the request ended: SignInError.  Answers   *)
(* of 429 or 5xx and slow_down count as not processed, like a connection   *)
(* that failed; a timeout or an unreadable answer may have been.           *)
Classified(wire) ==
    CASE wire = "tokens" -> "renewed"
      [] wire = "invalid_grant" -> "ended"
      [] wire \in {"timeout", "unreadable"} -> "uncertain"
      [] wire \in {"busy", "unreachable", "rejected"} -> "kept"

(* Accounts handles the refresh; or the request does not get there.        *)
Answer(p, wire, token) ==
    Goto(p, [proc[p] EXCEPT !.phase = "answered", !.answer = Classified(wire), !.renewed = token])
AccountsRotates(p) ==
    LET t == proc[p].mine.token
        signIn == family[t]
    IN  /\ proc[p].phase = "sent"
        /\ IF signIn \in over \/ t \in spent
           THEN /\ Answer(p, "invalid_grant", 0)
                /\ over' = over \cup {signIn}
                /\ reused' = IF signIn \notin over THEN reused \cup {signIn} ELSE reused
                /\ UNCHANGED <<family, spent>>
           ELSE /\ Cardinality(DOMAIN family) < MaxTokens
                /\ LET new == Cardinality(DOMAIN family) + 1
                   IN  /\ family' = [x \in 1 .. new |-> IF x = new THEN signIn ELSE family[x]]
                       /\ \E wire \in {"tokens", "timeout", "unreadable"} \cup
                                (IF BusyAfterRotation THEN {"busy"} ELSE {}) :
                             Answer(p, wire, new)
                /\ spent' = spent \cup {t}
                /\ UNCHANGED <<over, reused>>
        /\ UNCHANGED <<saved, lock, stale, left>>
AccountsBusy(p) ==
    /\ proc[p].phase = "sent"
    /\ \E wire \in {"busy", "unreachable", "rejected", "timeout"} : Answer(p, wire, 0)
    /\ UNCHANGED <<saved, lock, accountsSide, left>>

(* What the process makes of the answer (SignInError::from_accounts).      *)
Refreshed(p) ==
    LET s == [proc[p].mine EXCEPT !.started = FALSE]
        read == [proc[p] EXCEPT !.answer = "none", !.renewed = 0]
        done == [read EXCEPT !.phase = "use", !.mine = [s EXCEPT !.token = proc[p].renewed]]
    IN  /\ proc[p].phase = "answered"
        /\ CASE proc[p].answer = "renewed" ->
                  Save(p, [s EXCEPT !.token = proc[p].renewed]) /\ Goto(p, done)
             [] proc[p].answer = "ended" -> Save(p, NoSession) /\ Goto(p, Waiting)
             [] proc[p].answer = "kept" -> Save(p, s) /\ Goto(p, Waiting)
             [] proc[p].answer = "uncertain" -> Goto(p, [read EXCEPT !.phase = "revoke"])
                                            /\ UNCHANGED <<saved, lock>>
        /\ UNCHANGED <<accountsSide, left>>

(* Hook refused the token: one forced refresh, then give up.               *)
Retried(p) == IF proc[p].forced THEN Goto(p, Waiting)
              ELSE Goto(p, [proc[p] EXCEPT !.phase = "read", !.forced = TRUE])

(* The token goes to Hook; login status learns the account's present id,   *)
(* which may differ from the saved one.                                    *)
Use(p) ==
    LET s == proc[p].mine
    IN  /\ proc[p].phase = "use"
        /\ \/ /\ family[s.token] \in over \/ s.token \in stale
              /\ Retried(p)
           \/ /\ family[s.token] \notin over
              /\ \/ Goto(p, Waiting)
                 \/ Goto(p, [proc[p] EXCEPT !.phase = "lock", !.cmd = "save_id"])
        /\ UNCHANGED <<saved, lock, accountsSide, left>>

----------------------------------------------------------------------------
(* login, logout and save_id.                                              *)

(* A short-lived token or an approved device code buys a new sign-in; the  *)
(* answer may get lost.                                                    *)
Exchange(p, a) ==
    LET new == Cardinality(DOMAIN family) + 1
    IN  /\ proc[p].phase = "exchange" /\ new <= MaxTokens
        /\ family' = [x \in 1 .. new |-> IF x = new THEN new ELSE family[x]]
        /\ \/ /\ Goto(p, [proc[p] EXCEPT !.phase = "lock", !.mine =
                    SessionFrom(new, a, proc[p].url)])
              /\ UNCHANGED left
           \/ Goto(p, Waiting) /\ left' = left \cup {new}
        /\ UNCHANGED <<saved, lock, spent, over, reused, stale>>
ExchangeRefused(p) ==
    /\ proc[p].phase = "exchange"
    /\ Goto(p, Waiting)
    /\ UNCHANGED <<saved, lock, accountsSide, left>>

(* Mutant: the replaced sign-in is forgotten.                              *)
ReplacedForgotten(p, previous) == Goto(p, Waiting)
(* The replaced sign-in is ended afterwards.                               *)
Replaced(p, previous) ==
    IF previous = NoSession THEN Goto(p, Waiting)
    ELSE Goto(p, [proc[p] EXCEPT !.phase = "revoke", !.mine = previous])
StoreSession(p) ==
    /\ proc[p].phase = "locked" /\ proc[p].cmd = "login"
    /\ Save(p, proc[p].mine)
    /\ Replaced(p, saved.session)
    /\ UNCHANGED <<accountsSide, left>>

Logout(p) ==
    /\ proc[p].phase = "locked" /\ proc[p].cmd = "logout"
    /\ IF saved.session = NoSession THEN Goto(p, Waiting) /\ Unlock(p)
       ELSE Goto(p, [proc[p] EXCEPT !.phase = "revoke", !.mine = saved.session])
            /\ UNCHANGED lock
    /\ UNCHANGED <<saved, accountsSide, left>>

(* revoke ends a sign-in by any of its refresh tokens, within a time limit. *)
Revoke(p) ==
    LET signIn == family[proc[p].mine.token]
    IN  /\ proc[p].phase = "revoke"
        /\ \/ over' = over \cup {signIn} /\ UNCHANGED left
           \/ left' = left \cup {signIn} /\ UNCHANGED over
        /\ IF proc[p].cmd = "login" THEN Goto(p, Waiting) ELSE Phase(p, "forget")
        /\ UNCHANGED <<saved, lock, family, spent, reused, stale>>
Forget(p) ==
    /\ proc[p].phase = "forget"
    /\ Save(p, NoSession) /\ Goto(p, Waiting)
    /\ UNCHANGED <<accountsSide, left>>

(* save_id: whatever session is there is given the id.                     *)
SaveId(p) ==
    LET s == proc[p].mine
    IN  /\ proc[p].phase = "locked" /\ proc[p].cmd = "save_id"
        /\ Save(p, IF saved.session = NoSession THEN NoSession
                   ELSE [saved.session EXCEPT !.id = s.who])
        /\ Goto(p, Waiting)
        /\ UNCHANGED <<accountsSide, left>>

----------------------------------------------------------------------------
(* Time, sign-outs elsewhere (of tokens that somebody has), and damage to  *)
(* the file.                                                               *)

InHand(t) ==
    \/ saved.session # NoSession /\ saved.session.token = t
    \/ \E p \in Processes : proc[p] # Waiting /\ proc[p].mine # NoSession /\ proc[p].mine.token = t
TokenAges(t) ==
    /\ t \notin stale /\ InHand(t)
    /\ stale' = stale \cup {t}
    /\ UNCHANGED <<saved, lock, proc, family, spent, over, reused, left>>
EndElsewhere(signIn) ==
    /\ signIn \notin over /\ \E t \in DOMAIN family : family[t] = signIn /\ InHand(t)
    /\ over' = over \cup {signIn}
    /\ UNCHANGED <<saved, lock, proc, family, spent, reused, stale, left>>
Damage ==
    /\ saved.readable
    /\ saved' = [saved EXCEPT !.readable = FALSE]
    /\ left' = IF saved.session = NoSession THEN left
               ELSE left \cup {family[saved.session.token]}
    /\ UNCHANGED <<lock, proc, accountsSide>>

(* What a process does by itself once it has what it waits for.            *)
Step(p) ==
    \/ ReadSession(p) \/ Decide(p) \/ AccountsRotates(p) \/ AccountsBusy(p)
    \/ Refreshed(p) \/ Use(p) \/ ExchangeRefused(p) \/ StoreSession(p)
    \/ \E a \in Holders : Exchange(p, a)
    \/ Logout(p) \/ Revoke(p) \/ Forget(p) \/ SaveId(p)
    \/ SaveFails(p)

SessionsNext ==
    \/ \E p \in Processes :
          \/ \E cmd \in Commands, url \in Urls : Start(p, cmd, url)
          \/ LockOpen(p) \/ Step(p) \/ Die(p)
    \/ \E t \in DOMAIN family : TokenAges(t)
    \/ \E t \in DOMAIN family : EndElsewhere(family[t])
    \/ Damage

SessionsSpec == SessionsInit /\ [][SessionsNext]_sessionsVars

----------------------------------------------------------------------------
(* Properties.                                                             *)

Held == {"locked", "sent", "answered", "forget"}

(* The types, and that the file's lock is held by one process at a time,   *)
(* by the one that is about to write it.                                   *)
SessionsTypeOK ==
    /\ saved.session \in Session \cup {NoSession}
    /\ \A p \in Processes : proc[p].phase \in Phases \cup {"none"}
    /\ Cardinality(lock) <= 1
    /\ \A p \in Processes : proc[p].phase \in Held => p \in lock
    /\ spent \cup stale \subseteq DOMAIN family

(* "a refresh whose outcome is unknown is never retried with the same      *)
(* token": however processes are killed, answers lost and saves refused,   *)
(* no spent refresh token is presented again.                              *)
SpentTokenNotPresented == reused = {}

(* A sign-in that still works is the saved one or in the hands of a login  *)
(* under way, unless its end could not be told to Accounts.                *)
NoSignInLeftBehind ==
    \A t \in DOMAIN family :
        \/ family[t] \in over \cup left
        \/ saved.session # NoSession /\ family[saved.session.token] = family[t]
        \/ \E p \in Processes : /\ proc[p] # Waiting /\ proc[p].cmd \in {"login", "logout"}
                               /\ proc[p].mine # NoSession
                               /\ family[proc[p].mine.token] = family[t]

(* However processes are killed, answers lost and saves refused, the lock  *)
(* is its writer's alone and every working sign-in is accounted for.       *)
SignInsAccounted == SessionsTypeOK /\ NoSignInLeftBehind


(* "Current c:/si: id": the id saved with a session is its account's.  It  *)
(* does not hold once two people sign in, and no run checks it.            *)
SavedIdIsTheAccounts == saved.session # NoSession => saved.session.id = saved.session.who

(* "its token is only sent to the Hook it signed in for", and a command    *)
(* calls the Hook that was asked for.  It does not hold with two Hooks,    *)
(* and no run checks it.                                                   *)
CallGoesWhereAsked ==
    \A p \in Processes : proc[p].phase = "use" => proc[p].mine.url = proc[p].url
=============================================================================
