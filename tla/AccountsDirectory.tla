-------------------------- MODULE AccountsDirectory --------------------------
(***************************************************************************)
(* What Hook knows of one Silicon's account: the row of                    *)
(* hook_private.accounts, kept up to date by Silicon Accounts' webhook     *)
(* events (postgres/accounts_events.rs), by lookups (record_account_view)  *)
(* and by the access tokens it sees (observe_token_account).               *)
(*                                                                         *)
(* Events come in any order and more than once.  A lookup's answer is      *)
(* recorded some time after Accounts gave it.  Accounts changes one thing  *)
(* at a time; now is the instant of its latest change, and every recorded  *)
(* time is one of these instants.                                          *)
(***************************************************************************)
EXTENDS Naturals, FiniteSets

CONSTANTS
    PublicIds,      \* current ids the Silicon may have
    Carbons,        \* accounts that may be its custodian
    Lookups,        \* lookups under way at once
    Nobody,         \* no id, no custodian
    Second,         \* instants to a second: what a token's iat is rounded to
    MaxChanges      \* bound: changes made at Accounts

ASSUME DirectoryAssumption ==
    /\ Nobody \notin PublicIds \cup Carbons
    /\ Second \in Nat \ {0} /\ MaxChanges \in Nat

VARIABLES
    truth,      \* the account at Accounts, after each of its changes
    now,        \* the latest change
    events,     \* the webhook events these changes caused
    applied,    \* hook_private.accounts_events: the event ids seen
    row,        \* the Silicon's row of hook_private.accounts
    views,      \* answers of lookups on their way to the row
    viewed,     \* when Accounts gave the answer recorded last
    retired     \* whether the uuid is one that was migrated away

directoryVars == <<truth, now, events, applied, row, views, viewed, retired>>

Instants == 0 .. MaxChanges
Never == MaxChanges + 1
Account == [id : PublicIds, custodian : Carbons \cup {Nobody}, deleted : BOOLEAN]
(* Times that no column holds yet are Never.                               *)
AccountRow == [id : PublicIds \cup {Nobody}, idAt : Instants \cup {Never},
               custodian : Carbons \cup {Nobody}, custodianAt : Instants \cup {Never},
               version : 0 .. MaxChanges + 1, deleted : BOOLEAN,
               revoked : Instants \cup {Never}]
EmptyRow == [id |-> Nobody, idAt |-> Never, custodian |-> Nobody,
             custodianAt |-> Never, version |-> 0, deleted |-> FALSE, revoked |-> Never]
NoView == [at |-> Never]

DirectoryInit ==
    /\ \E i \in PublicIds, c \in Carbons \cup {Nobody} :
          truth = [t \in {0} |-> [id |-> i, custodian |-> c, deleted |-> FALSE]]
    /\ now = 0
    /\ events = {}
    /\ applied = {}
    /\ row = EmptyRow
    /\ views = [l \in Lookups |-> NoView]
    /\ viewed = Never
    /\ retired \in BOOLEAN

----------------------------------------------------------------------------
(* Silicon Accounts.                                                       *)

(* The account after its next change, the event of that change, and        *)
(* perhaps an account.updated, whose version counts the changes.           *)
Changes(account, event) ==
    /\ now < MaxChanges
    /\ ~truth[now].deleted
    /\ now' = now + 1
    /\ truth' = [t \in 0 .. now + 1 |-> IF t = now + 1 THEN account ELSE truth[t]]
    /\ \E profile \in BOOLEAN :
          events' = events \cup {[event EXCEPT !.at = now + 1]}
             \cup (IF profile
                   THEN {[type |-> "updated", at |-> now + 1, id |-> account.id,
                          custodian |-> account.custodian, version |-> now + 2]}
                   ELSE {})
    /\ UNCHANGED <<applied, row, views, viewed, retired>>

ChangeId(i) ==
    /\ i # truth[now].id
    /\ Changes([truth[now] EXCEPT !.id = i], [type |-> "id_changed", at |-> 0, id |-> i])
ChangeCustodian(c) ==
    /\ c # truth[now].custodian
    /\ Changes([truth[now] EXCEPT !.custodian = c],
               [type |-> "custodian_changed", at |-> 0, custodian |-> c])
SignOut(appRevoked) ==
    Changes(truth[now], [type |-> "signed_out", at |-> 0, appRevoked |-> appRevoked])
DeleteAccount ==
    Changes([truth[now] EXCEPT !.deleted = TRUE], [type |-> "deleted", at |-> 0])

----------------------------------------------------------------------------
(* Events.                                                                 *)

(* A time is newer than what a column holds, NULL being older than any.    *)
Newer(at, column) == column = Never \/ column < at

(* Mutant: a name is given to whatever row there is.                       *)
NamedAnyway(r, i, at) ==
    IF Newer(at, r.idAt) THEN [r EXCEPT !.id = i, !.idAt = at] ELSE r
(* Mutant: the event that comes last gives the name.                       *)
NamedInAnyOrder(r, i, at) ==
    IF ~r.deleted THEN [r EXCEPT !.id = i, !.idAt = at] ELSE r
(* upsert_known_account and id_changed: the id only moves forward in time. *)
Named(r, i, at) ==
    IF ~r.deleted /\ Newer(at, r.idAt) THEN [r EXCEPT !.id = i, !.idAt = at] ELSE r

(* updated: the profile by its version, the id and custodian by time.      *)
Updated(r, e) ==
    LET newer == ~r.deleted /\ r.version < e.version
        profiled == IF newer THEN [r EXCEPT !.version = e.version] ELSE r
        named == Named(profiled, e.id, e.at)
    IN  IF newer /\ (r.custodianAt = Never \/ r.custodianAt <= e.at)
        THEN [named EXCEPT !.custodian = e.custodian] ELSE named

(* Mutant: the change is not dated, as in an update of the profile.        *)
CustodianUndated(r, e) ==
    IF Newer(e.at, r.custodianAt) THEN [r EXCEPT !.custodian = e.custodian] ELSE r
(* custodian_changed (the observers it removes: see SiliconAccess).        *)
CustodianChanged(r, e) ==
    IF Newer(e.at, r.custodianAt)
    THEN [r EXCEPT !.custodian = e.custodian, !.custodianAt = e.at] ELSE r

(* revoke: GREATEST of the stored instant and this one.                    *)
Revoked(r, at) == IF Newer(at, r.revoked) THEN [r EXCEPT !.revoked = at] ELSE r

(* deleted and record_account_deleted_by_lookup.                           *)
Deleted(r, at) == [Revoked(r, at) EXCEPT !.deleted = TRUE, !.id = Nobody]

Effect(r, e) ==
    CASE e.type = "id_changed" -> Named(r, e.id, e.at)
      [] e.type = "updated" -> Updated(r, e)
      [] e.type = "custodian_changed" -> CustodianChanged(r, e)
      [] e.type = "signed_out" -> IF e.appRevoked THEN r ELSE Revoked(r, e.at)
      [] e.type = "deleted" -> Deleted(r, e.at)

(* apply_accounts_event: an event id counts once, and events of a retired  *)
(* uuid are recorded only.                                                 *)
ApplyAccountsEvent(e) ==
    /\ e \in events
    /\ applied' = applied \cup {e}
    /\ row' = IF e \in applied \/ retired THEN row ELSE Effect(row, e)
    /\ UNCHANGED <<truth, now, events, views, viewed, retired>>

----------------------------------------------------------------------------
(* Lookups and tokens.                                                     *)

AskAccounts(l) ==
    /\ views[l] = NoView
    /\ views' = [views EXCEPT ![l] = [at |-> now]]
    /\ UNCHANGED <<truth, now, events, applied, row, viewed, retired>>

(* record_account_view: the answer replaces what is stored, dated with the *)
(* time of the recording; a deleted row keeps what it has.                 *)
Viewed(r, account) ==
    IF r.deleted THEN r
    ELSE [r EXCEPT !.id = account.id, !.idAt = now, !.custodian = account.custodian]

(* look_up after the answer.  A retired uuid has no account any more.      *)
LookUp(l) ==
    /\ views[l] # NoView
    /\ views' = [views EXCEPT ![l] = NoView]
    /\ \/ /\ ~retired
          /\ row' = IF truth[views[l].at].deleted THEN Deleted(row, now)
                    ELSE Viewed(row, truth[views[l].at])
          /\ viewed' = views[l].at
       \/ UNCHANGED <<row, viewed>>     \* the answer is lost, or not found
    /\ UNCHANGED <<truth, now, events, applied, retired>>

(* observe_token_account: a token issued at t names the id of that time.   *)
ObserveTokenAccount(t) ==
    /\ t \in 0 .. now /\ ~truth[t].deleted
    /\ ~retired
    /\ row' = Named(row, truth[t].id, t - (t % Second))
    /\ UNCHANGED <<truth, now, events, applied, views, viewed, retired>>

DirectoryNext ==
    \/ \E i \in PublicIds : ChangeId(i)
    \/ \E c \in Carbons \cup {Nobody} : ChangeCustodian(c)
    \/ \E appRevoked \in BOOLEAN : SignOut(appRevoked)
    \/ DeleteAccount
    \/ \E e \in events : ApplyAccountsEvent(e)
    \/ \E l \in Lookups : AskAccounts(l) \/ LookUp(l)
    \/ \E t \in Instants : ObserveTokenAccount(t)

DirectorySpec == DirectoryInit /\ [][DirectoryNext]_directoryVars

----------------------------------------------------------------------------
(* Properties.                                                             *)

(* The types of the row and of what is on its way to it.                   *)
DirectoryTypeOK ==
    /\ now \in Instants
    /\ truth \in [0 .. now -> Account]
    /\ applied \subseteq events
    /\ row \in AccountRow
    /\ views \in [Lookups -> [at : Instants \cup {Never}]]
    /\ viewed \in Instants \cup {Never}

(* Changes of a kind that came after the answer of the lookup recorded     *)
(* last.                                                                   *)
Overtaken == viewed # Never /\ truth[viewed] # truth[now]

(* Whatever the order and repetition of events, once all of them have been *)
(* applied, Hook knows the Silicon's present id and custodian, its latest  *)
(* sign-out and whether it was deleted; unless the answer recorded last    *)
(* had been overtaken by a change before it was recorded.                  *)
DirectoryConverges ==
    (applied = events /\ ~retired /\ ~Overtaken) =>
        /\ row.deleted = truth[now].deleted
        /\ (~row.deleted /\ \E e \in events : e.type = "id_changed") => row.id = truth[now].id
        /\ (~row.deleted /\ \E e \in events : e.type = "custodian_changed")
              => row.custodian = truth[now].custodian
        /\ \A e \in events : (e.type = "signed_out" /\ ~e.appRevoked)
              => row.revoked # Never /\ row.revoked >= e.at

(* A deleted account has no name, and stays deleted: no late event, lookup *)
(* or token gives it one again.                                            *)
DeletedStaysNameless ==
    row.deleted => row.id = Nobody /\ row.revoked # Never /\ (retired \/ truth[now].deleted)

(* The row is well-formed whatever comes late: a deletion wins over every  *)
(* event, lookup and token that was on its way.                            *)
RowIsConsistent == DirectoryTypeOK /\ DeletedStaysNameless

(* "id and custodian changes apply only when newer than what is stored":   *)
(* an event never replaces the custodian that a later event brought.  It   *)
(* does not hold, and no run checks it: account.updated carries no time of *)
(* the custodian it names.                                                 *)
CustodianMovesForward ==
    [][\A e \in applied' \ applied : row'.custodian # row.custodian =>
          \A f \in applied : f.type \in {"updated", "custodian_changed"} => f.at <= e.at
      ]_directoryVars
=============================================================================
