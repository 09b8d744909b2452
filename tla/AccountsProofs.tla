---------------------------- MODULE AccountsProofs ----------------------------
(***************************************************************************)
(* What Hook knows of a Silicon's account, for any number of changes,      *)
(* lookups and accounts and any rounding of a token's time: events in any  *)
(* order and number, late answers and tokens leave the row well-formed,    *)
(* and right once every event has been applied.  And who is let in and who *)
(* is turned away, for any number of tokens, requests and signing keys,    *)
(* any length of a second and any interval between two fetches of the      *)
(* keys.                                                                   *)
(***************************************************************************)
EXTENDS AccountsDirectory, SignIns, Integers, TLAPS

----------------------------------------------------------------------------
(* The account directory: the inductive invariant.                         *)

\* The events of the changes made so far; the type decides the fields.
EventTypes ==
    [type : {"id_changed"}, at : Instants, id : PublicIds]
    \cup [type : {"custodian_changed"}, at : Instants, custodian : Carbons \cup {Nobody}]
    \cup [type : {"signed_out"}, at : Instants, appRevoked : BOOLEAN]
    \cup [type : {"deleted"}, at : Instants]
    \cup [type : {"updated"}, at : Instants, id : PublicIds,
          custodian : Carbons \cup {Nobody}, version : 0 .. MaxChanges + 1]

\* An event tells what its change made of the account.
Tells(e) ==
    /\ e.at <= now
    /\ e.type \in {"id_changed", "updated"} => e.id = truth[e.at].id
    /\ e.type \in {"custodian_changed", "updated"} => e.custodian = truth[e.at].custodian
    /\ e.type = "deleted" => truth[e.at].deleted
EventsAreTrue == events \subseteq EventTypes /\ \A e \in events : Tells(e)

\* Every change of id and of custodian and the deletion were told, and the
\* deletion is the last change.
ChangesAreTold ==
    /\ \A t \in 0 .. now :
          /\ truth[t].deleted => t = now
          /\ truth[t].id # truth[now].id =>
                \E e \in events : e.type = "id_changed" /\ e.at > t
          /\ truth[t].custodian # truth[now].custodian =>
                \E e \in events : e.type = "custodian_changed" /\ e.at > t
    /\ truth[now].deleted => \E e \in events : e.type = "deleted"

\* What was asked or recorded was so at some time before now.
AnswersArePast ==
    /\ \A l \in Lookups : views[l].at # Never => views[l].at <= now
    /\ viewed # Never => viewed <= now

\* An applied event left its time on the row, or a later one.
LeftItsTime(e, r) ==
    /\ (e.type = "id_changed" /\ ~r.deleted) => r.idAt # Never /\ e.at <= r.idAt
    /\ e.type = "custodian_changed" => r.custodianAt # Never /\ e.at <= r.custodianAt
    /\ (e.type = "signed_out" /\ ~e.appRevoked) => r.revoked # Never /\ e.at <= r.revoked
    /\ e.type = "deleted" => r.deleted
AppliedLeaveTheirTime == ~retired => \A e \in applied : LeftItsTime(e, row)

\* What the row says is what the lookup recorded last said, or what was so
\* at the time the row gives for it or later.
IdHasSource ==
    (~row.deleted /\ row.idAt # Never) =>
        /\ row.idAt <= now
        /\ \/ viewed # Never /\ row.id = truth[viewed].id
           \/ \E t \in 0 .. now : row.idAt <= t /\ row.id = truth[t].id
CustodianHasSource ==
    (~row.deleted /\ row.custodianAt # Never) =>
        \/ viewed # Never /\ row.custodian = truth[viewed].custodian
        \/ \E t \in 0 .. now : row.custodianAt <= t /\ row.custodian = truth[t].custodian

DirectoryInv ==
    /\ DirectoryTypeOK /\ EventsAreTrue /\ ChangesAreTold /\ AnswersArePast
    /\ AppliedLeaveTheirTime /\ IdHasSource /\ CustodianHasSource
    /\ DeletedStaysNameless

----------------------------------------------------------------------------
(* The operators of the row.                                               *)

\* Rounding down to the second is still an instant, not after the token's.
LEMMA Rounding ==
    ASSUME NEW t \in Instants
    PROVE  t - (t % Second) \in Instants /\ t - (t % Second) <= t
  <1>1. t \in Nat /\ Second \in Nat /\ Second > 0
    BY DirectoryAssumption DEF Instants
  <1>2. t % Second \in Nat /\ t % Second <= t
    BY <1>1
  <1>3. QED
    BY <1>1, <1>2, DirectoryAssumption DEF Instants

\* Never is no instant.
LEMMA NeverIsNoInstant == Never \notin Instants /\ Never \in Nat
  BY DirectoryAssumption DEF Never, Instants

\* The times of row n are those of row r or later, and a deletion stays.
NotBefore(r, n) ==
    /\ r.deleted => n.deleted
    /\ (r.idAt # Never /\ ~n.deleted) => n.idAt # Never /\ r.idAt <= n.idAt
    /\ r.custodianAt # Never => n.custodianAt # Never /\ r.custodianAt <= n.custodianAt
    /\ r.revoked # Never => n.revoked # Never /\ r.revoked <= n.revoked

\* The times of a row are numbers.
LEMMA RowFacts ==
    ASSUME NEW r \in AccountRow
    PROVE  /\ r.idAt \in Nat /\ r.custodianAt \in Nat /\ r.revoked \in Nat
           /\ NotBefore(r, r)
  <1>1. \A x \in Instants \cup {Never} : x \in Nat
    BY NeverIsNoInstant DEF Instants
  <1>2. r.idAt \in Nat /\ r.custodianAt \in Nat /\ r.revoked \in Nat
    BY <1>1 DEF AccountRow
  <1>3. QED
    BY <1>2 DEF NotBefore

\* Naming changes the id and its time, unless the row is deleted or newer.
LEMMA NamedRow ==
    ASSUME NEW r \in AccountRow, NEW i \in PublicIds, NEW at \in Instants
    PROVE  LET n == Named(r, i, at)
           IN  /\ n \in AccountRow
               /\ n.custodian = r.custodian /\ n.custodianAt = r.custodianAt
               /\ n.version = r.version /\ n.deleted = r.deleted /\ n.revoked = r.revoked
               /\ r.deleted => n = r
               /\ ~r.deleted => /\ n.idAt # Never /\ at <= n.idAt
                                /\ r.idAt # Never => r.idAt <= n.idAt
               /\ \/ n.id = i /\ n.idAt = at
                  \/ n.id = r.id /\ n.idAt = r.idAt
  <1>1. at # Never /\ Instants \subseteq Nat
    BY NeverIsNoInstant DEF Instants
  <1>2. CASE ~r.deleted /\ Newer(at, r.idAt)
    <2> DEFINE n == [r EXCEPT !.id = i, !.idAt = at]
    <2>1. Named(r, i, at) = n
      BY <1>2 DEF Named
    <2>2. /\ n \in AccountRow
          /\ n.id = i /\ n.idAt = at
          /\ n.custodian = r.custodian /\ n.custodianAt = r.custodianAt
          /\ n.version = r.version /\ n.deleted = r.deleted /\ n.revoked = r.revoked
      BY DEF AccountRow
    <2>3. r.idAt # Never => r.idAt <= at
      <3>1. r.idAt \in Instants \cup {Never}
        BY DEF AccountRow
      <3>2. r.idAt # Never => r.idAt \in Nat /\ r.idAt < at
        BY <1>1, <1>2, <3>1 DEF Newer
      <3> QED
        BY <1>1, <3>2
    <2>4. at <= at
      BY <1>1
    <2> HIDE DEF n
    <2> QED
      BY <1>1, <1>2, <2>1, <2>2, <2>3, <2>4
  <1>3. CASE ~(~r.deleted /\ Newer(at, r.idAt))
    BY <1>1, <1>3 DEF Named, Newer, AccountRow
  <1>4. QED
    BY <1>2, <1>3

\* Revoking moves the sign-out's instant forward.
LEMMA RevokedRow ==
    ASSUME NEW r \in AccountRow, NEW at \in Instants
    PROVE  LET n == Revoked(r, at)
           IN  /\ n \in AccountRow
               /\ n.id = r.id /\ n.idAt = r.idAt /\ n.custodian = r.custodian
               /\ n.custodianAt = r.custodianAt /\ n.version = r.version
               /\ n.deleted = r.deleted
               /\ n.revoked # Never /\ at <= n.revoked
               /\ r.revoked # Never => r.revoked <= n.revoked
  <1>1. at # Never /\ Instants \subseteq Nat
    BY NeverIsNoInstant DEF Instants
  <1>2. QED
    BY <1>1 DEF Revoked, Newer, AccountRow

\* account.updated: the id as Named, perhaps the custodian, no time of it.
LEMMA UpdatedRow ==
    ASSUME NEW r \in AccountRow, NEW e \in EventTypes, e.type = "updated"
    PROVE  LET n == Updated(r, e)
           IN  /\ n \in AccountRow
               /\ n.custodianAt = r.custodianAt /\ n.deleted = r.deleted
               /\ n.revoked = r.revoked
               /\ r.deleted => n = r
               /\ ~r.deleted /\ r.idAt # Never => n.idAt # Never /\ r.idAt <= n.idAt
               /\ \/ n.id = e.id /\ n.idAt = e.at
                  \/ n.id = r.id /\ n.idAt = r.idAt
               /\ \/ n.custodian = r.custodian
                  \/ /\ n.custodian = e.custodian
                     /\ r.custodianAt = Never \/ r.custodianAt <= e.at
  <1> DEFINE newer == ~r.deleted /\ r.version < e.version
             profiled == IF newer THEN [r EXCEPT !.version = e.version] ELSE r
             named == Named(profiled, e.id, e.at)
  <1>1. /\ e.id \in PublicIds /\ e.at \in Instants /\ e.custodian \in Carbons \cup {Nobody}
        /\ e.version \in 0 .. MaxChanges + 1
    BY DEF EventTypes
  <1>2. /\ profiled \in AccountRow
        /\ profiled.id = r.id /\ profiled.idAt = r.idAt /\ profiled.custodian = r.custodian
        /\ profiled.custodianAt = r.custodianAt /\ profiled.deleted = r.deleted
        /\ profiled.revoked = r.revoked
        /\ r.deleted => profiled = r
    BY <1>1 DEF AccountRow
  <1> HIDE DEF profiled
  <1>3. /\ named \in AccountRow
        /\ named.custodian = r.custodian /\ named.custodianAt = r.custodianAt
        /\ named.deleted = r.deleted /\ named.revoked = r.revoked
        /\ r.deleted => named = r
        /\ ~r.deleted /\ r.idAt # Never => named.idAt # Never /\ r.idAt <= named.idAt
        /\ \/ named.id = e.id /\ named.idAt = e.at
           \/ named.id = r.id /\ named.idAt = r.idAt
    BY <1>1, <1>2, NamedRow
  <1>4. Updated(r, e) = IF newer /\ (r.custodianAt = Never \/ r.custodianAt <= e.at)
                        THEN [named EXCEPT !.custodian = e.custodian] ELSE named
    BY DEF Updated, profiled
  <1> HIDE DEF named
  <1>5. QED
    BY <1>1, <1>3, <1>4 DEF AccountRow

----------------------------------------------------------------------------

\* Hook starts with an empty row and Accounts with an account.
LEMMA DirectoryInitially ==
    ASSUME DirectoryInit
    PROVE  DirectoryInv
  <1>1. PICK i \in PublicIds, c \in Carbons \cup {Nobody} :
            truth = [t \in {0} |-> [id |-> i, custodian |-> c, deleted |-> FALSE]]
    BY DEF DirectoryInit
  <1>2. 0 .. now = {0} /\ now = 0 /\ now \in Instants
    BY DirectoryAssumption DEF DirectoryInit, Instants
  <1>3. truth \in [0 .. now -> Account] /\ ~truth[now].deleted
    BY <1>1, <1>2 DEF Account
  <1>4. EmptyRow \in AccountRow
    BY DirectoryAssumption DEF EmptyRow, AccountRow
  <1>5. DirectoryTypeOK
    BY <1>2, <1>3, <1>4 DEF DirectoryInit, DirectoryTypeOK, NoView
  <1>6. ChangesAreTold
    BY <1>2, <1>3 DEF ChangesAreTold
  <1>7. EventsAreTrue /\ AnswersArePast /\ AppliedLeaveTheirTime
    BY DEF DirectoryInit, EventsAreTrue, AnswersArePast, AppliedLeaveTheirTime, NoView
  <1>8. IdHasSource /\ CustodianHasSource /\ DeletedStaysNameless
    BY DEF DirectoryInit, IdHasSource, CustodianHasSource, DeletedStaysNameless, EmptyRow
  <1>9. QED
    BY <1>5, <1>6, <1>7, <1>8 DEF DirectoryInv

\* A change at Accounts, told by its event: what the row has stays as good
\* as it was, for the past does not change.
LEMMA ChangeStep ==
    ASSUME DirectoryInv, NEW account \in Account, NEW event, Changes(account, event),
           NEW told \in EventTypes, told = [event EXCEPT !.at = now + 1],
           told.at = now + 1, told.type # "updated",
           told.type = "id_changed" => told.id = account.id,
           told.type = "custodian_changed" => told.custodian = account.custodian,
           told.type = "deleted" <=> account.deleted,
           account.id # truth[now].id => told.type = "id_changed",
           account.custodian # truth[now].custodian => told.type = "custodian_changed"
    PROVE  DirectoryInv'
  <1> USE DEF DirectoryInv
  <1>1. /\ now \in Nat /\ now < MaxChanges /\ now' = now + 1 /\ now' \in Instants
        /\ ~truth[now].deleted
        /\ UNCHANGED <<applied, row, views, viewed, retired>>
    BY DirectoryAssumption DEF Changes, DirectoryTypeOK, Instants
  <1>2. /\ truth' = [t \in 0 .. now + 1 |-> IF t = now + 1 THEN account ELSE truth[t]]
        /\ truth' \in [0 .. now' -> Account]
        /\ truth'[now'] = account
        /\ \A t \in 0 .. now : truth'[t] = truth[t] /\ t \in 0 .. now' /\ t # now'
        /\ \A t \in 0 .. now' : t \in 0 .. now \/ t = now'
    BY <1>1 DEF Changes, DirectoryTypeOK
  <1> DEFINE updated == [type |-> "updated", at |-> now + 1, id |-> account.id,
                         custodian |-> account.custodian, version |-> now + 2]
  <1>3. events' = events \cup {told} \/ events' = events \cup {told} \cup {updated}
    BY DEF Changes
  <1>4. updated \in EventTypes
    BY <1>1, DirectoryAssumption DEF EventTypes, Account
  <1>5. EventsAreTrue'
    <2>1. events' \subseteq EventTypes
      BY <1>3, <1>4 DEF EventsAreTrue
    <2>2. ASSUME NEW e \in events PROVE Tells(e)'
      <3>1. Tells(e) /\ e.at \in 0 .. now
        BY <1>1, <2>2 DEF EventsAreTrue, Tells, EventTypes, Instants
      <3> QED
        BY <1>1, <1>2, <3>1 DEF Tells
    <2>3. Tells(told)'
      BY <1>1, <1>2 DEF Tells
    <2>4. ASSUME NEW e, e = updated PROVE Tells(e)'
      BY <1>1, <1>2, <2>4 DEF Tells
    <2> HIDE DEF updated
    <2>5. \A e \in events' : e \in events \/ e = told \/ e = updated
      BY <1>3
    <2> QED
      BY <2>1, <2>2, <2>3, <2>4, <2>5 DEF EventsAreTrue
  <1> HIDE DEF updated
  <1>6. ChangesAreTold'
    <2>1. told \in events' /\ events \subseteq events'
      BY <1>3
    <2>2. ASSUME NEW t \in 0 .. now'
          PROVE  /\ truth'[t].deleted => t = now'
                 /\ truth'[t].id # truth'[now'].id =>
                       \E e \in events' : e.type = "id_changed" /\ e.at > t
                 /\ truth'[t].custodian # truth'[now'].custodian =>
                       \E e \in events' : e.type = "custodian_changed" /\ e.at > t
      <3>1. CASE t = now'
        BY <3>1
      <3>2. CASE t \in 0 .. now
        <4>1. ~truth[t].deleted
          BY <1>1, <3>2 DEF ChangesAreTold
        <4>2. told.at > t
          BY <1>1, <3>2
        <4>3. truth[t].id # truth[now].id =>
                  \E e \in events : e.type = "id_changed" /\ e.at > t
          BY <3>2 DEF ChangesAreTold
        <4>4. truth[t].custodian # truth[now].custodian =>
                  \E e \in events : e.type = "custodian_changed" /\ e.at > t
          BY <3>2 DEF ChangesAreTold
        <4> QED
          BY <1>2, <2>1, <3>2, <4>1, <4>2, <4>3, <4>4
      <3> QED
        BY <1>2, <2>2, <3>1, <3>2
    <2>3. truth'[now'].deleted => \E e \in events' : e.type = "deleted"
      BY <1>2, <2>1
    <2> QED
      BY <2>2, <2>3 DEF ChangesAreTold
  <1>7. DirectoryTypeOK'
    BY <1>1, <1>2, <1>3 DEF DirectoryTypeOK
  <1>8. AnswersArePast'
    BY <1>1 DEF AnswersArePast, DirectoryTypeOK, Never, Instants
  <1>9. AppliedLeaveTheirTime'
    BY <1>1 DEF AppliedLeaveTheirTime
  <1>10. viewed # Never => truth'[viewed] = truth[viewed]
    BY <1>1, <1>2 DEF AnswersArePast, DirectoryTypeOK, Instants
  <1>11. IdHasSource' /\ CustodianHasSource'
    <2>1. row.idAt \in Nat /\ row.custodianAt \in Nat
      BY RowFacts DEF DirectoryTypeOK
    <2>2. row.idAt <= now => row.idAt <= now + 1
      BY <1>1, <2>1
    <2>3. IdHasSource'
      BY <1>1, <1>2, <1>10, <2>2 DEF IdHasSource, Never
    <2>4. CustodianHasSource'
      BY <1>1, <1>2, <1>10 DEF CustodianHasSource, Never
    <2> QED
      BY <2>3, <2>4
  <1>12. DeletedStaysNameless'
    BY <1>1 DEF DeletedStaysNameless, Never
  <1>13. QED
    BY <1>5, <1>6, <1>7, <1>8, <1>9, <1>11, <1>12

\* The four changes Accounts makes.
LEMMA AccountsStep ==
    ASSUME DirectoryInv,
           \/ \E i \in PublicIds : ChangeId(i)
           \/ \E c \in Carbons \cup {Nobody} : ChangeCustodian(c)
           \/ \E appRevoked \in BOOLEAN : SignOut(appRevoked)
           \/ DeleteAccount
    PROVE  DirectoryInv'
  <1>1. truth[now] \in Account /\ now \in Nat
    BY DEF DirectoryInv, DirectoryTypeOK, Instants
  <1>2. ASSUME NEW account, NEW event, Changes(account, event)
        PROVE  now + 1 \in Instants /\ ~truth[now].deleted
    BY <1>1, <1>2, DirectoryAssumption DEF Changes, Instants
  <1>3. ASSUME NEW i \in PublicIds, ChangeId(i) PROVE DirectoryInv'
    <2> DEFINE account == [truth[now] EXCEPT !.id = i]
               event == [type |-> "id_changed", at |-> 0, id |-> i]
               told == [type |-> "id_changed", at |-> now + 1, id |-> i]
    <2>1. Changes(account, event)
      BY <1>3 DEF ChangeId
    <2>2. account \in Account /\ account.id = i
          /\ account.custodian = truth[now].custodian /\ ~account.deleted
      BY <1>1, <1>2, <2>1 DEF Account
    <2>3. told \in EventTypes /\ told = [event EXCEPT !.at = now + 1]
      BY <1>2, <2>1 DEF EventTypes
    <2> QED
      BY <2>1, <2>2, <2>3, ChangeStep
  <1>4. ASSUME NEW c \in Carbons \cup {Nobody}, ChangeCustodian(c) PROVE DirectoryInv'
    <2> DEFINE account == [truth[now] EXCEPT !.custodian = c]
               event == [type |-> "custodian_changed", at |-> 0, custodian |-> c]
               told == [type |-> "custodian_changed", at |-> now + 1, custodian |-> c]
    <2>1. Changes(account, event)
      BY <1>4 DEF ChangeCustodian
    <2>2. account \in Account /\ account.custodian = c
          /\ account.id = truth[now].id /\ ~account.deleted
      BY <1>1, <1>2, <2>1 DEF Account
    <2>3. told \in EventTypes /\ told = [event EXCEPT !.at = now + 1]
      BY <1>2, <2>1 DEF EventTypes
    <2> QED
      BY <2>1, <2>2, <2>3, ChangeStep
  <1>5. ASSUME NEW b \in BOOLEAN, SignOut(b) PROVE DirectoryInv'
    <2> DEFINE event == [type |-> "signed_out", at |-> 0, appRevoked |-> b]
               told == [type |-> "signed_out", at |-> now + 1, appRevoked |-> b]
    <2>1. Changes(truth[now], event)
      BY <1>5 DEF SignOut
    <2>2. told \in EventTypes /\ told = [event EXCEPT !.at = now + 1]
      BY <1>2, <2>1 DEF EventTypes
    <2> QED
      BY <1>1, <1>2, <2>1, <2>2, ChangeStep
  <1>6. ASSUME DeleteAccount PROVE DirectoryInv'
    <2> DEFINE account == [truth[now] EXCEPT !.deleted = TRUE]
               event == [type |-> "deleted", at |-> 0]
               told == [type |-> "deleted", at |-> now + 1]
    <2>1. Changes(account, event)
      BY <1>6 DEF DeleteAccount
    <2>2. account \in Account /\ account.id = truth[now].id
          /\ account.custodian = truth[now].custodian /\ account.deleted
      BY <1>1 DEF Account
    <2>3. told \in EventTypes /\ told = [event EXCEPT !.at = now + 1]
      BY <1>2, <2>1 DEF EventTypes
    <2> QED
      BY <2>1, <2>2, <2>3, ChangeStep
  <1>7. QED
    BY <1>3, <1>4, <1>5, <1>6

\* What is left to show for a step of Hook's that changes the row.
LEMMA RowStep ==
    ASSUME DirectoryInv, UNCHANGED <<truth, now, events, retired>>,
           applied' \subseteq events, row' \in AccountRow,
           views' \in [Lookups -> [at : Instants \cup {Never}]],
           viewed' \in Instants \cup {Never}, AnswersArePast',
           AppliedLeaveTheirTime', IdHasSource', CustodianHasSource', DeletedStaysNameless'
    PROVE  DirectoryInv'
  <1>1. EventsAreTrue' /\ ChangesAreTold'
    BY DEF DirectoryInv, EventsAreTrue, Tells, ChangesAreTold
  <1>2. DirectoryTypeOK'
    BY DEF DirectoryInv, DirectoryTypeOK
  <1>3. QED
    BY <1>1, <1>2 DEF DirectoryInv

\* An event of a deleted account tells that the account is deleted now.
LEMMA DeletedNow ==
    ASSUME DirectoryInv, NEW t \in 0 .. now, truth[t].deleted
    PROVE  truth[now].deleted
  BY DEF DirectoryInv, ChangesAreTold

\* Then what events had left stays behind them.
LEMMA TimesMoveForward ==
    ASSUME NEW e \in EventTypes, NEW r \in AccountRow, NEW n \in AccountRow,
           NotBefore(r, n), LeftItsTime(e, r)
    PROVE  LeftItsTime(e, n)
  <1>1. e.at \in Nat
    BY DEF EventTypes, Instants
  <1>2. \A x \in Instants \cup {Never} : x \in Nat
    BY NeverIsNoInstant DEF Instants
  <1>3. /\ r.idAt \in Nat /\ r.custodianAt \in Nat /\ r.revoked \in Nat
        /\ n.idAt \in Nat /\ n.custodianAt \in Nat /\ n.revoked \in Nat
    BY <1>2 DEF AccountRow
  <1>4. QED
    BY <1>1, <1>3 DEF NotBefore, LeftItsTime

\* What is left to show for an event applied for the first time, to an
\* account that was not migrated away.
LEMMA ApplicationStep ==
    ASSUME DirectoryInv, NEW e \in events, applied' = applied \cup {e},
           UNCHANGED <<truth, now, events, views, viewed, retired>>,
           row' \in AccountRow, NotBefore(row, row'), LeftItsTime(e, row'),
           IdHasSource', CustodianHasSource', DeletedStaysNameless'
    PROVE  DirectoryInv'
  <1>1. /\ applied' \subseteq events
        /\ views' \in [Lookups -> [at : Instants \cup {Never}]]
        /\ viewed' \in Instants \cup {Never}
        /\ AnswersArePast'
    BY DEF DirectoryInv, DirectoryTypeOK, AnswersArePast
  <1>2. ASSUME ~retired, NEW d \in applied PROVE LeftItsTime(d, row')
    <2>1. d \in EventTypes /\ row \in AccountRow /\ LeftItsTime(d, row)
      BY <1>2 DEF DirectoryInv, DirectoryTypeOK, EventsAreTrue, AppliedLeaveTheirTime
    <2> QED
      BY <2>1, TimesMoveForward
  <1>3. AppliedLeaveTheirTime'
    BY <1>2 DEF AppliedLeaveTheirTime, LeftItsTime, Never
  <1>4. QED
    BY <1>1, <1>3, RowStep

\* An event and what it does not say of itself.
LEMMA EventFacts ==
    ASSUME DirectoryInv, NEW e \in events
    PROVE  /\ e \in EventTypes /\ Tells(e)
           /\ e.at \in Instants /\ e.at \in 0 .. now /\ e.at # Never /\ e.at <= e.at
  BY NeverIsNoInstant DEF DirectoryInv, EventsAreTrue, EventTypes, Tells, Instants

\* id_changed.
LEMMA IdChangedStep ==
    ASSUME DirectoryInv, NEW e \in events, e.type = "id_changed",
           row' = Named(row, e.id, e.at), applied' = applied \cup {e},
           UNCHANGED <<truth, now, events, views, viewed, retired>>
    PROVE  DirectoryInv'
  <1>1. /\ e.id \in PublicIds /\ e.id = truth[e.at].id
        /\ e.at \in Instants /\ e.at \in 0 .. now /\ e.at <= e.at
    BY EventFacts DEF EventTypes, Tells
  <1>2. row \in AccountRow
    BY DEF DirectoryInv, DirectoryTypeOK
  <1>3. /\ row' \in AccountRow
        /\ row'.custodian = row.custodian /\ row'.custodianAt = row.custodianAt
        /\ row'.deleted = row.deleted /\ row'.revoked = row.revoked
        /\ row.deleted => row' = row
        /\ ~row.deleted => /\ row'.idAt # Never /\ e.at <= row'.idAt
                           /\ row.idAt # Never => row.idAt <= row'.idAt
        /\ \/ row'.id = e.id /\ row'.idAt = e.at
           \/ row'.id = row.id /\ row'.idAt = row.idAt
    BY <1>1, <1>2, NamedRow
  <1>4. NotBefore(row, row') /\ LeftItsTime(e, row')
    BY <1>2, <1>3, RowFacts DEF NotBefore, LeftItsTime
  <1>5. IdHasSource'
    BY <1>1, <1>3 DEF DirectoryInv, IdHasSource, Never
  <1>6. CustodianHasSource' /\ DeletedStaysNameless'
    BY <1>3 DEF DirectoryInv, CustodianHasSource, DeletedStaysNameless, Never
  <1>7. QED
    BY <1>3, <1>4, <1>5, <1>6, ApplicationStep

\* custodian_changed.
LEMMA CustodianChangedStep ==
    ASSUME DirectoryInv, NEW e \in events, e.type = "custodian_changed",
           row' = CustodianChanged(row, e), applied' = applied \cup {e},
           UNCHANGED <<truth, now, events, views, viewed, retired>>
    PROVE  DirectoryInv'
  <1>1. /\ e.custodian \in Carbons \cup {Nobody} /\ e.custodian = truth[e.at].custodian
        /\ e.at \in Instants /\ e.at \in 0 .. now /\ e.at <= e.at /\ e.at \in Nat
        /\ e.at # Never
    BY EventFacts DEF EventTypes, Tells, Instants
  <1>2. row \in AccountRow /\ row.custodianAt \in Nat
    BY RowFacts DEF DirectoryInv, DirectoryTypeOK
  <1>3. /\ row' \in AccountRow
        /\ row'.id = row.id /\ row'.idAt = row.idAt
        /\ row'.deleted = row.deleted /\ row'.revoked = row.revoked
        /\ row'.custodianAt # Never /\ e.at <= row'.custodianAt
        /\ row.custodianAt # Never => row.custodianAt <= row'.custodianAt
        /\ \/ row'.custodian = e.custodian /\ row'.custodianAt = e.at
           \/ row'.custodian = row.custodian /\ row'.custodianAt = row.custodianAt
    <2>1. CASE Newer(e.at, row.custodianAt)
      <3>1. row' = [row EXCEPT !.custodian = e.custodian, !.custodianAt = e.at]
        BY <2>1 DEF CustodianChanged
      <3>2. /\ row' \in AccountRow
            /\ row'.id = row.id /\ row'.idAt = row.idAt
            /\ row'.deleted = row.deleted /\ row'.revoked = row.revoked
            /\ row'.custodian = e.custodian /\ row'.custodianAt = e.at
        BY <1>1, <1>2, <3>1 DEF AccountRow
      <3>3. row.custodianAt # Never => row.custodianAt <= e.at
        BY <1>1, <1>2, <2>1 DEF Newer
      <3> QED
        BY <1>1, <3>2, <3>3
    <2>2. CASE ~Newer(e.at, row.custodianAt)
      BY <1>1, <1>2, <2>2 DEF CustodianChanged, Newer
    <2> QED
      BY <2>1, <2>2
  <1>4. NotBefore(row, row') /\ LeftItsTime(e, row')
    BY <1>2, <1>3, RowFacts DEF NotBefore, LeftItsTime
  <1>5. CustodianHasSource'
    BY <1>1, <1>3 DEF DirectoryInv, CustodianHasSource, Never
  <1>6. IdHasSource' /\ DeletedStaysNameless'
    BY <1>3 DEF DirectoryInv, IdHasSource, DeletedStaysNameless, Never
  <1>7. QED
    BY <1>3, <1>4, <1>5, <1>6, ApplicationStep

\* updated.
LEMMA UpdatedStep ==
    ASSUME DirectoryInv, NEW e \in events, e.type = "updated",
           row' = Updated(row, e), applied' = applied \cup {e},
           UNCHANGED <<truth, now, events, views, viewed, retired>>
    PROVE  DirectoryInv'
  <1>1. /\ e \in EventTypes /\ e.id = truth[e.at].id /\ e.custodian = truth[e.at].custodian
        /\ e.at \in 0 .. now /\ e.at <= e.at
    BY EventFacts DEF Tells
  <1>2. row \in AccountRow
    BY DEF DirectoryInv, DirectoryTypeOK
  <1>3. /\ row' \in AccountRow
        /\ row'.custodianAt = row.custodianAt /\ row'.deleted = row.deleted
        /\ row'.revoked = row.revoked
        /\ row.deleted => row' = row
        /\ ~row.deleted /\ row.idAt # Never => row'.idAt # Never /\ row.idAt <= row'.idAt
        /\ \/ row'.id = e.id /\ row'.idAt = e.at
           \/ row'.id = row.id /\ row'.idAt = row.idAt
        /\ \/ row'.custodian = row.custodian
           \/ /\ row'.custodian = e.custodian
              /\ row.custodianAt = Never \/ row.custodianAt <= e.at
    BY <1>1, <1>2, UpdatedRow
  <1>4. NotBefore(row, row') /\ LeftItsTime(e, row')
    BY <1>2, <1>3, RowFacts DEF NotBefore, LeftItsTime
  <1>5. IdHasSource'
    BY <1>1, <1>3 DEF DirectoryInv, IdHasSource, Never
  <1>6. CustodianHasSource'
    BY <1>1, <1>3 DEF DirectoryInv, CustodianHasSource, Never
  <1>7. DeletedStaysNameless'
    BY <1>3 DEF DirectoryInv, DeletedStaysNameless, Never
  <1>8. QED
    BY <1>3, <1>4, <1>5, <1>6, <1>7, ApplicationStep

\* signed_out: a sign-out of Hook alone is none for the account.
LEMMA SignedOutStep ==
    ASSUME DirectoryInv, NEW e \in events, e.type = "signed_out",
           row' = (IF e.appRevoked THEN row ELSE Revoked(row, e.at)),
           applied' = applied \cup {e},
           UNCHANGED <<truth, now, events, views, viewed, retired>>
    PROVE  DirectoryInv'
  <1>1. e.at \in Instants
    BY EventFacts
  <1>2. row \in AccountRow
    BY DEF DirectoryInv, DirectoryTypeOK
  <1>3. /\ row' \in AccountRow
        /\ row'.id = row.id /\ row'.idAt = row.idAt /\ row'.custodian = row.custodian
        /\ row'.custodianAt = row.custodianAt /\ row'.deleted = row.deleted
        /\ ~e.appRevoked => row'.revoked # Never /\ e.at <= row'.revoked
        /\ row.revoked # Never => row'.revoked # Never /\ row.revoked <= row'.revoked
    <2>1. CASE e.appRevoked
      BY <1>2, <2>1, RowFacts DEF NotBefore
    <2>2. CASE ~e.appRevoked
      BY <1>1, <1>2, <2>2, RevokedRow
    <2> QED
      BY <2>1, <2>2
  <1>4. NotBefore(row, row') /\ LeftItsTime(e, row')
    BY <1>2, <1>3, RowFacts DEF NotBefore, LeftItsTime
  <1>5. IdHasSource' /\ CustodianHasSource' /\ DeletedStaysNameless'
    BY <1>3 DEF DirectoryInv, IdHasSource, CustodianHasSource, DeletedStaysNameless, Never
  <1>6. QED
    BY <1>3, <1>4, <1>5, ApplicationStep

\* A deletion takes the name and dates a sign-out.
LEMMA DeletedRow ==
    ASSUME NEW r \in AccountRow, NEW at \in Instants
    PROVE  LET n == Deleted(r, at)
           IN  /\ n \in AccountRow /\ n.deleted /\ n.id = Nobody
               /\ n.custodianAt = r.custodianAt
               /\ n.revoked # Never
               /\ NotBefore(r, n)
  <1> DEFINE m == Revoked(r, at)
  <1>1. /\ m \in AccountRow /\ m.custodianAt = r.custodianAt
        /\ m.revoked # Never
        /\ r.revoked # Never => r.revoked <= m.revoked
    BY RevokedRow
  <1>2. Deleted(r, at) = [m EXCEPT !.deleted = TRUE, !.id = Nobody]
    BY DEF Deleted
  <1> HIDE DEF m
  <1>3. r.custodianAt <= r.custodianAt
    BY RowFacts
  <1> DEFINE n == [m EXCEPT !.deleted = TRUE, !.id = Nobody]
  <1>4. /\ n \in AccountRow /\ n.deleted /\ n.id = Nobody
        /\ n.custodianAt = m.custodianAt /\ n.revoked = m.revoked
    BY <1>1 DEF AccountRow
  <1> HIDE DEF n
  <1>5. NotBefore(r, n)
    BY <1>1, <1>3, <1>4 DEF NotBefore
  <1>6. QED
    BY <1>1, <1>2, <1>4, <1>5 DEF n

\* deleted.
LEMMA DeletedStep ==
    ASSUME DirectoryInv, NEW e \in events, e.type = "deleted",
           row' = Deleted(row, e.at), applied' = applied \cup {e},
           UNCHANGED <<truth, now, events, views, viewed, retired>>
    PROVE  DirectoryInv'
  <1>1. e.at \in Instants /\ truth[now].deleted
    BY EventFacts, DeletedNow DEF Tells
  <1>2. row \in AccountRow
    BY DEF DirectoryInv, DirectoryTypeOK
  <1>3. /\ row' \in AccountRow /\ row'.deleted /\ row'.id = Nobody
        /\ row'.revoked # Never /\ NotBefore(row, row')
    BY <1>1, <1>2, DeletedRow
  <1>4. LeftItsTime(e, row')
    BY <1>3 DEF LeftItsTime
  <1>5. IdHasSource' /\ CustodianHasSource' /\ DeletedStaysNameless'
    BY <1>1, <1>3 DEF IdHasSource, CustodianHasSource, DeletedStaysNameless, Never
  <1>6. QED
    BY <1>3, <1>4, <1>5, ApplicationStep

\* apply_accounts_event: an event seen before, or of a uuid migrated away,
\* changes nothing.
LEMMA ApplyStep ==
    ASSUME DirectoryInv, NEW e \in events, ApplyAccountsEvent(e)
    PROVE  DirectoryInv'
  <1>1. /\ applied' = applied \cup {e}
        /\ UNCHANGED <<truth, now, events, views, viewed, retired>>
    BY DEF ApplyAccountsEvent
  <1>2. CASE e \in applied \/ retired
    <2>1. row' = row /\ (retired \/ applied' = applied)
      BY <1>1, <1>2 DEF ApplyAccountsEvent
    <2>2. AppliedLeaveTheirTime' /\ AnswersArePast'
      BY <1>1, <2>1 DEF DirectoryInv, AppliedLeaveTheirTime, LeftItsTime, AnswersArePast, Never
    <2>3. IdHasSource' /\ CustodianHasSource' /\ DeletedStaysNameless'
      BY <1>1, <2>1 DEF DirectoryInv, IdHasSource, CustodianHasSource, DeletedStaysNameless,
          Never
    <2> QED
      BY <1>1, <2>1, <2>2, <2>3, RowStep DEF DirectoryInv, DirectoryTypeOK
  <1>3. CASE ~(e \in applied \/ retired)
    <2>1. row' = Effect(row, e)
      BY <1>3 DEF ApplyAccountsEvent
    <2>2. e.type \in {"id_changed", "custodian_changed", "signed_out", "deleted", "updated"}
      BY EventFacts DEF EventTypes
    <2>3. CASE e.type = "id_changed"
      BY <1>1, <2>1, <2>3, IdChangedStep DEF Effect
    <2>4. CASE e.type = "custodian_changed"
      BY <1>1, <2>1, <2>4, CustodianChangedStep DEF Effect
    <2>5. CASE e.type = "signed_out"
      BY <1>1, <2>1, <2>5, SignedOutStep DEF Effect
    <2>6. CASE e.type = "deleted"
      BY <1>1, <2>1, <2>6, DeletedStep DEF Effect
    <2>7. CASE e.type = "updated"
      BY <1>1, <2>1, <2>7, UpdatedStep DEF Effect
    <2> QED
      BY <2>2, <2>3, <2>4, <2>5, <2>6, <2>7
  <1>4. QED
    BY <1>2, <1>3

\* A row that a lookup or a token leaves no earlier keeps what events left.
LEMMA AppliedStayBehind ==
    ASSUME DirectoryInv, UNCHANGED <<applied, retired>>, row' \in AccountRow,
           NotBefore(row, row')
    PROVE  AppliedLeaveTheirTime'
  <1>1. ASSUME ~retired, NEW d \in applied PROVE LeftItsTime(d, row')
    <2>1. d \in EventTypes /\ row \in AccountRow /\ LeftItsTime(d, row)
      BY <1>1 DEF DirectoryInv, DirectoryTypeOK, EventsAreTrue, AppliedLeaveTheirTime
    <2> QED
      BY <2>1, TimesMoveForward
  <1>2. QED
    BY <1>1 DEF AppliedLeaveTheirTime, LeftItsTime, Never

\* Accounts is asked.
LEMMA AskStep ==
    ASSUME DirectoryInv, NEW l \in Lookups, AskAccounts(l)
    PROVE  DirectoryInv'
  <1>1. /\ views' = [views EXCEPT ![l] = [at |-> now]]
        /\ UNCHANGED <<truth, now, events, applied, row, viewed, retired>>
    BY DEF AskAccounts
  <1>2. now \in Instants /\ now <= now
    BY DEF DirectoryInv, DirectoryTypeOK, Instants
  <1>3. views' \in [Lookups -> [at : Instants \cup {Never}]] /\ AnswersArePast'
    BY <1>1, <1>2 DEF DirectoryInv, DirectoryTypeOK, AnswersArePast, Never
  <1>4. /\ AppliedLeaveTheirTime' /\ IdHasSource' /\ CustodianHasSource'
        /\ DeletedStaysNameless'
    BY <1>1 DEF DirectoryInv, AppliedLeaveTheirTime, LeftItsTime, IdHasSource,
        CustodianHasSource, DeletedStaysNameless, Never
  <1>5. QED
    BY <1>1, <1>3, <1>4, RowStep DEF DirectoryInv, DirectoryTypeOK

\* record_account_view and record_account_deleted_by_lookup.
LEMMA LookUpStep ==
    ASSUME DirectoryInv, NEW l \in Lookups, LookUp(l)
    PROVE  DirectoryInv'
  <1> DEFINE at == views[l].at
  <1>1. /\ views' = [views EXCEPT ![l] = NoView]
        /\ UNCHANGED <<truth, now, events, applied, retired>>
    BY DEF LookUp
  <1>2. row \in AccountRow /\ now \in Instants /\ views \in [Lookups -> [at : Instants \cup {Never}]]
    BY DEF DirectoryInv, DirectoryTypeOK
  <1>3. views' \in [Lookups -> [at : Instants \cup {Never}]]
    BY <1>1, <1>2 DEF NoView
  <1>4. at \in Instants /\ at \in 0 .. now /\ at # Never
    <2>1. at \in Instants \cup {Never} /\ at # Never
      BY <1>2 DEF LookUp, NoView
    <2> QED
      BY <2>1, <1>2 DEF DirectoryInv, AnswersArePast, Instants
  <1>5. CASE UNCHANGED <<row, viewed>>
    <2>1. AnswersArePast'
      BY <1>1, <1>2, <1>5 DEF DirectoryInv, AnswersArePast, NoView, Never
    <2>2. /\ AppliedLeaveTheirTime' /\ IdHasSource' /\ CustodianHasSource'
          /\ DeletedStaysNameless'
      BY <1>1, <1>5 DEF DirectoryInv, AppliedLeaveTheirTime, LeftItsTime, IdHasSource,
          CustodianHasSource, DeletedStaysNameless, Never
    <2> QED
      BY <1>1, <1>3, <1>5, <2>1, <2>2, RowStep DEF DirectoryInv, DirectoryTypeOK
  <1>6. CASE /\ ~retired
             /\ row' = IF truth[at].deleted THEN Deleted(row, now) ELSE Viewed(row, truth[at])
             /\ viewed' = at
    <2>1. AnswersArePast'
      BY <1>1, <1>2, <1>4, <1>6 DEF DirectoryInv, AnswersArePast, NoView, Never
    <2>2. /\ row' \in AccountRow /\ NotBefore(row, row')
          /\ IdHasSource' /\ CustodianHasSource' /\ DeletedStaysNameless'
      <3>1. CASE truth[at].deleted
        <4>1. row' = Deleted(row, now) /\ truth[now].deleted
          BY <1>4, <1>6, <3>1, DeletedNow
        <4>2. /\ row' \in AccountRow /\ row'.deleted /\ row'.id = Nobody
              /\ row'.revoked # Never /\ NotBefore(row, row')
          BY <1>2, <4>1, DeletedRow
        <4> QED
          BY <1>1, <4>1, <4>2 DEF IdHasSource, CustodianHasSource, DeletedStaysNameless, Never
      <3>2. CASE ~truth[at].deleted /\ row.deleted
        <4>1. row' = row
          BY <1>6, <3>2 DEF Viewed
        <4> QED
          BY <1>1, <1>2, <3>2, <4>1, RowFacts
            DEF DirectoryInv, IdHasSource, CustodianHasSource, DeletedStaysNameless, Never
      <3>3. CASE ~truth[at].deleted /\ ~row.deleted
        <4>1. row' = [row EXCEPT !.id = truth[at].id, !.idAt = now,
                                 !.custodian = truth[at].custodian]
          BY <1>6, <3>3 DEF Viewed
        <4>2. truth[at] \in Account
          BY <1>4 DEF DirectoryInv, DirectoryTypeOK
        <4>3. /\ row' \in AccountRow
              /\ row'.id = truth[at].id /\ row'.idAt = now
              /\ row'.custodian = truth[at].custodian /\ row'.custodianAt = row.custodianAt
              /\ row'.revoked = row.revoked /\ row'.deleted = row.deleted
          BY <1>2, <4>1, <4>2 DEF AccountRow, Account
        <4>4. now # Never /\ (row.idAt # Never => row.idAt <= now)
          <5>1. row.idAt # Never => row.idAt \in Instants
            BY <1>2 DEF AccountRow
          <5>2. ~row.deleted /\ row.idAt # Never => row.idAt <= now
            BY <5>1 DEF DirectoryInv, IdHasSource
          <5> QED
            BY <1>2, <3>3, <5>2, NeverIsNoInstant
        <4>5. NotBefore(row, row')
          <5>1. row.custodianAt <= row.custodianAt /\ row.revoked <= row.revoked
            BY <1>2, RowFacts
          <5> QED
            BY <3>3, <4>3, <4>4, <5>1 DEF NotBefore
        <4>6. now <= now
          BY <1>2 DEF Instants
        <4>7. IdHasSource' /\ CustodianHasSource' /\ DeletedStaysNameless'
          BY <1>1, <1>4, <1>6, <3>3, <4>3, <4>6
            DEF IdHasSource, CustodianHasSource, DeletedStaysNameless, Never
        <4> QED
          BY <4>3, <4>5, <4>7
      <3> QED
        BY <3>1, <3>2, <3>3
    <2>3. AppliedLeaveTheirTime'
      BY <1>1, <2>2, AppliedStayBehind
    <2> QED
      BY <1>1, <1>3, <1>4, <1>6, <2>1, <2>2, <2>3, RowStep DEF DirectoryInv, DirectoryTypeOK
  <1>7. QED
    BY <1>5, <1>6 DEF LookUp

\* observe_token_account: the id of the token's time, dated to its second.
LEMMA ObserveStep ==
    ASSUME DirectoryInv, NEW t \in Instants, ObserveTokenAccount(t)
    PROVE  DirectoryInv'
  <1> DEFINE at == t - (t % Second)
  <1>1. /\ t \in 0 .. now /\ row' = Named(row, truth[t].id, at)
        /\ UNCHANGED <<truth, now, events, applied, views, viewed, retired>>
    BY DEF ObserveTokenAccount
  <1>2. at \in Instants /\ at <= t /\ at \in Nat
    BY Rounding DEF Instants
  <1> HIDE DEF at
  <1>3. row \in AccountRow /\ truth[t].id \in PublicIds
    BY <1>1 DEF DirectoryInv, DirectoryTypeOK, Account
  <1>4. /\ row' \in AccountRow
        /\ row'.custodian = row.custodian /\ row'.custodianAt = row.custodianAt
        /\ row'.deleted = row.deleted /\ row'.revoked = row.revoked
        /\ row.deleted => row' = row
        /\ ~row.deleted => /\ row'.idAt # Never /\ at <= row'.idAt
                           /\ row.idAt # Never => row.idAt <= row'.idAt
        /\ \/ row'.id = truth[t].id /\ row'.idAt = at
           \/ row'.id = row.id /\ row'.idAt = row.idAt
    BY <1>1, <1>2, <1>3, NamedRow
  <1>5. NotBefore(row, row')
    BY <1>3, <1>4, RowFacts DEF NotBefore
  <1>6. at <= now
    BY <1>1, <1>2 DEF DirectoryInv, DirectoryTypeOK, Instants
  <1>7. IdHasSource'
    BY <1>1, <1>2, <1>4, <1>6 DEF DirectoryInv, IdHasSource, Never
  <1>8. CustodianHasSource' /\ DeletedStaysNameless' /\ AnswersArePast'
    BY <1>1, <1>4 DEF DirectoryInv, CustodianHasSource, DeletedStaysNameless, AnswersArePast,
        Never
  <1>9. AppliedLeaveTheirTime'
    BY <1>1, <1>4, <1>5, AppliedStayBehind
  <1>10. QED
    BY <1>1, <1>4, <1>7, <1>8, <1>9, RowStep DEF DirectoryInv, DirectoryTypeOK

----------------------------------------------------------------------------

\* Every step preserves the invariant, and so does a stutter.
LEMMA DirectoryInduction ==
    ASSUME DirectoryInv, [DirectoryNext]_directoryVars
    PROVE  DirectoryInv'
  <1>1. CASE UNCHANGED directoryVars
    BY <1>1 DEF directoryVars, DirectoryInv, DirectoryTypeOK, EventsAreTrue, Tells,
        ChangesAreTold, AnswersArePast, AppliedLeaveTheirTime, LeftItsTime, IdHasSource,
        CustodianHasSource, DeletedStaysNameless
  <1>2. CASE \/ \E i \in PublicIds : ChangeId(i)
             \/ \E c \in Carbons \cup {Nobody} : ChangeCustodian(c)
             \/ \E appRevoked \in BOOLEAN : SignOut(appRevoked)
             \/ DeleteAccount
    BY <1>2, AccountsStep
  <1>3. CASE \E e \in events : ApplyAccountsEvent(e)
    BY <1>3, ApplyStep
  <1>4. CASE \E l \in Lookups : AskAccounts(l) \/ LookUp(l)
    BY <1>4, AskStep, LookUpStep
  <1>5. CASE \E t \in Instants : ObserveTokenAccount(t)
    BY <1>5, ObserveStep
  <1>6. QED
    BY <1>1, <1>2, <1>3, <1>4, <1>5 DEF DirectoryNext

\* The inductive invariant holds throughout every behaviour.
THEOREM DirectoryInvariance == DirectorySpec => []DirectoryInv
  BY DirectoryInitially, DirectoryInduction, PTL DEF DirectorySpec

\* The row is well-formed, and a deleted account has no name and stays
\* deleted: no late event, lookup or token gives it one again
\* (accounts_events.rs, record_account_view, observe_token_account).
THEOREM DeletionWins == DirectorySpec => []RowIsConsistent
  <1>1. DirectoryInv => RowIsConsistent
    BY DEF DirectoryInv, RowIsConsistent
  <1>2. QED
    BY <1>1, DirectoryInvariance, PTL

\* What the invariant says when every event has been applied: had the id or
\* the custodian changed after the time the row gives, the event of that
\* change would have left a later one.
LEMMA AppliedAreRight ==
    ASSUME DirectoryInv, applied = events, ~retired, ~Overtaken
    PROVE  /\ row.deleted = truth[now].deleted
           /\ (~row.deleted /\ \E e \in events : e.type = "id_changed") => row.id = truth[now].id
           /\ (~row.deleted /\ \E e \in events : e.type = "custodian_changed")
                 => row.custodian = truth[now].custodian
           /\ \A e \in events : (e.type = "signed_out" /\ ~e.appRevoked)
                 => row.revoked # Never /\ row.revoked >= e.at
  <1> USE DEF DirectoryInv
  <1>1. /\ row \in AccountRow /\ truth[now] \in Account
        /\ row.deleted \in BOOLEAN /\ truth[now].deleted \in BOOLEAN
    BY DEF DirectoryTypeOK, Instants, AccountRow, Account
  <1>2. \A e \in events : LeftItsTime(e, row)
    BY DEF AppliedLeaveTheirTime
  <1>3. \A e \in events : e.at \in Nat /\ row.idAt \in Nat /\ row.custodianAt \in Nat /\ row.revoked \in Nat
    BY <1>1, EventFacts, RowFacts DEF Instants
  <1>4. row.deleted = truth[now].deleted
    <2>1. row.deleted => truth[now].deleted
      BY DEF DeletedStaysNameless
    <2>2. truth[now].deleted => row.deleted
      BY <1>2 DEF ChangesAreTold, LeftItsTime
    <2> QED
      BY <1>1, <2>1, <2>2
  <1>5. viewed # Never => truth[viewed] = truth[now]
    BY DEF Overtaken
  <1>6. ASSUME ~row.deleted, NEW e \in events, e.type = "id_changed"
        PROVE  row.id = truth[now].id
    <2>1. row.idAt # Never
      BY <1>2, <1>6 DEF LeftItsTime
    <2>2. ASSUME NEW t \in 0 .. now, row.idAt <= t, row.id = truth[t].id
          PROVE  row.id = truth[now].id
      <3> SUFFICES ASSUME truth[t].id # truth[now].id
                   PROVE  FALSE
        BY <2>2
      <3>1. PICK d \in events : d.type = "id_changed" /\ d.at > t
        BY DEF ChangesAreTold
      <3>2. d.at <= row.idAt
        BY <1>2, <1>6, <3>1 DEF LeftItsTime
      <3> QED
        BY <1>3, <2>2, <3>1, <3>2
    <2> QED
      BY <1>5, <1>6, <2>1, <2>2 DEF IdHasSource
  <1>7. ASSUME ~row.deleted, NEW e \in events, e.type = "custodian_changed"
        PROVE  row.custodian = truth[now].custodian
    <2>1. row.custodianAt # Never
      BY <1>2, <1>7 DEF LeftItsTime
    <2>2. ASSUME NEW t \in 0 .. now, row.custodianAt <= t, row.custodian = truth[t].custodian
          PROVE  row.custodian = truth[now].custodian
      <3> SUFFICES ASSUME truth[t].custodian # truth[now].custodian
                   PROVE  FALSE
        BY <2>2
      <3>1. PICK d \in events : d.type = "custodian_changed" /\ d.at > t
        BY DEF ChangesAreTold
      <3>2. d.at <= row.custodianAt
        BY <1>2, <3>1 DEF LeftItsTime
      <3> QED
        BY <1>3, <2>2, <3>1, <3>2
    <2> QED
      BY <1>5, <1>7, <2>1, <2>2 DEF CustodianHasSource
  <1>8. ASSUME NEW e \in events, e.type = "signed_out", ~e.appRevoked
        PROVE  row.revoked # Never /\ row.revoked >= e.at
    BY <1>2, <1>3, <1>8 DEF LeftItsTime
  <1>9. QED
    BY <1>4, <1>6, <1>7, <1>8

\* Once all events have been applied, in whatever order and however often,
\* and no answer was recorded that a change had overtaken, Hook knows the
\* Silicon's id, custodian, latest sign-out and deletion
\* (apply_accounts_event and record_account_view together).
THEOREM EventsConverge == DirectorySpec => []DirectoryConverges
  <1>1. DirectoryInv => DirectoryConverges
    BY AppliedAreRight DEF DirectoryConverges
  <1>2. QED
    BY <1>1, DirectoryInvariance, PTL

----------------------------------------------------------------------------
(* Sign-ins: the inductive invariant.                                      *)

KeySets == [keys : Nat, at : Nat]
RequestRecords ==
    [phase : SignInPhases \ {"idle"}, token : Tokens, check : BOOLEAN, since : Nat,
     seen : KeySets, before : Nat]

\* The types of what Accounts and Hook keep.
SignInTypes ==
    /\ clock \in Nat \ {0} /\ key \in Nat
    /\ token \in [Tokens -> [at : Nat, key : Nat]]
    /\ ended \in [Tokens -> Nat]
    /\ jwks \in KeySets /\ jwks.at <= clock
    /\ inactive \subseteq Tokens
    /\ asked \in [Requests -> {Free} \cup RequestRecords]

\* What happened at Accounts happened at instants of its own before now;
\* Hook knows of sign-outs that were.
InstantsAreDistinct ==
    /\ signOuts \subseteq 1 .. clock
    /\ \A k \in Tokens : /\ token[k].at <= clock /\ token[k].at \notin signOuts
                         /\ token[k] # Unissued => token[k].at > 0
    /\ revoked \in signOuts \cup {0}

\* What is remembered of a token was so and still is.
MemoryIsTrue ==
    /\ \A k \in inactive : token[k].at > 0 /\ ~Active(k)
    /\ \A k \in Tokens, t \in Nat : <<k, t>> \in confirmed => t < token[k].at

\* A request under way, by how far it got: it is past the sign-out it knows
\* of, it was active after it began, it has ended, and the keys are those it
\* saw or newer than it.
RequestIsRight(q) ==
    /\ q.phase # "idle" => /\ token[q.token].at > 0 /\ q.since <= clock
                           /\ q.before \in signOuts \cup {0}
    /\ q.phase \in {"introspect", "accepted"} => q.before < token[q.token].at
    /\ q.phase = "accepted" /\ q.check =>
          /\ \A t \in signOuts : t <= q.since => t < token[q.token].at
          /\ ended[q.token] = 0 \/ ended[q.token] > q.since
    /\ q.phase = "ended" => ~Active(q.token)
    /\ q.phase = "fetch" => jwks = q.seen \/ jwks.at >= q.since
    /\ q.phase = "unknown_key" => jwks.at + Refetch > q.since
RequestsAreRight == \A r \in Requests : RequestIsRight(asked[r])

\* Who fetches the keys waits for them.
FetchersWait == \A r \in Requests, n \in Nat : <<r, n>> \in fetching => asked[r].phase = "fetch"

SignInInv ==
    /\ SignInTypes /\ InstantsAreDistinct /\ MemoryIsTrue /\ RequestsAreRight
    /\ FetchersWait

----------------------------------------------------------------------------
(* Seconds.                                                                *)

\* A second begins no later than its instants.
LEMMA SecondBegins ==
    ASSUME NEW t \in Nat
    PROVE  SecondOf(t) \in Nat /\ SecondOf(t) <= t
  <1>1. SecondLength \in Nat /\ SecondLength > 0
    BY SignInAssumption
  <1>2. t % SecondLength \in Nat /\ t % SecondLength <= t
    BY <1>1
  <1>3. QED
    BY <1>2 DEF SecondOf

\* Of two instants the one whose second begins earlier is the earlier one.
LEMMA SecondsAreOrdered ==
    ASSUME NEW s \in Nat, NEW t \in Nat, SecondOf(s) < SecondOf(t)
    PROVE  s < t
  <1> DEFINE L == SecondLength
  <1>1. L \in Nat /\ L > 0
    BY SignInAssumption
  <1> HIDE DEF L
  <1>2. ASSUME NEW n \in Nat
        PROVE  \E a \in Int : n - (n % L) = L * a /\ n % L \in 0 .. L - 1
    <2>1. n % L \in 0 .. L - 1
      BY <1>1
    <2>2. n = L * (n \div L) + (n % L) /\ n \div L \in Int
      BY <1>1
    <2>3. n - (n % L) = L * (n \div L)
      BY <1>1, <2>1, <2>2
    <2> QED
      BY <2>1, <2>2, <2>3
  <1>3. PICK a \in Int : s - (s % L) = L * a /\ s % L \in 0 .. L - 1
    BY <1>2
  <1>4. PICK b \in Int : t - (t % L) = L * b /\ t % L \in 0 .. L - 1
    BY <1>2
  <1>5. L * a < L * b
    BY <1>3, <1>4 DEF SecondOf, L
  <1>6. a < b
    BY <1>1, <1>5
  <1>7. L * (a + 1) <= L * b /\ L * (a + 1) = L * a + L
    BY <1>1, <1>6
  <1>8. L * a \in Int /\ L * b \in Int
    BY <1>1
  <1>9. QED
    BY <1>1, <1>3, <1>4, <1>7, <1>8

----------------------------------------------------------------------------

LEMMA SignInInitially ==
    ASSUME SignInInit
    PROVE  SignInInv
  <1>1. SignInTypes
    BY DEF SignInInit, SignInTypes, Unissued, KeySets
  <1>2. InstantsAreDistinct /\ MemoryIsTrue /\ FetchersWait
    BY DEF SignInInit, InstantsAreDistinct, MemoryIsTrue, FetchersWait, Unissued
  <1>3. RequestsAreRight
    BY DEF SignInInit, RequestsAreRight, RequestIsRight, Free
  <1>4. QED
    BY <1>1, <1>2, <1>3 DEF SignInInv

\* Types of a request that is under way.
LEMMA RequestTypes ==
    ASSUME SignInInv, NEW r \in Requests, asked[r].phase # "idle"
    PROVE  /\ asked[r] \in RequestRecords
           /\ asked[r].token \in Tokens /\ asked[r].check \in BOOLEAN
           /\ asked[r].since \in Nat /\ asked[r].seen \in KeySets /\ asked[r].before \in Nat
           /\ asked[r].phase \in SignInPhases
           /\ token[asked[r].token].at > 0 /\ asked[r].since <= clock
           /\ asked[r].before \in signOuts \cup {0}
  <1>1. asked[r] \in RequestRecords
    BY DEF SignInInv, SignInTypes, Free
  <1>2. QED
    BY <1>1 DEF SignInInv, RequestsAreRight, RequestIsRight, RequestRecords

\* What an action of Accounts may do: take the next instant for a token not
\* issued before, for a sign-out, for a revocation, or for nothing.
AtNextInstant ==
    /\ clock' = clock + 1
    /\ \A k \in Tokens : token'[k] = token[k]
                         \/ (token[k] = Unissued /\ token'[k].at = clock + 1)
    /\ signOuts' = signOuts \/ (signOuts' = signOuts \cup {clock + 1} /\ token' = token)
    /\ \A k \in Tokens : ended'[k] = ended[k] \/ ended'[k] = clock + 1

\* A sign-in that ended stays ended, and what was active at some time was.
LEMMA EndedStaysEnded ==
    ASSUME SignInInv, AtNextInstant, NEW k \in Tokens, token[k].at > 0
    PROVE  /\ token'[k] = token[k]
           /\ signOuts \subseteq signOuts'
           /\ \A t \in signOuts' : t \in signOuts \/ t = clock + 1
           /\ ended'[k] = ended[k] \/ ended'[k] = clock + 1
           /\ ~Active(k) => ~Active(k)'
  <1>1. clock \in Nat /\ ended[k] \in Nat
    BY DEF SignInInv, SignInTypes
  <1>2. /\ token'[k] = token[k]
        /\ signOuts \subseteq signOuts'
        /\ \A t \in signOuts' : t \in signOuts \/ t = clock + 1
        /\ ended'[k] = ended[k] \/ ended'[k] = clock + 1
    BY DEF AtNextInstant, Unissued
  <1>3. ended[k] # 0 => ended'[k] # 0
    BY <1>1, <1>2
  <1>4. QED
    BY <1>2, <1>3 DEF Active

\* So Accounts disturbs nothing that Hook has.
LEMMA SignInServiceStep ==
    ASSUME SignInInv, AtNextInstant, UNCHANGED hookVars, key' \in Nat,
           token' \in [Tokens -> [at : Nat, key : Nat]], ended' \in [Tokens -> Nat]
    PROVE  SignInInv'
  <1>1. UNCHANGED <<revoked, jwks, inactive, confirmed, asked, fetching>>
    BY DEF hookVars
  <1>2. clock \in Nat \ {0} /\ clock' = clock + 1 /\ signOuts \subseteq 1 .. clock
    BY DEF SignInInv, SignInTypes, InstantsAreDistinct, AtNextInstant
  <1>3. SignInTypes'
    BY <1>1, <1>2 DEF SignInInv, SignInTypes, KeySets
  <1>4. InstantsAreDistinct'
    <2>1. signOuts' \subseteq 1 .. clock'
      <3>1. \A t \in signOuts' : t \in signOuts \/ t = clock + 1
        BY <1>2 DEF AtNextInstant
      <3>2. \A t \in 1 .. clock : t \in 1 .. clock + 1
        BY <1>2
      <3>3. clock + 1 \in 1 .. clock + 1
        BY <1>2
      <3>4. \A t \in signOuts' : t \in 1 .. clock + 1
        BY <1>2, <3>1, <3>2, <3>3
      <3> QED
        BY <1>2, <3>4
    <2>2. ASSUME NEW k \in Tokens
          PROVE  /\ token'[k].at <= clock' /\ token'[k].at \notin signOuts'
                 /\ token'[k] # Unissued => token'[k].at > 0
      <3>1. /\ token[k].at \in Nat /\ token[k].at <= clock /\ token[k].at \notin signOuts
            /\ token[k] # Unissued => token[k].at > 0
        BY DEF SignInInv, SignInTypes, InstantsAreDistinct
      <3>2. CASE token'[k] = token[k]
        BY <1>2, <3>1, <3>2 DEF AtNextInstant
      <3>3. CASE token'[k] # token[k]
        <4>1. token'[k].at = clock + 1 /\ signOuts' = signOuts
          BY <1>2, <3>3 DEF AtNextInstant
        <4> QED
          BY <1>2, <4>1
      <3> QED
        BY <3>2, <3>3
    <2>3. revoked' \in signOuts' \cup {0}
      BY <1>1 DEF SignInInv, InstantsAreDistinct, AtNextInstant
    <2> QED
      BY <2>1, <2>2, <2>3 DEF InstantsAreDistinct, Unissued
  <1>5. MemoryIsTrue'
    <2>1. ASSUME NEW k \in inactive PROVE token'[k].at > 0 /\ ~Active(k)'
      <3>1. k \in Tokens /\ token[k].at > 0 /\ ~Active(k)
        BY DEF SignInInv, SignInTypes, MemoryIsTrue
      <3> QED
        BY <3>1, EndedStaysEnded
    <2>2. ASSUME NEW k \in Tokens, NEW t \in Nat, <<k, t>> \in confirmed PROVE t < token'[k].at
      <3>1. t < token[k].at /\ token[k].at \in Nat
        BY <2>2 DEF SignInInv, SignInTypes, MemoryIsTrue
      <3> QED
        BY <3>1, EndedStaysEnded
    <2> QED
      BY <1>1, <2>1, <2>2 DEF MemoryIsTrue
  <1>6. ASSUME NEW r \in Requests PROVE RequestIsRight(asked[r])'
    <2>1. PICK q : q = asked[r] /\ q = asked'[r]
      BY <1>1
    <2>2. RequestIsRight(q)
      BY <2>1 DEF SignInInv, RequestsAreRight
    <2>3. CASE q.phase = "idle"
      BY <2>1, <2>3 DEF RequestIsRight
    <2>4. CASE q.phase # "idle"
      <3>1. /\ q.token \in Tokens /\ q.since \in Nat /\ q.since <= clock
            /\ token[q.token].at > 0
        BY <2>1, <2>4, RequestTypes
      <3>2. /\ token'[q.token] = token[q.token]
            /\ signOuts \subseteq signOuts'
            /\ \A t \in signOuts' : t \in signOuts \/ t = clock + 1
            /\ ended'[q.token] = ended[q.token] \/ ended'[q.token] = clock + 1
            /\ ~Active(q.token) => ~Active(q.token)'
        BY <3>1, EndedStaysEnded
      <3>3. q.since <= clock' /\ clock + 1 > q.since
        BY <1>2, <3>1
      <3>4. q.phase = "accepted" /\ q.check =>
                /\ \A t \in signOuts' : t <= q.since => t < token[q.token].at
                /\ ended'[q.token] = 0 \/ ended'[q.token] > q.since
        BY <1>2, <2>2, <3>1, <3>2, <3>3 DEF RequestIsRight
      <3>5. RequestIsRight(q)'
        BY <1>1, <2>2, <3>2, <3>3, <3>4 DEF RequestIsRight
      <3> QED
        BY <2>1, <3>5 DEF RequestIsRight, Active
    <2> QED
      BY <2>3, <2>4
  <1>7. RequestsAreRight'
    BY <1>6 DEF RequestsAreRight
  <1>8. FetchersWait'
    BY <1>1 DEF SignInInv, FetchersWait
  <1>9. QED
    BY <1>3, <1>4, <1>5, <1>7, <1>8 DEF SignInInv

\* Each action of Accounts is one of these.
LEMMA AccountsActions ==
    ASSUME SignInInv,
           \/ \E k \in Tokens : IssueToken(k) \/ RevokeOne(k)
           \/ EndSignIns \/ RotateSigningKey \/ SignInTick
    PROVE  SignInInv'
  <1>1. /\ clock \in Nat /\ key \in Nat
        /\ token \in [Tokens -> [at : Nat, key : Nat]] /\ ended \in [Tokens -> Nat]
    BY DEF SignInInv, SignInTypes
  <1>2. ASSUME NEW k \in Tokens, IssueToken(k) PROVE SignInInv'
    <2>1. /\ clock' = clock + 1 /\ token[k] = Unissued
          /\ token' = [token EXCEPT ![k] = [at |-> clock + 1, key |-> key]]
          /\ ended' = ended /\ signOuts' = signOuts /\ key' = key /\ UNCHANGED hookVars
      BY <1>2 DEF IssueToken, Passes
    <2>2. [at |-> clock + 1, key |-> key] \in [at : Nat, key : Nat]
      BY <1>1
    <2>3. token' \in [Tokens -> [at : Nat, key : Nat]]
      BY <1>1, <2>1, <2>2
    <2>4. \A j \in Tokens : token'[j] = token[j] \/ (token[j] = Unissued /\ token'[j].at = clock + 1)
      BY <1>1, <2>1
    <2>5. AtNextInstant
      BY <2>1, <2>4 DEF AtNextInstant
    <2> QED
      BY <1>1, <2>1, <2>3, <2>5, SignInServiceStep
  <1>3. ASSUME NEW k \in Tokens, RevokeOne(k) PROVE SignInInv'
    <2>1. /\ clock' = clock + 1 /\ ended' = [ended EXCEPT ![k] = clock + 1]
          /\ token' = token /\ signOuts' = signOuts /\ key' = key /\ UNCHANGED hookVars
      BY <1>3 DEF RevokeOne, Passes
    <2>2. ended' \in [Tokens -> Nat]
          /\ \A j \in Tokens : ended'[j] = ended[j] \/ ended'[j] = clock + 1
      BY <1>1, <2>1
    <2>3. AtNextInstant
      BY <2>1, <2>2 DEF AtNextInstant
    <2> QED
      BY <1>1, <2>1, <2>2, <2>3, SignInServiceStep
  <1>4. ASSUME EndSignIns \/ RotateSigningKey \/ SignInTick PROVE SignInInv'
    <2>1. /\ clock' = clock + 1 /\ token' = token /\ ended' = ended /\ UNCHANGED hookVars
          /\ (signOuts' = signOuts \/ signOuts' = signOuts \cup {clock + 1})
          /\ (key' = key \/ key' = key + 1)
      BY <1>4 DEF EndSignIns, RotateSigningKey, SignInTick, Passes
    <2>2. AtNextInstant
      BY <2>1 DEF AtNextInstant
    <2>3. key' \in Nat
      BY <1>1, <2>1
    <2> QED
      BY <1>1, <2>1, <2>2, <2>3, SignInServiceStep
  <1>5. QED
    BY <1>2, <1>3, <1>4

\* Hook learns of a sign-out.
LEMMA LearnStep ==
    ASSUME SignInInv, NEW t \in signOuts, LearnSignOut(t)
    PROVE  SignInInv'
  <1>1. /\ revoked' \in signOuts \cup {0}
        /\ UNCHANGED <<clock, token, ended, signOuts, key, jwks, inactive, confirmed,
                       asked, fetching>>
    BY DEF SignInInv, InstantsAreDistinct, LearnSignOut
  <1>2. QED
    BY <1>1 DEF SignInInv, SignInTypes, InstantsAreDistinct, MemoryIsTrue, Active,
        RequestsAreRight, RequestIsRight, FetchersWait

----------------------------------------------------------------------------
(* Requests.                                                               *)

\* What is left to show for a step of one request: that it is right where it
\* arrived, and so is what it remembers; a set of keys fetched now is newer
\* than every request under way.
LEMMA RequestStep ==
    ASSUME SignInInv, NEW r \in Requests, NEW q \in {Free} \cup RequestRecords,
           asked' = [asked EXCEPT ![r] = q],
           UNCHANGED <<clock, token, ended, signOuts, key, revoked>>,
           jwks' \in KeySets, jwks' = jwks \/ jwks'.at = clock,
           inactive' \subseteq Tokens,
           RequestIsRight(q)', MemoryIsTrue', FetchersWait'
    PROVE  SignInInv'
  <1>1. SignInTypes'
    BY DEF SignInInv, SignInTypes
  <1>2. InstantsAreDistinct'
    BY DEF SignInInv, InstantsAreDistinct
  <1>3. ASSUME NEW s \in Requests PROVE RequestIsRight(asked[s])'
    <2>1. CASE s = r
      BY <2>1 DEF SignInInv, SignInTypes
    <2>2. CASE s # r
      <3>1. PICK o : o = asked[s] /\ o = asked'[s]
        BY <2>2 DEF SignInInv, SignInTypes
      <3>2. RequestIsRight(o)
        BY <3>1 DEF SignInInv, RequestsAreRight
      <3>3. o.phase # "idle" => o.since \in Nat /\ o.since <= clock
        BY <3>1, RequestTypes
      <3>4. CASE jwks' = jwks
        BY <3>1, <3>2, <3>4 DEF RequestIsRight, Active
      <3>5. CASE jwks'.at = clock
        <4>1. clock \in Nat /\ Refetch \in Nat /\ Refetch > 0
          BY SignInAssumption DEF SignInInv, SignInTypes
        <4>2. o.phase # "idle" => clock >= o.since /\ clock + Refetch > o.since
          BY <3>3, <4>1
        <4> QED
          BY <3>1, <3>2, <3>5, <4>2 DEF RequestIsRight, Active
      <3> QED
        BY <3>4, <3>5
    <2> QED
      BY <2>1, <2>2
  <1>4. QED
    BY <1>1, <1>2, <1>3 DEF SignInInv, RequestsAreRight

\* A record with another phase.
LEMMA OtherPhase ==
    ASSUME NEW q \in RequestRecords, NEW phase \in SignInPhases \ {"idle"}
    PROVE  LET o == [q EXCEPT !.phase = phase]
           IN  /\ o \in RequestRecords /\ o.phase = phase
               /\ o.token = q.token /\ o.check = q.check /\ o.since = q.since
               /\ o.seen = q.seen /\ o.before = q.before
  BY DEF RequestRecords

\* Nobody but the one who fetches has to wait.
LEMMA FetcherStays ==
    ASSUME SignInInv, NEW r \in Requests, NEW q, asked' = [asked EXCEPT ![r] = q],
           fetching' = fetching, asked[r].phase # "fetch" \/ fetching = {}
    PROVE  FetchersWait'
  BY DEF SignInInv, SignInTypes, FetchersWait

\* A request that ends is forgotten.
LEMMA FreeStep ==
    ASSUME SignInInv, NEW r \in Requests, asked' = [asked EXCEPT ![r] = Free],
           UNCHANGED <<clock, token, ended, signOuts, key, revoked, jwks, inactive, confirmed>>,
           FetchersWait'
    PROVE  SignInInv'
  <1>1. PICK q : q = Free
    OBVIOUS
  <1>2. RequestIsRight(q)'
    BY <1>1 DEF RequestIsRight, Free
  <1>3. MemoryIsTrue'
    BY DEF SignInInv, MemoryIsTrue, Active
  <1>4. jwks' \in KeySets /\ inactive' \subseteq Tokens
    BY DEF SignInInv, SignInTypes
  <1>5. QED
    BY <1>1, <1>2, <1>3, <1>4, RequestStep

\* EndRequest and FetchFails.
LEMMA EndSteps ==
    ASSUME SignInInv, NEW r \in Requests, EndRequest(r) \/ FetchFails(r)
    PROVE  SignInInv'
  <1>1. CASE EndRequest(r)
    <2>1. FetchersWait'
      BY <1>1, FetcherStays DEF EndRequest
    <2> QED
      BY <1>1, <2>1, FreeStep DEF EndRequest, accountsVars
  <1>2. CASE FetchFails(r)
    <2>1. FetchersWait'
      BY <1>2 DEF FetchFails, FetchersWait
    <2> QED
      BY <1>2, <2>1, FreeStep DEF FetchFails, accountsVars
  <1>3. QED
    BY <1>1, <1>2

\* A request begins, with nothing known of sign-outs yet.
LEMMA BeginStep ==
    ASSUME SignInInv, NEW r \in Requests, NEW k \in Tokens, NEW check \in BOOLEAN,
           BeginRequest(r, k, check)
    PROVE  SignInInv'
  <1>1. PICK q : q = [phase |-> "keys", token |-> k, check |-> check, since |-> clock,
                      seen |-> jwks, before |-> 0]
    OBVIOUS
  <1>2. /\ asked[r] = Free /\ token[k] # Unissued
        /\ asked' = [asked EXCEPT ![r] = q]
        /\ UNCHANGED <<clock, token, ended, signOuts, key, revoked, jwks, inactive,
                       confirmed, fetching>>
    BY <1>1 DEF BeginRequest, accountsVars
  <1>3. jwks \in KeySets /\ clock \in Nat /\ clock <= clock /\ inactive \subseteq Tokens
    BY DEF SignInInv, SignInTypes
  <1>4. q \in RequestRecords
    BY <1>1, <1>3 DEF RequestRecords, SignInPhases
  <1>5. token[k].at > 0
    BY <1>2 DEF SignInInv, InstantsAreDistinct
  <1>6. RequestIsRight(q)'
    BY <1>1, <1>2, <1>3, <1>5 DEF RequestIsRight
  <1>7. MemoryIsTrue'
    BY <1>2 DEF SignInInv, MemoryIsTrue, Active
  <1>8. FetchersWait'
    <2>1. asked[r].phase # "fetch"
      BY <1>2 DEF Free
    <2> QED
      BY <1>2, <2>1, FetcherStays
  <1>9. QED
    BY <1>2, <1>3, <1>4, <1>6, <1>7, <1>8, RequestStep

\* verify, with the cached keys.
LEMMA VerifyStep ==
    ASSUME SignInInv, NEW r \in Requests, Verify(r)
    PROVE  SignInInv'
  <1>1. PICK phase : phase = (IF jwks.at = 0 \/ token[asked[r].token].key > jwks.keys
                              THEN "fetch" ELSE "account")
    OBVIOUS
  <1>2. PICK q : q = [asked[r] EXCEPT !.seen = jwks, !.phase = phase]
    OBVIOUS
  <1>3. /\ asked[r].phase = "keys"
        /\ asked' = [asked EXCEPT ![r] = q]
        /\ UNCHANGED <<clock, token, ended, signOuts, key, revoked, jwks, inactive,
                       confirmed, fetching>>
    BY <1>1, <1>2 DEF Verify, accountsVars, SignInInv, SignInTypes
  <1>4. /\ asked[r] \in RequestRecords
        /\ token[asked[r].token].at > 0 /\ asked[r].since <= clock
        /\ asked[r].before \in signOuts \cup {0}
    BY <1>3, RequestTypes
  <1>5. jwks \in KeySets /\ inactive \subseteq Tokens
    BY DEF SignInInv, SignInTypes
  <1>6. /\ q \in RequestRecords /\ q.phase \in {"fetch", "account"} /\ q.seen = jwks
        /\ q.token = asked[r].token /\ q.since = asked[r].since /\ q.before = asked[r].before
    BY <1>1, <1>2, <1>4, <1>5 DEF RequestRecords, SignInPhases
  <1>7. RequestIsRight(q)'
    BY <1>3, <1>4, <1>6 DEF RequestIsRight
  <1>8. MemoryIsTrue'
    BY <1>3 DEF SignInInv, MemoryIsTrue, Active
  <1>9. FetchersWait'
    BY <1>3, FetcherStays
  <1>10. QED
    BY <1>3, <1>5, <1>6, <1>7, <1>8, <1>9, RequestStep

\* Where a request goes on to another phase.
LEMMA GoesTo ==
    ASSUME SignInInv, NEW r \in Requests, NEW phase, Goes(r, phase)
    PROVE  asked' = [asked EXCEPT ![r] = [asked[r] EXCEPT !.phase = phase]]
  BY DEF Goes, SignInInv, SignInTypes

\* fetch_keys uses the set as it is: it is newer than the request, or not
\* an interval old.
LEMMA ReuseStep ==
    ASSUME SignInInv, NEW r \in Requests, ReuseKeys(r)
    PROVE  SignInInv'
  <1>1. PICK phase : phase = (IF token[asked[r].token].key > jwks.keys
                              THEN "unknown_key" ELSE "account")
    OBVIOUS
  <1>2. PICK q : q = [asked[r] EXCEPT !.phase = phase]
    OBVIOUS
  <1>3. /\ asked[r].phase = "fetch" /\ fetching = {} /\ Reuse(r)
        /\ asked' = [asked EXCEPT ![r] = q]
        /\ UNCHANGED <<clock, token, ended, signOuts, key, revoked, jwks, inactive,
                       confirmed, fetching>>
    BY <1>1, <1>2, GoesTo DEF ReuseKeys, AfterFetch, accountsVars
  <1>4. /\ asked[r] \in RequestRecords /\ asked[r].since \in Nat
        /\ token[asked[r].token].at > 0 /\ asked[r].since <= clock
        /\ asked[r].before \in signOuts \cup {0}
    BY <1>3, RequestTypes
  <1>5. /\ q \in RequestRecords /\ q.phase = phase
        /\ q.token = asked[r].token /\ q.since = asked[r].since /\ q.before = asked[r].before
    BY <1>1, <1>2, <1>4, OtherPhase DEF SignInPhases
  <1>6. jwks.at + Refetch > asked[r].since
    <2>1. /\ jwks.at \in Nat /\ clock \in Nat /\ jwks.at <= clock
          /\ Refetch \in Nat /\ Refetch > 0
      BY SignInAssumption DEF SignInInv, SignInTypes, KeySets
    <2>2. jwks = asked[r].seen \/ jwks.at >= asked[r].since
      BY <1>3 DEF SignInInv, RequestsAreRight, RequestIsRight
    <2>3. CASE jwks.at >= asked[r].since
      BY <1>4, <2>1, <2>3
    <2>4. CASE clock - jwks.at < Refetch
      BY <1>4, <2>1, <2>4
    <2> QED
      BY <1>3, <2>2, <2>3, <2>4 DEF Reuse
  <1>7. RequestIsRight(q)'
    BY <1>1, <1>3, <1>4, <1>5, <1>6 DEF RequestIsRight
  <1>8. MemoryIsTrue' /\ FetchersWait'
    BY <1>3, FetcherStays DEF SignInInv, MemoryIsTrue, Active
  <1>9. jwks' \in KeySets /\ inactive' \subseteq Tokens
    BY <1>3 DEF SignInInv, SignInTypes
  <1>10. QED
    BY <1>3, <1>5, <1>7, <1>8, <1>9, RequestStep

\* Accounts is asked for the keys.
LEMMA StartFetchStep ==
    ASSUME SignInInv, NEW r \in Requests, StartFetch(r)
    PROVE  SignInInv'
  <1>1. /\ asked[r].phase = "fetch" /\ fetching' = {<<r, key>>}
        /\ UNCHANGED <<clock, token, ended, signOuts, key, revoked, jwks, inactive,
                       confirmed, asked>>
    BY DEF StartFetch, accountsVars
  <1>2. FetchersWait'
    BY <1>1 DEF FetchersWait
  <1>3. QED
    BY <1>1, <1>2 DEF SignInInv, SignInTypes, InstantsAreDistinct, MemoryIsTrue, Active,
        RequestsAreRight, RequestIsRight

\* The keys arrive.
LEMMA FetchStep ==
    ASSUME SignInInv, NEW r \in Requests, FetchKeys(r)
    PROVE  SignInInv'
  <1>1. PICK keys \in 1 .. MaxKeys :
            <<r, keys>> \in fetching /\ jwks' = [keys |-> keys, at |-> clock] /\ AfterFetch(r, keys)
    BY DEF FetchKeys
  <1>2. PICK phase : phase = (IF token[asked[r].token].key > keys
                              THEN "unknown_key" ELSE "account")
    OBVIOUS
  <1>3. PICK q : q = [asked[r] EXCEPT !.phase = phase]
    OBVIOUS
  <1>4. /\ asked[r].phase = "fetch"
        /\ asked' = [asked EXCEPT ![r] = q]
        /\ fetching' = {}
        /\ UNCHANGED <<clock, token, ended, signOuts, key, revoked, inactive, confirmed>>
    BY <1>1, <1>2, <1>3, GoesTo DEF FetchKeys, AfterFetch, accountsVars, SignInInv, FetchersWait
  <1>5. /\ asked[r] \in RequestRecords /\ asked[r].since \in Nat
        /\ token[asked[r].token].at > 0 /\ asked[r].since <= clock
        /\ asked[r].before \in signOuts \cup {0}
    BY <1>4, RequestTypes
  <1>6. /\ q \in RequestRecords /\ q.phase = phase
        /\ q.token = asked[r].token /\ q.since = asked[r].since /\ q.before = asked[r].before
    BY <1>2, <1>3, <1>5, OtherPhase DEF SignInPhases
  <1>7. clock \in Nat /\ Refetch \in Nat /\ Refetch > 0 /\ inactive \subseteq Tokens
    BY SignInAssumption DEF SignInInv, SignInTypes
  <1>8. jwks' \in KeySets /\ jwks'.at = clock /\ jwks'.at + Refetch > asked[r].since
    BY <1>1, <1>5, <1>7 DEF KeySets
  <1>9. RequestIsRight(q)'
    BY <1>2, <1>4, <1>5, <1>6, <1>8 DEF RequestIsRight
  <1>10. MemoryIsTrue' /\ FetchersWait'
    BY <1>4 DEF SignInInv, MemoryIsTrue, Active, FetchersWait
  <1>11. QED
    BY <1>4, <1>6, <1>7, <1>8, <1>9, <1>10, RequestStep

\* What ended_by_sign_out decides by the second is right to the instant.
LEMMA VerdictIsRight ==
    ASSUME SignInInv, NEW k \in Tokens, revoked # 0,
           NEW iat, iat = SecondOf(token[k].at)
    PROVE  /\ EndedBySignOut(iat, revoked) \in {"ended", "newer", "ask"}
           /\ EndedBySignOut(iat, revoked) = "ended" => ~Active(k)
           /\ EndedBySignOut(iat, revoked) = "newer" => revoked < token[k].at
  <1>1. /\ token[k].at \in Nat /\ revoked \in Nat /\ revoked \in signOuts
        /\ token[k].at # revoked
    BY DEF SignInInv, SignInTypes, InstantsAreDistinct
  <1>2. iat \in Nat /\ iat <= token[k].at
    BY <1>1, SecondBegins
  <1>3. CASE iat < SecondOf(revoked)
    <2>1. token[k].at < revoked
      BY <1>1, <1>3, SecondsAreOrdered
    <2>2. ~Active(k)
      <3>1. ~(revoked < token[k].at)
        BY <1>1, <2>1
      <3> QED
        BY <1>1, <3>1 DEF Active
    <2>3. ~(iat >= revoked)
      BY <1>1, <1>2, <1>3, SecondBegins
    <2>4. EndedBySignOut(iat, revoked) = "ended"
      BY <1>3, <2>3 DEF EndedBySignOut
    <2> QED
      BY <2>2, <2>4
  <1>4. CASE ~(iat < SecondOf(revoked)) /\ iat >= revoked
    <2>1. revoked < token[k].at
      BY <1>1, <1>2, <1>4
    <2>2. EndedBySignOut(iat, revoked) = "newer"
      BY <1>4 DEF EndedBySignOut
    <2> QED
      BY <2>1, <2>2
  <1>5. CASE ~(iat < SecondOf(revoked)) /\ ~(iat >= revoked)
    BY <1>5 DEF EndedBySignOut
  <1>6. QED
    BY <1>3, <1>4, <1>5

\* The account's row is read, and the sign-out it knows of decides.
LEMMA ReadAccountStep ==
    ASSUME SignInInv, NEW r \in Requests, ReadAccount(r)
    PROVE  SignInInv'
  <1> DEFINE k == asked[r].token
             verdict == IF revoked = 0 THEN "newer"
                        ELSE EndedBySignOut(SecondOf(token[k].at), revoked)
  <1>1. asked[r].phase = "account"
    BY DEF ReadAccount
  <1>2. /\ asked[r] \in RequestRecords /\ k \in Tokens /\ asked[r].check \in BOOLEAN
        /\ token[k].at > 0 /\ asked[r].since <= clock
    BY <1>1, RequestTypes
  <1>3. /\ verdict \in {"ended", "newer", "ask"}
        /\ verdict = "ended" => ~Active(k)
        /\ verdict = "newer" => revoked < token[k].at
    <2>1. CASE revoked = 0
      BY <1>2, <2>1
    <2>2. CASE revoked # 0
      BY <1>2, <2>2, VerdictIsRight
    <2> QED
      BY <2>1, <2>2
  <1>4. PICK phase : phase = CASE verdict = "ended" -> "ended"
                               [] verdict = "ask" -> "confirm"
                               [] verdict = "newer" -> IF asked[r].check THEN "introspect"
                                                       ELSE "accepted"
    OBVIOUS
  <1>5. PICK q : q = [asked[r] EXCEPT !.before = revoked, !.phase = phase]
    OBVIOUS
  <1>6. /\ asked' = [asked EXCEPT ![r] = q]
        /\ UNCHANGED <<clock, token, ended, signOuts, key, revoked, jwks, inactive,
                       confirmed, fetching>>
    <2>1. asked' = [asked EXCEPT ![r].before = revoked, ![r].phase = phase]
      BY <1>4 DEF ReadAccount
    <2>2. asked' = [asked EXCEPT ![r] = q]
      BY <1>5, <2>1 DEF SignInInv, SignInTypes
    <2> QED
      BY <2>2 DEF ReadAccount, accountsVars
  <1> HIDE DEF verdict
  <1>7. \/ verdict = "ended" /\ phase = "ended"
        \/ verdict = "ask" /\ phase = "confirm"
        \/ verdict = "newer" /\ asked[r].check /\ phase = "introspect"
        \/ verdict = "newer" /\ ~asked[r].check /\ phase = "accepted"
    BY <1>3, <1>4
  <1>8. revoked \in Nat /\ revoked \in signOuts \cup {0}
    BY DEF SignInInv, SignInTypes, InstantsAreDistinct
  <1>9. /\ q \in RequestRecords /\ q.phase = phase /\ q.token = k
        /\ q.since = asked[r].since /\ q.before = revoked /\ q.check = asked[r].check
    BY <1>2, <1>5, <1>7, <1>8 DEF RequestRecords, SignInPhases
  <1>10. RequestIsRight(q)'
    <2>1. phase = "ended" => ~Active(q.token)
      BY <1>3, <1>7, <1>9
    <2>2. phase \in {"introspect", "accepted"} => q.before < token[q.token].at
      BY <1>3, <1>7, <1>9
    <2>3. q.phase = "accepted" => ~q.check
      BY <1>7, <1>9
    <2>4. phase \notin {"idle", "fetch", "unknown_key"}
      BY <1>7
    <2> HIDE DEF k
    <2> QED
      BY <1>2, <1>6, <1>8, <1>9, <2>1, <2>2, <2>3, <2>4 DEF RequestIsRight, Active
  <1>11. MemoryIsTrue' /\ FetchersWait'
    BY <1>1, <1>6, FetcherStays DEF SignInInv, MemoryIsTrue, Active
  <1>12. jwks' \in KeySets /\ inactive' \subseteq Tokens
    BY <1>6 DEF SignInInv, SignInTypes
  <1>13. QED
    BY <1>6, <1>9, <1>10, <1>11, <1>12, RequestStep

\* What introspection and its memory say is so.
LEMMA IntrospectedIsActive ==
    ASSUME SignInInv, NEW k \in Tokens
    PROVE  Introspected(k) <=> Active(k)
  BY DEF SignInInv, MemoryIsTrue, Introspected

\* A token active now is past every sign-out and was not ended since.
LEMMA ActiveIsPast ==
    ASSUME SignInInv, NEW k \in Tokens, Active(k)
    PROVE  ended[k] = 0 /\ \A t \in signOuts : t < token[k].at
  BY DEF Active

\* Where a token is in doubt after a sign-out, Accounts or the memory of its
\* answer decides.
LEMMA ConfirmStep ==
    ASSUME SignInInv, NEW r \in Requests, ConfirmAfterSignOut(r)
    PROVE  SignInInv'
  <1>1. PICK k, active : /\ k = asked[r].token
                         /\ active = (WasConfirmed(k, asked[r].before) \/ Introspected(k))
    OBVIOUS
  <1>2. PICK phase : phase = IF ~active THEN "ended"
                             ELSE IF asked[r].check THEN "introspect" ELSE "accepted"
    OBVIOUS
  <1>3. PICK q : q = [asked[r] EXCEPT !.phase = phase]
    OBVIOUS
  <1>4. /\ asked[r].phase = "confirm"
        /\ asked' = [asked EXCEPT ![r] = q]
        /\ confirmed' = IF active THEN confirmed \cup {<<k, asked[r].before>>} ELSE confirmed
        /\ inactive' = inactive \/ inactive' = IF active THEN inactive ELSE inactive \cup {k}
        /\ UNCHANGED <<clock, token, ended, signOuts, key, revoked, jwks, fetching>>
    BY <1>1, <1>2, <1>3, GoesTo DEF ConfirmAfterSignOut, Remember, accountsVars
  <1>5. /\ asked[r] \in RequestRecords /\ k \in Tokens /\ asked[r].check \in BOOLEAN
        /\ token[k].at > 0 /\ asked[r].since <= clock
        /\ asked[r].before \in Nat /\ asked[r].before \in signOuts \cup {0}
    BY <1>1, <1>4, RequestTypes
  <1>6. /\ phase \in {"ended", "introspect", "accepted"}
        /\ q \in RequestRecords /\ q.phase = phase
        /\ q.token = k /\ q.since = asked[r].since /\ q.before = asked[r].before
        /\ q.check = asked[r].check
    BY <1>1, <1>2, <1>3, <1>5, OtherPhase DEF SignInPhases
  <1>7. active => asked[r].before < token[k].at
    <2>1. CASE WasConfirmed(k, asked[r].before)
      BY <1>5, <2>1 DEF WasConfirmed, SignInInv, MemoryIsTrue
    <2>2. CASE Introspected(k)
      BY <1>5, <2>2, IntrospectedIsActive, ActiveIsPast
    <2> QED
      BY <1>1, <2>1, <2>2
  <1>8. ~active => ~Active(k)
    BY <1>1, <1>5, IntrospectedIsActive
  <1>9. RequestIsRight(q)'
    <2>1. phase = "ended" => ~Active(q.token)
      BY <1>2, <1>6, <1>8
    <2>2. phase \in {"introspect", "accepted"} => q.before < token[q.token].at
      BY <1>2, <1>6, <1>7
    <2>3. q.phase = "accepted" => ~q.check
      BY <1>2, <1>6
    <2> QED
      BY <1>4, <1>5, <1>6, <2>1, <2>2, <2>3 DEF RequestIsRight, Active
  <1>10. MemoryIsTrue'
    <2>1. ASSUME NEW j \in inactive' PROVE token[j].at > 0 /\ ~Active(j)
      <3>1. CASE j \in inactive
        BY <3>1 DEF SignInInv, MemoryIsTrue
      <3>2. CASE j \notin inactive
        BY <1>4, <1>5, <1>8, <3>2
      <3> QED
        BY <3>1, <3>2
    <2>2. ASSUME NEW j \in Tokens, NEW t \in Nat, <<j, t>> \in confirmed' PROVE t < token[j].at
      <3>1. CASE <<j, t>> \in confirmed
        BY <3>1 DEF SignInInv, MemoryIsTrue
      <3>2. CASE <<j, t>> \notin confirmed
        <4>1. active /\ <<j, t>> = <<k, asked[r].before>>
          BY <1>4, <2>2, <3>2
        <4> QED
          BY <1>7, <4>1
      <3> QED
        BY <3>1, <3>2
    <2> QED
      BY <1>4, <2>1, <2>2 DEF MemoryIsTrue, Active
  <1>11. FetchersWait'
    BY <1>4, FetcherStays
  <1>12. jwks' \in KeySets /\ inactive' \subseteq Tokens
    BY <1>4, <1>5 DEF SignInInv, SignInTypes
  <1>13. QED
    BY <1>4, <1>6, <1>9, <1>10, <1>11, <1>12, RequestStep

\* require_active_token.
LEMMA RequireActiveStep ==
    ASSUME SignInInv, NEW r \in Requests, RequireActiveToken(r)
    PROVE  SignInInv'
  <1>1. PICK k, active : k = asked[r].token /\ active = Introspected(k)
    OBVIOUS
  <1>2. PICK phase : phase = IF active THEN "accepted" ELSE "ended"
    OBVIOUS
  <1>3. PICK q : q = [asked[r] EXCEPT !.phase = phase]
    OBVIOUS
  <1>4. /\ asked[r].phase = "introspect"
        /\ asked' = [asked EXCEPT ![r] = q]
        /\ inactive' = IF active THEN inactive ELSE inactive \cup {k}
        /\ UNCHANGED <<clock, token, ended, signOuts, key, revoked, jwks, confirmed, fetching>>
    BY <1>1, <1>2, <1>3, GoesTo DEF RequireActiveToken, Remember, accountsVars
  <1>5. /\ asked[r] \in RequestRecords /\ k \in Tokens
        /\ token[k].at > 0 /\ asked[r].since <= clock
        /\ asked[r].before \in Nat /\ asked[r].before \in signOuts \cup {0}
    BY <1>1, <1>4, RequestTypes
  <1>6. /\ phase \in {"ended", "accepted"}
        /\ q \in RequestRecords /\ q.phase = phase
        /\ q.token = k /\ q.since = asked[r].since /\ q.before = asked[r].before
    BY <1>1, <1>2, <1>3, <1>5, OtherPhase DEF SignInPhases
  <1>7. active <=> Active(k)
    BY <1>1, <1>5, IntrospectedIsActive
  <1>8. asked[r].before < token[k].at
    BY <1>1, <1>4 DEF SignInInv, RequestsAreRight, RequestIsRight
  <1>9. RequestIsRight(q)'
    <2>1. phase = "ended" => ~Active(q.token)
      BY <1>2, <1>6, <1>7
    <2>2. phase = "accepted" =>
              ended[q.token] = 0 /\ \A t \in signOuts : t < token[q.token].at
      BY <1>2, <1>5, <1>6, <1>7, ActiveIsPast
    <2> QED
      BY <1>4, <1>5, <1>6, <1>8, <2>1, <2>2 DEF RequestIsRight, Active
  <1>10. MemoryIsTrue'
    <2>1. ASSUME NEW j \in inactive' PROVE token[j].at > 0 /\ ~Active(j)
      <3>1. CASE j \in inactive
        BY <3>1 DEF SignInInv, MemoryIsTrue
      <3>2. CASE j \notin inactive
        BY <1>4, <1>5, <1>7, <3>2
      <3> QED
        BY <3>1, <3>2
    <2> QED
      BY <1>4, <2>1 DEF SignInInv, MemoryIsTrue, Active
  <1>11. FetchersWait'
    BY <1>4, FetcherStays
  <1>12. jwks' \in KeySets /\ inactive' \subseteq Tokens
    BY <1>4, <1>5 DEF SignInInv, SignInTypes
  <1>13. QED
    BY <1>4, <1>6, <1>9, <1>10, <1>11, <1>12, RequestStep

\* A memory is emptied.
LEMMA ForgetStep ==
    ASSUME SignInInv, ForgetAnswers
    PROVE  SignInInv'
  <1>1. /\ inactive' \subseteq inactive /\ confirmed' \subseteq confirmed
        /\ UNCHANGED <<clock, token, ended, signOuts, key, revoked, jwks, asked, fetching>>
    BY DEF ForgetAnswers, accountsVars
  <1>2. MemoryIsTrue'
    BY <1>1 DEF SignInInv, MemoryIsTrue, Active
  <1>3. QED
    BY <1>1, <1>2 DEF SignInInv, SignInTypes, InstantsAreDistinct, RequestsAreRight,
        RequestIsRight, Active, FetchersWait

----------------------------------------------------------------------------

\* Every step preserves the invariant, and so does a stutter.
LEMMA SignInInduction ==
    ASSUME SignInInv, [SignInNext]_signInVars
    PROVE  SignInInv'
  <1>1. CASE UNCHANGED signInVars
    BY <1>1 DEF signInVars, SignInInv, SignInTypes, InstantsAreDistinct, MemoryIsTrue,
        RequestsAreRight, RequestIsRight, Active, FetchersWait
  <1>2. CASE \/ \E k \in Tokens : IssueToken(k) \/ RevokeOne(k)
             \/ EndSignIns \/ RotateSigningKey \/ SignInTick
    BY <1>2, AccountsActions
  <1>3. CASE \E t \in signOuts : LearnSignOut(t)
    BY <1>3, LearnStep
  <1>4. CASE \E r \in Requests, k \in Tokens, check \in BOOLEAN : BeginRequest(r, k, check)
    BY <1>4, BeginStep
  <1>5. CASE \E r \in Requests :
                \/ Verify(r) \/ ReuseKeys(r) \/ StartFetch(r) \/ FetchKeys(r) \/ FetchFails(r)
                \/ ReadAccount(r) \/ ConfirmAfterSignOut(r) \/ RequireActiveToken(r)
                \/ EndRequest(r)
    BY <1>5, VerifyStep, ReuseStep, StartFetchStep, FetchStep, EndSteps, ReadAccountStep,
        ConfirmStep, RequireActiveStep
  <1>6. CASE ForgetAnswers
    BY <1>6, ForgetStep
  <1>7. QED
    BY <1>1, <1>2, <1>3, <1>4, <1>5, <1>6 DEF SignInNext

\* The inductive invariant holds throughout every behaviour.
THEOREM SignInInvariance == SignInSpec => []SignInInv
  BY SignInInitially, SignInInduction, PTL DEF SignInSpec

\* Who is let in is signed in: its token was issued after every sign-out
\* that Hook had recorded when it read the account, to the instant although
\* a token names only a second; and on the routes that ask Accounts, it was
\* active after the request began (authenticate, require_active_token).
THEOREM LetInIsSignedIn == SignInSpec => []AcceptedIsSignedIn
  <1>1. SignInInv => AcceptedIsSignedIn
    <2> SUFFICES ASSUME SignInInv, NEW r \in Requests, asked[r].phase = "accepted"
                 PROVE  /\ asked[r].before < token[asked[r].token].at
                        /\ asked[r].check =>
                              /\ \A t \in signOuts : t <= asked[r].since => t < token[asked[r].token].at
                              /\ \/ ended[asked[r].token] = 0
                                 \/ ended[asked[r].token] > asked[r].since
      BY DEF AcceptedIsSignedIn, SignedOutStaysOut, AcceptedWasActive, Request
    <2> QED
      BY DEF SignInInv, RequestsAreRight, RequestIsRight
  <1>2. QED
    BY <1>1, SignInInvariance, PTL

\* Who is turned away is not signed in, whatever the second its token names;
\* a key is called unknown only if the keys were fetched less than an
\* interval before the request, or after it (ended_by_sign_out, the
\* gateway's memories, fetch_keys).
THEOREM TurnedAwayRightly == SignInSpec => []RefusedRightly
  <1>1. SignInInv => RefusedRightly
    BY DEF RefusedRightly, NewSignInWorks, PublishedKeyIsKnown, Request, SignInInv,
        RequestsAreRight, RequestIsRight
  <1>2. QED
    BY <1>1, SignInInvariance, PTL
=============================================================================
