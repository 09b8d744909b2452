---------------------------- MODULE IdentityLinks ----------------------------
(***************************************************************************)
(* hook-migrate link-identities: the operator links the ids of the former  *)
(* sign-in system, under which hooks and their rows are stored, to Silicon *)
(* Accounts uuids, with one mapping file after another                     *)
(* (postgres/identity_links.rs, bin/hook_migrate.rs, migration 0019).      *)
(*                                                                         *)
(* The service runs meanwhile: hooks receive events, their keys are        *)
(* rotated and they are purged.  A run locks the history tables and every  *)
(* hook it changes, so it is one step among these.                         *)
(***************************************************************************)
EXTENDS Naturals, FiniteSets

CONSTANTS
    IamIds,         \* the ids of the former system
    Uuids,          \* accounts at Silicon Accounts
    NoLink,         \* a NULL uuid
    IsSilicon,      \* the ids and uuids of Silicons; the others are Carbons'
    OldHooks,       \* hooks from before the migration
    IamOwner,       \* silicon_id of each of them
    IamCreator      \* created_by_id of each of them

ASSUME LinksAssumption ==
    /\ NoLink \notin Uuids
    /\ IamOwner \in [OldHooks -> IamIds \cap IsSilicon]
    /\ IamCreator \in [OldHooks -> IamIds]

VARIABLES
    links,      \* accounts_uuid of each row of identity_links
    intended,   \* history: what the last applied file says of each id
    closed,     \* accounts that are not active
    owner,      \* silicon_uuid of each hook
    creator,    \* created_by_uuid of each hook
    stored,     \* hooks not purged
    history,    \* events and blocked requests: [hook, silicon]
    retiredKeys,    \* retired_endpoint_keys: [id, hook, silicon]
    refusedLate     \* a file that passed the checks, refused by the database

linksVars == <<links, intended, closed, owner, creator, stored, history,
               retiredKeys, refusedLate>>

(* Migration 0019 inventories the ids and links none.                      *)
LinksInit ==
    /\ links = [x \in IamIds |-> NoLink]
    /\ intended = links
    /\ closed = {}
    /\ owner = [h \in OldHooks |-> NoLink]
    /\ creator = [h \in OldHooks |-> NoLink]
    /\ stored = OldHooks
    /\ history \in SUBSET {[hook |-> h, silicon |-> NoLink] : h \in OldHooks}
    /\ retiredKeys = {}
    /\ refusedLate = FALSE

----------------------------------------------------------------------------
(* A mapping file: a set of rows <<id, uuid>>; an empty uuid unlinks.      *)

Rows == IamIds \X (Uuids \cup {NoLink})
Ids(file) == {row[1] : row \in file}
SameKind(x, u) == (x \in IsSilicon) <=> (u \in IsSilicon)

(* No two rows give one account to two ids.                                *)
Injective(f) == \A x, y \in DOMAIN f : f[x] = f[y] /\ f[x] # NoLink => x = y

(* parse_mapping: no id and no uuid twice.                                 *)
Parses(file) ==
    \A r, s \in file : (r[1] = s[1] \/ (r[2] = s[2] /\ r[2] # NoLink)) => r = s
Files == {file \in SUBSET Rows : Parses(file)}

(* verify_mapping_accounts: the accounts are there, of the right kind and  *)
(* active.                                                                 *)
Verified(file) ==
    \A r \in file : r[2] # NoLink => SameKind(r[1], r[2]) /\ r[2] \notin closed

(* An account of the file is linked to an id the file does not mention.    *)
Conflicts(file) ==
    \E r \in file, x \in IamIds \ Ids(file) : r[2] # NoLink /\ links[x] = r[2]

(* Unlinks first, so a uuid can move from one id to another in one file.   *)
Unlinked(ids) == [x \in IamIds |-> IF x \in ids THEN NoLink ELSE links[x]]

(* The upserts of the rows of a file over f.                               *)
Upserted(f, file) ==
    [x \in IamIds |-> IF x \in Ids(file) THEN (CHOOSE r \in file : r[1] = x)[2]
                      ELSE f[x]]
(* Whether the unique index lets every upsert of the statement pass,       *)
(* whatever their order.                                                   *)
IndexAllows(file) ==
    \A some \in SUBSET file : Injective(Upserted(Unlinked(Ids(file)), some))

(* Mutant: rows that have a uuid keep it.                                  *)
RekeyedWhenNull(uuid, x, new) ==
    IF x \in Ids(new) /\ uuid = NoLink THEN (CHOOSE r \in new : r[1] = x)[2] ELSE uuid
(* rekey: the uuid column of a row that holds the id x.                    *)
Rekeyed(uuid, x, new) ==
    IF x \in Ids(new) THEN (CHOOSE r \in new : r[1] = x)[2] ELSE uuid

(* link_identities, past the checks.                                       *)
ApplyMapping(file) ==
    LET of(h) == IF h \in stored THEN Rekeyed(owner[h], IamOwner[h], file) ELSE owner[h]
    IN  /\ Verified(file) /\ ~Conflicts(file)
        /\ IF IndexAllows(file)
           THEN /\ links' = Upserted(Unlinked(Ids(file)), file)
                /\ owner' = [h \in OldHooks |-> of(h)]
                /\ creator' = [h \in OldHooks |->
                       IF h \in stored THEN Rekeyed(creator[h], IamCreator[h], file)
                       ELSE creator[h]]
                /\ history' = {[e EXCEPT !.silicon = of(e.hook)] : e \in history}
                /\ retiredKeys' = {[k EXCEPT !.silicon = Rekeyed(@, k.id, file)] :
                                      k \in retiredKeys}
                /\ intended' = Upserted(intended, file)
                /\ UNCHANGED refusedLate
           ELSE /\ refusedLate' = TRUE
                /\ UNCHANGED <<links, intended, owner, creator, history, retiredKeys>>
        /\ UNCHANGED <<closed, stored>>

----------------------------------------------------------------------------
(* The service.                                                            *)

(* insert_event and insert_blocked_request copy the hook's row; an old     *)
(* hook's URL keeps working while it has no owner.                         *)
LogRequest(h) ==
    /\ h \in stored
    /\ history' = history \cup {[hook |-> h, silicon |-> owner[h]]}
    /\ UNCHANGED <<links, intended, closed, owner, creator, stored, retiredKeys,
                   refusedLate>>

(* rotate_hook_endpoint retires the key under the ids of the locked row.   *)
RetireKey(h) ==
    /\ h \in stored /\ owner[h] # NoLink
    /\ \A k \in retiredKeys : k.hook # h
    /\ retiredKeys' = retiredKeys \cup
          {[id |-> IamOwner[h], hook |-> h, silicon |-> owner[h]]}
    /\ UNCHANGED <<links, intended, closed, owner, creator, stored, history,
                   refusedLate>>

(* The purge takes the hook and its logs; its retired keys stay.           *)
PurgeOldHook(h) ==
    /\ h \in stored
    /\ stored' = stored \ {h}
    /\ history' = {e \in history : e.hook # h}
    /\ UNCHANGED <<links, intended, closed, owner, creator, retiredKeys, refusedLate>>

(* Silicon Accounts deletes an account.                                    *)
CloseAccount(u) ==
    /\ u \notin closed
    /\ closed' = closed \cup {u}
    /\ UNCHANGED <<links, intended, owner, creator, stored, history, retiredKeys,
                   refusedLate>>

LinksNext ==
    \/ \E file \in Files : ApplyMapping(file)
    \/ \E h \in OldHooks : LogRequest(h) \/ RetireKey(h) \/ PurgeOldHook(h)
    \/ \E u \in Uuids : CloseAccount(u)

LinksSpec == LinksInit /\ [][LinksNext]_linksVars

----------------------------------------------------------------------------
(* Properties.                                                             *)

(* Running again with a corrected file overwrites what an earlier one did: *)
(* every row that holds an id carries what the last file said of the id,   *)
(* the rows written between two runs and the keys of purged hooks too.     *)
RowsFollowLastFile ==
    /\ \A h \in stored : owner[h] = intended[IamOwner[h]]
                         /\ creator[h] = intended[IamCreator[h]]
    /\ \A e \in history : e.silicon = intended[IamOwner[e.hook]]
    /\ \A k \in retiredKeys : k.silicon = intended[k.id]

(* "one Silicon Accounts account cannot stand for two IAM identities", and *)
(* the checks see to it: a file that passes them and what the files before *)
(* it left meets the unique index in no order of its upserts, not even     *)
(* when accounts change places.                                            *)
CheckedFileApplies == ~refusedLate

(* Mapping files decide: one that passes the checks applies, and what it   *)
(* says holds of every row.                                                *)
FilesDecide == RowsFollowLastFile /\ CheckedFileApplies
=============================================================================
