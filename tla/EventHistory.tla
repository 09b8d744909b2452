---------------------------- MODULE EventHistory ----------------------------
(***************************************************************************)
(* The two retained logs of a Silicon and their readers                    *)
(* (application/history.rs, domain/cursor.rs, postgres/events.rs,          *)
(* domain/event.rs, domain/request.rs).                                    *)
(*                                                                         *)
(* A request is captured when it is routed and committed later, so rows    *)
(* appear out of the order of their received_at.  A listing is a sequence  *)
(* of pages, newest first, each from a snapshot of its own; the client     *)
(* hands the cursor of one page to the next request, perhaps with another  *)
(* query.  Meanwhile hooks are deleted, restored and purged, rows expire   *)
(* and are purged in batches.                                              *)
(***************************************************************************)
EXTENDS Integers, FiniteSetsExt, SequencesExt

CONSTANTS
    Holders,        \* Silicons
    Receivers,      \* hooks
    AnyHook,        \* no filter
    NoCursor,
    Listers,        \* clients that list
    Limits,         \* the limits clients ask for, invalid ones included
    MaxLimit,       \* MAX_HISTORY_LIMIT
    Weights,        \* estimated_response_bytes of a row
    PageBudget,     \* HISTORY_PAGE_BYTE_BUDGET
    LogRetention,   \* LOG_RETENTION
    HookRecovery,   \* HOOK_RECOVERY_DAYS
    PurgeBatch,     \* rows one maintenance batch removes
    MaxRows,        \* bound: rows ever logged
    MaxPresent      \* bound on the clock

ASSUME HistoryAssumption ==
    /\ AnyHook \notin Receivers
    /\ MaxLimit \in Nat \ {0} /\ Limits \subseteq Nat
    /\ Weights \subseteq Nat /\ PageBudget \in Nat
    /\ LogRetention \in Nat /\ HookRecovery \in Nat /\ PurgeBatch \in Nat \ {0}
    /\ MaxRows \in Nat /\ MaxPresent \in Nat

Collections == {"events", "blocked_requests"}
Live == -1      \* deleted_at of a hook that is not deleted
Purged == -2    \* a hook that has no row any more

VARIABLES
    present,    \* the database's clock
    holder,     \* silicon_uuid of each hook
    deleted,    \* deleted_at of each hook
    named,      \* the ids given so far; UUIDv7, never given again
    captured,   \* requests routed and captured, not yet in a log
    rows,       \* the rows of hook.events and hook.blocked_requests
    listing     \* what each client has of its listing

historyVars == <<present, holder, deleted, named, captured, rows, listing>>

RowIds == 1 .. MaxRows
Scopes == [silicon : Holders, collection : Collections,
           filter : Receivers \cup {AnyHook}]

(* Nothing listed yet.  query, began and seen are history: the query of    *)
(* the last page (at most one), the rows stored when the first page was    *)
(* read, and what the pages have shown, in order.                          *)
NoListing == [cursor |-> NoCursor, query |-> {}, began |-> {}, seen |-> <<>>,
              ended |-> FALSE]

HistoryInit ==
    /\ present = 0
    /\ holder \in [Receivers -> Holders]
    /\ deleted = [h \in Receivers |-> Live]
    /\ named = {}
    /\ captured = {}
    /\ rows = {}
    /\ listing = [l \in Listers |-> NoListing]

----------------------------------------------------------------------------
(* What a query sees.                                                      *)

(* expires_at > now.                                                       *)
Expired(row) == row.at + LogRetention <= present
(* The hook has a row within its recovery time.                            *)
HookKept(h) ==
    \/ deleted[h] = Live
    \/ deleted[h] # Purged /\ deleted[h] >= present - HookRecovery
Kept(row) == ~Expired(row) /\ HookKept(row.hook)

(* EVENT_HISTORY_SQL and BLOCKED_HISTORY_SQL without their cursor.         *)
Shown(row, scope) ==
    /\ row.collection = scope.collection
    /\ holder[row.hook] = scope.silicon
    /\ scope.filter \in {AnyHook, row.hook}
    /\ Kept(row)

(* ORDER BY received_at DESC, id DESC.                                     *)
Newer(a, b) == a.at > b.at \/ (a.at = b.at /\ a.id > b.id)
NewestFirst(S) ==
    [i \in 1 .. Cardinality(S) |->
        CHOOSE r \in S : Cardinality({q \in S : Newer(q, r)}) = i - 1]

(* (received_at, id) < ($3, $4).                                           *)
Beyond(row, cursor) == cursor = NoCursor \/ Newer(cursor, row)

(* The bytes of the first n rows of s.                                     *)
Weight(s, n) == MapThenSumSet(LAMBDA i : s[i].weight, 1 .. n)

(* The first n rows fit one page; one row always does.                     *)
Fits(s, n) == \A m \in 2 .. n : Weight(s, m) <= PageBudget

(* collect_page: how many of the rows s are on a page.                     *)
PageLength(s, limit) ==
    CHOOSE n \in 0 .. Len(s) :
        /\ n <= limit /\ Fits(s, n)
        /\ n < Len(s) => n = limit \/ ~Fits(s, n + 1)

----------------------------------------------------------------------------
(* Cursors.                                                                *)

CursorVersion == 2
(* CursorCodec::encode; genuine stands for the tag.                        *)
Encode(scope, row) ==
    [genuine |-> TRUE, version |-> CursorVersion, scope |-> scope,
     at |-> row.at, id |-> row.id]

Cursors == [genuine : BOOLEAN, version : Nat, scope : Scopes, at : Nat, id : Nat]
ASSUME CursorAssumption == NoCursor \notin Cursors

(* Mutant: the cursor of another query is taken.                           *)
DecodesForAnyScope(scope, c) ==
    c = NoCursor \/ (c.genuine /\ c.version = CursorVersion)
(* CursorCodec::decode: what is not refused.                               *)
Decodes(scope, c) ==
    \/ c = NoCursor
    \/ c.genuine /\ c.version = CursorVersion /\ c.scope = scope

(* Cursors Hook did not issue, or issued before Silicon Accounts.          *)
Foreign(scope) ==
    {[Encode(scope, [at |-> 0, id |-> 1]) EXCEPT !.genuine = FALSE],
     [Encode(scope, [at |-> 0, id |-> 1]) EXCEPT !.version = CursorVersion - 1]}

(* history_request: the limit is checked before the cursor.                *)
AnswersPage(scope, limit, c) == limit \in 1 .. MaxLimit /\ Decodes(scope, c)

(* One page.  A client whose request is refused starts over.               *)
ListRows(l, scope, limit, c) ==
    LET last == listing[l]
        found == NewestFirst({r \in rows : Shown(r, scope) /\ Beyond(r, c)})
        n == PageLength(found, limit)
        more == n < Len(found)
    IN  /\ ~last.ended
        /\ c \in {last.cursor} \cup (IF last.cursor = NoCursor THEN Foreign(scope) ELSE {})
        /\ listing' = [listing EXCEPT ![l] =
              IF AnswersPage(scope, limit, c)
              THEN [cursor |-> IF more /\ n > 0 THEN Encode(scope, found[n]) ELSE NoCursor,
                    query |-> {scope},
                    began |-> IF c = NoCursor THEN rows ELSE last.began,
                    seen |-> last.seen \o SubSeq(found, 1, n),
                    ended |-> ~more \/ n = 0]
              ELSE NoListing]
        /\ UNCHANGED <<present, holder, deleted, named, captured, rows>>

ListAgain(l) ==
    /\ listing[l].ended
    /\ listing' = [listing EXCEPT ![l] = NoListing]
    /\ UNCHANGED <<present, holder, deleted, named, captured, rows>>

----------------------------------------------------------------------------
(* Requests of providers.                                                  *)

(* What becomes a row of either log; received_at is the time of the routing.  *)
Captured(h, id, collection, weight) ==
    [id |-> id, hook |-> h, collection |-> collection, at |-> present, weight |-> weight]
Capture(h, id, collection, weight) ==
    /\ deleted[h] = Live
    /\ id \notin named
    /\ named' = named \cup {id}
    /\ captured' = captured \cup {Captured(h, id, collection, weight)}
    /\ UNCHANGED <<present, holder, deleted, rows, listing>>

(* accept_event and record_blocked_request: the hook is still active.      *)
Receives(h) == deleted[h] = Live

(* The transaction that inserts the row, or finds the hook no longer active.  *)
Log(request) ==
    /\ request \in captured
    /\ captured' = captured \ {request}
    /\ rows' = IF Receives(request.hook) THEN rows \cup {request} ELSE rows
    /\ UNCHANGED <<present, holder, deleted, named, listing>>

(* A handler that is dropped; or a request within the bounds of the capture   *)
(* and over one that the tables check (a path, a query, a method or a content *)
(* type too long), whose transaction fails.                                   *)
DropCapture(request) ==
    /\ request \in captured
    /\ captured' = captured \ {request}
    /\ UNCHANGED <<present, holder, deleted, named, rows, listing>>

----------------------------------------------------------------------------
(* Hooks and maintenance.                                                  *)

RemoveHook(h) ==
    /\ deleted[h] = Live
    /\ deleted' = [deleted EXCEPT ![h] = present]
    /\ UNCHANGED <<present, holder, named, captured, rows, listing>>
BringBack(h) ==
    /\ deleted[h] \notin {Live, Purged} /\ present <= deleted[h] + HookRecovery
    /\ deleted' = [deleted EXCEPT ![h] = Live]
    /\ UNCHANGED <<present, holder, named, captured, rows, listing>>

(* PURGE_EXPIRED_HOOKS_SQL: the logs cascade.                              *)
PurgeHookRow(h) ==
    /\ deleted[h] # Live /\ ~HookKept(h)
    /\ deleted[h] # Purged
    /\ deleted' = [deleted EXCEPT ![h] = Purged]
    /\ rows' = {r \in rows : r.hook # h}
    /\ UNCHANGED <<present, holder, named, captured, listing>>

(* One batch of PURGE_EXPIRED_EVENTS_SQL or PURGE_EXPIRED_BLOCKED_SQL: the *)
(* oldest first.                                                           *)
PurgeRows(collection) ==
    LET expired == {r \in rows : r.collection = collection /\ Expired(r)}
    IN  /\ expired # {}
        /\ rows' = rows \ {r \in expired :
                             Cardinality({q \in expired : Newer(r, q)}) < PurgeBatch}
        /\ UNCHANGED <<present, holder, deleted, named, captured, listing>>

HistoryTick ==
    /\ present < MaxPresent
    /\ present' = present + 1
    /\ UNCHANGED <<holder, deleted, named, captured, rows, listing>>

Ask(l, scope) ==
    \E limit \in Limits, c \in {listing[l].cursor} \cup Foreign(scope) :
        ListRows(l, scope, limit, c)

StoreNext ==
    \/ \E h \in Receivers :
          \/ \E id \in RowIds, collection \in Collections, w \in Weights :
                Capture(h, id, collection, w)
          \/ RemoveHook(h) \/ BringBack(h) \/ PurgeHookRow(h)
    \/ \E request \in captured : Log(request) \/ DropCapture(request)
    \/ \E collection \in Collections : PurgeRows(collection)
    \/ HistoryTick

HistoryNext ==
    \/ \E l \in Listers : ListAgain(l) \/ \E scope \in Scopes : Ask(l, scope)
    \/ StoreNext

HistorySpec == HistoryInit /\ [][HistoryNext]_historyVars

----------------------------------------------------------------------------
(* Properties.                                                             *)

(* The types; a row is never without its hook, although the requests that  *)
(* become rows were routed to it earlier.                                  *)
HistoryTypeOK ==
    /\ present \in 0 .. MaxPresent
    /\ \A h \in Receivers : deleted[h] \in {Live, Purged} \cup 0 .. present
    /\ \A r \in rows : r.at <= present /\ deleted[r.hook] # Purged
    /\ \A r, s \in rows \cup captured : r.id = s.id => r = s

(* A listing followed to its end has shown every row of its query that was *)
(* stored when it began and is still retained: whatever is logged, deleted *)
(* or purged between its pages, and whatever cursor it came with.          *)
ListingComplete ==
    \A l \in Listers : listing[l].ended =>
        \A r \in listing[l].began \cap rows :
            (\E q \in listing[l].query : Shown(r, q)) => r \in ToSet(listing[l].seen)

(* A listing shows each row once, newest first, also where requests commit *)
(* between its pages with the received_at of rows already shown.           *)
SeenInOrder ==
    \A l \in Listers : LET s == listing[l].seen
                       IN  \A i \in 2 .. Len(s) : Newer(s[i - 1], s[i])

(* Followed from page to page, a listing is what it says: all the retained *)
(* rows of its query, each once, in order, and none without its hook.      *)
ListingIsExact == HistoryTypeOK /\ ListingComplete /\ SeenInOrder
=============================================================================
