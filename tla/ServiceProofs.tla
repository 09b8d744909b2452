---------------------------- MODULE ServiceProofs ----------------------------
(***************************************************************************)
(* Five parts of the service, for any number of requests, hooks, accounts  *)
(* and events: a stored signing policy can be used as long as no rotation  *)
(* crossed a change of its encoding, mapping files decide who owns old     *)
(* hooks, a listing that ends has shown what there was to show, a receiver *)
(* saves true outcomes, and the copies of events follow the observers'     *)
(* subscriptions and access.                                               *)
(***************************************************************************)
EXTENDS Receiving, IdentityLinks, SigningPolicies, SiliconAccess, FiniteSetTheorems,
        SequenceTheorems, WellFoundedInduction, TLAPS

----------------------------------------------------------------------------
(* Signing policies.                                                       *)

PolicyRecords ==
    [required : BOOLEAN, algorithm : Algorithms, encoding : Encodings,
     public : Materials \cup {Unset}, secret : SUBSET Encodings]

EditorRecords ==
    {IdleEditor} \cup [phase : {"update"}, policy : PolicyRecords]
    \cup [phase : {"rotate"}, encoding : Encodings, secret : SUBSET Encodings]

\* A policy that requires signatures has key material for them.
Verifies(p) ==
    p.required =>
        IF p.algorithm \in Asymmetric THEN KeyParses(p.algorithm, p.public)
        ELSE p.secret # NoText

\* A secret reads in its policy's encoding, whatever the algorithm: a later
\* change of the algorithm may bring it back into use.
Reads(p) == p.secret # NoText => p.encoding \in p.secret

\* What requests are about to store can be used as well, with the same
\* exception for a rotation that crossed a change of the encoding.
PolicyInv ==
    /\ policy \in PolicyRecords /\ editor \in [Editors -> EditorRecords]
    /\ crossed \in BOOLEAN
    /\ Verifies(policy) /\ (~crossed => Reads(policy))
    /\ \A c \in Editors :
          /\ editor[c].phase = "update" =>
                /\ Verifies(editor[c].policy)
                /\ ~crossed => Reads(editor[c].policy)
          /\ editor[c].phase = "rotate" =>
                editor[c].encoding \in editor[c].secret

\* A generated secret is a secret and reads in the encoding it is for.
LEMMA GeneratedReads ==
    ASSUME NEW e \in Encodings
    PROVE  /\ GeneratedFor(e) \in SUBSET Encodings
           /\ e \in GeneratedFor(e) /\ GeneratedFor(e) # NoText
  BY DEF GeneratedFor, Encodings, NoText

\* A resolved patch names a value for every member.
LEMMA Resolved ==
    ASSUME NEW patch \in Patches, NEW base \in PolicyRecords
    PROVE  /\ Resolve(patch, base) \in PolicyRecords
           /\ Resolve(patch, base).secret = patch.secret
  <1>1. patch \in PatchesAllowed
    BY PatchesAssumption
  <1>2. /\ Else(patch.required, base.required) \in BOOLEAN
        /\ Else(patch.algorithm, base.algorithm) \in Algorithms
        /\ Else(patch.encoding, base.encoding) \in Encodings
    BY <1>1 DEF PatchesAllowed, PolicyRecords, Else
  <1>3. (IF patch.public = "clear" THEN Unset ELSE Else(patch.public, base.public))
            \in Materials \cup {Unset}
    BY <1>1 DEF PatchesAllowed, PolicyRecords, Else
  <1>4. patch.secret \in SUBSET Encodings
    BY <1>1 DEF PatchesAllowed, SuppliedSecrets, NoText
  <1>5. QED
    BY <1>2, <1>3, <1>4 DEF Resolve, PolicyRecords

\* signing_policy: what a patch becomes over a policy that can be used can be
\* used, even where the base's own secret does not count for its algorithm.
LEMMA PatchedVerifies ==
    ASSUME NEW base \in PolicyRecords, NEW patch \in Patches,
           NEW p \in PoliciesOf(Resolve(patch, base), base)
    PROVE  p \in PolicyRecords /\ Verifies(p) /\ (Reads(base) => Reads(p))
  <1>1. PICK input : input = Resolve(patch, base)
    OBVIOUS
  <1>2. input \in PolicyRecords
    BY <1>1, Resolved
  <1>3. PICK s : /\ p = [input EXCEPT !.secret = s]
                 /\ ValidInput(input)
                 /\ \/ input.algorithm \in Asymmetric /\ s = NoText
                    \/ /\ input.algorithm \notin Asymmetric
                       /\ input.secret # NoText /\ s = input.secret
                    \/ /\ input.algorithm \notin Asymmetric /\ input.secret = NoText
                       /\ Retains(input, base) /\ Present(input, base) /\ s = base.secret
    BY <1>1 DEF PoliciesOf
  <1>4. s \in SUBSET Encodings
    BY <1>2, <1>3 DEF PolicyRecords, NoText
  <1>5. /\ p \in PolicyRecords /\ p.secret = s /\ p.required = input.required
        /\ p.algorithm = input.algorithm /\ p.public = input.public
        /\ p.encoding = input.encoding
    BY <1>2, <1>3, <1>4 DEF PolicyRecords
  <1>6. Verifies(p)
    BY <1>3, <1>5 DEF Verifies, ValidInput, Present
  <1>7. Reads(base) => Reads(p)
    BY <1>3, <1>5 DEF Reads, ValidInput, Retains
  <1>8. QED
    BY <1>5, <1>6, <1>7

LEMMA PolicyInitially ==
    ASSUME PolicyInit
    PROVE  PolicyInv
  <1>1. PICK r \in BOOLEAN, e \in Encodings :
            policy = [required |-> r, algorithm |-> "HMAC", encoding |-> e,
                      public |-> Unset, secret |-> GeneratedFor(e)]
    BY DEF PolicyInit, NewPolicies
  <1>2. policy \in PolicyRecords
    BY <1>1, GeneratedReads DEF PolicyRecords, Algorithms
  <1>3. Verifies(policy) /\ Reads(policy)
    BY <1>1, GeneratedReads DEF Verifies, Reads, Asymmetric
  <1>4. QED
    BY <1>2, <1>3 DEF PolicyInit, PolicyInv, EditorRecords, IdleEditor

LEMMA PolicyKept ==
    ASSUME PolicyInv, [PolicyNext]_policyVars
    PROVE  PolicyInv'
  <1>1. ASSUME NEW c \in Editors, NEW patch \in Patches, PrepareUpdate(c, patch)
        PROVE  PolicyInv'
    <2>1. PICK p \in PoliciesOf(Resolve(patch, policy), policy) :
              editor' = [editor EXCEPT ![c] = [phase |-> "update", policy |-> p]]
      BY <1>1 DEF PrepareUpdate
    <2>2. p \in PolicyRecords /\ Verifies(p) /\ (Reads(policy) => Reads(p))
      BY <2>1, PatchedVerifies DEF PolicyInv
    <2>3. policy' = policy /\ crossed' = crossed
      BY <1>1 DEF PrepareUpdate
    <2>4. PICK q : q = [phase |-> "update", policy |-> p]
      OBVIOUS
    <2>5. q \in EditorRecords /\ q.phase = "update" /\ q.policy = p
      BY <2>2, <2>4 DEF EditorRecords
    <2>6. editor' \in [Editors -> EditorRecords]
          /\ \A d \in Editors : editor'[d] = IF d = c THEN q ELSE editor[d]
      BY <2>1, <2>4, <2>5 DEF PolicyInv
    <2> QED
      BY <2>2, <2>3, <2>5, <2>6 DEF PolicyInv, Verifies, Reads
  <1>2. ASSUME NEW c \in Editors, PrepareRotation(c)
        PROVE  PolicyInv'
    <2>1. PICK q : q = [phase |-> "rotate", encoding |-> policy.encoding,
                        secret |-> GeneratedFor(policy.encoding)]
      OBVIOUS
    <2>2. policy.encoding \in Encodings
      BY DEF PolicyInv, PolicyRecords
    <2>3. q \in EditorRecords /\ q.phase = "rotate" /\ q.encoding \in q.secret
      BY <2>1, <2>2, GeneratedReads DEF EditorRecords
    <2>4. editor' = [editor EXCEPT ![c] = q] /\ policy' = policy /\ crossed' = crossed
      BY <1>2, <2>1 DEF PrepareRotation
    <2> QED
      BY <2>3, <2>4 DEF PolicyInv, Verifies, Reads
  <1>3. ASSUME NEW c \in Editors, StoreUpdate(c)
        PROVE  PolicyInv'
    <2>1. editor[c].phase = "update" /\ policy' = editor[c].policy /\ crossed' = crossed
      BY <1>3 DEF StoreUpdate
    <2>2. policy' \in PolicyRecords
      BY <2>1 DEF PolicyInv, EditorRecords, IdleEditor
    <2>3. Verifies(policy') /\ (~crossed' => Reads(policy'))
      BY <2>1 DEF PolicyInv
    <2>4. editor' = [editor EXCEPT ![c] = IdleEditor]
      BY <1>3 DEF StoreUpdate
    <2>5. IdleEditor \in EditorRecords /\ IdleEditor.phase = "idle"
      BY DEF EditorRecords, IdleEditor
    <2> QED
      BY <2>1, <2>2, <2>3, <2>4, <2>5 DEF PolicyInv, Verifies, Reads
  <1>4. ASSUME NEW c \in Editors, StoreRotation(c)
        PROVE  PolicyInv'
    <2>1. /\ editor[c].phase = "rotate"
          /\ policy' = [policy EXCEPT !.secret = editor[c].secret]
          /\ editor' = [editor EXCEPT ![c] = IdleEditor]
          /\ crossed' = (crossed \/ policy.encoding # editor[c].encoding)
      BY <1>4 DEF StoreRotation
    <2>2. /\ editor[c].secret \in SUBSET Encodings /\ editor[c].encoding \in editor[c].secret
      BY <2>1 DEF PolicyInv, EditorRecords, IdleEditor
    <2>3. /\ policy' \in PolicyRecords /\ policy'.secret = editor[c].secret
          /\ policy'.required = policy.required /\ policy'.algorithm = policy.algorithm
          /\ policy'.public = policy.public /\ policy'.encoding = policy.encoding
      BY <2>1, <2>2 DEF PolicyInv, PolicyRecords
    <2>4. Verifies(policy')
      BY <2>2, <2>3 DEF PolicyInv, Verifies, NoText
    <2>5. ~crossed' => Reads(policy')
      BY <2>1, <2>2, <2>3 DEF Reads
    <2>6. IdleEditor \in EditorRecords /\ IdleEditor.phase = "idle"
      BY DEF EditorRecords, IdleEditor
    <2>7. crossed' \in BOOLEAN /\ (~crossed' => ~crossed)
      BY <2>1
    <2> QED
      BY <2>1, <2>3, <2>4, <2>5, <2>6, <2>7 DEF PolicyInv, Verifies, Reads
  <1>5. ASSUME NEW c \in Editors, Abandon(c)
        PROVE  PolicyInv'
    <2>1. IdleEditor \in EditorRecords /\ IdleEditor.phase = "idle"
      BY DEF EditorRecords, IdleEditor
    <2>2. /\ editor' = [editor EXCEPT ![c] = IdleEditor]
          /\ policy' = policy /\ crossed' = crossed
      BY <1>5 DEF Abandon
    <2> QED
      BY <2>1, <2>2 DEF PolicyInv, Verifies, Reads
  <1>6. CASE UNCHANGED policyVars
    BY <1>6 DEF policyVars, PolicyInv, Verifies, Reads
  <1>7. QED
    BY <1>1, <1>2, <1>3, <1>4, <1>5, <1>6 DEF PolicyNext

\* The inductive invariant holds throughout every behaviour.
THEOREM PolicyInvariance == PolicySpec => []PolicyInv
  BY PolicyInitially, PolicyKept, PTL DEF PolicySpec

\* A hook that requires signatures has key material, and can verify with it as
\* long as no rotation crossed a change of the encoding, whatever else updates
\* and rotations store of what they resolved from the policy they read
\* (signing_policy, update_hook, rotate_hook_secret).  After a crossing it may
\* not: RequiredCanVerify is refuted.
THEOREM StoredPoliciesAreUsable == PolicySpec => []PolicyIsUsable
  <1>1. PolicyInv => RequiredHasMaterial
    BY DEF PolicyInv, RequiredHasMaterial, Verifies
  <1>2. PolicyInv => VerifiesUnlessCrossed
    BY DEF PolicyInv, VerifiesUnlessCrossed, RequiredCanVerify, CanVerify, Verifies, Reads
  <1>3. PolicyInv => StoredSecretReads
    BY DEF PolicyInv, StoredSecretReads, Reads
  <1>4. QED
    BY <1>1, <1>2, <1>3, PolicyInvariance, PTL DEF PolicyIsUsable

----------------------------------------------------------------------------
(* The linking of former identities.                                       *)

\* What the database holds carries what the files said, and no two ids stand
\* for one account.
LinksInv ==
    /\ links \in [IamIds -> Uuids \cup {NoLink}] /\ Injective(links)
    /\ intended = links
    /\ stored \subseteq OldHooks
    /\ owner \in [OldHooks -> Uuids \cup {NoLink}]
    /\ creator \in [OldHooks -> Uuids \cup {NoLink}]
    /\ history \subseteq [hook : OldHooks, silicon : Uuids \cup {NoLink}]
    /\ \A e \in history : e.hook \in stored
    /\ retiredKeys \subseteq [id : IamIds, hook : OldHooks, silicon : Uuids \cup {NoLink}]
    /\ FilesDecide

\* A file's upserts write what it says; it says one thing of an id.
LEMMA UpsertedSays ==
    ASSUME NEW file \in Files, NEW f \in [IamIds -> Uuids \cup {NoLink}],
           NEW some \in SUBSET file
    PROVE  /\ Upserted(f, some) \in [IamIds -> Uuids \cup {NoLink}]
           /\ \A r \in some : r[1] \in IamIds /\ Upserted(f, some)[r[1]] = r[2]
           /\ \A x \in IamIds \ Ids(some) : Upserted(f, some)[x] = f[x]
           /\ \A x \in Ids(some) : \E r \in some : r[1] = x
  <1>1. some \subseteq IamIds \X (Uuids \cup {NoLink}) /\ Parses(file)
    BY DEF Files, Rows
  <1>2. ASSUME NEW r \in some
        PROVE  /\ r[1] \in IamIds /\ r[2] \in Uuids \cup {NoLink} /\ r[1] \in Ids(some)
               /\ (CHOOSE s \in some : s[1] = r[1]) = r
    <2>1. \A s \in some : s[1] = r[1] => s = r
      BY <1>1, <1>2 DEF Parses
    <2>2. (CHOOSE s \in some : s[1] = r[1]) \in some
          /\ (CHOOSE s \in some : s[1] = r[1])[1] = r[1]
      BY <1>2
    <2> QED
      BY <1>1, <1>2, <2>1, <2>2 DEF Ids
  <1>3. \A x \in Ids(some) : \E r \in some : r[1] = x
    BY DEF Ids
  <1>4. ASSUME NEW x \in IamIds
        PROVE  Upserted(f, some)[x] \in Uuids \cup {NoLink}
    <2>1. CASE x \in Ids(some)
      BY <1>2, <1>3, <2>1 DEF Upserted
    <2>2. CASE x \notin Ids(some)
      BY <2>2 DEF Upserted
    <2> QED
      BY <2>1, <2>2
  <1>5. QED
    BY <1>2, <1>3, <1>4 DEF Upserted

\* The unique index allows the upserts of a checked file, in any order.
LEMMA IndexAllowsChecked ==
    ASSUME LinksInv, NEW file \in Files, ~Conflicts(file)
    PROVE  IndexAllows(file)
  <1>1. PICK f : f = Unlinked(Ids(file))
    OBVIOUS
  <1>2. f \in [IamIds -> Uuids \cup {NoLink}]
    BY <1>1 DEF Unlinked, LinksInv
  <1>3. ASSUME NEW some \in SUBSET file, NEW x \in IamIds, NEW y \in IamIds,
               Upserted(f, some)[x] = Upserted(f, some)[y], Upserted(f, some)[x] # NoLink
        PROVE  x = y
    <2>1. /\ \A r \in some : r[1] \in IamIds /\ Upserted(f, some)[r[1]] = r[2]
          /\ \A z \in IamIds \ Ids(some) : Upserted(f, some)[z] = f[z]
          /\ \A z \in Ids(some) : \E r \in some : r[1] = z
      BY <1>2, UpsertedSays
    <2>2. ASSUME NEW z \in IamIds \ Ids(some), f[z] # NoLink
          PROVE  z \notin Ids(file) /\ f[z] = links[z]
      BY <1>1, <2>2 DEF Unlinked
    <2>3. CASE x \in Ids(some) /\ y \in Ids(some)
      <3>1. PICK r \in some, s \in some : r[1] = x /\ s[1] = y
        BY <2>1, <2>3
      <3>2. r[2] = s[2] /\ r[2] # NoLink
        BY <1>3, <2>1, <3>1
      <3>3. r = s
        BY <3>1, <3>2 DEF Files, Parses
      <3> QED
        BY <3>1, <3>3
    <2>4. CASE x \in Ids(some) /\ y \notin Ids(some)
      <3>1. PICK r \in some : r[1] = x
        BY <2>1, <2>4
      <3>2. r[2] # NoLink /\ links[y] = r[2] /\ y \notin Ids(file)
        BY <1>3, <2>1, <2>2, <2>4, <3>1
      <3> QED
        BY <3>2 DEF Conflicts
    <2>5. CASE x \notin Ids(some) /\ y \in Ids(some)
      <3>1. PICK r \in some : r[1] = y
        BY <2>1, <2>5
      <3>2. r[2] # NoLink /\ links[x] = r[2] /\ x \notin Ids(file)
        BY <1>3, <2>1, <2>2, <2>5, <3>1
      <3> QED
        BY <3>2 DEF Conflicts
    <2>6. CASE x \notin Ids(some) /\ y \notin Ids(some)
      <3>1. links[x] = links[y] /\ links[x] # NoLink
        BY <1>3, <2>1, <2>2, <2>6
      <3> QED
        BY <3>1 DEF LinksInv, Injective
    <2> QED
      BY <2>3, <2>4, <2>5, <2>6
  <1>4. \A some \in SUBSET file : DOMAIN Upserted(f, some) = IamIds
    BY DEF Upserted
  <1>5. QED
    BY <1>1, <1>3, <1>4 DEF IndexAllows, Injective

LEMMA LinksInitially ==
    ASSUME LinksInit
    PROVE  LinksInv
  <1>1. \A e \in history : \E h \in OldHooks : e = [hook |-> h, silicon |-> NoLink]
    BY DEF LinksInit
  <1>2. QED
    BY <1>1, LinksAssumption DEF LinksInit, LinksInv, Injective, FilesDecide,
        RowsFollowLastFile, CheckedFileApplies

\* link_identities: a run with a file that passes the checks applies it.
LEMMA ApplyStep ==
    ASSUME LinksInv, NEW file \in Files, ApplyMapping(file)
    PROVE  LinksInv'
  <1>a. PICK of : /\ \A h \in OldHooks : of[h] =
                        IF h \in stored THEN Rekeyed(owner[h], IamOwner[h], file) ELSE owner[h]
                  /\ of = [h \in OldHooks |->
                        IF h \in stored THEN Rekeyed(owner[h], IamOwner[h], file) ELSE owner[h]]
    OBVIOUS
  <1>1. IndexAllows(file)
    BY IndexAllowsChecked DEF ApplyMapping
  <1>2. /\ links' = Upserted(Unlinked(Ids(file)), file)
        /\ intended' = Upserted(intended, file)
        /\ owner' = of
        /\ creator' = [h \in OldHooks |->
              IF h \in stored THEN Rekeyed(creator[h], IamCreator[h], file) ELSE creator[h]]
        /\ history' = {[e EXCEPT !.silicon =
              IF e.hook \in stored THEN Rekeyed(owner[e.hook], IamOwner[e.hook], file)
              ELSE owner[e.hook]] : e \in history}
        /\ retiredKeys' = {[k EXCEPT !.silicon = Rekeyed(k.silicon, k.id, file)] : k \in retiredKeys}
        /\ UNCHANGED <<stored, refusedLate>>
    BY <1>1, <1>a DEF ApplyMapping
  <1>3. links \in [IamIds -> Uuids \cup {NoLink}] /\ intended = links
        /\ Unlinked(Ids(file)) \in [IamIds -> Uuids \cup {NoLink}]
    BY DEF LinksInv, Unlinked
  <1>4. links' \in [IamIds -> Uuids \cup {NoLink}] /\ intended' = links' /\ Injective(links')
    <2>1. file \in SUBSET file
      OBVIOUS
    <2>2. links' \in [IamIds -> Uuids \cup {NoLink}]
      BY <1>2, <1>3, <2>1, UpsertedSays
    <2>3. Injective(links')
      BY <1>1, <1>2, <2>1 DEF IndexAllows
    <2>4. intended' = links'
      BY <1>2, <1>3 DEF Upserted, Unlinked
    <2> QED
      BY <2>2, <2>3, <2>4
  <1>5. ASSUME NEW x \in IamIds, NEW uuid, uuid = intended[x]
        PROVE  Rekeyed(uuid, x, file) = intended'[x] /\ intended'[x] \in Uuids \cup {NoLink}
    BY <1>2, <1>4, <1>5 DEF Rekeyed, Upserted
  <1>6. \A h \in OldHooks : IamOwner[h] \in IamIds /\ IamCreator[h] \in IamIds
    BY LinksAssumption
  <1>7. /\ \A h \in stored : owner[h] = intended[IamOwner[h]]
                             /\ creator[h] = intended[IamCreator[h]]
        /\ \A e \in history : e.silicon = intended[IamOwner[e.hook]]
        /\ \A k \in retiredKeys : k.silicon = intended[k.id]
        /\ stored \subseteq OldHooks
    BY DEF LinksInv, FilesDecide, RowsFollowLastFile
  <1>8. \A h \in stored : owner'[h] = intended'[IamOwner[h]]
                          /\ creator'[h] = intended'[IamCreator[h]]
    BY <1>2, <1>5, <1>6, <1>7, <1>a
  <1>9. /\ owner' \in [OldHooks -> Uuids \cup {NoLink}]
        /\ creator' \in [OldHooks -> Uuids \cup {NoLink}]
    <2>1. ASSUME NEW h \in OldHooks
          PROVE  /\ owner'[h] \in Uuids \cup {NoLink} /\ creator'[h] \in Uuids \cup {NoLink}
      <3>1. CASE h \in stored
        BY <1>2, <1>5, <1>6, <1>7, <1>a, <3>1
      <3>2. CASE h \notin stored
        BY <1>2, <1>a, <3>2 DEF LinksInv
      <3> QED
        BY <3>1, <3>2
    <2> QED
      BY <1>2, <1>a, <2>1
  <1>10. ASSUME NEW e \in history'
         PROVE  /\ e \in [hook : OldHooks, silicon : Uuids \cup {NoLink}]
                /\ e.hook \in stored' /\ e.silicon = intended'[IamOwner[e.hook]]
    <2>1. PICK old \in history : e = [old EXCEPT !.silicon =
              IF old.hook \in stored THEN Rekeyed(owner[old.hook], IamOwner[old.hook], file)
              ELSE owner[old.hook]]
      BY <1>2
    <2>2. old \in [hook : OldHooks, silicon : Uuids \cup {NoLink}] /\ old.hook \in stored
      BY DEF LinksInv
    <2>3. e = [old EXCEPT !.silicon = intended'[IamOwner[old.hook]]]
          /\ intended'[IamOwner[old.hook]] \in Uuids \cup {NoLink}
      BY <1>5, <1>6, <1>7, <2>1, <2>2
    <2> QED
      BY <1>2, <2>2, <2>3
  <1>11. ASSUME NEW k \in retiredKeys'
         PROVE  /\ k \in [id : IamIds, hook : OldHooks, silicon : Uuids \cup {NoLink}]
                /\ k.silicon = intended'[k.id]
    <2>1. PICK old \in retiredKeys :
              k = [old EXCEPT !.silicon = Rekeyed(old.silicon, old.id, file)]
      BY <1>2
    <2>2. old \in [id : IamIds, hook : OldHooks, silicon : Uuids \cup {NoLink}]
      BY DEF LinksInv
    <2>3. Rekeyed(old.silicon, old.id, file) = intended'[old.id]
          /\ intended'[old.id] \in Uuids \cup {NoLink}
      BY <1>5, <1>7, <2>2
    <2> QED
      BY <2>1, <2>2, <2>3
  <1>12. stored' \subseteq OldHooks /\ refusedLate' = FALSE
    BY <1>2 DEF LinksInv, FilesDecide, CheckedFileApplies
  <1>13. FilesDecide'
    BY <1>2, <1>8, <1>10, <1>11, <1>12 DEF FilesDecide, RowsFollowLastFile, CheckedFileApplies
  <1>14. QED
    BY <1>4, <1>9, <1>10, <1>11, <1>12, <1>13 DEF LinksInv, Injective

LEMMA LinksKept ==
    ASSUME LinksInv, [LinksNext]_linksVars
    PROVE  LinksInv'
  <1>1. ASSUME NEW h \in OldHooks, LogRequest(h)
        PROVE  LinksInv'
    <2>1. PICK e : /\ e = [hook |-> h, silicon |-> owner[h]]
                   /\ history' = history \cup {e}
      BY <1>1 DEF LogRequest
    <2>2. /\ e \in [hook : OldHooks, silicon : Uuids \cup {NoLink}] /\ e.hook = h /\ h \in stored
          /\ e.silicon = intended[IamOwner[e.hook]]
      BY <1>1, <2>1 DEF LogRequest, LinksInv, FilesDecide, RowsFollowLastFile
    <2>3. UNCHANGED <<links, intended, closed, owner, creator, stored, retiredKeys, refusedLate>>
      BY <1>1 DEF LogRequest
    <2> QED
      BY <2>1, <2>2, <2>3 DEF LinksInv, FilesDecide, RowsFollowLastFile, CheckedFileApplies, Injective
  <1>2. ASSUME NEW h \in OldHooks, RetireKey(h)
        PROVE  LinksInv'
    <2>1. PICK k : /\ k = [id |-> IamOwner[h], hook |-> h, silicon |-> owner[h]]
                   /\ retiredKeys' = retiredKeys \cup {k}
      BY <1>2 DEF RetireKey
    <2>2. /\ k \in [id : IamIds, hook : OldHooks, silicon : Uuids \cup {NoLink}]
          /\ k.silicon = intended[k.id]
      <3>1. IamOwner[h] \in IamIds /\ owner[h] = intended[IamOwner[h]]
            /\ owner[h] \in Uuids \cup {NoLink}
        BY <1>2, LinksAssumption DEF RetireKey, LinksInv, FilesDecide, RowsFollowLastFile
      <3> QED
        BY <2>1, <3>1
    <2>3. UNCHANGED <<links, intended, closed, owner, creator, stored, history, refusedLate>>
      BY <1>2 DEF RetireKey
    <2> QED
      BY <2>1, <2>2, <2>3 DEF LinksInv, FilesDecide, RowsFollowLastFile, CheckedFileApplies, Injective
  <1>3. ASSUME NEW h \in OldHooks, PurgeOldHook(h)
        PROVE  LinksInv'
    BY <1>3 DEF PurgeOldHook, LinksInv, FilesDecide, RowsFollowLastFile, CheckedFileApplies, Injective
  <1>4. ASSUME NEW u \in Uuids, CloseAccount(u)
        PROVE  LinksInv'
    BY <1>4 DEF CloseAccount, LinksInv, FilesDecide, RowsFollowLastFile, CheckedFileApplies, Injective
  <1>5. CASE UNCHANGED linksVars
    BY <1>5 DEF linksVars, LinksInv, FilesDecide, RowsFollowLastFile, CheckedFileApplies, Injective
  <1>6. QED
    BY <1>1, <1>2, <1>3, <1>4, <1>5, ApplyStep DEF LinksNext

\* The inductive invariant holds throughout every behaviour.
THEOREM LinksInvariance == LinksSpec => []LinksInv
  BY LinksInitially, LinksKept, PTL DEF LinksSpec

\* A mapping file that passes its checks applies in any order of its rows,
\* and what the last file said holds of every row, those written between two
\* runs and the keys of purged hooks too (link_identities, rekey).
THEOREM LastFileDecides == LinksSpec => []FilesDecide
  <1>1. LinksInv => FilesDecide
    BY DEF LinksInv
  <1>2. QED
    BY <1>1, LinksInvariance, PTL

----------------------------------------------------------------------------
(* Histories.                                                              *)

RowRecords ==
    [id : RowIds, hook : Receivers, collection : Collections, at : Nat, weight : Weights]
ListingRecords ==
    [cursor : Cursors \cup {NoCursor}, query : SUBSET Scopes, began : SUBSET RowRecords,
     seen : Seq(RowRecords), ended : BOOLEAN]

LogsTyped ==
    /\ present \in Nat /\ deleted \in [Receivers -> Int]
    /\ \A h \in Receivers : deleted[h] \in {Live, Purged} \cup Nat
    /\ captured \cap rows = {}

\* A row was captured before now, under an id that is not given again.
LogsInv ==
    /\ LogsTyped /\ HistoryTypeOK /\ holder \in [Receivers -> Holders]
    /\ IsFiniteSet(rows)
    /\ \A r \in rows \cup captured : r \in RowRecords /\ r.id \in named /\ r.at <= present

\* A listing under way goes on after the last row it has shown, with its query.
Continues(L) ==
    /\ L.cursor = NoCursor /\ ~L.ended => L.seen = <<>>
    /\ L.cursor # NoCursor =>
          /\ ~L.ended /\ L.seen # <<>>
          /\ \E scope \in Scopes : /\ L.query = {scope}
                                   /\ L.cursor = Encode(scope, L.seen[Len(L.seen)])

\* What it has still to show of the rows stored when it began comes after that.
NothingSkipped(L) ==
    \A r \in L.began \cap rows, q \in L.query :
        Shown(r, q) => r \in ToSet(L.seen) \/ (L.cursor # NoCursor /\ Beyond(r, L.cursor))

InOrder(L) == \A i \in 2 .. Len(L.seen) : Newer(L.seen[i - 1], L.seen[i])

\* The rows stored when it began are none that may still be logged.
BeganBefore(L) == \A r \in L.began : r.id \in named /\ r \notin captured

ListingFits(L) ==
    L \in ListingRecords /\ Continues(L) /\ NothingSkipped(L) /\ InOrder(L) /\ BeganBefore(L)

HistoryInv ==
    /\ LogsInv
    /\ listing \in [Listers -> ListingRecords]
    /\ \A l \in Listers : ListingFits(listing[l])

\* A set of numbers that is not empty has a least one.
LEMMA LeastOf ==
    ASSUME NEW T \in SUBSET Nat, T # {}
    PROVE  \E n \in T : \A m \in T : n <= m
  <1> DEFINE Below == {1 .. n : n \in T}
  <1>1. Below \subseteq FiniteSubsetsOf(Nat) /\ Below # {}
    <2>1. \A n \in T : 1 .. n \in SUBSET Nat /\ IsFiniteSet(1 .. n)
      BY FS_Interval
    <2>2. QED
      BY <2>1 DEF FiniteSubsetsOf
  <1>2. PICK low \in Below : \A b \in Below : <<b, low>> \notin StrictSubsetOrdering(Nat)
    <2> HIDE DEF Below
    <2>1. QED
      BY <1>1, FS_StrictSubsetOrderingWellFounded, WFMin
  <1>3. PICK n \in T : low = 1 .. n
    BY <1>2
  <1>4. ASSUME NEW m \in T PROVE n <= m
    <2>1. <<1 .. m, 1 .. n>> \notin StrictSubsetOrdering(Nat)
      BY <1>2, <1>3
    <2>2. ~(1 .. m \subseteq 1 .. n) \/ 1 .. m = 1 .. n
      BY <2>1 DEF StrictSubsetOrdering
    <2>3. m < n => n \notin 1 .. m /\ n \in 1 .. n /\ 1 .. m \subseteq 1 .. n
      OBVIOUS
    <2>4. QED
      BY <2>2, <2>3
  <1>5. QED
    BY <1>4

\* ORDER BY is a strict order, and total on rows with ids of their own.
LEMMA NewerOrders ==
    ASSUME NEW a \in RowRecords, NEW b \in RowRecords, NEW c \in RowRecords
    PROVE  /\ ~Newer(a, a)
           /\ Newer(a, b) /\ Newer(b, c) => Newer(a, c)
           /\ a.id # b.id => Newer(a, b) \/ Newer(b, a)
  BY DEF Newer, RowRecords, RowIds

\* NewestFirst: a finite set of rows with ids of their own has all its rows in
\* the sequence, each at its place.
LEMMA NewestFirstSorts ==
    ASSUME NEW S \in SUBSET RowRecords, IsFiniteSet(S),
           \A a, b \in S : a.id = b.id => a = b
    PROVE  LET n == Cardinality(S)
               s == NewestFirst(S)
           IN  /\ n \in Nat /\ s \in [1 .. n -> S]
               /\ \A r \in S : \E i \in 1 .. n : s[i] = r
               /\ \A i, j \in 1 .. n : i < j => Newer(s[i], s[j])
  <1> DEFINE n == Cardinality(S)
             Before(r) == {q \in S : Newer(q, r)}
             rank == [r \in S |-> Cardinality(Before(r)) + 1]
  <1>1. n \in Nat
    BY FS_CardinalityType
  <1>2. ASSUME NEW r \in S PROVE IsFiniteSet(Before(r)) /\ Cardinality(Before(r)) \in 0 .. n - 1
    <2>1. Before(r) \in SUBSET (S \ {r})
      BY NewerOrders
    <2>2. IsFiniteSet(S \ {r}) /\ Cardinality(S \ {r}) = n - 1
      BY FS_RemoveElement
    <2>3. IsFiniteSet(Before(r)) /\ Cardinality(Before(r)) <= n - 1
      BY <2>1, <2>2, FS_Subset
    <2>4. QED
      BY <1>1, <2>3, FS_CardinalityType
  <1>3. ASSUME NEW a \in S, NEW b \in S, Newer(a, b)
        PROVE  Cardinality(Before(a)) < Cardinality(Before(b))
    <2>1. Before(a) \cup {a} \in SUBSET Before(b) /\ a \notin Before(a)
      BY <1>3, NewerOrders
    <2>2. Cardinality(Before(a) \cup {a}) = Cardinality(Before(a)) + 1
      BY <1>2, <2>1, FS_AddElement
    <2> HIDE DEF Before
    <2>3. Cardinality(Before(a) \cup {a}) <= Cardinality(Before(b))
      BY <1>2, <2>1, FS_Subset
    <2>4. Cardinality(Before(a)) \in Nat /\ Cardinality(Before(b)) \in Nat
      BY <1>1, <1>2
    <2>5. QED
      BY <2>2, <2>3, <2>4
  <1> HIDE DEF Before
  <1>4. rank \in [S -> 1 .. n]
    BY <1>1, <1>2
  <1>5. \A a, b \in S : Cardinality(Before(a)) = Cardinality(Before(b)) => a = b
    <2>1. \A a, b \in S : a # b => Newer(a, b) \/ Newer(b, a)
      BY NewerOrders
    <2>2. \A a \in S : Cardinality(Before(a)) \in Nat
      BY <1>1, <1>2
    <2>3. QED
      BY <1>3, <2>1, <2>2
  <1>6. rank \in Surjection(S, 1 .. n)
    <2>1. rank \in Injection(S, 1 .. n)
      BY <1>1, <1>2, <1>4, <1>5 DEF Injection, IsInjective
    <2>2. IsFiniteSet(1 .. n) /\ Cardinality(1 .. n) = n
      BY <1>1, FS_Interval
    <2>3. QED
      BY <2>1, <2>2, FS_Injection
  <1>7. \A i \in 1 .. n : \E r \in S : Cardinality(Before(r)) = i - 1
    <2>1. \A i \in 1 .. n : \E r \in S : rank[r] = i
      BY <1>6 DEF Surjection
    <2>2. QED
      BY <1>1, <1>2, <2>1
  <1> DEFINE s == NewestFirst(S)
  <1>8. s = [i \in 1 .. n |-> CHOOSE r \in S : Cardinality(Before(r)) = i - 1]
    BY DEF NewestFirst, Before
  <1>9. ASSUME NEW i \in 1 .. n PROVE s[i] \in S /\ Cardinality(Before(s[i])) = i - 1
    BY <1>7, <1>8
  <1> HIDE DEF s
  <1>10. s \in [1 .. n -> S]
    <2>1. s = [i \in 1 .. n |-> s[i]]
      BY <1>8
    <2>2. QED
      BY <1>9, <2>1
  <1>11. \A r \in S : \E i \in 1 .. n : s[i] = r
    <2> SUFFICES ASSUME NEW r \in S PROVE \E i \in 1 .. n : s[i] = r
      OBVIOUS
    <2>1. Cardinality(Before(r)) + 1 \in 1 .. n
      BY <1>1, <1>2
    <2>2. s[Cardinality(Before(r)) + 1] = r
      BY <1>1, <1>2, <1>5, <1>9, <2>1
    <2>3. QED
      BY <2>1, <2>2
  <1>12. ASSUME NEW i \in 1 .. n, NEW j \in 1 .. n, i < j PROVE Newer(s[i], s[j])
    <2>1. s[i].id # s[j].id
      BY <1>1, <1>9, <1>12
    <2>2. ~Newer(s[j], s[i])
      BY <1>1, <1>3, <1>9, <1>12
    <2>3. QED
      BY <1>9, <2>1, <2>2, NewerOrders
  <1>13. QED
    BY <1>1, <1>10, <1>11, <1>12 DEF s

\* collect_page: a page is empty only if nothing is left.
LEMMA PageLengthIs ==
    ASSUME NEW s, Len(s) \in Nat, NEW limit \in Nat \ {0}
    PROVE  /\ PageLength(s, limit) \in 0 .. Len(s)
           /\ PageLength(s, limit) = 0 => Len(s) = 0
  <1> DEFINE Stops == {n \in 0 .. Len(s) : n = limit \/ n = Len(s) \/ ~Fits(s, n + 1)}
             Is(n) == /\ n <= limit /\ Fits(s, n)
                      /\ n < Len(s) => n = limit \/ ~Fits(s, n + 1)
  <1>1. Fits(s, 0) /\ Fits(s, 1)
    BY DEF Fits
  <1>2. PICK n \in Stops : \A m \in Stops : n <= m
    <2>1. Stops \in SUBSET Nat /\ Len(s) \in Stops
      OBVIOUS
    <2> HIDE DEF Stops
    <2>2. QED
      BY <2>1, LeastOf
  <1>3. n \in 0 .. Len(s) /\ n <= limit
    <2>1. n \in 0 .. Len(s) /\ \A m \in Stops : n <= m
      BY <1>2
    <2>2. CASE limit <= Len(s)
      <3>1. limit \in Stops
        BY <2>2
      <3>2. QED
        BY <2>1, <3>1
    <2>3. CASE limit > Len(s)
      BY <2>1, <2>3
    <2>4. QED
      BY <2>2, <2>3
  <1>4. Fits(s, n)
    <2>1. CASE n = 0
      BY <1>1, <2>1
    <2>2. CASE n # 0
      <3>1. n - 1 \in 0 .. Len(s) /\ ~(n <= n - 1)
        BY <1>3, <2>2
      <3>2. Fits(s, (n - 1) + 1)
        BY <1>2, <3>1
      <3>3. (n - 1) + 1 = n
        BY <1>2
      <3>4. QED
        BY <3>2, <3>3
    <2>3. QED
      BY <2>1, <2>2
  <1>5. n \in 0 .. Len(s) /\ Is(n)
    BY <1>2, <1>3, <1>4
  <1>6. PageLength(s, limit) = CHOOSE m \in 0 .. Len(s) : Is(m)
    BY DEF PageLength
  <1>7. PageLength(s, limit) \in 0 .. Len(s) /\ Is(PageLength(s, limit))
    <2> HIDE DEF Is
    <2>1. QED
      BY <1>5, <1>6
  <1>8. ~Is(0) \/ Len(s) = 0
    BY <1>1
  <1>9. QED
    BY <1>7, <1>8

\* What a step may do to the logs: time passes; a hook that Hook has forgotten stays
\* so; a row is one before or a captured request; ids are new.
LEMMA HistoryMoves ==
    ASSUME LogsTyped, HistoryNext
    PROVE  /\ present' \in Nat /\ present' >= present
           /\ deleted' \in [Receivers -> Int]
           /\ \A h \in Receivers : deleted'[h] \in {Live, Purged} \cup Nat
           /\ \A h \in Receivers : ~HookKept(h) => ~HookKept(h)'
           /\ rows' \subseteq rows \cup captured
           /\ named \subseteq named'
           /\ \A r \in captured' : \/ r \in captured /\ r \notin rows'
                                   \/ /\ rows' = rows /\ captured' = captured \cup {r}
                                      /\ r.id \notin named /\ r.id \in named'
                                      /\ r.id \in RowIds /\ r.hook \in Receivers
                                      /\ r.at \in Nat
  <1>1. /\ HookRecovery \in Nat /\ present \in Nat
        /\ Live = -1 /\ Purged = -2
        /\ \A h \in Receivers : deleted[h] \in Int
                                /\ deleted[h] \in {Live, Purged} \cup Nat
        /\ captured \cap rows = {}
    BY HistoryAssumption DEF LogsTyped, Live, Purged
  <1> DEFINE Goal ==
           /\ present' \in Nat /\ present' >= present
           /\ deleted' \in [Receivers -> Int]
           /\ \A h \in Receivers : deleted'[h] \in {Live, Purged} \cup Nat
           /\ \A h \in Receivers : ~HookKept(h) => ~HookKept(h)'
           /\ rows' \subseteq rows \cup captured
           /\ named \subseteq named'
           /\ \A r \in captured' : \/ r \in captured /\ r \notin rows'
                                   \/ /\ rows' = rows /\ captured' = captured \cup {r}
                                      /\ r.id \notin named /\ r.id \in named'
                                      /\ r.id \in RowIds /\ r.hook \in Receivers
                                      /\ r.at \in Nat
  <1>2. ASSUME UNCHANGED <<present, deleted, named, captured>>, rows' \subseteq rows
        PROVE  Goal
    <2>1. present' >= present
      BY <1>1, <1>2
    <2> QED
      BY <1>1, <1>2, <2>1 DEF HookKept, LogsTyped
  <1>3. ASSUME NEW l \in Listers, ListAgain(l) \/ \E scope \in Scopes : Ask(l, scope)
        PROVE  Goal
    <2>1. UNCHANGED <<present, deleted, named, captured, rows>>
      BY <1>3 DEF ListAgain, Ask, ListRows
    <2> QED
      BY <1>2, <2>1
  <1>4. ASSUME NEW h \in Receivers, NEW id \in RowIds, NEW collection, NEW w,
               Capture(h, id, collection, w)
        PROVE  Goal
    <2>1. PICK r : r = Captured(h, id, collection, w)
      OBVIOUS
    <2>2. /\ r.id = id /\ r.hook = h /\ r.at = present
          /\ id \notin named /\ named' = named \cup {id} /\ captured' = captured \cup {r}
          /\ UNCHANGED <<present, deleted, rows>>
      BY <1>4, <2>1 DEF Capture, Captured
    <2>3. present' >= present
      BY <1>1, <2>2
    <2>4. \A q \in captured' : \/ q \in captured /\ q \notin rows'
                               \/ q = r
      BY <1>1, <2>2
    <2> QED
      BY <1>1, <2>2, <2>3, <2>4 DEF HookKept, LogsTyped
  <1>5. ASSUME NEW request \in captured, Log(request) \/ DropCapture(request)
        PROVE  Goal
    <2>1. /\ UNCHANGED <<present, deleted, named>>
          /\ captured' = captured \ {request} /\ rows' \subseteq rows \cup {request}
      BY <1>5 DEF Log, DropCapture
    <2>2. present' >= present
      BY <1>1, <2>1
    <2>3. \A q \in captured' : q \in captured /\ q \notin rows'
      BY <1>1, <2>1
    <2> QED
      BY <1>1, <2>1, <2>2, <2>3 DEF HookKept, LogsTyped
  <1>6. ASSUME NEW h \in Receivers, RemoveHook(h) \/ BringBack(h) \/ PurgeHookRow(h)
        PROVE  Goal
    <2>1. /\ UNCHANGED <<present, named, captured>> /\ rows' \subseteq rows
      BY <1>6 DEF RemoveHook, BringBack, PurgeHookRow
    <2>2. PICK at \in {present, Live, Purged} : deleted' = [deleted EXCEPT ![h] = at]
      BY <1>6 DEF RemoveHook, BringBack, PurgeHookRow
    <2>3. deleted' \in [Receivers -> Int]
          /\ \A g \in Receivers : deleted'[g] \in {Live, Purged} \cup Nat
      BY <1>1, <2>2 DEF LogsTyped
    <2>4. ~HookKept(h) => ~HookKept(h)'
      <3>1. CASE RemoveHook(h)
        BY <3>1 DEF RemoveHook, HookKept
      <3>2. CASE BringBack(h)
        <4>1. deleted[h] \in Nat /\ present <= deleted[h] + HookRecovery /\ deleted[h] # Purged
          BY <1>1, <3>2 DEF BringBack
        <4>2. deleted[h] >= present - HookRecovery
          BY <1>1, <4>1
        <4> QED
          BY <4>1, <4>2 DEF HookKept
      <3>3. CASE PurgeHookRow(h)
        <4>1. deleted'[h] = Purged
          BY <3>3 DEF PurgeHookRow, LogsTyped
        <4> QED
          BY <1>1, <4>1 DEF HookKept
      <3> QED
        BY <1>6, <3>1, <3>2, <3>3
    <2>5. \A g \in Receivers : ~HookKept(g) => ~HookKept(g)'
      BY <2>1, <2>2, <2>4 DEF HookKept, LogsTyped
    <2>6. present' >= present
      BY <1>1, <2>1
    <2> QED
      BY <1>1, <2>1, <2>3, <2>5, <2>6
  <1>7. ASSUME NEW collection, PurgeRows(collection)
        PROVE  Goal
    <2>1. UNCHANGED <<present, deleted, named, captured>> /\ rows' \subseteq rows
      BY <1>7 DEF PurgeRows
    <2> QED
      BY <1>2, <2>1
  <1>8. ASSUME HistoryTick
        PROVE  Goal
    <2>1. /\ present' = present + 1 /\ UNCHANGED <<deleted, named, captured, rows>>
      BY <1>8 DEF HistoryTick
    <2>2. present' \in Nat /\ present' >= present
      BY <1>1, <2>1
    <2>3. ASSUME NEW h \in Receivers, ~HookKept(h)
          PROVE  ~HookKept(h)'
      <3>1. CASE deleted[h] = Purged
        BY <1>1, <2>1, <3>1 DEF HookKept
      <3>2. CASE deleted[h] # Purged
        <4>1. deleted[h] # Live /\ ~(deleted[h] >= present - HookRecovery)
          BY <2>3, <3>2 DEF HookKept
        <4>2. ~(deleted[h] >= present' - HookRecovery)
          BY <1>1, <2>1, <4>1
        <4> QED
          BY <2>1, <4>1, <4>2 DEF HookKept
      <3> QED
        BY <3>1, <3>2
    <2> QED
      BY <1>1, <2>1, <2>2, <2>3 DEF LogsTyped
  <1>9. Goal
    BY <1>3, <1>4, <1>5, <1>6, <1>7, <1>8 DEF HistoryNext, StoreNext
  <1>10. QED
    BY <1>9

\* How the logs change: a step of a reader leaves them, and what is shown of a
\* row after a step was so before.
LEMMA LogsStep ==
    ASSUME LogsInv, HistoryNext
    PROVE  /\ LogsInv' /\ holder' = holder /\ named \subseteq named'
           /\ rows' \subseteq rows \cup captured
           /\ \A r \in captured' : r \in captured \/ r.id \notin named
           /\ \A r \in RowRecords, q \in Scopes : Shown(r, q)' => Shown(r, q)
  <1>1. /\ LogsTyped /\ LogRetention \in Nat /\ present \in Nat
        /\ Live = -1 /\ Purged = -2
        /\ \A h \in Receivers : deleted[h] \in Int
        /\ deleted = [h \in Receivers |-> deleted[h]]
    BY HistoryAssumption DEF LogsInv, LogsTyped, Live, Purged
  <1>2. /\ LogsTyped' /\ present' \in Nat /\ present' >= present
        /\ \A h \in Receivers : ~HookKept(h) => ~HookKept(h)'
        /\ rows' \subseteq rows \cup captured /\ named \subseteq named'
    <2>1. /\ present' \in Nat /\ present' >= present
          /\ deleted' \in [Receivers -> Int]
          /\ \A h \in Receivers : deleted'[h] \in {Live, Purged} \cup Nat
          /\ \A h \in Receivers : ~HookKept(h) => ~HookKept(h)'
          /\ rows' \subseteq rows \cup captured /\ named \subseteq named'
      BY <1>1, HistoryMoves
    <2>2. \A r \in captured' : \/ r \in captured /\ r \notin rows'
                               \/ rows' = rows /\ r.id \notin named
      BY <1>1, HistoryMoves
    <2>3. \A r \in rows : r.id \in named
      BY DEF LogsInv
    <2>4. captured' \cap rows' = {}
      BY <2>2, <2>3
    <2>5. LogsTyped'
      BY <2>1, <2>4 DEF LogsTyped, Live, Purged
    <2>6. QED
      BY <2>1, <2>5
  <1>3. holder' = holder
    <2>1. CASE StoreNext
      BY <2>1 DEF StoreNext, Capture, RemoveHook, BringBack, PurgeHookRow, Log, DropCapture,
                  PurgeRows, HistoryTick
    <2>2. ASSUME NEW l \in Listers, ListAgain(l) \/ \E scope \in Scopes : Ask(l, scope)
          PROVE  holder' = holder
      BY <2>2 DEF ListAgain, Ask, ListRows
    <2>3. QED
      BY <2>1, <2>2 DEF HistoryNext
  <1>4. ASSUME NEW r \in RowRecords, NEW q \in Scopes, Shown(r, q)' PROVE Shown(r, q)
    <2>1. /\ r.hook \in Receivers /\ r.at \in Nat
          /\ ~(r.at + LogRetention <= present')
          /\ HookKept(r.hook)'
      BY <1>4 DEF Shown, Kept, Expired, RowRecords
    <2>2. ~Expired(r) /\ HookKept(r.hook)
      BY <1>1, <1>2, <2>1 DEF Expired
    <2>3. QED
      BY <1>3, <1>4, <2>2 DEF Shown, Kept
  <1> DEFINE IdsApart == \A r, s \in rows \cup captured : r.id = s.id => r = s
             RowsAreKnown == \A r \in rows \cup captured : r \in RowRecords /\ r.id \in named /\ r.at <= present
             HooksTyped == /\ present <= MaxPresent
                      /\ \A h \in Receivers : deleted[h] \in {Live, Purged} \cup 0 .. present
             RowsHaveHook == \A r \in rows : deleted[r.hook] # Purged
             NewAreNew == \A r \in captured' : r \in captured \/ r.id \notin named
  <1>5. IdsApart /\ RowsAreKnown /\ HooksTyped /\ RowsHaveHook /\ IsFiniteSet(rows) /\ captured \cap rows = {}
    BY <1>1 DEF LogsInv, LogsTyped, HistoryTypeOK
  <1>6. IdsApart' /\ RowsAreKnown' /\ HooksTyped' /\ RowsHaveHook' /\ IsFiniteSet(rows)' /\ NewAreNew
    <2>1. ASSUME UNCHANGED <<present, deleted, named>>, rows' \subseteq rows, captured' \subseteq captured
          PROVE  IdsApart' /\ RowsAreKnown' /\ HooksTyped' /\ RowsHaveHook' /\ IsFiniteSet(rows)' /\ NewAreNew
      BY <1>5, <2>1, FS_Subset
    <2>2. ASSUME NEW l \in Listers, ListAgain(l) \/ \E scope \in Scopes : Ask(l, scope)
          PROVE  UNCHANGED <<present, deleted, named, rows, captured>>
      BY <2>2 DEF ListAgain, Ask, ListRows
    <2>3. ASSUME NEW h \in Receivers, NEW id \in RowIds, NEW collection \in Collections,
                 NEW w \in Weights, Capture(h, id, collection, w)
          PROVE  IdsApart' /\ RowsAreKnown' /\ HooksTyped' /\ RowsHaveHook' /\ IsFiniteSet(rows)' /\ NewAreNew
      <3>1. PICK r : r = Captured(h, id, collection, w)
        OBVIOUS
      <3>2. /\ r \in RowRecords /\ r.id = id /\ r.at = present
            /\ id \notin named /\ named' = named \cup {id} /\ captured' = captured \cup {r}
            /\ UNCHANGED <<present, deleted, rows>>
        BY <1>1, <2>3, <3>1 DEF Capture, Captured, RowRecords
      <3>3. IdsApart'
        BY <1>5, <3>2
      <3>4. RowsAreKnown'
        BY <1>1, <1>5, <3>2
      <3>5. QED
        BY <1>5, <3>2, <3>3, <3>4
    <2>4. ASSUME NEW r \in captured, Log(r)
          PROVE  IdsApart' /\ RowsAreKnown' /\ HooksTyped' /\ RowsHaveHook' /\ IsFiniteSet(rows)' /\ NewAreNew
      <3>1. /\ UNCHANGED <<present, deleted, named>> /\ captured' = captured \ {r}
            /\ rows' = IF Receives(r.hook) THEN rows \cup {r} ELSE rows
        BY <2>4 DEF Log
      <3>2. CASE ~Receives(r.hook)
        BY <2>1, <3>1, <3>2
      <3>3. CASE Receives(r.hook)
        <4>1. deleted[r.hook] # Purged
          BY <1>1, <3>3 DEF Receives
        <4>2. IsFiniteSet(rows)'
          BY <1>5, <3>1, <3>3, FS_AddElement
        <4>3. IdsApart' /\ RowsAreKnown' /\ NewAreNew
          BY <1>5, <3>1, <3>3
        <4>4. RowsHaveHook' /\ HooksTyped'
          BY <1>5, <3>1, <3>3, <4>1
        <4>5. QED
          BY <4>2, <4>3, <4>4
      <3>4. QED
        BY <3>2, <3>3
    <2>5. ASSUME NEW r \in captured, DropCapture(r)
          PROVE  /\ UNCHANGED <<present, deleted, named>>
                 /\ rows' \subseteq rows /\ captured' \subseteq captured
      BY <2>5 DEF DropCapture
    <2>6. ASSUME NEW collection, PurgeRows(collection)
          PROVE  /\ UNCHANGED <<present, deleted, named>>
                 /\ rows' \subseteq rows /\ captured' \subseteq captured
      BY <2>6 DEF PurgeRows
    <2>7. ASSUME NEW h \in Receivers, RemoveHook(h) \/ BringBack(h)
          PROVE  IdsApart' /\ RowsAreKnown' /\ HooksTyped' /\ RowsHaveHook' /\ IsFiniteSet(rows)' /\ NewAreNew
      <3>1. /\ UNCHANGED <<present, named, captured, rows>>
            /\ \E at \in {present, Live} : deleted' = [deleted EXCEPT ![h] = at]
        BY <2>7 DEF RemoveHook, BringBack
      <3>2. HooksTyped' /\ RowsHaveHook'
        BY <1>1, <1>5, <3>1
      <3>3. QED
        BY <1>5, <3>1, <3>2
    <2>8. ASSUME NEW h \in Receivers, PurgeHookRow(h)
          PROVE  IdsApart' /\ RowsAreKnown' /\ HooksTyped' /\ RowsHaveHook' /\ IsFiniteSet(rows)' /\ NewAreNew
      <3>1. /\ UNCHANGED <<present, named, captured>> /\ rows' = {r \in rows : r.hook # h}
            /\ deleted' = [deleted EXCEPT ![h] = Purged]
        BY <2>8 DEF PurgeHookRow
      <3>2. HooksTyped' /\ RowsHaveHook'
        BY <1>1, <1>5, <3>1
      <3>3. IsFiniteSet(rows)'
        BY <1>5, <3>1, FS_Subset
      <3>4. QED
        BY <1>5, <3>1, <3>2, <3>3
    <2>9. ASSUME HistoryTick
          PROVE  IdsApart' /\ RowsAreKnown' /\ HooksTyped' /\ RowsHaveHook' /\ IsFiniteSet(rows)' /\ NewAreNew
      <3>1. /\ present < MaxPresent /\ present' = present + 1
            /\ UNCHANGED <<deleted, named, captured, rows>>
        BY <2>9 DEF HistoryTick
      <3>2. HooksTyped' /\ RowsAreKnown'
        <4>1. MaxPresent \in Nat /\ \A r \in rows \cup captured : r.at \in Nat
          BY <1>5, HistoryAssumption DEF RowRecords
        <4>2. \A r \in rows \cup captured : r.at <= present + 1
          BY <1>1, <1>5, <4>1
        <4>3. QED
          BY <1>1, <1>5, <3>1, <4>1, <4>2
      <3>3. QED
        BY <1>5, <3>1, <3>2
    <2>10. QED
      BY <2>1, <2>2, <2>3, <2>4, <2>5, <2>6, <2>7, <2>8, <2>9 DEF HistoryNext, StoreNext
  <1>7. LogsInv'
    <2>1. holder' \in [Receivers -> Holders]
      BY <1>3 DEF LogsInv
    <2>2. HistoryTypeOK'
      BY <1>2, <1>6, HistoryAssumption DEF HistoryTypeOK
    <2>3. QED
      BY <1>2, <1>6, <2>1, <2>2 DEF LogsInv
  <1>8. QED
    BY <1>2, <1>3, <1>4, <1>6, <1>7

\* NoListing is a listing that has shown nothing.
LEMMA NoListingFits == ListingFits(NoListing)
  BY DEF ListingFits, NoListing, ListingRecords, Continues, NothingSkipped, InOrder, BeganBefore

LEMMA HistoryInitially ==
    ASSUME HistoryInit PROVE HistoryInv
  <1>1. LogsTyped
    BY DEF HistoryInit, LogsTyped, Live, Purged
  <1>2. HistoryTypeOK
    BY HistoryAssumption DEF HistoryInit, HistoryTypeOK, Live
  <1>3. LogsInv
    BY <1>1, <1>2, FS_EmptySet DEF HistoryInit, LogsInv
  <1>4. listing \in [Listers -> ListingRecords] /\ \A l \in Listers : ListingFits(listing[l])
    BY NoListingFits DEF HistoryInit, ListingFits
  <1>5. QED
    BY <1>3, <1>4 DEF HistoryInv

\* A cursor that Hook issued is taken for its own query only.
LEMMA CursorIsOwn ==
    ASSUME NEW scope \in Scopes, NEW r \in RowRecords
    PROVE  /\ Encode(scope, r) \in Cursors /\ Encode(scope, r) # NoCursor
           /\ Encode(scope, r).at = r.at /\ Encode(scope, r).id = r.id
           /\ \A other : Decodes(other, Encode(scope, r)) => other = scope
  <1>1. Encode(scope, r) \in Cursors
    BY DEF Encode, Cursors, CursorVersion, RowRecords, RowIds
  <1>2. Encode(scope, r) # NoCursor
    BY <1>1, CursorAssumption
  <1>3. QED
    BY <1>1, <1>2 DEF Encode, Decodes

\* A cursor that Hook did not issue is refused.
LEMMA ForeignIsRefused ==
    ASSUME NEW scope \in Scopes, NEW c \in Foreign(scope) PROVE ~Decodes(scope, c)
  <1> DEFINE old == Encode(scope, [at |-> 0, id |-> 1])
  <1>1. old = [genuine |-> TRUE, version |-> 2, scope |-> scope, at |-> 0, id |-> 1]
    BY DEF Encode, CursorVersion
  <1>2. \/ c = [genuine |-> FALSE, version |-> 2, scope |-> scope, at |-> 0, id |-> 1]
        \/ c = [genuine |-> TRUE, version |-> 1, scope |-> scope, at |-> 0, id |-> 1]
    BY <1>1 DEF Foreign, CursorVersion
  <1>3. c \in Cursors
    <2>1. \A genuine \in BOOLEAN, version \in Nat, at \in Nat, id \in Nat :
             [genuine |-> genuine, version |-> version, scope |-> scope, at |-> at, id |-> id] \in Cursors
      BY DEF Cursors
    <2>2. QED
      BY <1>2, <2>1
  <1>4. c # NoCursor
    BY <1>3, CursorAssumption
  <1>5. ~(c.genuine /\ c.version = 2)
    BY <1>2
  <1>6. QED
    BY <1>4, <1>5 DEF Decodes, CursorVersion

\* What appending the first n of some elements gives.
LEMMA PageAppended ==
    ASSUME NEW X, NEW old \in Seq(X), NEW size \in Nat, NEW found \in [1 .. size -> X],
           NEW n \in 0 .. size
    PROVE  /\ old \o SubSeq(found, 1, n) \in Seq(X)
           /\ Len(old \o SubSeq(found, 1, n)) = Len(old) + n
           /\ \A i \in 1 .. Len(old) : (old \o SubSeq(found, 1, n))[i] = old[i]
           /\ \A i \in 1 .. n : (old \o SubSeq(found, 1, n))[Len(old) + i] = found[i]
  <1> DEFINE page == SubSeq(found, 1, n)
  <1>1. page \in Seq(X) /\ Len(page) = n /\ \A i \in 1 .. n : page[i] = found[i]
    <2>1. n \in Int /\ \A i \in 1 .. n : found[i] \in X
      OBVIOUS
    <2>2. /\ page \in Seq(X)
          /\ Len(page) = IF 1 <= n THEN n - 1 + 1 ELSE 0
          /\ \A i \in 1 .. n - 1 + 1 : page[i] = found[1 + i - 1]
      BY <2>1, SubSeqProperties
    <2> HIDE DEF page
    <2>3. QED
      BY <2>2
  <1> HIDE DEF page
  <1>2. /\ old \o page \in Seq(X) /\ Len(old \o page) = Len(old) + n
        /\ \A i \in 1 .. Len(old) + n :
              (old \o page)[i] = IF i <= Len(old) THEN old[i] ELSE page[i - Len(old)]
    BY <1>1, ConcatProperties
  <1>3. \A i \in 1 .. Len(old) : (old \o page)[i] = old[i]
    <2>1. \A i \in 1 .. Len(old) : i \in 1 .. Len(old) + n /\ i <= Len(old)
      OBVIOUS
    <2>2. QED
      BY <1>2, <2>1
  <1>4. \A i \in 1 .. n : (old \o page)[Len(old) + i] = found[i]
    <2>1. \A i \in 1 .. n : /\ Len(old) + i \in 1 .. Len(old) + n
                            /\ ~(Len(old) + i <= Len(old))
                            /\ (Len(old) + i) - Len(old) = i
      OBVIOUS
    <2>2. QED
      BY <1>1, <1>2, <2>1
  <1>5. QED
    BY <1>2, <1>3, <1>4 DEF page

\* What a query finds beyond a cursor, in order; and a listing after one page
\* more, of the first n rows found.
Finds(found, size, scope, cursor) ==
    LET S == {r \in rows : Shown(r, scope) /\ Beyond(r, cursor)}
    IN  /\ found \in [1 .. size -> S]
        /\ \A r \in S : \E i \in 1 .. size : found[i] = r
        /\ \A i, j \in 1 .. size : i < j => Newer(found[i], found[j])
NextListing(L, scope, found, size, n) ==
    [cursor |-> IF n < size /\ n > 0 THEN Encode(scope, found[n]) ELSE NoCursor,
     query |-> {scope},
     began |-> IF L.cursor = NoCursor THEN rows ELSE L.began,
     seen |-> L.seen \o SubSeq(found, 1, n),
     ended |-> ~(n < size) \/ n = 0]

LEMMA PageFits ==
    ASSUME HistoryInv, NEW L \in ListingRecords, ListingFits(L), ~L.ended,
           NEW scope \in Scopes, L.cursor # NoCursor => L.query = {scope},
           NEW size \in Nat, NEW found, Finds(found, size, scope, L.cursor),
           NEW n \in 0 .. size, n = 0 => size = 0,
           NEW M, M = NextListing(L, scope, found, size, n)
    PROVE  ListingFits(M)
  <1>1. /\ M.cursor = (IF n < size /\ n > 0 THEN Encode(scope, found[n]) ELSE NoCursor)
        /\ M.query = {scope}
        /\ M.began = (IF L.cursor = NoCursor THEN rows ELSE L.began)
        /\ M.seen = L.seen \o SubSeq(found, 1, n)
        /\ M.ended \in BOOLEAN /\ (M.ended <=> ~(n < size))
    <2>1. M.ended = (~(n < size) \/ n = 0)
      BY DEF NextListing
    <2>2. M.ended \in BOOLEAN /\ (M.ended <=> ~(n < size) \/ n = 0)
      BY <2>1, Zenon
    <2>3. n = 0 => ~(n < size)
      OBVIOUS
    <2>4. /\ M.cursor = (IF n < size /\ n > 0 THEN Encode(scope, found[n]) ELSE NoCursor)
          /\ M.query = {scope}
          /\ M.began = (IF L.cursor = NoCursor THEN rows ELSE L.began)
          /\ M.seen = L.seen \o SubSeq(found, 1, n)
      BY DEF NextListing
    <2>5. QED
      BY <2>2, <2>3, <2>4
  <1>2. /\ L.seen \in Seq(RowRecords) /\ L.began \subseteq RowRecords
        /\ Continues(L) /\ NothingSkipped(L) /\ InOrder(L) /\ BeganBefore(L)
    BY DEF ListingFits, ListingRecords
  <1>3. /\ rows \subseteq RowRecords
        /\ \A r \in rows : r.id \in named /\ r \notin captured
    BY DEF HistoryInv, LogsInv, LogsTyped
  <1>4. /\ found \in [1 .. size -> RowRecords]
        /\ \A i \in 1 .. size : Beyond(found[i], L.cursor)
        /\ \A r \in rows : Shown(r, scope) /\ Beyond(r, L.cursor)
              => \E i \in 1 .. size : found[i] = r
        /\ \A i, j \in 1 .. size : i < j => Newer(found[i], found[j])
    BY <1>3 DEF Finds
  <1>5. PICK k \in Nat : k = Len(L.seen)
    BY <1>2
  <1>6. /\ M.seen \in Seq(RowRecords) /\ Len(M.seen) = k + n
        /\ \A i \in 1 .. k : M.seen[i] = L.seen[i]
        /\ \A i \in 1 .. n : M.seen[k + i] = found[i]
    <2>1. L.seen \in Seq(RowRecords) /\ found \in [1 .. size -> RowRecords]
      BY <1>2, <1>4
    <2>2. /\ L.seen \o SubSeq(found, 1, n) \in Seq(RowRecords)
          /\ Len(L.seen \o SubSeq(found, 1, n)) = Len(L.seen) + n
          /\ \A i \in 1 .. Len(L.seen) : (L.seen \o SubSeq(found, 1, n))[i] = L.seen[i]
          /\ \A i \in 1 .. n : (L.seen \o SubSeq(found, 1, n))[Len(L.seen) + i] = found[i]
      BY <2>1, PageAppended
    <2>3. M.seen = L.seen \o SubSeq(found, 1, n)
      BY <1>1
    <2>4. QED
      BY <1>5, <2>2, <2>3
  <1>7. n < size => /\ n > 0 /\ found[n] \in RowRecords
                     /\ M.cursor = Encode(scope, found[n]) /\ M.cursor # NoCursor
                     /\ M.cursor \in Cursors
                     /\ M.cursor.at = found[n].at /\ M.cursor.id = found[n].id
    BY <1>1, <1>4, CursorIsOwn
  <1>8. M \in ListingRecords
    BY <1>1, <1>2, <1>3, <1>6, <1>7 DEF ListingRecords, NextListing
  <1>9. Continues(M)
    <2>1. CASE n < size
      <3>1. ~M.ended /\ M.cursor # NoCursor
        BY <1>1, <1>7, <2>1
      <3>2. Len(M.seen) > 0 /\ M.seen[Len(M.seen)] = found[n]
        <4>1. n \in 1 .. n /\ k + n > 0
          BY <1>5, <1>7, <2>1
        <4>2. QED
          BY <1>6, <4>1
      <3>3. QED
        <4>1. M.seen # <<>>
          BY <3>2
        <4>2. M.query = {scope} /\ M.cursor = Encode(scope, M.seen[Len(M.seen)])
          BY <1>1, <1>7, <2>1, <3>2
        <4>3. QED
          BY <3>1, <4>1, <4>2 DEF Continues
    <2>2. CASE n = size
      BY <1>1, <2>2 DEF Continues
    <2>3. QED
      BY <2>1, <2>2
  <1>10. NothingSkipped(M)
    <2> SUFFICES ASSUME NEW r \in M.began \cap rows, Shown(r, scope)
                 PROVE  r \in ToSet(M.seen) \/ (M.cursor # NoCursor /\ Beyond(r, M.cursor))
      BY <1>1 DEF NothingSkipped
    <2>1. r \in ToSet(L.seen) \/ Beyond(r, L.cursor)
      <3>1. CASE L.cursor = NoCursor
        BY <3>1 DEF Beyond
      <3>2. CASE L.cursor # NoCursor
        BY <1>1, <1>2, <3>2 DEF NothingSkipped
      <3>3. QED
        BY <3>1, <3>2
    <2>2. CASE r \in ToSet(L.seen)
      <3>1. PICK i \in 1 .. k : L.seen[i] = r
        BY <1>2, <1>5, <2>2 DEF ToSet
      <3>2. i \in 1 .. Len(M.seen) /\ M.seen[i] = r
        BY <1>5, <1>6, <3>1
      <3>3. QED
        BY <1>6, <3>2 DEF ToSet
    <2>3. CASE Beyond(r, L.cursor)
      <3>1. PICK i \in 1 .. size : found[i] = r
        <4>1. r \in rows
          BY <1>1
        <4>2. QED
          BY <1>4, <2>3, <4>1
      <3>2. CASE i <= n
        <4>1. i \in 1 .. n /\ k + i \in 1 .. k + n
          BY <1>5, <3>1, <3>2
        <4>2. k + i \in 1 .. Len(M.seen) /\ M.seen[k + i] = r
          BY <1>6, <3>1, <4>1
        <4>3. QED
          BY <1>6, <4>2 DEF ToSet
      <3>3. CASE n < i
        <4>1. n < size /\ n \in 1 .. size
          BY <3>1, <3>3
        <4>2. Newer(found[n], r)
          BY <1>4, <3>1, <3>3, <4>1
        <4>3. QED
          BY <1>7, <4>1, <4>2 DEF Beyond, Newer
      <3>4. QED
        BY <3>1, <3>2, <3>3
    <2>4. QED
      BY <2>1, <2>2, <2>3
  <1>11. InOrder(M)
    <2> SUFFICES ASSUME NEW i \in 2 .. Len(M.seen)
                 PROVE  Newer(M.seen[i - 1], M.seen[i])
      BY DEF InOrder
    <2>1. i \in 2 .. k + n
      BY <1>6
    <2>2. CASE i <= k
      <3>1. i \in 1 .. k /\ i - 1 \in 1 .. k /\ i \in 2 .. k
        BY <1>5, <2>1, <2>2
      <3>2. Newer(L.seen[i - 1], L.seen[i])
        BY <1>2, <1>5, <3>1 DEF InOrder
      <3>3. QED
        BY <1>6, <3>1, <3>2
    <2>3. CASE i = k + 1
      <3>1. i - 1 \in 1 .. k /\ i - 1 = k /\ 1 \in 1 .. n /\ 1 \in 1 .. size
        BY <1>5, <2>1, <2>3
      <3>2. M.seen[i] = found[1] /\ M.seen[i - 1] = L.seen[k]
        BY <1>6, <2>3, <3>1
      <3>3. L.cursor # NoCursor
        BY <1>2, <1>5, <3>1 DEF Continues
      <3>4. Newer(L.cursor, found[1])
        BY <1>4, <3>1, <3>3 DEF Beyond
      <3>5. PICK s \in Scopes : L.cursor = Encode(s, L.seen[k])
        BY <1>2, <1>5, <3>3 DEF Continues
      <3>6. L.cursor.at = L.seen[k].at /\ L.cursor.id = L.seen[k].id
        BY <3>5 DEF Encode
      <3>7. QED
        BY <3>2, <3>4, <3>6 DEF Newer
    <2>4. CASE i > k + 1
      <3>1. PICK j \in 2 .. n : i = k + j
        <4>1. i - k \in 2 .. n /\ i = k + (i - k)
          BY <1>5, <2>1, <2>4
        <4>2. QED
          BY <4>1
      <3>2. /\ j \in 1 .. n /\ j - 1 \in 1 .. n /\ i - 1 = k + (j - 1)
            /\ j \in 1 .. size /\ j - 1 \in 1 .. size /\ j - 1 < j
        BY <1>5, <3>1
      <3>3. M.seen[i] = found[j] /\ M.seen[i - 1] = found[j - 1]
        BY <1>6, <3>1, <3>2
      <3>4. QED
        BY <1>4, <3>2, <3>3
    <2>5. i <= k \/ i = k + 1 \/ i > k + 1
      BY <1>5, <2>1
    <2>6. QED
      BY <2>2, <2>3, <2>4, <2>5
  <1>12. BeganBefore(M)
    BY <1>1, <1>2, <1>3 DEF BeganBefore
  <1>13. QED
    BY <1>8, <1>9, <1>10, <1>11, <1>12 DEF ListingFits

\* A client asks for a page, or starts over.
LEMMA ReaderStep ==
    ASSUME HistoryInv, NEW l \in Listers, ListAgain(l) \/ \E scope \in Scopes : Ask(l, scope)
    PROVE  \E L \in ListingRecords : ListingFits(L) /\ listing' = [listing EXCEPT ![l] = L]
  <1>1. NoListing \in ListingRecords /\ ListingFits(NoListing)
    BY NoListingFits DEF ListingFits
  <1>2. CASE ListAgain(l)
    BY <1>1, <1>2 DEF ListAgain
  <1>3. ASSUME NEW scope \in Scopes, NEW limit \in Limits,
               NEW c, ListRows(l, scope, limit, c)
        PROVE  \E L \in ListingRecords : ListingFits(L) /\ listing' = [listing EXCEPT ![l] = L]
    <2> DEFINE last == listing[l]
               found == NewestFirst({r \in rows : Shown(r, scope) /\ Beyond(r, c)})
               n == PageLength(found, limit)
               more == n < Len(found)
               next == [cursor |-> IF more /\ n > 0 THEN Encode(scope, found[n]) ELSE NoCursor,
                        query |-> {scope},
                        began |-> IF c = NoCursor THEN rows ELSE last.began,
                        seen |-> last.seen \o SubSeq(found, 1, n),
                        ended |-> ~more \/ n = 0]
    <2>1. /\ ~last.ended
          /\ c \in {last.cursor} \cup (IF last.cursor = NoCursor THEN Foreign(scope) ELSE {})
          /\ listing' = [listing EXCEPT ![l] =
                IF AnswersPage(scope, limit, c) THEN next ELSE NoListing]
      BY <1>3 DEF ListRows
    <2>2. last \in ListingRecords /\ ListingFits(last)
      BY DEF HistoryInv
    <2>3. CASE ~AnswersPage(scope, limit, c)
      BY <1>1, <2>1, <2>3
    <2>4. CASE AnswersPage(scope, limit, c)
      <3>1. limit \in Nat \ {0} /\ Decodes(scope, c)
        BY <2>4, HistoryAssumption DEF AnswersPage
      <3>2. c = last.cursor
        BY <2>1, <3>1, ForeignIsRefused
      <3>3. last.cursor # NoCursor => last.query = {scope}
        <4> SUFFICES ASSUME last.cursor # NoCursor PROVE last.query = {scope}
          OBVIOUS
        <4>1. PICK s \in Scopes : last.query = {s} /\ last.cursor = Encode(s, last.seen[Len(last.seen)])
          BY <2>2 DEF ListingFits, Continues
        <4>2. last.seen \in Seq(RowRecords) /\ last.seen # <<>>
          BY <2>2 DEF ListingFits, Continues, ListingRecords
        <4>3. last.seen[Len(last.seen)] \in RowRecords
          BY <4>2
        <4>4. QED
          BY <3>1, <3>2, <4>1, <4>3, CursorIsOwn
      <3>4. PICK size \in Nat : Finds(found, size, scope, c)
        <4> DEFINE S == {r \in rows : Shown(r, scope) /\ Beyond(r, c)}
        <4>1. /\ rows \subseteq RowRecords /\ IsFiniteSet(rows)
              /\ \A a, b \in rows : a.id = b.id => a = b
          BY DEF HistoryInv, LogsInv, HistoryTypeOK
        <4>2. S \in SUBSET RowRecords /\ IsFiniteSet(S) /\ \A a, b \in S : a.id = b.id => a = b
          BY <4>1, FS_Subset
        <4>3. found = NewestFirst(S)
          OBVIOUS
        <4> HIDE DEF S, found
        <4>4. /\ Cardinality(S) \in Nat
              /\ found \in [1 .. Cardinality(S) -> S]
              /\ \A r \in S : \E i \in 1 .. Cardinality(S) : found[i] = r
              /\ \A i, j \in 1 .. Cardinality(S) : i < j => Newer(found[i], found[j])
          BY <4>2, <4>3, NewestFirstSorts
        <4>5. QED
          BY <4>4 DEF Finds, S
      <3> HIDE DEF found
      <3>5. Len(found) = size
        BY <3>4 DEF Finds
      <3>6. n \in 0 .. size /\ (n = 0 => size = 0)
        BY <3>1, <3>4, <3>5, PageLengthIs
      <3> HIDE DEF n
      <3>7. next = NextListing(last, scope, found, size, n)
        BY <3>2, <3>5 DEF NextListing
      <3> HIDE DEF last, next
      <3>8. ListingFits(next)
        BY <2>1, <2>2, <3>2, <3>3, <3>4, <3>6, <3>7, PageFits
      <3>9. next \in ListingRecords
        BY <3>8 DEF ListingFits
      <3>10. QED
        BY <2>1, <2>4, <3>8, <3>9 DEF last
    <2>5. QED
      BY <2>3, <2>4
  <1>4. QED
    BY <1>2, <1>3 DEF Ask

\* Every step preserves the invariant.
LEMMA HistoryKept ==
    ASSUME HistoryInv, [HistoryNext]_historyVars
    PROVE  HistoryInv'
  <1>1. CASE UNCHANGED historyVars
    BY <1>1 DEF historyVars, HistoryInv, LogsInv, LogsTyped, HistoryTypeOK, ListingFits, Continues,
                NothingSkipped, InOrder, BeganBefore, Shown, Kept, Expired, HookKept
  <1>2. CASE HistoryNext
    <2>1. /\ LogsInv' /\ named \subseteq named' /\ rows' \subseteq rows \cup captured
          /\ \A r \in captured' : r \in captured \/ r.id \notin named
          /\ \A r \in RowRecords, q \in Scopes : Shown(r, q)' => Shown(r, q)
      BY <1>2, LogsStep DEF HistoryInv
    <2>2. ASSUME NEW L \in ListingRecords, ListingFits(L) PROVE ListingFits(L)'
      <3>1. L.began \subseteq RowRecords /\ L.query \subseteq Scopes
        BY DEF ListingRecords
      <3>2. BeganBefore(L)'
        BY <2>1, <2>2 DEF ListingFits, BeganBefore
      <3>3. NothingSkipped(L)'
        <4> SUFFICES ASSUME NEW r \in L.began \cap rows', NEW q \in L.query, Shown(r, q)'
                     PROVE  r \in ToSet(L.seen) \/ (L.cursor # NoCursor /\ Beyond(r, L.cursor))
          BY DEF NothingSkipped
        <4>1. r \in rows
          BY <2>1, <2>2 DEF ListingFits, BeganBefore
        <4>2. Shown(r, q)
          BY <2>1, <3>1
        <4>3. QED
          BY <2>2, <4>1, <4>2 DEF ListingFits, NothingSkipped
      <3>4. QED
        BY <2>2, <3>2, <3>3 DEF ListingFits, Continues, InOrder
    <2>3. CASE \E l \in Listers : ListAgain(l) \/ \E scope \in Scopes : Ask(l, scope)
      <3>1. PICK l \in Listers, L \in ListingRecords :
               ListingFits(L) /\ listing' = [listing EXCEPT ![l] = L]
        BY <2>3, ReaderStep
      <3>2. \A k \in Listers : ListingFits(listing'[k])
        BY <3>1 DEF HistoryInv
      <3>3. listing' \in [Listers -> ListingRecords]
        BY <3>1 DEF HistoryInv
      <3>4. \A k \in Listers : ListingFits(listing[k])'
        <4> SUFFICES ASSUME NEW k \in Listers PROVE ListingFits(listing[k])'
          OBVIOUS
        <4>1. PICK K \in ListingRecords : K = listing'[k]
          BY <3>3
        <4>2. ListingFits(K)
          BY <3>2, <4>1
        <4>3. ListingFits(K)'
          BY <2>2, <4>2
        <4>4. QED
          BY <4>1, <4>3 DEF ListingFits, Continues, NothingSkipped, InOrder, BeganBefore
      <3>5. QED
        BY <2>1, <3>3, <3>4 DEF HistoryInv
    <2>4. CASE StoreNext
      <3>1. listing' = listing
        BY <2>4 DEF StoreNext, Capture, RemoveHook, BringBack, PurgeHookRow, Log, DropCapture,
                    PurgeRows, HistoryTick
      <3>2. \A k \in Listers : ListingFits(listing[k])'
        <4> SUFFICES ASSUME NEW k \in Listers PROVE ListingFits(listing[k])'
          OBVIOUS
        <4>1. PICK K \in ListingRecords : K = listing[k]
          BY DEF HistoryInv
        <4>2. ListingFits(K)'
          BY <2>2, <4>1 DEF HistoryInv
        <4>3. QED
          BY <3>1, <4>1, <4>2 DEF ListingFits, Continues, NothingSkipped, InOrder, BeganBefore
      <3>3. QED
        BY <2>1, <3>1, <3>2 DEF HistoryInv
    <2>5. QED
      BY <1>2, <2>3, <2>4 DEF HistoryNext
  <1>3. QED
    BY <1>1, <1>2

\* The inductive invariant holds throughout every behaviour.
THEOREM HistoryInvariance == HistorySpec => []HistoryInv
  BY HistoryInitially, HistoryKept, PTL DEF HistorySpec

\* A listing followed from page to page shows all the retained rows of its
\* query, each once and newest first, for any limits and page budget, any
\* number of clients, and whatever is logged late, deleted, restored or purged
\* between two pages (list_events, list_blocked_requests, collect_page).
THEOREM ListingsAreExact == HistorySpec => []ListingIsExact
  <1>1. HistoryInv => ListingIsExact
    <2> SUFFICES ASSUME HistoryInv PROVE ListingIsExact
      OBVIOUS
    <2>1. HistoryTypeOK
      BY DEF HistoryInv, LogsInv
    <2>2. ListingComplete
      BY DEF HistoryInv, ListingFits, Continues, NothingSkipped, ListingComplete
    <2>3. SeenInOrder
      BY DEF HistoryInv, ListingFits, InOrder, SeenInOrder
    <2>4. QED
      BY <2>1, <2>2, <2>3 DEF ListingIsExact
  <1>2. QED
    BY <1>1, HistoryInvariance, PTL

----------------------------------------------------------------------------
(* Receivers.                                                              *)

\* Requests captured and rows, wherever they are, have ids of their own, and
\* what was captured and not logged yet was never sent.
RowsKnown ==
    /\ LogsTyped
    /\ \A r \in rows \cup captured \cup sent :
          r.id \in named /\ r.id \in RowIds /\ r.hook \in Receivers /\ r.at \in Nat
    /\ \A r, s \in rows \cup captured \cup sent : r.id = s.id => r = s
    /\ captured \cap sent = {}

\* An event Hook no longer has, now or ever.
Gone(row) == row \notin rows \/ ~Kept(row)

\* A batch under way is of events that were sent, and its outcomes are true.
BatchIsTrue ==
    /\ batch \in [phase : {"none", "resolving", "saved"}, left : SUBSET sent,
                  outcomes : SUBSET [row : sent, is : {"event", "unavailable"}]]
    /\ \A o \in batch.outcomes : o.is = "unavailable" => Gone(o.row)
    /\ batch.phase = "saved" => \A o \in batch.outcomes : saved[o.row.id] # Nothing

\* What is saved is of events that were sent, and true.
SavedIsTrue ==
    /\ saved \in [RowIds -> {Nothing, "event", "unavailable"}]
    /\ \A row \in sent : saved[row.id] = "unavailable" => Gone(row)
    /\ \A id \in RowIds : saved[id] # Nothing => \E row \in sent : row.id = id

ReceivingInv ==
    /\ RowsKnown /\ waiting \subseteq sent \cup {Alien}
    /\ BatchIsTrue /\ SavedIsTrue /\ AcknowledgedIsSaved

\* The logs' steps keep the rows known, and what is gone gone.
LEMMA GoneStays ==
    ASSUME RowsKnown, HistoryNext, sent' = sent
    PROVE  RowsKnown' /\ \A row \in sent : Gone(row) => Gone(row)'
  <1> USE DEF RowsKnown
  <1>1. /\ present \in Nat /\ present' \in Nat /\ present' >= present
        /\ LogRetention \in Nat
        /\ rows' \subseteq rows \cup captured
    BY HistoryMoves, HistoryAssumption DEF LogsTyped
  <1>2. ASSUME NEW row \in sent, Gone(row)
        PROVE  Gone(row)'
    <2>1. row \notin captured /\ row.at \in Nat /\ row.hook \in Receivers
      BY DEF RowsKnown, LogsTyped
    <2>2. CASE row \notin rows
      BY <1>1, <2>1, <2>2 DEF Gone
    <2>3. CASE Expired(row)
      <3>1. row.at + LogRetention <= present'
        BY <1>1, <2>1, <2>3 DEF Expired
      <3> QED
        BY <3>1 DEF Gone, Kept, Expired
    <2>4. CASE ~HookKept(row.hook)
      <3>1. ~HookKept(row.hook)'
        BY <2>1, <2>4, HistoryMoves
      <3> QED
        BY <3>1 DEF Gone, Kept
    <2> QED
      BY <1>2, <2>2, <2>3, <2>4 DEF Gone, Kept
  <1>3. RowsKnown'
    <2>1. ASSUME NEW r \in rows' \cup captured' \cup sent'
          PROVE  /\ r.id \in named' /\ r.id \in RowIds /\ r.hook \in Receivers /\ r.at \in Nat
                 /\ \/ r \in rows \cup captured \cup sent
                    \/ r.id \notin named /\ rows' = rows /\ captured' = captured \cup {r}
      BY HistoryMoves DEF RowsKnown, LogsTyped
    <2>2. ASSUME NEW r \in rows' \cup captured' \cup sent',
                 NEW s \in rows' \cup captured' \cup sent', r.id = s.id
          PROVE  r = s
      BY <2>1, <2>2 DEF RowsKnown, LogsTyped
    <2>3. captured' \cap (rows' \cup sent') = {}
      BY HistoryMoves DEF RowsKnown, LogsTyped
    <2>4. /\ present' \in Nat /\ deleted' \in [Receivers -> Int]
          /\ \A h \in Receivers : deleted'[h] \in {Live, Purged} \cup Nat
      BY HistoryMoves
    <2> QED
      BY <2>1, <2>2, <2>3, <2>4 DEF RowsKnown, LogsTyped, RowIds, Live, Purged
  <1>4. QED
    BY <1>2, <1>3

LEMMA ReceivingInitially ==
    ASSUME HistoryInit, ReceivingInit
    PROVE  ReceivingInv
  <1>1. RowsKnown
    BY DEF HistoryInit, ReceivingInit, RowsKnown, LogsTyped, Live, Purged
  <1>2. BatchIsTrue
    BY DEF ReceivingInit, BatchIsTrue, NoBatch
  <1>3. SavedIsTrue /\ AcknowledgedIsSaved
    BY DEF ReceivingInit, SavedIsTrue, AcknowledgedIsSaved
  <1>4. QED
    BY <1>1, <1>2, <1>3 DEF ReceivingInit, ReceivingInv

\* Whatever the service does meanwhile.
LEMMA ServiceStep ==
    ASSUME ReceivingInv, HistoryNext, UNCHANGED receivingVars
    PROVE  ReceivingInv'
  <1>1. UNCHANGED <<allowed, sent, waiting, batch, saved>>
    BY DEF receivingVars
  <1>2. RowsKnown' /\ \A row \in sent : Gone(row) => Gone(row)'
    BY <1>1, GoneStays DEF ReceivingInv
  <1>3. BatchIsTrue'
    <2>1. \A o \in batch.outcomes : o.row \in sent
      BY DEF ReceivingInv, BatchIsTrue
    <2>2. \A o \in batch'.outcomes : o.is = "unavailable" => Gone(o.row)'
      BY <1>1, <1>2, <2>1 DEF ReceivingInv, BatchIsTrue
    <2> QED
      BY <1>1, <2>2 DEF ReceivingInv, BatchIsTrue, Gone, Kept, Expired, HookKept
  <1>4. SavedIsTrue'
    <2>1. \A row \in sent' : saved'[row.id] = "unavailable" => Gone(row)'
      BY <1>1, <1>2 DEF ReceivingInv, SavedIsTrue
    <2> QED
      BY <1>1, <2>1 DEF ReceivingInv, SavedIsTrue, RowIds, Gone, Kept, Expired, HookKept
  <1>5. QED
    BY <1>1, <1>2, <1>3, <1>4 DEF ReceivingInv, AcknowledgedIsSaved

\* The client crate and its host, and who has access.
LEMMA ReceiverStep ==
    ASSUME ReceivingInv, ReceivingNext, UNCHANGED historyVars
    PROVE  ReceivingInv'
  <1>1. UNCHANGED <<present, holder, deleted, named, captured, rows, listing>>
    BY DEF historyVars
  <1>2. \A row : Gone(row)' <=> Gone(row)
    BY <1>1 DEF Gone, Kept, Expired, HookKept
  <1>3. ASSUME NEW row \in rows, Refer(row)
        PROVE  ReceivingInv'
    <2>1. /\ sent' = sent \cup {row} /\ waiting' = waiting \cup {row} /\ row \notin sent
          /\ UNCHANGED <<batch, saved>>
      BY <1>3 DEF Refer
    <2>2. RowsKnown'
      BY <1>1, <2>1 DEF ReceivingInv, RowsKnown, LogsTyped, RowIds, Live, Purged
    <2>3. row.id \in RowIds /\ saved[row.id] = Nothing
      BY <2>1 DEF ReceivingInv, RowsKnown, LogsTyped, SavedIsTrue
    <2>4. BatchIsTrue'
      BY <1>2, <2>1 DEF ReceivingInv, BatchIsTrue
    <2>5. SavedIsTrue'
      BY <1>2, <2>1, <2>3 DEF ReceivingInv, SavedIsTrue, RowIds, Nothing
    <2> QED
      BY <2>1, <2>2, <2>4, <2>5 DEF ReceivingInv, AcknowledgedIsSaved
  <1>4. ASSUME UNCHANGED <<sent, waiting, saved>>, BatchIsTrue'
        PROVE  ReceivingInv'
    <2>1. RowsKnown'
      BY <1>1, <1>4 DEF ReceivingInv, RowsKnown, LogsTyped, RowIds, Live, Purged
    <2>2. SavedIsTrue'
      BY <1>2, <1>4 DEF ReceivingInv, SavedIsTrue, RowIds
    <2> QED
      BY <1>4, <2>1, <2>2 DEF ReceivingInv, AcknowledgedIsSaved
  <1>5. ASSUME batch' = NoBatch, UNCHANGED <<sent, waiting, saved>>
        PROVE  ReceivingInv'
    BY <1>4, <1>5 DEF BatchIsTrue, NoBatch
  <1>6. ASSUME NEW s \in Holders, ChangeAccess(s)
        PROVE  ReceivingInv'
    <2>1. UNCHANGED <<sent, waiting, batch, saved>>
      BY <1>6 DEF ChangeAccess
    <2>2. BatchIsTrue'
      BY <1>2, <2>1 DEF ReceivingInv, BatchIsTrue
    <2> QED
      BY <1>4, <2>1, <2>2
  <1>7. ASSUME NEW S \in SUBSET waiting, Callback(S)
        PROVE  ReceivingInv'
    <2>1. /\ batch' = [phase |-> "resolving", left |-> S, outcomes |-> {}]
          /\ UNCHANGED <<sent, waiting, saved>> /\ Alien \notin S
      BY <1>7 DEF Callback, Decoded
    <2>2. S \subseteq sent
      BY <2>1 DEF ReceivingInv
    <2>3. BatchIsTrue'
      BY <2>1, <2>2 DEF BatchIsTrue
    <2> QED
      BY <1>4, <2>1, <2>3
  <1>8. ASSUME NEW row \in batch.left, NEW failed \in BOOLEAN, ResolveNext(row, failed)
        PROVE  ReceivingInv'
    <2>1. PICK outcome : outcome = IF failed THEN "error" ELSE Outcome(Answer(row))
      OBVIOUS
    <2>2. /\ batch.phase = "resolving" /\ UNCHANGED <<sent, waiting, saved>>
          /\ batch' = IF GoesOn(outcome)
                      THEN [batch EXCEPT !.left = batch.left \ {row},
                              !.outcomes = batch.outcomes \cup {[row |-> row, is |-> outcome]}]
                      ELSE NoBatch
      BY <1>8, <2>1 DEF ResolveNext
    <2>3. CASE ~GoesOn(outcome)
      BY <1>5, <2>2, <2>3
    <2>4. CASE GoesOn(outcome)
      <3>1. /\ outcome \in {"event", "unavailable"}
            /\ outcome = "unavailable" => Gone(row)
        BY <2>1, <2>4 DEF GoesOn, Outcome, Answer, Hydrates, Gone
      <3>2. row \in sent
        BY DEF ReceivingInv, BatchIsTrue
      <3>3. PICK o : o = [row |-> row, is |-> outcome]
        OBVIOUS
      <3>4. o \in [row : sent, is : {"event", "unavailable"}] /\ (o.is = "unavailable" => Gone(o.row))
        BY <3>1, <3>2, <3>3
      <3>5. batch' = [batch EXCEPT !.left = batch.left \ {row},
                                   !.outcomes = batch.outcomes \cup {o}]
        BY <2>2, <2>4, <3>3
      <3>6. /\ batch'.phase = "resolving" /\ batch'.outcomes = batch.outcomes \cup {o}
            /\ batch' \in [phase : {"none", "resolving", "saved"}, left : SUBSET sent,
                           outcomes : SUBSET [row : sent, is : {"event", "unavailable"}]]
        <4>1. batch \in [phase : {"none", "resolving", "saved"}, left : SUBSET sent,
                         outcomes : SUBSET [row : sent, is : {"event", "unavailable"}]]
          BY DEF ReceivingInv, BatchIsTrue
        <4>2. PICK L, O : L = batch.left \ {row} /\ O = batch.outcomes \cup {o}
          OBVIOUS
        <4>3. /\ L \in SUBSET sent
              /\ O \in SUBSET [row : sent, is : {"event", "unavailable"}]
          BY <3>4, <4>1, <4>2
        <4>4. batch' = [batch EXCEPT !.left = L, !.outcomes = O]
          BY <3>5, <4>2
        <4> QED
          BY <2>2, <4>1, <4>2, <4>3, <4>4
      <3>7. BatchIsTrue'
        BY <1>2, <2>2, <3>4, <3>6 DEF ReceivingInv, BatchIsTrue
      <3> QED
        BY <1>4, <2>2, <3>7
    <2> QED
      BY <2>3, <2>4
  <1>9. ASSUME Save
        PROVE  ReceivingInv'
    <2>1. /\ batch.phase = "resolving" /\ batch' = [batch EXCEPT !.phase = "saved"]
          /\ UNCHANGED <<sent, waiting>>
          /\ saved' = [id \in RowIds |->
                IF saved[id] = Nothing /\ \E o \in batch.outcomes : o.row.id = id /\ o.is # "error"
                THEN (CHOOSE o \in batch.outcomes : o.row.id = id).is ELSE saved[id]]
      BY <1>9 DEF Save
    <2>2. ASSUME NEW id \in RowIds
          PROVE  \/ saved'[id] = saved[id]
                 \/ \E o \in batch.outcomes : o.row.id = id /\ saved'[id] = o.is
      BY <2>1
    <2>3. ASSUME NEW o \in batch.outcomes
          PROVE  /\ o.row \in sent /\ o.is \in {"event", "unavailable"}
                 /\ o.is = "unavailable" => Gone(o.row)
                 /\ o.row.id \in RowIds
      BY DEF ReceivingInv, BatchIsTrue, RowsKnown, LogsTyped
    <2>4. saved' \in [RowIds -> {Nothing, "event", "unavailable"}]
      BY <2>1, <2>2, <2>3 DEF ReceivingInv, SavedIsTrue
    <2>5. ASSUME NEW row \in sent, saved'[row.id] = "unavailable"
          PROVE  Gone(row)
      <3>1. row.id \in RowIds
        BY DEF ReceivingInv, RowsKnown, LogsTyped
      <3>2. CASE saved'[row.id] = saved[row.id]
        BY <2>5, <3>2 DEF ReceivingInv, SavedIsTrue
      <3>3. CASE \E o \in batch.outcomes : o.row.id = row.id /\ saved'[row.id] = o.is
        BY <2>3, <2>5, <3>3 DEF ReceivingInv, RowsKnown, LogsTyped
      <3> QED
        BY <2>2, <3>1, <3>2, <3>3
    <2>6. \A id \in RowIds : saved'[id] # Nothing => \E row \in sent : row.id = id
      BY <2>2, <2>3 DEF ReceivingInv, SavedIsTrue
    <2>7. \A id \in RowIds : saved[id] # Nothing => saved'[id] # Nothing
      BY <2>1
    <2>8. ASSUME NEW o \in batch.outcomes
          PROVE  saved'[o.row.id] # Nothing
      <3>1. o.is # "error" /\ o.is # Nothing
        BY <2>3 DEF Nothing
      <3>2. CASE saved[o.row.id] = Nothing
        <4>1. saved'[o.row.id] = (CHOOSE p \in batch.outcomes : p.row.id = o.row.id).is
          BY <2>1, <2>3, <3>1, <3>2
        <4>2. (CHOOSE p \in batch.outcomes : p.row.id = o.row.id) \in batch.outcomes
          OBVIOUS
        <4> QED
          BY <2>3, <4>1, <4>2 DEF Nothing
      <3>3. CASE saved[o.row.id] # Nothing
        BY <2>3, <2>7, <3>3
      <3> QED
        BY <3>2, <3>3
    <2>9. /\ batch' \in [phase : {"none", "resolving", "saved"}, left : SUBSET sent,
                         outcomes : SUBSET [row : sent, is : {"event", "unavailable"}]]
          /\ batch'.outcomes = batch.outcomes
      BY <2>1 DEF ReceivingInv, BatchIsTrue
    <2>10. BatchIsTrue'
      BY <1>2, <2>1, <2>3, <2>8, <2>9 DEF BatchIsTrue
    <2>11. SavedIsTrue'
      BY <1>2, <2>1, <2>4, <2>5, <2>6 DEF SavedIsTrue, RowIds
    <2>12. RowsKnown'
      BY <1>1, <2>1 DEF ReceivingInv, RowsKnown, LogsTyped, RowIds, Live, Purged
    <2>13. AcknowledgedIsSaved'
      BY <2>1, <2>7 DEF ReceivingInv, AcknowledgedIsSaved, RowsKnown, LogsTyped
    <2> QED
      BY <2>1, <2>10, <2>11, <2>12, <2>13 DEF ReceivingInv
  <1>10. ASSUME Acknowledge
         PROVE  ReceivingInv'
    <2>1. /\ batch.phase = "saved" /\ batch' = NoBatch
          /\ waiting' = waiting \ {o.row : o \in batch.outcomes}
          /\ UNCHANGED <<sent, saved>>
      BY <1>10 DEF Acknowledge
    <2>2. AcknowledgedIsSaved'
      BY <2>1 DEF ReceivingInv, BatchIsTrue, AcknowledgedIsSaved
    <2>3. BatchIsTrue'
      BY <2>1 DEF BatchIsTrue, NoBatch
    <2>4. SavedIsTrue'
      BY <1>2, <2>1 DEF ReceivingInv, SavedIsTrue, RowIds
    <2>5. RowsKnown'
      BY <1>1, <2>1 DEF ReceivingInv, RowsKnown, LogsTyped, RowIds, Live, Purged
    <2> QED
      BY <2>1, <2>2, <2>3, <2>4, <2>5 DEF ReceivingInv
  <1>11. ASSUME LoseBatch
         PROVE  ReceivingInv'
    BY <1>5, <1>11 DEF LoseBatch
  <1>12. QED
    BY <1>3, <1>6, <1>7, <1>8, <1>9, <1>10, <1>11 DEF ReceivingNext

LEMMA ReceivingStays ==
    ASSUME ReceivingInv, UNCHANGED <<historyVars, receivingVars>>
    PROVE  ReceivingInv'
  <1>1. /\ UNCHANGED <<present, holder, deleted, named, captured, rows, listing>>
        /\ UNCHANGED <<allowed, sent, waiting, batch, saved>>
    BY DEF historyVars, receivingVars
  <1>2. \A row : Gone(row)' <=> Gone(row)
    BY <1>1 DEF Gone, Kept, Expired, HookKept
  <1>3. RowsKnown' /\ BatchIsTrue' /\ SavedIsTrue' /\ AcknowledgedIsSaved'
    BY <1>1, <1>2 DEF ReceivingInv, RowsKnown, LogsTyped, BatchIsTrue, SavedIsTrue, AcknowledgedIsSaved,
        RowIds, Live, Purged
  <1>4. QED
    BY <1>1, <1>3 DEF ReceivingInv

\* The inductive invariant holds throughout every behaviour.
THEOREM ReceivingInvariance == ReceivingSpec => []ReceivingInv
  <1>1. HistoryInit /\ ReceivingInit => ReceivingInv
    BY ReceivingInitially
  <1>2. ReceivingInv /\ [\/ HistoryNext /\ UNCHANGED receivingVars
                         \/ ReceivingNext /\ UNCHANGED historyVars]_<<historyVars, receivingVars>>
            => ReceivingInv'
    BY ServiceStep, ReceiverStep, ReceivingStays
  <1>3. QED
    BY <1>1, <1>2, PTL DEF ReceivingSpec

\* A receiver saves an event as unavailable only when Hook does not have it,
\* now or ever, and Ting is told to stop only with an outcome saved: whatever
\* expires, is deleted, restored or purged between two fetches, and whatever
\* crashes (resolve_notification, get_event).
THEOREM ReceiversLearnTheTruth == ReceivingSpec => []OutcomesAreTrue
  <1>1. ReceivingInv => OutcomesAreTrue
    <2> SUFFICES ASSUME ReceivingInv, NEW row \in rows, saved[row.id] = "unavailable"
                 PROVE  ~Kept(row)
      BY DEF ReceivingInv, OutcomesAreTrue, UnavailableIsGone
    <2>1. row.id \in RowIds /\ saved[row.id] # Nothing
      BY DEF ReceivingInv, RowsKnown, LogsTyped, Nothing
    <2>2. PICK s \in sent : s.id = row.id
      BY <2>1 DEF ReceivingInv, SavedIsTrue
    <2>3. s = row
      BY <2>2 DEF ReceivingInv, RowsKnown, LogsTyped
    <2> QED
      BY <2>2, <2>3 DEF ReceivingInv, SavedIsTrue, Gone
  <1>2. QED
    BY <1>1, ReceivingInvariance, PTL

----------------------------------------------------------------------------

----------------------------------------------------------------------------
(* Observers: a subscription begins exactly between two events, an event   *)
(* is copied only to those who have access when its observers are read,    *)
(* and nothing is queued for a deleted account.                            *)

\* What a request may hold: only a Carbon enrols, only a Carbon or another
\* Silicon is granted access or loses it.
CallerStates ==
    {IdleCaller}
    \cup [phase : {"authorised"}, who : People \cup {Owner},
          access : {"self", "custodian", "grant"}]
    \cup [phase : {"granting"}, who : People]
    \cup [phase : {"revoking"}, who : People, keeps : BOOLEAN]
    \cup [phase : {"enrolled"}, who : Observers]

\* Subscriptions are numbered as they are made, each with the events it
\* comes after; copies are of events accepted, for Carbons.
RowsTyped ==
    /\ numbered \in Nat /\ accepted \in Nat
    /\ IsFiniteSet(subscriptions)
    /\ subscriptions \subseteq [who : Observers, id : 1 .. numbered, after : 0 .. accepted]
    /\ copies \subseteq [event : 1 .. accepted, who : Observers, id : Nat]
    /\ caller \in [Callers -> CallerStates]

\* Numbers are not reused.
NumbersAreUnique == \A s, t \in subscriptions : s.id = t.id => s = t

\* A copy goes with the subscription it was made for.
CopiesHaveSubscription ==
    \A c \in copies : \E s \in subscriptions :
        s.id = c.id /\ s.who = c.who /\ s.after < c.event

\* The owner of a subscription that never lapsed has access now.
UnlapsedHaveAccess ==
    \A s \in subscriptions : s.id \notin lapsed => Receiving(s)

\* What an acceptance has read: subscriptions of accounts that are not
\* deleted, or that went with their account; none that never lapsed is missed.
ReadingIsCurrent ==
    reading # NotReading =>
        /\ reading \subseteq [who : Observers, id : Nat, after : 0 .. accepted]
        /\ \A s \in reading : s \in subscriptions => s.who \notin gone
        /\ \A s \in subscriptions : s.id \notin lapsed => s \in reading

\* A subscription that never lapsed has a copy of every event since.
CopiesAreComplete ==
    \A s \in subscriptions : s.id \notin lapsed =>
        \A e \in s.after + 1 .. accepted :
            e = 1 \/ \E c \in copies : c.event = e /\ c.id = s.id

AccessInv ==
    /\ AccessTypeOK /\ RowsTyped /\ NumbersAreUnique
    /\ CopiesHaveSubscription /\ NoCopyForDeleted
    /\ UnlapsedHaveAccess /\ ReadingIsCurrent /\ CopiesAreComplete

----------------------------------------------------------------------------

\* Before the first subscription nothing is queued and nothing is read.
LEMMA AccessInitially ==
    ASSUME AccessInit
    PROVE  AccessInv
  <1>1. IsFiniteSet(subscriptions) /\ Cardinality(subscriptions) = 0
    BY FS_EmptySet DEF AccessInit
  <1>2. AccessTypeOK
    BY <1>1, AccessAssumption DEF AccessInit, AccessTypeOK
  <1>3. RowsTyped
    BY <1>1 DEF AccessInit, RowsTyped, CallerStates
  <1>4. QED
    BY <1>2, <1>3 DEF AccessInit, AccessInv, NumbersAreUnique, CopiesHaveSubscription,
        NoCopyForDeleted, UnlapsedHaveAccess, ReadingIsCurrent, CopiesAreComplete

\* A step that changes none of the rows, but what requests hold and who may
\* reach whom.
LEMMA OtherStep ==
    ASSUME AccessInv,
           UNCHANGED <<custodian, grants, gone, subscriptions, numbered, copies,
                       accepted, reading, lapsed>>,
           allowances' \subseteq Others \X (Observers \cup {Owner}),
           caller' \in [Callers -> CallerStates]
    PROVE  AccessInv'
  BY DEF AccessInv, AccessTypeOK, RowsTyped, NumbersAreUnique, CopiesHaveSubscription,
      NoCopyForDeleted, UnlapsedHaveAccess, Receiving, ReadingIsCurrent, CopiesAreComplete

\* Requests up to their transactions: authorisation, the checks, enrolment
\* and giving up.
LEMMA RequestStep ==
    ASSUME AccessInv, NEW r \in Callers,
           \/ \E p \in People \cup {Owner} : AuthorizeSilicon(r, p)
           \/ GiveUpRequest(r)
           \/ \E p \in People : CheckGrant(r, p) \/ CheckRevocation(r, p)
           \/ Enrol(r)
    PROVE  AccessInv'
  <1>1. UNCHANGED <<custodian, grants, allowances, gone, subscriptions, numbered,
                    copies, accepted, reading, lapsed>>
    BY DEF AuthorizeSilicon, GiveUpRequest, CheckGrant, CheckRevocation, Enrol, requestOnly
  <1>2. caller \in [Callers -> CallerStates]
    BY DEF AccessInv, RowsTyped
  <1>3. caller' \in [Callers -> CallerStates]
    <2>1. CASE \E p \in People \cup {Owner} : AuthorizeSilicon(r, p)
      <3>1. PICK p \in People \cup {Owner} : AuthorizeSilicon(r, p)
        BY <2>1
      <3>2. AccessOf(p) \in {"self", "custodian", "grant"}
        BY <3>1 DEF AuthorizeSilicon, HasAccess, AccessOf
      <3>3. [phase |-> "authorised", who |-> p, access |-> AccessOf(p)] \in CallerStates
        BY <3>2 DEF CallerStates
      <3>4. QED
        BY <1>2, <3>1, <3>3 DEF AuthorizeSilicon
    <2>2. CASE GiveUpRequest(r)
      BY <1>2, <2>2 DEF GiveUpRequest, Done, CallerStates
    <2>3. CASE \E p \in People : CheckGrant(r, p)
      <3>1. PICK p \in People : CheckGrant(r, p)
        BY <2>3
      <3>2. [phase |-> "granting", who |-> p] \in CallerStates
        BY DEF CallerStates
      <3>3. QED
        BY <1>2, <3>1, <3>2 DEF CheckGrant
    <2>4. CASE \E p \in People : CheckRevocation(r, p)
      <3>1. PICK p \in People : CheckRevocation(r, p)
        BY <2>4
      <3>2. [phase |-> "revoking", who |-> p, keeps |-> (p = custodian)] \in CallerStates
        BY DEF CallerStates
      <3>3. QED
        BY <1>2, <3>1, <3>2 DEF CheckRevocation
    <2>5. CASE Enrol(r)
      <3>1. caller[r].who \in Observers
        BY <2>5 DEF Enrol, Allows
      <3>2. [phase |-> "enrolled", who |-> caller[r].who] \in CallerStates
        BY <3>1 DEF CallerStates
      <3>3. QED
        BY <1>2, <2>5, <3>2 DEF Enrol
    <2>6. QED
      BY <2>1, <2>2, <2>3, <2>4, <2>5
  <1>4. allowances' \subseteq Others \X (Observers \cup {Owner})
    BY <1>1 DEF AccessInv, AccessTypeOK
  <1>5. QED
    BY <1>1, <1>3, <1>4, OtherStep

\* What every change of access has in common: some subscriptions go with
\* their copies, accounts deleted by the step among them, and what is left
\* unlapsed has access.
LEMMA RemovalStep ==
    ASSUME AccessInv, NEW gonners, Unsubscribed(gonners),
           UNCHANGED <<numbered, accepted, reading>>,
           custodian' \in Observers \cup {NoOne}, grants' \subseteq People,
           allowances' \subseteq Others \X (Observers \cup {Owner}),
           gone' \subseteq People \cup {Owner},
           caller' \in [Callers -> CallerStates],
           \A o \in Observers : o \in gone' => o \in gone \/ o \in gonners,
           lapsed \subseteq lapsed',
           UnlapsedHaveAccess'
    PROVE  AccessInv'
  <1>1. /\ subscriptions' = {s \in subscriptions : s.who \notin gonners}
        /\ copies' = {c \in copies : c.who \notin gonners}
    BY DEF Unsubscribed
  <1>2. IsFiniteSet(subscriptions') /\ Cardinality(subscriptions') <= MaxObservers
    <2>1. IsFiniteSet(subscriptions) /\ subscriptions' \subseteq subscriptions
      BY <1>1 DEF AccessInv, RowsTyped
    <2>2. IsFiniteSet(subscriptions') /\ Cardinality(subscriptions') <= Cardinality(subscriptions)
      BY <2>1, FS_Subset
    <2>3. Cardinality(subscriptions) \in Nat /\ Cardinality(subscriptions') \in Nat
      BY <2>1, <2>2, FS_CardinalityType
    <2>4. QED
      BY <2>2, <2>3, AccessAssumption DEF AccessInv, AccessTypeOK
  <1>3. RowsTyped'
    BY <1>1, <1>2 DEF AccessInv, RowsTyped
  <1>4. AccessTypeOK'
    BY <1>1, <1>2 DEF AccessInv, AccessTypeOK
  <1>5. NumbersAreUnique'
    BY <1>1 DEF AccessInv, NumbersAreUnique
  <1>6. CopiesHaveSubscription'
    BY <1>1 DEF AccessInv, CopiesHaveSubscription
  <1>7. NoCopyForDeleted'
    BY <1>1 DEF AccessInv, NoCopyForDeleted, RowsTyped
  <1>8. ReadingIsCurrent'
    <2> SUFFICES ASSUME reading # NotReading
                 PROVE  /\ reading \subseteq [who : Observers, id : Nat, after : 0 .. accepted]
                        /\ \A s \in reading : s \in subscriptions' => s.who \notin gone'
                        /\ \A s \in subscriptions' : s.id \notin lapsed' => s \in reading
      BY DEF ReadingIsCurrent, NotReading
    <2> QED
      BY <1>1 DEF AccessInv, ReadingIsCurrent
  <1>9. CopiesAreComplete'
    <2> SUFFICES ASSUME NEW s \in subscriptions', s.id \notin lapsed',
                        NEW e \in s.after + 1 .. accepted, e # 1
                 PROVE  \E c \in copies' : c.event = e /\ c.id = s.id
      BY DEF CopiesAreComplete
    <2>1. s \in subscriptions /\ s.who \notin gonners /\ s.id \notin lapsed
      BY <1>1
    <2>2. PICK c \in copies : c.event = e /\ c.id = s.id
      BY <2>1 DEF AccessInv, CopiesAreComplete
    <2>3. PICK t \in subscriptions : t.id = c.id /\ t.who = c.who
      BY DEF AccessInv, CopiesHaveSubscription
    <2>4. t = s
      BY <2>1, <2>2, <2>3 DEF AccessInv, NumbersAreUnique
    <2>5. c \in copies'
      BY <1>1, <2>1, <2>3, <2>4
    <2> QED
      BY <2>2, <2>5
  <1>10. QED
    BY <1>3, <1>4, <1>5, <1>6, <1>7, <1>8, <1>9 DEF AccessInv

\* With nobody to unsubscribe nothing is removed.
LEMMA NobodyGoes ==
    ASSUME UNCHANGED <<subscriptions, copies>>
    PROVE  Unsubscribed({})
  BY DEF Unsubscribed

\* Where lapses are recorded, the unlapsed have access.
LEMMA LapsesRecorded ==
    ASSUME Lapses
    PROVE  lapsed \subseteq lapsed' /\ UnlapsedHaveAccess'
  <1>1. lapsed' = lapsed \cup {s.id : s \in {x \in subscriptions' :
            x.who \in gone' \/ (x.who # custodian' /\ x.who \notin grants')}}
    BY DEF Lapses
  <1>2. ASSUME NEW s \in subscriptions', s.id \notin lapsed'
        PROVE  s.who \notin gone' /\ (s.who = custodian' \/ s.who \in grants')
    BY <1>1, <1>2
  <1>3. QED
    BY <1>1, <1>2 DEF UnlapsedHaveAccess, Receiving

\* grant and revoke, up to their transactions' end.
LEMMA GrantsStep ==
    ASSUME AccessInv, NEW r \in Callers, PutGrant(r) \/ DeleteGrant(r)
    PROVE  AccessInv'
  <1>1. caller' \in [Callers -> CallerStates]
    BY DEF AccessInv, RowsTyped, PutGrant, DeleteGrant, Done, CallerStates
  <1>2. lapsed \subseteq lapsed' /\ UnlapsedHaveAccess'
    BY LapsesRecorded DEF PutGrant, DeleteGrant
  <1>3. grants' \subseteq People
    BY DEF AccessInv, AccessTypeOK, RowsTyped, PutGrant, DeleteGrant, CallerStates, IdleCaller
  <1>4. UNCHANGED <<custodian, allowances, gone, numbered, accepted, reading>>
    BY DEF PutGrant, DeleteGrant
  <1>5. Unsubscribed({}) \/ Unsubscribed({caller[r].who})
    BY NobodyGoes DEF PutGrant, DeleteGrant
  <1>6. QED
    BY <1>1, <1>2, <1>3, <1>4, <1>5, RemovalStep DEF AccessInv, AccessTypeOK

\* unsubscribe, a sign-out: the account's subscription goes.
LEMMA UnsubscribeStep ==
    ASSUME AccessInv, NEW p \in Observers, Unsubscribe(p) \/ SignedOut(p)
    PROVE  AccessInv'
  <1>1. UNCHANGED <<custodian, grants, allowances, gone, numbered, accepted, reading,
                    caller, lapsed>>
    BY DEF Unsubscribe, SignedOut
  <1>2. Unsubscribed({p})
    BY DEF Unsubscribe, SignedOut
  <1>3. UnlapsedHaveAccess'
    BY <1>1, <1>2 DEF AccessInv, UnlapsedHaveAccess, Unsubscribed, Receiving
  <1>4. QED
    BY <1>1, <1>2, <1>3, RemovalStep DEF AccessInv, AccessTypeOK, RowsTyped

\* Another custodian, announced by an event or found by a lookup.
LEMMA CustodianStep ==
    ASSUME AccessInv, NEW p \in Observers \cup {NoOne},
           \/ \E from \in Observers \cup {NoOne} : ChangeCustodianTo(from, p)
           \/ LookUpCustodian(p)
    PROVE  AccessInv'
  <1>1. /\ UNCHANGED <<grants, allowances, gone, numbered, accepted, reading, caller>>
        /\ custodian' = p
        /\ Lapses
        /\ \E g : Unsubscribed(g)
    BY NobodyGoes DEF ChangeCustodianTo, LookUpCustodian
  <1>2. PICK g : Unsubscribed(g)
    BY <1>1
  <1>3. lapsed \subseteq lapsed' /\ UnlapsedHaveAccess'
    BY <1>1, LapsesRecorded
  <1>4. QED
    BY <1>1, <1>2, <1>3, RemovalStep DEF AccessInv, AccessTypeOK, RowsTyped

\* An account is deleted, the Silicon's or another.
LEMMA AccountGoneStep ==
    ASSUME AccessInv, NEW p \in People \cup {Owner}, AccountGone(p)
    PROVE  AccessInv'
  <1> DEFINE g == IF p = Owner THEN People ELSE {p}
  <1>1. /\ UNCHANGED <<custodian, numbered, accepted, reading, caller>>
        /\ Lapses
        /\ Unsubscribed(g)
        /\ gone' = gone \cup {p}
        /\ grants' \subseteq grants
        /\ allowances' \subseteq allowances
    BY DEF AccountGone
  <1>2. \A o \in Observers : o \in gone' => o \in gone \/ o \in g
    BY <1>1, AccessAssumption
  <1>3. lapsed \subseteq lapsed' /\ UnlapsedHaveAccess'
    BY <1>1, LapsesRecorded
  <1>4. /\ gone' \subseteq People \cup {Owner}
        /\ allowances' \subseteq Others \X (Observers \cup {Owner})
        /\ grants' \subseteq People
        /\ custodian' \in Observers \cup {NoOne}
        /\ caller' \in [Callers -> CallerStates]
    BY <1>1 DEF AccessInv, AccessTypeOK, RowsTyped
  <1> HIDE DEF g
  <1>5. QED
    BY <1>1, <1>2, <1>3, <1>4, RemovalStep

\* subscribe: another subscription, with the next number, beginning after the
\* events accepted so far; no acceptance is under way.
LEMMA SubscribeStep ==
    ASSUME AccessInv, NEW r \in Callers, Subscribe(r)
    PROVE  AccessInv'
  <1> DEFINE p == caller[r].who
             new == [who |-> p, id |-> numbered + 1, after |-> accepted]
  <1>1. caller' \in [Callers -> CallerStates] /\ p \in Observers
    BY DEF AccessInv, RowsTyped, Subscribe, Done, CallerStates, IdleCaller
  <1>2. lapsed \subseteq lapsed' /\ UnlapsedHaveAccess'
    BY LapsesRecorded DEF Subscribe
  <1>3. UNCHANGED <<custodian, grants, allowances, gone, copies, accepted, reading>>
    BY DEF Subscribe
  <1>4. CASE UNCHANGED <<subscriptions, numbered>>
    <2>1. Unsubscribed({})
      BY <1>3, <1>4, NobodyGoes
    <2> QED
      BY <1>1, <1>2, <1>3, <1>4, <2>1, RemovalStep DEF AccessInv, AccessTypeOK
  <1>5. CASE /\ ~ \E s \in subscriptions : s.who = p
             /\ RoomLeft
             /\ numbered' = numbered + 1
             /\ subscriptions' = subscriptions \cup {new}
    <2>1. reading = NotReading
      BY DEF Subscribe, Locked
    <2>2. numbered \in Nat /\ accepted \in Nat /\ IsFiniteSet(subscriptions)
      BY DEF AccessInv, RowsTyped
    <2>3. new \in [who : Observers, id : 1 .. numbered', after : 0 .. accepted']
      BY <1>1, <1>3, <1>5, <2>2
    <2>4. \A s \in subscriptions : s.id \in 1 .. numbered /\ s.id # new.id
      BY <2>2 DEF AccessInv, RowsTyped
    <2>5. IsFiniteSet(subscriptions') /\ Cardinality(subscriptions') <= MaxObservers
      <3>1. new \notin subscriptions
        BY <2>4
      <3>2. /\ IsFiniteSet(subscriptions')
            /\ Cardinality(subscriptions') = Cardinality(subscriptions) + 1
        BY <1>5, <2>2, <3>1, FS_AddElement
      <3>3. Cardinality(subscriptions) \in Nat
        BY <2>2, FS_CardinalityType
      <3> QED
        BY <1>5, <3>2, <3>3, AccessAssumption DEF RoomLeft
    <2> HIDE DEF new
    <2>6. RowsTyped'
      <3>1. subscriptions \subseteq [who : Observers, id : 1 .. numbered', after : 0 .. accepted']
        BY <1>3, <1>5, <2>2 DEF AccessInv, RowsTyped
      <3>2. subscriptions' \subseteq [who : Observers, id : 1 .. numbered', after : 0 .. accepted']
        BY <1>5, <2>3, <3>1
      <3> QED
        BY <1>1, <1>3, <1>5, <2>2, <2>5, <3>2 DEF AccessInv, RowsTyped
    <2>7. AccessTypeOK'
      <3>1. \A s, t \in subscriptions' : s.who = t.who => s = t
        BY <1>5 DEF AccessInv, AccessTypeOK, new
      <3>2. \A s \in subscriptions' : s.who \in Observers /\ s.id \in 1 .. numbered'
        BY <2>6 DEF RowsTyped
      <3> QED
        BY <1>3, <2>5, <3>1, <3>2 DEF AccessInv, AccessTypeOK
    <2>8. NumbersAreUnique'
      BY <1>5, <2>4 DEF AccessInv, NumbersAreUnique
    <2>9. CopiesHaveSubscription' /\ NoCopyForDeleted'
      BY <1>3, <1>5 DEF AccessInv, CopiesHaveSubscription, NoCopyForDeleted
    <2>10. ReadingIsCurrent'
      BY <1>3, <2>1 DEF ReadingIsCurrent, NotReading
    <2>11. CopiesAreComplete'
      <3> SUFFICES ASSUME NEW s \in subscriptions', s.id \notin lapsed',
                          NEW e \in s.after + 1 .. accepted', e # 1
                   PROVE  \E c \in copies' : c.event = e /\ c.id = s.id
        BY DEF CopiesAreComplete
      <3>1. s # new
        BY <1>3, <2>2 DEF new
      <3>2. s \in subscriptions /\ s.id \notin lapsed
        BY <1>2, <1>5, <3>1
      <3> QED
        BY <1>3, <3>2 DEF AccessInv, CopiesAreComplete
    <2> QED
      BY <1>2, <2>6, <2>7, <2>8, <2>9, <2>10, <2>11 DEF AccessInv
  <1>6. QED
    BY <1>4, <1>5 DEF Subscribe

\* allow and disallow touch only who may be granted access.
LEMMA AllowanceStep ==
    ASSUME AccessInv, NEW q \in Others, NEW x \in Observers \cup {Owner},
           PutAllowance(q, x) \/ DeleteAllowance(q, x)
    PROVE  AccessInv'
  <1>1. UNCHANGED <<custodian, grants, gone, subscriptions, numbered, copies, accepted,
                    reading, caller, lapsed>>
    BY DEF PutAllowance, DeleteAllowance
  <1>2. allowances' \subseteq Others \X (Observers \cup {Owner})
    BY DEF AccessInv, AccessTypeOK, PutAllowance, DeleteAllowance
  <1>3. caller' \in [Callers -> CallerStates]
    BY <1>1 DEF AccessInv, RowsTyped
  <1>4. QED
    BY <1>1, <1>2, <1>3, OtherStep

\* The observers are read: those with access, hence all unlapsed ones.
LEMMA ReadStep ==
    ASSUME AccessInv, ReadObservers
    PROVE  AccessInv'
  <1>1. /\ reading' = {s \in subscriptions : Receiving(s)}
        /\ UNCHANGED <<custodian, grants, allowances, gone, subscriptions, numbered,
                       copies, accepted, caller, lapsed>>
    BY DEF ReadObservers
  <1>2. ReadingIsCurrent'
    <2>1. reading' \subseteq [who : Observers, id : Nat, after : 0 .. accepted]
      BY <1>1 DEF AccessInv, RowsTyped
    <2>2. \A s \in reading' : s.who \notin gone
      BY <1>1 DEF Receiving
    <2>3. \A s \in subscriptions : s.id \notin lapsed => s \in reading'
      BY <1>1 DEF AccessInv, UnlapsedHaveAccess
    <2> QED
      BY <1>1, <2>1, <2>2, <2>3 DEF ReadingIsCurrent
  <1>3. QED
    BY <1>1, <1>2 DEF AccessInv, AccessTypeOK, RowsTyped, NumbersAreUnique,
        CopiesHaveSubscription, NoCopyForDeleted, UnlapsedHaveAccess, Receiving,
        CopiesAreComplete

\* The copies are inserted with the event, while every subscription read is
\* still there, or nothing is.
LEMMA EnqueueStep ==
    ASSUME AccessInv, EnqueueObservers
    PROVE  AccessInv'
  <1>1. /\ reading # NotReading /\ reading' = NotReading
        /\ UNCHANGED <<custodian, grants, allowances, gone, subscriptions, numbered,
                       caller, lapsed>>
    BY DEF EnqueueObservers
  <1>2. ReadingIsCurrent' /\ UnlapsedHaveAccess' /\ NumbersAreUnique' /\ AccessTypeOK'
    BY <1>1 DEF AccessInv, ReadingIsCurrent, NotReading, UnlapsedHaveAccess, Receiving,
        NumbersAreUnique, AccessTypeOK
  <1>3. CASE UNCHANGED <<accepted, copies>>
    BY <1>1, <1>2, <1>3 DEF AccessInv, RowsTyped, CopiesHaveSubscription,
        NoCopyForDeleted, CopiesAreComplete
  <1>4. CASE /\ reading \subseteq subscriptions
             /\ accepted' = accepted + 1
             /\ copies' = copies \cup
                   {[event |-> accepted + 1, who |-> s.who, id |-> s.id] : s \in reading}
    <2>1. /\ accepted \in Nat /\ numbered \in Nat
          /\ \A s \in subscriptions : /\ s.who \in Observers /\ s.id \in 1 .. numbered
                                      /\ s.after \in 0 .. accepted
      BY DEF AccessInv, RowsTyped
    <2>2. \A c \in copies' : c \in copies \/ \E s \in reading :
              c = [event |-> accepted + 1, who |-> s.who, id |-> s.id]
      BY <1>4
    <2>3. RowsTyped'
      <3>1. subscriptions' \subseteq [who : Observers, id : 1 .. numbered', after : 0 .. accepted']
        <4> SUFFICES ASSUME NEW s \in subscriptions
                     PROVE  s \in [who : Observers, id : 1 .. numbered, after : 0 .. accepted + 1]
          BY <1>1, <1>4
        <4>1. s \in [who : Observers, id : 1 .. numbered, after : 0 .. accepted]
          BY DEF AccessInv, RowsTyped
        <4> QED
          BY <2>1, <4>1
      <3>2. copies' \subseteq [event : 1 .. accepted', who : Observers, id : Nat]
        <4> SUFFICES ASSUME NEW c \in copies'
                     PROVE  c \in [event : 1 .. accepted + 1, who : Observers, id : Nat]
          BY <1>4
        <4>1. CASE c \in copies
          <5>1. c \in [event : 1 .. accepted, who : Observers, id : Nat]
            BY <4>1 DEF AccessInv, RowsTyped
          <5> QED
            BY <2>1, <5>1
        <4>2. CASE \E s \in reading : c = [event |-> accepted + 1, who |-> s.who, id |-> s.id]
          BY <1>4, <2>1, <4>2
        <4> QED
          BY <2>2, <4>1, <4>2
      <3> QED
        BY <1>1, <1>4, <2>1, <3>1, <3>2 DEF AccessInv, RowsTyped
    <2>4. CopiesHaveSubscription'
      <3> SUFFICES ASSUME NEW c \in copies'
                   PROVE  \E s \in subscriptions : s.id = c.id /\ s.who = c.who /\ s.after < c.event
        BY <1>1 DEF CopiesHaveSubscription
      <3>1. CASE c \in copies
        BY <3>1 DEF AccessInv, CopiesHaveSubscription
      <3>2. CASE \E s \in reading : c = [event |-> accepted + 1, who |-> s.who, id |-> s.id]
        BY <1>4, <2>1, <3>2
      <3> QED
        BY <2>2, <3>1, <3>2
    <2>5. NoCopyForDeleted'
      BY <1>1, <1>4, <2>2 DEF AccessInv, NoCopyForDeleted, ReadingIsCurrent
    <2>6. CopiesAreComplete'
      <3> SUFFICES ASSUME NEW s \in subscriptions, s.id \notin lapsed,
                          NEW e \in s.after + 1 .. accepted + 1, e # 1
                   PROVE  \E c \in copies' : c.event = e /\ c.id = s.id
        BY <1>1, <1>4 DEF CopiesAreComplete
      <3>1. CASE e \in s.after + 1 .. accepted
        BY <1>4, <3>1 DEF AccessInv, CopiesAreComplete
      <3>2. CASE e = accepted + 1
        <4>1. s \in reading
          BY <1>1 DEF AccessInv, ReadingIsCurrent
        <4> DEFINE c == [event |-> accepted + 1, who |-> s.who, id |-> s.id]
        <4>2. c \in copies'
          BY <1>4, <4>1
        <4>3. c.event = e /\ c.id = s.id
          BY <3>2
        <4> QED
          BY <4>2, <4>3
      <3> QED
        BY <2>1, <3>1, <3>2
    <2> QED
      BY <1>2, <2>3, <2>4, <2>5, <2>6 DEF AccessInv
  <1>5. QED
    BY <1>3, <1>4 DEF EnqueueObservers, StillSubscribed

\* An acceptance that fails leaves no trace; a copy of the first event may go.
LEMMA AbortAndPublishStep ==
    ASSUME AccessInv, AbortAcceptance \/ \E c \in copies : Published(c)
    PROVE  AccessInv'
  <1>1. CASE AbortAcceptance
    BY <1>1 DEF AbortAcceptance, AccessInv, AccessTypeOK, RowsTyped, NumbersAreUnique,
        CopiesHaveSubscription, NoCopyForDeleted, UnlapsedHaveAccess, Receiving,
        ReadingIsCurrent, CopiesAreComplete
  <1>2. CASE \E c \in copies : Published(c)
    <2>1. PICK c \in copies : Published(c)
      BY <1>2
    <2>2. /\ c.event = 1 /\ copies' = copies \ {c}
          /\ UNCHANGED <<custodian, grants, allowances, gone, subscriptions, numbered,
                         accepted, reading, caller, lapsed>>
      BY <2>1 DEF Published
    <2>3. CopiesAreComplete'
      BY <2>2 DEF AccessInv, CopiesAreComplete
    <2>4. AccessTypeOK' /\ RowsTyped' /\ NumbersAreUnique' /\ UnlapsedHaveAccess'
      BY <2>2 DEF AccessInv, AccessTypeOK, RowsTyped, NumbersAreUnique, UnlapsedHaveAccess,
          Receiving
    <2>5. CopiesHaveSubscription' /\ NoCopyForDeleted' /\ ReadingIsCurrent'
      BY <2>2 DEF AccessInv, CopiesHaveSubscription, NoCopyForDeleted, ReadingIsCurrent,
          NotReading
    <2> QED
      BY <2>3, <2>4, <2>5 DEF AccessInv
  <1>3. QED
    BY <1>1, <1>2

----------------------------------------------------------------------------

\* Every step preserves the invariant, and so does a stutter.
LEMMA AccessInduction ==
    ASSUME AccessInv, [AccessNext]_accessVars
    PROVE  AccessInv'
  <1>1. CASE UNCHANGED accessVars
    BY <1>1, OtherStep DEF accessVars, AccessInv, AccessTypeOK, RowsTyped
  <1>2. CASE \E r \in Callers :
                \/ \E p \in People \cup {Owner} : AuthorizeSilicon(r, p)
                \/ GiveUpRequest(r)
                \/ \E p \in People : CheckGrant(r, p) \/ CheckRevocation(r, p)
                \/ Enrol(r)
    BY <1>2, RequestStep
  <1>3. CASE \E r \in Callers : PutGrant(r) \/ DeleteGrant(r)
    BY <1>3, GrantsStep
  <1>4. CASE \E r \in Callers : Subscribe(r)
    BY <1>4, SubscribeStep
  <1>5. CASE \E q \in Others, x \in Observers \cup {Owner} :
                PutAllowance(q, x) \/ DeleteAllowance(q, x)
    BY <1>5, AllowanceStep
  <1>6. CASE \E p \in Observers : Unsubscribe(p) \/ SignedOut(p)
    BY <1>6, UnsubscribeStep
  <1>7. CASE ReadObservers
    BY <1>7, ReadStep
  <1>8. CASE EnqueueObservers
    BY <1>8, EnqueueStep
  <1>9. CASE AbortAcceptance \/ \E c \in copies : Published(c)
    BY <1>9, AbortAndPublishStep
  <1>10. CASE \E p \in Observers \cup {NoOne} :
                 \/ \E from \in Observers \cup {NoOne} : ChangeCustodianTo(from, p)
                 \/ LookUpCustodian(p)
    BY <1>10, CustodianStep
  <1>11. CASE \E p \in People \cup {Owner} : AccountGone(p)
    BY <1>11, AccountGoneStep
  <1>12. QED
    BY <1>1, <1>2, <1>3, <1>4, <1>5, <1>6, <1>7, <1>8, <1>9, <1>10, <1>11
        DEF AccessNext, AccessStep

\* The inductive invariant holds throughout every behaviour.
THEOREM AccessInvariance == AccessSpec => []AccessInv
  BY AccessInitially, AccessInduction, PTL DEF AccessSpec

\* One subscription each within the limit, its copies exactly the events
\* since it began while its owner keeps access, and none for a deleted
\* account: subscribe, unsubscribe, enqueue_observers and what grants,
\* custodians, sign-outs and deletions remove, whatever requests were in
\* flight.
THEOREM SubscribersGetTheirEvents == AccessSpec => []CopiesFollowSubscriptions
  <1>1. AccessInv => CopiesFollowSubscriptions
    BY DEF AccessInv, CopiesFollowSubscriptions, SubscriptionBetweenEvents,
        CopiesHaveSubscription, CopiesAreComplete
  <1>2. QED
    BY <1>1, AccessInvariance, PTL

\* Those with access or once replaced as custodian.
Entitled(p) == p = custodian \/ p \in grants \/ p \in replaced

\* What is queued, or read to be queued, is for the entitled; a revocation
\* that leaves a subscription took its owner for the custodian.
ReplacedInv ==
    /\ \A c \in copies : Entitled(c.who)
    /\ reading # NotReading =>
          \A s \in reading : s \in subscriptions => Entitled(s.who)
    /\ \A r \in Callers : caller[r].phase = "revoking" /\ caller[r].keeps =>
          caller[r].who = custodian \/ caller[r].who \in replaced

\* A grant ends by its owner's deletion or by a revocation; each takes the
\* subscription and its copies along, or keeps them for a custodian.
LEMMA GrantsEnd ==
    ASSUME AccessInv, ReplacedInv, AccessNext, NEW p \in Observers, p \in grants, p \notin grants'
    PROVE  \/ p = custodian \/ p \in replaced
           \/ /\ \A s \in subscriptions' : s.who # p
              /\ \A c \in copies' : c.who # p
  <1>1. CASE \E q \in People \cup {Owner} : AccountGone(q)
    <2>1. PICK q \in People \cup {Owner} : AccountGone(q)
      BY <1>1
    <2>2. Unsubscribed(IF q = Owner THEN People ELSE {q}) /\ (q = Owner \/ p = q)
      BY <2>1 DEF AccountGone
    <2> QED
      BY <2>2 DEF Unsubscribed, People
  <1>2. CASE \E r \in Callers : DeleteGrant(r)
    BY <1>2 DEF DeleteGrant, Unsubscribed, ReplacedInv
  <1>3. QED
    BY <1>1, <1>2 DEF AccessNext, AccessStep, AuthorizeSilicon, GiveUpRequest, CheckGrant,
        PutGrant, CheckRevocation, Enrol, Subscribe, requestOnly, PutAllowance,
        DeleteAllowance, Unsubscribe, SignedOut, ReadObservers, EnqueueObservers,
        AbortAcceptance, Published, ChangeCustodianTo, LookUpCustodian

\* Entitlement outlasts every step, except with its subscription and copies.
LEMMA EntitledStay ==
    ASSUME AccessInv, ReplacedInv, AccessNext, NEW p \in Observers, Entitled(p)
    PROVE  \/ Entitled(p)'
           \/ /\ \A s \in subscriptions' : s.who # p
              /\ \A c \in copies' : c.who # p
  <1>1. replaced' = replaced \cup ({custodian} \ {custodian', NoOne})
    BY DEF AccessNext
  <1>2. QED
    BY <1>1, GrantsEnd, AccessAssumption DEF Entitled

\* Copies come from an acceptance, whose subscriptions are still there.
LEMMA CopiesComeFrom ==
    ASSUME AccessNext
    PROVE  \/ copies' \subseteq copies
           \/ /\ reading # NotReading /\ reading \subseteq subscriptions
              /\ UNCHANGED <<custodian, grants>>
              /\ \A c \in copies' : c \in copies \/ \E s \in reading : s.who = c.who
  <1>1. CASE EnqueueObservers
    <2>1. CASE StillSubscribed(reading)
      <3>1. /\ reading # NotReading /\ reading \subseteq subscriptions
            /\ UNCHANGED <<custodian, grants>>
            /\ copies' = copies \cup
                  {[event |-> accepted + 1, who |-> s.who, id |-> s.id] : s \in reading}
        BY <1>1, <2>1 DEF EnqueueObservers, StillSubscribed
      <3>2. QED
        BY <3>1
    <2>2. CASE ~StillSubscribed(reading)
      BY <1>1, <2>2 DEF EnqueueObservers
    <2>3. QED
      BY <2>1, <2>2
  <1>2. CASE ~EnqueueObservers
    <2>1. (\E g : Unsubscribed(g)) \/ copies' = copies \/ \E c \in copies : Published(c)
      BY <1>2 DEF AccessNext, AccessStep, AuthorizeSilicon, GiveUpRequest, CheckGrant,
          PutGrant, CheckRevocation, DeleteGrant, Enrol, Subscribe, requestOnly,
          PutAllowance, DeleteAllowance, Unsubscribe, SignedOut, ReadObservers,
          AbortAcceptance, ChangeCustodianTo, LookUpCustodian, AccountGone
    <2>2. QED
      BY <2>1 DEF Unsubscribed, Published
  <1>3. QED
    BY <1>1, <1>2

\* A request comes to revoke by its check alone.
LEMMA RevocationsAreChecked ==
    ASSUME AccessInv, AccessNext, ~ \E q \in Callers, p \in People : CheckRevocation(q, p),
           NEW r \in Callers, caller'[r].phase = "revoking"
    PROVE  caller'[r] = caller[r]
  <1>1. caller \in [Callers -> CallerStates]
    BY DEF AccessInv, RowsTyped
  <1>2. \/ caller' = caller
        \/ \E q \in Callers : \E x : caller' = [caller EXCEPT ![q] = x] /\ x.phase # "revoking"
    <2>1. CASE \E q \in Callers :
                  \/ \E p \in People \cup {Owner} : AuthorizeSilicon(q, p)
                  \/ \E p \in People : CheckGrant(q, p)
                  \/ Enrol(q)
      <3>1. PICK q \in Callers :
                  \/ \E p \in People \cup {Owner} : AuthorizeSilicon(q, p)
                  \/ \E p \in People : CheckGrant(q, p)
                  \/ Enrol(q)
        BY <2>1
      <3>2. CASE \E p \in People \cup {Owner} : AuthorizeSilicon(q, p)
        <4>1. PICK p \in People \cup {Owner} : AuthorizeSilicon(q, p)
          BY <3>2
        <4>2. PICK x : x = [phase |-> "authorised", who |-> p, access |-> AccessOf(p)]
          OBVIOUS
        <4>3. caller' = [caller EXCEPT ![q] = x] /\ x.phase # "revoking"
          BY <4>1, <4>2 DEF AuthorizeSilicon
        <4>4. QED
          BY <4>3
      <3>3. CASE \E p \in People : CheckGrant(q, p)
        <4>1. PICK p \in People : CheckGrant(q, p)
          BY <3>3
        <4>2. PICK x : x = [phase |-> "granting", who |-> p]
          OBVIOUS
        <4>3. caller' = [caller EXCEPT ![q] = x] /\ x.phase # "revoking"
          BY <4>1, <4>2 DEF CheckGrant
        <4>4. QED
          BY <4>3
      <3>4. CASE Enrol(q)
        <4>1. PICK x : x = [phase |-> "enrolled", who |-> caller[q].who]
          OBVIOUS
        <4>2. caller' = [caller EXCEPT ![q] = x] /\ x.phase # "revoking"
          BY <3>4, <4>1 DEF Enrol
        <4>3. QED
          BY <4>2
      <3>5. QED
        BY <3>1, <3>2, <3>3, <3>4
    <2>2. CASE \E q \in Callers : GiveUpRequest(q) \/ PutGrant(q) \/ DeleteGrant(q) \/ Subscribe(q)
      <3>1. PICK q \in Callers : Done(q)
        BY <2>2 DEF GiveUpRequest, PutGrant, DeleteGrant, Subscribe
      <3>2. PICK x : x = IdleCaller
        OBVIOUS
      <3>3. caller' = [caller EXCEPT ![q] = x] /\ x.phase # "revoking"
        BY <3>1, <3>2 DEF Done, IdleCaller
      <3>4. QED
        BY <3>3
    <2>3. CASE UNCHANGED caller
      BY <2>3
    <2>4. QED
      BY <2>1, <2>2, <2>3 DEF AccessNext, AccessStep, PutAllowance, DeleteAllowance,
          Unsubscribe, SignedOut, ReadObservers, EnqueueObservers, AbortAcceptance,
          Published, ChangeCustodianTo, LookUpCustodian, AccountGone
  <1>3. QED
    BY <1>1, <1>2

\* A step of AccessNext keeps what is queued or read for the entitled.
LEMMA ReplacedKept ==
    ASSUME AccessInv, ReplacedInv, [AccessNext]_accessVars
    PROVE  ReplacedInv'
  <1>1. CASE UNCHANGED accessVars
    BY <1>1 DEF accessVars, ReplacedInv, Entitled, NotReading
  <1>2. CASE AccessNext
    <2>1. replaced' = replaced \cup ({custodian} \ {custodian', NoOne})
      BY <1>2 DEF AccessNext
    <2>2. \A c \in copies : c.who \in Observers
      BY DEF AccessInv, RowsTyped
    <2>3. \A s \in subscriptions : s.who \in Observers
      BY DEF AccessInv, RowsTyped
    <2>4. \/ copies' \subseteq copies
          \/ /\ reading # NotReading /\ reading \subseteq subscriptions
             /\ UNCHANGED <<custodian, grants>>
             /\ \A c \in copies' : c \in copies \/ \E s \in reading : s.who = c.who
      BY <1>2, CopiesComeFrom
    <2>5. \A c \in copies' : Entitled(c.who)'
      <3>1. CASE copies' \subseteq copies
        BY <1>2, <2>2, <3>1, EntitledStay DEF ReplacedInv
      <3>2. CASE /\ reading # NotReading /\ reading \subseteq subscriptions
                 /\ UNCHANGED <<custodian, grants>>
                 /\ \A c \in copies' : c \in copies \/ \E s \in reading : s.who = c.who
        BY <2>1, <3>2 DEF ReplacedInv, Entitled
      <3>3. QED
        BY <2>4, <3>1, <3>2
    <2>6. ASSUME reading' # NotReading
          PROVE  \A s \in reading' : s \in subscriptions' => Entitled(s.who)'
      <3>1. CASE ReadObservers
        BY <3>1 DEF ReadObservers, Receiving, Entitled
      <3>2. CASE ~ReadObservers
        <4>1. reading' = reading
          BY <1>2, <2>6, <3>2 DEF AccessNext, AccessStep, AuthorizeSilicon, GiveUpRequest,
              CheckGrant, PutGrant, CheckRevocation, DeleteGrant, Enrol, Subscribe,
              requestOnly, PutAllowance, DeleteAllowance, Unsubscribe, SignedOut,
              EnqueueObservers, AbortAcceptance, Published, ChangeCustodianTo,
              LookUpCustodian, AccountGone
        <4>2. subscriptions' \subseteq subscriptions
          BY <1>2, <2>6, <4>1 DEF AccessNext, AccessStep, AuthorizeSilicon, GiveUpRequest,
              CheckGrant, PutGrant, CheckRevocation, DeleteGrant, Enrol, Subscribe, Locked,
              requestOnly, PutAllowance, DeleteAllowance, Unsubscribe, SignedOut,
              Unsubscribed, ReadObservers, EnqueueObservers, AbortAcceptance, Published,
              ChangeCustodianTo, LookUpCustodian, AccountGone
        <4>3. QED
          BY <1>2, <2>3, <2>6, <4>1, <4>2, EntitledStay DEF ReplacedInv
      <3>3. QED
        BY <3>1, <3>2
    <2>7. ASSUME NEW r \in Callers, caller'[r].phase = "revoking", caller'[r].keeps
          PROVE  caller'[r].who = custodian' \/ caller'[r].who \in replaced'
      <3>1. CASE \E q \in Callers, p \in People : CheckRevocation(q, p)
        <4>1. PICK q \in Callers, p \in People : CheckRevocation(q, p)
          BY <3>1
        <4>2. PICK x : x = [phase |-> "revoking", who |-> p, keeps |-> (p = custodian)]
          OBVIOUS
        <4>3. /\ caller' = [caller EXCEPT ![q] = x] /\ custodian' = custodian
              /\ x.who = p /\ (x.keeps => p = custodian)
          BY <4>1, <4>2 DEF CheckRevocation, requestOnly
        <4>4. caller \in [Callers -> CallerStates]
          BY DEF AccessInv, RowsTyped
        <4>5. CASE r = q
          BY <2>7, <4>3, <4>4, <4>5
        <4>6. CASE r # q
          BY <2>1, <2>7, <4>3, <4>4, <4>6 DEF ReplacedInv
        <4>7. QED
          BY <4>5, <4>6
      <3>2. CASE ~ \E q \in Callers, p \in People : CheckRevocation(q, p)
        <4>1. caller'[r] = caller[r]
          BY <1>2, <2>7, <3>2, RevocationsAreChecked
        <4>2. caller[r] \in CallerStates /\ caller[r].phase = "revoking"
          BY <2>7, <4>1 DEF AccessInv, RowsTyped
        <4>3. caller[r].who # NoOne
          BY <4>2, AccessAssumption DEF CallerStates, IdleCaller, People
        <4>4. caller[r].who = custodian \/ caller[r].who \in replaced
          BY <2>7, <4>1, <4>2 DEF ReplacedInv
        <4>5. QED
          BY <2>1, <4>1, <4>3, <4>4
      <3>3. QED
        BY <3>1, <3>2
    <2>8. QED
      BY <2>5, <2>6, <2>7 DEF ReplacedInv, NotReading
  <1>3. QED
    BY <1>1, <1>2

\* Copies wait for observers with access, or for one who was replaced as
\* custodian at some time (delete_grant, enqueue_observers and its foreign
\* key, record_account_view), for any number of Carbons and requests.
THEOREM RevokedGetNothing == AccessSpec => []CopiesGoWithGrants
  <1>1. AccessInit => ReplacedInv
    BY DEF AccessInit, ReplacedInv, IdleCaller
  <1>2. AccessInv /\ ReplacedInv => CopiesGoWithGrants
    <2>1. ASSUME AccessInv, ReplacedInv, NEW c \in copies, c.who \notin replaced
          PROVE  HasAccess(c.who)
      <3>1. c.who \in Observers /\ c.who # Owner
        BY <2>1, AccessAssumption DEF AccessInv, RowsTyped
      <3>2. c.who = custodian \/ c.who \in grants
        BY <2>1 DEF ReplacedInv, Entitled
      <3>3. QED
        BY <3>1, <3>2 DEF HasAccess, AccessOf
    <2>2. QED
      BY <2>1 DEF CopiesGoWithGrants
  <1>3. AccessInv /\ AccessInv' /\ ReplacedInv /\ [AccessNext]_accessVars => ReplacedInv'
    BY ReplacedKept
  <1>4. QED
    BY <1>1, <1>2, <1>3, AccessInvariance, PTL DEF AccessSpec
=============================================================================
