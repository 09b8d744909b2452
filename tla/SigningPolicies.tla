--------------------------- MODULE SigningPolicies ---------------------------
(***************************************************************************)
(* The signing policy of one hook as management requests change it: the    *)
(* algorithm, the encoding of the secret, the public key and the secret    *)
(* itself (application/hooks.rs, application/commands.rs,                  *)
(* domain/signature/config.rs, domain/signature/keys.rs, domain/hook.rs).  *)
(*                                                                         *)
(* A request reads the hook, resolves its patch against what it read or    *)
(* generates a secret for the encoding it read, and stores the outcome in  *)
(* a later transaction: an update the whole policy, a rotation only the    *)
(* secret.  Other requests store theirs in between.  HookLifecycle has the *)
(* rest of the hook's state; here it is not deleted.                       *)
(***************************************************************************)
EXTENDS Naturals

CONSTANTS
    Editors,        \* management requests under way at once
    Patches,        \* the changes clients ask for
    Unset           \* an absent member

VARIABLES
    policy,     \* the signing columns of the hook
    editor,     \* what each request holds
    crossed     \* history: a rotation stored a secret generated for an
                \* encoding that an update had replaced since it was read

policyVars == <<policy, editor, crossed>>

Encodings == {"utf8", "hex", "base64"}
Asymmetric == {"Ed25519", "RSA"}
Algorithms == {"HMAC"} \cup Asymmetric

(* A secret is the set of encodings its text can be read in, {} is none.   *)
(* A generated one is "v1." with letters and digits, or that encoded.      *)
GeneratedFor(encoding) == {"utf8", encoding}
SuppliedSecrets == {t \in SUBSET Encodings : "utf8" \in t}
NoText == {}

(* Key material by what it parses as; short RSA keys and broken PEM parse  *)
(* as nothing.                                                             *)
Materials == {"ed25519 key", "rsa key", "unusable"}
KeyParses(algorithm, material) ==
    \/ algorithm = "Ed25519" /\ material = "ed25519 key"
    \/ algorithm = "RSA" /\ material = "rsa key"

(* A patch names a value for some members; public may also be cleared.     *)
PatchesAllowed ==
    [required : BOOLEAN \cup {Unset}, algorithm : Algorithms \cup {Unset},
     encoding : Encodings \cup {Unset}, public : Materials \cup {"clear", Unset},
     secret : SuppliedSecrets \cup {NoText}]
ASSUME PatchesAssumption == Patches \subseteq PatchesAllowed

(* create_hook_inner: a symmetric hook without a supplied secret.          *)
NewPolicies ==
    {[required |-> r, algorithm |-> "HMAC", encoding |-> e, public |-> Unset,
      secret |-> GeneratedFor(e)] : r \in BOOLEAN, e \in Encodings}

IdleEditor == [phase |-> "idle"]
PolicyInit ==
    /\ policy \in NewPolicies
    /\ editor = [c \in Editors |-> IdleEditor]
    /\ crossed = FALSE

----------------------------------------------------------------------------
(* From a patch to a policy.                                               *)

Else(member, base) == IF member = Unset THEN base ELSE member

(* SigningPatch::resolve.                                                  *)
Resolve(patch, base) ==
    [required |-> Else(patch.required, base.required),
     algorithm |-> Else(patch.algorithm, base.algorithm),
     encoding |-> Else(patch.encoding, base.encoding),
     public |-> IF patch.public = "clear" THEN Unset ELSE Else(patch.public, base.public),
     secret |-> patch.secret]

(* SignatureConfig::validate and validate_signing_input.                   *)
ValidInput(input) ==
    /\ IF input.algorithm \in Asymmetric THEN KeyParses(input.algorithm, input.public)
       ELSE input.public = Unset
    /\ input.secret # NoText => input.algorithm \notin Asymmetric
    /\ input.secret # NoText => input.encoding \in input.secret

(* A secret that stays must be readable in the encoding it gets.           *)
Retains(input, base) ==
    input.encoding # base.encoding /\ base.secret # NoText =>
        input.encoding \in base.secret

(* Mutant: the secret of an earlier algorithm stands for this one's.       *)
PresentBefore(input, base) == TRUE
(* Required signatures are not asked for without a secret.                 *)
Present(input, base) ==
    input.required => input.secret # NoText \/ base.secret # NoText

(* signing_policy: what a resolved patch may become over the policy read,  *)
(* one policy or none.                                                     *)
PoliciesOf(input, base) ==
    {[input EXCEPT !.secret = s] : s \in
        CASE ~ValidInput(input) -> {}
          [] ValidInput(input) /\ input.algorithm \in Asymmetric -> {NoText}
          [] ValidInput(input) /\ input.algorithm \notin Asymmetric
             /\ input.secret # NoText -> {input.secret}
          [] OTHER -> IF Retains(input, base) /\ Present(input, base)
                      THEN {base.secret} ELSE {}}

----------------------------------------------------------------------------
(* Requests.                                                               *)

(* update_hook up to its transaction.                                      *)
PrepareUpdate(c, patch) ==
    /\ editor[c].phase = "idle"
    /\ \E p \in PoliciesOf(Resolve(patch, policy), policy) :
          editor' = [editor EXCEPT ![c] = [phase |-> "update", policy |-> p]]
    /\ UNCHANGED <<policy, crossed>>

(* rotate_hook_secret up to its transaction.                               *)
PrepareRotation(c) ==
    /\ editor[c].phase = "idle"
    /\ policy.algorithm \notin Asymmetric
    /\ editor' = [editor EXCEPT ![c] =
          [phase |-> "rotate", encoding |-> policy.encoding,
           secret |-> GeneratedFor(policy.encoding)]]
    /\ UNCHANGED <<policy, crossed>>

(* PgStore::update_hook writes every column of the policy.                 *)
StoreUpdate(c) ==
    /\ editor[c].phase = "update"
    /\ policy' = editor[c].policy
    /\ editor' = [editor EXCEPT ![c] = IdleEditor]
    /\ UNCHANGED crossed

(* PgStore::rotate_hook_secret looks at the hook's status only.            *)
StoreRotation(c) ==
    /\ editor[c].phase = "rotate"
    /\ policy' = [policy EXCEPT !.secret = editor[c].secret]
    /\ editor' = [editor EXCEPT ![c] = IdleEditor]
    /\ crossed' = (crossed \/ policy.encoding # editor[c].encoding)

(* A request that is refused, fails or is dropped.                         *)
Abandon(c) ==
    /\ editor[c].phase # "idle"
    /\ editor' = [editor EXCEPT ![c] = IdleEditor]
    /\ UNCHANGED <<policy, crossed>>

PolicyNext ==
    \E c \in Editors :
        \/ \E patch \in Patches : PrepareUpdate(c, patch)
        \/ PrepareRotation(c) \/ StoreUpdate(c) \/ StoreRotation(c) \/ Abandon(c)

PolicySpec == PolicyInit /\ [][PolicyNext]_policyVars

----------------------------------------------------------------------------
(* Properties.                                                             *)

(* What a policy verifies signatures with: a public key of its algorithm,  *)
(* or a secret that reads in its encoding.                                 *)
CanVerify(p) ==
    IF p.algorithm \in Asymmetric THEN KeyParses(p.algorithm, p.public)
    ELSE p.secret # NoText /\ p.encoding \in p.secret

(* "Secrets ... must decode to a non-empty key in the selected encoding": a *)
(* hook that requires signatures can verify one, else it blocks every      *)
(* request.  Refuted: a rotation generates its secret for the encoding it  *)
(* read and stores it after an update to another encoding.                 *)
RequiredCanVerify == policy.required => CanVerify(policy)

(* The same except after such a crossing: as long as no rotation stored a  *)
(* secret for an encoding already replaced, no sequence of patches and no  *)
(* other overlap of updates and rotations, which store what they resolved  *)
(* from a policy read earlier, takes from a hook that requires signatures  *)
(* what it verifies them with.                                             *)
VerifiesUnlessCrossed == ~crossed => RequiredCanVerify

(* With or without a crossing, such a hook has key material: a public key  *)
(* of its algorithm, or some secret.                                       *)
RequiredHasMaterial ==
    policy.required =>
        IF policy.algorithm \in Asymmetric
        THEN KeyParses(policy.algorithm, policy.public)
        ELSE policy.secret # NoText

(* A secret kept for a hook that does not require signatures reads as      *)
(* well, before a crossing: requiring them again is one patch away.        *)
StoredSecretReads ==
    policy.algorithm \notin Asymmetric /\ policy.secret # NoText /\ ~crossed =>
        policy.encoding \in policy.secret

(* What the code keeps of a stored policy: key material always, and use of *)
(* it until a rotation crosses a change of the encoding.                   *)
PolicyIsUsable == RequiredHasMaterial /\ VerifiesUnlessCrossed /\ StoredSecretReads
=============================================================================
