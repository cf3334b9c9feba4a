--------------------------- MODULE TrustRegistry ---------------------------
(***************************************************************************)
(* Which key may sign what, where, for whom and until when (trust.py of    *)
(* src/wallet_twin_v32), while time passes and keys are registered; and    *)
(* the decision packages the repository signs and verifies meanwhile       *)
(* (repository.py, dsse.py).                                               *)
(*                                                                         *)
(* A signature is the key that made it and what it was made over: bytes    *)
(* and cryptography are left out.  A key is a record; once it is in the    *)
(* registry nothing changes it, so its revocation has a fixed time.        *)
(***************************************************************************)
EXTENDS EvidenceModes, FiniteSets

CONSTANTS
    KeyId,
    Domain,        \* "rehearsal", "bank", "public": any string in the code
    Environment,
    Role,
    LocalKey,      \* the id of the repository's own signer
    Candidate,     \* the keys somebody may try to register
    MaxTime        \* bound on the clock

Time == 0 .. MaxTime

(* Later than every moment: a key that is never revoked. *)
Never == MaxTime + 1

KeyForm ==
    [id : KeyId, domain : Domain, modes : SUBSET Mode, environments : SUBSET Environment,
     roles : SUBSET Role, notBefore : Time, notAfter : Time, revokedAt : 0 .. Never]

ASSUME TrustAssumption ==
    /\ MaxTime \in Nat \ {0}
    /\ {"rehearsal", "bank"} \subseteq Domain
    /\ {"FIXTURE", "DEVELOPMENT", "CLIENT_DEMO"} \subseteq Environment
    /\ {"ENGINEERING", "REHEARSAL_OPERATOR"} \subseteq Role
    /\ LocalKey \in KeyId
    /\ Candidate \subseteq KeyForm

VARIABLES
    now,        \* the wall clock
    registry,   \* _keys: key id -> key
    packages    \* the signed decisions that have been issued

vars == <<now, registry, packages>>

(* rehearsal_key. *)
RehearsalKey(id, from, until) ==
    [id |-> id, domain |-> "rehearsal", modes |-> SyntheticModes,
     environments |-> {"FIXTURE", "DEVELOPMENT", "CLIENT_DEMO"},
     roles |-> {"ENGINEERING", "REHEARSAL_OPERATOR"},
     notBefore |-> from, notAfter |-> until, revokedAt |-> Never]

(* The repository's own registry.  Its key is good for a year, of which one *)
(* step of the clock is the rest.                                           *)
Init ==
    /\ now = 0
    /\ registry = [id \in {LocalKey} |-> RehearsalKey(LocalKey, 0, 1)]
    /\ packages = {}

Tick ==
    /\ now < MaxTime
    /\ now' = now + 1
    /\ UNCHANGED <<registry, packages>>
-----------------------------------------------------------------------------
(* Mutant: every rehearsal root is taken at its word. *)
WellFormedAnyDomain(key) == key.notBefore < key.notAfter /\ key.modes # {}

(* TrustedKey.__post_init__ raises for any other key. *)
WellFormed(key) ==
    /\ key.notBefore < key.notAfter
    /\ key.modes # {}
    /\ key.domain = "rehearsal" => key.modes \cap RealTrackModes = {}

(* Mutant: a later registration replaces the key. *)
RegisterAgain(key) ==
    /\ WellFormed(key)
    /\ registry' = [id \in DOMAIN registry \cup {key.id} |->
                       IF id = key.id THEN key ELSE registry[id]]
    /\ UNCHANGED <<now, packages>>

(* register: a key id is taken once and for all. *)
Register(key) ==
    /\ WellFormed(key)
    /\ key.id \notin DOMAIN registry
    /\ registry' = [id \in DOMAIN registry \cup {key.id} |->
                       IF id = key.id THEN key ELSE registry[id]]
    /\ UNCHANGED <<now, packages>>
-----------------------------------------------------------------------------
(* What a key is asked to do. *)
Purpose == [mode : Mode, track : Track, environment : Environment, role : Role]

(* evaluate: every reason not to trust a key for a purpose at a moment. *)
Reasons(id, purpose, moment) ==
    IF id \notin DOMAIN registry THEN {"UNKNOWN_KEY"}
    ELSE LET key == registry[id]
             If(condition, code) == IF condition THEN {code} ELSE {}
         IN UNION {
                If(purpose.mode \notin key.modes, "KEY_NOT_AUTHORISED_FOR_MODE"),
                If(~AdmitsTrack(purpose.mode, purpose.track), "MODE_NOT_ADMISSIBLE_ON_TRACK"),
                If(purpose.environment \notin key.environments,
                   "KEY_NOT_AUTHORISED_IN_ENVIRONMENT"),
                If(purpose.role \notin key.roles, "ROLE_NOT_AUTHORISED"),
                If(moment \notin key.notBefore .. key.notAfter, "KEY_OUTSIDE_VALIDITY_WINDOW"),
                If(moment >= key.revokedAt, "KEY_REVOKED"),
                If(purpose.environment = "FIXTURE" /\ key.domain = "bank",
                   "BANK_TRUST_ROOT_REFUSED_IN_FIXTURE_ENVIRONMENT")}

Trusted(id, purpose, moment) == Reasons(id, purpose, moment) = {}
-----------------------------------------------------------------------------
(* sign_payload, and verify_envelope: one signature of a known key over     *)
(* this very payload is enough, and none is not.                            *)
Signed(payload, id) == [payload |-> payload, signatures |-> {[key |-> id, over |-> payload]}]

Verified(envelope, verifiers) ==
    \E signature \in envelope.signatures :
        signature.key \in verifiers /\ signature.over = envelope.payload

(* signed_decision, with the moment it was issued. *)
IssueDecision ==
    LET envelope == Signed("decision", LocalKey)
    IN /\ packages' = packages \cup {[issued |-> now, verified |-> Verified(envelope, {LocalKey})]}
       /\ UNCHANGED <<now, registry>>

Next == Tick \/ IssueDecision \/ \E key \in Candidate : Register(key)

Spec == Init /\ [][Next]_vars

-----------------------------------------------------------------------------
(* What the trust registry is checked for.                                  *)

(* Every key on file passed its constructor, under its own id. *)
TypeOK ==
    /\ now \in Time
    /\ DOMAIN registry \subseteq KeyId
    /\ \A id \in DOMAIN registry :
           registry[id] \in KeyForm /\ registry[id].id = id /\ WellFormed(registry[id])
    /\ packages \subseteq [issued : Time, verified : BOOLEAN]

(* A rehearsal root never confers bank authority: whatever is registered,   *)
(* no key of the rehearsal domain is trusted on the real track, at any      *)
(* moment and for any purpose.  The constructor looks at the key's modes    *)
(* and evaluate at the mode and its track; neither looks at both.           *)
RehearsalRootsConferNothing ==
    \A id \in DOMAIN registry : registry[id].domain = "rehearsal" =>
        \A purpose \in Purpose, moment \in Time :
            purpose.track = "REAL" => ~Trusted(id, purpose, moment)

(* Trust that has been lost does not come back: a key that expired or was   *)
(* revoked stays untrusted for every purpose, although keys are registered  *)
(* at any time and the registry has no list of those it has seen.           *)
LostTrustStaysLost ==
    [][\A id \in DOMAIN registry :
          now > registry[id].notAfter \/ now >= registry[id].revokedAt =>
              \A purpose \in Purpose : ~Trusted(id, purpose, now)']_vars
-----------------------------------------------------------------------------
(* What the documents say and the code does not do. *)

(* "A key outside its validity window fails, so a forgotten key expires     *)
(* rather than lingering" (trust.py): a decision package is reported as     *)
(* verified only while its key is in its window.  The repository publishes  *)
(* the registry and verifies with its own signer, without asking it.        *)
ExpiredKeysFail ==
    \A package \in packages :
        package.verified =>
            package.issued \in registry[LocalKey].notBefore .. registry[LocalKey].notAfter
=============================================================================
