------------------------------ MODULE MCTrust ------------------------------
(***************************************************************************)
(* The repository's key and one of every kind of key beside it: of each    *)
(* domain, with and without real modes, with windows that are empty, that  *)
(* end early and that start late, revoked early, late and never.           *)
(***************************************************************************)
EXTENDS TrustRegistry

MCDomain == {"rehearsal", "bank", "public"}

MCEnvironment == {"FIXTURE", "DEVELOPMENT", "CLIENT_DEMO", "PRODUCTION"}

MCRole == {"ENGINEERING", "REHEARSAL_OPERATOR", "MODEL_RISK"}

MCCandidate ==
    [id : KeyId, domain : MCDomain,
     modes : {{}, {"SYNTHETIC_REHEARSAL"}, {"SYNTHETIC_REHEARSAL", "REAL_BANK"}, {"PUBLIC_PACKAGE"}},
     environments : {{"FIXTURE", "PRODUCTION"}, {"PRODUCTION"}}, roles : {{"MODEL_RISK"}},
     notBefore : {0, 2}, notAfter : {0, 2, 3}, revokedAt : {1, 3, Never}]
=============================================================================
