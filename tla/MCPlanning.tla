----------------------------- MODULE MCPlanning -----------------------------
(***************************************************************************)
(* Six conversations of three clients and a week of three, with limits of  *)
(* two per client, family and sector and one per client and role.          *)
(***************************************************************************)
EXTENDS CoveragePlanning

MCConversation == 1 .. 6

At(client, role, sector, family) ==
    [client |-> client, role |-> role, sector |-> sector, family |-> family]

MCPlace ==
    <<At("E01", "CFO", "mining", "LENDING"), At("E01", "TREASURER", "retail", "LENDING"),
      At("E01", "PROCUREMENT", "mining", "TRADE"), At("E02", "CFO", "mining", "LENDING"),
      At("E02", "CFO", "retail", "TRADE"), At("E03", "TREASURER", "retail", "LENDING")>>

Of(demonstrated, credit, review, integration, commercial) ==
    [traits |-> [demonstrated |-> demonstrated, credit |-> credit, review |-> review,
                 integration |-> integration],
     commercial |-> commercial]

MCBundle ==
    <<Of(TRUE, TRUE, FALSE, FALSE, TRUE), Of(TRUE, FALSE, TRUE, FALSE, TRUE),
      Of(FALSE, TRUE, FALSE, TRUE, TRUE), Of(TRUE, TRUE, FALSE, FALSE, FALSE),
      Of(TRUE, FALSE, FALSE, TRUE, TRUE), Of(TRUE, TRUE, TRUE, FALSE, TRUE)>>

(* No attestation, one of each gate, that one of them is not required among *)
(* them, or a single one that a gate fails.                                 *)
MCAttestation ==
    {<<>>,
     [gate \in Gate |-> IF gate = "COMPLIANCE_AND_CONDUCT" THEN "NOT_REQUIRED" ELSE "PASS"],
     [gate \in {"CREDIT_AND_RISK"} |-> "FAIL"]}
=============================================================================
