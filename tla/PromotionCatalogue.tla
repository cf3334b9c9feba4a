------------------------- MODULE PromotionCatalogue -------------------------
(***************************************************************************)
(* The tables the promotion position is computed with: the gate catalogue  *)
(* (catalogue.py of src/wallet_twin_v32) and the thresholds, prerequisites *)
(* and refusals of the capability register (states.py).                    *)
(* PromotionPolicy has them as its constants; here are the ones the code   *)
(* publishes.  Titles, owners and explanations are left out, and so is     *)
(* freshness_days, which nothing in the code reads.                        *)
(***************************************************************************)
EXTENDS Naturals, Sequences

(* A GateDefinition: `_gate` makes it blocking unless told otherwise. *)
CatalogueGate(id, severity, minimum) ==
    [id |-> id, severity |-> severity, minimum |-> minimum, blocking |-> TRUE]

AdvisoryGate(id, severity, minimum) ==
    [CatalogueGate(id, severity, minimum) EXCEPT !.blocking = FALSE]

OfflineToShadowGates == <<
    CatalogueGate("independent-reproduction", "CRITICAL", "PUBLIC_PACKAGE"),
    CatalogueGate("point-in-time-zero-leakage", "CRITICAL", "PUBLIC_PACKAGE"),
    CatalogueGate("reconciliation-exact", "CRITICAL", "REAL_BANK"),
    CatalogueGate("interval-coverage-90", "HIGH", "REAL_BANK"),
    CatalogueGate("crps-improvement", "HIGH", "REAL_BANK"),
    CatalogueGate("genai-schema-and-fidelity", "HIGH", "PUBLIC_PACKAGE"),
    CatalogueGate("prompt-injection-resistance", "CRITICAL", "PUBLIC_PACKAGE"),
    CatalogueGate("entitlement-negative-tests", "CRITICAL", "PUBLIC_PACKAGE"),
    CatalogueGate("supply-chain-clean", "HIGH", "PUBLIC_PACKAGE"),
    CatalogueGate("feasibility-gates-block-selection", "STANDARD", "PUBLIC_PACKAGE")>>

ShadowToPilotGates == <<
    CatalogueGate("elapsed-clean-shadow-days", "CRITICAL", "BANK_ATTESTED"),
    CatalogueGate("service-availability", "HIGH", "REAL_BANK"),
    CatalogueGate("read-latency-p95", "STANDARD", "REAL_BANK"),
    CatalogueGate("event-latency", "STANDARD", "REAL_BANK"),
    CatalogueGate("refresh-by-0600-sast", "STANDARD", "REAL_BANK"),
    CatalogueGate("no-unresolved-sev1-sev2", "CRITICAL", "BANK_ATTESTED"),
    CatalogueGate("model-risk-approval", "CRITICAL", "BANK_ATTESTED"),
    CatalogueGate("selected-critical-path-evidence-complete", "CRITICAL", "BANK_ATTESTED"),
    CatalogueGate("selected-value-e2-coverage", "HIGH", "BANK_ATTESTED"),
    AdvisoryGate("genai-bank-approved", "HIGH", "BANK_ATTESTED"),
    CatalogueGate("rm-pilot-protocol-approved", "CRITICAL", "BANK_ATTESTED")>>

PilotToScaleGates == <<
    CatalogueGate("supervised-pilot-completed", "CRITICAL", "BANK_ATTESTED"),
    CatalogueGate("bank-approved-economics-registered", "CRITICAL", "BANK_ATTESTED"),
    CatalogueGate("rollback-restores-prior-state", "HIGH", "PUBLIC_PACKAGE"),
    AdvisoryGate("e3-multibank-observation-approved", "HIGH", "BANK_ATTESTED"),
    CatalogueGate("pilot-findings-remediated", "CRITICAL", "BANK_ATTESTED"),
    CatalogueGate("scale-operating-model-approved", "CRITICAL", "BANK_ATTESTED")>>

ScaleToChampionGates == <<
    CatalogueGate("randomised-trial-validated", "CRITICAL", "BANK_ATTESTED"),
    CatalogueGate("trial-first-stage-strength-adequate", "CRITICAL", "BANK_ATTESTED"),
    CatalogueGate("sustained-adoption", "HIGH", "BANK_ATTESTED")>>

GateCatalogue ==
    OfflineToShadowGates \o ShadowToPilotGates \o PilotToScaleGates \o ScaleToChampionGates

CataloguedIds == {GateCatalogue[i].id : i \in DOMAIN GateCatalogue}

(* GATES_BY_ID. *)
GateById == [id \in CataloguedIds |->
    GateCatalogue[CHOOSE i \in DOMAIN GateCatalogue : GateCatalogue[i].id = id]]

(* The tables of PromotionPolicy, read off the catalogue. *)
CatalogueOrder == [i \in DOMAIN GateCatalogue |-> GateCatalogue[i].id]

GatesOfTransition ==
    <<OfflineToShadowGates, ShadowToPilotGates, PilotToScaleGates, ScaleToChampionGates>>

CatalogueTransition == [id \in CataloguedIds |->
    CHOOSE k \in 1 .. 4 : \E i \in DOMAIN GatesOfTransition[k] : GatesOfTransition[k][i].id = id]

CatalogueBlocking == {id \in CataloguedIds : GateById[id].blocking}

SeverityWeights == [CRITICAL |-> 5, HIGH |-> 3, STANDARD |-> 1]

CatalogueWeight == [id \in CataloguedIds |-> SeverityWeights[GateById[id].severity]]

CatalogueMinimum == [id \in CataloguedIds |-> GateById[id].minimum]
-----------------------------------------------------------------------------
(* CAPABILITY_STATE_THRESHOLD, by rank. *)
LicensedFrom == [
    OFFLINE_ANALYSIS |-> 0, SYNTHETIC_DEMONSTRATION |-> 0, SCENARIO_ECONOMICS |-> 0,
    HIDDEN_SHADOW_SCORING |-> 1, MEASURED_SHARE_REPORTING |-> 1, COMMERCIAL_VALUE_CLAIM |-> 1,
    MEASURED_SHARE |-> 1, LIVE_GENAI |-> 1,
    SUPERVISED_RM_PILOT |-> 2, DISCOVERY_CONVERSATION |-> 2, POSTERIOR_WALLET |-> 2,
    PRODUCT_PROPOSAL |-> 2,
    PRODUCTION_RM_DECISION_SUPPORT |-> 3,
    CAUSAL_VALUE_CLAIM |-> 4, AUTONOMOUS_CLIENT_ACTION |-> 4, CAUSAL_VALUE |-> 4]

Capabilities == DOMAIN LicensedFrom

(* EVIDENCE_PREREQUISITES; `get` makes them empty for the others. *)
EvidencePrerequisites == [capability \in Capabilities |->
    CASE capability \in {"MEASURED_SHARE_REPORTING", "MEASURED_SHARE"} ->
            {"e3-multibank-observation-approved"}
      [] capability = "COMMERCIAL_VALUE_CLAIM" -> {"bank-approved-economics-registered"}
      [] capability \in {"CAUSAL_VALUE_CLAIM", "CAUSAL_VALUE"} ->
            {"randomised-trial-validated", "trial-first-stage-strength-adequate"}
      [] capability = "PRODUCT_PROPOSAL" ->
            {"bank-approved-economics-registered", "feasibility-gates-block-selection",
             "selected-critical-path-evidence-complete"}
      [] capability = "LIVE_GENAI" -> {"genai-bank-approved"}
      [] OTHER -> {}]

PermanentlyWithheld == {"AUTONOMOUS_CLIENT_ACTION"}
=============================================================================
