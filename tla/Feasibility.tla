----------------------------- MODULE Feasibility -----------------------------
(***************************************************************************)
(* The six feasibility gates of a solution bundle (feasibility.py of       *)
(* wallet_twin_v31), and what they make of a conversation about it         *)
(* (conversations.py).  The rules look at four traits of a bundle:         *)
(*    demonstrated  every solution is delivered to this client base already *)
(*    credit        a family that needs a credit limit is in it            *)
(*    review        a flagged corridor or a derivative solution is         *)
(*    integration   a solution with client-side integration is             *)
(* A banker's attestation of a gate replaces what the rules say of it.     *)
(***************************************************************************)
Gate == {"PRODUCT_CAPABILITY", "CREDIT_AND_RISK", "COMPLIANCE_AND_CONDUCT",
         "LEGAL_AND_JURISDICTION", "OPERATIONS_AND_ONBOARDING",
         "TECHNOLOGY_AND_INTEGRATION"}

(* An attestation resolves a gate: record_attestation refuses UNKNOWN. *)
AttestedStatus == {"PASS", "FAIL", "NOT_REQUIRED"}
GateStatus == AttestedStatus \cup {"UNKNOWN"}

Traits == [demonstrated : BOOLEAN, credit : BOOLEAN, review : BOOLEAN, integration : BOOLEAN]

Required(status) == [status |-> status, required |-> TRUE]

(* A gate that only some bundles have to pass: nothing confirms it here.    *)
Conditional(needed) == [status |-> IF needed THEN "UNKNOWN" ELSE "NOT_REQUIRED",
                        required |-> needed]

(* What the rules of assess say: the systems that could confirm compliance, *)
(* operations, credit or integration are not connected.                     *)
RuleGates(traits) ==
    [PRODUCT_CAPABILITY |-> Required(IF traits.demonstrated THEN "PASS" ELSE "UNKNOWN"),
     CREDIT_AND_RISK |-> Conditional(traits.credit),
     COMPLIANCE_AND_CONDUCT |-> Required("UNKNOWN"),
     LEGAL_AND_JURISDICTION |-> Required(IF traits.review THEN "UNKNOWN" ELSE "PASS"),
     OPERATIONS_AND_ONBOARDING |-> Required("UNKNOWN"),
     TECHNOLOGY_AND_INTEGRATION |-> Conditional(traits.integration)]

(* attested: a function from the gates attested to their statuses. *)
Assessed(traits, attested) ==
    [gate \in Gate |->
        IF gate \in DOMAIN attested THEN Required(attested[gate]) ELSE RuleGates(traits)[gate]]

Blocked(gates) == \E gate \in Gate : gates[gate].status = "FAIL"

MaterialUnknowns(gates) ==
    {gate \in Gate : gates[gate].status = "UNKNOWN" /\ gates[gate].required}

(* permitted_action of the assessment. *)
PermittedAction(gates) ==
    IF Blocked(gates) THEN "VALIDATION"
    ELSE IF MaterialUnknowns(gates) # {} THEN "DISCOVERY"
    ELSE "PRODUCT_PROPOSAL"

(* Mutant: any conversation whose gates are clear is eligible. *)
EligibilityOfGates(commercial, gates) ==
    IF Blocked(gates) THEN "BLOCKED"
    ELSE IF MaterialUnknowns(gates) # {} THEN "DISCOVERY_ONLY"
    ELSE "ELIGIBLE"

(* What build_candidate makes of it: without a governed signal of a         *)
(* critical problem there is nothing to propose, whatever the gates say.    *)
Eligibility(commercial, gates) ==
    IF Blocked(gates) THEN "BLOCKED"
    ELSE IF ~commercial \/ MaterialUnknowns(gates) # {} THEN "DISCOVERY_ONLY"
    ELSE "ELIGIBLE"

ConversationAction(commercial, gates) ==
    IF Eligibility(commercial, gates) = "DISCOVERY_ONLY" THEN "DISCOVERY"
                                                         ELSE PermittedAction(gates)
=============================================================================
