--------------------------- MODULE AccessPolicies ---------------------------
(***************************************************************************)
(* The two access policies of the service: the in-process ABAC             *)
(* (entitlements.py) and the Rego policy that OPA evaluates                *)
(* (client_entitlements.rego), with the mapping of an internal action onto *)
(* the Rego policy's vocabulary (opa_gateway.py).                          *)
(*                                                                         *)
(* A context is who asks: [user, roles, clients, regions, products,        *)
(* environment], where user is "empty", "demo" (the id begins with demo-)  *)
(* or "named".  A request is what is asked: [kind, sensitive, shadowOnly,  *)
(* client, region, product], where kind stands for the action's name and   *)
(* Unnamed for an argument that is left out.                               *)
(***************************************************************************)
Unnamed == "unnamed"

ShadowRoles ==
    {"SHADOW_OPERATOR", "MODEL_VALIDATOR", "EVIDENCE_REVIEWER", "PILOT_RM", "PLATFORM_ADMIN"}
EconomicsRoles == {"PRODUCT_FINANCE", "TREASURY", "RISK", "PLATFORM_ADMIN"}
PromotionWriteRoles == {"MODEL_VALIDATOR", "PLATFORM_ADMIN", "SHADOW_OPERATOR"}
ReviewerRoles == {"EVIDENCE_REVIEWER", "PLATFORM_ADMIN"}

(* The actions the code tells apart: a read, the approval of evidence, a    *)
(* write to the promotion register (v32:...:write), and any other.          *)
Kind == {"read", "approve", "promotion-write", "other"}

(* DeploymentEnvironment. *)
Environment == {"FIXTURE", "DEVELOPMENT", "CLIENT_DEMO", "SHADOW", "PILOT", "PRODUCTION"}

Holds(context, roles) == context.roles \cap roles # {}

(* A scope of a context covers a value: by the wildcard, by name, or        *)
(* because the request names none.                                          *)
Covers(scope, value) == value = Unnamed \/ {"*", value} \cap scope # {}

(* Mutant: the ABAC as it was before regions were enforced in it. *)
LocalIgnoresRegion(context, request) ==
    /\ request.shadowOnly => Holds(context, ShadowRoles)
    /\ Covers(context.clients, request.client)
    /\ context.products = {} \/ Covers(context.products, request.product)
    /\ request.sensitive => Holds(context, EconomicsRoles)
    /\ request.kind = "approve" => Holds(context, ReviewerRoles)
    /\ request.kind = "promotion-write" => Holds(context, PromotionWriteRoles)
    /\ ~(context.environment = "PRODUCTION" /\ context.user = "demo")

(* EntitlementService.authorize: allowed when no rule finds a reason.       *)
LocalAllows(context, request) ==
    /\ request.shadowOnly => Holds(context, ShadowRoles)
    /\ Covers(context.clients, request.client)
    /\ Covers(context.regions, request.region)
    /\ context.products = {} \/ Covers(context.products, request.product)
    /\ request.sensitive => Holds(context, EconomicsRoles)
    /\ request.kind = "approve" => Holds(context, ReviewerRoles)
    /\ request.kind = "promotion-write" => Holds(context, PromotionWriteRoles)
    /\ ~(context.environment = "PRODUCTION" /\ context.user = "demo")

(* _opa_action_for: the first rule that applies names the action.           *)
OpaAction(request) ==
    IF request.kind = "approve" THEN "approve_evidence"
    ELSE IF request.sensitive THEN "read_sensitive_economics"
    ELSE IF request.kind = "read" THEN "read"
    ELSE "none"

(* The allow rules of the Rego policy.  The input build_opa_input makes     *)
(* always claims a second factor and a fresh workload identity, so that     *)
(* active_identity only asks for a user id.                                 *)
RegoAllows(context, request) ==
    /\ context.environment \in {"SHADOW", "PILOT", "PRODUCTION"}
    /\ context.user # "empty"
    /\ Covers(context.clients, request.client)
    /\ Covers(context.regions, request.region)
    /\ context.products = {} \/ Covers(context.products, request.product)
    /\ \/ OpaAction(request) = "read"
       \/ OpaAction(request) = "approve_evidence" /\ "EVIDENCE_REVIEWER" \in context.roles
       \/ OpaAction(request) = "read_sensitive_economics" /\ Holds(context, EconomicsRoles)
=============================================================================
