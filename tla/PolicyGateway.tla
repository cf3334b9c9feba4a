---------------------------- MODULE PolicyGateway ----------------------------
(***************************************************************************)
(* The dual entitlement gateway (opa_gateway.py): a request is decided by  *)
(* the in-process policy, put to OPA over HTTP, and allowed when both      *)
(* agree; a disagreement is denied and recorded.  OPA is a service of its  *)
(* own: it can be out of reach, late or without the policy, and the policy *)
(* it serves can be edited without this code.                              *)
(***************************************************************************)
EXTENDS AccessPolicies

CONSTANTS
    Thread, \* the threads that serve requests
    Asked   \* the <<context, request>> pairs asked; context may be NoContext

NoContext == [user |-> "nobody"]

(* A context is of one of the six environments, and a request of a kind.    *)
ASSUME AskedAssumption ==
    \A asked \in Asked :
        /\ asked[1] # NoContext => asked[1].environment \in Environment
        /\ asked[2].kind \in Kind

VARIABLES
    enabled,     \* whether an OPA URL is configured
    policy,      \* what OPA serves: "repository", or "edited" since
    divergences, \* the verdicts of _divergences, as a set of [opa, local]
    thread       \* per thread: where it is, what was asked, and both verdicts

vars == <<enabled, policy, divergences, thread>>

Idle == [at |-> "idle"]

Init ==
    /\ enabled \in BOOLEAN
    /\ policy = "repository"
    /\ divergences = {}
    /\ thread = [t \in Thread |-> Idle]

(* An administrator loads another policy into OPA. *)
EditPolicy ==
    /\ enabled
    /\ policy' = "edited"
    /\ UNCHANGED <<enabled, divergences, thread>>

Answered(asked, local, opa, answer) ==
    [at |-> "answered", asked |-> asked, local |-> local, opa |-> opa, answer |-> answer]

Verdict(allows) == IF allows THEN "allowed" ELSE "denied"

(* OPA is put the question when a URL is configured, the caller is known    *)
(* and the action belongs to its vocabulary.                                *)
Adjudicated(asked) ==
    enabled /\ asked[1] # NoContext /\ OpaAction(asked[2]) # "none"

(* authorize, up to the call: the in-process decision is made, and stands   *)
(* where OPA is not asked.                                                  *)
Authorize(t, asked) ==
    /\ thread[t].at = "idle"
    /\ LET local == asked[1] # NoContext /\ LocalAllows(asked[1], asked[2])
       IN thread' = [thread EXCEPT ![t] =
              IF Adjudicated(asked)
                THEN [at |-> "asking", asked |-> asked, local |-> local]
                ELSE Answered(asked, local, "not asked", Verdict(local))]
    /\ UNCHANGED <<enabled, policy, divergences>>

(* OPA's answer, under the repository's policy or under another one. *)
OpaVerdicts(asked) ==
    IF policy = "repository" THEN {RegoAllows(asked[1], asked[2])} ELSE BOOLEAN

(* Mutant: OPA is authoritative. *)
DecideByOpa(opa, local) == Verdict(opa)

(* Both allow, or it is denied. *)
Decide(opa, local) == Verdict(opa /\ local)

(* What there is to record of two verdicts. *)
Divergence(opa, local) == IF opa = local THEN {} ELSE {[opa |-> opa, local |-> local]}

(* authorize, once OPA has answered. *)
OpaAnswers(t) ==
    /\ thread[t].at = "asking"
    /\ \E opa \in OpaVerdicts(thread[t].asked) :
          LET local == thread[t].local
          IN /\ divergences' = divergences \cup Divergence(opa, local)
             /\ thread' = [thread EXCEPT ![t] =
                    Answered(@.asked, local, Verdict(opa), Decide(opa, local))]
    /\ UNCHANGED <<enabled, policy>>

(* OPAClient.evaluate raises: OPA is out of reach, its answer is late, not  *)
(* JSON, or carries no decision.  Nothing catches the exception.            *)
OpaUnavailable(t) ==
    /\ thread[t].at = "asking"
    /\ thread' = [thread EXCEPT ![t] = Answered(@.asked, @.local, "unavailable", "error")]
    /\ UNCHANGED <<enabled, policy, divergences>>

(* The answer is delivered and the thread is free. *)
Deliver(t) ==
    /\ thread[t].at = "answered"
    /\ thread' = [thread EXCEPT ![t] = Idle]
    /\ UNCHANGED <<enabled, policy, divergences>>

Next ==
    \/ EditPolicy
    \/ \E t \in Thread :
          \/ \E asked \in Asked : Authorize(t, asked)
          \/ OpaAnswers(t) \/ OpaUnavailable(t) \/ Deliver(t)

Spec == Init /\ [][Next]_vars

-----------------------------------------------------------------------------
(* What the policy gateway is checked for.                                  *)

(* A divergence on record is of two verdicts that differ, and without OPA   *)
(* there is none.                                                           *)
TypeOK ==
    /\ divergences \subseteq {d \in [opa : BOOLEAN, local : BOOLEAN] : d.opa # d.local}
    /\ enabled \/ divergences = {}
    /\ \A t \in Thread :
          \/ thread[t] = Idle
          \/ thread[t].at = "asking" /\ Adjudicated(thread[t].asked)
          \/ /\ thread[t].at = "answered"
             /\ thread[t].opa \in {"not asked", "allowed", "denied", "unavailable"}
             /\ thread[t].answer \in {"allowed", "denied", "error"}

(* Nothing is allowed that the in-process policy refuses, and nothing the   *)
(* gateway has put to OPA without OPA's leave: not when OPA is down, and    *)
(* not when its policy was edited.  Where they disagreed it is on record.   *)
FailsClosed ==
    \A t \in Thread : thread[t].at = "answered" =>
        /\ thread[t].answer = "allowed" =>
              /\ thread[t].asked[1] # NoContext
              /\ LocalAllows(thread[t].asked[1], thread[t].asked[2])
              /\ Adjudicated(thread[t].asked) => thread[t].opa = "allowed"
        /\ thread[t].local /\ thread[t].opa = "denied" =>
              [opa |-> FALSE, local |-> TRUE] \in divergences

(* The differences between the two policies, as the Rego states them: whom  *)
(* OPA refuses and the ABAC does not,                                       *)
OpaStricter(context, request) ==
    \/ context.environment \in {"FIXTURE", "DEVELOPMENT", "CLIENT_DEMO"}
    \/ context.user = "empty"
    \/ /\ request.kind = "approve"
       /\ "EVIDENCE_REVIEWER" \notin context.roles
       /\ "PLATFORM_ADMIN" \in context.roles

(* and whom it lets pass that the ABAC does not.                            *)
OpaLaxer(context, request) ==
    \/ request.shadowOnly /\ context.roles \cap ShadowRoles = {}
    \/ context.environment = "PRODUCTION" /\ context.user = "demo"
    \/ request.kind = "approve" /\ request.sensitive
    \/ request.kind = "promotion-write"

(* The two policies disagree nowhere but where these differences are: a     *)
(* request is denied for divergence only under an edited policy or in one   *)
(* of them, and in the direction it names.  Clients, regions and products,  *)
(* wildcards and empty lists included, are never the reason.                *)
DisagreementsExplained ==
    \A t \in Thread :
        thread[t].at = "answered" /\ thread[t].opa \in {"allowed", "denied"}
          /\ policy = "repository" /\ thread[t].opa # Verdict(thread[t].local) =>
            IF thread[t].local THEN OpaStricter(thread[t].asked[1], thread[t].asked[2])
                               ELSE OpaLaxer(thread[t].asked[1], thread[t].asked[2])

-----------------------------------------------------------------------------
(* "Production deployment also evaluates the equivalent OPA policy"         *)
(* (entitlements.py): under the repository's policy nothing is denied for   *)
(* divergence.                                                              *)
PoliciesAreEquivalent == policy = "repository" => divergences = {}
=============================================================================
