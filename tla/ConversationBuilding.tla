------------------------ MODULE ConversationBuilding ------------------------
(***************************************************************************)
(* How a snapshot turns the problem of a client into a conversation: one   *)
(* turn of the loop of build_v31_fixture, for any client and any problem.  *)
(* The turns do not depend on each other.  A problem is detected, a bundle *)
(* of at most three solutions is put together for it (conversations.py), a *)
(* role at the client is found to talk to (stakeholders.py), an event that *)
(* opens the engagement window (timing.py), the bundle passes the          *)
(* feasibility gates, and the conversation is explained.  A problem that   *)
(* is not identified, or has no primary solution that can be sized, is     *)
(* dropped.                                                                *)
(* Which sizeable primary solution has the largest amount is left open.    *)
(***************************************************************************)
EXTENDS ClientGraph, Feasibility

CONSTANT Client     \* the clients of the portfolio, records of BusinessProblems

VARIABLES
    client, problem,    \* what this turn of the loop is about
    stage,
    hypothesis,         \* what the detector found
    bundle,             \* the primary solution and the supporting ones
    owner, secondary,   \* the role to talk to, and the others
    trigger,            \* the event that opens the window, if any
    gates,              \* what the feasibility engine says of the bundle
    conversation        \* what the turn adds to the candidates

buildingVars == <<client, problem, stage, hypothesis, bundle, owner, secondary, trigger, gates,
          conversation>>

Undecided == [gate \in Gate |-> Required("UNKNOWN")]

NoConversation == [eligibility |-> "none", action |-> "none", path |-> <<>>]

BuildingInit ==
    /\ client \in Client
    /\ problem \in BusinessProblem
    /\ stage = "detecting"
    /\ hypothesis = NeverIdentified({})
    /\ bundle = <<>>
    /\ owner = "none"
    /\ secondary = {}
    /\ trigger = {}
    /\ gates = Undecided
    /\ conversation = NoConversation

DetectProblem ==
    /\ stage = "detecting"
    /\ hypothesis' = Detect(client, problem)
    /\ stage' = IF Detect(client, problem).identified THEN "bundling" ELSE "dropped"
    /\ UNCHANGED <<client, problem, bundle, owner, secondary, trigger, gates, conversation>>
-----------------------------------------------------------------------------
(* The solutions of a set that can be sized for this client. *)
Offered(solutions) == solutions \cap Sizeable(client)

PrimarySolutions == Offered(Matrix[problem].primary)

(* Mutant: a solution is compared with the primary one only. *)
FitsPrimary(chosen, solutions) ==
    {solution \in Offered(solutions) \ Range(chosen) : ~MutuallyExclusive({chosen[1], solution})}

(* Those that may still go with the solutions chosen so far. *)
Fits(chosen, solutions) ==
    {solution \in Offered(solutions) \ Range(chosen) :
        ~MutuallyExclusive(Range(chosen) \cup {solution})}

FirstInCatalogue(solutions) ==
    SolutionOrder[Min({i \in DOMAIN SolutionOrder : SolutionOrder[i] \in solutions})]

(* One more solution: a supporting one, or else another primary one.  What  *)
(* the code's two loops pass over they need not look at again, since it     *)
(* goes with a larger bundle even less.                                     *)
Extended(chosen) ==
    LET supporting == Fits(chosen, Matrix[problem].supporting)
        primary == Fits(chosen, Matrix[problem].primary)
    IN IF supporting # {} THEN Append(chosen, FirstInCatalogue(supporting))
       ELSE IF primary # {} THEN Append(chosen, FirstInCatalogue(primary))
       ELSE chosen

(* Up to two more solutions go with the primary one. *)
BundleAround(primary) == Extended(Extended(<<primary>>))

BundleSolutions ==
    /\ stage = "bundling"
    /\ \/ /\ PrimarySolutions = {}
          /\ stage' = "dropped"
          /\ bundle' = bundle
       \/ \E primary \in PrimarySolutions :
              /\ stage' = "routing"
              /\ bundle' = BundleAround(primary)
    /\ UNCHANGED <<client, problem, hypothesis, owner, secondary, trigger, gates, conversation>>
-----------------------------------------------------------------------------
(* Mutant: a role that may be approached about one solution will do. *)
PermittedForSome(solutions) == UNION {PermittedRoles[s] : s \in solutions}

(* The roles that may be approached about every solution of the bundle. *)
PermittedForAll(solutions) ==
    {role \in UNION {PermittedRoles[s] : s \in solutions} :
        \A s \in solutions : role \in PermittedRoles[s]}

(* The owner of the problem, or the first permitted role behind the owner;  *)
(* when there is none the owner stays, for the banker to confirm.           *)
OwnerAmong(roles, permitted) ==
    IF Range(roles) \cap permitted = {} THEN roles[1]
    ELSE roles[Min({i \in DOMAIN roles : roles[i] \in permitted})]

RouteToRole ==
    /\ stage = "routing"
    /\ LET roles == Responsible[problem]
           permitted == PermittedForAll(Range(bundle))
       IN /\ owner' = OwnerAmong(roles, permitted)
          /\ secondary' = (Range(roles) \cap permitted) \ {owner'}
    /\ stage' = "dating"
    /\ UNCHANGED <<client, problem, hypothesis, bundle, trigger, gates, conversation>>

(* The window engine.  Its dates and probabilities follow from the event. *)
FindTrigger ==
    /\ stage = "dating"
    /\ LET events == MostUrgent(Triggers(client, problem))
       IN trigger' \in IF events = {} THEN {{}} ELSE {{event} : event \in events}
    /\ stage' = "assessing"
    /\ UNCHANGED <<client, problem, hypothesis, bundle, owner, secondary, gates, conversation>>
-----------------------------------------------------------------------------
DemonstratedCapability ==
    {"COLLECTIONS", "PAYMENTS", "LIQUIDITY_CASH_MANAGEMENT", "CROSS_BORDER_FX", "TRADE_FINANCE"}

CreditRequired ==
    UNION {Family[f] : f \in {"LENDING", "TRADE_AND_WORKING_CAPITAL", "CAPITAL_MARKETS"}}

IsdaRequired == {"INTEREST_RATE_RISK_MANAGEMENT", "COMMODITY_RISK_MANAGEMENT"}

IntegrationHeavy ==
    {"PAYMENTS", "COLLECTIONS", "LIQUIDITY_CASH_MANAGEMENT", "SUPPLY_CHAIN_FINANCE"}

(* What the gates look at.  The loop gives them no attestation. *)
TraitsOf(solutions, flagged) ==
    [demonstrated |-> solutions \subseteq DemonstratedCapability,
     credit |-> solutions \cap CreditRequired # {},
     review |-> flagged \/ solutions \cap IsdaRequired # {},
     integration |-> solutions \cap IntegrationHeavy # {}]

AssessBundle ==
    /\ stage = "assessing"
    /\ gates' = Assessed(TraitsOf(Range(bundle), client.flagged), <<>>)
    /\ stage' = "concluding"
    /\ UNCHANGED <<client, problem, hypothesis, bundle, owner, secondary, trigger, conversation>>

(* The claims of every supporting signal. *)
ImpactClaims == UNION {signal.claims : signal \in hypothesis.support}

(* What the gates and the evidence allow, and the explanation. *)
ConcludeConversation ==
    /\ stage = "concluding"
    /\ LET commercial == CommerciallyEligible(client, hypothesis)
       IN conversation' =
              [eligibility |-> Eligibility(commercial, gates),
               action |-> ConversationAction(commercial, gates),
               path |-> ExplanationPath(trigger, ImpactClaims, problem, owner, bundle[1])]
    /\ stage' = "built"
    /\ UNCHANGED <<client, problem, hypothesis, bundle, owner, secondary, trigger, gates>>

BuildingNext ==
    \/ DetectProblem \/ BundleSolutions \/ RouteToRole
    \/ FindTrigger \/ AssessBundle \/ ConcludeConversation

BuildingSpec == BuildingInit /\ [][BuildingNext]_buildingVars

-----------------------------------------------------------------------------
(* What must hold of the conversations a snapshot builds.                   *)

(* Every variable keeps its type. *)
BuildingTypeOK ==
    /\ client \in Client /\ problem \in BusinessProblem
    /\ stage \in {"detecting", "bundling", "routing", "dating", "assessing", "concluding",
                  "built", "dropped"}
    /\ hypothesis.identified \in BOOLEAN
    /\ Range(bundle) \subseteq BankingSolution
    /\ owner \in {"none"} \cup Range(Responsible[problem])
    /\ secondary \subseteq Range(Responsible[problem])
    /\ trigger \subseteq Events(client)
    /\ DOMAIN gates = Gate
    /\ conversation.eligibility \in {"none", "BLOCKED", "DISCOVERY_ONLY", "ELIGIBLE"}

(* A bundle is one to three different solutions, each of them sizeable for  *)
(* this client and an answer to this problem, the first a primary one, and  *)
(* no two of them may not be proposed together - not even two supporting    *)
(* solutions, which _bundle_for takes from two lists.                       *)
BundlesHoldTogether ==
    bundle # <<>> =>
        /\ Len(bundle) <= 3
        /\ IsInjective(bundle)
        /\ Range(bundle) \subseteq
               Sizeable(client) \cap (Matrix[problem].primary \cup Matrix[problem].supporting)
        /\ bundle[1] \in Matrix[problem].primary
        /\ ~MutuallyExclusive(Range(bundle))

MayDiscuss(role) == \A solution \in Range(bundle) : role \in PermittedRoles[solution]

(* Whoever a conversation is routed to may be approached about each of its  *)
(* solutions, and so may the roles beside the owner.  When no role of the   *)
(* problem may, the matrix's owner stays, alone, for the banker to confirm. *)
RoutedToAPermittedRole ==
    owner # "none" =>
        LET roles == Responsible[problem]
        IN /\ \/ MayDiscuss(owner)
              \/ owner = roles[1] /\ secondary = {} /\ ~\E role \in Range(roles) : MayDiscuss(role)
           /\ \A role \in secondary : MayDiscuss(role) /\ role # owner

(* The problems whose detector and estimators read the same evidence by     *)
(* separate fallback chains, with a test of the amount of their own.  What  *)
(* identifies them also sizes an answer, so they are not dropped once       *)
(* identified - but for a maturity of zero: the event layer asks whether    *)
(* there is an amount, the estimators whether it is more than zero.  Two    *)
(* of the problems are identified by an event, and whenever they get as far *)
(* as a conversation that event opens its window.                           *)
SizedByTheirEvidence ==
    {"INTEREST_RATE_EXPOSURE", "REFINANCING_CLIFF", "GUARANTEE_OR_COLLATERAL_REQUIREMENT"}

IdentifiedByAnEvent == {"REFINANCING_CLIFF", "GUARANTEE_OR_COLLATERAL_REQUIREMENT"}

MaturityOfZero == problem = "REFINANCING_CLIFF" /\ NonZero(client, MaturityChain) = {}

IdentifiedProblemsAreDiscussed ==
    hypothesis.identified =>
        /\ problem \in SizedByTheirEvidence /\ stage = "dropped" => MaturityOfZero
        /\ stage = "built" /\ problem \in IdentifiedByAnEvent =>
               trigger # {} /\ \A event \in trigger : event.claims \subseteq ImpactClaims

(* No urgency is manufactured.  A conversation that names a trigger is told *)
(* along edges of the client's graph that survive its pruning, though the   *)
(* graph, the window engine and the bundle each have their own table: from  *)
(* an event with evidence to the problem it implies, to the solution that   *)
(* addresses it, and the role is one the client has.                        *)
ExplanationFollowsTheGraph ==
    stage = "built" /\ trigger # {} =>
        LET path == conversation.path
            Joined(type, i, j) ==
                \E edge \in GraphEdges(client) :
                    edge.type = type /\ edge.source = path[i].node /\ edge.target = path[j].node
        IN /\ "EVENT" \notin UnsupportedSteps(path)
           /\ Joined("IMPLIES_PROBLEM", 1, 3)
           /\ Joined("ADDRESSED_BY_SOLUTION", 3, 5)
           /\ path[4].node \in GraphNodes(client)
-----------------------------------------------------------------------------
(* What the documents say and the code does not do. *)

(* "A problem with no quantifiable solution produces an evidence-acquisition *)
(* conversation instead of a product conversation" (conversations.py:9): the *)
(* code drops it, also a refinancing whose maturity is disclosed as zero.    *)
UnsizedProblemsAreDiscussed == hypothesis.identified => stage # "dropped"

(* "pending_review_claims_cannot_support_eligibility" (business_evidence.py): *)
(* if every claim that identifies a problem is pending, the problem is not    *)
(* eligible.  The code asks for one approved claim of any supporting signal,  *)
(* so a pending debt beside an approved revenue makes a rate exposure         *)
(* eligible.                                                                  *)
PendingClaimsNeverSupportEligibility ==
    problem = "INTEREST_RATE_EXPOSURE" /\ CommerciallyEligible(client, hypothesis) =>
        \E concept \in FirstOf(client, DebtChain) : client.status[concept] = "approved"

(* "test_every_selected_conversation_has_an_evidence_backed_explanation_path" *)
(* (tests/test_v31_decision_twin.py): some step of every path has evidence.   *)
(* A leakage seen in a fall of a twentieth to a tenth has no event and quotes *)
(* no claim.                                                                  *)
PathsHaveEvidence ==
    stage = "built" => \E i \in DOMAIN conversation.path : conversation.path[i].claims # {}

(* "An edge awaiting review is never explainable, whatever its claim class"   *)
(* (contracts.py): what a banker is told of a trigger is part of what a       *)
(* banker may be shown.  A maturity under review opens a window all the same. *)
TriggersMayBeShown ==
    stage = "built" /\ trigger # {} => conversation.path[1].node \in ExplainableNodes(client)
=============================================================================
