----------------------------- MODULE ClientGraph -----------------------------
(***************************************************************************)
(* The knowledge graph of a client (business_graph.py): dated events are   *)
(* derived from its evidence, each implies some problems, a problem is     *)
(* owned by a role and addressed by its primary solutions; and what of it  *)
(* a banker may be shown.  Then the trigger of an engagement window        *)
(* (timing.py) and the explanation of a conversation, which is told as a   *)
(* path through that graph.                                                *)
(*                                                                         *)
(* A node is its kind and its key.  Dates, amounts and labels are left     *)
(* out; events of one kind and direction, as of several falling flows, are *)
(* one event, since they imply the same problems.                          *)
(***************************************************************************)
EXTENDS BusinessProblems

(* An event: the claims it rests on, whether they have been reviewed, and   *)
(* the problems it implies.                                                 *)
Event(kind, claims, reviewed, implied) ==
    [kind |-> kind, claims |-> claims, reviewed |-> reviewed, implied |-> implied]

(* An event the bank saw in its own flows. *)
Seen(kind, implied) == Event(kind, {"bank"}, TRUE, implied)

(* The maturity may rest on a claim that is still under review. *)
DebtMaturity(c) ==
    {Event("DEBT_MATURITY_WINDOW", {concept}, c.status[concept] = "approved",
           {"REFINANCING_CLIFF", "INTEREST_RATE_EXPOSURE"}) :
        concept \in FirstOf(c, MaturityChain)}

TradePipeline(c) ==
    When(c.pipeline # "none",
         Seen("TRADE_EVENT_PIPELINE",
              {"SUPPLY_CHAIN_RISK", "WORKING_CAPITAL_PRESSURE",
               "GUARANTEE_OR_COLLATERAL_REQUIREMENT"}))

(* A flow that rose or fell by a tenth or more in a year. *)
FlowShifts(c) ==
    When("steep_fall" \in c.observed,
         Seen("OBSERVED_FLOW_DECLINE", {"WALLET_LEAKAGE", "OPERATIONAL_RESILIENCE"}))
    \cup When("steep_rise" \in c.observed,
              Seen("OBSERVED_FLOW_INCREASE", {"TREASURY_CENTRALISATION"}))

(* A change point of the V3 filter is an event without a claim. *)
ChangePoints(c) ==
    When("regime_down" \in c.observed,
         Event("CHANGE_POINT_DOWN", {}, TRUE, {"WALLET_LEAKAGE"}))
    \cup When("regime_up" \in c.observed,
              Event("CHANGE_POINT_UP", {}, TRUE, {"TREASURY_CENTRALISATION"}))

Events(c) == DebtMaturity(c) \cup TradePipeline(c) \cup FlowShifts(c) \cup ChangePoints(c)
-----------------------------------------------------------------------------
Node(kind, key) == <<kind, key>>

Root == Node("CLIENT", "root")
EventNode(event) == Node("EVENT", event.kind)
ProblemNode(problem) == Node("PROBLEM", problem)
RoleNode(role) == Node("STAKEHOLDER_ROLE", role)
SolutionNode(solution) == Node("BANKING_SOLUTION", solution)

Edge(type, source, target, reviewed) ==
    [type |-> type, source |-> source, target |-> target, reviewed |-> reviewed]

StakeholderRole == UNION {PermittedRoles[solution] : solution \in BankingSolution}

(* The stable part.  The client's twelve components are one node, and so    *)
(* are its countries; its currencies are left out: nothing else is linked   *)
(* to any of them.  Its legal entity is unresolved until somebody reviews   *)
(* it.                                                                      *)
AttributeEdges(c) ==
    {Edge("HAS_LEGAL_ENTITY", Root, Node("LEGAL_ENTITY", "primary"), FALSE),
     Edge("HAS_BUSINESS_COMPONENT", Root, Node("BUSINESS_MODEL_COMPONENT", "domain"), TRUE)}
    \cup {Edge("HAS_ROLE", Root, RoleNode(role), TRUE) : role \in StakeholderRole}
    \cup When(c.countries > 0, Edge("TRADES_WITH", Root, Node("COUNTRY", "corridor"), TRUE))
    \cup When(c.sector = "mining",
              Edge("HAS_COMMODITY_EXPOSURE", Root, Node("COMMODITY", "commodity"), TRUE))

EventEdges(c) ==
    {Edge("HAS_EVENT", Root, EventNode(event), event.reviewed) : event \in Events(c)}
    \cup UNION {{Edge("IMPLIES_PROBLEM", EventNode(event), ProblemNode(problem), event.reviewed) :
                    problem \in event.implied} : event \in Events(c)}

ImpliedProblems(c) == UNION {event.implied : event \in Events(c)}

(* A problem some event implies is linked to its owner and its solutions. *)
ProblemEdges(c) ==
    {Edge("IS_OWNED_BY_ROLE", ProblemNode(problem), RoleNode(Responsible[problem][1]), TRUE) :
        problem \in ImpliedProblems(c)}
    \cup UNION {{Edge("ADDRESSED_BY_SOLUTION", ProblemNode(problem), SolutionNode(solution), TRUE) :
                    solution \in Matrix[problem].primary} : problem \in ImpliedProblems(c)}

GraphEdges(c) == AttributeEdges(c) \cup EventEdges(c) \cup ProblemEdges(c)

Linked(edges) == {edge.source : edge \in edges} \cup {edge.target : edge \in edges}

(* A node of every solution is made, and those that nothing reaches are     *)
(* pruned.                                                                  *)
GraphNodes(c) == Linked(GraphEdges(c)) \cup {Root}

(* explainable_view: an edge that awaits review may not be shown. *)
ExplainableEdges(c) == {edge \in GraphEdges(c) : edge.reviewed}
ExplainableNodes(c) == Linked(ExplainableEdges(c))
-----------------------------------------------------------------------------
(* How strongly a kind of event justifies acting now, as a rank. *)
Urgency(event) ==
    CASE event.kind = "DEBT_MATURITY_WINDOW" -> 4
      [] event.kind = "TRADE_EVENT_PIPELINE" -> 3
      [] event.kind \in {"CHANGE_POINT_DOWN", "CHANGE_POINT_UP"} -> 2
      [] event.kind \in {"OBSERVED_FLOW_DECLINE", "OBSERVED_FLOW_INCREASE"} -> 1

(* Mutant: any event of the client will do. *)
TriggersOfClient(c, problem) == {event \in Events(c) : event.claims # {}}

(* The events that can open a window for a problem. *)
Triggers(c, problem) == {event \in Events(c) : problem \in event.implied /\ event.claims # {}}

(* _select_trigger: the most urgent of them, or none. *)
MostUrgent(events) == {event \in events : \A other \in events : Urgency(event) >= Urgency(other)}
-----------------------------------------------------------------------------
Step(name, node, claims) == [name |-> name, node |-> node, claims |-> claims]

(* build_explanation_path, without its last two steps, which are values: a  *)
(* window without a trigger is told as such, by a node of no graph.         *)
ExplanationPath(trigger, impact, problem, role, solution) ==
    <<IF trigger = {} THEN Step("EVENT", Node("EVENT", "none"), {})
      ELSE LET event == CHOOSE e \in trigger : TRUE
           IN Step("EVENT", EventNode(event), event.claims),
      Step("BUSINESS_IMPACT", Node("BUSINESS_MODEL_COMPONENT", "impact"), impact),
      Step("PROBLEM", ProblemNode(problem), impact),
      Step("STAKEHOLDER", RoleNode(role), {}),
      Step("SOLUTION", SolutionNode(solution), {})>>

(* The steps that should rest on evidence and do not. *)
UnsupportedSteps(path) == {path[i].name : i \in {j \in 1 .. 3 : path[j].claims = {}}}
=============================================================================
