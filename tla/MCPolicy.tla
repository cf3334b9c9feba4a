------------------------------ MODULE MCPolicy ------------------------------
(***************************************************************************)
(* The policy gateway over the 4,860 combinations of                       *)
(* scripts/check_policy_agreement.py, and over others it does not try:     *)
(* further roles, environments, users and actions.                         *)
(***************************************************************************)
EXTENDS PolicyGateway

Context(user, roles, clients, regions, products, environment) ==
    [user |-> user, roles |-> roles, clients |-> clients, regions |-> regions,
     products |-> products, environment |-> environment]

Request(kind, sensitive, shadowOnly, client, region, product) ==
    [kind |-> kind, sensitive |-> sensitive, shadowOnly |-> shadowOnly,
     client |-> client, region |-> region, product |-> product]

SweepRoles ==
    {{"SHADOW_OPERATOR"}, {"MODEL_VALIDATOR"}, {"EVIDENCE_REVIEWER", "SHADOW_OPERATOR"},
     {"PILOT_RM"}, {"PRODUCT_FINANCE", "SHADOW_OPERATOR"}}

SweepContexts ==
    {Context("named", roles, clients, regions, products, "SHADOW") :
        roles \in SweepRoles, clients \in {{"E01"}, {"E01", "E02"}, {"*"}},
        regions \in {{"ZA"}, {"ZA", "UK"}, {"*"}},
        products \in {{"Trade finance"}, {"*"}, {}}}

SweepRequests ==
    {Request(action[1], action[2], TRUE, client, region, product) :
        action \in {<<"read", FALSE>>, <<"approve", FALSE>>, <<"read", TRUE>>},
        client \in {"E01", "E02", "E99"}, region \in {"ZA", "UK"},
        product \in {"Trade finance", "Structured trade"}}

OtherContexts ==
    {NoContext} \cup
    {Context(user, roles, clients, {"*"}, {}, environment) :
        user \in {"empty", "demo", "named"},
        roles \in SweepRoles \cup {{}, {"PLATFORM_ADMIN"}, {"TREASURY"}},
        clients \in {{}, {"E01"}}, environment \in {"FIXTURE", "SHADOW", "PRODUCTION"}}

OtherRequests ==
    {Request(kind, sensitive, shadowOnly, client, Unnamed, Unnamed) :
        kind \in Kind, sensitive \in BOOLEAN, shadowOnly \in BOOLEAN,
        client \in {Unnamed, "E01"}}

MCAsked == (SweepContexts \X SweepRequests) \cup (OtherContexts \X OtherRequests)
=============================================================================
