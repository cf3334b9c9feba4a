----------------------------- MODULE MCBuilding -----------------------------
(***************************************************************************)
(* Two families of clients: one varies what it discloses of its funding,   *)
(* the other what the bank observes of its flows.                          *)
(***************************************************************************)
EXTENDS ConversationBuilding, TLC

Blank ==
    [status |-> [concept \in PublicConcept |-> "absent"], nil |-> {}, over |-> {}, observed |-> {},
     countries |-> 0, breadth |-> 0, complexity |-> "unknown", sector |-> "retail",
     alarm |-> FALSE, flagged |-> FALSE, pipeline |-> "none", legacy |-> {}]

(* Each concept of funding absent, under review or approved. *)
Funding ==
    {status @@ Blank.status :
        status \in [{"current_debt_maturity_window", "current_debt", "term_finance"}
                        -> {"absent", "pending", "approved"}]}

Others ==
    {[current_liabilities |-> s1, cash |-> s2, revenue |-> s3, closing_balances |-> s2,
      trade_payables_close |-> s2] :
        s1 \in {"absent", "pending"}, s2 \in {"absent", "approved"},
        s3 \in {"absent", "approved"}}

Medians ==
    SUBSET {"WORKING_CAPITAL_GAP", "REFINANCING_EXPOSURE", "LEVERAGE_PROXY"}

FundingClients ==
    {[Blank EXCEPT !.status = others @@ funding, !.over = over \cup over2, !.legacy = legacy] :
        funding \in Funding, others \in Others, over \in Medians,
        over2 \in {{}, {"LIQUIDITY_BUFFER"}}, legacy \in {{}, {"TRADE_FINANCE", "PAYMENTS"}}}

(* The same, with some of what they disclose zero. *)
Zeros ==
    {{"current_debt_maturity_window"}, {"current_debt"}, {"term_finance", "closing_balances"},
     {"current_debt", "trade_payables_close", "revenue"}}

NilClients ==
    {[c EXCEPT !.nil = zeros \cap Disclosed(c)] :
        c \in {d \in FundingClients : d.legacy = {}}, zeros \in Zeros}

(* The flows and footprints the bank sees, and the products V3 models. *)
Flows ==
    {{}, {"payments", "regime_up"}, {"payments", "collections", "falling_flow"},
     {"payments", "falling_flow", "steep_fall", "regime_down"},
     {"collections", "cross_border_fx", "payments_growth", "steep_rise", "liquidity"},
     {"cross_border_fx", "event_intensity", "financing_need", "working_capital_intensity"}}

Audited ==
    [fx_exposure |-> "approved", opening_balances |-> "pending", closing_balances |-> "approved",
     trade_payables_close |-> "approved", trade_payables |-> "pending", cash |-> "approved", revenue |-> "pending", operating_cost_base |-> "approved"]

FlowClients ==
    {[Blank EXCEPT !.observed = observed, !.legacy = legacy, !.pipeline = pipeline,
                   !.countries = countries, !.breadth = 4, !.sector = sector,
                   !.complexity = IF sector = "mining" THEN "high" ELSE "low",
                   !.alarm = "falling_flow" \in observed, !.flagged = sector = "mining",
                   !.status = public @@ @, !.nil = IF public = Audited THEN nil ELSE {},
                   !.over = {"WORKING_CAPITAL_GAP", "CCC", "DSO"}] :
        observed \in Flows,
        legacy \in SUBSET {"COLLECTIONS", "PAYMENTS", "LIQUIDITY_CASH_MANAGEMENT",
                           "CROSS_BORDER_FX", "TRADE_FINANCE"},
        pipeline \in {"none", "unsized", "sized"}, countries \in {9, 10, 12},
        sector \in {"retail", "mining"}, public \in {Blank.status, Audited},
        nil \in {{}, {"trade_payables_close"}, {"trade_payables_close", "trade_payables"}}}

MCClient == FundingClients \cup NilClients \cup FlowClients
=============================================================================
