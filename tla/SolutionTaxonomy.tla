-------------------------- MODULE SolutionTaxonomy --------------------------
(***************************************************************************)
(* The governed tables of wallet_twin_v31/taxonomy.py: the solutions of    *)
(* the catalogue in their order, which of them answer which problem, who   *)
(* decides about a problem at the client, and who may be approached about  *)
(* a solution.  A table is a record: its domain is the set of its rows.    *)
(***************************************************************************)
SolutionOrder ==
    <<"COLLECTIONS", "PAYMENTS", "LIQUIDITY_CASH_MANAGEMENT", "CROSS_BORDER_FX",
      "TRADE_FINANCE", "SUPPLY_CHAIN_FINANCE", "GUARANTEES_AND_LC",
      "WORKING_CAPITAL_REVOLVING", "TERM_AND_SYNDICATED_LENDING", "DEBT_CAPITAL_MARKETS",
      "PROJECT_FINANCE", "INTEREST_RATE_RISK_MANAGEMENT", "COMMODITY_RISK_MANAGEMENT",
      "ESCROW_AND_AGENCY", "SUSTAINABLE_FINANCE", "MA_AND_STRATEGIC_ADVISORY">>

Family ==
    [TRANSACTION_BANKING |-> {"COLLECTIONS", "PAYMENTS", "LIQUIDITY_CASH_MANAGEMENT"},
     RISK_MANAGEMENT |-> {"CROSS_BORDER_FX", "INTEREST_RATE_RISK_MANAGEMENT",
                          "COMMODITY_RISK_MANAGEMENT"},
     TRADE_AND_WORKING_CAPITAL |-> {"TRADE_FINANCE", "SUPPLY_CHAIN_FINANCE",
                                    "GUARANTEES_AND_LC"},
     LENDING |-> {"WORKING_CAPITAL_REVOLVING", "TERM_AND_SYNDICATED_LENDING",
                  "PROJECT_FINANCE"},
     CAPITAL_MARKETS |-> {"DEBT_CAPITAL_MARKETS", "SUSTAINABLE_FINANCE"},
     ADVISORY_AND_AGENCY |-> {"ESCROW_AND_AGENCY", "MA_AND_STRATEGIC_ADVISORY"}]

(* A row of the problem-solution matrix; what it does not name is           *)
(* incompatible.  A solution that requires confirmation is a supporting one. *)
Row(primary, supporting) == [primary |-> primary, supporting |-> supporting]

Matrix ==
    [WORKING_CAPITAL_PRESSURE |->
        Row({"WORKING_CAPITAL_REVOLVING", "SUPPLY_CHAIN_FINANCE"},
            {"TRADE_FINANCE", "COLLECTIONS", "LIQUIDITY_CASH_MANAGEMENT", "PAYMENTS"}),
     FX_EXPOSURE |->
        Row({"CROSS_BORDER_FX"},
            {"INTEREST_RATE_RISK_MANAGEMENT", "LIQUIDITY_CASH_MANAGEMENT",
             "TRADE_FINANCE", "PAYMENTS"}),
     INTEREST_RATE_EXPOSURE |->
        Row({"INTEREST_RATE_RISK_MANAGEMENT"},
            {"TERM_AND_SYNDICATED_LENDING", "DEBT_CAPITAL_MARKETS",
             "WORKING_CAPITAL_REVOLVING"}),
     COMMODITY_EXPOSURE |->
        Row({"COMMODITY_RISK_MANAGEMENT"},
            {"CROSS_BORDER_FX", "TRADE_FINANCE", "WORKING_CAPITAL_REVOLVING"}),
     LIQUIDITY_FRAGMENTATION |->
        Row({"LIQUIDITY_CASH_MANAGEMENT"}, {"PAYMENTS", "COLLECTIONS", "CROSS_BORDER_FX"}),
     REFINANCING_CLIFF |->
        Row({"TERM_AND_SYNDICATED_LENDING", "DEBT_CAPITAL_MARKETS"},
            {"INTEREST_RATE_RISK_MANAGEMENT", "WORKING_CAPITAL_REVOLVING",
             "SUSTAINABLE_FINANCE"}),
     NEW_FUNDING_REQUIREMENT |->
        Row({"TERM_AND_SYNDICATED_LENDING", "DEBT_CAPITAL_MARKETS"},
            {"PROJECT_FINANCE", "WORKING_CAPITAL_REVOLVING", "SUSTAINABLE_FINANCE",
             "INTEREST_RATE_RISK_MANAGEMENT"}),
     PAYMENTS_INEFFICIENCY |->
        Row({"PAYMENTS"}, {"LIQUIDITY_CASH_MANAGEMENT", "CROSS_BORDER_FX", "COLLECTIONS"}),
     COLLECTIONS_INEFFICIENCY |->
        Row({"COLLECTIONS"},
            {"LIQUIDITY_CASH_MANAGEMENT", "SUPPLY_CHAIN_FINANCE", "PAYMENTS"}),
     SUPPLY_CHAIN_RISK |->
        Row({"SUPPLY_CHAIN_FINANCE", "TRADE_FINANCE"},
            {"GUARANTEES_AND_LC", "COMMODITY_RISK_MANAGEMENT", "CROSS_BORDER_FX"}),
     PROJECT_MOBILISATION |->
        Row({"PROJECT_FINANCE", "GUARANTEES_AND_LC"},
            {"ESCROW_AND_AGENCY", "TERM_AND_SYNDICATED_LENDING", "SUSTAINABLE_FINANCE",
             "CROSS_BORDER_FX"}),
     GUARANTEE_OR_COLLATERAL_REQUIREMENT |->
        Row({"GUARANTEES_AND_LC"},
            {"TRADE_FINANCE", "ESCROW_AND_AGENCY", "WORKING_CAPITAL_REVOLVING"}),
     TREASURY_CENTRALISATION |->
        Row({"LIQUIDITY_CASH_MANAGEMENT", "PAYMENTS"},
            {"CROSS_BORDER_FX", "COLLECTIONS", "INTEREST_RATE_RISK_MANAGEMENT"}),
     CAPITAL_STRUCTURE_EVENT |->
        Row({"DEBT_CAPITAL_MARKETS", "TERM_AND_SYNDICATED_LENDING"},
            {"MA_AND_STRATEGIC_ADVISORY", "INTEREST_RATE_RISK_MANAGEMENT",
             "ESCROW_AND_AGENCY"}),
     MA_OR_STRATEGIC_EVENT |->
        Row({"MA_AND_STRATEGIC_ADVISORY", "ESCROW_AND_AGENCY"},
            {"TERM_AND_SYNDICATED_LENDING", "DEBT_CAPITAL_MARKETS", "CROSS_BORDER_FX"}),
     ESG_TRANSITION_FUNDING |->
        Row({"SUSTAINABLE_FINANCE"},
            {"PROJECT_FINANCE", "TERM_AND_SYNDICATED_LENDING", "DEBT_CAPITAL_MARKETS"}),
     WALLET_LEAKAGE |->
        Row({"PAYMENTS", "COLLECTIONS", "CROSS_BORDER_FX"},
            {"TRADE_FINANCE", "LIQUIDITY_CASH_MANAGEMENT"}),
     OPERATIONAL_RESILIENCE |->
        Row({"PAYMENTS", "LIQUIDITY_CASH_MANAGEMENT"},
            {"COLLECTIONS", "GUARANTEES_AND_LC", "ESCROW_AND_AGENCY"})]

BusinessProblem == DOMAIN Matrix
BankingSolution == UNION {Family[family] : family \in DOMAIN Family}

(* Pairs that may not be proposed in the same conversation. *)
MutuallyExclusivePairs ==
    {{"DEBT_CAPITAL_MARKETS", "PROJECT_FINANCE"}, {"SUPPLY_CHAIN_FINANCE", "TRADE_FINANCE"}}

MutuallyExclusive(solutions) == \E pair \in MutuallyExclusivePairs : pair \subseteq solutions

(* Who decides about a problem: the owner, then the others in their order. *)
Responsible ==
    [WORKING_CAPITAL_PRESSURE |-> <<"CFO", "TREASURER", "PROCUREMENT">>,
     FX_EXPOSURE |-> <<"TREASURER", "CFO">>,
     INTEREST_RATE_EXPOSURE |-> <<"TREASURER", "CFO">>,
     COMMODITY_EXPOSURE |-> <<"TREASURER", "COO", "PROCUREMENT">>,
     LIQUIDITY_FRAGMENTATION |-> <<"TREASURER", "FINANCE_OPERATIONS", "CFO">>,
     REFINANCING_CLIFF |-> <<"TREASURER", "CFO", "CEO_BOARD">>,
     NEW_FUNDING_REQUIREMENT |-> <<"CFO", "TREASURER", "CEO_BOARD">>,
     PAYMENTS_INEFFICIENCY |-> <<"FINANCE_OPERATIONS", "TREASURER", "CIO_TECHNOLOGY">>,
     COLLECTIONS_INEFFICIENCY |-> <<"FINANCE_OPERATIONS", "CFO", "CIO_TECHNOLOGY">>,
     SUPPLY_CHAIN_RISK |-> <<"PROCUREMENT", "COO", "CFO">>,
     PROJECT_MOBILISATION |-> <<"COO", "CFO", "TREASURER">>,
     GUARANTEE_OR_COLLATERAL_REQUIREMENT |-> <<"TREASURER", "RISK_LEGAL", "COO">>,
     TREASURY_CENTRALISATION |-> <<"TREASURER", "CFO", "CIO_TECHNOLOGY">>,
     CAPITAL_STRUCTURE_EVENT |-> <<"CFO", "CEO_BOARD", "TREASURER">>,
     MA_OR_STRATEGIC_EVENT |-> <<"CORPORATE_DEVELOPMENT", "CEO_BOARD", "CFO">>,
     ESG_TRANSITION_FUNDING |-> <<"SUSTAINABILITY", "CFO", "TREASURER">>,
     WALLET_LEAKAGE |-> <<"TREASURER", "FINANCE_OPERATIONS", "CFO">>,
     OPERATIONAL_RESILIENCE |-> <<"COO", "CIO_TECHNOLOGY", "RISK_LEGAL">>]

(* Who may be approached about a solution at all. *)
PermittedRoles ==
    [COLLECTIONS |-> {"FINANCE_OPERATIONS", "TREASURER", "CFO"},
     PAYMENTS |-> {"FINANCE_OPERATIONS", "TREASURER", "CFO", "CIO_TECHNOLOGY", "COO"},
     LIQUIDITY_CASH_MANAGEMENT |-> {"TREASURER", "CFO", "FINANCE_OPERATIONS", "COO"},
     CROSS_BORDER_FX |-> {"TREASURER", "CFO", "FINANCE_OPERATIONS", "PROCUREMENT", "COO",
                          "CORPORATE_DEVELOPMENT"},
     TRADE_FINANCE |-> {"TREASURER", "CFO", "PROCUREMENT", "COO"},
     SUPPLY_CHAIN_FINANCE |-> {"PROCUREMENT", "CFO", "TREASURER", "FINANCE_OPERATIONS", "COO"},
     GUARANTEES_AND_LC |-> {"TREASURER", "RISK_LEGAL", "COO", "CFO"},
     WORKING_CAPITAL_REVOLVING |-> {"CFO", "TREASURER", "PROCUREMENT"},
     TERM_AND_SYNDICATED_LENDING |-> {"CFO", "TREASURER", "CEO_BOARD", "COO", "SUSTAINABILITY"},
     DEBT_CAPITAL_MARKETS |-> {"CFO", "TREASURER", "CEO_BOARD", "SUSTAINABILITY"},
     PROJECT_FINANCE |-> {"CFO", "TREASURER", "COO", "CORPORATE_DEVELOPMENT", "SUSTAINABILITY"},
     INTEREST_RATE_RISK_MANAGEMENT |-> {"TREASURER", "CFO", "CEO_BOARD"},
     COMMODITY_RISK_MANAGEMENT |-> {"TREASURER", "COO", "PROCUREMENT", "CFO"},
     ESCROW_AND_AGENCY |-> {"RISK_LEGAL", "CORPORATE_DEVELOPMENT", "TREASURER", "CFO", "COO"},
     SUSTAINABLE_FINANCE |-> {"SUSTAINABILITY", "CFO", "TREASURER", "CEO_BOARD", "COO"},
     MA_AND_STRATEGIC_ADVISORY |-> {"CORPORATE_DEVELOPMENT", "CEO_BOARD", "CFO"}]
=============================================================================
