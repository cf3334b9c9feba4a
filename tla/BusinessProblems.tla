-------------------------- MODULE BusinessProblems --------------------------
(***************************************************************************)
(* The eighteen problem detectors (problems.py), the indicators they read  *)
(* (indicators.py), and the estimators that say which solutions can be     *)
(* sized for a client (solutions.py).  A client is a record of what the    *)
(* rules look at:                                                          *)
(*    status     of every public concept: absent, pending or approved;     *)
(*               the bank's own claims are never of a public tier          *)
(*    nil        the public concepts disclosed with an amount of zero       *)
(*    over       the indicators whose median is past the rule's threshold  *)
(*    observed   the bank's own flows, their shifts, and its indices past   *)
(*               a threshold                                               *)
(*    countries, breadth, complexity, sector, alarm, flagged               *)
(*    pipeline   of dated trade events: none, without a value, with one    *)
(*    legacy     the solutions for which V3 has an opportunity             *)
(* Weights, the evidence against a problem and signals that have neither   *)
(* evidence nor identify anything are left out: they decide neither what   *)
(* is identified nor what is eligible.  A disclosed concept has an amount, *)
(* which is not negative; all that matters of it is whether it is zero,    *)
(* for some rules take an amount of zero for none and others do not.       *)
(***************************************************************************)
EXTENDS Integers, Sequences, SequencesExt, SolutionTaxonomy

(* The opening balances are those of inventories, receivables and payables, *)
(* the closing ones those of inventories and receivables, which every rule  *)
(* takes together; revenue stands for the concepts its readers fall back to. *)
PublicConcept ==
    {"current_debt_maturity_window", "current_debt", "term_finance", "current_liabilities",
     "insurance_liabilities", "cash", "short_term_facilities", "revenue", "operating_cost_base",
     "opening_balances", "closing_balances", "trade_payables_close", "trade_payables",
     "fx_exposure"}

Disclosed(c) == {concept \in PublicConcept : c.status[concept] # "absent"}

(* The first concept of a fallback chain that is disclosed, if any. *)
FirstOf(c, chain) ==
    {chain[i] : i \in {j \in DOMAIN chain : /\ chain[j] \in Disclosed(c)
                                            /\ \A k \in 1 .. j - 1 : chain[k] \notin Disclosed(c)}}

(* That concept, if its amount is not zero: a zero does not fall back. *)
NonZero(c, chain) == FirstOf(c, chain) \ c.nil

DebtChain == <<"current_debt", "term_finance", "current_liabilities">>

MaturityChain == <<"current_debt_maturity_window", "current_debt">>

LiquidFunding(c) == {"cash", "short_term_facilities"} \cap Disclosed(c)

(* The claims an indicator is computed from: a set for each input, empty    *)
(* when the input is missing, or is zero and the indicator can then not be  *)
(* past its threshold.                                                      *)
CashConversionCycle(c) ==
    {FirstOf(c, <<"operating_cost_base", "trade_payables">>)}
    \cup {FirstOf(c, <<concept>>) :
              concept \in {"revenue", "opening_balances", "closing_balances",
                           "trade_payables_close"}}

(* The facilities are recorded when they are disclosed and nil when not. *)
LiquidityBuffer(c) ==
    {NonZero(c, Append(DebtChain, "insurance_liabilities")),
     IF "cash" \in Disclosed(c) THEN LiquidFunding(c) ELSE {}}

WorkingCapitalGap(c) ==
    {NonZero(c, <<"closing_balances">>), FirstOf(c, <<"trade_payables_close">>),
     LiquidFunding(c)}

RefinancingExposure(c) ==
    {NonZero(c, <<"current_debt_maturity_window">> \o DebtChain), FirstOf(c, <<"cash">>)}

LeverageProxy(c) == {NonZero(c, DebtChain), NonZero(c, <<"revenue">>)}

Inputs(c, indicator) ==
    CASE indicator = "CCC" -> CashConversionCycle(c)
      [] indicator = "LIQUIDITY_BUFFER" -> LiquidityBuffer(c)
      [] indicator = "WORKING_CAPITAL_GAP" -> WorkingCapitalGap(c)
      [] indicator = "REFINANCING_EXPOSURE" -> RefinancingExposure(c)
      [] indicator = "LEVERAGE_PROXY" -> LeverageProxy(c)

(* The indicator is available and past its threshold. *)
Past(c, indicator) == indicator \in c.over /\ {} \notin Inputs(c, indicator)

(* A supporting signal rests on what the bank observed ("bank" stands for    *)
(* the bank's claims) or on other claims; the policy for a sector is one.    *)
Observed == [observed |-> TRUE, claims |-> {"bank"}]
ObservedWithoutClaim == [observed |-> TRUE, claims |-> {}]
Claimed(concepts) == [observed |-> FALSE, claims |-> concepts]
Computed(c, indicator) == Claimed(UNION Inputs(c, indicator))
SectorPolicy == Claimed({"policy"})
Alarmed == Claimed({})

When(condition, signal) == IF condition THEN {signal} ELSE {}

Hypothesis(identified, support) == [identified |-> identified, support |-> support]

(* No reviewed project, transaction or target is extracted anywhere. *)
NeverIdentified(support) == Hypothesis(FALSE, support)

WorkingCapitalPressure(c) ==
    LET intense == "working_capital_intensity" \in c.observed IN
    Hypothesis(intense \/ Past(c, "CCC") \/ Past(c, "WORKING_CAPITAL_GAP"),
               When(Past(c, "CCC"), Computed(c, "CCC"))
                   \cup When(Past(c, "WORKING_CAPITAL_GAP"), Computed(c, "WORKING_CAPITAL_GAP"))
                   \cup When(intense, Observed))

FxExposure(c) ==
    Hypothesis("cross_border_fx" \in c.observed,
               When("cross_border_fx" \in c.observed \/ c.countries >= 10, Observed)
                   \cup When("fx_exposure" \in Disclosed(c), Claimed({"fx_exposure"})))

InterestRateExposure(c) ==
    LET debt == NonZero(c, DebtChain) IN
    Hypothesis(debt # {},
               When(debt # {}, Claimed(debt))
                   \cup When(Past(c, "LEVERAGE_PROXY"), Computed(c, "LEVERAGE_PROXY")))

CommodityExposure(c) ==
    LET linked == c.sector = "mining" IN
    Hypothesis(linked,
               When(linked, SectorPolicy) \cup When(linked /\ "collections" \in c.observed, Observed))

LiquidityFragmentation(c) ==
    Hypothesis(c.countries >= 10,
               When(c.countries >= 10 \/ {"liquidity", "liquidity_volatility"} \cap c.observed # {},
                    Observed))

(* The event layer dates a maturity from the window or else from the debt,  *)
(* also one of zero.                                                        *)
RefinancingCliff(c) ==
    LET maturity == FirstOf(c, MaturityChain)
        strained == {i \in {"REFINANCING_EXPOSURE", "LIQUIDITY_BUFFER"} : Past(c, i)}
    IN Hypothesis(maturity # {},
                  When(maturity # {}, Claimed(maturity)) \cup {Computed(c, i) : i \in strained})

NewFundingRequirement(c) ==
    LET elevated == "financing_need" \in c.observed
        unfunded == {i \in {"REFINANCING_EXPOSURE", "WORKING_CAPITAL_GAP"} : Past(c, i)}
    IN Hypothesis(elevated \/ unfunded # {},
                  When(elevated, Observed) \cup {Computed(c, i) : i \in unfunded})

PaymentsInefficiency(c) ==
    Hypothesis("payments" \in c.observed,
               When("payments" \in c.observed \/ c.countries >= 12, Observed))

CollectionsInefficiency(c) ==
    LET slow == "DSO" \in c.over /\ {} \notin Inputs(c, "CCC") IN
    Hypothesis("collections" \in c.observed,
               When("collections" \in c.observed, Observed) \cup When(slow, Computed(c, "CCC")))

SupplyChainRisk(c) ==
    LET evident == c.pipeline # "none" \/ "payments_growth" \in c.observed
    IN Hypothesis(evident, When(evident, Observed))

GuaranteeRequirement(c) ==
    Hypothesis(c.pipeline = "sized", When(c.pipeline = "sized", Observed))

TreasuryCentralisation(c) ==
    Hypothesis(c.countries >= 12 \/ c.complexity = "high",
               When(c.countries >= 12 \/ c.complexity # "unknown", Observed))

ProjectMobilisation(c) == NeverIdentified({})

MaStrategicEvent(c) == NeverIdentified({})

EsgTransitionFunding(c) == NeverIdentified({})

CapitalStructureEvent(c) ==
    NeverIdentified(When("event_intensity" \in c.observed, Observed))

(* The loss is seen in the bank's own flows, whose claims are not quoted,   *)
(* and its size only in an alarm.                                           *)
WalletLeakage(c) ==
    LET falling == "falling_flow" \in c.observed IN
    Hypothesis(falling /\ c.alarm,
               When(falling, ObservedWithoutClaim) \cup When(c.alarm, Alarmed))

OperationalResilience(c) ==
    LET dependent == c.breadth >= 4 /\ c.countries >= 10
    IN Hypothesis(dependent, When(dependent, Observed))

Detect(c, problem) ==
    CASE problem = "WORKING_CAPITAL_PRESSURE" -> WorkingCapitalPressure(c)
      [] problem = "FX_EXPOSURE" -> FxExposure(c)
      [] problem = "INTEREST_RATE_EXPOSURE" -> InterestRateExposure(c)
      [] problem = "COMMODITY_EXPOSURE" -> CommodityExposure(c)
      [] problem = "LIQUIDITY_FRAGMENTATION" -> LiquidityFragmentation(c)
      [] problem = "REFINANCING_CLIFF" -> RefinancingCliff(c)
      [] problem = "NEW_FUNDING_REQUIREMENT" -> NewFundingRequirement(c)
      [] problem = "PAYMENTS_INEFFICIENCY" -> PaymentsInefficiency(c)
      [] problem = "COLLECTIONS_INEFFICIENCY" -> CollectionsInefficiency(c)
      [] problem = "SUPPLY_CHAIN_RISK" -> SupplyChainRisk(c)
      [] problem = "GUARANTEE_OR_COLLATERAL_REQUIREMENT" -> GuaranteeRequirement(c)
      [] problem = "TREASURY_CENTRALISATION" -> TreasuryCentralisation(c)
      [] problem = "CAPITAL_STRUCTURE_EVENT" -> CapitalStructureEvent(c)
      [] problem = "WALLET_LEAKAGE" -> WalletLeakage(c)
      [] problem = "OPERATIONAL_RESILIENCE" -> OperationalResilience(c)
      [] problem = "PROJECT_MOBILISATION" -> ProjectMobilisation(c)
      [] problem = "MA_OR_STRATEGIC_EVENT" -> MaStrategicEvent(c)
      [] problem = "ESG_TRANSITION_FUNDING" -> EsgTransitionFunding(c)

(* One supporting signal is the bank's own or has one approved claim. *)
Governed(c, hypothesis) ==
    \E signal \in hypothesis.support :
        signal.observed \/ \E concept \in signal.claims \cap PublicConcept :
                               c.status[concept] = "approved"

CommerciallyEligible(c, hypothesis) ==
    hypothesis.identified /\ Governed(c, hypothesis) /\ hypothesis.support # {}

(* Which solutions can be sized: one estimator for each that V3 has no      *)
(* product for.                                                             *)
SupplyChainFinance(c) ==
    \/ "payments" \in c.observed
    \/ ({"trade_payables_close", "trade_payables"} \cap Disclosed(c)) \ c.nil # {}

Guarantees(c) == c.pipeline = "sized"

Revolver(c) == Past(c, "WORKING_CAPITAL_GAP")

Dcm(c) == NonZero(c, MaturityChain) # {}

TermLending(c) == Past(c, "REFINANCING_EXPOSURE") \/ NonZero(c, MaturityChain) # {}

(* Mutant: term finance is not taken for debt. *)
RatesOfCurrentItems(c) == NonZero(c, <<"current_debt", "current_liabilities">>) # {}

Rates(c) == NonZero(c, DebtChain) # {}

Commodity(c) == CommodityExposure(c).identified /\ "collections" \in c.observed

Escrow(c) == MaStrategicEvent(c).identified \/ CapitalStructureEvent(c).identified

(* Project finance, sustainable finance and advisory are never sized. *)
Sizeable(c) ==
    c.legacy \cup
        LET estimates ==
                [SUPPLY_CHAIN_FINANCE |-> SupplyChainFinance(c),
                 GUARANTEES_AND_LC |-> Guarantees(c),
                 WORKING_CAPITAL_REVOLVING |-> Revolver(c),
                 TERM_AND_SYNDICATED_LENDING |-> TermLending(c),
                 DEBT_CAPITAL_MARKETS |-> Dcm(c),
                 INTEREST_RATE_RISK_MANAGEMENT |-> Rates(c),
                 COMMODITY_RISK_MANAGEMENT |-> Commodity(c),
                 ESCROW_AND_AGENCY |-> Escrow(c)]
        IN {s \in DOMAIN estimates : estimates[s]}
=============================================================================
