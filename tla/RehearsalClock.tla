--------------------------- MODULE RehearsalClock ---------------------------
(***************************************************************************)
(* The virtual clock of the accelerated shadow rehearsal (rehearsal.py of  *)
(* src/wallet_twin_v32) and the runs that drive it: any sequence of days   *)
(* with and without injected incidents, and the canonical rehearsal, which *)
(* is clean up to one incident and then clean for the days required.       *)
(***************************************************************************)
EXTENDS Integers, Sequences, FiniteSets, Functions

CONSTANTS
    Incident,   \* the incidents injected
    Plan,       \* the canonical rehearsals asked for
    MaxDays     \* bound on the days of a free run

NoGate == "NONE"
NoReason == "NONE"

(* The plan of a free run, which is not a canonical rehearsal. *)
NoPlan == [incidentDay |-> 0, required |-> 0]

(* DAILY_SEQUENCE: the gate each of the ten steps produces evidence for. *)
StepGate ==
    <<"point-in-time-zero-leakage", NoGate, NoGate, "reconciliation-exact", NoGate,
      "genai-schema-and-fidelity", "prompt-injection-resistance",
      "entitlement-negative-tests", "event-latency", "refresh-by-0600-sast">>

(* SCENARIO_STEP: the step each negative scenario breaks. *)
ScenarioStep ==
    [scenario \in {"reconciliation-break", "point-in-time-leak", "cross-client-read",
                   "unsupported-critical-claim", "prompt-injection-success",
                   "late-refresh", "sev1-incident"} |->
        CASE scenario = "reconciliation-break"       -> 4
          [] scenario = "point-in-time-leak"         -> 1
          [] scenario = "cross-client-read"          -> 8
          [] scenario = "unsupported-critical-claim" -> 6
          [] scenario = "prompt-injection-success"   -> 7
          [] scenario = "late-refresh"               -> 10
          [] scenario = "sev1-incident"              -> 10]

Scenario == DOMAIN ScenarioStep

(* NEGATIVE_SCENARIOS: the gate each scenario says it must break. *)
TargetedGate ==
    [scenario \in Scenario |->
        IF scenario = "sev1-incident" THEN "no-unresolved-sev1-sev2"
                                      ELSE StepGate[ScenarioStep[scenario]]]

(* The scenarios whose step fails with CRITICAL severity: their incident is   *)
(* recorded as a formal breakdown.                                          *)
CriticalScenario == Scenario \ {"unsupported-critical-claim", "late-refresh"}

(* The incident run_negative_scenarios injects for a scenario. *)
NegativeIncident(scenario) ==
    [scenario |-> scenario, gate |-> TargetedGate[scenario],
     resets |-> scenario \in CriticalScenario]

(* An IncidentInjection: its scenario, the gate it expects to fail, and     *)
(* whether it counts as a formal breakdown.                                 *)
IncidentForm == [scenario : Scenario, gate : Range(TargetedGate), resets : BOOLEAN]

ASSUME ClockAssumption ==
    /\ Incident \subseteq IncidentForm
    /\ Plan \subseteq [incidentDay : Nat \ {0}, required : Nat]
    /\ MaxDays \in Nat

VARIABLES
    day,         \* the days elapsed on the virtual clock
    clean,       \* consecutive_clean
    incidents,   \* incidents injected so far
    reason,      \* last_reset_reason, as the scenario that caused it
    history,     \* the DayResult of every day
    plan         \* the canonical rehearsal under way, or NoPlan

clock == <<day, clean, incidents, reason>>
vars == <<clock, history, plan>>

Init ==
    /\ day = 0 /\ clean = 0 /\ incidents = 0 /\ reason = NoReason
    /\ history = <<>>
    /\ plan \in Plan \cup {NoPlan}

-----------------------------------------------------------------------------
(* advance_clean. *)
AdvanceClean ==
    /\ day' = day + 1
    /\ clean' = clean + 1
    /\ UNCHANGED <<incidents, reason>>

(* Mutant: an incident that is no formal breakdown keeps the streak. *)
AdvanceWithMildIncident(scenario, resets) ==
    /\ day' = day + 1
    /\ incidents' = incidents + 1
    /\ clean' = (IF resets THEN 0 ELSE clean)
    /\ reason' = (IF resets THEN scenario ELSE reason)

(* advance_with_incident: any incident ends the streak, and a formal        *)
(* breakdown is also named.                                                 *)
AdvanceWithIncident(scenario, resets) ==
    /\ day' = day + 1
    /\ incidents' = incidents + 1
    /\ clean' = 0
    /\ reason' = (IF resets THEN scenario ELSE reason)

CleanDay(streak) ==
    [clean |-> TRUE, steps |-> Len(StepGate), step |-> 0, gate |-> NoGate, streak |-> streak]

(* The day stops at the broken step, and reports the gate its incident      *)
(* expected to fail.                                                        *)
BrokenDay(i) ==
    [clean |-> FALSE, steps |-> ScenarioStep[i.scenario] - 1, step |-> ScenarioStep[i.scenario],
     gate |-> i.gate, streak |-> 0]

(* run_day without an incident, and with one. *)
RunCleanDay ==
    /\ AdvanceClean
    /\ history' = Append(history, CleanDay(clean'))
    /\ UNCHANGED plan

RunBrokenDay(i) ==
    /\ AdvanceWithIncident(i.scenario, i.resets)
    /\ history' = Append(history, BrokenDay(i))
    /\ UNCHANGED plan

(* A free run: days in any order, as the negative scenarios run some. *)
FreeDay ==
    /\ plan = NoPlan /\ day < MaxDays
    /\ \/ RunCleanDay
       \/ \E i \in Incident : RunBrokenDay(i)

-----------------------------------------------------------------------------
(* canonical_rehearsal. *)

CanonicalIncident == [scenario |-> "reconciliation-break", gate |-> "reconciliation-exact",
                      resets |-> TRUE]

TotalDays == plan.incidentDay + plan.required

(* Mutant: the days are counted from zero, so the incident comes a day late. *)
CanonicalDayFromZero ==
    /\ plan # NoPlan /\ day < TotalDays
    /\ IF day = plan.incidentDay THEN RunBrokenDay(CanonicalIncident) ELSE RunCleanDay

CanonicalDay ==
    /\ plan # NoPlan /\ day < TotalDays
    /\ IF day + 1 = plan.incidentDay THEN RunBrokenDay(CanonicalIncident) ELSE RunCleanDay

Next == FreeDay \/ CanonicalDay

Spec == Init /\ [][Next]_vars

-----------------------------------------------------------------------------
(* What the rehearsal clock is checked for.                                 *)

(* The counters are what their names say, and history has every day. *)
TypeOK ==
    /\ day \in Nat /\ clean \in Nat /\ incidents \in Nat
    /\ reason \in Scenario \cup {NoReason}
    /\ Len(history) = day
    /\ plan \in Plan \cup {NoPlan}

(* consecutive_clean is a streak: the days since the last day that was not  *)
(* clean, whatever its severity ("thirty consecutive clean days is not      *)
(* satisfied by twenty-nine clean days around a failure").                  *)
StreakIsUnbroken ==
    /\ clean <= day
    /\ \A i \in DOMAIN history : i > day - clean => history[i].clean
    /\ clean < day => ~history[day - clean].clean

(* The canonical rehearsal ends with the clean days required, after a reset *)
(* that is on record ("clean, break, recover, reach thirty").               *)
CanonicalOutcome ==
    plan # NoPlan /\ day = TotalDays =>
        /\ clean = plan.required
        /\ incidents = 1
        /\ reason = CanonicalIncident.scenario
=============================================================================
