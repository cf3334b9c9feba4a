---------------------------- MODULE ClockProofs ----------------------------
(***************************************************************************)
(* Proofs about the rehearsal clock: its streak is unbroken after any days *)
(* in any order, and the canonical rehearsal reaches the days required for *)
(* every incident day and every requirement.                               *)
(***************************************************************************)
EXTENDS RehearsalClock, TLAPS

(* The results run_day appends. *)
DayResult == {CleanDay(n) : n \in Nat} \cup {BrokenDay(i) : i \in IncidentForm}

(* The counters and the history agree on their types and on the number of   *)
(* days.                                                                    *)
ClockInv == TypeOK /\ history \in Seq(DayResult)

(* How far the canonical rehearsal has come: clean so far, or that many     *)
(* days past the one incident.                                              *)
CanonicalProgress ==
    plan # NoPlan =>
        /\ day <= TotalDays
        /\ day < plan.incidentDay => clean = day /\ incidents = 0
        /\ day >= plan.incidentDay =>
               /\ clean = day - plan.incidentDay
               /\ incidents = 1
               /\ reason = CanonicalIncident.scenario

LEMMA CleanDayFacts ==
    ASSUME NEW n \in Nat PROVE CleanDay(n) \in DayResult /\ CleanDay(n).clean
    BY DEF DayResult, CleanDay

LEMMA BrokenDayFacts ==
    ASSUME NEW i \in IncidentForm PROVE BrokenDay(i) \in DayResult /\ ~BrokenDay(i).clean
    BY DEF DayResult, BrokenDay

LEMMA CanonicalIncidentForm == CanonicalIncident \in IncidentForm
<1>1. "reconciliation-break" \in Scenario
    BY DEF Scenario, ScenarioStep
<1>2. TargetedGate["reconciliation-break"] = "reconciliation-exact"
    BY <1>1 DEF TargetedGate, ScenarioStep, StepGate
<1>3. "reconciliation-exact" \in Range(TargetedGate)
    BY <1>1, <1>2 DEF Range, TargetedGate
<1> QED
    BY <1>1, <1>3 DEF CanonicalIncident, IncidentForm

-----------------------------------------------------------------------------
(* One day, of either kind. *)

LEMMA InitClock == Init => ClockInv /\ StreakIsUnbroken
    BY DEF Init, ClockInv, TypeOK, StreakIsUnbroken, NoReason

LEMMA CleanDayKeeps ==
    ASSUME ClockInv, RunCleanDay
    PROVE  ClockInv' /\ (StreakIsUnbroken => StreakIsUnbroken')
<1> USE DEF RunCleanDay, AdvanceClean, ClockInv, TypeOK
<1>1. clean' \in Nat /\ day' = day + 1 /\ clean' = clean + 1
    OBVIOUS
<1>2. CleanDay(clean') \in DayResult /\ CleanDay(clean').clean
    BY <1>1, CleanDayFacts
<1>3. /\ history' \in Seq(DayResult)
      /\ Len(history') = day + 1
      /\ \A k \in 1 .. day : history'[k] = history[k]
      /\ history'[day + 1] = CleanDay(clean')
    BY <1>2
<1>4. ClockInv'
    BY <1>1, <1>3
<1>5. ASSUME StreakIsUnbroken PROVE StreakIsUnbroken'
    <2>1. ASSUME NEW k \in DOMAIN history', k > day' - clean' PROVE history'[k].clean
        BY <1>1, <1>2, <1>3, <1>5, <2>1 DEF StreakIsUnbroken
    <2>2. ASSUME clean' < day' PROVE ~history'[day' - clean'].clean
        <3>1. day' - clean' = day - clean /\ day - clean \in 1 .. day
            BY <1>1, <1>5, <2>2 DEF StreakIsUnbroken
        <3> QED
            BY <1>1, <1>3, <1>5, <2>2, <3>1 DEF StreakIsUnbroken
    <2> QED
        BY <1>1, <1>5, <2>1, <2>2 DEF StreakIsUnbroken
<1> QED
    BY <1>4, <1>5

LEMMA BrokenDayKeeps ==
    ASSUME ClockInv, NEW i \in IncidentForm, RunBrokenDay(i)
    PROVE  ClockInv' /\ StreakIsUnbroken'
<1> USE DEF RunBrokenDay, AdvanceWithIncident, ClockInv, TypeOK
<1>1. day' = day + 1 /\ clean' = 0 /\ incidents' \in Nat
    OBVIOUS
<1>2. reason' \in Scenario \cup {NoReason}
    BY DEF IncidentForm
<1>3. BrokenDay(i) \in DayResult /\ ~BrokenDay(i).clean
    BY BrokenDayFacts
<1>4. /\ history' \in Seq(DayResult)
      /\ Len(history') = day + 1
      /\ history'[day + 1] = BrokenDay(i)
    BY <1>3
<1>5. ClockInv'
    BY <1>1, <1>2, <1>4
<1>6. StreakIsUnbroken'
    BY <1>1, <1>3, <1>4 DEF StreakIsUnbroken
<1> QED
    BY <1>5, <1>6

-----------------------------------------------------------------------------
(* The steps of Next are such days. *)

LEMMA PlanFacts ==
    ASSUME plan \in Plan \cup {NoPlan}, plan # NoPlan
    PROVE  plan.incidentDay \in Nat \ {0} /\ plan.required \in Nat
    BY ClockAssumption

LEMMA StepKeeps ==
    ASSUME ClockInv, StreakIsUnbroken, [Next]_vars
    PROVE  ClockInv' /\ StreakIsUnbroken'
<1>1. CASE RunCleanDay
    BY <1>1, CleanDayKeeps
<1>2. ASSUME NEW i \in IncidentForm, RunBrokenDay(i) PROVE ClockInv' /\ StreakIsUnbroken'
    BY <1>2, BrokenDayKeeps
<1>3. CASE FreeDay
    BY <1>1, <1>2, <1>3, ClockAssumption DEF FreeDay
<1>4. CASE CanonicalDay
    BY <1>1, <1>2, <1>4, CanonicalIncidentForm DEF CanonicalDay
<1>5. CASE UNCHANGED vars
    BY <1>5 DEF vars, clock, ClockInv, TypeOK, StreakIsUnbroken
<1> QED
    BY <1>3, <1>4, <1>5 DEF Next

(* consecutive_clean is the unbroken streak after any days in any order,    *)
(* with any incidents, and in every canonical rehearsal.                    *)
THEOREM StreakUnbroken == Spec => []StreakIsUnbroken
<1>1. ClockInv /\ StreakIsUnbroken /\ [Next]_vars => ClockInv' /\ StreakIsUnbroken'
    BY StepKeeps
<1> QED
    BY <1>1, InitClock, PTL DEF Spec

-----------------------------------------------------------------------------
(* The canonical rehearsal, day by day. *)

LEMMA InitProgress == Init => CanonicalProgress
<1> SUFFICES ASSUME Init, plan # NoPlan PROVE CanonicalProgress
    BY DEF CanonicalProgress
<1>1. plan.incidentDay \in Nat \ {0} /\ plan.required \in Nat
    BY PlanFacts DEF Init
<1> QED
    BY <1>1 DEF Init, CanonicalProgress, TotalDays

LEMMA IncidentDayProgresses ==
    ASSUME ClockInv, CanonicalProgress, CanonicalDay, day + 1 = plan.incidentDay
    PROVE  CanonicalProgress'
<1>1. plan.incidentDay \in Nat \ {0} /\ plan.required \in Nat /\ day \in Nat
    BY PlanFacts DEF ClockInv, TypeOK, CanonicalDay
<1>2. RunBrokenDay(CanonicalIncident) /\ plan # NoPlan
    BY DEF CanonicalDay
<1>3. /\ plan' = plan /\ day' = day + 1 /\ clean' = 0 /\ incidents' = incidents + 1
      /\ reason' = CanonicalIncident.scenario
    BY <1>2 DEF RunBrokenDay, AdvanceWithIncident, CanonicalIncident
<1> QED
    BY <1>1, <1>2, <1>3 DEF CanonicalProgress, TotalDays, CanonicalIncident

LEMMA OtherDayProgresses ==
    ASSUME ClockInv, CanonicalProgress, CanonicalDay, day + 1 # plan.incidentDay
    PROVE  CanonicalProgress'
<1>1. plan.incidentDay \in Nat \ {0} /\ plan.required \in Nat /\ day \in Nat
    BY PlanFacts DEF ClockInv, TypeOK, CanonicalDay
<1>2. RunCleanDay /\ day < TotalDays /\ plan # NoPlan
    BY DEF CanonicalDay
<1>3. /\ plan' = plan /\ day' = day + 1 /\ clean' = clean + 1
      /\ incidents' = incidents /\ reason' = reason
    BY <1>2 DEF RunCleanDay, AdvanceClean
<1> QED
    BY <1>1, <1>2, <1>3 DEF CanonicalProgress, TotalDays, CanonicalIncident

(* The canonical rehearsal, whatever the incident day and the days          *)
(* required, ends with exactly the days required, one incident, and the     *)
(* breakdown on record.                                                     *)
THEOREM CanonicalReached == Spec => []CanonicalOutcome
<1> DEFINE Inv == ClockInv /\ StreakIsUnbroken /\ CanonicalProgress
<1>1. Init => Inv
    BY InitClock, InitProgress
<1>2. Inv /\ [Next]_vars => Inv'
    <2> SUFFICES ASSUME Inv, [Next]_vars PROVE CanonicalProgress'
        BY StepKeeps
    <2>1. CASE FreeDay
        BY <2>1 DEF FreeDay, RunCleanDay, RunBrokenDay, CanonicalProgress
    <2>2. CASE CanonicalDay
        BY <2>2, IncidentDayProgresses, OtherDayProgresses
    <2>3. CASE UNCHANGED vars
        BY <2>3 DEF vars, clock, CanonicalProgress, TotalDays
    <2> QED
        BY <2>1, <2>2, <2>3 DEF Next
<1>3. Inv => CanonicalOutcome
    <2> SUFFICES ASSUME Inv, plan # NoPlan, day = TotalDays PROVE
                     /\ clean = plan.required
                     /\ incidents = 1
                     /\ reason = CanonicalIncident.scenario
        BY DEF CanonicalOutcome
    <2>1. plan.incidentDay \in Nat \ {0} /\ plan.required \in Nat
        BY PlanFacts DEF ClockInv, TypeOK
    <2> QED
        BY <2>1 DEF CanonicalProgress, TotalDays
<1> QED
    BY <1>1, <1>2, <1>3, PTL DEF Spec
=============================================================================
