-------------------------- MODULE PromotionPolicy --------------------------
(***************************************************************************)
(* How the promotion position is computed (states.py, scoring.py and       *)
(* engine.py of src/wallet_twin_v32).  Everything here is a function of    *)
(* two values: the list of gate evaluations, a sequence in the order they  *)
(* were recorded, and the approvals, a function from approval ids.         *)
(*                                                                         *)
(* A promotion state is its rank in PROMOTION_ORDER, 0 .. TopRank, and     *)
(* transition k is the one from rank k-1 to rank k.                        *)
(***************************************************************************)
EXTENDS EvidenceModes, FiniteSetsExt, Sequences

CONSTANTS
    TopRank,         \* rank of the highest promotion state
    GateOrder,       \* the gate catalogue, in catalogue order
    TransitionOf,    \* the transition each gate belongs to
    Blocking,        \* the gates whose failure blocks their transition
    Weight,          \* the severity weight of each gate
    MinimumMode,     \* the weakest evidence mode a gate declares admissible
    ForeignGate,     \* gate ids a client may send that no gate has
    Capability,      \* the capabilities of the register
    Threshold,       \* the lowest rank at which a capability can be granted
    Prerequisite,    \* the gates that must also hold on the real track
    Withheld         \* the capabilities refused whatever the evidence

Rank == 0 .. TopRank
Transition == 1 .. TopRank
Gate == {GateOrder[i] : i \in DOMAIN GateOrder}
GateId == Gate \cup ForeignGate

ASSUME PolicyAssumption ==
    /\ TopRank \in Nat
    /\ GateOrder \in Seq(Gate)
    /\ Gate \cap ForeignGate = {}
    /\ TransitionOf \in [Gate -> Transition]
    /\ Blocking \subseteq Gate
    /\ Weight \in [Gate -> Nat]
    /\ MinimumMode \in [Gate -> RealTrackModes]
    /\ Threshold \in [Capability -> Rank]
    /\ Prerequisite \in [Capability -> SUBSET Gate]
    /\ Withheld \subseteq Capability

-----------------------------------------------------------------------------
(* Evaluations and approvals. *)

Outcome == {"PASS", "FAIL", "UNKNOWN", "NOT_REQUIRED", "WAIVED"}

NoMode == "NONE"

(* A GateEvaluation: `at` is evaluated_at, `backed` says that evidence_ids  *)
(* is not empty, `waiver` that waived_by is set, `injected` is              *)
(* failure_injection_verified.                                              *)
EvaluationForm ==
    [gate : GateId, track : Track, outcome : Outcome,
     mode : Mode \cup {NoMode}, backed : BOOLEAN, waiver : BOOLEAN,
     injected : BOOLEAN, at : Nat]

(* The validator of GateEvaluation. *)
ValidEvaluation(e) ==
    /\ e.mode # NoMode => AdmitsTrack(e.mode, e.track)
    /\ e.outcome = "PASS" => e.mode # NoMode /\ e.backed
    /\ e.waiver <=> e.outcome = "WAIVED"

Evaluation == {e \in EvaluationForm : ValidEvaluation(e)}

Satisfied(e) == e.outcome \in {"PASS", "NOT_REQUIRED", "WAIVED"}

(* Mutant: the last entry wins, however old it is. *)
NewestLastInOrder(f, S) == {i \in S : \A j \in S : j <= i}

(* The walk "replace the entry kept so far when the next one is not older"  *)
(* of _evaluations_on and approved_transitions: of the entries S of f, the  *)
(* newest by `at`, and among equally new ones the last in order.  At most   *)
(* one index qualifies.                                                     *)
Newest(f, S) ==
    {i \in S : \A j \in S : f[j].at < f[i].at \/ (f[j].at = f[i].at /\ j <= i)}

(* Mutant: the track is not looked at. *)
InForceAnyTrack(evals, gate, track) ==
    {evals[i] : i \in Newest(evals, {j \in DOMAIN evals : evals[j].gate = gate})}

(* _evaluations_on: the evaluation in force for a gate on a track, if any. *)
InForce(evals, gate, track) ==
    {evals[i] : i \in Newest(evals, {j \in DOMAIN evals :
                                        evals[j].gate = gate /\ evals[j].track = track})}

GateSatisfied(evals, gate, track) ==
    \E e \in InForce(evals, gate, track) : Satisfied(e)

-----------------------------------------------------------------------------
(* Position. *)

(* passed_transitions: every blocking gate of the transition is satisfied. *)
GateReady(evals, track) ==
    {k \in Transition : \A gate \in Blocking :
                            TransitionOf[gate] = k => GateSatisfied(evals, gate, track)}

(* Mutant: any approval on file counts, whatever was reviewed after it. *)
ApprovedEver(apps, track) ==
    {k \in Transition : \E i \in DOMAIN apps :
        apps[i].track = track /\ apps[i].transition = k /\ apps[i].decision = "APPROVED"}

(* approved_transitions: the approval in force for the transition approves. *)
Approved(apps, track) ==
    {k \in Transition :
        \E i \in Newest(apps, {j \in DOMAIN apps :
                                  apps[j].track = track /\ apps[j].transition = k}) :
            apps[i].decision = "APPROVED"}

Passed(evals, apps, track) == GateReady(evals, track) \cap Approved(apps, track)

(* Mutant: the highest transition passed, missing ones or not. *)
AttainedHighest(passed) ==
    CHOOSE k \in Rank : k \in passed \cup {0} /\ \A j \in passed : j <= k

(* attained_state: the walk stops at the first transition that is missing. *)
AttainedState(passed) ==
    CHOOSE k \in Rank : 1 .. k \subseteq passed /\ k + 1 \notin passed

Position(evals, apps, track) == AttainedState(Passed(evals, apps, track))

-----------------------------------------------------------------------------
(* Capabilities. *)

(* passed_gate_ids: every gate id, catalogued or not, satisfied on a track. *)
PassedGates(evals, track) == {gate \in GateId : GateSatisfied(evals, gate, track)}

(* Mutant: the evidence prerequisites are forgotten. *)
GrantedByRank(rank, gates) == {c \in Capability \ Withheld : Threshold[c] <= rank}

(* granted_capabilities. *)
GrantedCapabilities(rank, gates) ==
    {c \in Capability \ Withheld : Threshold[c] <= rank /\ Prerequisite[c] \subseteq gates}

(* capability_refusal_reason: NotRefused is its None. *)
NotRefused == [kind |-> "NONE", rank |-> 0, missing |-> {}]

RefusalReason(c, rank, gates) ==
    IF c \in Withheld
      THEN [NotRefused EXCEPT !.kind = "PERMANENTLY_WITHHELD_BY_DESIGN"]
    ELSE IF rank < Threshold[c]
      THEN [NotRefused EXCEPT !.kind = "REQUIRES_STATE", !.rank = rank]
    ELSE IF ~(Prerequisite[c] \subseteq gates)
      THEN [NotRefused EXCEPT !.kind = "REQUIRES_REAL_GATES", !.missing = Prerequisite[c] \ gates]
    ELSE NotRefused

-----------------------------------------------------------------------------
(* Scores. *)

WeightOf(gates) == MapThenSumSet(LAMBDA gate : Weight[gate], gates)

(* Gates that pass in rehearsal and have been seen failing on purpose. *)
Rehearsed(evals) ==
    {gate \in Gate : \E e \in InForce(evals, gate, "REHEARSAL") : Satisfied(e) /\ e.injected}

(* Gates whose evaluation in force on the track satisfies them by a waiver. *)
WaivedOn(evals, track) ==
    {gate \in Gate : \E e \in InForce(evals, gate, track) : e.outcome = "WAIVED"}

(* Promotion Machinery Readiness and Bank Evidence Readiness, as earned weights. *)
PmrEarned(evals) == WeightOf(Rehearsed(evals))

BankEvidenced(evals) ==
    {gate \in Gate : \E e \in InForce(evals, gate, "REAL") :
                        Satisfied(e) /\ e.mode # NoMode /\ BankEvidenceWeight(e.mode) = 1}

BerEarned(evals) == WeightOf(BankEvidenced(evals))

(* compute_score. *)
Score(evals) ==
    [pmr      |-> PmrEarned(evals),
     ber      |-> BerEarned(evals),
     excluded |-> WeightOf(Rehearsed(evals) \ PassedGates(evals, "REAL")),
     waived   |-> Cardinality(WaivedOn(evals, "REHEARSAL") \cap Rehearsed(evals))
                    + Cardinality(WaivedOn(evals, "REAL"))]

-----------------------------------------------------------------------------
(* evaluate_promotion: the PromotionDecision, which is also the payload an  *)
(* approval is bound to.  It carries outcomes only as far as they move the  *)
(* states, the capabilities, the scores and the counts: neither the         *)
(* evidence ids nor the evaluations themselves are in it.                   *)
Decision(evals, apps) ==
    LET realPassed == Passed(evals, apps, "REAL")
        rehearsalPassed == Passed(evals, apps, "REHEARSAL")
        real == AttainedState(realPassed)
        gates == PassedGates(evals, "REAL")
    IN [realState       |-> real,
        rehearsedState  |-> AttainedState(rehearsalPassed),
        shadowAuthorized |-> real >= 1,
        realPassed      |-> realPassed,
        rehearsalPassed |-> rehearsalPassed,
        granted         |-> GrantedCapabilities(real, gates),
        refused         |-> [c \in Capability |-> RefusalReason(c, real, gates)],
        score           |-> Score(evals),
        unevaluated     |-> Cardinality({gate \in Gate : InForce(evals, gate, "REAL") = {}}),
        awaitingReal    |-> Cardinality(GateReady(evals, "REAL") \ Approved(apps, "REAL")),
        awaitingRehearsal |->
            Cardinality(GateReady(evals, "REHEARSAL") \ Approved(apps, "REHEARSAL"))]
=============================================================================
