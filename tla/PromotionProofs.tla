-------------------------- MODULE PromotionProofs --------------------------
(***************************************************************************)
(* Theorems about the promotion repository, for every catalogue, every set *)
(* of clients and every bound.                                             *)
(***************************************************************************)
EXTENDS PromotionProperties, PromotionReaders, WellFoundedInduction, TLAPS

-----------------------------------------------------------------------------
(* Type correctness. *)

LEMMA SeedEvaluationValid ==
    ASSUME NEW gate \in Gate
    PROVE  SeedEvaluation(gate) \in Evaluation
BY DEF SeedEvaluation, Evaluation, EvaluationForm, ValidEvaluation, GateId, Track,
       Outcome, Mode, NoMode, AdmitsTrack, RehearsalTrackModes

LEMMA SeedEvaluationsValid == SeedEvaluations \in Seq(Evaluation)
<1>1. GateOrder \in Seq(Gate)
  BY PolicyAssumption DEF PolicyAssumption
<1>2. Len(GateOrder) \in Nat /\ DOMAIN GateOrder = 1 .. Len(GateOrder)
  BY <1>1
<1>3. \A i \in 1 .. Len(GateOrder) : SeedEvaluation(GateOrder[i]) \in Evaluation
  BY <1>1, <1>2, SeedEvaluationValid
<1> QED
  BY <1>2, <1>3 DEF SeedEvaluations

(* Filing an approval under its own id keeps the book well formed. *)
BookOK(book) ==
    /\ DOMAIN book \subseteq ApprovalId
    /\ \A id \in DOMAIN book : book[id] \in Approval /\ book[id].id = id

LEMMA FiledKeepsBook ==
    ASSUME NEW book, BookOK(book), NEW a \in Approval
    PROVE  BookOK(Filed(book, a))
<1>1. a.id \in ApprovalId
  BY DEF Approval, ApprovalForm
<1> QED
  BY <1>1 DEF BookOK, Filed

LEMMA InitTypeOK == Init => TypeOK
<1> SUFFICES ASSUME Init PROVE TypeOK
  OBVIOUS
<1>1. evaluations \in Seq(Evaluation)
  BY SeedEvaluationsValid DEF Init
<1>2. SeedApproval \in Approval
  BY RepositoryAssumption DEF RepositoryAssumption, Approval, FourEyes, SeedApproval
<1>3. BookOK(<<>>)
  BY DEF BookOK
<1>4. BookOK(approvals)
  BY <1>2, <1>3, FiledKeepsBook DEF Init, SeedApprovals
<1>5. DOMAIN desk = Client /\ \A c \in Client : desk[c].read \in 0 .. Len(evaluations)
  BY <1>1 DEF Init
<1> QED
  BY <1>1, <1>4, <1>5 DEF TypeOK, BookOK

LEMMA StepTypeOK == TypeOK /\ [Next]_vars => TypeOK'
<1> SUFFICES ASSUME TypeOK, [Next]_vars PROVE TypeOK'
  OBVIOUS
<1>1. ASSUME NEW c \in Client, ReadDecision(c) PROVE TypeOK'
  BY <1>1 DEF TypeOK, ReadDecision
<1>2. ASSUME NEW e \in EvaluationInputs, RecordEvaluation(e) PROVE TypeOK'
  <2>1. e \in Evaluation
    BY <1>2, RepositoryAssumption DEF RepositoryAssumption, RecordEvaluation, Evaluation
  <2>2. /\ evaluations' \in Seq(Evaluation)
        /\ Len(evaluations') = Len(evaluations) + 1
    BY <1>2, <2>1 DEF RecordEvaluation, TypeOK
  <2> QED
    BY <1>2, <2>2 DEF RecordEvaluation, TypeOK
<1>3. ASSUME NEW c \in Client, NEW a \in ApprovalInputs, RecordApproval(c, a) PROVE TypeOK'
  <2>1. a \in Approval
    BY <1>3, RepositoryAssumption DEF RepositoryAssumption, RecordApproval, Approval
  <2>2. BookOK(approvals')
    BY <1>3, <2>1, FiledKeepsBook DEF RecordApproval, TypeOK, BookOK
  <2> QED
    BY <1>3, <2>2 DEF RecordApproval, TypeOK, BookOK
<1>4. CASE UNCHANGED vars
  BY <1>4 DEF vars, TypeOK
<1> QED
  BY <1>1, <1>2, <1>3, <1>4 DEF Next

(* Every value recorded is one its contract accepts. *)
THEOREM TypeCorrect == Spec => []TypeOK
<1>1. Init => TypeOK
  BY InitTypeOK
<1>2. TypeOK /\ [Next]_vars => TypeOK'
  BY StepTypeOK
<1> QED
  BY <1>1, <1>2, PTL DEF Spec

-----------------------------------------------------------------------------
(* The walk of attained_state. *)

(* A non-empty set of naturals has a least element. *)
LEMMA LeastNatural ==
    ASSUME NEW S, S \subseteq Nat, S # {}
    PROVE  \E m \in S : \A n \in S : m <= n
<1>1. PICK m \in S : \A n \in S : ~(<<n, m>> \in OpToRel(<, Nat))
  BY WFMin, NatLessThanWellFounded, Zenon
<1>2. m \in Nat /\ \A n \in S : n \in Nat /\ ~(n < m)
  BY <1>1, Zenon DEF OpToRel
<1> QED
  BY <1>2

(* The rank attained is that of an unbroken run of passed transitions, and  *)
(* the next transition, if there is one, has not passed.                    *)
LEMMA AttainedStateIsRun ==
    ASSUME NEW passed, passed \subseteq Transition
    PROVE  /\ AttainedState(passed) \in Rank
           /\ 1 .. AttainedState(passed) \subseteq passed
           /\ AttainedState(passed) + 1 \notin passed
<1>1. TopRank \in Nat
  BY PolicyAssumption DEF PolicyAssumption
<1> DEFINE missing == {k \in 1 .. TopRank + 1 : k \notin passed}
<1>2. TopRank + 1 \in missing
  BY <1>1 DEF Transition
<1>a. missing \subseteq Nat /\ missing # {}
  BY <1>1, <1>2
<1>3. PICK m \in missing : \A n \in missing : m <= n
  <2> HIDE DEF missing
  <2> QED
    BY <1>a, LeastNatural
<1>4. m - 1 \in Rank /\ (m - 1) + 1 \notin passed
  BY <1>1, <1>3 DEF Rank
<1>5. 1 .. m - 1 \subseteq passed
  BY <1>1, <1>3
<1>6. \E k \in Rank : 1 .. k \subseteq passed /\ k + 1 \notin passed
  BY <1>4, <1>5, Zenon
<1> QED
  BY <1>6, Zenon DEF AttainedState

LEMMA NothingAttained == AttainedState({}) = 0
<1>1. AttainedState({}) \in Rank /\ 1 .. AttainedState({}) \subseteq {}
  BY AttainedStateIsRun
<1>2. AttainedState({}) \in Nat
  BY <1>1, PolicyAssumption DEF PolicyAssumption, Rank
<1>3. AttainedState({}) >= 1 => 1 \in 1 .. AttainedState({})
  BY <1>2
<1> QED
  BY <1>1, <1>2, <1>3

LEMMA PositionIsRank ==
    ASSUME NEW evals, NEW apps, NEW track
    PROVE  /\ Position(evals, apps, track) \in Rank
           /\ 1 .. Position(evals, apps, track) \subseteq Passed(evals, apps, track)
<1>1. Passed(evals, apps, track) \subseteq Transition
  BY DEF Passed, GateReady
<1> QED
  BY <1>1, AttainedStateIsRun DEF Position

-----------------------------------------------------------------------------
(* The fixture and bank authority. *)

(* In fixture mode nothing at all is recorded on the real track. *)
RealTrackEmpty ==
    FixtureMode =>
        /\ \A i \in DOMAIN evaluations : evaluations[i].track = "REHEARSAL"
        /\ \A id \in DOMAIN approvals : approvals[id].track = "REHEARSAL"

LEMMA InitRealTrackEmpty == Init => RealTrackEmpty
<1> SUFFICES ASSUME Init PROVE RealTrackEmpty
  OBVIOUS
<1>1. \A i \in DOMAIN evaluations : evaluations[i].track = "REHEARSAL"
  BY DEF Init, SeedEvaluations, SeedEvaluation
<1>2. \A id \in DOMAIN approvals : approvals[id].track = "REHEARSAL"
  BY DEF Init, SeedApprovals, SeedApproval, Filed
<1> QED
  BY <1>1, <1>2 DEF RealTrackEmpty

LEMMA StepRealTrackEmpty ==
    TypeOK /\ RealTrackEmpty /\ [Next]_vars => RealTrackEmpty'
<1> SUFFICES ASSUME TypeOK, RealTrackEmpty, [Next]_vars, FixtureMode
             PROVE  RealTrackEmpty'
  BY DEF RealTrackEmpty
<1>1. ASSUME NEW c \in Client, ReadDecision(c) PROVE RealTrackEmpty'
  BY <1>1 DEF RealTrackEmpty, ReadDecision
<1>2. ASSUME NEW e \in EvaluationInputs, RecordEvaluation(e) PROVE RealTrackEmpty'
  <2>1. e.track = "REHEARSAL"
    BY <1>2, RepositoryAssumption
       DEF RepositoryAssumption, RecordEvaluation, GuardRealTrack, EvaluationForm, Track
  <2>2. \A i \in DOMAIN evaluations' :
            evaluations'[i] = e \/ (i \in DOMAIN evaluations /\ evaluations'[i] = evaluations[i])
    BY <1>2 DEF RecordEvaluation, TypeOK
  <2> QED
    BY <1>2, <2>1, <2>2 DEF RealTrackEmpty, RecordEvaluation
<1>3. ASSUME NEW c \in Client, NEW a \in ApprovalInputs, RecordApproval(c, a)
      PROVE  RealTrackEmpty'
  <2>1. a.track = "REHEARSAL"
    BY <1>3, RepositoryAssumption
       DEF RepositoryAssumption, RecordApproval, GuardRealTrack, ApprovalForm, Track
  <2> QED
    BY <1>3, <2>1 DEF RealTrackEmpty, RecordApproval, Filed
<1>4. CASE UNCHANGED vars
  BY <1>4 DEF vars, RealTrackEmpty
<1> QED
  BY <1>1, <1>2, <1>3, <1>4 DEF Next

LEMMA EmptyTrackGivesNothing ==
    ASSUME RealTrackEmpty, FixtureMode
    PROVE  /\ \A gate : InForce(evaluations, gate, "REAL") = {}
           /\ PassedGates(evaluations, "REAL") = {}
           /\ Passed(evaluations, approvals, "REAL") = {}
           /\ BankEvidenced(evaluations) = {}
<1>1. ASSUME NEW gate PROVE InForce(evaluations, gate, "REAL") = {}
  BY DEF RealTrackEmpty, InForce, Newest
<1>2. PassedGates(evaluations, "REAL") = {} /\ BankEvidenced(evaluations) = {}
  BY <1>1 DEF PassedGates, GateSatisfied, BankEvidenced
<1>3. Approved(approvals, "REAL") = {}
  BY DEF RealTrackEmpty, Approved, Newest
<1> QED
  BY <1>1, <1>2, <1>3 DEF Passed

LEMMA NothingGrantedButTheUnconditional ==
    ASSUME NEW c \in GrantedCapabilities(0, {})
    PROVE  Threshold[c] = 0 /\ Prerequisite[c] = {}
<1>1. c \in Capability /\ Threshold[c] <= 0 /\ Prerequisite[c] \subseteq {}
  BY DEF GrantedCapabilities
<1>2. Threshold[c] \in Rank
  BY <1>1, PolicyAssumption DEF PolicyAssumption
<1> QED
  BY <1>1, <1>2, PolicyAssumption DEF Rank, PolicyAssumption

(* What the published decision says of the real track. *)
LEMMA DecisionOfRealTrack ==
    /\ CurrentDecision.realState = Position(evaluations, approvals, "REAL")
    /\ CurrentDecision.shadowAuthorized = (Position(evaluations, approvals, "REAL") >= 1)
    /\ CurrentDecision.realPassed = Passed(evaluations, approvals, "REAL")
    /\ CurrentDecision.granted =
           GrantedCapabilities(Position(evaluations, approvals, "REAL"),
                               PassedGates(evaluations, "REAL"))
BY Zenon DEF CurrentDecision, Decision, Position

LEMMA EmptyTrackNeverAuthorises == RealTrackEmpty => FixtureNeverAuthorises
<1> SUFFICES ASSUME RealTrackEmpty, FixtureMode PROVE FixtureNeverAuthorises
  BY DEF FixtureNeverAuthorises
<1>1. Passed(evaluations, approvals, "REAL") = {} /\ PassedGates(evaluations, "REAL") = {}
  BY EmptyTrackGivesNothing
<1>2. Position(evaluations, approvals, "REAL") = 0 /\ ~(0 >= 1)
  BY <1>1, NothingAttained DEF Position
<1>3. /\ CurrentDecision.realState = 0
      /\ ~CurrentDecision.shadowAuthorized
      /\ CurrentDecision.realPassed = {}
      /\ CurrentDecision.granted = GrantedCapabilities(0, {})
  BY <1>1, <1>2, DecisionOfRealTrack, Zenon
<1>4. BankEvidenced(evaluations) = {}
  BY EmptyTrackGivesNothing
<1>5. \A c \in CurrentDecision.granted : Threshold[c] = 0 /\ Prerequisite[c] = {}
  BY <1>3, NothingGrantedButTheUnconditional
<1> QED
  BY <1>3, <1>4, <1>5 DEF FixtureNeverAuthorises

(* A fixture repository yields no bank authority, whatever clients send. *)
THEOREM FixtureSafe == Spec => []FixtureNeverAuthorises
<1>1. Init => TypeOK /\ RealTrackEmpty
  BY InitTypeOK, InitRealTrackEmpty
<1>2. TypeOK /\ RealTrackEmpty /\ [Next]_vars => TypeOK' /\ RealTrackEmpty'
  BY StepTypeOK, StepRealTrackEmpty
<1>3. RealTrackEmpty => FixtureNeverAuthorises
  BY EmptyTrackNeverAuthorises
<1> QED
  BY <1>1, <1>2, <1>3, PTL DEF Spec

-----------------------------------------------------------------------------
(* Earning a position. *)

LEMMA SatisfiedGateIsBacked ==
    ASSUME TypeOK, NEW gate, NEW track, GateSatisfied(evaluations, gate, track)
    PROVE  \E e \in InForce(evaluations, gate, track) :
               Satisfied(e) /\ (e.outcome = "PASS" => AdmitsTrack(e.mode, track) /\ e.backed)
<1>1. PICK e \in InForce(evaluations, gate, track) : Satisfied(e)
  BY DEF GateSatisfied
<1>2. e \in Evaluation /\ e.track = track
  BY DEF InForce, Newest, TypeOK
<1> QED
  BY <1>1, <1>2 DEF Evaluation, ValidEvaluation

LEMMA ApprovedByFourEyes ==
    ASSUME TypeOK, NEW track, NEW k \in Approved(approvals, track)
    PROVE  \E id \in ReviewInForce(approvals, track, k) :
               /\ approvals[id].decision = "APPROVED"
               /\ approvals[id].maker # approvals[id].checker
               /\ approvals[id].makerRole # approvals[id].checkerRole
<1>1. PICK id \in ReviewInForce(approvals, track, k) : approvals[id].decision = "APPROVED"
  BY DEF Approved, ReviewInForce
<1>2. approvals[id] \in Approval
  BY DEF ReviewInForce, Newest, TypeOK
<1> QED
  BY <1>1, <1>2 DEF Approval, FourEyes

LEMMA TypeOKEarns == TypeOK => PositionIsEarned
<1> SUFFICES ASSUME TypeOK, NEW track \in Track, NEW k \in Transition, k <= PositionOn(track)
             PROVE  /\ \A gate \in Blocking : TransitionOf[gate] = k =>
                           \E e \in InForce(evaluations, gate, track) :
                               /\ Satisfied(e)
                               /\ e.outcome = "PASS" => AdmitsTrack(e.mode, track) /\ e.backed
                    /\ \E id \in ReviewInForce(approvals, track, k) :
                           /\ approvals[id].decision = "APPROVED"
                           /\ approvals[id].maker # approvals[id].checker
                           /\ approvals[id].makerRole # approvals[id].checkerRole
  BY DEF PositionIsEarned
<1>1. k \in 1 .. PositionOn(track)
  BY PositionIsRank, PolicyAssumption DEF PositionOn, Transition, Rank, PolicyAssumption
<1>2. k \in GateReady(evaluations, track) /\ k \in Approved(approvals, track)
  BY <1>1, PositionIsRank DEF PositionOn, Passed
<1>3. \A gate \in Blocking : TransitionOf[gate] = k => GateSatisfied(evaluations, gate, track)
  BY <1>2 DEF GateReady
<1> QED
  BY <1>2, <1>3, SatisfiedGateIsBacked, ApprovedByFourEyes

(* Every position is earned, transition by transition. *)
THEOREM PositionEarned == Spec => []PositionIsEarned
<1>1. TypeOK => PositionIsEarned
  BY TypeOKEarns
<1> QED
  BY <1>1, TypeCorrect, PTL

-----------------------------------------------------------------------------
(* Capabilities. *)

(* The two functions that judge a capability agree at every rank and for    *)
(* every set of gates.                                                      *)
LEMMA VerdictsAgree ==
    ASSUME NEW c \in Capability, NEW rank \in Rank, NEW gates
    PROVE  c \in GrantedCapabilities(rank, gates) <=> RefusalReason(c, rank, gates) = NotRefused
<1>1. Threshold[c] \in Int /\ rank \in Int
  BY PolicyAssumption DEF PolicyAssumption, Rank
<1>2. CASE c \in Withheld
  BY <1>2 DEF GrantedCapabilities, RefusalReason, NotRefused
<1>3. CASE c \notin Withheld /\ rank < Threshold[c]
  <2>1. c \notin GrantedCapabilities(rank, gates)
    BY <1>1, <1>3 DEF GrantedCapabilities
  <2>2. RefusalReason(c, rank, gates).kind = "REQUIRES_STATE"
    BY <1>3 DEF RefusalReason, NotRefused
  <2> QED
    BY <2>1, <2>2 DEF NotRefused
<1>4. CASE c \notin Withheld /\ rank >= Threshold[c] /\ ~(Prerequisite[c] \subseteq gates)
  BY <1>1, <1>4 DEF GrantedCapabilities, RefusalReason, NotRefused
<1>5. CASE c \notin Withheld /\ rank >= Threshold[c] /\ Prerequisite[c] \subseteq gates
  BY <1>1, <1>5 DEF GrantedCapabilities, RefusalReason, NotRefused
<1> QED
  BY <1>1, <1>2, <1>3, <1>4, <1>5

(* No capability is both granted and refused, and none is neither. *)
THEOREM CapabilitiesDecided == Spec => []CapabilityVerdictsAgree
<1>1. CapabilityVerdictsAgree
  <2>1. Position(evaluations, approvals, "REAL") \in Rank
    BY PositionIsRank
  <2> QED
    BY <2>1, VerdictsAgree DEF CapabilityVerdictsAgree, CurrentDecision, Decision, Position
<1> QED
  BY <1>1, PTL

-----------------------------------------------------------------------------
(* What one more evaluation changes. *)

(* The indices of the evaluations of a gate on a track. *)
Of(evals, gate, track) == {j \in DOMAIN evals : evals[j].gate = gate /\ evals[j].track = track}

LEMMA AppendedEvaluation ==
    ASSUME TypeOK, NEW e \in EvaluationInputs, RecordEvaluation(e)
    PROVE  /\ Len(evaluations) \in Nat
           /\ DOMAIN evaluations = 1 .. Len(evaluations)
           /\ DOMAIN evaluations' = 1 .. Len(evaluations) + 1
           /\ Len(evaluations') = Len(evaluations) + 1
           /\ evaluations'[Len(evaluations) + 1] = e
           /\ \A i \in 1 .. Len(evaluations) : evaluations'[i] = evaluations[i]
           /\ \A i \in 1 .. Len(evaluations) : evaluations[i].at \in Nat
           /\ e.at \in Nat
           /\ JustEvaluated = {e}
<1>1. \A i \in DOMAIN evaluations : evaluations[i].at \in Nat
  BY DEF TypeOK, Evaluation, EvaluationForm
<1>2. e.at \in Nat
  BY RepositoryAssumption DEF RepositoryAssumption, EvaluationForm
<1>3. /\ Len(evaluations) \in Nat
      /\ DOMAIN evaluations = 1 .. Len(evaluations)
      /\ DOMAIN evaluations' = 1 .. Len(evaluations) + 1
      /\ Len(evaluations') = Len(evaluations) + 1
      /\ evaluations'[Len(evaluations) + 1] = e
      /\ \A i \in 1 .. Len(evaluations) : evaluations'[i] = evaluations[i]
  BY DEF TypeOK, RecordEvaluation
<1>4. Len(evaluations') # Len(evaluations)
  <2>1. \A k \in Nat : k + 1 # k
    OBVIOUS
  <2> QED
    BY <1>3, <2>1, Zenon
<1>5. JustEvaluated = {e}
  BY <1>3, <1>4, Zenon DEF JustEvaluated
<1> QED
  BY <1>1, <1>2, <1>3, <1>5

(* An evaluation of another gate or track, and one older than the one in    *)
(* force, leave the evaluation in force what it was.                        *)
LEMMA InForceKept ==
    ASSUME TypeOK, NEW e \in EvaluationInputs, RecordEvaluation(e), NEW gate, NEW track,
           \/ gate # e.gate \/ track # e.track
           \/ \E f \in InForce(evaluations, gate, track) : e.at < f.at
    PROVE  InForce(evaluations', gate, track) = InForce(evaluations, gate, track)
<1> DEFINE n == Len(evaluations) + 1
           old == Of(evaluations, gate, track)
           new == Of(evaluations', gate, track)
<1> USE AppendedEvaluation
<1>1. old \subseteq 1 .. Len(evaluations) /\ new \ {n} = old
  BY DEF Of
<1>2. \A i \in old : evaluations'[i] = evaluations[i]
  BY <1>1
<1>3. Newest(evaluations', new) = Newest(evaluations, old)
  <2>1. CASE gate # e.gate \/ track # e.track
    <3>1. new = old
      BY <1>1, <2>1 DEF Of
    <3> QED
      BY <1>2, <3>1 DEF Newest
  <2>2. CASE \E f \in InForce(evaluations, gate, track) : e.at < f.at
    <3>1. PICK i \in Newest(evaluations, old) : e.at < evaluations[i].at
      BY <2>2 DEF InForce, Of
    <3>2. /\ i \in old
          /\ \A j \in old :
                 \/ evaluations[j].at < evaluations[i].at
                 \/ evaluations[j].at = evaluations[i].at /\ j <= i
      BY <3>1 DEF Newest
    <3>3. Newest(evaluations, old) \subseteq Newest(evaluations', new)
      BY <1>1, <1>2, <3>1, <3>2 DEF Newest
    <3>4. Newest(evaluations', new) \subseteq Newest(evaluations, old)
      BY <1>1, <1>2, <3>1, <3>2 DEF Newest
    <3> QED
      BY <3>3, <3>4
  <2> QED
    BY <2>1, <2>2
<1>4. \A i \in Newest(evaluations, old) : evaluations'[i] = evaluations[i]
  BY <1>2 DEF Newest
<1> QED
  BY <1>3, <1>4 DEF InForce, Of

(* The step that changes the evaluations records one that was sent. *)
LEMMA EvaluationStep ==
    ASSUME [Next]_vars, JustEvaluated # {}
    PROVE  \E e \in EvaluationInputs : RecordEvaluation(e)
<1>1. ~UNCHANGED evaluations
  BY DEF JustEvaluated
<1> QED
  BY <1>1 DEF Next, vars, ReadDecision, RecordApproval

LEMMA SameInForceSameRealPart ==
    ASSUME TypeOK, UNCHANGED approvals,
           \A gate : InForce(evaluations', gate, "REAL") = InForce(evaluations, gate, "REAL")
    PROVE  RealPart(CurrentDecision') = RealPart(CurrentDecision)
<1>1. \A gate : GateSatisfied(evaluations', gate, "REAL")
                    <=> GateSatisfied(evaluations, gate, "REAL")
  BY DEF GateSatisfied
<1>2. GateReady(evaluations', "REAL") = GateReady(evaluations, "REAL")
  BY <1>1 DEF GateReady
<1>3. PassedGates(evaluations', "REAL") = PassedGates(evaluations, "REAL")
  BY <1>1 DEF PassedGates
<1>4. BankEvidenced(evaluations') = BankEvidenced(evaluations)
  BY DEF BankEvidenced
<1>5. {gate \in Gate : InForce(evaluations', gate, "REAL") = {}}
        = {gate \in Gate : InForce(evaluations, gate, "REAL") = {}}
  BY Zenon
<1> QED
  BY <1>2, <1>3, <1>4, <1>5, Zenon DEF RealPart, CurrentDecision, Decision, Score, BerEarned, Passed

(* Rehearsing leaves the real half of the decision alone. *)
THEOREM RehearsalLeavesRealAlone == Spec => RehearsalEvaluationsLeaveRealAlone
<1>1. ASSUME TypeOK, [Next]_vars
      PROVE  (\E e \in JustEvaluated : e.track = "REHEARSAL")
                 => RealPart(CurrentDecision') = RealPart(CurrentDecision)
  <2> SUFFICES ASSUME NEW d \in JustEvaluated, d.track = "REHEARSAL"
               PROVE  RealPart(CurrentDecision') = RealPart(CurrentDecision)
    OBVIOUS
  <2>1. PICK e \in EvaluationInputs : RecordEvaluation(e)
    BY <1>1, EvaluationStep
  <2>2. e.track = "REHEARSAL"
    BY <1>1, <2>1, AppendedEvaluation
  <2>3. \A gate : InForce(evaluations', gate, "REAL") = InForce(evaluations, gate, "REAL")
    BY <1>1, <2>1, <2>2, InForceKept
  <2> QED
    BY <1>1, <2>1, <2>3, SameInForceSameRealPart DEF RecordEvaluation
<1> QED
  BY <1>1, TypeCorrect, PTL DEF Spec, RehearsalEvaluationsLeaveRealAlone

LEMMA SameInForceSameDecision ==
    ASSUME UNCHANGED approvals,
           \A gate, track : InForce(evaluations', gate, track) = InForce(evaluations, gate, track)
    PROVE  CurrentDecision' = CurrentDecision
<1>1. \A gate, track : GateSatisfied(evaluations', gate, track)
                          <=> GateSatisfied(evaluations, gate, track)
  BY DEF GateSatisfied
<1>2. /\ GateReady(evaluations', "REAL") = GateReady(evaluations, "REAL")
      /\ GateReady(evaluations', "REHEARSAL") = GateReady(evaluations, "REHEARSAL")
  BY <1>1 DEF GateReady
<1>3. PassedGates(evaluations', "REAL") = PassedGates(evaluations, "REAL")
  BY <1>1 DEF PassedGates
<1>4. BankEvidenced(evaluations') = BankEvidenced(evaluations)
  BY DEF BankEvidenced
<1>5. Rehearsed(evaluations') = Rehearsed(evaluations)
  BY DEF Rehearsed
<1>6. /\ WaivedOn(evaluations', "REAL") = WaivedOn(evaluations, "REAL")
      /\ WaivedOn(evaluations', "REHEARSAL") = WaivedOn(evaluations, "REHEARSAL")
  BY DEF WaivedOn
<1>7. {gate \in Gate : InForce(evaluations', gate, "REAL") = {}}
        = {gate \in Gate : InForce(evaluations, gate, "REAL") = {}}
  BY Zenon
<1> QED
  BY <1>2, <1>3, <1>4, <1>5, <1>6, <1>7, Zenon
     DEF CurrentDecision, Decision, Score, PmrEarned, BerEarned, Passed

(* A late result changes nothing that is published. *)
THEOREM LateResultsHarmless == Spec => LateResultsChangeNothing
<1>1. ASSUME TypeOK, [Next]_vars
      PROVE  \A e \in JustEvaluated :
                 (\E f \in InForce(evaluations, e.gate, e.track) : e.at < f.at)
                     => CurrentDecision' = CurrentDecision
  <2> SUFFICES ASSUME NEW d \in JustEvaluated,
                      \E f \in InForce(evaluations, d.gate, d.track) : d.at < f.at
               PROVE  CurrentDecision' = CurrentDecision
    OBVIOUS
  <2>1. PICK e \in EvaluationInputs : RecordEvaluation(e)
    BY <1>1, EvaluationStep
  <2>2. d = e
    BY <1>1, <2>1, AppendedEvaluation
  <2>3. ASSUME NEW gate, NEW track
        PROVE  InForce(evaluations', gate, track) = InForce(evaluations, gate, track)
    BY <1>1, <2>1, <2>2, InForceKept
  <2> QED
    BY <2>1, <2>3, SameInForceSameDecision DEF RecordEvaluation
<1> QED
  BY <1>1, TypeCorrect, PTL DEF Spec, LateResultsChangeNothing

(* An evaluation no older than those in force is itself the one in force. *)
LEMMA NewestTakesForce ==
    ASSUME TypeOK, NEW e \in EvaluationInputs, RecordEvaluation(e),
           \A f \in InForce(evaluations, e.gate, e.track) : f.at <= e.at
    PROVE  InForce(evaluations', e.gate, e.track) \subseteq {e}
<1> DEFINE n == Len(evaluations) + 1
           old == Of(evaluations, e.gate, e.track)
           new == Of(evaluations', e.gate, e.track)
<1>1. old \subseteq 1 .. Len(evaluations) /\ new = old \cup {n}
  BY AppendedEvaluation DEF Of
<1>2. ASSUME NEW i \in Newest(evaluations', new), i # n PROVE FALSE
  <2>1. i \in old /\ evaluations'[i] = evaluations[i] /\ i < n
    BY <1>1, <1>2, AppendedEvaluation DEF Newest
  <2>2. i \in Newest(evaluations, old)
    BY <1>1, <1>2, <2>1, AppendedEvaluation DEF Newest
  <2>3. evaluations[i].at <= e.at
    BY <2>2 DEF InForce, Of
  <2>4. e.at < evaluations[i].at
    BY <1>1, <1>2, <2>1, AppendedEvaluation DEF Newest
  <2> QED
    BY <1>1, <2>1, <2>3, <2>4, AppendedEvaluation
<1> QED
  BY <1>2, AppendedEvaluation DEF InForce, Of

(* A failing blocking gate takes its transition with it. *)
THEOREM FailureTakesPosition == Spec => FailureDemotes
<1>1. ASSUME TypeOK, [Next]_vars
      PROVE  \A e \in JustEvaluated :
                 /\ e.gate \in Blocking
                 /\ ~Satisfied(e)
                 /\ \A f \in InForce(evaluations, e.gate, e.track) : f.at <= e.at
                 => PositionOn(e.track)' < TransitionOf[e.gate]
  <2> SUFFICES ASSUME NEW d \in JustEvaluated, d.gate \in Blocking, ~Satisfied(d),
                      \A f \in InForce(evaluations, d.gate, d.track) : f.at <= d.at
               PROVE  PositionOn(d.track)' < TransitionOf[d.gate]
    OBVIOUS
  <2>1. PICK e \in EvaluationInputs : RecordEvaluation(e)
    BY <1>1, EvaluationStep
  <2>2. d = e
    BY <1>1, <2>1, AppendedEvaluation
  <2>3. ~GateSatisfied(evaluations', e.gate, e.track)
    BY <1>1, <2>1, <2>2, NewestTakesForce DEF GateSatisfied
  <2>4. TransitionOf[e.gate] \notin Passed(evaluations', approvals', e.track)
    BY <2>2, <2>3 DEF Passed, GateReady
  <2>5. TransitionOf[e.gate] \notin 1 .. Position(evaluations', approvals', e.track)
    BY <2>4, PositionIsRank
  <2>6. TransitionOf[e.gate] \in Transition
    BY <2>2, PolicyAssumption DEF PolicyAssumption
  <2>7. Position(evaluations', approvals', e.track) \in Rank
    BY PositionIsRank
  <2>8. Position(evaluations', approvals', e.track) < TransitionOf[e.gate]
    BY <2>5, <2>6, <2>7, PolicyAssumption DEF Rank, Transition, PolicyAssumption
  <2> QED
    BY <2>2, <2>8 DEF PositionOn
<1> QED
  BY <1>1, TypeCorrect, PTL DEF Spec, FailureDemotes

-----------------------------------------------------------------------------
(* Reviews. *)

(* The approvals filed for a transition on a track. *)
FiledFor(apps, track, k) ==
    {id \in DOMAIN apps : apps[id].track = track /\ apps[id].transition = k}

LEMMA BookTyped ==
    ASSUME NEW book, BookOK(book), NEW id \in DOMAIN book
    PROVE  id \in Nat /\ book[id].at \in Nat
BY RepositoryAssumption DEF RepositoryAssumption, BookOK, Approval, ApprovalForm

LEMMA NewestIsNewest ==
    ASSUME NEW f, NEW S, NEW i \in Newest(f, S), NEW j \in S
    PROVE  i \in S /\ (f[j].at < f[i].at \/ (f[j].at = f[i].at /\ j <= i))
BY DEF Newest

(* No approval is ever taken out of the book. *)
LEMMA BookGrows ==
    ASSUME [Next]_vars
    PROVE  DOMAIN approvals \subseteq DOMAIN approvals'
BY DEF Next, vars, ReadDecision, RecordEvaluation, RecordApproval, Filed

(* A rejection in force is lifted by its own id or by a review not older:   *)
(* the approval in force afterwards was either in the book before, and then *)
(* is not newer than the rejection unless this was filed again, or is the   *)
(* one just filed.                                                          *)
THEOREM RejectionsStand == Spec => RejectionStands
<1>1. ASSUME TypeOK, TypeOK', [Next]_vars
      PROVE  \A track \in Track, k \in Transition :
                 \A r \in ReviewInForce(approvals, track, k) :
                     approvals[r].decision = "REJECTED" /\ k \in Approved(approvals', track) =>
                         \E id \in JustFiled : id = r \/ approvals'[id].at >= approvals[r].at
  <2> SUFFICES ASSUME NEW track \in Track, NEW k \in Transition,
                      NEW r \in ReviewInForce(approvals, track, k),
                      approvals[r].decision = "REJECTED", k \in Approved(approvals', track),
                      r \notin JustFiled
               PROVE  \E id \in JustFiled : approvals'[id].at >= approvals[r].at
    OBVIOUS
  <2>1. PICK i \in Newest(approvals', FiledFor(approvals', track, k)) :
            approvals'[i].decision = "APPROVED"
    BY DEF Approved, FiledFor
  <2>2. /\ r \in FiledFor(approvals, track, k)
        /\ \A j \in FiledFor(approvals, track, k) :
               \/ approvals[j].at < approvals[r].at
               \/ approvals[j].at = approvals[r].at /\ j <= r
    BY DEF ReviewInForce, Newest, FiledFor
  <2>3. r \in DOMAIN approvals' /\ approvals'[r] = approvals[r]
    BY <1>1, <2>2, BookGrows DEF FiledFor, JustFiled
  <2>4. r \in FiledFor(approvals', track, k)
    BY <2>2, <2>3 DEF FiledFor
  <2>5. /\ i \in FiledFor(approvals', track, k)
        /\ \/ approvals'[r].at < approvals'[i].at
           \/ approvals'[r].at = approvals'[i].at /\ r <= i
    BY <2>1, <2>4, NewestIsNewest
  <2>6. /\ approvals'[r].at \in Nat /\ approvals'[i].at \in Nat /\ r \in Nat /\ i \in Nat
    <3>1. BookOK(approvals')
      BY <1>1 DEF TypeOK, BookOK
    <3> QED
      BY <2>4, <2>5, <3>1, BookTyped DEF FiledFor
  <2>7. CASE i \in JustFiled
    BY <2>3, <2>5, <2>6, <2>7
  <2>8. CASE i \notin JustFiled
    <3>1. i \in FiledFor(approvals, track, k) /\ approvals'[i] = approvals[i]
      BY <2>5, <2>8 DEF FiledFor, JustFiled
    <3>2. i = r
      BY <2>2, <2>3, <2>5, <2>6, <3>1
    <3> QED
      BY <2>1, <2>3, <3>2
  <2> QED
    BY <2>7, <2>8
<1> QED
  BY <1>1, TypeCorrect, PTL DEF Spec, RejectionStands

-----------------------------------------------------------------------------
(* The repository implements PromotionAuthority. *)

ReadyNow == [track \in Track |-> GateReady(evaluations, track)]
ApprovedNow == [track \in Track |-> Approved(approvals, track)]

(* The pairs <<track, transition>> outside S say of themselves what they said. *)
Outside(f, g, S) ==
    \A track \in Track, k \in Transition :
        <<track, k>> \notin S => (k \in g[track] <=> k \in f[track])

(* A non-empty set of indices has a greatest element. *)
LEMMA GreatestIndex ==
    ASSUME NEW n \in Nat, NEW S, S \subseteq 1 .. n, S # {}
    PROVE  \E m \in S : \A j \in S : j <= m
<1> DEFINE gaps == {n - j : j \in S}
<1>1. gaps \subseteq Nat /\ gaps # {}
  <2>1. \A j \in S : n - j \in Nat
    OBVIOUS
  <2>2. \E j \in S : n - j \in gaps
    OBVIOUS
  <2> QED
    BY <2>1, <2>2
<1>2. PICK least \in gaps : \A gap \in gaps : least <= gap
  BY <1>1, LeastNatural
<1>3. PICK m \in S : least = n - m
  BY <1>2
<1>4. \A j \in S : n - m <= n - j
  BY <1>2, <1>3
<1> QED
  BY <1>4

LEMMA SeedReady == GateReady(SeedEvaluations, "REHEARSAL") = Transition
<1> SUFFICES ASSUME NEW gate \in Blocking
             PROVE  GateSatisfied(SeedEvaluations, gate, "REHEARSAL")
  BY DEF GateReady
<1>1. GateOrder \in Seq(Gate) /\ gate \in Gate
  BY PolicyAssumption DEF PolicyAssumption
<1>2. /\ Len(GateOrder) \in Nat /\ DOMAIN GateOrder = 1 .. Len(GateOrder)
      /\ DOMAIN SeedEvaluations = DOMAIN GateOrder
      /\ \A i \in DOMAIN GateOrder : SeedEvaluations[i] = SeedEvaluation(GateOrder[i])
  BY <1>1 DEF SeedEvaluations
<1> DEFINE own == Of(SeedEvaluations, gate, "REHEARSAL")
<1>3. own \subseteq 1 .. Len(GateOrder) /\ own # {}
  BY <1>1, <1>2 DEF Of, SeedEvaluation, Gate
<1>4. PICK m \in own : \A j \in own : j <= m
  BY <1>2, <1>3, GreatestIndex
<1>5. \A j \in own : SeedEvaluations[j].at = 0 /\ SeedEvaluations[j].outcome = "PASS"
  BY <1>2, <1>3 DEF SeedEvaluation
<1>6. m \in Newest(SeedEvaluations, own)
  BY <1>4, <1>5 DEF Newest
<1>7. SeedEvaluations[m] \in InForce(SeedEvaluations, gate, "REHEARSAL")
  BY <1>6 DEF InForce, Of
<1> QED
  BY <1>4, <1>5, <1>7 DEF GateSatisfied, Satisfied

LEMMA SeedApproved ==
    /\ Approved(SeedApprovals, "REHEARSAL") = {1}
    /\ Approved(SeedApprovals, "REAL") = {}
<1>1. /\ DOMAIN SeedApprovals = {0} /\ SeedApprovals[0] = SeedApproval
  BY DEF SeedApprovals, SeedApproval, Filed
<1>2. /\ SeedApproval.transition = 1 /\ SeedApproval.track = "REHEARSAL"
      /\ SeedApproval.decision = "APPROVED"
  BY DEF SeedApproval
<1>3. 1 \in Transition
  BY RepositoryAssumption, PolicyAssumption DEF RepositoryAssumption, PolicyAssumption, Transition
<1>4. 0 \in Newest(SeedApprovals, FiledFor(SeedApprovals, "REHEARSAL", 1))
  BY <1>1, <1>2 DEF Newest, FiledFor
<1>5. \A k \in Transition : k # 1 => FiledFor(SeedApprovals, "REHEARSAL", k) = {}
  BY <1>1, <1>2 DEF FiledFor
<1>6. \A k \in Transition : FiledFor(SeedApprovals, "REAL", k) = {}
  BY <1>1, <1>2 DEF FiledFor
<1>7. 1 \in Approved(SeedApprovals, "REHEARSAL")
  BY <1>1, <1>2, <1>3, <1>4 DEF Approved, FiledFor
<1>8. \A k \in Transition : k # 1 => k \notin Approved(SeedApprovals, "REHEARSAL")
  BY <1>5 DEF Approved, Newest, FiledFor
<1>9. Approved(SeedApprovals, "REAL") = {}
  BY <1>6 DEF Approved, Newest, FiledFor
<1>10. Approved(SeedApprovals, "REHEARSAL") \subseteq Transition
  BY DEF Approved
<1> QED
  BY <1>7, <1>8, <1>9, <1>10

LEMMA AuthorityBegins == Init => Authority_!Init
<1> SUFFICES ASSUME Init PROVE Authority_!Init
  OBVIOUS
<1>1. ReadyNow \in [Track -> SUBSET Transition]
  BY DEF ReadyNow, GateReady
<1>2. ReadyNow["REHEARSAL"] = Transition
  BY SeedReady DEF ReadyNow, Init, Track
<1>3. ApprovedNow = [track \in Track |-> IF track = "REHEARSAL" THEN {1} ELSE {}]
  BY SeedApproved DEF ApprovedNow, Init, Track
<1> QED
  BY <1>1, <1>2, <1>3 DEF Authority_!Init, Authority_!Tracks, Authority_!Transitions,
     ReadyNow, ApprovedNow, Track, Transition

(* An evaluation moves the readiness of its gate's transition at most, and  *)
(* none when no gate has the id.                                            *)
LEMMA EvaluationMoves ==
    ASSUME TypeOK, NEW e \in EvaluationInputs, RecordEvaluation(e)
    PROVE  \E k \in Transition : Outside(ReadyNow, ReadyNow', {<<e.track, k>>})
<1> DEFINE own == IF e.gate \in Gate THEN TransitionOf[e.gate] ELSE 1
<1>1. own \in Transition
  BY PolicyAssumption, RepositoryAssumption DEF PolicyAssumption, RepositoryAssumption, Transition
<1>2. ASSUME NEW track \in Track, NEW k \in Transition, <<track, k>> # <<e.track, own>>
      PROVE  k \in GateReady(evaluations', track) <=> k \in GateReady(evaluations, track)
  <2>1. ASSUME NEW gate \in Blocking, TransitionOf[gate] = k
        PROVE  GateSatisfied(evaluations', gate, track) <=> GateSatisfied(evaluations, gate, track)
    <3>1. gate # e.gate \/ track # e.track
      BY <1>2, <2>1, PolicyAssumption DEF PolicyAssumption
    <3>2. InForce(evaluations', gate, track) = InForce(evaluations, gate, track)
      BY <3>1, InForceKept
    <3> QED
      BY <3>2 DEF GateSatisfied
  <2> QED
    BY <2>1 DEF GateReady
<1> HIDE DEF own
<1> QED
  BY <1>1, <1>2 DEF Outside, ReadyNow

(* A review moves the approval of its transition and of the one whose       *)
(* approval it displaces, at most.                                          *)
LEMMA ReviewMoves ==
    ASSUME TypeOK, RealTrackEmpty, NEW c \in Client, NEW a \in ApprovalInputs, RecordApproval(c, a)
    PROVE  \E displacedTrack \in Track, k, displaced \in Transition :
               /\ FixtureMode => displacedTrack = "REHEARSAL"
               /\ Outside(ApprovedNow, ApprovedNow',
                          {<<a.track, k>>, <<displacedTrack, displaced>>})
<1>1. 1 \in Transition /\ a.transition \in Transition \cup {0} /\ a.track \in Track
  BY RepositoryAssumption, PolicyAssumption
     DEF RepositoryAssumption, PolicyAssumption, Transition, ApprovalForm
<1>2. FixtureMode => a.track = "REHEARSAL"
  BY <1>1 DEF RecordApproval, GuardRealTrack, Track
<1> DEFINE before == IF a.id \in DOMAIN approvals THEN approvals[a.id] ELSE a
           own(review) == IF review.transition = 0 THEN 1 ELSE review.transition
<1>3. /\ before.track \in Track /\ before.transition \in Transition \cup {0}
      /\ FixtureMode => before.track = "REHEARSAL"
  BY <1>1, <1>2 DEF TypeOK, Approval, ApprovalForm, RealTrackEmpty
<1>4. own(a) \in Transition /\ own(before) \in Transition
  BY <1>1, <1>3
<1>5. ASSUME NEW track \in Track, NEW k \in Transition,
             <<track, k>> \notin {<<a.track, own(a)>>, <<before.track, own(before)>>}
      PROVE  k \in Approved(approvals', track) <=> k \in Approved(approvals, track)
  <2>0. k # 0
    BY DEF Transition
  <2>1. /\ a.track # track \/ a.transition # k
        /\ before.track # track \/ before.transition # k
    BY <1>5, <2>0
  <2>2. /\ DOMAIN approvals' = DOMAIN approvals \cup {a.id}
        /\ approvals'[a.id] = a
        /\ \A id \in DOMAIN approvals \ {a.id} : approvals'[id] = approvals[id]
    BY DEF RecordApproval, Filed
  <2>3. a.id \notin FiledFor(approvals, track, k) /\ a.id \notin FiledFor(approvals', track, k)
    BY <2>1, <2>2 DEF FiledFor
  <2>4. FiledFor(approvals', track, k) = FiledFor(approvals, track, k)
    BY <2>2, <2>3 DEF FiledFor
  <2>5. \A id \in FiledFor(approvals, track, k) : approvals'[id] = approvals[id]
    BY <2>2, <2>3 DEF FiledFor
  <2>6. Newest(approvals', FiledFor(approvals', track, k))
            = Newest(approvals, FiledFor(approvals, track, k))
    BY <2>4, <2>5 DEF Newest
  <2>7. \A id \in Newest(approvals, FiledFor(approvals, track, k)) : approvals'[id] = approvals[id]
    BY <2>5 DEF Newest
  <2> QED
    BY <2>6, <2>7 DEF Approved, FiledFor
<1> HIDE DEF before, own
<1>6. Outside(ApprovedNow, ApprovedNow',
              {<<a.track, own(a)>>, <<before.track, own(before)>>})
  BY <1>5 DEF Outside, ApprovedNow
<1> QED
  BY <1>3, <1>4, <1>6

(* The repository keeps what PromotionAuthority promises of its position:   *)
(* one evaluation moves the readiness of one transition, one review the     *)
(* approval of one and of the one it displaces, and a fixture moves nothing *)
(* on the real track.                                                       *)
THEOREM AuthorityImplemented == Spec => ImplementsAuthority
<1>1. ASSUME TypeOK, RealTrackEmpty, [Next]_vars
      PROVE  [Authority_!Next]_(Authority_!vars)
  <2>1. /\ ReadyNow' \in [Track -> SUBSET Transition]
        /\ ApprovedNow' \in [Track -> SUBSET Transition]
    BY DEF ReadyNow, ApprovedNow, GateReady, Approved
  <2>2. ASSUME NEW e \in EvaluationInputs, RecordEvaluation(e)
        PROVE  Authority_!Next
    <3>1. PICK k \in Transition : Outside(ReadyNow, ReadyNow', {<<e.track, k>>})
      BY <1>1, <2>2, EvaluationMoves
    <3>2. e.track \in Track /\ (FixtureMode => e.track = "REHEARSAL")
      BY <2>2, RepositoryAssumption
         DEF RepositoryAssumption, EvaluationForm, RecordEvaluation, GuardRealTrack, Track
    <3>3. ApprovedNow' = ApprovedNow
      BY <2>2 DEF RecordEvaluation, ApprovedNow
    <3>4. Authority_!Evaluate(e.track, k)
      BY <2>1, <3>1, <3>2, <3>3
         DEF Authority_!Evaluate, Authority_!Writable, Authority_!MovesOnly, Authority_!Tracks,
             Authority_!Transitions, Outside, ReadyNow, ApprovedNow, Track, Transition
    <3> QED
      BY <3>2, <3>4
         DEF Authority_!Next, Authority_!Tracks, Authority_!Transitions, Track, Transition
  <2>3. ASSUME NEW c \in Client, NEW a \in ApprovalInputs, RecordApproval(c, a)
        PROVE  Authority_!Next
    <3>1. PICK displacedTrack \in Track, k \in Transition, displaced \in Transition :
              /\ FixtureMode => displacedTrack = "REHEARSAL"
              /\ Outside(ApprovedNow, ApprovedNow',
                         {<<a.track, k>>, <<displacedTrack, displaced>>})
      BY <1>1, <2>3, ReviewMoves
    <3>2. a.track \in Track /\ (FixtureMode => a.track = "REHEARSAL")
      BY <2>3, RepositoryAssumption
         DEF RepositoryAssumption, ApprovalForm, RecordApproval, GuardRealTrack, Track
    <3>3. ReadyNow' = ReadyNow
      BY <2>3 DEF RecordApproval, ReadyNow
    <3>4. Authority_!Review(a.track, k, displacedTrack, displaced)
      BY <2>1, <3>1, <3>2, <3>3
         DEF Authority_!Review, Authority_!Writable, Authority_!MovesOnly, Authority_!Tracks,
             Authority_!Transitions, Outside, ReadyNow, ApprovedNow, Track, Transition
    <3> QED
      BY <3>2, <3>4
         DEF Authority_!Next, Authority_!Tracks, Authority_!Transitions, Track, Transition
  <2>4. ASSUME UNCHANGED <<evaluations, approvals>>
        PROVE  UNCHANGED Authority_!vars
    BY <2>4 DEF Authority_!vars
  <2> QED
    BY <1>1, <2>2, <2>3, <2>4 DEF Next, vars, ReadDecision
<1>2. Spec => []RealTrackEmpty
  BY InitTypeOK, StepTypeOK, InitRealTrackEmpty, StepRealTrackEmpty, PTL DEF Spec
<1> QED
  BY <1>1, <1>2, AuthorityBegins, TypeCorrect, PTL DEF Spec, ImplementsAuthority, Authority_!Spec

-----------------------------------------------------------------------------
(* The log. *)

KeyOf(e) == <<"eval", e.gate, e.track, e.at>>

Same(evals, e) ==
    {j \in DOMAIN evals : evals[j].gate = e.gate /\ evals[j].track = e.track /\ evals[j].at = e.at}

(* An evaluation's event tells the first evaluation of its key, and no      *)
(* event of an evaluation is of none.                                       *)
LogInv ==
    /\ \A i \in DOMAIN evaluations :
           /\ KeyOf(evaluations[i]) \in DOMAIN events
           /\ \E m \in Same(evaluations, evaluations[i]) :
                  /\ \A j \in Same(evaluations, evaluations[i]) : m <= j
                  /\ events[KeyOf(evaluations[i])].says = evaluations[m].outcome
    /\ \A key \in DOMAIN events :
           key[1] = "eval" => \E i \in DOMAIN evaluations : key = KeyOf(evaluations[i])
    /\ \A id \in DOMAIN approvals :
           {<<"submitted", id>>, <<"reviewed", id>>} \subseteq DOMAIN events

LEMMA LeastIsMin ==
    ASSUME NEW S, S \subseteq Nat, NEW m \in S, \A j \in S : m <= j
    PROVE  Min(S) = m
<1>1. \A x \in S : (\A j \in S : x <= j) => x = m
  OBVIOUS
<1> QED
  BY <1>1 DEF Min

LEMMA SeedTold ==
    /\ \A gate \in Gate : /\ <<"eval", gate, "REHEARSAL", 0>> \in DOMAIN SeedEvents
                           /\ SeedEvents[<<"eval", gate, "REHEARSAL", 0>>].says = "PASS"
    /\ \A key \in DOMAIN SeedEvents :
           key[1] = "eval" => \E gate \in Gate : key = <<"eval", gate, "REHEARSAL", 0>>
    /\ {<<"submitted", 0>>, <<"reviewed", 0>>} \subseteq DOMAIN SeedEvents
<1> DEFINE decision == Decision(SeedEvaluations, SeedApprovals)
           verdict(track, says) == [track |-> track, says |-> says]
           keys == {<<"eval", gate, "REHEARSAL", 0>> : gate \in Gate}
                     \cup {<<"decision">>}
                     \cup {<<"advanced", k>> : k \in decision.rehearsalPassed}
                     \cup ({"capability"} \X Capability)
           seeded == [key \in keys |->
                         CASE key[1] = "eval"       -> verdict("REHEARSAL", "PASS")
                           [] key[1] = "decision"   -> verdict("REHEARSAL", "PUBLISHED")
                           [] key[1] = "advanced"   -> verdict("REHEARSAL", "ADVANCED")
                           [] key[1] = "capability" ->
                                 verdict("REAL", IF key[2] \in decision.granted
                                                   THEN "GRANTED" ELSE "REFUSED")]
<1>1. SeedEvents = Publish(seeded, ApprovalEvents(SeedApproval))
  BY DEF SeedEvents
<1> HIDE DEF decision
<1>2. ASSUME NEW gate \in Gate
      PROVE  /\ <<"eval", gate, "REHEARSAL", 0>> \in keys
             /\ seeded[<<"eval", gate, "REHEARSAL", 0>>].says = "PASS"
  OBVIOUS
<1>3. \A key \in keys :
           key[1] = "eval" => \E gate \in Gate : key = <<"eval", gate, "REHEARSAL", 0>>
  OBVIOUS
<1>4. DOMAIN seeded = keys
  OBVIOUS
<1> HIDE DEF keys, seeded
<1>5. /\ DOMAIN SeedEvents = keys \cup {<<"submitted", 0>>, <<"reviewed", 0>>}
      /\ \A key \in keys : SeedEvents[key] = seeded[key]
  BY <1>1, <1>4 DEF Publish, ApprovalEvents, SeedApproval
<1> QED
  BY <1>2, <1>3, <1>5

LEMMA LogBegins == Init => LogInv
<1> SUFFICES ASSUME Init PROVE LogInv
  OBVIOUS
<1>1. /\ DOMAIN evaluations = 1 .. Len(GateOrder) /\ Len(GateOrder) \in Nat
      /\ \A i \in DOMAIN evaluations :
             /\ GateOrder[i] \in Gate
             /\ evaluations[i].outcome = "PASS"
             /\ KeyOf(evaluations[i]) = <<"eval", GateOrder[i], "REHEARSAL", 0>>
  <2>1. GateOrder \in Seq(Gate)
    BY PolicyAssumption DEF PolicyAssumption
  <2> QED
    BY <2>1 DEF Init, SeedEvaluations, SeedEvaluation, KeyOf
<1>2. ASSUME NEW i \in DOMAIN evaluations
      PROVE  \E m \in Same(evaluations, evaluations[i]) :
                 \A j \in Same(evaluations, evaluations[i]) : m <= j
  <2>1. i \in Same(evaluations, evaluations[i]) /\ Same(evaluations, evaluations[i]) \subseteq Nat
    BY <1>1 DEF Same
  <2> QED
    BY <2>1, LeastNatural
<1>3. \A i \in DOMAIN evaluations : Same(evaluations, evaluations[i]) \subseteq DOMAIN evaluations
  BY DEF Same
<1>4. events = SeedEvents
  BY DEF Init
<1>5. \A i \in DOMAIN evaluations :
           /\ KeyOf(evaluations[i]) \in DOMAIN events
           /\ \E m \in Same(evaluations, evaluations[i]) :
                  /\ \A j \in Same(evaluations, evaluations[i]) : m <= j
                  /\ events[KeyOf(evaluations[i])].says = evaluations[m].outcome
  BY <1>1, <1>2, <1>3, <1>4, SeedTold
<1>6. ASSUME NEW key \in DOMAIN events, key[1] = "eval"
      PROVE  \E i \in DOMAIN evaluations : key = KeyOf(evaluations[i])
  <2>1. PICK gate \in Gate : key = <<"eval", gate, "REHEARSAL", 0>>
    BY <1>4, <1>6, SeedTold
  <2>2. PICK i \in DOMAIN GateOrder : gate = GateOrder[i]
    BY DEF Gate
  <2>3. i \in DOMAIN evaluations
    BY <2>2 DEF Init, SeedEvaluations
  <2> QED
    BY <1>1, <2>1, <2>2, <2>3
<1>7. DOMAIN approvals = {0}
  BY DEF Init, SeedApprovals, SeedApproval, Filed
<1> QED
  BY <1>4, <1>5, <1>6, <1>7, SeedTold DEF LogInv

LEMMA LogStep == TypeOK /\ LogInv /\ [Next]_vars => LogInv'
<1> SUFFICES ASSUME TypeOK, LogInv, [Next]_vars PROVE LogInv'
  OBVIOUS
<1>1. CASE UNCHANGED <<evaluations, approvals, events>>
  BY <1>1 DEF LogInv, Same
<1>2. ASSUME NEW e \in EvaluationInputs, RecordEvaluation(e) PROVE LogInv'
  <2> DEFINE n == Len(evaluations) + 1
  <2>1. /\ DOMAIN events' = DOMAIN events \cup {KeyOf(e)}
        /\ \A key \in DOMAIN events : events'[key] = events[key]
        /\ KeyOf(e) \notin DOMAIN events => events'[KeyOf(e)].says = e.outcome
        /\ UNCHANGED approvals
    BY <1>2 DEF RecordEvaluation, Publish, EvaluationEvent, KeyOf
  <2>2. /\ DOMAIN evaluations = 1 .. Len(evaluations) /\ Len(evaluations) \in Nat
        /\ DOMAIN evaluations' = DOMAIN evaluations \cup {n}
        /\ evaluations'[n] = e
        /\ \A i \in DOMAIN evaluations : evaluations'[i] = evaluations[i]
    <3>1. /\ Len(evaluations) \in Nat
          /\ DOMAIN evaluations = 1 .. Len(evaluations)
          /\ DOMAIN evaluations' = 1 .. n
          /\ evaluations'[n] = e
          /\ \A i \in 1 .. Len(evaluations) : evaluations'[i] = evaluations[i]
      BY <1>2, AppendedEvaluation
    <3>2. 1 .. n = 1 .. Len(evaluations) \cup {n}
      BY <3>1
    <3> QED
      BY <3>1, <3>2
  <2>3. \A f, g : KeyOf(f) = KeyOf(g) =>
               /\ Same(evaluations', f) = Same(evaluations', g)
               /\ Same(evaluations, f) = Same(evaluations, g)
    BY DEF KeyOf, Same
  <2>4. \A f : Same(evaluations, f) \subseteq DOMAIN evaluations
               /\ Same(evaluations', f) \subseteq Same(evaluations, f) \cup {n}
               /\ Same(evaluations, f) \subseteq Same(evaluations', f)
    BY <2>2 DEF Same
  <2>5. ASSUME NEW f, KeyOf(f) \in DOMAIN events
        PROVE  \E m \in Same(evaluations', f) :
                   /\ \A j \in Same(evaluations', f) : m <= j
                   /\ events'[KeyOf(f)].says = evaluations'[m].outcome
    <3>1. PICK i \in DOMAIN evaluations : KeyOf(f) = KeyOf(evaluations[i])
      <4>1. KeyOf(f)[1] = "eval"
        BY DEF KeyOf
      <4> QED
        BY <2>5, <4>1 DEF LogInv
    <3>2. PICK m \in Same(evaluations, evaluations[i]) :
              /\ \A j \in Same(evaluations, evaluations[i]) : m <= j
              /\ events[KeyOf(evaluations[i])].says = evaluations[m].outcome
      BY DEF LogInv
    <3>3. Same(evaluations, f) = Same(evaluations, evaluations[i])
      BY <2>3, <3>1
    <3>4. m \in DOMAIN evaluations /\ m \in Same(evaluations', f) /\ m <= n
      BY <2>2, <2>4, <3>3
    <3>5. \A j \in Same(evaluations', f) : m <= j
      BY <2>4, <3>2, <3>3, <3>4
    <3> QED
      BY <2>1, <2>2, <2>5, <3>1, <3>2, <3>4, <3>5
  <2>6. ASSUME KeyOf(e) \notin DOMAIN events
        PROVE  \E m \in Same(evaluations', e) :
                   /\ \A j \in Same(evaluations', e) : m <= j
                   /\ events'[KeyOf(e)].says = evaluations'[m].outcome
    <3>1. Same(evaluations, e) = {}
      <4>1. ASSUME NEW i \in Same(evaluations, e) PROVE FALSE
        <5>1. i \in DOMAIN evaluations /\ KeyOf(evaluations[i]) = KeyOf(e)
          BY DEF Same, KeyOf
        <5> QED
          BY <2>6, <5>1 DEF LogInv
      <4> QED
        BY <4>1
    <3>2. Same(evaluations', e) \subseteq {n} /\ n \in Same(evaluations', e) /\ n <= n
      BY <2>2, <2>4, <3>1 DEF Same
    <3> QED
      BY <2>1, <2>2, <2>6, <3>2
  <2>7. ASSUME NEW i \in DOMAIN evaluations'
        PROVE  /\ KeyOf(evaluations'[i]) \in DOMAIN events'
               /\ \E m \in Same(evaluations', evaluations'[i]) :
                      /\ \A j \in Same(evaluations', evaluations'[i]) : m <= j
                      /\ events'[KeyOf(evaluations'[i])].says = evaluations'[m].outcome
    <3>1. evaluations'[i] = e \/ KeyOf(evaluations'[i]) \in DOMAIN events
      BY <2>2 DEF LogInv
    <3> QED
      BY <2>1, <2>5, <2>6, <3>1
  <2>8. ASSUME NEW key \in DOMAIN events', key[1] = "eval"
        PROVE  \E i \in DOMAIN evaluations' : key = KeyOf(evaluations'[i])
    <3>1. CASE key \in DOMAIN events
      BY <2>2, <2>8, <3>1 DEF LogInv
    <3>2. CASE key = KeyOf(e)
      BY <2>2, <3>2
    <3> QED
      BY <2>1, <3>1, <3>2
  <2>9. \A id \in DOMAIN approvals' :
            {<<"submitted", id>>, <<"reviewed", id>>} \subseteq DOMAIN events'
    BY <2>1 DEF LogInv
  <2> QED
    BY <2>7, <2>8, <2>9 DEF LogInv, KeyOf, Same
<1>3. ASSUME NEW c \in Client, NEW a \in ApprovalInputs, RecordApproval(c, a) PROVE LogInv'
  <2>1. /\ DOMAIN events' = DOMAIN events \cup {<<"submitted", a.id>>, <<"reviewed", a.id>>}
        /\ \A key \in DOMAIN events : events'[key] = events[key]
        /\ DOMAIN approvals' = DOMAIN approvals \cup {a.id}
        /\ UNCHANGED evaluations
    BY <1>3 DEF RecordApproval, Publish, ApprovalEvents, Filed
  <2>2. \A key \in DOMAIN events' : key[1] = "eval" => key \in DOMAIN events
    BY <2>1
  <2> QED
    BY <2>1, <2>2 DEF LogInv, Same, KeyOf
<1> QED
  BY <1>1, <1>2, <1>3 DEF Next, vars, ReadDecision

(* The log keeps the first account of every evaluation and one of every     *)
(* approval, however often either is repeated.                              *)
THEOREM LogFirst == Spec => []LogTellsFirstWrite
<1>1. TypeOK /\ LogInv => LogTellsFirstWrite
  <2> SUFFICES ASSUME TypeOK, LogInv, NEW i \in DOMAIN evaluations
               PROVE  events[KeyOf(evaluations[i])].says
                          = evaluations[Min(Same(evaluations, evaluations[i]))].outcome
    BY DEF LogInv, LogTellsFirstWrite, KeyOf, Same
  <2>1. Same(evaluations, evaluations[i]) \subseteq Nat
    BY DEF Same, TypeOK
  <2> QED
    BY <2>1, LeastIsMin DEF LogInv
<1> QED
  BY <1>1, InitTypeOK, StepTypeOK, LogBegins, LogStep, PTL DEF Spec

-----------------------------------------------------------------------------
(* Reading while the position changes. *)

(* A larger set of passed transitions is attained no less far. *)
LEMMA AttainedGrows ==
    ASSUME NEW more, more \subseteq Transition, NEW passed, passed \subseteq more
    PROVE  AttainedState(passed) <= AttainedState(more)
<1> DEFINE p == AttainedState(passed)
           q == AttainedState(more)
<1>1. p \in Rank /\ 1 .. p \subseteq passed /\ q \in Rank /\ q + 1 \notin more
  BY AttainedStateIsRun
<1> HIDE DEF p, q
<1>2. p \in Int /\ q \in Nat
  BY <1>1, PolicyAssumption DEF PolicyAssumption, Rank
<1>3. q < p => q + 1 \in 1 .. p
  BY <1>2
<1>4. p <= q
  BY <1>1, <1>2, <1>3
<1> QED
  BY <1>4 DEF p, q

(* One evaluation moves one gate: either no gate comes to be passed, or     *)
(* none ceases to be and the position does not fall.                        *)
LEMMA OneGateMoves ==
    ASSUME TypeOK, NEW e \in EvaluationInputs, RecordEvaluation(e), NEW apps
    PROVE  \/ PassedGates(evaluations', "REAL") \subseteq PassedGates(evaluations, "REAL")
           \/ /\ PassedGates(evaluations, "REAL") \subseteq PassedGates(evaluations', "REAL")
              /\ Position(evaluations, apps, "REAL") <= Position(evaluations', apps, "REAL")
<1>1. ASSUME NEW gate, gate # e.gate
      PROVE  GateSatisfied(evaluations', gate, "REAL") <=> GateSatisfied(evaluations, gate, "REAL")
  <2>1. InForce(evaluations', gate, "REAL") = InForce(evaluations, gate, "REAL")
    BY <1>1, InForceKept
  <2> QED
    BY <2>1 DEF GateSatisfied
<1>2. CASE ~GateSatisfied(evaluations', e.gate, "REAL")
  BY <1>1, <1>2 DEF PassedGates
<1>3. CASE GateSatisfied(evaluations', e.gate, "REAL")
  <2>1. \A gate : GateSatisfied(evaluations, gate, "REAL")
                      => GateSatisfied(evaluations', gate, "REAL")
    BY <1>1, <1>3
  <2>2. PassedGates(evaluations, "REAL") \subseteq PassedGates(evaluations', "REAL")
    BY <2>1 DEF PassedGates
  <2>3. Passed(evaluations, apps, "REAL") \subseteq Passed(evaluations', apps, "REAL")
    BY <2>1 DEF Passed, GateReady
  <2>4. Passed(evaluations', apps, "REAL") \subseteq Transition
    BY DEF Passed, GateReady
  <2> QED
    BY <2>2, <2>3, <2>4, AttainedGrows DEF Position
<1> QED
  BY <1>2, <1>3

(* Every one of these capabilities was granted at some moment of the read. *)
Covered(granted) == \A c \in granted : \E moment \in page.moments : c \in moment

(* The real state the read will resolve capabilities from. *)
ExpectedState ==
    IF page.passes = 0 THEN Position(evaluations, page.apps, "REAL") ELSE page.state

(* Until the gates are read: the present is one of the moments; an          *)
(* undisturbed read expects the present state; and what the read would      *)
(* publish if it went on now is covered, if at most one write overtook it.  *)
(* After that, what it will publish is.                                     *)
ReadInv ==
    /\ DOMAIN page = {"apps", "passes", "state", "granted", "moments", "writes"}
    /\ page.passes \in 0 .. 5 /\ page.writes \in Nat
    /\ page.passes < 3 =>
           /\ GrantedNow(evaluations, approvals) \in page.moments
           /\ page.writes = 0 /\ page.passes = 0 => page.apps = approvals
           /\ page.writes = 0 => ExpectedState = Position(evaluations, approvals, "REAL")
           /\ page.writes <= 1 => Covered(PublishedGrants(ExpectedState))
    /\ page.passes >= 3 /\ page.writes <= 1 => Covered(page.granted)

LEMMA PassesMade ==
    /\ Len(Passes) = 5 /\ (Reading <=> page.passes < 5)
    /\ \A i \in 1 .. 5 : (Passes[i] = "readyReal" <=> i = 1) /\ (Passes[i] = "gates" <=> i = 3)
BY DEF Passes, Reading

LEMMA PageBegins ==
    ASSUME NEW apps, NEW evals
    PROVE  /\ DOMAIN PageOf(apps, evals)
                  = {"apps", "passes", "state", "granted", "moments", "writes"}
           /\ PageOf(apps, evals).apps = apps
           /\ PageOf(apps, evals).passes = 0
           /\ PageOf(apps, evals).writes = 0
           /\ PageOf(apps, evals).moments = {GrantedNow(evals, apps)}
BY DEF PageOf

LEMMA ReaderBegins == ReaderInit => ReadInv
<1> SUFFICES ASSUME ReaderInit PROVE ReadInv
  OBVIOUS
<1> DEFINE granted == GrantedNow(evaluations, approvals)
           first == PageOf(EmptyBook, evaluations)
<1>1. page = [first EXCEPT !.passes = 5, !.granted = granted, !.moments = {granted}]
  BY PassesMade DEF ReaderInit
<1>2. /\ DOMAIN page = {"apps", "passes", "state", "granted", "moments", "writes"}
      /\ page.passes = 5 /\ page.writes = 0 /\ page.granted = granted /\ page.moments = {granted}
  <2> HIDE DEF granted
  <2> QED
    BY <1>1 DEF PageOf
<1> HIDE DEF granted
<1> QED
  BY <1>2 DEF ReadInv, Covered

LEMMA PassKeeps == ReadInv /\ Pass => ReadInv'
<1> SUFFICES ASSUME ReadInv, Pass PROVE ReadInv'
  OBVIOUS
<1> DEFINE next == [page EXCEPT !.passes = @ + 1]
<1>1. /\ page.passes \in 0 .. 4
      /\ DOMAIN next = {"apps", "passes", "state", "granted", "moments", "writes"}
      /\ next.passes = page.passes + 1
      /\ next.writes = page.writes /\ next.moments = page.moments
      /\ next.state = page.state /\ next.granted = page.granted /\ next.apps = page.apps
      /\ UNCHANGED <<evaluations, approvals>>
  BY PassesMade DEF ReadInv, Pass, vars
<1>2. page.passes + 1 \in 1 .. 5
  BY <1>1
<1>3. CASE page.passes = 0
  <2>1. page' = [next EXCEPT !.apps = EmptyBook,
                             !.state = Position(evaluations, page.apps, "REAL")]
    BY <1>2, <1>3, PassesMade DEF Pass
  <2>2. /\ DOMAIN page' = DOMAIN next
        /\ page'.passes = 1 /\ page'.writes = page.writes /\ page'.moments = page.moments
        /\ page'.state = ExpectedState
    <3> HIDE DEF next
    <3> QED
      BY <1>1, <1>3, <2>1 DEF ExpectedState
  <2>3. ExpectedState' = ExpectedState
    BY <2>2 DEF ExpectedState
  <2>4. PublishedGrants(ExpectedState)' = PublishedGrants(ExpectedState)
    BY <1>1, <2>3 DEF PublishedGrants
  <2> QED
    BY <1>1, <1>3, <2>2, <2>3, <2>4 DEF ReadInv, Covered
<1>4. CASE page.passes = 2
  <2>1. page' = [next EXCEPT !.granted = PublishedGrants(page.state)]
    BY <1>2, <1>4, PassesMade DEF Pass
  <2>2. /\ DOMAIN page' = DOMAIN next
        /\ page'.passes = 3 /\ page'.writes = page.writes /\ page'.moments = page.moments
        /\ page'.granted = PublishedGrants(ExpectedState)
    <3> HIDE DEF next
    <3> QED
      BY <1>1, <1>4, <2>1 DEF ExpectedState
  <2> QED
    BY <1>1, <1>4, <2>2 DEF ReadInv, Covered
<1>5. CASE page.passes \in {1, 3, 4}
  <2>1. page' = next
    BY <1>2, <1>5, PassesMade DEF Pass
  <2>2. page.passes = 1 => ExpectedState' = ExpectedState
    BY <1>1, <2>1 DEF ExpectedState
  <2>3. page.passes = 1 => PublishedGrants(ExpectedState)' = PublishedGrants(ExpectedState)
    BY <1>1, <2>2 DEF PublishedGrants
  <2> HIDE DEF next
  <2> QED
    BY <1>1, <1>5, <2>1, <2>2, <2>3 DEF ReadInv, Covered
<1> QED
  BY <1>1, <1>3, <1>4, <1>5

LEMMA BeginKeeps == BeginRead => ReadInv'
<1> SUFFICES ASSUME BeginRead PROVE ReadInv'
  OBVIOUS
<1>1. /\ DOMAIN page' = {"apps", "passes", "state", "granted", "moments", "writes"}
      /\ page'.apps = approvals /\ page'.passes = 0 /\ page'.writes = 0
      /\ page'.moments = {GrantedNow(evaluations, approvals)}
      /\ UNCHANGED <<evaluations, approvals>>
  BY PageBegins DEF BeginRead, vars
<1>2. ExpectedState' = Position(evaluations, approvals, "REAL")
  BY <1>1 DEF ExpectedState
<1>3. PublishedGrants(ExpectedState)' = GrantedNow(evaluations, approvals)
  BY <1>1, <1>2 DEF PublishedGrants, GrantedNow
<1> QED
  BY <1>1, <1>2, <1>3 DEF ReadInv, Covered

(* A write that overtakes the read before its gates are read. *)
LEMMA OvertakingKeepsCovered ==
    ASSUME TypeOK, ReadInv, page.passes < 3, page.writes = 0,
           \/ \E e \in EvaluationInputs : RecordEvaluation(e)
           \/ \E c \in Client, a \in ApprovalInputs : RecordApproval(c, a),
           NEW expected,
           expected = IF page.passes = 0 THEN Position(evaluations', page.apps, "REAL")
                                         ELSE page.state
    PROVE  \A cap \in GrantedCapabilities(expected, PassedGates(evaluations', "REAL")) :
               \/ cap \in GrantedNow(evaluations, approvals)
               \/ cap \in GrantedNow(evaluations', approvals')
<1> DEFINE before == Position(evaluations, approvals, "REAL")
<1>1. page.passes # 0 => expected = before
  BY DEF ReadInv, ExpectedState
<1>2. page.passes = 0 => page.apps = approvals
  BY DEF ReadInv
<1>3. ASSUME NEW e \in EvaluationInputs, RecordEvaluation(e)
      PROVE  \A cap \in GrantedCapabilities(expected, PassedGates(evaluations', "REAL")) :
                 \/ cap \in GrantedNow(evaluations, approvals)
                 \/ cap \in GrantedNow(evaluations', approvals')
  <2>1. UNCHANGED approvals
    BY <1>3 DEF RecordEvaluation
  <2>2. CASE page.passes = 0
    BY <1>2, <2>1, <2>2 DEF GrantedNow
  <2>3. CASE page.passes # 0
    <3>1. Position(evaluations, approvals, "REAL") \in Int
          /\ Position(evaluations', approvals, "REAL") \in Int
      BY PositionIsRank, PolicyAssumption DEF Rank, PolicyAssumption
    <3>2. \A cap \in Capability : Threshold[cap] \in Int
      BY PolicyAssumption DEF PolicyAssumption, Rank
    <3>3. \/ PassedGates(evaluations', "REAL") \subseteq PassedGates(evaluations, "REAL")
          \/ before <= Position(evaluations', approvals, "REAL")
      BY <1>3, OneGateMoves
    <3>4. CASE PassedGates(evaluations', "REAL") \subseteq PassedGates(evaluations, "REAL")
      BY <1>1, <2>3, <3>4 DEF GrantedNow, GrantedCapabilities
    <3>5. CASE before <= Position(evaluations', approvals, "REAL")
      BY <1>1, <2>1, <2>3, <3>1, <3>2, <3>5 DEF GrantedNow, GrantedCapabilities
    <3> QED
      BY <3>3, <3>4, <3>5
  <2> QED
    BY <2>2, <2>3
<1>4. ASSUME NEW c \in Client, NEW a \in ApprovalInputs, RecordApproval(c, a)
      PROVE  \A cap \in GrantedCapabilities(expected, PassedGates(evaluations', "REAL")) :
                 cap \in GrantedNow(evaluations, approvals)
  <2>1. UNCHANGED evaluations
    BY <1>4 DEF RecordApproval
  <2>2. expected = before
    BY <1>1, <1>2, <2>1
  <2> QED
    BY <2>1, <2>2 DEF GrantedNow
<1> QED
  BY <1>3, <1>4

LEMMA WriteKeeps == TypeOK /\ ReadInv /\ Write => ReadInv'
<1> SUFFICES ASSUME TypeOK, ReadInv, Write PROVE ReadInv'
  OBVIOUS
<1>1. CASE ~Reading
  <2>1. UNCHANGED page /\ page.passes = 5
    BY <1>1, PassesMade DEF Write, ReadInv
  <2> QED
    BY <2>1 DEF ReadInv, Covered
<1>2. CASE Reading
  <2>1. page' = [page EXCEPT !.moments = @ \cup {GrantedNow(evaluations', approvals')},
                             !.writes = @ + 1]
    BY <1>2 DEF Write
  <2> DEFINE now == GrantedNow(evaluations', approvals')
             expected == IF page.passes = 0 THEN Position(evaluations', page.apps, "REAL")
                                            ELSE page.state
  <2>2. /\ DOMAIN page' = DOMAIN page
        /\ page'.passes = page.passes /\ page'.writes = page.writes + 1
        /\ page'.moments = page.moments \cup {now}
        /\ page'.state = page.state /\ page'.granted = page.granted /\ page'.apps = page.apps
    <3> HIDE DEF now
    <3>1. page' = [page EXCEPT !.moments = @ \cup {now}, !.writes = @ + 1]
      BY <2>1 DEF now
    <3> QED
      BY <3>1 DEF ReadInv
  <2>3. ExpectedState' = expected
    BY <2>2 DEF ExpectedState
  <2>4. PublishedGrants(ExpectedState)'
          = GrantedCapabilities(expected, PassedGates(evaluations', "REAL"))
    BY <2>3 DEF PublishedGrants
  <2>5. ASSUME page.passes < 3, page.writes = 0
        PROVE  Covered(PublishedGrants(ExpectedState))'
    <3>1. \/ \E e \in EvaluationInputs : RecordEvaluation(e)
          \/ \E c \in Client, a \in ApprovalInputs : RecordApproval(c, a)
      BY DEF Write
    <3>2. \A cap \in GrantedCapabilities(expected, PassedGates(evaluations', "REAL")) :
               cap \in GrantedNow(evaluations, approvals) \/ cap \in now
      <4> HIDE DEF expected
      <4>1. expected = IF page.passes = 0 THEN Position(evaluations', page.apps, "REAL")
                                          ELSE page.state
        BY DEF expected
      <4> QED
        BY <2>5, <3>1, <4>1, OvertakingKeepsCovered
    <3>3. {GrantedNow(evaluations, approvals), now} \subseteq page'.moments
      BY <2>2, <2>5 DEF ReadInv
    <3> HIDE DEF expected, now
    <3> QED
      BY <2>4, <3>2, <3>3 DEF Covered
  <2>6. page.writes <= 0 => page.writes = 0
    BY DEF ReadInv
  <2> HIDE DEF expected, now
  <2>7. page'.writes \in Nat \ {0} /\ (page'.writes <= 1 => page.writes = 0)
    BY <2>2 DEF ReadInv
  <2>8. page.passes >= 3 /\ page.writes <= 1 => Covered(page.granted)'
    BY <2>2 DEF ReadInv, Covered
  <2>9. GrantedNow(evaluations, approvals)' \in page'.moments
    BY <2>2 DEF now
  <2> QED
    BY <2>2, <2>5, <2>7, <2>8, <2>9 DEF ReadInv
<1> QED
  BY <1>1, <1>2

LEMMA ReaderStep == TypeOK /\ ReadInv /\ [ReaderNext]_readerVars => ReadInv'
<1> SUFFICES ASSUME TypeOK, ReadInv, [ReaderNext]_readerVars PROVE ReadInv'
  OBVIOUS
<1>1. CASE UNCHANGED <<evaluations, approvals, page>>
  BY <1>1 DEF ReadInv, Covered, ExpectedState, PublishedGrants
<1>2. ReadForApproval => UNCHANGED <<evaluations, approvals, page>>
  BY DEF ReadForApproval, ReadDecision
<1> QED
  BY <1>1, <1>2, BeginKeeps, PassKeeps, WriteKeeps DEF ReaderNext, readerVars, vars

(* A repository that is read while it changes is the repository: readers    *)
(* add no behaviour, so every theorem above holds beside them.              *)
THEOREM ReadersOnlyRead == ReaderSpec => Spec
<1>1. ReaderInit => Init
  BY DEF ReaderInit
<1>2. [ReaderNext]_readerVars => [Next]_vars
  BY DEF ReaderNext, readerVars, BeginRead, Pass, Write, ReadForApproval, Next
<1> QED
  BY <1>1, <1>2, PTL DEF ReaderSpec, Spec

(* One write that overtakes a read does no harm, whatever it writes and     *)
(* between whichever passes.                                                *)
THEOREM OvertakenOnceIsSafe == ReaderSpec => []OneWriteNeverOvergrants
<1>1. ReadInv => OneWriteNeverOvergrants
  <2> SUFFICES ASSUME ReadInv, ~Reading, page.writes <= 1 PROVE Overgranted = {}
    BY DEF OneWriteNeverOvergrants
  <2>1. Covered(page.granted)
    BY PassesMade DEF ReadInv
  <2> QED
    BY <2>1 DEF Covered, Overgranted
<1> QED
  BY <1>1, ReadersOnlyRead, TypeCorrect, ReaderBegins, ReaderStep, PTL DEF ReaderSpec
=============================================================================
