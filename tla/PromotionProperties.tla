------------------------ MODULE PromotionProperties ------------------------
(***************************************************************************)
(* What the promotion repository is checked for.                           *)
(***************************************************************************)
EXTENDS PromotionRepository

(* Every recorded value is one its contract's validator accepts, and every  *)
(* approval is filed under its own id.                                      *)
TypeOK ==
    /\ evaluations \in Seq(Evaluation)
    /\ DOMAIN approvals \subseteq ApprovalId
    /\ \A id \in DOMAIN approvals : approvals[id] \in Approval /\ approvals[id].id = id
    /\ DOMAIN desk = Client
    /\ \A c \in Client : desk[c].read \in 0 .. Len(evaluations)

PositionOn(track) == Position(evaluations, approvals, track)

(* The approval in force for a transition on a track (as a set of ids). *)
ReviewInForce(apps, track, k) ==
    Newest(apps, {id \in DOMAIN apps : apps[id].track = track /\ apps[id].transition = k})

(* The part of the published decision that speaks about the bank. *)
RealPart(decision) ==
    [state |-> decision.realState, authorized |-> decision.shadowAuthorized,
     passed |-> decision.realPassed, granted |-> decision.granted,
     refused |-> decision.refused, ber |-> decision.score.ber,
     unevaluated |-> decision.unevaluated]

(* The evaluation a step records, as a set: empty for the other steps. *)
JustEvaluated ==
    IF Len(evaluations') = Len(evaluations) THEN {} ELSE {evaluations'[Len(evaluations')]}

(* The approval ids a step writes. *)
JustFiled ==
    {id \in DOMAIN approvals' : id \notin DOMAIN approvals \/ approvals'[id] # approvals[id]}

-----------------------------------------------------------------------------
(* A fixture repository never yields bank authority: whatever is evaluated  *)
(* and approved, the real position stays the initial one, no gate earns     *)
(* bank evidence, and the capabilities granted are those that need neither. *)
(* (FixtureModeError; "the worst failure this service could have".)         *)
FixtureNeverAuthorises ==
    FixtureMode =>
        /\ CurrentDecision.realState = 0
        /\ ~CurrentDecision.shadowAuthorized
        /\ CurrentDecision.realPassed = {}
        /\ BankEvidenced(evaluations) = {}
        /\ \A c \in CurrentDecision.granted : Threshold[c] = 0 /\ Prerequisite[c] = {}

(* A position is earned one transition at a time: for every transition up   *)
(* to the rank attained, no blocking gate lacks a satisfying evaluation     *)
(* whose mode its track admits, and the review in force is an approval by   *)
(* two people in two roles.                                                 *)
PositionIsEarned ==
    \A track \in Track, k \in Transition :
        k <= PositionOn(track) =>
            /\ \A gate \in Blocking : TransitionOf[gate] = k =>
                   \E e \in InForce(evaluations, gate, track) :
                       /\ Satisfied(e)
                       /\ e.outcome = "PASS" => AdmitsTrack(e.mode, track) /\ e.backed
            /\ \E id \in ReviewInForce(approvals, track, k) :
                   /\ approvals[id].decision = "APPROVED"
                   /\ approvals[id].maker # approvals[id].checker
                   /\ approvals[id].makerRole # approvals[id].checkerRole

(* The two functions that judge a capability agree: it is granted exactly   *)
(* when there is no reason to refuse it, so no refusal is ever published    *)
(* without its reason.                                                      *)
CapabilityVerdictsAgree ==
    LET decision == CurrentDecision IN
    \A c \in Capability : c \in decision.granted <=> decision.refused[c] = NotRefused

(* The event store keeps the first account of every key and has one for     *)
(* every write: an evaluation's event tells the outcome of the first        *)
(* evaluation with its gate, track and time, whatever was recorded later.   *)
LogTellsFirstWrite ==
    /\ \A i \in DOMAIN evaluations :
           LET e == evaluations[i]
               same == {j \in DOMAIN evaluations :
                           /\ evaluations[j].gate = e.gate
                           /\ evaluations[j].track = e.track
                           /\ evaluations[j].at = e.at}
           IN events[<<"eval", e.gate, e.track, e.at>>].says = evaluations[Min(same)].outcome
    /\ \A id \in DOMAIN approvals :
           {<<"submitted", id>>, <<"reviewed", id>>} \subseteq DOMAIN events

-----------------------------------------------------------------------------
(* Rehearsing proves the machinery and moves nothing at the bank: recording *)
(* a rehearsal evaluation leaves the real half of the decision as it was.   *)
RehearsalEvaluationsLeaveRealAlone ==
    [][(\E e \in JustEvaluated : e.track = "REHEARSAL")
          => RealPart(CurrentDecision') = RealPart(CurrentDecision)]_vars

(* A result that arrives after a newer one of its gate and track is kept in *)
(* the list but changes nothing that is published.                          *)
LateResultsChangeNothing ==
    [][\A e \in JustEvaluated :
          (\E f \in InForce(evaluations, e.gate, e.track) : e.at < f.at)
              => CurrentDecision' = CurrentDecision]_vars

(* A blocking gate that stops holding takes its transition with it, in the  *)
(* step that records it and however far the position had gone.              *)
FailureDemotes ==
    [][\A e \in JustEvaluated :
          /\ e.gate \in Blocking
          /\ ~Satisfied(e)
          /\ \A f \in InForce(evaluations, e.gate, e.track) : f.at <= e.at
          => PositionOn(e.track)' < TransitionOf[e.gate]]_vars

(* A rejection in force is lifted only by a review that is not older than   *)
(* it, or by filing another approval under its own id: a replayed earlier   *)
(* approval does not lift it.                                               *)
RejectionStands ==
    [][\A track \in Track, k \in Transition :
          \A r \in ReviewInForce(approvals, track, k) :
              approvals[r].decision = "REJECTED" /\ k \in Approved(approvals', track) =>
                  \E id \in JustFiled : id = r \/ approvals'[id].at >= approvals[r].at]_vars

(* The position moves as PromotionAuthority allows. *)
Authority_ == INSTANCE PromotionAuthority WITH
    ready <- [track \in Track |-> GateReady(evaluations, track)],
    approved <- [track \in Track |-> Approved(approvals, track)]

ImplementsAuthority == Authority_!Spec

-----------------------------------------------------------------------------
(* What documents and comments of the repository say and the code does not. *)

(* "Passing metrics alone ... can never promote the system" (engine.py): a  *)
(* position only rises in the step that files an approval.                  *)
MetricsNeverPromote ==
    [][\A track \in Track :
          PositionOn(track)' > PositionOn(track) => approvals' # approvals]_vars

(* An approval binds "the exact decision version the maker/checker reviewed" *)
(* and cannot be used after the evidence behind the decision changed        *)
(* (contracts.py): none of the gates of the approved transition has been    *)
(* evaluated again since the client read the decision.                      *)
ApprovalBindsEvidence ==
    [][\A c \in Client, a \in ApprovalInputs :
          RecordApproval(c, a) =>
              \A i \in desk[c].read + 1 .. Len(evaluations) :
                  ~ /\ evaluations[i].track = a.track
                    /\ evaluations[i].gate \in Gate
                    /\ TransitionOf[evaluations[i].gate] = a.transition]_vars

(* A gate's minimum mode is "the weakest evidence mode admissible on the    *)
(* REAL track for this gate" (contracts.py).                                *)
MinimumModeEnforced ==
    \A gate \in Gate : \A e \in InForce(evaluations, gate, "REAL") :
        e.outcome = "PASS" => SatisfiesMinimum(e.mode, MinimumMode[gate])

(* "A capability is granted only when both its state threshold and its      *)
(* evidence prerequisites hold" (states.py): a gate waived without evidence *)
(* is none.                                                                 *)
CapabilityNeedsEvidence ==
    \A c \in CurrentDecision.granted : Prerequisite[c] \subseteq BankEvidenced(evaluations)

(* The real track governs bank authorisation and the rehearsal track does   *)
(* not: no rehearsal write, evaluation or approval, moves the real position. *)
RehearsalNeverMovesReal ==
    [][(\A e \in JustEvaluated : e.track = "REHEARSAL")
          /\ (\A id \in JustFiled : approvals'[id].track = "REHEARSAL")
          => PositionOn("REAL")' = PositionOn("REAL")]_vars
=============================================================================
