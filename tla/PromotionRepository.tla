------------------------ MODULE PromotionRepository ------------------------
(***************************************************************************)
(* The promotion repository (repository.py of src/wallet_twin_v32): the    *)
(* list of gate evaluations, the book of four-eyes approvals and the       *)
(* idempotent event store, written by any number of clients.  Every write  *)
(* method runs under the repository's lock and is one action here.  The    *)
(* position is never stored: it is Decision(evaluations, approvals),       *)
(* recomputed on every read.                                               *)
(*                                                                         *)
(* An approval must carry the digest of the decision its checker reviewed. *)
(* Reading the decision and filing the approval are two requests, and      *)
(* other clients write in between; desk holds what each client last read.  *)
(***************************************************************************)
EXTENDS PromotionPolicy

CONSTANTS
    FixtureMode,      \* PromotionRepository(fixture_mode = ...)
    Client,           \* the clients of the repository
    Person, Role,     \* makers and checkers, and the roles they act in
    ApprovalId,       \* approval ids; 0 is the one the seed uses
    EvaluationInputs, \* the evaluations clients send, valid or not
    ApprovalInputs,   \* the approvals clients send, valid or not
    MaxEvaluations    \* bound on the evaluations recorded after the seed

(* A PromotionApproval, less the digest: `at` is reviewed_at, and transition *)
(* 0 stands for an id that names no transition.                              *)
ApprovalForm ==
    [id : ApprovalId, transition : Transition \cup {0}, track : Track,
     decision : {"APPROVED", "REJECTED"}, maker : Person, makerRole : Role,
     checker : Person, checkerRole : Role, submitted : Nat, at : Nat]

(* Mutant: two people are enough, even of one role. *)
FourEyesOneRole(a) == a.maker # a.checker /\ a.at >= a.submitted

(* The validator of PromotionApproval. *)
FourEyes(a) ==
    /\ a.maker # a.checker
    /\ a.makerRole # a.checkerRole
    /\ a.at >= a.submitted

Approval == {a \in ApprovalForm : FourEyes(a)}

(* What the seed files for the first transition: one hour passes between    *)
(* its submission and its review.                                           *)
SeedApproval ==
    [id |-> 0, transition |-> 1, track |-> "REHEARSAL", decision |-> "APPROVED",
     maker |-> "rehearsal.maker", makerRole |-> "ENGINEERING",
     checker |-> "rehearsal.checker", checkerRole |-> "MODEL_RISK",
     submitted |-> 0, at |-> 1]

ASSUME RepositoryAssumption ==
    /\ FixtureMode \in BOOLEAN
    /\ ApprovalId \subseteq Nat /\ 0 \in ApprovalId
    /\ EvaluationInputs \subseteq EvaluationForm
    /\ ApprovalInputs \subseteq ApprovalForm
    /\ MaxEvaluations \in Nat
    /\ TopRank >= 1
    /\ GateOrder # <<>>
    /\ SeedApproval \in ApprovalForm

VARIABLES
    evaluations,   \* _evaluations: every evaluation ever recorded, in order
    approvals,     \* _approvals: the approval last filed under each id
    events,        \* the event store: for each idempotency key, its event
    desk           \* per client, the decision it last read and the length of
                   \* the evaluation list that decision was computed from

vars == <<evaluations, approvals, events, desk>>

CurrentDecision == Decision(evaluations, approvals)

-----------------------------------------------------------------------------
(* Mutant: the later event replaces the one on record. *)
PublishLatest(log, new) ==
    [key \in DOMAIN log \cup DOMAIN new |-> IF key \in DOMAIN new THEN new[key] ELSE log[key]]

(* PromotionEventStore.append of events that all carry idempotency keys: a  *)
(* key already present keeps its first event.                               *)
Publish(log, new) ==
    [key \in DOMAIN log \cup DOMAIN new |-> IF key \in DOMAIN log THEN log[key] ELSE new[key]]

EvaluationEvent(e) ==
    [key \in {<<"eval", e.gate, e.track, e.at>>} |-> [track |-> e.track, says |-> e.outcome]]

ApprovalEvents(a) ==
    [key \in {<<"submitted", a.id>>, <<"reviewed", a.id>>} |->
        [track |-> a.track, says |-> a.decision]]

(* Overwriting the entry of _approvals. *)
Filed(book, a) == [id \in DOMAIN book \cup {a.id} |-> IF id = a.id THEN a ELSE book[id]]

(* Mutant: the guard looks at the track's name only. *)
GuardRealTrackDropped(track) == track \in Track

(* _guard_real_track. *)
GuardRealTrack(track) == ~(FixtureMode /\ track = "REAL")

-----------------------------------------------------------------------------
(* _seed: every catalogue gate passes in rehearsal, with its failure        *)
(* injected, and only the first transition is approved.                     *)
SeedEvaluation(gate) ==
    [gate |-> gate, track |-> "REHEARSAL", outcome |-> "PASS",
     mode |-> "SYNTHETIC_REHEARSAL", backed |-> TRUE, waiver |-> FALSE,
     injected |-> TRUE, at |-> 0]

SeedEvaluations == [i \in DOMAIN GateOrder |-> SeedEvaluation(GateOrder[i])]

SeedApprovals == Filed(<<>>, SeedApproval)

SeedEvents ==
    LET decision == Decision(SeedEvaluations, SeedApprovals)
        verdict(track, says) == [track |-> track, says |-> says]
        keys == {<<"eval", gate, "REHEARSAL", 0>> : gate \in Gate}
                  \cup {<<"decision">>}
                  \cup {<<"advanced", k>> : k \in decision.rehearsalPassed}
                  \cup ({"capability"} \X Capability)
        seeded == [key \in keys |->
                      CASE key[1] = "eval"       -> verdict("REHEARSAL", "PASS")
                        [] key[1] = "decision"   -> verdict("REHEARSAL", "PUBLISHED")
                        [] key[1] = "advanced"   -> verdict("REHEARSAL", "ADVANCED")
                        [] key[1] = "capability" ->
                              verdict("REAL", IF key[2] \in decision.granted
                                                THEN "GRANTED" ELSE "REFUSED")]
    IN Publish(seeded, ApprovalEvents(SeedApproval))

Init ==
    /\ evaluations = SeedEvaluations
    /\ approvals = SeedApprovals
    /\ events = SeedEvents
    /\ desk = [c \in Client |-> [digest |-> "UNREAD", read |-> 0]]

-----------------------------------------------------------------------------
(* decision(): a client reads the position, without taking the lock. *)
ReadDecision(c) ==
    /\ desk' = [desk EXCEPT ![c] = [digest |-> CurrentDecision, read |-> Len(evaluations)]]
    /\ UNCHANGED <<evaluations, approvals, events>>

(* Mutant: the contract's validator is bypassed. *)
RecordEvaluationUnvalidated(e) ==
    /\ Len(evaluations) < Len(GateOrder) + MaxEvaluations
    /\ GuardRealTrack(e.track)
    /\ evaluations' = Append(evaluations, e)
    /\ events' = Publish(events, EvaluationEvent(e))
    /\ UNCHANGED <<approvals, desk>>

(* record_evaluation.  Nothing here compares the evaluation with the        *)
(* catalogue: an unknown gate id, or a mode below the gate's minimum, is    *)
(* recorded like any other.                                                 *)
RecordEvaluation(e) ==
    /\ Len(evaluations) < Len(GateOrder) + MaxEvaluations
    /\ ValidEvaluation(e)
    /\ GuardRealTrack(e.track)
    /\ evaluations' = Append(evaluations, e)
    /\ events' = Publish(events, EvaluationEvent(e))
    /\ UNCHANGED <<approvals, desk>>

(* The binding check of record_approval: the digest the client read must be *)
(* that of the decision computed now.                                       *)
Bound(c) == desk[c].read > 0 /\ desk[c].digest = CurrentDecision

(* record_approval. *)
RecordApproval(c, a) ==
    /\ FourEyes(a)
    /\ GuardRealTrack(a.track)
    /\ Bound(c)
    /\ approvals' = Filed(approvals, a)
    /\ events' = Publish(events, ApprovalEvents(a))
    /\ UNCHANGED <<evaluations, desk>>

Next ==
    \/ \E c \in Client : ReadDecision(c)
    \/ \E e \in EvaluationInputs : RecordEvaluation(e)
    \/ \E c \in Client, a \in ApprovalInputs : RecordApproval(c, a)

Spec == Init /\ [][Next]_vars
=============================================================================
