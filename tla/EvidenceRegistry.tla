-------------------------- MODULE EvidenceRegistry --------------------------
(***************************************************************************)
(* The evidence registry of the V2 service (evidence.py): facts extracted  *)
(* from documents are submitted as candidates, reviewed by other people    *)
(* and published once the reviews they need are there.  submit and review  *)
(* do all their work under the registry's lock, so each is one action.     *)
(***************************************************************************)
EXTENDS Integers, Sequences, FiniteSets

CONSTANTS
    Person,     \* the users of the service
    Submission, \* the candidates they submit, each a [id, material, valid]
    NoCandidate \* the place of a candidate that was never submitted

CandidateId == {s.id : s \in Submission}

(* reviewer_role is a free string: any role but the two needed is OTHER.  *)
Role == {"FINANCE_SME", "EVIDENCE_REVIEWER", "OTHER"}
RequiredRole == {"FINANCE_SME", "EVIDENCE_REVIEWER"}

ApprovalStatus == {"DRAFT", "PENDING_REVIEW", "APPROVED", "REJECTED", "EXPIRED"}

(* A FactReviewRequest, less its notes and time. *)
Review == [who : Person, role : Role, decision : ApprovalStatus]

(* A review that was accepted, and a candidate with its reviews. *)
Verdict == [who : Person, role : RequiredRole, decision : {"APPROVED", "REJECTED"}]
CandidateState ==
    [by : Person, material : BOOLEAN, reviews : Seq(Verdict),
     status : {"PENDING_REVIEW", "APPROVED", "REJECTED"}]

ASSUME EvidenceAssumption ==
    /\ NoCandidate \notin CandidateState
    /\ \A s \in Submission : s.material \in BOOLEAN /\ s.valid \in BOOLEAN
    /\ \A s \in Submission : s = [id |-> s.id, material |-> s.material, valid |-> s.valid]

VARIABLES
    candidates, \* _candidates: for each id its CandidateState, or NoCandidate
    facts       \* the ids of _facts; a fact is made of its candidate alone

vars == <<candidates, facts>>

Submitted == {id \in CandidateId : candidates[id] # NoCandidate}

Init ==
    /\ candidates = [id \in CandidateId |-> NoCandidate]
    /\ facts = {}

-----------------------------------------------------------------------------
(* Mutant: an id can be submitted again, and its reviews start afresh. *)
SubmitAgain(who, s) ==
    /\ s.valid
    /\ candidates' = [candidates EXCEPT ![s.id] =
                         [by |-> who, material |-> s.material,
                          reviews |-> <<>>, status |-> "PENDING_REVIEW"]]
    /\ UNCHANGED facts

(* submit: what validate_candidate objects to is refused, and so is an id   *)
(* that is taken.                                                           *)
Submit(who, s) ==
    /\ s.valid
    /\ s.id \notin Submitted \cup facts
    /\ candidates' = [candidates EXCEPT ![s.id] =
                         [by |-> who, material |-> s.material,
                          reviews |-> <<>>, status |-> "PENDING_REVIEW"]]
    /\ UNCHANGED facts

(* Mutant: the submitter may review. *)
MayReviewAnyone(state, review) ==
    /\ review.decision \in {"APPROVED", "REJECTED"}
    /\ review.role \in RequiredRole
    /\ \A i \in DOMAIN state.reviews : state.reviews[i].who # review.who

(* Mutant: one person may review in each of the two roles. *)
MayReviewPerRole(state, review) ==
    /\ review.decision \in {"APPROVED", "REJECTED"}
    /\ review.who # state.by
    /\ review.role \in RequiredRole
    /\ \A i \in DOMAIN state.reviews :
           state.reviews[i].who # review.who \/ state.reviews[i].role # review.role

(* The refusals of review: the decision, four eyes, the role, and a second  *)
(* review by one person.                                                    *)
MayReview(state, review) ==
    /\ review.decision \in {"APPROVED", "REJECTED"}
    /\ review.who # state.by
    /\ review.role \in RequiredRole
    /\ \A i \in DOMAIN state.reviews : state.reviews[i].who # review.who

(* The roles in which a list of reviews approves. *)
ApprovingRoles(reviews) ==
    {reviews[i].role : i \in {j \in DOMAIN reviews : reviews[j].decision = "APPROVED"}}

(* Both roles must approve a material fact, and any one another. *)
RolesSuffice(material, roles) ==
    IF material THEN RequiredRole \subseteq roles ELSE roles # {}

(* Whether the approvals among the reviews suffice.  Rejections are not     *)
(* looked at.                                                               *)
Suffices(material, reviews) == RolesSuffice(material, ApprovingRoles(reviews))

(* Mutant: an approval lifts a rejection, whatever is still missing. *)
AfterReviewLenient(state, review) ==
    [state EXCEPT !.reviews = Append(@, review), !.status = review.decision]

(* The state of a candidate after a review of it. *)
AfterReview(state, review) ==
    LET reviews == Append(state.reviews, review)
        status == IF review.decision = "REJECTED" THEN "REJECTED"
                  ELSE IF Suffices(state.material, reviews) THEN "APPROVED"
                  ELSE state.status
    IN [state EXCEPT !.reviews = reviews, !.status = status]

(* review: with the approval that completes what the candidate needs its    *)
(* fact is published.                                                       *)
ReviewCandidate(id, review) ==
    /\ id \in Submitted
    /\ MayReview(candidates[id], review)
    /\ candidates' = [candidates EXCEPT ![id] = AfterReview(@, review)]
    /\ facts' = IF review.decision = "APPROVED"
                     /\ Suffices(candidates[id].material, Append(candidates[id].reviews, review))
                  THEN facts \cup {id}
                  ELSE facts

(* approval_manifest with a signer: production_approval_claim_allowed. *)
ClaimAllowed ==
    {id \in Submitted : candidates[id].status = "PENDING_REVIEW"} = {}

Next ==
    \/ \E who \in Person, s \in Submission : Submit(who, s)
    \/ \E id \in CandidateId, review \in Review : ReviewCandidate(id, review)

Spec == Init /\ [][Next]_vars

-----------------------------------------------------------------------------
(* What the evidence registry is checked for.                               *)

TypeOK ==
    /\ DOMAIN candidates = CandidateId
    /\ \A id \in Submitted : candidates[id] \in CandidateState
    /\ facts \subseteq Submitted

ReviewsOf(id) == candidates[id].reviews

(* The reviews that settled something when they were given: a rejection, or *)
(* an approval that found the approvals complete.                           *)
Settling(id) ==
    {i \in DOMAIN ReviewsOf(id) :
        \/ ReviewsOf(id)[i].decision = "REJECTED"
        \/ Suffices(candidates[id].material, SubSeq(ReviewsOf(id), 1, i))}

(* A candidate's status is the verdict of the last review that settled it,  *)
(* and it is pending while none has.                                        *)
StatusTellsLastVerdict ==
    \A id \in Submitted :
        \/ Settling(id) = {} /\ candidates[id].status = "PENDING_REVIEW"
        \/ \E last \in Settling(id) :
               /\ \A i \in Settling(id) : i <= last
               /\ candidates[id].status = ReviewsOf(id)[last].decision

(* A fact is published exactly when its candidate has the approvals it      *)
(* needs, in whatever order the reviews came and whatever rejections came   *)
(* in between: nothing is published early and nothing is forgotten.         *)
FactsAreApproved ==
    facts = {id \in Submitted : Suffices(candidates[id].material, ReviewsOf(id))}

(* A manifest that may claim production approval speaks of decided          *)
(* candidates only: behind each stands a verdict of somebody who did not    *)
(* submit it, and each of status APPROVED is a published fact.              *)
ClaimRestsOnVerdicts ==
    ClaimAllowed =>
        \A id \in Submitted :
            /\ \E i \in DOMAIN ReviewsOf(id) :
                   /\ ReviewsOf(id)[i].decision = candidates[id].status
                   /\ ReviewsOf(id)[i].who # candidates[id].by
            /\ candidates[id].status = "APPROVED" => id \in facts

(* A list of reviews as the promise sees it: who approved, and in which role. *)
Approving(reviews) ==
    {<<reviews[i].who, reviews[i].role>> :
        i \in {j \in DOMAIN reviews : reviews[j].decision = "APPROVED"}}

Proposals == [id \in CandidateId |->
    IF id \in Submitted THEN {<<candidates[id].by, candidates[id].material>>} ELSE {}]

Approvals == [id \in CandidateId |->
    IF id \in Submitted THEN Approving(ReviewsOf(id)) ELSE {}]

(* Facts are published as FactPublication promises. *)
Publication == INSTANCE FactPublication WITH
    Fact <- CandidateId,
    Role <- RequiredRole,
    Kind <- BOOLEAN,
    Needs <- RolesSuffice,
    proposal <- Proposals,
    approvals <- Approvals,
    published <- facts

PublishesAsPromised == Publication!Spec

-----------------------------------------------------------------------------
(* "A rejection terminates approval": a candidate that was rejected is not  *)
(* published afterwards.                                                    *)
RejectionTerminatesApproval ==
    [][\A id \in Submitted :
          candidates[id].status = "REJECTED" => id \notin facts' \ facts]_vars
=============================================================================
