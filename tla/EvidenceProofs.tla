--------------------------- MODULE EvidenceProofs ---------------------------
(***************************************************************************)
(* What TLAPS proves of the evidence registry, for every set of people and *)
(* submissions: its types, that a fact is published exactly when its       *)
(* candidate has the approvals it needs, and that the registry implements   *)
(* FactPublication.                                                         *)
(***************************************************************************)
EXTENDS EvidenceRegistry, TLAPS

(* An approval adds its role to the roles that approve; a rejection none.   *)
LEMMA RolesAfter ==
    ASSUME NEW reviews \in Seq(Verdict), NEW review \in Verdict
    PROVE  ApprovingRoles(Append(reviews, review)) =
               ApprovingRoles(reviews)
                   \cup (IF review.decision = "APPROVED" THEN {review.role} ELSE {})
<1> DEFINE longer == Append(reviews, review)
<1>1. /\ DOMAIN longer = DOMAIN reviews \cup {Len(reviews) + 1}
      /\ Len(reviews) + 1 \notin DOMAIN reviews
      /\ longer[Len(reviews) + 1] = review
      /\ \A i \in DOMAIN reviews : longer[i] = reviews[i]
  OBVIOUS
<1> HIDE DEF longer
<1>2. ApprovingRoles(longer) =
          ApprovingRoles(reviews)
              \cup (IF review.decision = "APPROVED" THEN {review.role} ELSE {})
  BY <1>1 DEF ApprovingRoles
<1> QED
  BY <1>2 DEF longer

(* More approvals never suffice less. *)
LEMMA RolesMonotone ==
    ASSUME NEW material \in BOOLEAN, NEW few, NEW many, few \subseteq many,
           RolesSuffice(material, few)
    PROVE  RolesSuffice(material, many)
BY DEF RolesSuffice

(* Nothing suffices without a review. *)
LEMMA NoReviewsNoFact ==
    ASSUME NEW material \in BOOLEAN
    PROVE  ~Suffices(material, <<>>)
BY DEF Suffices, RolesSuffice, ApprovingRoles, RequiredRole

(* A candidate after a review, as one record. *)
LEMMA ReviewedState ==
    ASSUME NEW state \in CandidateState, NEW review \in Verdict
    PROVE  /\ AfterReview(state, review) \in CandidateState
           /\ AfterReview(state, review).by = state.by
           /\ AfterReview(state, review).material = state.material
           /\ AfterReview(state, review).reviews = Append(state.reviews, review)
<1> DEFINE reviews == Append(state.reviews, review)
           status == IF review.decision = "REJECTED" THEN "REJECTED"
                       ELSE IF Suffices(state.material, reviews) THEN "APPROVED"
                       ELSE state.status
           reviewed == [state EXCEPT !.reviews = reviews]
<1>1. reviews \in Seq(Verdict)
  BY DEF CandidateState
<1>2. status \in {"PENDING_REVIEW", "APPROVED", "REJECTED"}
  BY DEF CandidateState
<1>3. AfterReview(state, review) = [state EXCEPT !.reviews = reviews, !.status = status]
  BY DEF AfterReview
<1> HIDE DEF reviews, status
<1>4. /\ reviewed = [by |-> state.by, material |-> state.material,
                     reviews |-> reviews, status |-> state.status]
      /\ [state EXCEPT !.reviews = reviews, !.status = status] = [reviewed EXCEPT !.status = status]
  BY DEF CandidateState
<1> HIDE DEF reviewed
<1>5. AfterReview(state, review) =
          [by |-> state.by, material |-> state.material, reviews |-> reviews, status |-> status]
  BY <1>3, <1>4
<1>6. state.by \in Person /\ state.material \in BOOLEAN
  BY DEF CandidateState
<1> QED
  BY <1>1, <1>2, <1>5, <1>6 DEF CandidateState, reviews

(* What submit puts on file. *)
NewCandidate(who, s) ==
    [by |-> who, material |-> s.material, reviews |-> <<>>, status |-> "PENDING_REVIEW"]

LEMMA Submits ==
    ASSUME TypeOK, NEW who \in Person, NEW s \in Submission, Submit(who, s)
    PROVE  /\ s.id \in CandidateId /\ s.material \in BOOLEAN /\ s.id \notin Submitted \cup facts
           /\ NewCandidate(who, s) \in CandidateState
           /\ candidates' = [candidates EXCEPT ![s.id] = NewCandidate(who, s)]
           /\ Submitted' = Submitted \cup {s.id}
           /\ UNCHANGED facts
<1>1. s.id \in CandidateId /\ s.material \in BOOLEAN /\ s.id \notin Submitted \cup facts
  BY EvidenceAssumption DEF CandidateId, Submit
<1>2. NewCandidate(who, s) \in CandidateState
  BY <1>1 DEF NewCandidate, CandidateState
<1>3. candidates' = [candidates EXCEPT ![s.id] = NewCandidate(who, s)] /\ UNCHANGED facts
  BY DEF Submit, NewCandidate
<1>4. NewCandidate(who, s) # NoCandidate
  BY <1>2, EvidenceAssumption
<1>5. Submitted' = Submitted \cup {s.id}
  BY <1>1, <1>3, <1>4 DEF Submitted, TypeOK
<1> QED
  BY <1>1, <1>2, <1>3, <1>5

(* What a review changes: one candidate, by one review more. *)
LEMMA Reviews ==
    ASSUME TypeOK, NEW id \in CandidateId, NEW review \in Review, ReviewCandidate(id, review)
    PROVE  /\ review \in Verdict /\ id \in Submitted /\ candidates[id] \in CandidateState
           /\ candidates' = [candidates EXCEPT ![id] = AfterReview(candidates[id], review)]
           /\ candidates'[id] \in CandidateState
           /\ candidates'[id].by = candidates[id].by
           /\ candidates'[id].material = candidates[id].material
           /\ candidates'[id].reviews = Append(candidates[id].reviews, review)
           /\ Submitted' = Submitted
<1>1. review \in Verdict
  BY DEF ReviewCandidate, MayReview, Verdict, Review
<1>2. id \in Submitted /\ candidates[id] \in CandidateState
  BY DEF ReviewCandidate, TypeOK
<1>3. candidates' = [candidates EXCEPT ![id] = AfterReview(candidates[id], review)]
  BY DEF ReviewCandidate
<1>4. candidates'[id] = AfterReview(candidates[id], review)
  BY <1>3 DEF TypeOK
<1>5. /\ candidates'[id] \in CandidateState
      /\ candidates'[id].by = candidates[id].by
      /\ candidates'[id].material = candidates[id].material
      /\ candidates'[id].reviews = Append(candidates[id].reviews, review)
  BY <1>1, <1>2, <1>4, ReviewedState
<1>6. candidates'[id] # NoCandidate
  BY <1>5, EvidenceAssumption
<1>7. Submitted' = Submitted
  BY <1>2, <1>3, <1>6 DEF Submitted, TypeOK
<1> QED
  BY <1>1, <1>2, <1>3, <1>5, <1>7

LEMMA EvidenceTyped ==
    ASSUME TypeOK, [Next]_vars
    PROVE  TypeOK'
<1>1. CASE UNCHANGED vars
  BY <1>1 DEF vars, TypeOK, Submitted
<1>2. ASSUME NEW who \in Person, NEW s \in Submission, Submit(who, s)
      PROVE  TypeOK'
  BY <1>2, Submits DEF TypeOK, Submitted
<1>3. ASSUME NEW id \in CandidateId, NEW review \in Review, ReviewCandidate(id, review)
      PROVE  TypeOK'
  <2>1. facts' \subseteq Submitted'
    BY <1>3, Reviews DEF ReviewCandidate, TypeOK
  <2> QED
    BY <1>3, <2>1, Reviews DEF TypeOK, Submitted
<1> QED
  BY <1>1, <1>2, <1>3 DEF Next

(* After a review the approvals suffice if they did before, or if it is an  *)
(* approval that completes them.                                            *)
LEMMA SufficesAfter ==
    ASSUME NEW material \in BOOLEAN, NEW reviews \in Seq(Verdict), NEW review \in Verdict
    PROVE  /\ Suffices(material, reviews) => Suffices(material, Append(reviews, review))
           /\ Suffices(material, Append(reviews, review)) =>
                  Suffices(material, reviews) \/ review.decision = "APPROVED"
<1> DEFINE before == ApprovingRoles(reviews)
           after == ApprovingRoles(Append(reviews, review))
<1>1. after = before \cup (IF review.decision = "APPROVED" THEN {review.role} ELSE {})
  BY RolesAfter
<1> HIDE DEF before, after
<1>2. RolesSuffice(material, before) => RolesSuffice(material, after)
  BY <1>1, RolesMonotone
<1>3. review.decision # "APPROVED" => after = before
  BY <1>1
<1> QED
  BY <1>2, <1>3 DEF Suffices, before, after

-----------------------------------------------------------------------------
(* Four eyes, a verdict behind every decision and approvals behind every    *)
(* approval: what ClaimRestsOnVerdicts needs to be inductive.               *)
Founded(candidate) ==
    /\ \A i \in DOMAIN candidate.reviews : candidate.reviews[i].who # candidate.by
    /\ candidate.status # "PENDING_REVIEW" =>
           \E i \in DOMAIN candidate.reviews : candidate.reviews[i].decision = candidate.status
    /\ candidate.status = "APPROVED" => Suffices(candidate.material, candidate.reviews)

LEMMA ReviewFounded ==
    ASSUME NEW state \in CandidateState, NEW review \in Verdict,
           Founded(state), review.who # state.by
    PROVE  Founded(AfterReview(state, review))
<1> DEFINE after == AfterReview(state, review)
           longer == Append(state.reviews, review)
<1>0. state.reviews \in Seq(Verdict) /\ state.material \in BOOLEAN
  BY DEF CandidateState
<1>1. /\ after.by = state.by /\ after.material = state.material /\ after.reviews = longer
      /\ after \in CandidateState
  BY ReviewedState
<1>2. after.status = IF review.decision = "REJECTED" THEN "REJECTED"
                       ELSE IF Suffices(state.material, longer) THEN "APPROVED"
                       ELSE state.status
  BY DEF AfterReview, CandidateState
<1>3. /\ DOMAIN longer = DOMAIN state.reviews \cup {Len(state.reviews) + 1}
      /\ longer[Len(state.reviews) + 1] = review
      /\ \A i \in DOMAIN state.reviews : longer[i] = state.reviews[i]
  BY <1>0
<1>4. review.decision \in {"APPROVED", "REJECTED"}
  BY DEF Verdict
<1>5. /\ Suffices(state.material, state.reviews) => Suffices(state.material, longer)
      /\ Suffices(state.material, longer) =>
             Suffices(state.material, state.reviews) \/ review.decision = "APPROVED"
  BY <1>0, SufficesAfter
<1> SUFFICES Founded(after)
  OBVIOUS
<1> HIDE DEF after, longer
<1>6. \A i \in DOMAIN after.reviews : after.reviews[i].who # after.by
  BY <1>1, <1>3 DEF Founded
<1>7. \E i \in DOMAIN after.reviews : after.reviews[i].decision = review.decision
  BY <1>1, <1>3
<1>8. CASE review.decision = "REJECTED"
  <2>1. after.status = "REJECTED"
    BY <1>2, <1>8
  <2> QED
    BY <1>6, <1>8, <1>7, <2>1 DEF Founded
<1>9. CASE review.decision = "APPROVED" /\ Suffices(state.material, longer)
  <2>1. after.status = "APPROVED" /\ Suffices(after.material, after.reviews)
    BY <1>1, <1>2, <1>9
  <2> QED
    BY <1>6, <1>9, <1>7, <2>1 DEF Founded
<1>10. CASE review.decision = "APPROVED" /\ ~Suffices(state.material, longer)
  <2>1. after.status = state.status /\ state.status # "APPROVED"
    BY <1>2, <1>5, <1>10 DEF Founded
  <2>2. after.status # "PENDING_REVIEW" =>
            \E i \in DOMAIN after.reviews : after.reviews[i].decision = after.status
    BY <1>1, <1>3, <2>1 DEF Founded
  <2> QED
    BY <1>6, <2>1, <2>2 DEF Founded
<1> QED
  BY <1>4, <1>8, <1>9, <1>10

(* The same of StatusTellsLastVerdict, for one candidate.                   *)
SettlingIn(candidate) ==
    {i \in DOMAIN candidate.reviews :
        \/ candidate.reviews[i].decision = "REJECTED"
        \/ Suffices(candidate.material, SubSeq(candidate.reviews, 1, i))}

Told(candidate) ==
    \/ SettlingIn(candidate) = {} /\ candidate.status = "PENDING_REVIEW"
    \/ \E last \in SettlingIn(candidate) :
           /\ \A i \in SettlingIn(candidate) : i <= last
           /\ candidate.status = candidate.reviews[last].decision

(* A review settles nothing that was not settled, but perhaps itself.       *)
LEMMA ReviewTold ==
    ASSUME NEW state \in CandidateState, NEW review \in Verdict, Told(state)
    PROVE  Told(AfterReview(state, review))
<1> DEFINE after == AfterReview(state, review)
           reviews == state.reviews
           longer == Append(reviews, review)
           next == Len(reviews) + 1
           settles == review.decision = "REJECTED" \/ Suffices(state.material, longer)
<1>1. /\ after.material = state.material /\ after.reviews = longer
      /\ reviews \in Seq(Verdict)
  BY ReviewedState DEF CandidateState
<1>2. after.status = IF review.decision = "REJECTED" THEN "REJECTED"
                     ELSE IF Suffices(state.material, longer) THEN "APPROVED"
                     ELSE state.status
  BY DEF AfterReview, CandidateState
<1>3. /\ DOMAIN reviews = 1 .. Len(reviews) /\ Len(reviews) \in Nat
      /\ DOMAIN longer = DOMAIN reviews \cup {next}
      /\ next \notin DOMAIN reviews
      /\ longer[next] = review
      /\ \A i \in DOMAIN reviews : longer[i] = reviews[i]
  BY <1>1
<1>4. SubSeq(longer, 1, next) = longer
  BY <1>1
<1>5. \A i \in DOMAIN reviews : SubSeq(longer, 1, i) = SubSeq(reviews, 1, i)
  BY <1>1
<1>6. review.decision \in {"APPROVED", "REJECTED"}
  BY DEF Verdict
<1> SUFFICES Told(after)
  OBVIOUS
<1> HIDE DEF after, longer
<1>7. SettlingIn(after) = SettlingIn(state) \cup (IF settles THEN {next} ELSE {})
  BY <1>1, <1>3, <1>4, <1>5 DEF SettlingIn
<1>8. SettlingIn(state) \subseteq 1 .. Len(reviews)
  BY <1>3 DEF SettlingIn
<1>9. CASE settles
  <2>1. next \in SettlingIn(after) /\ \A i \in SettlingIn(after) : i <= next
    BY <1>3, <1>7, <1>8, <1>9
  <2>2. after.status = after.reviews[next].decision
    BY <1>1, <1>2, <1>3, <1>6, <1>9
  <2> QED
    BY <2>1, <2>2 DEF Told
<1>10. CASE ~settles
  <2>1. SettlingIn(after) = SettlingIn(state) /\ after.status = state.status
    BY <1>2, <1>7, <1>10
  <2>2. \A i \in SettlingIn(state) : after.reviews[i] = state.reviews[i]
    BY <1>1, <1>3, <1>8
  <2> QED
    BY <2>1, <2>2 DEF Told
<1> QED
  BY <1>9, <1>10

AllSettled == \A id \in Submitted : Founded(candidates[id]) /\ Told(candidates[id])

EvidenceInv == TypeOK /\ FactsAreApproved /\ AllSettled

LEMMA EvidenceStep ==
    ASSUME EvidenceInv, [Next]_vars
    PROVE  EvidenceInv'
<1>0. TypeOK /\ TypeOK'
  BY EvidenceTyped DEF EvidenceInv
<1>1. CASE UNCHANGED vars
  BY <1>0, <1>1 DEF vars, EvidenceInv, FactsAreApproved, AllSettled, Submitted, ReviewsOf
<1>2. ASSUME NEW who \in Person, NEW s \in Submission, Submit(who, s)
      PROVE  EvidenceInv'
  <2>1. /\ s.id \in CandidateId /\ s.material \in BOOLEAN /\ s.id \notin Submitted \cup facts
        /\ candidates' = [candidates EXCEPT ![s.id] = NewCandidate(who, s)]
        /\ Submitted' = Submitted \cup {s.id}
        /\ UNCHANGED facts
    BY <1>0, <1>2, Submits
  <2>2. /\ candidates'[s.id] = NewCandidate(who, s)
        /\ \A id \in Submitted : candidates'[id] = candidates[id]
    BY <1>0, <2>1 DEF TypeOK
  <2>3. ~Suffices(candidates'[s.id].material, candidates'[s.id].reviews)
    BY <2>1, <2>2, NoReviewsNoFact DEF NewCandidate
  <2>4. FactsAreApproved'
    BY <2>1, <2>2, <2>3 DEF EvidenceInv, FactsAreApproved, ReviewsOf
  <2>5. AllSettled'
    BY <2>1, <2>2 DEF EvidenceInv, AllSettled, Founded, Told, SettlingIn, NewCandidate
  <2> QED
    BY <1>0, <2>4, <2>5 DEF EvidenceInv
<1>3. ASSUME NEW id \in CandidateId, NEW review \in Review, ReviewCandidate(id, review)
      PROVE  EvidenceInv'
  <2> DEFINE longer == Append(candidates[id].reviews, review)
  <2>1. /\ review \in Verdict /\ id \in Submitted /\ candidates[id] \in CandidateState
        /\ candidates' = [candidates EXCEPT ![id] = AfterReview(candidates[id], review)]
        /\ candidates'[id].material = candidates[id].material
        /\ candidates'[id].reviews = longer
        /\ Submitted' = Submitted
    BY <1>0, <1>3, Reviews
  <2>2. /\ candidates'[id] = AfterReview(candidates[id], review)
        /\ \A other \in Submitted \ {id} : candidates'[other] = candidates[other]
    BY <1>0, <2>1 DEF TypeOK
  <2>3. /\ Suffices(candidates[id].material, candidates[id].reviews)
               => Suffices(candidates[id].material, longer)
        /\ Suffices(candidates[id].material, longer) =>
               \/ Suffices(candidates[id].material, candidates[id].reviews)
               \/ review.decision = "APPROVED"
    BY <2>1, SufficesAfter DEF CandidateState
  <2>4. facts' = IF review.decision = "APPROVED" /\ Suffices(candidates[id].material, longer)
                   THEN facts \cup {id} ELSE facts
    BY <1>3 DEF ReviewCandidate
  <2> HIDE DEF longer
  <2>5. FactsAreApproved'
    BY <2>1, <2>2, <2>3, <2>4 DEF EvidenceInv, FactsAreApproved, ReviewsOf
  <2>6. Founded(candidates'[id]) /\ Told(candidates'[id])
    BY <1>3, <2>1, <2>2, ReviewFounded, ReviewTold DEF EvidenceInv, AllSettled, ReviewCandidate, MayReview
  <2>7. AllSettled'
    BY <2>1, <2>2, <2>6 DEF EvidenceInv, AllSettled
  <2> QED
    BY <1>0, <2>5, <2>7 DEF EvidenceInv
<1> QED
  BY <1>1, <1>2, <1>3 DEF Next

LEMMA EvidenceBegins == Init => EvidenceInv
BY EvidenceAssumption DEF Init, EvidenceInv, TypeOK, FactsAreApproved, AllSettled, Submitted

(* The registry keeps its types: who was allowed to review is who reviewed. *)
THEOREM RegistryTyped == Spec => []TypeOK
BY EvidenceBegins, EvidenceStep, PTL DEF Spec, EvidenceInv

(* Exactly the candidates with the approvals they need are published, in    *)
(* whatever order reviews and rejections come.                              *)
THEOREM FactsApproved == Spec => []FactsAreApproved
BY EvidenceBegins, EvidenceStep, PTL DEF Spec, EvidenceInv

(* A production approval claim rests on verdicts of others than the         *)
(* submitter, and on published facts where it says approved.                *)
THEOREM ClaimsRest == Spec => []ClaimRestsOnVerdicts
<1>1. EvidenceInv => ClaimRestsOnVerdicts
  <2> SUFFICES ASSUME EvidenceInv, ClaimAllowed, NEW id \in Submitted
               PROVE  /\ \E i \in DOMAIN ReviewsOf(id) :
                             /\ ReviewsOf(id)[i].decision = candidates[id].status
                             /\ ReviewsOf(id)[i].who # candidates[id].by
                      /\ candidates[id].status = "APPROVED" => id \in facts
    BY DEF ClaimRestsOnVerdicts
  <2>1. candidates[id].status # "PENDING_REVIEW"
    BY DEF ClaimAllowed
  <2> QED
    BY <2>1 DEF EvidenceInv, AllSettled, Founded, FactsAreApproved, ReviewsOf
<1> QED
  BY <1>1, EvidenceBegins, EvidenceStep, PTL DEF Spec

(* Rejections and approvals in any order leave each candidate with the      *)
(* status its last settling review gave it.                                 *)
THEOREM StatusTold == Spec => []StatusTellsLastVerdict
<1>1. EvidenceInv => StatusTellsLastVerdict
  BY DEF EvidenceInv, AllSettled, Told, SettlingIn, StatusTellsLastVerdict, Settling, ReviewsOf
<1> QED
  BY <1>1, EvidenceBegins, EvidenceStep, PTL DEF Spec

-----------------------------------------------------------------------------
(* The refinement: one review more is one approval more, or none.           *)
LEMMA ApprovingAfter ==
    ASSUME NEW reviews \in Seq(Verdict), NEW review \in Verdict
    PROVE  /\ Approving(Append(reviews, review)) =
                  Approving(reviews)
                      \cup (IF review.decision = "APPROVED" THEN {<<review.who, review.role>>} ELSE {})
           /\ \A pair \in Approving(reviews) : \E i \in DOMAIN reviews : pair[1] = reviews[i].who
           /\ Publication!RolesOf(Approving(reviews)) = ApprovingRoles(reviews)
<1> DEFINE longer == Append(reviews, review)
<1>1. /\ DOMAIN longer = DOMAIN reviews \cup {Len(reviews) + 1}
      /\ Len(reviews) + 1 \notin DOMAIN reviews
      /\ longer[Len(reviews) + 1] = review
      /\ \A i \in DOMAIN reviews : longer[i] = reviews[i]
  OBVIOUS
<1> HIDE DEF longer
<1>2. Approving(longer) =
          Approving(reviews)
              \cup (IF review.decision = "APPROVED" THEN {<<review.who, review.role>>} ELSE {})
  BY <1>1 DEF Approving
<1>3. \A pair \in Approving(reviews) : \E i \in DOMAIN reviews : pair[1] = reviews[i].who
  BY DEF Approving
<1>4. Publication!RolesOf(Approving(reviews)) = ApprovingRoles(reviews)
  <2>1. ASSUME NEW role \in Publication!RolesOf(Approving(reviews)) PROVE role \in ApprovingRoles(reviews)
    BY <2>1 DEF Approving, ApprovingRoles, Publication!RolesOf
  <2>2. ASSUME NEW role \in ApprovingRoles(reviews) PROVE role \in Publication!RolesOf(Approving(reviews))
    <3>1. PICK i \in DOMAIN reviews : reviews[i].decision = "APPROVED" /\ reviews[i].role = role
      BY <2>2 DEF ApprovingRoles
    <3>2. <<reviews[i].who, reviews[i].role>> \in Approving(reviews)
      BY <3>1 DEF Approving
    <3> QED
      BY <3>1, <3>2 DEF Publication!RolesOf
  <2> QED
    BY <2>1, <2>2
<1> QED
  BY <1>2, <1>3, <1>4 DEF longer

(* Submitting proposes the fact, an approval approves it, and a rejection   *)
(* is nothing the promise speaks of.                                        *)
LEMMA StepPublishesAsPromised ==
    ASSUME EvidenceInv, [Next]_vars
    PROVE  [Publication!Next]_(Publication!vars)
<1>0. TypeOK
  BY DEF EvidenceInv
<1>1. CASE UNCHANGED vars
  BY <1>1 DEF vars, Publication!vars, Proposals, Approvals, Submitted, ReviewsOf
<1>2. ASSUME NEW who \in Person, NEW s \in Submission, Submit(who, s)
      PROVE  Publication!Next
  <2>1. /\ s.id \in CandidateId /\ s.material \in BOOLEAN /\ s.id \notin Submitted
        /\ candidates' = [candidates EXCEPT ![s.id] = NewCandidate(who, s)]
        /\ Submitted' = Submitted \cup {s.id}
        /\ UNCHANGED facts
    BY <1>0, <1>2, Submits
  <2>2. /\ candidates'[s.id] = NewCandidate(who, s)
        /\ \A id \in Submitted : candidates'[id] = candidates[id]
    BY <1>0, <2>1 DEF TypeOK
  <2>3. Proposals[s.id] = {}
    BY <2>1 DEF Proposals
  <2>4. Proposals' = [Proposals EXCEPT ![s.id] = {<<who, s.material>>}]
    <3>1. Proposals'[s.id] = {<<who, s.material>>}
      BY <2>1, <2>2 DEF NewCandidate, Proposals
    <3>2. ASSUME NEW id \in CandidateId, id # s.id
          PROVE  Proposals'[id] = Proposals[id]
      BY <2>1, <2>2, <3>2 DEF Proposals
    <3>3. /\ Proposals = [id \in CandidateId |-> Proposals[id]]
          /\ Proposals' = [id \in CandidateId |-> Proposals'[id]]
      BY DEF Proposals
    <3> QED
      BY <2>1, <3>1, <3>2, <3>3
  <2>5. Approvals' = Approvals
    <3>1. Approvals'[s.id] = {} /\ Approvals[s.id] = {}
      BY <2>1, <2>2 DEF NewCandidate, ReviewsOf, Approvals, Approving
    <3>2. ASSUME NEW id \in CandidateId, id # s.id
          PROVE  Approvals'[id] = Approvals[id]
      BY <2>1, <2>2, <3>2 DEF ReviewsOf, Approvals
    <3>3. /\ Approvals = [id \in CandidateId |-> Approvals[id]]
          /\ Approvals' = [id \in CandidateId |-> Approvals'[id]]
      BY DEF Approvals
    <3> QED
      BY <3>1, <3>2, <3>3
  <2>6. Publication!Propose(s.id, who, s.material)
    BY <2>1, <2>3, <2>4, <2>5 DEF Publication!Propose
  <2> QED
    BY <2>1, <2>6 DEF Publication!Next
<1>3. ASSUME NEW id \in CandidateId, NEW review \in Review, ReviewCandidate(id, review)
      PROVE  [Publication!Next]_(Publication!vars)
  <2> DEFINE reviews == candidates[id].reviews
             longer == Append(candidates[id].reviews, review)
  <2>1. /\ review \in Verdict /\ id \in Submitted /\ candidates[id] \in CandidateState
        /\ candidates' = [candidates EXCEPT ![id] = AfterReview(candidates[id], review)]
        /\ candidates'[id].by = candidates[id].by
        /\ candidates'[id].material = candidates[id].material
        /\ candidates'[id].reviews = longer
        /\ Submitted' = Submitted
    BY <1>0, <1>3, Reviews
  <2>2. \A other \in Submitted \ {id} : candidates'[other] = candidates[other]
    BY <1>0, <2>1 DEF TypeOK
  <2>3. reviews \in Seq(Verdict) /\ longer \in Seq(Verdict)
    BY <2>1 DEF CandidateState
  <2>4. Proposals' = Proposals /\ Proposals[id] = {<<candidates[id].by, candidates[id].material>>}
    BY <2>1, <2>2 DEF Proposals
  <2>5. /\ Approving(longer) = Approving(reviews)
               \cup (IF review.decision = "APPROVED" THEN {<<review.who, review.role>>} ELSE {})
        /\ \A pair \in Approving(reviews) : \E i \in DOMAIN reviews : pair[1] = reviews[i].who
    BY <2>1, <2>3, ApprovingAfter
  <2>6. Publication!RolesOf(Approving(longer)) = ApprovingRoles(longer)
    BY <2>1, <2>3, ApprovingAfter
  <2>7. /\ Approvals[id] = Approving(reviews) /\ Approvals'[id] = Approving(longer)
        /\ Approvals' = [Approvals EXCEPT ![id] = Approving(longer)]
    <3>1. Approvals[id] = Approving(reviews) /\ Approvals'[id] = Approving(longer)
      BY <2>1 DEF Approvals, ReviewsOf
    <3>2. ASSUME NEW other \in CandidateId, other # id
          PROVE  Approvals'[other] = Approvals[other]
      BY <2>1, <2>2, <3>2 DEF Approvals, ReviewsOf
    <3>3. /\ Approvals = [each \in CandidateId |-> Approvals[each]]
          /\ Approvals' = [each \in CandidateId |-> Approvals'[each]]
      BY DEF Approvals
    <3> QED
      BY <3>1, <3>2, <3>3
  <2>8. facts' = IF review.decision = "APPROVED"
                      /\ RolesSuffice(candidates[id].material, ApprovingRoles(longer))
                   THEN facts \cup {id} ELSE facts
    BY <1>3 DEF ReviewCandidate, Suffices
  <2>9. review.who # candidates[id].by /\ \A i \in DOMAIN reviews : reviews[i].who # review.who
    BY <1>3 DEF ReviewCandidate, MayReview
  <2>10. review.who \in Person /\ review.role \in RequiredRole
    BY <2>1 DEF Verdict
  <2> HIDE DEF reviews, longer
  <2>11. CASE review.decision = "APPROVED"
    <3>1. Publication!Approve(id, review.who, review.role)
      BY <2>4, <2>5, <2>6, <2>7, <2>8, <2>9, <2>11 DEF Publication!Approve
    <3> QED
      BY <2>10, <3>1 DEF Publication!Next
  <2>12. CASE review.decision # "APPROVED"
    <3>1. Approvals' = Approvals
      BY <2>5, <2>7, <2>12
    <3> QED
      BY <2>4, <2>8, <2>12, <3>1 DEF Publication!vars
  <2> QED
    BY <2>11, <2>12
<1> QED
  BY <1>1, <1>2, <1>3 DEF Next

(* Facts are published as FactPublication promises, whatever is rejected.   *)
THEOREM RegistryKeepsPromise == Spec => PublishesAsPromised
<1>1. Init => Publication!Init
  BY DEF Init, Submitted, Publication!Init, Proposals, Approvals
<1>2. EvidenceInv /\ [Next]_vars => [Publication!Next]_(Publication!vars)
  BY StepPublishesAsPromised
<1> QED
  BY <1>1, <1>2, EvidenceBegins, EvidenceStep, PTL DEF Spec, PublishesAsPromised, Publication!Spec
=============================================================================
