# A TLA+ verification of the Corporate Wallet Digital Twin

The repository grew in layers: a statistical pipeline (`wallet_twin`), a service
with evidence registry, entitlements and GenAI gateway (`wallet_twin_v2`), two
generations of decision models (`wallet_twin_v3`, `wallet_twin_v31`), and the
*promotion twin* (`wallet_twin_v32`), which decides how far the whole system has
been promoted towards use at a bank. The promotion twin is the part with state,
rules and a promise ("can never promote the system", "a rehearsal confers no bank
authority"), so it was modelled first and is proved about most. The stateful parts
of V2 and the decision logic of V3.1 follow. Paths below are relative to
`src/src/wallet_twin_v32/` unless they say otherwise.

## 1. Inventory

| Component | State | Operations | Talks to | Hard part | What makes it correct |
|---|---|---|---|---|---|
| Modes and tracks (`modes.py`) | none | `admits_track`, `satisfies_minimum`, `bank_evidence_weight` | contracts, scoring | two tracks in one data type | synthetic evidence never counts for the bank |
| Policy: `states.py`, `scoring.py`, `engine.py` | none, recomputed on each read | `evaluate_promotion` and what it calls | repository | out-of-order and tied results, latest approval, walk that stops at a gap | positions are earned, failures demote, late results change nothing |
| `PromotionRepository` (`repository.py`) | evaluations (list), approvals (by id), evidence and envelopes (by id), event store; one re-entrant lock for writes | `record_evaluation`, `record_approval`, `register_evidence`, `sign_evidence`, `decision` | engine, events, signer | lock-free reads, approvals bound to an earlier read, ids reused | fixture isolation, four eyes, rejections stand, one event per key |
| Event store (`events.py`) | list, and the first event per key | `append`, `list` | repository | deduplicates while the state does not | tells the first write of every key |
| API (`api.py`) | three module dictionaries without a lock | eight POST routes, twelve GET routes | repository | threads, retries, check-then-act cache, two-step evidence | a retry of an answered key writes nothing; nothing half done stays |
| Rehearsal (`rehearsal.py`) | `VirtualClock` of a run | `run_day`, `canonical_rehearsal`, `run_negative_scenarios` | repository (`clock()`) | streak counting | the streak is unbroken; the run ends on the days required |
| Contracts (`contracts.py`) | none | validators | all | what they let through | every value on record passed its validator |
| Catalogue (`catalogue.py`, tables of `states.py`) | none: 30 gates, 4 transitions, 16 capabilities | - | engine | thresholds and prerequisites kept apart from the gates | nothing a fixture does meets them |
| Trust registry and signing (`trust.py`, `dsse.py`, `signers.py`) | keys by id, envelopes | `register`, `evaluate`, `sign_payload`, `verify_envelope`, `signed_decision` | repository | two times per key, constructor and `evaluate` share one rule | a rehearsal root confers nothing, lost trust stays lost |
| V2 `EvidenceRegistry` (`wallet_twin_v2/evidence.py`) | candidates, facts; a lock | submit, review, manifest | V2 API | several reviewers and roles, rejections in between | facts are published exactly when their approvals are complete |
| V2 `ProviderGateway` (`wallet_twin_v2/genai_gateway.py`) | breaker per provider, audit queue; no lock | `generate`, `status` | providers | a breaker whose two fields are written by many threads | it opens at the threshold; every request is answered |
| V2 `DualEntitlementGateway` (`wallet_twin_v2/opa_gateway.py`, `entitlements.py`, `infra/policy/client_entitlements.rego`) | divergences | `authorize` | OPA, in-process policy | one policy in two languages, OPA absent or wrong | fails closed; disagreements are the known ones |
| V2 `PilotStore` (`wallet_twin_v2/experiment_analysis.py`) | sessions, feedback; no lock | start, feedback, readiness | V2 API | count and complete on several threads, three walks for one answer | a session is complete exactly when its tasks are; an answer fits together |
| V3.1 `ClientAnswerWorkflow`, `V31EventStore` (`wallet_twin_v31/questions.py`, `events.py`, `api.py`) | answers, claims, events, keys; no lock | submit, approve, reject, attest | V3.1 API | reviews that write back a copy, three-step append | an approved answer has its claim; a retry adds no event; what is answered is found |
| V3.1 conversations (`wallet_twin_v31/problems.py`, `solutions.py`, `conversations.py`, `stakeholders.py`, `business_graph.py`, `timing.py`) | none, built per client | detectors, estimators, bundling, routing, graph, windows, gates | planning | fallback chains and tables maintained apart | bundles hold together, identified problems are not dropped for want of a chain, explanations follow the graph |
| V3.1 planning (`wallet_twin_v31/feasibility.py`, `coverage.py`) | attestations | gates, eligibility, `optimize`, projections | V3.1 API | solver failure, five limits counted twice | limits kept, nobody passed over without a reason |
| Laboratories, V1/V2/V3 models, V3.1 numerics, dashboard, database, scripts, infrastructure | - | - | - | numerical, I/O or generated | not modelled (section 6) |

How they interact. In V3.2 an API worker thread looks its `Idempotency-Key` up, calls a
repository method, which takes the lock, checks the track guard, changes its
dictionary or list and appends to the event store; the thread then remembers the
answer. Nothing stores a promotion position: `decision()` hands the live list of
evaluations and a copy of the approvals to `evaluate_promotion`. An approval must
name the digest of the decision its checker saw, and that digest was obtained in an
earlier request. In V2 the API guards each route with the entitlements, and the
registry, the gateway and the pilot store are objects all its threads share. In V3.1
a snapshot is built once: problems, solutions, conversations and the graph per client,
then one weekly plan over all conversations; answers and attestations arrive at the
API afterwards.

`PROJECT.json` lists every hazard at its line with the properties that watch it, and
those no property watches, with the reason.

## 2. Modules

| Module | Stands for |
|---|---|
| `EvidenceModes` | `modes.py` |
| `PromotionPolicy` | `evaluate_promotion` and all it calls, as operators on a list of evaluations and a book of approvals; the validator of `GateEvaluation` |
| `PromotionCatalogue` | the shipped gates, transitions and capability tables: values for the constants of `PromotionPolicy` |
| `PromotionRepository` | the repository as a state machine: seed, `RecordEvaluation`, `ReadDecision`, `RecordApproval` |
| `PromotionAuthority` | abstract: per track, which transitions are ready and which are approved, and what one evaluation or one review may move |
| `PromotionProperties` | the properties of the repository, and the refinement mapping to `PromotionAuthority` |
| `PromotionReaders` | the repository with a reader that takes no lock: `evaluate_promotion` split into its five passes over the live list |
| `PromotionRequests` | the API: threads, cache, evidence in two lock sections, rehearsals, incidents |
| `RehearsalClock` | `VirtualClock`, `run_day`, free runs of days and canonical rehearsals |
| `TrustRegistry` | keys with windows, domains and revocation, the registry, envelopes, the signed decision; extends `EvidenceModes` |
| `BreakerPromise`, `ProviderGateway` | abstract: what one circuit breaker promises; detailed: `generate` and `status` on threads |
| `FactPublication`, `EvidenceRegistry` | abstract: a fact is published when its reviewers have approved; detailed: candidates, reviews, manifest |
| `AccessPolicies`, `PolicyGateway` | the in-process policy and the Rego policy side by side; the gateway that asks both |
| `ClientAnswers` | answer and attestation routes, workflow and event store on threads |
| `PilotSessions` | the pilot routes and store on threads |
| `Feasibility` | the six gates, attestations and eligibility |
| `CoveragePlanning` | conversations, solver, greedy fallback, projection for a caller; extends `Feasibility` |
| `SolutionTaxonomy`, `BusinessProblems`, `ClientGraph`, `ConversationBuilding` | solutions and their relations; the eighteen detectors; nodes, edges, events and triggers; one turn of the builder's loop. Each extends the one before, the last also `Feasibility` |
| `PromotionProofs` | theorems about the repository and its readers (section 5) |
| `SigningProofs` | theorems about `TrustRegistry` and `PromotionRequests` |
| `DecisionTwinProofs` | theorems about `ClientAnswers`, `CoveragePlanning` and `ConversationBuilding` |
| `ClockProofs`, `ProviderProofs`, `EvidenceProofs`, `PilotProofs`, `PolicyProofs` | theorems about the module of the same name |
| `MCx` | the instance of x for TLC |

What a component is checked for stands at the end of its module (for the repository in
`PromotionProperties`), and after it what the documents say and the code does not do.
A definition whose comment begins with *Mutant* is not part of a specification. It
is the named neighbour with a plausible bug, and shows that a property can fail.

### From the code to the model: promotion

- A promotion state is its rank in `PROMOTION_ORDER`, a transition its target rank.
- An evaluation keeps gate, track, outcome, mode, whether it is backed by evidence
  ids, whether it names who waived it, the failure-injection flag and its time. Texts
  are left out. `at` is a natural number, since only the order of times matters.
- "Keep the entry unless the next one is at least as new" (`_evaluations_on`,
  `approved_transitions`) is `Newest`: the set with the last of the newest entries.
- A digest stands for the value it is the digest of. That includes what the code
  includes: the decision holds counts and names of transitions and neither the
  evaluations nor the evidence ids, which is what `ApprovalBindsEvidence` shows.
  `reason_codes` is a function of the fields kept. `as_of` is fixed, as it is in
  `decision()`.
- Both repository methods that write are one action each, under the lock. The
  events they append, and the deduplication, are in the same action.
- `ReadDecision` is atomic in `PromotionRepository` though the code reads without
  the lock. A torn decision matters there only through its digest, and
  `record_approval` recomputes the decision under the lock and refuses every digest
  that is not equal to it, so a torn read that is accepted is one that equals the
  current decision. `PromotionReaders` has the torn reads themselves.
- In `PromotionReaders` the approvals are copied once, first, and each pass sees the
  list as it is then. As the properties are about the real state and the capabilities,
  the passes for the rehearsal track, the missing gates and the scores only let time
  pass.
- `Ranked` places a conversation by how many of the selection come before it, which is
  what sorting by rank does. A bundle is grown by at most two steps of `Extended`, where
  the code has two loops over lists in the order of the catalogue: what a loop passes over
  cannot fit later, so each step may look for the first that fits. The owner of a problem
  and the other permitted roles, and what a caller is shown of a plan, are sets where their
  order tells nothing.
- A fixture repository is what `repository.py` instantiates. `fixture_mode=False` is
  a parameter of the constructor that nothing in the repository passes; it is
  modelled because the code is written for it.
- In `PromotionRequests` evaluations are kept as the requests that wrote them,
  because nothing in these routes depends on the position. Fixture mode is a variable
  that is chosen initially and never changes. A cached answer has no content the
  properties look at.
- Registration and signing write the event store in `PromotionRequests` and not in
  `PromotionRepository`: their keys (`registered:`, `signed:`) are disjoint from those
  of evaluations and approvals.
- `VirtualClock.history` has one record per day. Severity appears as the one thing
  it decides, whether the incident is a formal breakdown.

### From the code to the model: trust and signing

- A key never changes once it is registered: `register` refuses a known id, and nothing
  in the code sets `revoked_at` later. A revocation is therefore a time fixed in the key.
- A signature is its key and what it is over. `sign_payload` never consults the signer's
  `allowed_modes`, and neither does the model.
- The repository's own key is valid for a year, which is one tick of the model's clock.
- Nothing in the repository asks the registry anything: it is filled and published.
  `IssueDecision` is `signed_decision`, which verifies with its own signer.

### From the code to the model: V2

- Threads switch where CPython (3.12, see `Dockerfile`) may switch: between the reads and
  writes of shared attributes that a call separates, not inside one `append` or one
  dictionary assignment. In `ProviderGateway` these are the moments around
  `time.monotonic()`. A half-open breaker has no limit on how many calls it lets through.
- The provider is enabled: without one, `generate` touches nothing. It answers, fails, or
  answers something the claim compiler rejects. `status()`, which calls `allow()`, is only
  called on a gateway of its own (`fixtures.py:321`) and never meets the API's breakers.
- In `EvidenceRegistry` a review is one action under the lock, as is a submission.
  `reviewer_role` is a free string of the request, so anybody may claim a role.
- `PolicyGateway`: the answer of OPA is its policy's, a failure of any kind, or that of a
  policy edited between two requests. `DualEntitlementGateway` is used by
  `scripts/check_policy_agreement.py` and the tests; the API calls the in-process
  `EntitlementService`, without a client region (`wallet_twin_v2/api.py:51,104,564`).
- `PilotSessions`: sessions are kept in the order they are started, as the dictionary keeps
  them. The first walk of a readiness looks at one session per step, with the status it has
  by then; the iterator of the second is made in a step of its own, so a session started
  between the walks is counted, and one started during a walk makes it raise. Whether a
  session is real never changes, and feedback only grows, so the second walk and the third
  are one step at their end. The task of a feedback need not be one of the session's. Who may call is left out, and of the ratings only what is counted is
  kept. The gate counts sessions, not managers.

### From the code to the model: V3.1

- `ClientAnswers`: storing, looking up, appending and remembering are four steps of one
  request, and other threads run between them. Approving and rejecting are methods of the
  workflow that no route calls; each is two steps of a reviewer, who reads the answer
  (`questions.py:531`) and later writes back a copy of what was read with the verdict
  (`questions.py:589`), whatever is on file by then. One key is one the
  snapshot has used for an event of its own, as it does with question ids.
- `ConversationBuilding` is one turn of the loop in `build_v31_fixture`, for any client and
  any problem: turns share nothing they write. Of amounts it is kept whether they can be
  computed and whether they are zero, and which of the sizeable solutions has the largest
  is a free choice. Weights, values, dates and probabilities are left out; amounts are not
  negative.
- A disclosed amount of zero ends a fallback chain like any other (`FirstOf`). The rate
  exposure and most estimators then find nothing (`NonZero`, which also empties an input of
  an indicator that could not be past its threshold with it), the event layer finds a
  maturity all the same: it asks for `is not None`.
- Public claims have grade E1 and those of the bank E0, as the fixtures give them.
- In `ClientGraph` a node is its kind and its key. The shifts of the five flows are taken
  together by direction. Change points carry no claim, so they never trigger anything,
  and their urgency in `EVENT_URGENCY` is never used. The two nodes a path ends with
  (business impact and client value) are in no graph of a client: paths are compared
  with the graph up to them.
- With `OPERATIONAL_RESILIENCE` and a bundle that holds `COLLECTIONS` nobody responsible
  for the problem may be approached about every solution. The code then keeps the first
  owner for the banker to confirm, and `RoutedToAPermittedRole` allows that one case.
- `CoveragePlanning`: a utility is a rank, since only comparisons decide. The builder of the
  fixture passes no attestations, so all its conversations stay at discovery; the
  attestation endpoint only logs. The frontier for a client filters nothing.
  The Pareto display decides nothing and is left out.

## 3. Runs

| Run | Question | Instance | Bounds, and why they are enough |
|---|---|---|---|
| `fixture` | Can anything give a fixture bank authority? Are logs first-write, late results harmless, failures demoting, rejections lasting? | the shipped catalogue: 30 gates, 4 transitions, 16 capabilities | two evaluations after the seed: a failure and its repair, a late result, a tie, an unknown gate. Approvals are unbounded, the book has two ids. 7,585 states |
| `bank` | The repository with real-track writes and a lock-free reader: are positions earned, do verdicts agree, does it implement `PromotionAuthority`, what does one read publish? | 3 gates, 2 transitions, 3 approval ids, one reader | three evaluations: ready both transitions and fail again, too weak a mode, a result of the other track; one write overtakes a read, as `OneWriteNeverOvergrants` speaks of one. 150,132 states |
| `requests` | Retries, races and half-done requests | 2 threads, 2 keys, 1 evidence id, 9 requests, both modes | four requests: a retry, a race, a request in between, and one more. `SigningProofs` removes the bounds |
| `clock` | Is the streak a streak? Does the canonical run end right? | all seven negative scenarios; 31 plans with the default (17, 30) | free runs of four days: each day kind next to each other, twice. `ClockProofs` removes the bound |
| `provider` | Does the breaker open, keep its promise, and leave nobody waiting? | 3 threads, threshold 2, reset after 1 | clock to 2 (open, reset, open again), audit queue of 1 (its limit). 272 thousand states |
| `evidence` | Do statuses, facts and manifest agree, whatever the order of the reviews? | 4 people, a material and a plain fact | nothing is bounded: candidates and reviewers are finite. People are symmetric |
| `answers` | What may resubmission, overlapping reviews and overlapping appends do? | 2 threads, 2 reviewers, 1 answer, 2 keys (one used by the snapshot) | four requests: an answer, its replacement, a retry of each, and reviews of both. 1.8 million states; `DecisionTwinProofs` removes the bound |
| `policy` | Does the gateway fail closed; where do the two policies differ? | the 4,860 combinations of the repository's sweep and some 4,600 it does not try | one thread: requests share nothing but the list of divergences. `PolicyProofs` removes the bounds |
| `planning` | Are the limits kept, and is anybody passed over without a reason? | 6 conversations, capacity 3, limits 1 and 2, all attestations and ranks | each limit binds in some state, alone and with the others. 729 thousand states; `DecisionTwinProofs` has any number of conversations |
| `building` | Do bundles, routes, sizes and explanations hold together? | 30,816 clients in three families, all 18 problems | two families vary what is disclosed about funding, the second with some of it zero, the third what is seen in the flows: the inputs of different detectors. 1.8 million states; `DecisionTwinProofs` has every client |
| `trust` | Can a rehearsal root be trusted for the bank; does lost trust come back? | the repository's key and each kind of another key | clock to 3: before, within and after each window and revocation. `SigningProofs` removes the bounds |
| `pilot` | Is a session complete when its tasks are; does a readiness hold together? | 2 threads, 2 sessions, 2 tasks | gate at 2 instead of 5, three feedbacks: two tasks on two threads and one more. Threads and tasks are symmetric; sessions are not, since a walk takes them in order. 7.1 million states |

Deadlock is not checked in `requests`, `clock`, `evidence`, `answers`, `planning`,
`building` and `pilot`, where the system does stop: requests, days and feedback are
bounded, all reviews are in, the plan or the conversation is made.

What they show:

- `FixtureNeverAuthorises`: no order of evaluations, approvals and refused calls gives
  a fixture a real state, a bank-evidenced gate or a capability needing either.
- `PositionIsEarned`: for every transition up to the attained rank every blocking gate
  has a satisfying result *in force* from a mode its track admits, and the review in force
  is an approval by two people in two roles.
- `CapabilityVerdictsAgree`: the two functions that judge a capability never
  disagree, so the `or "REFUSED"` fallback of the engine is dead code.
- `LateResultsChangeNothing`, `FailureDemotes`: ordering by evaluation time is
  respected in both directions. `RejectionStands`: a replayed older approval does not lift
  a rejection; only a review that is not older, or one filed under the rejection's own
  id, does. `LogTellsFirstWrite`: the log answers for the first write of each key, while
  the position follows the last.
- `RehearsalEvaluationsLeaveRealAlone`: recording a rehearsal result changes nothing
  the decision says about the bank. (For approvals this is false, see below.)
- `ImplementsAuthority`: each step moves the readiness of one transition of one track,
  or the approval of one and of the one it displaces.
- `OneWriteNeverOvergrants`: a read overtaken by one write is never wrong about a
  capability. Two writes are enough to make it wrong, see below.
- `OneEventEach`, `LateRetryWritesNothing`: the API under concurrency. `EvidenceIsSigned` and `EnvelopeSignsEvidence` hold in a fixture only:
  without fixture mode `POST /evidence` registers bank evidence, fails to sign it, and leaves
  it without an envelope or beside the envelope of what it replaced.
- `StreakIsUnbroken`, `CanonicalOutcome`: any bad day ends the streak, and the canonical run
  has exactly the days required.
- `TripsAtThreshold`: although counting, reading the clock and opening are separate steps
  without a lock, no interleaving leaves the count at the threshold, the breaker closed and
  nobody about to open it. `KeepsBreakerPromise`: no call begins while the window runs, and
  before its end only the success of a call already in flight closes the breaker
  (`BreakerPromise`). `RequestsAnswered`: with a narrative or with an error.
- `StatusTellsLastVerdict`, `FactsAreApproved`, `ClaimRestsOnVerdicts`: the three records of
  one review agree; `PublishesAsPromised`: what the registry publishes is what
  `FactPublication` allows.
- `ApprovedAnswersAreClaims`: a resubmission between the read and the write of a review, or a
  second reviewer, never leaves an approved answer without its claim (it does lose the
  resubmission, see below). `RetriesAddNoEvent`: two events of one key need overlapping
  requests. `AnsweredRequestsAreFound`: no request ends over a key that stands for no event.
- `FailsClosed`: nothing is allowed that the in-process policy refuses, and nothing that is
  put to OPA without OPA's leave, whether OPA is down or serves an edited policy.
  `DisagreementsExplained`: the two policies differ about environments, empty users, reviewers,
  shadow-only and sensitive requests and promotion writes as named there, and never about
  clients, regions and products.
- `PlanKeepsLimits`, `LeftOutForAReason`: solver and fallback keep all limits, and so does the
  part of a plan a caller may see. `ProposalsAreAttested`: eligibility and gates, which two
  modules compute, never add up to a proposal over a gate that failed or that nobody settled.
- `BundlesHoldTogether`, `RoutedToAPermittedRole`, `IdentifiedProblemsAreDiscussed`,
  `ExplanationFollowsTheGraph`: tables that are maintained apart fit together, but for one
  boundary that the second names: a maturity of zero is identified and cannot be sized.
- `RehearsalRootsConferNothing`, `LostTrustStaysLost`; `SessionsComplete`,
  `ReadinessHoldsTogether` (an answer put together from three walks at three moments).

### Where the code and its documents disagree

Each is stated in its module, after the other properties, with the line it quotes. They are
not among the runs, since each question is settled; the counterexample is found within
seconds by putting the property in the place of those of the configuration named.

| Property | Configuration | What happens |
|---|---|---|
| `MetricsNeverPromote` | `MCPromotionBank` | approve the second transition first, or fail and repair an approved gate: an evaluation alone raises the position, where `engine.py:6` says metrics alone never promote |
| `ApprovalBindsEvidence` | `MCPromotionBank` | evidence of the approved transition changes between reading and approving, the digest does not |
| `MinimumModeEnforced` | `MCPromotionBank` | a gate's minimum evidence mode is declared and never consulted when an evaluation is recorded |
| `CapabilityNeedsEvidence` | `MCPromotionBank`, with `EvaluationInputs <- WaivingEvaluations` | a waived gate meets the evidence prerequisite of a capability |
| `RehearsalNeverMovesReal` | `MCPromotionBank` | a rehearsal approval filed under the id of a real one removes it |
| `PublishedGrantsHeld` | `MCPromotionBank`, with `MaxOvertaking = 2` | two writes during one lock-free read publish a capability that was never granted |
| `OneIncidentPerKey` | `MCRequests` | two threads, one key, two incidents |
| `ExpiredKeysFail` | `MCTrust` | a package signed after its key has expired is published as verified, since nobody asks the trust registry |
| `RejectionTerminatesApproval` | `MCEvidence` | a rejected fact is reviewed again, approved and published |
| `EveryRequestGetsNarrative` | `MCProvider` | `opened_at` is tested and subtracted in two reads (`wallet_twin_v2/genai_gateway.py:473`); another thread closes the breaker in between and a `TypeError` leaves `generate` |
| `PoliciesAreEquivalent` | `MCPolicy` | the Rego policy is called equivalent (`wallet_twin_v2/entitlements.py:23`) and is not |
| `ApprovedAnswersStay`, `AnswersAreLogged` | `MCAnswers` | a resubmission replaces an approved answer; a key the snapshot has used swallows the event of an answer |
| `ReviewsKeepSubmissions` | `MCAnswers` | a review writes back the answer it read (`wallet_twin_v31/questions.py:531`, `589`): what was submitted in between is gone |
| `OnlyPassingBundlesPropose` | `MCPlanning` | `wallet_twin_v31/feasibility.py:9` says "only an all-required-`PASS` bundle can support a product proposal, and only in pilot or production"; a required gate attested as not required supports it too, and nothing asks for the environment |
| `UnsizedProblemsAreDiscussed` | `MCBuilding` | `wallet_twin_v31/conversations.py:9` says "a problem with no quantifiable solution produces an evidence-acquisition conversation"; it produces none. A refinancing is lost that way when its maturity is disclosed as zero: the event asks for an amount (`business_graph.py:386`), the estimators for one above zero (`solutions.py:414`, `452`) |
| `EveryWeekIsPlanned` | `MCPlanning` | a week without candidates ends in a `KeyError` (`wallet_twin_v31/fixtures.py:363`) |
| `PendingClaimsNeverSupportEligibility`, `PathsHaveEvidence`, `TriggersMayBeShown` | `MCBuilding` | one approved claim of any signal makes a problem eligible; a leakage below the threshold is explained without evidence; a maturity under review is told as a trigger |

Seen on the way and not modelled: approvals are overwritten in memory where
`infra/sql/002_promotion_schemas.sql` makes them append-only (the cause of
`RehearsalNeverMovesReal`). In the same file (line 119) the CHECK that a PASS has evidence
compares `array_length` of an empty array, which is NULL, so the row is taken.
`run_negative_scenarios` compares a scenario's target with itself, and for `sev1-incident`
that target is not the gate of the step it breaks.

## 4. Fairness

`ProviderGateway`'s `FairSpec` assumes weak fairness of each thread's own step, not of
arrivals: a handler runs to its end, no thread waits for another, and the OpenAI and
Anthropic clients have a timeout (20 seconds by default, one retry). The Google client sets
none, so `RequestsAnswered` holds for the other two. No other specification assumes
fairness: nothing obliges a client to act, and what the remaining handlers do once called
is a straight line.

## 5. Proofs

`PromotionProofs` proves, for every catalogue, capability table, set of clients, people,
approval ids and inputs that satisfies `PolicyAssumption` and `RepositoryAssumption`, and
without the bounds of the runs (`MaxEvaluations` is any natural number). The shipped
catalogue of `PromotionCatalogue` is one of them:

| Theorem | Property | Argument |
|---|---|---|
| `TypeCorrect` | `TypeOK` | inductive as it stands: the seed is valid and both write actions check the validator |
| `FixtureSafe` | `FixtureNeverAuthorises` | needs the strengthening `RealTrackEmpty`: in a fixture no evaluation and no approval on record is on the real track. The guard keeps it; with no real approval no transition is approved, so the walk stops at 0 |
| `PositionEarned` | `PositionIsEarned` | `AttainedState` is shown to be the end of the run `1..k` within the passed transitions (`AttainedStateIsRun`, from the existence of a least missing transition, `LeastNatural`); the rest is type correctness of what is in force |
| `CapabilitiesDecided` | `CapabilityVerdictsAgree` | case analysis of the two verdicts |
| `RehearsalLeavesRealAlone` | `RehearsalEvaluationsLeaveRealAlone` | appending leaves `InForce` of every other gate and track as it was (`InForceKept`) |
| `LateResultsHarmless` | `LateResultsChangeNothing` | an older result is never the newest |
| `FailureTakesPosition` | `FailureDemotes` | the failure is in force, its transition is not ready, and the run ends before it |
| `RejectionsStand` | `RejectionStands` | the book only grows; what is approved afterwards was filed just now, or was in the book and then is older than the rejection |
| `LogFirst` | `LogTellsFirstWrite` | needs the converse too, that no event of an evaluation is of none (`LogInv`): otherwise the first evaluation of a key could find its key taken |
| `ReadersOnlyRead` | `Spec` | what `PromotionReaders` adds to the repository changes none of its variables, so all the theorems above hold of the repository with readers |
| `OvertakenOnceIsSafe` | `OneWriteNeverOvergrants` | `ReadInv`: as long as the gates are unread, what the read would publish if it went on undisturbed was granted at one of its moments, unless two writes have overtaken it. One write either adds gates, and then the state of the newer moment is at least that of the older one, or takes some away (`OvertakingKeepsCovered`). The property itself is silent in the middle of a read |
| `AuthorityImplemented` | `ImplementsAuthority` | the seed is an initial state of `PromotionAuthority` (the newest of equally new seeds is the last, `GreatestIndex`); an evaluation leaves `InForce` of all other gates alone, a review the approvals of all transitions but its own and the one it displaces; `RealTrackEmpty` for the fixture |

`ClockProofs` proves `StreakUnbroken` (inductive together with the types and
`Len(history) = day`) and `CanonicalReached` for every plan, from `CanonicalProgress`:
before the incident every day is clean, afterwards the streak is the days since.
`CanonicalOutcome` alone is not inductive, as it says nothing before the last day.

`SigningProofs` has two sections. For `TrustRegistry`, for all keys, ids and candidates and
without the bound on time: `TypeOK` is inductive (`TrustTyped`), `RehearsalRootsSafe` (the
constructor of a key refuses real modes in the rehearsal domain, so `evaluate` always finds
a reason on the real track) and `TrustStaysLost` (time only passes and no key on file is
replaced, so a window that is over and a revocation that has come stay so).

For `PromotionRequests`, for any threads and inputs and any bound on the arrivals:

| Theorem | Property | Argument |
|---|---|---|
| `EventsAreSingle` | `OneEventEach` | inductive with the types (`RequestTypeOK`): every write publishes under the lock in the same step, and `Publish` appends a key that is not in the log yet or nothing |
| `EnvelopesFollowEvidence`, `FixtureEvidenceIsSigned` | `EnvelopeSignsEvidence`, `EvidenceIsSigned` | one invariant, `SigningInv`: who is about to sign an id finds it on file, nothing is signed that is not on file, and in a fixture nothing is on file that is not synthetic. The last is why the second lock section cannot fail there. Whoever replaces evidence signs it again, which keeps the envelope excused meanwhile (`SigningMoves`) |
| `LateRetriesWriteNothing` | `LateRetryWritesNothing` | `RetryInv`: an answered key is in the cache for ever, so a late request never leaves its lookup but for the end |

`ProviderProofs`, for any number of threads, any threshold and any length of reset:
its types, which need that a thread about to be audited has a mode to enter (`AuditHasMode`);
`TripsAtThreshold`, because whoever raises the count stands at the step that opens, and who
closes the breaker resets the count in the same step; and the refinement of `BreakerPromise`, one lemma per
step of a thread. A thread that half-opens compares the opening time with the clock first,
and the refinement needs that the time it read is not in the future.

`EvidenceProofs`, for any candidates, people and roles: `FactsAreApproved` is inductive
together with two facts about one candidate. `Founded` says that nobody reviewed what is
his own and that a verdict stands behind every decision, `Told` that the status follows the
last verdict. The roles
that have approved only grow (`RolesMonotone`), so an approval once sufficient stays so.
`ClaimRestsOnVerdicts`, `StatusTellsLastVerdict` and the refinement of `FactPublication`
follow from the same invariant.

`PilotProofs`, for any sessions and threads: a session on file is complete, and so is what
every thread is about to write (`OnFile`, `OnTheWay`); no thread drops what it has read
(`NoneForgotten`). `OnTheWay` also says what a readiness holds in the middle of its walks:
the sessions counted so far are real and completed, and none is past the end of the
dictionary, so the second walk, which can only see more of them, meets all of them again. That
sessions and feedback only grow and no status is taken back (`Grows`) carries this, and an
answer that was true when it was read, to a later state: `ReadinessHoldsTogether`.

`DecisionTwinProofs` has three sections. In the first, `ApprovedAnswersAreClaims` is
inductive: an approval files the claim of the very copy it writes, a rejection's copy is not
approved, and a resubmission is pending, so it does not matter what has come between. And `RetriesAddNoEvent` by counting: for each
idempotency key the events written and the threads that are past the lookup are together at
most as many as the threads that came with it (`KeyInv`). For this the set of threads is
assumed finite. `AnswersTyped` proves the types; they need `StoresAnswers`, that what reaches
the store has been checked on arrival, since requests come with states the question lacks,
and that a review holds an answer of a type (`ReviewsKept`). `RequestsFound` proves the
action property `AnsweredRequestsAreFound` from `KeyInv`: a known key stands for an event, and a
thread that is about to remember one has written its event.

The second is about the weekly plan, for any number of conversations and any capacity and
limits, utilities being integers and conversations numbers (`PlanningAssumption`):

| Theorem | Property | Argument |
|---|---|---|
| `PlansKeepLimits` | `PlanKeepsLimits` | `Ranked` is a bijection from `1 .. Cardinality(selection)` to the selection: no two of a finite set have equally many before them, so every place is taken (`RankedInOrder`, `RankedIsSelection`). That the greedy pass keeps `WithinLimits` is shown for one more conversation against each limit (`GroupGrows`, `RoomForOne`), and that a part of a selection keeps what the whole does, for every caller (`LimitsOfPart`) |
| `NobodyPassedOver` | `LeftOutForAReason` | `PlanningInv`: those still to be considered come after all that are chosen, and whoever is neither has a reason. A reason is about better ranked ones only, so it outlasts the rest of the pass (`ReasonsStay`) |
| `FallbackFills` | `FallbackIsFull`, of no run | nothing could be added to a degraded plan: by `LeftOutForAReason` whoever is left out breaks a limit together with some of the selection, and then also with all of it (`LimitsOfPart`) |
| `ProposalsAttested` | `ProposalsAreAttested` | the dossier's "unknown gates cannot be turned into PASS by a model": every gate has a status and an unknown one is required (`GatesSettled`), so a proposal has all gates settled, and an attestation is the only thing that settles what the rules leave open |

The third is about the turn that builds a conversation, for every client whatsoever and not
only the families of the run. `BuildingInv` says that each decision is the one its rule
makes of the client, the problem and the decisions before it, that none is taken early and
none changed afterwards. What is left are facts about the tables:

| Theorem | Property | Argument |
|---|---|---|
| `BundlesSound` | `BundlesHoldTogether` | a bundle of one is sound, and `Extended` keeps that (`AppendKeepsSound`): what fits is checked against all of the bundle |
| `RoutedWhereAllowed` | `RoutedToAPermittedRole` | the first of the permitted roles is one (`LeastIndex`, from the well-foundedness of the naturals) |
| `IdentifiedIsDiscussed` | `IdentifiedProblemsAreDiscussed` | for each of the three problems, that its detector's and its estimator's fallback chains and tests of the amount agree (`RateExposureIsSized`, `GuaranteeIsSized`), for a refinancing when its maturity is not zero (`MaturitiesAreSized`); for two of them, that only one kind of event implies the problem and rests on the claims that identify it (`RefinancingIsDated`, `RefinancingTriggers`, `GuaranteeTriggers`) |
| `ToldAlongTheGraph` | `ExplanationFollowsTheGraph` | a trigger implies the problem of the conversation, so its edges to the primary solutions and the owner are in the graph (`EdgesOfProblem`); any other role the conversation may be routed to is one the client has (`PermittedRolesAreNodes`) |
| `SnapshotsOnlyDiscover` | `DiscoveryUntilAttested`, of no run | what the dossier says of the 224 conversations shipped, that all are discovery only, holds for every client: no rule of the gates fails any bundle, and compliance is open for each (`UnattestedGates`) |

`PolicyProofs`, for all threads, contexts and requests (`AskedAssumption` names the six
environments and the kinds of request): every answer is explained by the two verdicts it
came from (`Explained`), and an edit of OPA's policy takes no explanation away
(`StaysExplained`). `FailsClosed` follows at once; `DisagreementsExplained` from comparing
the two policies rule by rule (`PoliciesCompared`), which the run does by enumeration.

In all these modules the bounds of the runs are constants about which nothing more is assumed
than the named ASSUMEs say. The inductive invariants were model-checked on the instances of
the runs before they were proved. The properties alone are not inductive:
`OneWriteNeverOvergrants` says nothing while a read is under way, `EvidenceIsSigned` not why
signing succeeds, `LeftOutForAReason` nothing before the plan is published.

What the proofs changed in the models: two arms of one CASE in `EvidenceRegistry` overlapped,
which TLC resolves by order, and are an IF now, in the order of the code; so are the choices
of `Feasibility` and the passes of `PromotionReaders`. `Ranked` and the bundle were
given by a sort and a fold; they are given by what these compute, as section 2 says, with the
same states in the runs.

Only model-checked: `RequestsAnswered`, since TLAPS does not prove liveness under fairness.
Every other property of a run is a theorem. No theorem needs induction over data or a
RECURSIVE operator; the modules have none.

## 6. Not modelled, and why

Most of the repository's lines are not decisions over state: estimators and simulations,
builders of dossiers, reports and fixtures, notebooks. They are left out as a whole, and
with them the share of lines the map can cover.

- `authorize` and entitlements at the promotion API: who may call a route does not
  change what the route does. The entitlements themselves are in `AccessPolicies`.
- `POST /transitions/{state}/requests` and `/decisions/evaluate` change nothing but the
  cache. `POST /decisions/{id}/approvals` delegates to the approval route, which is
  `RecordApproval`; its cache behaves like the one in `PromotionRequests`.
- `transition_report`, `capability_register`, `score_breakdown`, `readiness` and
  `honest_status` lay out values that are modelled.
- Bytes: signatures, canonical JSON, SHA-256; Sigstore and KMS being unavailable, which
  raises before anything is written.
- The age of evidence: every gate declares `freshness_days` and nothing reads it.
- V2: quality scores, supporting texts and the as-of filter of evidence reads; statistics of
  the trial; the outbox, one INSERT of a database that nothing drains; prompts, payload
  patterns and the text of narratives.
- V3.1: amounts, weights, probabilities and dates; briefs, the change digest, funding routes
  and components of the business twin, which are texts and numbers over modelled evidence;
  the question library, a table filtered by what a client discloses. Where a claim appears
  twice for one concept, `claims` keeps the last and `by_concept` the latest period; the model
  has one claim per concept, and every disclosed concept has an amount. The balances that every
  rule takes together are one concept.
- Database schemas: nothing in the repository writes to them; `docker-compose.yml` loads them.
- Laboratories, V1/V2/V3 models and V3.1 numerics: floating point without state.
- Dashboard, scripts, Terraform, Helm: not called by the Python code.

## 7. Plan

Done: promotion (policy, catalogue, repository, readers, API, clock, trust), the stateful
parts of V2 (evidence, provider, policy gateway, pilot), the decision logic of V3.1 (answers,
building, planning), and a theorem for every safety property of a run.

Next:

1. For the disagreements of section 3, the weakest condition on the callers under which the
   document is right, as a theorem.
2. More theorems that no run's property states, like those of section 5 marked so.
