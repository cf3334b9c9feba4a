--------------------------- MODULE ClientAnswers ---------------------------
(***************************************************************************)
(* The reviewed-answer loop of V3.1: ClientAnswerWorkflow (questions.py),  *)
(* the event store it reports to (events.py) and the two mutating routes   *)
(* of the API (api.py) that write to them.  Neither the workflow nor the   *)
(* store has a lock and each request runs on a thread, so a route is a     *)
(* sequence of steps: the answer is stored, the store looks its key up,    *)
(* the event is appended, the key is remembered.                           *)
(*                                                                         *)
(* Approving and rejecting are not routes.  They are methods a reviewer's  *)
(* program calls while requests come and go: each reads the answer, and    *)
(* writes a copy of what it has read back with its verdict.                *)
(***************************************************************************)
EXTENDS Integers, FiniteSets

CONSTANTS
    Thread,     \* the threads that serve requests
    Reviewer,   \* the reviewers, each of whom reviews one answer at a time
    AnswerId,   \* the ids clients give their answers
    State,      \* the answer states of the question, and some it lacks
    ValidState, \* the answer states of the question
    Key,        \* idempotency keys
    SeedKey,    \* the keys under which the snapshot's events are published
    MaxRequests \* bound on the requests served

ASSUME AnswersAssumption ==
    /\ IsFiniteSet(Thread)
    /\ ValidState \subseteq State
    /\ SeedKey \subseteq Key
    /\ MaxRequests \in Nat

(* What a request asks for: an answer to the question, or the attestation   *)
(* of a feasibility gate, which changes nothing but the event store.        *)
Request ==
    [kind : {"answer"}, id : AnswerId, state : State, key : Key]
      \cup [kind : {"attestation"}, key : Key]

ApprovalStatus == {"PENDING_REVIEW", "APPROVED", "REJECTED"}

VARIABLES
    answers, \* the answers on file: id -> [state, status]
    claims,  \* the E2 claims approvals have produced, named by the answer's id
    events,  \* _events, as a set: each has a key and an id of its own
    known,   \* _idempotency: key -> the id of its event
    thread,  \* per thread: where it is, the request it serves and its number
    review,  \* per reviewer: what it is about to write, and the answer it has read
    served   \* the requests that have arrived

vars == <<answers, claims, events, known, thread, review, served>>

Idle == [at |-> "idle"]

SeedEvent(key) == [key |-> key, id |-> <<"snapshot", key>>]

(* A request's event has a fresh uuid, which its number stands for. *)
RequestEvent(call) == [key |-> call.request.key, id |-> <<"request", call.number>>]

(* The snapshot's events are published before the first request. *)
Init ==
    /\ answers = <<>>
    /\ claims = {}
    /\ events = {SeedEvent(key) : key \in SeedKey}
    /\ known = [key \in SeedKey |-> SeedEvent(key).id]
    /\ thread = [t \in Thread |-> Idle]
    /\ review = [v \in Reviewer |-> Idle]
    /\ served = 0

At(t, place) == thread[t].at = place

Goes(t, place) == thread' = [thread EXCEPT ![t].at = place]

(* An entry of a dictionary is written, whether or not there was one. *)
Written(dict, key, value) ==
    [k \in DOMAIN dict \cup {key} |-> IF k = key THEN value ELSE dict[k]]

-----------------------------------------------------------------------------
(* A request reaches a free thread.  An answer whose state the question     *)
(* does not have is refused by submit before it changes anything.           *)
Arrive(t, r) ==
    /\ At(t, "idle")
    /\ served < MaxRequests
    /\ served' = served + 1
    /\ thread' = [thread EXCEPT ![t] =
                     IF r.kind = "attestation"
                       THEN [at |-> "looking", request |-> r, number |-> served']
                       ELSE IF r.state \in ValidState
                              THEN [at |-> "storing", request |-> r, number |-> served']
                              ELSE Idle]
    /\ UNCHANGED <<answers, claims, events, known, review>>

(* Mutant: a new submission keeps the verdict on the one before it. *)
StoreKeepingStatus(t) ==
    /\ At(t, "storing")
    /\ LET r == thread[t].request
       IN answers' = Written(answers, r.id,
                        [state |-> r.state,
                         status |-> IF r.id \in DOMAIN answers THEN answers[r.id].status
                                                               ELSE "PENDING_REVIEW"])
    /\ Goes(t, "looking")
    /\ UNCHANGED <<claims, events, known, review, served>>

(* submit: the answer is on file and pending, whatever was there before. *)
Store(t) ==
    /\ At(t, "storing")
    /\ LET r == thread[t].request
       IN answers' = Written(answers, r.id, [state |-> r.state, status |-> "PENDING_REVIEW"])
    /\ Goes(t, "looking")
    /\ UNCHANGED <<claims, events, known, review, served>>

(* Mutant: the store never looks a key up. *)
LookupNothing(t) ==
    /\ At(t, "looking")
    /\ Goes(t, "appending")
    /\ UNCHANGED <<answers, claims, events, known, review, served>>

(* append, first part: a known key whose event is there ends the request    *)
(* without a new one.                                                       *)
Lookup(t) ==
    /\ At(t, "looking")
    /\ LET key == thread[t].request.key
           found == key \in DOMAIN known /\ \E e \in events : e.id = known[key]
       IN thread' = [thread EXCEPT ![t] = IF found THEN Idle ELSE [@ EXCEPT !.at = "appending"]]
    /\ UNCHANGED <<answers, claims, events, known, review, served>>

(* Mutant: an event is not appended when its key has become known meanwhile,*)
(* and its id is remembered all the same.                                   *)
AppendUnlessKnown(t) ==
    /\ At(t, "appending")
    /\ events' = IF thread[t].request.key \in DOMAIN known THEN events
                                                          ELSE events \cup {RequestEvent(thread[t])}
    /\ Goes(t, "remembering")
    /\ UNCHANGED <<answers, claims, known, review, served>>

(* append, second part: the event is appended. *)
AppendEvent(t) ==
    /\ At(t, "appending")
    /\ events' = events \cup {RequestEvent(thread[t])}
    /\ Goes(t, "remembering")
    /\ UNCHANGED <<answers, claims, known, review, served>>

(* append, third part: its key is remembered, and the request is answered. *)
Remember(t) ==
    /\ At(t, "remembering")
    /\ known' = Written(known, thread[t].request.key, RequestEvent(thread[t]).id)
    /\ thread' = [thread EXCEPT ![t] = Idle]
    /\ UNCHANGED <<answers, claims, events, review, served>>

-----------------------------------------------------------------------------
(* approve and reject, first part: the answer is read.  An answer that is   *)
(* approved already is not approved again; any answer may be rejected, also *)
(* an approved one, whose claims remain.                                    *)
ReadForReview(v, verdict, id) ==
    /\ review[v] = Idle
    /\ id \in DOMAIN answers
    /\ verdict = "APPROVED" => answers[id].status # "APPROVED"
    /\ review' = [review EXCEPT ![v] = [at |-> verdict, id |-> id, answer |-> answers[id]]]
    /\ UNCHANGED <<answers, claims, events, known, thread, served>>

(* Mutant: the verdict is put on what is on file, not on what was read. *)
ApproveOnFile(v) ==
    LET id == review[v].id
    IN /\ review[v].at = "APPROVED"
       /\ answers' = [answers EXCEPT ![id].status = "APPROVED"]
       /\ claims' = claims \cup {[id |-> id, state |-> review[v].answer.state]}
       /\ review' = [review EXCEPT ![v] = Idle]
       /\ UNCHANGED <<events, known, thread, served>>

(* approve, second part: an approved copy of what was read takes the place  *)
(* of whatever is on file by now.  The claim it produces carries the state  *)
(* of the answer and the answer's id.                                       *)
Approve(v) ==
    LET id == review[v].id
        state == review[v].answer.state
    IN /\ review[v].at = "APPROVED"
       /\ answers' = Written(answers, id, [state |-> state, status |-> "APPROVED"])
       /\ claims' = claims \cup {[id |-> id, state |-> state]}
       /\ review' = [review EXCEPT ![v] = Idle]
       /\ UNCHANGED <<events, known, thread, served>>

(* reject, second part: so does a rejected copy. *)
Reject(v) ==
    /\ review[v].at = "REJECTED"
    /\ answers' = Written(answers, review[v].id,
                          [state |-> review[v].answer.state, status |-> "REJECTED"])
    /\ review' = [review EXCEPT ![v] = Idle]
    /\ UNCHANGED <<claims, events, known, thread, served>>

Next ==
    \/ \E t \in Thread :
          \/ \E r \in Request : Arrive(t, r)
          \/ Store(t) \/ Lookup(t) \/ AppendEvent(t) \/ Remember(t)
    \/ \E v \in Reviewer :
          \/ \E id \in AnswerId, verdict \in {"APPROVED", "REJECTED"} : ReadForReview(v, verdict, id)
          \/ Approve(v) \/ Reject(v)

Spec == Init /\ [][Next]_vars

-----------------------------------------------------------------------------
(* What the reviewed-answer loop is checked for.                            *)

Call ==
    {Idle} \cup [at : {"storing", "looking", "appending", "remembering"},
                 request : Request, number : 1 .. served]

Answer == [state : ValidState, status : ApprovalStatus]

Review ==
    {Idle} \cup [at : {"APPROVED", "REJECTED"}, id : DOMAIN answers, answer : Answer]

TypeOK ==
    /\ DOMAIN answers \subseteq AnswerId
    /\ \A id \in DOMAIN answers : answers[id] \in Answer
    /\ claims \subseteq [id : AnswerId, state : ValidState]
    /\ DOMAIN known \subseteq Key
    /\ \A t \in Thread : thread[t] \in Call
    /\ \A v \in Reviewer : review[v] \in Review
    /\ served \in 0 .. MaxRequests

(* An answer that counts as approved says what was approved: whatever is    *)
(* resubmitted, approved or rejected since, and also between the read and   *)
(* the write of a review, a claim with its state exists.                    *)
ApprovedAnswersAreClaims ==
    \A id \in DOMAIN answers :
        answers[id].status = "APPROVED" => [id |-> id, state |-> answers[id].state] \in claims

(* Two events of one key come from requests that overlap, and none from a   *)
(* retry: there are never more of them than threads to overlap, and one     *)
(* suffices where the snapshot published the key.                           *)
RetriesAddNoEvent ==
    \A key \in Key :
        Cardinality({e \in events : e.key = key}) <=
            IF key \in SeedKey THEN 1 ELSE Cardinality(Thread)

(* A request that ends past its validation, in whichever step and whoever   *)
(* else serves its key meanwhile, leaves the key in the store together with *)
(* the event it stands for: the next request with the key will find it.     *)
AnsweredRequestsAreFound ==
    [][\A t \in Thread :
          /\ thread[t].at \in {"looking", "appending", "remembering"}
          /\ thread'[t].at = "idle"
          => LET key == thread[t].request.key
             IN /\ key \in DOMAIN known'
                /\ \E e \in events' : e.key = key /\ e.id = known'[key]]_vars

-----------------------------------------------------------------------------
(* What the code's documents and names say and the code does not do.        *)

(* A review decides on the answer on file: it changes the status and keeps  *)
(* what the client has submitted by then (the copy is "approved", not       *)
(* "restored").                                                             *)
ReviewsKeepSubmissions ==
    [][\A v \in Reviewer : Approve(v) \/ Reject(v) =>
          LET id == review[v].id IN answers'[id].state = answers[id].state]_vars

(* "A response creates an immutable, pending E2 candidate": once approved,  *)
(* an answer is not replaced by what a request submits, a retry of the      *)
(* request that created it least of all.                                    *)
ApprovedAnswersStay ==
    [][\A t \in Thread : Store(t) =>
          \A id \in DOMAIN answers :
              answers[id].status = "APPROVED" => answers'[id] = answers[id]]_vars

(* "Mutation endpoints require an idempotency key and create immutable      *)
(* events": an answer on file that no request is working on has an event.   *)
AnswersAreLogged ==
    (\A t \in Thread : At(t, "idle")) /\ DOMAIN answers # {} =>
        \E e \in events : \E n \in 1 .. served : e.id = <<"request", n>>
=============================================================================
