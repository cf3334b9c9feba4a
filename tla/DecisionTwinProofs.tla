------------------------- MODULE DecisionTwinProofs -------------------------
(***************************************************************************)
(* What TLAPS proves of the decision twin, wallet_twin_v31: of the loop of *)
(* reviewed answers, of the weekly plan and of the turn that builds a      *)
(* conversation.  The three share nothing but this module: each section    *)
(* has its own specification and inductive invariant.                      *)
(***************************************************************************)
EXTENDS ClientAnswers, CoveragePlanning, ConversationBuilding, FiniteSetTheorems,
        WellFoundedInduction, TLAPS

-----------------------------------------------------------------------------
(* Reviewed answers, for every finite set of threads, every number of       *)
(* requests and all ids, states and keys: behind an approved answer there   *)
(* is its claim, and retries add no event.                                  *)

(* Answers, threads and reviews are what their writers make of them. *)
Shapes ==
    /\ answers = [id \in DOMAIN answers |-> answers[id]]
    /\ \A id \in DOMAIN answers :
          answers[id] = [state |-> answers[id].state, status |-> answers[id].status]
    /\ thread = [t \in Thread |-> thread[t]]
    /\ \A t \in Thread :
          \/ thread[t] = Idle
          \/ /\ thread[t].at \in {"storing", "looking", "appending", "remembering"}
             /\ thread[t] = [at |-> thread[t].at, request |-> thread[t].request,
                             number |-> thread[t].number]
    /\ review = [v \in Reviewer |-> review[v]]

(* What a step makes of a thread, and that it leaves the others alone. *)
Turns(t, call) ==
    /\ thread' = [u \in Thread |-> thread'[u]] /\ thread'[t] = call
    /\ \A u \in Thread \ {t} : thread'[u] = thread[u]

LEMMA GoesTurns ==
    ASSUME Shapes, NEW t \in Thread, NEW place, Goes(t, place), thread[t] # Idle
    PROVE  Turns(t, [at |-> place, request |-> thread[t].request, number |-> thread[t].number])
<1>1. thread[t] = [at |-> thread[t].at, request |-> thread[t].request, number |-> thread[t].number]
  BY DEF Shapes
<1>2. /\ thread' = [u \in Thread |-> thread'[u]] /\ thread'[t] = [thread[t] EXCEPT !.at = place]
      /\ \A u \in Thread \ {t} : thread'[u] = thread[u]
  BY DEF Shapes, Goes
<1>3. [thread[t] EXCEPT !.at = place] =
          [at |-> place, request |-> thread[t].request, number |-> thread[t].number]
  BY <1>1
<1> QED
  BY <1>2, <1>3 DEF Turns

LEMMA ShapesStep ==
    ASSUME Shapes, [Next]_vars
    PROVE  Shapes'
<1>2. ASSUME NEW t \in Thread, NEW r \in Request, Arrive(t, r)
      PROVE  Shapes'
  BY <1>2 DEF Shapes, Arrive, Idle
<1>3. ASSUME NEW t \in Thread, Store(t)
      PROVE  Shapes'
  <2>1. thread[t] # Idle
    BY <1>3 DEF Store, At, Idle
  <2>2. Turns(t, [at |-> "looking", request |-> thread[t].request, number |-> thread[t].number])
    BY <1>3, <2>1, GoesTurns DEF Store
  <2>3. /\ answers' = [id \in DOMAIN answers' |-> answers'[id]]
        /\ \A id \in DOMAIN answers' :
              answers'[id] = [state |-> answers'[id].state, status |-> answers'[id].status]
    BY <1>3 DEF Store, Written, Shapes
  <2>4. review' = review
    BY <1>3 DEF Store
  <2>5. \A u \in Thread \ {t} : thread'[u] = thread[u]
    BY <2>2 DEF Turns
  <2>6. /\ thread' = [u \in Thread |-> thread'[u]]
        /\ thread'[t] = [at |-> "looking", request |-> thread'[t].request,
                         number |-> thread'[t].number]
        /\ thread'[t].at = "looking"
    BY <2>2 DEF Turns
  <2> QED
    BY <2>3, <2>4, <2>5, <2>6, SMTT(30) DEF Shapes
<1>4. ASSUME NEW t \in Thread, Lookup(t) \/ AppendEvent(t) \/ Remember(t)
      PROVE  Shapes'
  BY <1>4 DEF Lookup, AppendEvent, Remember, Goes, At, Idle, Shapes
<1>5. ASSUME NEW v \in Reviewer, NEW id \in AnswerId, NEW verdict, ReadForReview(v, verdict, id)
      PROVE  Shapes'
  BY <1>5 DEF ReadForReview, Shapes
<1>7. ASSUME NEW v \in Reviewer, Approve(v) \/ Reject(v)
      PROVE  Shapes'
  BY <1>7 DEF Approve, Reject, Written, Shapes
<1>6. CASE UNCHANGED vars
  BY <1>6 DEF vars, Shapes
<1> QED
  BY <1>2, <1>3, <1>4, <1>5, <1>6, <1>7 DEF Next

(* What arrives at the workflow is an answer with a state of its question,  *)
(* which the types alone do not say.                                        *)
ValidAnswer == [kind : {"answer"}, id : AnswerId, state : ValidState, key : Key]

StoresAnswers == \A t \in Thread : At(t, "storing") => thread[t].request \in ValidAnswer

(* A thread that is not idle serves a request that has arrived. *)
Serving == [at : {"storing", "looking", "appending", "remembering"},
            request : Request, number : 1 .. served]

LEMMA ServingThreads ==
    ASSUME TypeOK, NEW t \in Thread, thread[t].at # "idle"
    PROVE  thread[t] \in Serving
BY DEF TypeOK, Call, Idle, Serving

(* A step that moves one thread, to a call that has a type, keeps all calls *)
(* typed, also when it raises the count of arrivals.                        *)
LEMMA CallsKept ==
    ASSUME TypeOK, StoresAnswers, NEW t \in Thread, NEW call \in Call',
           served' \in Nat, served <= served',
           call.at = "storing" => call.request \in ValidAnswer,
           thread'[t] = call, \A u \in Thread \ {t} : thread'[u] = thread[u]
    PROVE  (\A u \in Thread : thread[u] \in Call)' /\ StoresAnswers'
<1>1. served \in Nat
  BY AnswersAssumption DEF TypeOK
<1>2. Call \subseteq Call'
  BY <1>1 DEF Call, Serving
<1>3. ASSUME NEW u \in Thread PROVE thread'[u] \in Call'
  BY <1>2 DEF TypeOK
<1>4. ASSUME NEW u \in Thread, thread'[u].at = "storing" PROVE thread'[u].request \in ValidAnswer
  BY <1>4 DEF StoresAnswers, At
<1> QED
  BY <1>3, <1>4 DEF StoresAnswers, At

(* An answer under review is on file for good, so reviews stay typed.       *)
LEMMA ReviewsKept ==
    ASSUME TypeOK, UNCHANGED review, DOMAIN answers \subseteq DOMAIN answers'
    PROVE  (\A v \in Reviewer : review[v] \in Review)'
BY DEF TypeOK, Review

(* The types are not inductive alone: an answer that is stored has a state  *)
(* of the question because its arrival has been checked.                    *)
LEMMA AnswersStayTyped ==
    ASSUME TypeOK, StoresAnswers, Shapes, [Next]_vars
    PROVE  TypeOK' /\ StoresAnswers'
<1>0. served \in Nat /\ MaxRequests \in Nat /\ ValidState \subseteq State
  BY AnswersAssumption DEF TypeOK
<1>1. ASSUME NEW t \in Thread, NEW r \in Request, Arrive(t, r)
      PROVE  TypeOK' /\ StoresAnswers'
  <2>1. /\ served' = served + 1 /\ served' \in 0 .. MaxRequests
        /\ UNCHANGED <<answers, claims, events, known, review>>
    BY <1>0, <1>1 DEF Arrive, TypeOK
  <2> DEFINE call == IF r.kind = "attestation"
                       THEN [at |-> "looking", request |-> r, number |-> served']
                       ELSE IF r.state \in ValidState
                              THEN [at |-> "storing", request |-> r, number |-> served']
                              ELSE Idle
  <2>2. thread'[t] = call /\ \A u \in Thread \ {t} : thread'[u] = thread[u]
    BY <1>1 DEF Arrive, Shapes
  <2>3. call \in Call'
    BY <1>0, <2>1 DEF Call, Serving
  <2>4. call.at = "storing" => call.request \in ValidAnswer
    BY DEF Request, ValidAnswer, Idle
  <2> HIDE DEF call
  <2>5. (\A u \in Thread : thread[u] \in Call)' /\ StoresAnswers'
    BY <1>0, <2>1, <2>2, <2>3, <2>4, CallsKept
  <2> QED
    BY <2>1, <2>5, ReviewsKept DEF TypeOK
<1>2. ASSUME NEW t \in Thread, Store(t)
      PROVE  TypeOK' /\ StoresAnswers'
  <2> DEFINE call == [thread[t] EXCEPT !.at = "looking"]
  <2>1. thread[t].request \in ValidAnswer /\ thread[t] \in Serving
    BY <1>2, ServingThreads DEF Store, At, StoresAnswers
  <2>2. /\ thread'[t] = call /\ \A u \in Thread \ {t} : thread'[u] = thread[u]
        /\ UNCHANGED <<claims, events, known, review, served>>
    BY <1>2 DEF Store, Goes, Shapes
  <2>3. call \in Call' /\ call.at = "looking"
    BY <2>1, <2>2 DEF Call, Serving
  <2> HIDE DEF call
  <2>4. (\A u \in Thread : thread[u] \in Call)' /\ StoresAnswers'
    BY <1>0, <2>2, <2>3, CallsKept
  <2>5. /\ DOMAIN answers' \subseteq AnswerId
        /\ DOMAIN answers \subseteq DOMAIN answers'
        /\ \A id \in DOMAIN answers' : answers'[id] \in Answer
    BY <1>2, <2>1 DEF Store, Written, TypeOK, ValidAnswer, Answer, ApprovalStatus
  <2> QED
    BY <2>2, <2>4, <2>5, ReviewsKept DEF TypeOK
<1>3. ASSUME NEW t \in Thread, Lookup(t) \/ AppendEvent(t)
      PROVE  TypeOK' /\ StoresAnswers'
  <2>1. thread[t] \in Serving
    BY <1>3, ServingThreads DEF Lookup, AppendEvent, At
  <2>2. UNCHANGED <<answers, claims, known, review, served>>
    BY <1>3 DEF Lookup, AppendEvent
  <2> DEFINE calls == {Idle, [thread[t] EXCEPT !.at = "appending"],
                       [thread[t] EXCEPT !.at = "remembering"]}
  <2>3. \E call \in calls : thread'[t] = call /\ \A u \in Thread \ {t} : thread'[u] = thread[u]
    BY <1>3 DEF Lookup, AppendEvent, Goes, Shapes
  <2>4. PICK call \in calls :
                       /\ thread'[t] = call
                       /\ \A u \in Thread \ {t} : thread'[u] = thread[u]
    BY <2>3
  <2>5. call \in Call' /\ call.at # "storing"
    BY <2>1, <2>2, <2>4 DEF Call, Idle, Serving
  <2>6. (\A u \in Thread : thread[u] \in Call)' /\ StoresAnswers'
    BY <1>0, <2>2, <2>4, <2>5, CallsKept
  <2> QED
    BY <2>2, <2>6, ReviewsKept DEF TypeOK
<1>4. ASSUME NEW t \in Thread, Remember(t)
      PROVE  TypeOK' /\ StoresAnswers'
  <2>1. thread[t] \in Serving
    BY <1>4, ServingThreads DEF Remember, At
  <2>2. /\ thread'[t] = Idle /\ \A u \in Thread \ {t} : thread'[u] = thread[u]
        /\ UNCHANGED <<answers, claims, events, review, served>>
    BY <1>4 DEF Remember, Shapes
  <2>3. Idle \in Call' /\ Idle.at # "storing"
    BY DEF Call, Idle
  <2>4. (\A u \in Thread : thread[u] \in Call)' /\ StoresAnswers'
    BY <1>0, <2>2, <2>3, CallsKept
  <2>5. DOMAIN known' \subseteq Key
    <3>1. thread[t].request.key \in Key
      BY <2>1 DEF Request, Serving
    <3> QED
      BY <1>4, <3>1 DEF Remember, Written, TypeOK
  <2> QED
    BY <2>2, <2>4, <2>5, ReviewsKept DEF TypeOK
<1>5. ASSUME NEW v \in Reviewer, NEW id \in AnswerId, NEW verdict \in {"APPROVED", "REJECTED"},
             ReadForReview(v, verdict, id)
      PROVE  TypeOK' /\ StoresAnswers'
  <2>1. UNCHANGED <<answers, claims, known, thread, served>> /\ id \in DOMAIN answers
    BY <1>5 DEF ReadForReview
  <2>2. PICK new : new = [at |-> verdict, id |-> id, answer |-> answers[id]]
    OBVIOUS
  <2>3. new \in Review /\ review' = [review EXCEPT ![v] = new]
    BY <1>5, <2>1, <2>2 DEF ReadForReview, Review, TypeOK
  <2>4. \A w \in Reviewer : review'[w] \in Review
    BY <2>3 DEF TypeOK, Shapes
  <2> QED
    BY <2>1, <2>4 DEF TypeOK, Call, Review, StoresAnswers, At
<1>7. ASSUME NEW v \in Reviewer, Approve(v) \/ Reject(v)
      PROVE  TypeOK' /\ StoresAnswers'
  <2>1. UNCHANGED <<known, thread, served>> /\ review' = [review EXCEPT ![v] = Idle]
    BY <1>7 DEF Approve, Reject
  <2>2. /\ review[v].id \in DOMAIN answers /\ review[v].id \in AnswerId
        /\ review[v].answer.state \in ValidState
    BY <1>7 DEF Approve, Reject, TypeOK, Review, Answer, Idle
  <2>3. /\ DOMAIN answers' = DOMAIN answers
        /\ \A i \in DOMAIN answers' : answers'[i] \in Answer
    <3>1. PICK status \in {"APPROVED", "REJECTED"} :
              answers' = Written(answers, review[v].id,
                                 [state |-> review[v].answer.state, status |-> status])
      BY <1>7 DEF Approve, Reject
    <3>2. [state |-> review[v].answer.state, status |-> status] \in Answer
      BY <2>2 DEF Answer, ApprovalStatus
    <3>3. \A i \in DOMAIN answers : answers[i] \in Answer
      BY DEF TypeOK
    <3> QED
      BY <2>2, <3>1, <3>2, <3>3 DEF Written
  <2>4. claims' \subseteq [id : AnswerId, state : ValidState]
    BY <1>7, <2>2 DEF Approve, Reject, TypeOK
  <2>5. \A w \in Reviewer : review'[w] \in Review'
    BY <2>1, <2>3 DEF TypeOK, Review, Shapes
  <2> QED
    BY <2>1, <2>3, <2>4, <2>5 DEF TypeOK, Call, StoresAnswers, At
<1>6. CASE UNCHANGED vars
  BY <1>6 DEF vars, TypeOK, Call, Review, StoresAnswers, At
<1> QED
  BY <1>1, <1>2, <1>3, <1>4, <1>5, <1>6, <1>7 DEF Next

(* Types, for any ids, states and keys: among them that every answer on     *)
(* file and every claim has a state of the question, though requests arrive *)
(* with states it lacks (submit refuses those before anything is written).  *)
THEOREM AnswersTyped == Spec => []TypeOK
<1>1. Init => TypeOK /\ StoresAnswers /\ Shapes
  BY AnswersAssumption DEF Init, TypeOK, Call, Review, Idle, StoresAnswers, At, Shapes, SeedEvent
<1>2. TypeOK /\ StoresAnswers /\ Shapes /\ [Next]_vars => TypeOK' /\ StoresAnswers' /\ Shapes'
  BY ShapesStep, AnswersStayTyped
<1> QED
  BY <1>1, <1>2, PTL DEF Spec

(* What an approval puts on file and the claim it produces are both of the  *)
(* answer it has read, whatever was submitted or reviewed since; and what   *)
(* is submitted afterwards is pending again.                                *)
THEOREM ApprovedAnswers == Spec => []ApprovedAnswersAreClaims
<1>1. Init => Shapes /\ ApprovedAnswersAreClaims
  BY DEF Init, Shapes, ApprovedAnswersAreClaims
<1>2. Shapes /\ ApprovedAnswersAreClaims /\ [Next]_vars => Shapes' /\ ApprovedAnswersAreClaims'
  <2> SUFFICES ASSUME Shapes, ApprovedAnswersAreClaims, [Next]_vars
               PROVE  ApprovedAnswersAreClaims'
    BY ShapesStep
  <2>1. CASE UNCHANGED <<answers, claims>>
    BY <2>1 DEF ApprovedAnswersAreClaims
  <2>2. ASSUME NEW t \in Thread, Store(t) PROVE ApprovedAnswersAreClaims'
    BY <2>2 DEF Store, Written, ApprovedAnswersAreClaims
  <2>3. ASSUME NEW v \in Reviewer, Approve(v) PROVE ApprovedAnswersAreClaims'
    BY <2>3 DEF Approve, Written, ApprovedAnswersAreClaims
  <2>4. ASSUME NEW v \in Reviewer, Reject(v) PROVE ApprovedAnswersAreClaims'
    BY <2>4 DEF Reject, Written, ApprovedAnswersAreClaims
  <2> QED
    BY <2>1, <2>2, <2>3, <2>4 DEF Next, vars, Arrive, Lookup, AppendEvent, Remember, ReadForReview
<1> QED
  BY <1>1, <1>2, PTL DEF Spec

-----------------------------------------------------------------------------
(* The events of a key, and the requests with that key that are past the    *)
(* lookup: about to append an event, or to remember the one they appended.  *)
EventsOf(key) == {e \in events : e.key = key}
Appending(key) == {t \in Thread : At(t, "appending") /\ thread[t].request.key = key}
Remembering(key) == {t \in Thread : At(t, "remembering") /\ thread[t].request.key = key}

(* A key the store knows has an event; one it does not know has events of   *)
(* overlapping requests only, each of which is about to make it known.  So  *)
(* nobody passes the lookup any more once a request is through, and those   *)
(* past it, with the events there are, are never more than the threads.     *)
KeyInv(key) ==
    /\ key \in DOMAIN known => \E e \in events : e.key = key /\ e.id = known[key]
    /\ key \in SeedKey =>
          /\ key \in DOMAIN known /\ EventsOf(key) = {SeedEvent(key)}
          /\ Appending(key) = {} /\ Remembering(key) = {}
    /\ key \notin DOMAIN known =>
          EventsOf(key) \subseteq {RequestEvent(thread[t]) : t \in Remembering(key)}
    /\ \A t \in Remembering(key) : RequestEvent(thread[t]) \in events
    /\ key \notin SeedKey =>
          /\ IsFiniteSet(EventsOf(key))
          /\ Cardinality(EventsOf(key)) + Cardinality(Appending(key)) <= Cardinality(Thread)

AnswersInv == Shapes /\ \A key \in Key : KeyInv(key)

LEMMA ThreadsFinite ==
    ASSUME NEW S \in SUBSET Thread
    PROVE  /\ IsFiniteSet(S) /\ Cardinality(S) \in Nat
           /\ Cardinality(Thread) \in Nat /\ Cardinality(S) <= Cardinality(Thread)
BY AnswersAssumption, FS_Subset, FS_CardinalityType

LEMMA DisjointThreads ==
    ASSUME NEW S \in SUBSET Thread, NEW T \in SUBSET Thread, S \cap T = {}
    PROVE  Cardinality(S) + Cardinality(T) <= Cardinality(Thread)
<1>1. IsFiniteSet(S) /\ IsFiniteSet(T) /\ Cardinality(S) \in Nat /\ Cardinality(T) \in Nat
  BY ThreadsFinite
<1>2. Cardinality(S \cup T) = Cardinality(S) + Cardinality(T) - Cardinality({})
  BY <1>1, FS_Union
<1>3. Cardinality(S \cup T) <= Cardinality(Thread)
  BY ThreadsFinite
<1> QED
  BY <1>1, <1>2, <1>3, FS_EmptySet

(* As many events as requests that remember them, or fewer. *)
LEMMA EventsOfRequests ==
    ASSUME NEW S \in SUBSET Thread, NEW E, E \subseteq {RequestEvent(thread[t]) : t \in S}
    PROVE  IsFiniteSet(E) /\ Cardinality(E) \in Nat /\ Cardinality(E) <= Cardinality(S)
<1> DEFINE f == [t \in S |-> RequestEvent(thread[t])]
           all == {RequestEvent(thread[t]) : t \in S}
<1>1. f \in Surjection(S, all)
  BY DEF Surjection
<1>2. IsFiniteSet(S) /\ Cardinality(S) \in Nat
  BY ThreadsFinite
<1>3. IsFiniteSet(all) /\ Cardinality(all) <= Cardinality(S)
  BY <1>1, <1>2, FS_Surjection
<1> HIDE DEF all
<1>4. E \subseteq all
  BY DEF all
<1> QED
  BY <1>2, <1>3, <1>4, FS_Subset, FS_CardinalityType

(* Nothing about a key changes in a step that leaves the store alone and    *)
(* takes no request into, or out of, the store's last two places.           *)
LEMMA KeyKept ==
    ASSUME Shapes, NEW key, KeyInv(key), UNCHANGED known,
           EventsOf(key)' = EventsOf(key), events \subseteq events',
           Appending(key)' = Appending(key), Remembering(key)' = Remembering(key),
           \A t \in Remembering(key) : RequestEvent(thread'[t]) = RequestEvent(thread[t])
    PROVE  KeyInv(key)'
<1>1. {RequestEvent(thread'[t]) : t \in Remembering(key)} =
          {RequestEvent(thread[t]) : t \in Remembering(key)}
  OBVIOUS
<1> QED
  BY <1>1 DEF KeyInv

LEMMA KeyStep ==
    ASSUME AnswersInv, [Next]_vars, NEW key \in Key
    PROVE  KeyInv(key)'
<1>0. Shapes /\ KeyInv(key)
  BY DEF AnswersInv
<1>1. ASSUME UNCHANGED <<events, known>>,
             \A t \in Thread : thread'[t] = thread[t] \/ (~At(t, "appending") /\ ~At(t, "remembering")
                                   /\ ~At(t, "appending")' /\ ~At(t, "remembering")')
      PROVE  KeyInv(key)'
  <2>1. EventsOf(key)' = EventsOf(key)
    BY <1>1 DEF EventsOf
  <2>2. Appending(key)' = Appending(key) /\ Remembering(key)' = Remembering(key)
    BY <1>1 DEF Appending, Remembering, At
  <2>3. \A t \in Remembering(key) : RequestEvent(thread'[t]) = RequestEvent(thread[t])
    BY <1>1 DEF Remembering
  <2> QED
    BY <1>0, <1>1, <2>1, <2>2, <2>3, KeyKept
<1>2. ASSUME NEW t \in Thread, NEW r \in Request, Arrive(t, r)
      PROVE  KeyInv(key)'
  <2>1. /\ UNCHANGED <<events, known>> /\ At(t, "idle")
        /\ \A u \in Thread \ {t} : thread'[u] = thread[u]
        /\ thread'[t].at \in {"looking", "storing", "idle"}
    BY <1>0, <1>2 DEF Arrive, Shapes, Idle
  <2> QED
    BY <1>1, <2>1 DEF At
<1>3. ASSUME NEW t \in Thread, Store(t)
      PROVE  KeyInv(key)'
  <2>1. /\ UNCHANGED <<events, known>> /\ At(t, "storing") /\ thread[t] # Idle
        /\ Goes(t, "looking")
    BY <1>3 DEF Store, At, Idle
  <2>2. Turns(t, [at |-> "looking", request |-> thread[t].request, number |-> thread[t].number])
    BY <1>0, <2>1, GoesTurns
  <2> QED
    BY <1>1, <2>1, <2>2 DEF Turns, At
<1>4. ASSUME NEW t \in Thread, Lookup(t)
      PROVE  KeyInv(key)'
  <2> DEFINE mine == thread[t].request.key
             found == mine \in DOMAIN known /\ \E e \in events : e.id = known[mine]
  <2>1. UNCHANGED <<events, known>> /\ At(t, "looking") /\ thread[t] # Idle
    BY <1>4 DEF Lookup, At, Idle
  <2>2. CASE found
    <3>1. thread'[t] = Idle /\ \A u \in Thread \ {t} : thread'[u] = thread[u]
      BY <1>0, <1>4, <2>2 DEF Lookup, Shapes
    <3> QED
      BY <1>1, <2>1, <3>1 DEF At, Idle
  <2>3. CASE ~found
    <3>1. Goes(t, "appending")
      BY <1>4, <2>3 DEF Lookup, Goes
    <3>2. Turns(t, [at |-> "appending", request |-> thread[t].request, number |-> thread[t].number])
      BY <1>0, <2>1, <3>1, GoesTurns
    <3>3. EventsOf(key)' = EventsOf(key) /\ Remembering(key)' = Remembering(key)
      BY <2>1, <3>2 DEF EventsOf, Remembering, Turns, At
    <3>4. \A u \in Remembering(key) : RequestEvent(thread'[u]) = RequestEvent(thread[u])
      BY <2>1, <3>2 DEF Remembering, Turns, At
    <3>5. CASE mine # key
      <4>1. Appending(key)' = Appending(key)
        BY <2>1, <3>2, <3>5 DEF Appending, Turns, At
      <4> QED
        BY <1>0, <2>1, <3>3, <3>4, <4>1, KeyKept
    <3>6. CASE mine = key
      <4>1. Appending(key)' = Appending(key) \cup {t}
        BY <2>1, <3>2, <3>6 DEF Appending, Turns, At
      <4>2. key \notin DOMAIN known /\ key \notin SeedKey
        BY <1>0, <2>3, <3>6 DEF KeyInv
      <4>3. EventsOf(key) \subseteq {RequestEvent(thread[u]) : u \in Remembering(key)}
        BY <1>0, <4>2 DEF KeyInv
      <4>4. /\ IsFiniteSet(EventsOf(key)) /\ Cardinality(EventsOf(key)) \in Nat
            /\ Cardinality(EventsOf(key)) <= Cardinality(Remembering(key))
        BY <4>3, EventsOfRequests DEF Remembering
      <4>5. (Appending(key) \cup {t}) \cap Remembering(key) = {}
        BY <2>1 DEF Appending, Remembering, At
      <4>6. Cardinality(Remembering(key)) + Cardinality(Appending(key) \cup {t}) <= Cardinality(Thread)
        BY <4>5, DisjointThreads DEF Appending, Remembering
      <4>7. /\ Cardinality(Remembering(key)) \in Nat /\ Cardinality(Appending(key) \cup {t}) \in Nat
            /\ Cardinality(Thread) \in Nat
        BY ThreadsFinite DEF Appending, Remembering
      <4>8. Cardinality(EventsOf(key)) + Cardinality(Appending(key) \cup {t}) <= Cardinality(Thread)
        BY <4>4, <4>6, <4>7
      <4>9. {RequestEvent(thread'[u]) : u \in Remembering(key)} =
            {RequestEvent(thread[u]) : u \in Remembering(key)}
        BY <3>4
      <4> QED
        BY <1>0, <2>1, <3>3, <3>4, <4>1, <4>2, <4>3, <4>4, <4>8, <4>9 DEF KeyInv
    <3> QED
      BY <3>5, <3>6
  <2> QED
    BY <2>2, <2>3
<1>5. ASSUME NEW t \in Thread, AppendEvent(t)
      PROVE  KeyInv(key)'
  <2> DEFINE new == RequestEvent(thread[t])
             mine == thread[t].request.key
  <2>1. /\ UNCHANGED known /\ At(t, "appending") /\ thread[t] # Idle
        /\ events' = events \cup {new} /\ new.key = mine
        /\ Goes(t, "remembering")
    BY <1>5 DEF AppendEvent, At, Idle, RequestEvent
  <2>2. Turns(t, [at |-> "remembering", request |-> thread[t].request, number |-> thread[t].number])
    BY <1>0, <2>1, GoesTurns
  <2>3. \A u \in Thread : RequestEvent(thread'[u]) = RequestEvent(thread[u])
    BY <2>2 DEF Turns, RequestEvent
  <2>4. CASE mine # key
    <3>1. EventsOf(key)' = EventsOf(key)
      BY <2>1, <2>4 DEF EventsOf
    <3>2. Appending(key)' = Appending(key) /\ Remembering(key)' = Remembering(key)
      BY <2>1, <2>2, <2>4 DEF Appending, Remembering, Turns, At
    <3> QED
      BY <1>0, <2>1, <2>3, <3>1, <3>2, KeyKept DEF Remembering
  <2>5. CASE mine = key
    <3>1. /\ Appending(key)' = Appending(key) \ {t} /\ t \in Appending(key)
          /\ Remembering(key)' = Remembering(key) \cup {t}
      BY <2>1, <2>2, <2>5 DEF Appending, Remembering, Turns, At
    <3> HIDE DEF new
    <3>2. EventsOf(key)' = EventsOf(key) \cup {new}
      BY <2>1, <2>5 DEF EventsOf
    <3>3. key \notin SeedKey
      BY <1>0, <3>1 DEF KeyInv
    <3>4. /\ IsFiniteSet(EventsOf(key))
          /\ Cardinality(EventsOf(key)) + Cardinality(Appending(key)) <= Cardinality(Thread)
      BY <1>0, <3>3 DEF KeyInv
    <3>5. /\ IsFiniteSet(EventsOf(key) \cup {new}) /\ Cardinality(EventsOf(key)) \in Nat
          /\ Cardinality(EventsOf(key) \cup {new}) \in Nat
          /\ Cardinality(EventsOf(key) \cup {new}) <= Cardinality(EventsOf(key)) + 1
      <4>1. /\ IsFiniteSet(EventsOf(key) \cup {new})
            /\ Cardinality(EventsOf(key) \cup {new}) =
                  IF new \in EventsOf(key) THEN Cardinality(EventsOf(key))
                                           ELSE Cardinality(EventsOf(key)) + 1
        BY <3>4, FS_AddElement
      <4>2. Cardinality(EventsOf(key)) \in Nat
        BY <3>4, FS_CardinalityType
      <4> QED
        BY <4>1, <4>2
    <3>6. /\ Cardinality(Appending(key)) \in Nat /\ Cardinality(Thread) \in Nat
          /\ IsFiniteSet(Appending(key))
      BY ThreadsFinite DEF Appending
    <3>7. Cardinality(Appending(key) \ {t}) = Cardinality(Appending(key)) - 1
      BY <3>1, <3>6, FS_RemoveElement
    <3>8. Cardinality(EventsOf(key) \cup {new}) + Cardinality(Appending(key) \ {t}) <= Cardinality(Thread)
      BY <3>4, <3>5, <3>6, <3>7
    <3>9. \A u \in Remembering(key)' : RequestEvent(thread'[u]) \in events'
      BY <1>0, <2>1, <2>3, <3>1 DEF KeyInv, Remembering, new
    <3>10. key \notin DOMAIN known =>
               EventsOf(key)' \subseteq {RequestEvent(thread'[u]) : u \in Remembering(key)'}
      <4> SUFFICES ASSUME key \notin DOMAIN known, NEW e \in EventsOf(key) \cup {new}
                   PROVE  \E u \in Remembering(key) \cup {t} : e = RequestEvent(thread'[u])
        BY <3>1, <3>2
      <4>1. CASE e \in EventsOf(key)
        <5>1. PICK u \in Remembering(key) : e = RequestEvent(thread[u])
          BY <1>0, <4>1 DEF KeyInv
        <5> QED
          BY <2>3, <5>1 DEF Remembering
      <4>2. CASE e = new
        BY <2>3, <4>2 DEF new
      <4> QED
        BY <4>1, <4>2
    <3> QED
      BY <1>0, <2>1, <3>1, <3>2, <3>3, <3>5, <3>8, <3>9, <3>10 DEF KeyInv
  <2> QED
    BY <2>4, <2>5
<1>6. ASSUME NEW t \in Thread, Remember(t)
      PROVE  KeyInv(key)'
  <2> DEFINE mine == thread[t].request.key
  <2>1. /\ UNCHANGED events /\ At(t, "remembering")
        /\ thread'[t] = Idle /\ \A u \in Thread \ {t} : thread'[u] = thread[u]
        /\ known' = Written(known, mine, RequestEvent(thread[t]).id)
    BY <1>0, <1>6 DEF Remember, Shapes
  <2>2. EventsOf(key)' = EventsOf(key)
    BY <2>1 DEF EventsOf
  <2>3. Appending(key)' = Appending(key)
    BY <2>1 DEF Appending, At, Idle
  <2>4. CASE mine # key
    <3>1. Remembering(key)' = Remembering(key)
      BY <2>1, <2>4 DEF Remembering, At, Idle
    <3>2. /\ key \in DOMAIN known' <=> key \in DOMAIN known
          /\ key \in DOMAIN known => known'[key] = known[key]
      BY <2>1, <2>4 DEF Written
    <3>3. \A u \in Remembering(key) : RequestEvent(thread'[u]) = RequestEvent(thread[u])
      BY <2>1, <2>4 DEF Remembering
    <3>4. {RequestEvent(thread'[u]) : u \in Remembering(key)} =
            {RequestEvent(thread[u]) : u \in Remembering(key)}
      BY <3>3
    <3> QED
      BY <1>0, <2>1, <2>2, <2>3, <3>1, <3>2, <3>3, <3>4 DEF KeyInv
  <2>5. CASE mine = key
    <3>1. Remembering(key)' = Remembering(key) \ {t} /\ t \in Remembering(key)
      BY <2>1, <2>5 DEF Remembering, At, Idle
    <3>2. key \notin SeedKey
      BY <1>0, <3>1 DEF KeyInv
    <3>3. key \in DOMAIN known' /\ known'[key] = RequestEvent(thread[t]).id
      BY <2>1, <2>5 DEF Written
    <3>4. RequestEvent(thread[t]) \in events /\ RequestEvent(thread[t]).key = key
      BY <1>0, <2>5, <3>1 DEF KeyInv, RequestEvent
    <3>5. \A u \in Remembering(key)' : RequestEvent(thread'[u]) \in events'
      BY <1>0, <2>1, <3>1 DEF KeyInv, Remembering
    <3> QED
      BY <1>0, <2>1, <2>2, <2>3, <3>1, <3>2, <3>3, <3>4, <3>5 DEF KeyInv
  <2> QED
    BY <2>4, <2>5
<1>7. CASE \/ UNCHANGED vars
           \/ \E v \in Reviewer :
                 \/ \E id \in AnswerId, verdict \in {"APPROVED", "REJECTED"} :
                       ReadForReview(v, verdict, id)
                 \/ Approve(v) \/ Reject(v)
  BY <1>1, <1>7 DEF vars, ReadForReview, Approve, Reject
<1> QED
  BY <1>2, <1>3, <1>4, <1>5, <1>6, <1>7 DEF Next

LEMMA KeyBegins ==
    ASSUME Init, NEW key \in Key
    PROVE  KeyInv(key)
<1>1. Appending(key) = {} /\ Remembering(key) = {}
  BY DEF Init, Appending, Remembering, At, Idle
<1>2. CASE key \in SeedKey
  <2>1. EventsOf(key) = {SeedEvent(key)} /\ key \in DOMAIN known /\ known[key] = SeedEvent(key).id
    BY <1>2 DEF Init, EventsOf, SeedEvent
  <2>2. SeedEvent(key) \in events /\ SeedEvent(key).key = key
    BY <1>2 DEF Init, SeedEvent
  <2> QED
    BY <1>1, <1>2, <2>1, <2>2 DEF KeyInv
<1>3. CASE key \notin SeedKey
  <2>1. EventsOf(key) = {} /\ key \notin DOMAIN known
    BY <1>3 DEF Init, EventsOf, SeedEvent
  <2>2. Cardinality(EventsOf(key)) + Cardinality(Appending(key)) <= Cardinality(Thread)
    BY <1>1, <2>1, FS_EmptySet, ThreadsFinite
  <2> QED
    BY <1>1, <1>3, <2>1, <2>2, FS_EmptySet DEF KeyInv
<1> QED
  BY <1>2, <1>3

LEMMA AnswersHold == Spec => []AnswersInv
<1>1. Init => AnswersInv
  <2>1. Init => Shapes
    BY DEF Init, Shapes
  <2> QED
    BY <2>1, KeyBegins DEF AnswersInv
<1>2. AnswersInv /\ [Next]_vars => AnswersInv'
  BY ShapesStep, KeyStep DEF AnswersInv
<1> QED
  BY <1>1, <1>2, PTL DEF Spec

(* Retries add no event: two events of a key come from requests that        *)
(* overlap, so that there are never more than threads, and the snapshot's   *)
(* own keys have no second event.                                           *)
THEOREM RetriesHarmless == Spec => []RetriesAddNoEvent
<1>1. AnswersInv => RetriesAddNoEvent
  <2> SUFFICES ASSUME AnswersInv, NEW key \in Key
               PROVE  Cardinality(EventsOf(key)) <= IF key \in SeedKey THEN 1 ELSE Cardinality(Thread)
    BY DEF RetriesAddNoEvent, EventsOf
  <2>1. KeyInv(key)
    BY DEF AnswersInv
  <2>2. CASE key \in SeedKey
    BY <2>1, <2>2, FS_Singleton DEF KeyInv
  <2>3. CASE key \notin SeedKey
    <3>1. /\ IsFiniteSet(EventsOf(key))
          /\ Cardinality(EventsOf(key)) + Cardinality(Appending(key)) <= Cardinality(Thread)
      BY <2>1, <2>3 DEF KeyInv
    <3>2. Cardinality(EventsOf(key)) \in Nat /\ Cardinality(Appending(key)) \in Nat
          /\ Cardinality(Thread) \in Nat
      BY <3>1, ThreadsFinite, FS_CardinalityType DEF Appending
    <3> QED
      BY <2>3, <3>1, <3>2
  <2> QED
    BY <2>2, <2>3
<1> QED
  BY <1>1, AnswersHold, PTL

(* A request that ends, because its key is known or because it has made it  *)
(* so, ends over an event of that key which the key stands for.             *)
LEMMA EndsFound ==
    ASSUME AnswersInv, TypeOK, Next, NEW t \in Thread,
           thread[t].at \in {"looking", "appending", "remembering"}, thread'[t].at = "idle"
    PROVE  /\ thread[t].request.key \in DOMAIN known'
           /\ \E e \in events' : e.key = thread[t].request.key
                                   /\ e.id = known'[thread[t].request.key]
<1> DEFINE key == thread[t].request.key
<1>1. Shapes /\ key \in Key /\ KeyInv(key)
  BY ServingThreads DEF AnswersInv, Serving, Request
<1>2. CASE Lookup(t)
  <2>1. key \in DOMAIN known
    BY <1>1, <1>2 DEF Lookup, Shapes
  <2> QED
    BY <1>1, <1>2, <2>1 DEF Lookup, KeyInv
<1>3. CASE Remember(t)
  <2>1. RequestEvent(thread[t]) \in events /\ RequestEvent(thread[t]).key = key
    BY <1>1, <1>3 DEF Remember, KeyInv, Remembering, RequestEvent
  <2>2. key \in DOMAIN known' /\ known'[key] = RequestEvent(thread[t]).id
    BY <1>3 DEF Remember, Written
  <2> QED
    BY <1>3, <2>1, <2>2 DEF Remember
<1>4. CASE AppendEvent(t)
  <2>1. thread[t] # Idle /\ Goes(t, "remembering")
    BY <1>4 DEF AppendEvent, At, Idle
  <2>2. Turns(t, [at |-> "remembering", request |-> thread[t].request,
                  number |-> thread[t].number])
    BY <1>1, <2>1, GoesTurns, Zenon
  <2>3. thread'[t] = [at |-> "remembering", request |-> thread[t].request,
                      number |-> thread[t].number]
    BY <2>2, Zenon DEF Turns
  <2> QED
    BY <2>3
<1>5. ASSUME NEW u \in Thread, u # t,
             \/ \E r \in Request : Arrive(u, r)
             \/ Store(u) \/ Lookup(u) \/ AppendEvent(u) \/ Remember(u)
      PROVE  thread'[t] = thread[t]
  BY <1>1, <1>5 DEF Arrive, Store, Lookup, AppendEvent, Remember, Goes, Shapes
<1>6. ~Store(t) /\ ~\E r \in Request : Arrive(t, r)
  BY DEF Store, Arrive, At
<1>7. ASSUME NEW v \in Reviewer,
             \/ \E id \in AnswerId, verdict \in {"APPROVED", "REJECTED"} : ReadForReview(v, verdict, id)
             \/ Approve(v) \/ Reject(v)
      PROVE  thread'[t] = thread[t]
  BY <1>7 DEF ReadForReview, Approve, Reject
<1> QED
  BY <1>2, <1>3, <1>4, <1>5, <1>6, <1>7 DEF Next

(* Whoever ends a request leaves its key in the store with its event, for   *)
(* any number of overlapping requests and any keys.                         *)
THEOREM RequestsFound == Spec => AnsweredRequestsAreFound
<1> DEFINE Found ==
      \A t \in Thread :
          /\ thread[t].at \in {"looking", "appending", "remembering"}
          /\ thread'[t].at = "idle"
          => LET key == thread[t].request.key
             IN /\ key \in DOMAIN known'
                /\ \E e \in events' : e.key = key /\ e.id = known'[key]
<1>1. AnswersInv /\ TypeOK /\ [Next]_vars => [Found]_vars
  BY EndsFound
<1>2. AnsweredRequestsAreFound <=> [][Found]_vars
  BY DEF AnsweredRequestsAreFound
<1> HIDE DEF Found
<1> QED
  BY <1>1, <1>2, AnswersHold, AnswersTyped, PTL DEF Spec

-----------------------------------------------------------------------------
(* The weekly plan. *)

(* The ranking is a strict order of all conversations. *)
LEMMA PrecedesOrders ==
    ASSUME utility \in [Conversation -> Utility],
           NEW c \in Conversation, NEW d \in Conversation, NEW e \in Conversation
    PROVE  /\ ~Precedes(c, c)
           /\ Precedes(c, d) => ~Precedes(d, c)
           /\ c # d => Precedes(c, d) \/ Precedes(d, c)
           /\ Precedes(c, d) /\ Precedes(d, e) => Precedes(c, e)
<1>0. (\A u \in Utility : u \in Int) /\ \A k \in Conversation : k \in Int
  BY PlanningAssumption DEF PlanningAssumption
<1>1. /\ utility[c] \in Int /\ utility[d] \in Int /\ utility[e] \in Int
      /\ c \in Int /\ d \in Int /\ e \in Int
  <2>1. utility[c] \in Utility /\ utility[d] \in Utility /\ utility[e] \in Utility
    OBVIOUS
  <2> QED
    BY <1>0, <2>1
<1> QED
  BY <1>1 DEF Precedes

LEMMA Selections ==
    ASSUME NEW S \in SUBSET Conversation
    PROVE  IsFiniteSet(S) /\ Cardinality(S) \in Nat
BY PlanningAssumption, FS_Subset, FS_CardinalityType DEF PlanningAssumption

(* No two conversations of a selection have equally many before them, so    *)
(* that every place is taken and Ranked is the selection in its order.      *)
LEMMA RankedInOrder ==
    ASSUME utility \in [Conversation -> Utility], NEW S \in SUBSET Conversation
    PROVE  /\ DOMAIN Ranked(S) = 1 .. Cardinality(S)
           /\ \A i \in 1 .. Cardinality(S) : Ranked(S)[i] \in S
           /\ \A c \in S : \E i \in 1 .. Cardinality(S) : Ranked(S)[i] = c
           /\ \A i, j \in 1 .. Cardinality(S) : i < j => Precedes(Ranked(S)[i], Ranked(S)[j])
<1> DEFINE Before(c) == {d \in S : Precedes(d, c)}
           n == Cardinality(S)
<1>1. IsFiniteSet(S) /\ n \in Nat
  BY Selections
<1>2. PICK before : before = [c \in S |-> Cardinality(Before(c))]
  OBVIOUS
<1>3. DOMAIN before = S /\ \A c \in S : before[c] = Cardinality(Before(c))
  BY <1>2
<1>4. \A c \in S : IsFiniteSet(Before(c))
  BY Selections
<1>14. \A c \in S : before[c] \in Nat
  BY <1>3, Selections
<1>15. \A c, d \in S : ~Precedes(c, c) /\ (c = d \/ Precedes(c, d) \/ Precedes(d, c))
  BY PrecedesOrders
<1>5. ASSUME NEW c \in S, NEW d \in S, Precedes(c, d) PROVE before[c] < before[d]
  <2>1. Before(c) \subseteq Before(d) /\ c \in Before(d) /\ c \notin Before(c)
    BY <1>5, PrecedesOrders
  <2>2. Before(c) # Before(d)
    BY <2>1
  <2> HIDE DEF Before
  <2>3. before[c] <= before[d] /\ (before[d] = before[c] => Before(d) = Before(c))
    BY <1>3, <1>4, <2>1, FS_Subset
  <2> QED
    BY <1>14, <2>2, <2>3
<1>6. ASSUME NEW c \in S PROVE before[c] < n
  <2>1. Before(c) \subseteq S /\ c \notin Before(c)
    BY PrecedesOrders
  <2>2. Before(c) # S
    BY <2>1
  <2> HIDE DEF Before
  <2>3. before[c] <= n /\ (n = before[c] => Before(c) = S)
    BY <1>1, <1>3, <2>1, FS_Subset
  <2> QED
    BY <1>1, <1>14, <2>2, <2>3
<1>7. \A c, d \in S : before[c] = before[d] => c = d
  BY <1>14, <1>5, <1>15
<1>8. \A i \in 1 .. n : \E c \in S : before[c] = i - 1
  <2> DEFINE place == [c \in S |-> before[c] + 1]
  <2>1. place \in [S -> 1 .. n]
    BY <1>1, <1>14, <1>6
  <2>2. \A c, d \in S : place[c] = place[d] => c = d
    BY <1>14, <1>7
  <2>3. IsFiniteSet(1 .. n) /\ Cardinality(1 .. n) = n
    BY <1>1, FS_Interval
  <2> HIDE DEF place, n
  <2>4. place \in Injection(S, 1 .. n)
    BY <2>1, <2>2 DEF Injection, IsInjective
  <2>5. place \in Surjection(S, 1 .. n)
    BY <2>3, <2>4, FS_Injection DEF n
  <2>6. \A i \in 1 .. n : \E c \in S : place[c] = i
    BY <2>5 DEF Surjection
  <2> QED
    BY <1>1, <1>14, <2>6 DEF place
<1>9. \A i \in 1 .. n : Ranked(S)[i] = CHOOSE c \in S : Cardinality(Before(c)) = i - 1
  BY DEF Ranked
<1>10. ASSUME NEW i \in 1 .. n
       PROVE  Ranked(S)[i] \in S /\ before[Ranked(S)[i]] = i - 1
  <2>1. \E c \in S : Cardinality(Before(c)) = i - 1
    BY <1>3, <1>8
  <2> HIDE DEF Before
  <2> QED
    BY <1>3, <1>9, <2>1
<1>11. DOMAIN Ranked(S) = 1 .. n
  BY DEF Ranked
<1> HIDE DEF n
<1>12. ASSUME NEW c \in S PROVE \E i \in 1 .. n : Ranked(S)[i] = c
  <2>1. PICK i \in 1 .. n : i - 1 = before[c]
    BY <1>1, <1>14, <1>6
  <2> QED
    BY <1>7, <1>10, <2>1
<1>13. ASSUME NEW i \in 1 .. n, NEW j \in 1 .. n, i < j
       PROVE  Precedes(Ranked(S)[i], Ranked(S)[j])
  <2>1. PICK c \in S, d \in S : /\ c = Ranked(S)[i] /\ d = Ranked(S)[j]
                                /\ before[c] < before[d]
    BY <1>1, <1>10, <1>13
  <2>2. ~(c = d) /\ ~Precedes(d, c)
    BY <1>14, <1>5, <1>15, <2>1
  <2> QED
    BY <2>1, <2>2, PrecedesOrders
<1> QED
  BY <1>10, <1>11, <1>12, <1>13 DEF n

LEMMA RankedIsSelection ==
    ASSUME utility \in [Conversation -> Utility], NEW S \in SUBSET Conversation
    PROVE  /\ Ranked(S) \in Seq(Conversation) /\ Len(Ranked(S)) = Cardinality(S)
           /\ ToSet(Ranked(S)) = S
           /\ IsInjective(Ranked(S))
<1>1. Cardinality(S) \in Nat
  BY Selections
<1>2. IsInjective(Ranked(S))
  <2>1. ASSUME NEW i \in 1 .. Cardinality(S), NEW j \in 1 .. Cardinality(S), i < j
        PROVE  Ranked(S)[i] # Ranked(S)[j]
    BY <2>1, RankedInOrder, PrecedesOrders
  <2> QED
    BY <1>1, <2>1, RankedInOrder DEF IsInjective
<1>3. Ranked(S) \in [1 .. Cardinality(S) -> Conversation]
  BY RankedInOrder DEF Ranked
<1>4. ToSet(Ranked(S)) = S
  <2>1. ToSet(Ranked(S)) = {Ranked(S)[i] : i \in 1 .. Cardinality(S)}
    BY RankedInOrder DEF ToSet
  <2> QED
    BY <2>1, RankedInOrder
<1>5. ASSUME NEW ranked, ranked \in [1 .. Cardinality(S) -> Conversation]
      PROVE  ranked \in Seq(Conversation) /\ Len(ranked) = Cardinality(S)
  BY <1>1, <1>5
<1> QED
  BY <1>2, <1>3, <1>4, <1>5

(* What the week's plan rests on.  The greedy loop looks at the candidates  *)
(* from the best down, and whoever it has passed over has no place beside   *)
(* the better ones that were chosen.                                        *)
HasReason(c) == c \in chosen \/ ~WithinLimits({c} \cup {d \in chosen : Precedes(d, c)})

PlanningInv ==
    /\ attested \in [Conversation -> Attestation]
    /\ utility \in [Conversation -> Utility]
    /\ chosen \subseteq Eligible
    /\ phase \in {"planning", "failed"} => chosen = {} /\ plan = NoPlan
    /\ phase = "greedy" =>
           /\ plan = NoPlan
           /\ todo \in Seq(Eligible)
           /\ \A i, j \in DOMAIN todo : i < j => Precedes(todo[i], todo[j])
           /\ \A c \in chosen : \A i \in DOMAIN todo : Precedes(c, todo[i])
           /\ \A c \in Eligible : HasReason(c) \/ \E i \in DOMAIN todo : todo[i] = c
    /\ phase = "published" => plan.entries = Ranked(chosen)
    /\ phase \in {"greedy", "published"} => WithinLimits(chosen)
    /\ plan.status = "DEGRADED_FALLBACK" => \A c \in Eligible : HasReason(c)
    /\ phase \in {"planning", "greedy", "published", "failed"}

LEMMA PlanningBegins == PlanningInit => PlanningInv
BY DEF PlanningInit, PlanningInv, NoPlan

LEMMA PublishedKeeps ==
    ASSUME PlanningInv, NEW status, NEW selection \in SUBSET Eligible, Published(status, selection),
           chosen' = selection, WithinLimits(selection), UNCHANGED <<attested, utility>>,
           status = "DEGRADED_FALLBACK" => \A c \in Eligible : HasReason(c)'
    PROVE  PlanningInv'
<1>1. Eligible' = Eligible /\ WithinLimits(selection)' = WithinLimits(selection)
      /\ Ranked(selection)' = Ranked(selection)
  BY DEF Eligible, GatesOf, WithinLimits, Groups, Beside, Ranked, Precedes
<1>2. /\ phase' = "published" /\ plan'.status = status /\ plan'.entries = Ranked(selection)
  BY DEF Published
<1> QED
  BY <1>1, <1>2 DEF PlanningInv

LEMMA GroupsTyped == /\ DOMAIN Groups = 1 .. 4
                     /\ \A i \in DOMAIN Groups : Groups[i].most \in Nat
<1>1. MaxPerClient \in Nat /\ MaxPerClientRole \in Nat /\ MaxPerFamily \in Nat /\ MaxPerSector \in Nat
  BY PlanningAssumption DEF PlanningAssumption
<1> QED
  BY <1>1 DEF Groups

LEMMA EligibleConversations == Eligible \subseteq Conversation
BY DEF Eligible

(* Part of a selection within the limits is within the limits. *)
LEMMA LimitsOfPart ==
    ASSUME NEW S \in SUBSET Conversation, NEW T \in SUBSET S, WithinLimits(S)
    PROVE  WithinLimits(T)
<1>1. /\ IsFiniteSet(S) /\ IsFiniteSet(T)
      /\ Cardinality(S) \in Nat /\ Cardinality(T) \in Nat /\ Cardinality(T) <= Cardinality(S)
  BY Selections, FS_Subset
<1>2. Cardinality(T) <= Capacity
  BY <1>1, PlanningAssumption DEF WithinLimits, PlanningAssumption
<1>3. ASSUME NEW i \in DOMAIN Groups, NEW c \in T
      PROVE  Cardinality(Beside(c, T, Groups[i])) <= Groups[i].most
  <2> DEFINE part == Beside(c, T, Groups[i])
             whole == Beside(c, S, Groups[i])
  <2>1. part \subseteq whole /\ whole \subseteq S /\ part \subseteq T
    BY DEF Beside
  <2>2. Cardinality(whole) <= Groups[i].most /\ Groups[i].most \in Nat
    BY GroupsTyped DEF WithinLimits
  <2> HIDE DEF part, whole
  <2>3. Cardinality(part) \in Nat /\ Cardinality(whole) \in Nat /\ IsFiniteSet(whole)
    BY <2>1, Selections
  <2>4. Cardinality(part) <= Cardinality(whole)
    BY <2>1, <2>3, FS_Subset
  <2>5. Cardinality(part) <= Groups[i].most
    BY <2>2, <2>3, <2>4
  <2> QED
    BY <2>5 DEF part
<1> QED
  BY <1>2, <1>3 DEF WithinLimits

(* Who joins a group is counted once more in it. *)
LEMMA GroupGrows ==
    ASSUME NEW S \in SUBSET Conversation, NEW h \in Conversation, h \notin S,
           NEW i \in DOMAIN Groups
    PROVE  /\ Cardinality(Beside(h, S, Groups[i])) \in Nat
           /\ Cardinality(Beside(h, S \cup {h}, Groups[i]))
                  = Cardinality(Beside(h, S, Groups[i])) + 1
           /\ Cardinality(S) \in Nat /\ Cardinality(S \cup {h}) = Cardinality(S) + 1
           /\ \A c \in S :
                  \/ Beside(c, S \cup {h}, Groups[i]) = Beside(h, S \cup {h}, Groups[i])
                  \/ Beside(c, S \cup {h}, Groups[i]) = Beside(c, S, Groups[i])
<1> DEFINE beside == Beside(h, S, Groups[i])
<1>1. /\ Beside(h, S \cup {h}, Groups[i]) = beside \cup {h}
      /\ h \notin beside /\ beside \subseteq S
  BY DEF Beside
<1>2. \A c \in S :
          \/ Beside(c, S \cup {h}, Groups[i]) = Beside(h, S \cup {h}, Groups[i])
          \/ Beside(c, S \cup {h}, Groups[i]) = Beside(c, S, Groups[i])
  BY DEF Beside
<1> HIDE DEF beside
<1>3. IsFiniteSet(beside) /\ Cardinality(beside) \in Nat
  BY <1>1, Selections
<1>4. Cardinality(beside \cup {h}) = Cardinality(beside) + 1
  BY <1>1, <1>3, FS_AddElement
<1>5. Cardinality(S) \in Nat /\ Cardinality(S \cup {h}) = Cardinality(S) + 1
  BY Selections, FS_AddElement
<1> QED
  BY <1>1, <1>2, <1>3, <1>4, <1>5 DEF beside

LEMMA RoomForOne ==
    ASSUME NEW S \in SUBSET Conversation, NEW h \in Conversation, h \notin S, WithinLimits(S)
    PROVE  WithinLimits(S \cup {h}) <=>
               /\ Cardinality(S) < Capacity
               /\ \A i \in DOMAIN Groups :
                      Cardinality(Beside(h, S, Groups[i])) < Groups[i].most
<1>1. Capacity \in Nat
  BY PlanningAssumption DEF PlanningAssumption
<1>4. Cardinality(S) \in Nat /\ Cardinality(S \cup {h}) = Cardinality(S) + 1
  BY Selections, FS_AddElement
<1>5. \A i \in DOMAIN Groups :
          /\ Cardinality(Beside(h, S, Groups[i])) \in Nat /\ Groups[i].most \in Nat
          /\ Cardinality(Beside(h, S \cup {h}, Groups[i]))
                 = Cardinality(Beside(h, S, Groups[i])) + 1
  BY GroupGrows, GroupsTyped
<1>2. ASSUME WithinLimits(S \cup {h})
      PROVE  /\ Cardinality(S) < Capacity
             /\ \A i \in DOMAIN Groups : Cardinality(Beside(h, S, Groups[i])) < Groups[i].most
  <2>1. ASSUME NEW i \in DOMAIN Groups
        PROVE  Cardinality(S) < Capacity /\ Cardinality(Beside(h, S, Groups[i])) < Groups[i].most
    <3>1. /\ Cardinality(S \cup {h}) <= Capacity
          /\ Cardinality(Beside(h, S \cup {h}, Groups[i])) <= Groups[i].most
      BY <1>2 DEF WithinLimits
    <3> QED
      BY <1>1, <1>4, <1>5, <3>1
  <2> QED
    BY <2>1, GroupsTyped
<1>3. ASSUME /\ Cardinality(S) < Capacity
             /\ \A i \in DOMAIN Groups : Cardinality(Beside(h, S, Groups[i])) < Groups[i].most
      PROVE  WithinLimits(S \cup {h})
  <2>1. Cardinality(S \cup {h}) <= Capacity
    BY <1>1, <1>3, <1>4
  <2>2. ASSUME NEW i \in DOMAIN Groups, NEW c \in S \cup {h}
        PROVE  Cardinality(Beside(c, S \cup {h}, Groups[i])) <= Groups[i].most
    <3>1. Cardinality(Beside(h, S \cup {h}, Groups[i])) <= Groups[i].most
      BY <1>3, <1>5
    <3>2. c \in S => Cardinality(Beside(c, S, Groups[i])) <= Groups[i].most
      BY DEF WithinLimits
    <3> QED
      BY <3>1, <3>2, GroupGrows
  <2> QED
    BY <2>1, <2>2 DEF WithinLimits
<1> QED
  BY <1>2, <1>3

(* What no step changes: the candidates, their order and the limits. *)
LEMMA StillRanked ==
    ASSUME UNCHANGED <<attested, utility>>
    PROVE  /\ Eligible' = Eligible
           /\ \A c, d : Precedes(c, d)' = Precedes(c, d)
           /\ \A S : WithinLimits(S)' = WithinLimits(S)
BY DEF Eligible, GatesOf, WithinLimits, Groups, Beside, Precedes

(* Adding to what is chosen keeps the reasons there are. *)
LEMMA ReasonsStay ==
    ASSUME UNCHANGED <<attested, utility>>, chosen \subseteq chosen', chosen' \subseteq Conversation,
           NEW c \in Conversation, HasReason(c)
    PROVE  HasReason(c)'
<1>1. CASE c \in chosen
  BY <1>1 DEF HasReason
<1>2. CASE ~WithinLimits({c} \cup {d \in chosen : Precedes(d, c)})
  <2>1. ~WithinLimits({c} \cup {d \in chosen' : Precedes(d, c)})
    BY <1>2, LimitsOfPart
  <2>2. {d \in chosen' : Precedes(d, c)'} = {d \in chosen' : Precedes(d, c)}
    BY StillRanked
  <2> QED
    BY <2>1, <2>2, StillRanked DEF HasReason
<1> QED
  BY <1>1, <1>2 DEF HasReason

(* The greedy loop looks at one candidate. *)
LEMMA ConsiderKeeps ==
    ASSUME PlanningInv, Consider
    PROVE  PlanningInv'
<1>0. PICK h : h = Head(todo)
  OBVIOUS
<1>1. /\ phase = "greedy" /\ todo # <<>> /\ Cardinality(chosen) < Capacity
      /\ todo' = Tail(todo) /\ UNCHANGED <<attested, utility, phase, plan>>
      /\ chosen' = IF HasRoom(h) THEN chosen \cup {h} ELSE chosen
  BY <1>0 DEF Consider
<1>2. /\ chosen \subseteq Eligible /\ Eligible \subseteq Conversation
      /\ todo \in Seq(Eligible)
      /\ \A i, j \in DOMAIN todo : i < j => Precedes(todo[i], todo[j])
      /\ \A c \in chosen : \A i \in DOMAIN todo : Precedes(c, todo[i])
      /\ \A c \in Eligible : HasReason(c) \/ \E i \in DOMAIN todo : todo[i] = c
      /\ utility \in [Conversation -> Utility]
  BY <1>1, EligibleConversations DEF PlanningInv
<1>3. WithinLimits(chosen)
  BY <1>1 DEF PlanningInv
<1>4. /\ Len(todo) \in Nat \ {0} /\ DOMAIN todo = 1 .. Len(todo) /\ h = todo[1] /\ h \in Eligible
      /\ Tail(todo) \in Seq(Eligible) /\ DOMAIN Tail(todo) = 1 .. Len(todo) - 1
      /\ \A i \in 1 .. Len(todo) - 1 : Tail(todo)[i] = todo[i + 1]
  BY <1>0, <1>1, <1>2
<1>5. /\ \A i, j \in DOMAIN todo' : i < j => Precedes(todo'[i], todo'[j])
      /\ \A i \in DOMAIN todo' : Precedes(h, todo'[i]) /\ \A c \in chosen : Precedes(c, todo'[i])
  BY <1>1, <1>2, <1>4
<1>15. ASSUME NEW i \in DOMAIN todo, todo[i] # h PROVE \E j \in DOMAIN todo' : todo'[j] = todo[i]
  <2>1. i - 1 \in 1 .. Len(todo) - 1 /\ i = (i - 1) + 1
    BY <1>4, <1>15
  <2> QED
    BY <1>1, <1>4, <2>1
<1>6. \A c \in chosen : Precedes(c, h)
  BY <1>2, <1>4
<1>7. h \notin chosen /\ {d \in chosen : Precedes(d, h)} = chosen
  BY <1>2, <1>4, <1>6, PrecedesOrders
<1>8. /\ chosen \subseteq chosen' /\ chosen' \subseteq Eligible
      /\ \A c \in chosen' : c \in chosen \/ c = h
  BY <1>1, <1>2, <1>4
<1>9. WithinLimits(chosen')
  BY <1>1, <1>2, <1>3, <1>4, <1>7, RoomForOne DEF HasRoom
<1>10. HasReason(h)'
  <2>1. CASE HasRoom(h)
    BY <1>1, <2>1 DEF HasReason
  <2>2. CASE ~HasRoom(h)
    <3>1. ~WithinLimits(chosen \cup {h})
      BY <1>2, <1>3, <1>4, <1>7, <2>2, RoomForOne DEF HasRoom
    <3>2. HasReason(h)
      BY <1>7, <3>1 DEF HasReason
    <3> QED
      BY <1>1, <1>2, <1>4, <1>8, <3>2, ReasonsStay
  <2> QED
    BY <2>1, <2>2
<1>11. \A c \in Eligible : HasReason(c)' \/ \E i \in DOMAIN todo' : todo'[i] = c
  BY <1>1, <1>2, <1>15, <1>8, <1>10, ReasonsStay
<1>12. plan = NoPlan
  BY <1>1 DEF PlanningInv
<1>13. /\ attested' \in [Conversation -> Attestation] /\ utility' \in [Conversation -> Utility]
       /\ chosen' \subseteq Eligible' /\ todo' \in Seq(Eligible')
  BY <1>1, <1>4, <1>8, StillRanked DEF PlanningInv
<1>14. WithinLimits(chosen)'
  BY <1>9 DEF WithinLimits, Groups, Beside
<1>17. /\ (\A i, j \in DOMAIN todo : i < j => Precedes(todo[i], todo[j]))'
       /\ (\A c \in chosen : \A i \in DOMAIN todo : Precedes(c, todo[i]))'
  BY <1>1, <1>5, <1>8 DEF Precedes
<1>18. (\A c \in Eligible : HasReason(c) \/ \E i \in DOMAIN todo : todo[i] = c)'
  BY <1>1, <1>11, StillRanked
<1> QED
  BY <1>1, <1>12, <1>13, <1>14, <1>17, <1>18 DEF PlanningInv, NoPlan

LEMMA PlanningStep == PlanningInv /\ [PlanningNext]_planningVars => PlanningInv'
<1> SUFFICES ASSUME PlanningInv, [PlanningNext]_planningVars PROVE PlanningInv'
  OBVIOUS
<1>0. Eligible \subseteq Conversation /\ utility \in [Conversation -> Utility]
  BY EligibleConversations DEF PlanningInv
<1>1. CASE NothingToPlan
  BY <1>1, StillRanked DEF NothingToPlan, PlanningInv, NoPlan
<1>2. CASE Solve
  <2>1. PICK selection \in SUBSET Eligible :
            WithinLimits(selection) /\ chosen' = selection /\ Published("OPTIMAL", selection)
    BY <1>2 DEF Solve
  <2>2. UNCHANGED <<attested, utility>>
    BY <1>2 DEF Solve
  <2> QED
    BY <2>1, <2>2, PublishedKeeps
<1>3. CASE SolverFails
  <2>1. /\ phase' = "greedy" /\ todo' = Ranked(Eligible) /\ chosen = {}
        /\ UNCHANGED <<attested, utility, chosen, plan>> /\ plan = NoPlan
    BY <1>3 DEF SolverFails, PlanningInv
  <2>2. /\ DOMAIN todo' = 1 .. Cardinality(Eligible)
        /\ \A i \in DOMAIN todo' : todo'[i] \in Eligible
        /\ \A c \in Eligible : \E i \in DOMAIN todo' : todo'[i] = c
        /\ \A i, j \in DOMAIN todo' : i < j => Precedes(todo'[i], todo'[j])
    BY <1>0, <2>1, RankedInOrder
  <2>3. todo' \in Seq(Eligible)
    <3>1. todo' \in Seq(Conversation)
      BY <1>0, <2>1, RankedIsSelection
    <3>2. ASSUME NEW s \in Seq(Conversation), \A i \in DOMAIN s : s[i] \in Eligible
          PROVE  s \in Seq(Eligible)
      BY <3>2
    <3> QED
      BY <2>2, <3>1, <3>2
  <2>4. WithinLimits({})
    <3>1. Cardinality({}) = 0 /\ Capacity \in Nat
      BY FS_EmptySet, PlanningAssumption DEF PlanningAssumption
    <3> QED
      BY <3>1 DEF WithinLimits
  <2>5. WithinLimits(chosen)'
    BY <2>1, <2>4 DEF WithinLimits, Groups, Beside
  <2>6. (\A i, j \in DOMAIN todo : i < j => Precedes(todo[i], todo[j]))'
    BY <2>1, <2>2 DEF Precedes
  <2>7. (\A c \in Eligible : HasReason(c) \/ \E i \in DOMAIN todo : todo[i] = c)'
    BY <2>1, <2>2, StillRanked
  <2> QED
    BY <2>1, <2>3, <2>5, <2>6, <2>7, StillRanked DEF PlanningInv, NoPlan
<1>4. CASE Consider
  BY <1>4, ConsiderKeeps
<1>5. CASE FinishGreedy
  <2>1. /\ phase = "greedy" /\ (todo = <<>> \/ Cardinality(chosen) >= Capacity)
        /\ Published("DEGRADED_FALLBACK", chosen) /\ UNCHANGED <<attested, utility, chosen>>
    BY <1>5 DEF FinishGreedy
  <2>2. chosen \subseteq Eligible /\ WithinLimits(chosen)
    BY <1>5 DEF FinishGreedy, PlanningInv
  <2>3. ASSUME NEW c \in Eligible PROVE HasReason(c)
    <3>1. HasReason(c) \/ \E i \in DOMAIN todo : todo[i] = c
      BY <1>5 DEF FinishGreedy, PlanningInv
    <3>2. ASSUME NEW i \in DOMAIN todo, todo[i] = c PROVE HasReason(c)
      <4>1. \A d \in chosen : Precedes(d, c)
        BY <1>5, <3>2 DEF FinishGreedy, PlanningInv
      <4>2. c \notin chosen /\ {d \in chosen : Precedes(d, c)} = chosen
        BY <1>0, <2>2, <4>1, PrecedesOrders
      <4>3. todo # <<>>
        BY <3>2
      <4>4. Cardinality(chosen) \in Nat /\ Capacity \in Nat
        BY <1>0, <2>2, Selections, PlanningAssumption DEF PlanningAssumption
      <4>5. ~(Cardinality(chosen) < Capacity)
        BY <1>5, <4>3, <4>4 DEF FinishGreedy
      <4>6. ~WithinLimits(chosen \cup {c})
        BY <1>0, <2>2, <4>2, <4>5, RoomForOne
      <4> QED
        BY <4>2, <4>6 DEF HasReason
    <3> QED
      BY <3>1, <3>2
  <2>4. \A c \in Eligible : HasReason(c)'
    BY <1>0, <2>1, <2>2, <2>3, ReasonsStay
  <2> QED
    BY <2>1, <2>2, <2>4, PublishedKeeps
<1>6. CASE UNCHANGED planningVars
  <2>1. UNCHANGED <<attested, utility, phase, todo, chosen, plan>>
    BY <1>6 DEF planningVars
  <2>2. /\ Eligible' = Eligible
        /\ (\A c \in Eligible : HasReason(c))' = \A c \in Eligible : HasReason(c)
        /\ WithinLimits(chosen)' = WithinLimits(chosen)
        /\ Ranked(chosen)' = Ranked(chosen)
        /\ \A c, d : Precedes(c, d)' = Precedes(c, d)
        /\ \A c : HasReason(c)' = HasReason(c)
    BY <2>1, StillRanked DEF HasReason, WithinLimits, Groups, Beside, Ranked, Precedes
  <2> QED
    BY <2>1, <2>2 DEF PlanningInv
<1> QED
  BY <1>1, <1>2, <1>3, <1>4, <1>5, <1>6 DEF PlanningNext

LEMMA PlanningHolds == PlanningSpec => []PlanningInv
BY PlanningBegins, PlanningStep, PTL DEF PlanningSpec

LEMMA PlanIsChosen ==
    ASSUME PlanningInv
    PROVE  \/ /\ plan.entries = <<>> /\ InPlan = {}
           \/ /\ InPlan = chosen /\ WithinLimits(chosen) /\ IsInjective(plan.entries)
<1>1. CASE phase = "published"
  <2>1. /\ plan.entries = Ranked(chosen) /\ WithinLimits(chosen) /\ chosen \in SUBSET Conversation
        /\ utility \in [Conversation -> Utility]
    BY <1>1, EligibleConversations DEF PlanningInv
  <2> QED
    BY <2>1, RankedIsSelection DEF InPlan
<1>2. CASE phase # "published"
  <2>1. plan = NoPlan
    BY <1>2 DEF PlanningInv
  <2> QED
    BY <2>1 DEF NoPlan, InPlan, ToSet
<1> QED
  BY <1>1, <1>2

(* However it was made, the published plan keeps every limit, and so does   *)
(* whatever part of it a caller is shown.                                   *)
THEOREM PlansKeepLimits == PlanningSpec => []PlanKeepsLimits
<1>1. ASSUME PlanningInv PROVE PlanKeepsLimits
  <2>1. IsInjective(plan.entries)
    BY <1>1, PlanIsChosen DEF IsInjective
  <2>2. ASSUME NEW clients \in SUBSET {Place[c].client : c \in Conversation}
        PROVE  /\ Projection(clients) \subseteq chosen /\ Projection(clients) \in SUBSET Conversation
               /\ Projection(clients) # {} => WithinLimits(Projection(clients))
               /\ Cardinality(Projection(clients)) <= Capacity
    <3>1. Projection(clients) = {} \/ (Projection(clients) \subseteq chosen /\ WithinLimits(chosen))
      BY <1>1, PlanIsChosen DEF Projection
    <3>2. chosen \in SUBSET Conversation
      BY <1>1, EligibleConversations DEF PlanningInv
    <3>3. Cardinality({}) = 0 /\ Capacity \in Nat
      BY FS_EmptySet, PlanningAssumption DEF PlanningAssumption
    <3>4. CASE Projection(clients) = {}
      BY <3>3, <3>4
    <3>5. CASE Projection(clients) \subseteq chosen /\ WithinLimits(chosen)
      <4>1. WithinLimits(Projection(clients))
        BY <3>2, <3>5, LimitsOfPart
      <4> QED
        BY <3>2, <3>5, <4>1 DEF WithinLimits
    <3> QED
      BY <3>1, <3>4, <3>5
  <2>3. ASSUME NEW clients \in SUBSET {Place[c].client : c \in Conversation},
               NEW c \in Projection(clients)
        PROVE  "FAIL" \notin {GatesOf(c)[g].status : g \in Gate} /\ c \notin Exclusive
    BY <1>1, <2>2, <2>3 DEF PlanningInv, Eligible, Blocked
  <2>4. ASSUME NEW S \in SUBSET Conversation, WithinLimits(S), NEW c \in S
        PROVE  /\ Cardinality({d \in S : Place[d].client = Place[c].client}) <= MaxPerClient
               /\ Cardinality({d \in S : <<Place[d].client, Place[d].role>>
                                             = <<Place[c].client, Place[c].role>>})
                      <= MaxPerClientRole
               /\ Cardinality({d \in S : Place[d].family = Place[c].family}) <= MaxPerFamily
               /\ Cardinality({d \in S : Place[d].sector = Place[c].sector}) <= MaxPerSector
    <3>1. \A i \in 1 .. 4 : Cardinality(Beside(c, S, Groups[i])) <= Groups[i].most
      BY <2>4, GroupsTyped DEF WithinLimits
    <3>2. /\ Beside(c, S, Groups[1]) = {d \in S : Place[d].client = Place[c].client}
          /\ Beside(c, S, Groups[2]) = {d \in S : <<Place[d].client, Place[d].role>>
                                                      = <<Place[c].client, Place[c].role>>}
          /\ Beside(c, S, Groups[3]) = {d \in S : Place[d].family = Place[c].family}
          /\ Beside(c, S, Groups[4]) = {d \in S : Place[d].sector = Place[c].sector}
      BY DEF Beside, Groups
    <3>3. /\ Groups[1].most = MaxPerClient /\ Groups[2].most = MaxPerClientRole
          /\ Groups[3].most = MaxPerFamily /\ Groups[4].most = MaxPerSector
      BY DEF Groups
    <3>4. /\ Cardinality(Beside(c, S, Groups[1])) <= MaxPerClient
          /\ Cardinality(Beside(c, S, Groups[2])) <= MaxPerClientRole
          /\ Cardinality(Beside(c, S, Groups[3])) <= MaxPerFamily
          /\ Cardinality(Beside(c, S, Groups[4])) <= MaxPerSector
      BY <3>1, <3>3
    <3> QED
      BY <3>2, <3>4
  <2> QED
    BY <2>1, <2>2, <2>3, <2>4 DEF PlanKeepsLimits, CountOf
<1> QED
  BY <1>1, PlanningHolds, PTL

(* The greedy fallback, on any ranking of any number of candidates, leaves  *)
(* nobody out who has a place beside the better ones it chose.              *)
THEOREM NobodyPassedOver == PlanningSpec => []LeftOutForAReason
<1>1. ASSUME PlanningInv PROVE LeftOutForAReason
  <2> SUFFICES ASSUME plan.status = "DEGRADED_FALLBACK", NEW c \in Eligible \ InPlan
               PROVE  ~WithinLimits({c} \cup {d \in InPlan : Precedes(d, c)})
    BY DEF LeftOutForAReason
  <2>1. phase = "published"
    BY <1>1 DEF PlanningInv, NoPlan
  <2>2. InPlan = chosen
    BY <1>1, <2>1, EligibleConversations, RankedIsSelection DEF PlanningInv, InPlan
  <2>3. HasReason(c)
    BY <1>1 DEF PlanningInv
  <2> QED
    BY <2>2, <2>3 DEF HasReason
<1> QED
  BY <1>1, PlanningHolds, PTL

(* The gates of a conversation have an outcome, and one that nothing        *)
(* confirms is required.                                                    *)
LEMMA GatesSettled ==
    ASSUME attested \in [Conversation -> Attestation], NEW c \in Conversation, NEW g \in Gate
    PROVE  /\ GatesOf(c)[g].status \in GateStatus
           /\ GatesOf(c)[g].status = "UNKNOWN" => GatesOf(c)[g].required
<1>1. Bundle[c].traits \in Traits /\ attested[c] \in Attestation
  BY PlanningAssumption DEF PlanningAssumption
<1>2. CASE g \in DOMAIN attested[c]
  <2>1. attested[c][g] \in AttestedStatus
    BY <1>1, <1>2, PlanningAssumption DEF PlanningAssumption
  <2> QED
    BY <1>2, <2>1 DEF GatesOf, Assessed, Required, GateStatus
<1>3. CASE g \notin DOMAIN attested[c]
  <2>1. GatesOf(c)[g] = RuleGates(Bundle[c].traits)[g]
    BY <1>3 DEF GatesOf, Assessed
  <2>2. ASSUME NEW traits \in Traits
        PROVE  /\ RuleGates(traits)[g].status \in GateStatus
               /\ RuleGates(traits)[g].status = "UNKNOWN" => RuleGates(traits)[g].required
    BY DEF RuleGates, Required, Conditional, GateStatus, AttestedStatus, Gate, Traits
  <2> QED
    BY <1>1, <2>1, <2>2
<1> QED
  BY <1>2, <1>3

(* No product is proposed without a commercial problem, over a failed gate, *)
(* or over one that the rules leave open and nobody has attested: for every *)
(* bundle, commercial case and attestation.                                 *)
THEOREM ProposalsAttested == PlanningSpec => []ProposalsAreAttested
<1>1. ASSUME PlanningInv PROVE ProposalsAreAttested
  <2> SUFFICES ASSUME NEW c \in Conversation,
                      NEW assessed, assessed = GatesOf(c),
                      NEW commercial, commercial = Bundle[c].commercial,
                      ConversationAction(commercial, assessed) = "PRODUCT_PROPOSAL",
                      NEW g \in Gate
               PROVE  /\ commercial
                      /\ assessed[g].status # "FAIL"
                      /\ RuleGates(Bundle[c].traits)[g].status = "UNKNOWN" =>
                            g \in DOMAIN attested[c] /\ attested[c][g] \in {"PASS", "NOT_REQUIRED"}
    <3>1. \E g \in Gate : TRUE
      BY DEF Gate
    <3> QED
      BY <3>1 DEF ProposalsAreAttested
  <2>1. \A x \in Gate : /\ assessed[x].status \in GateStatus
                        /\ assessed[x].status = "UNKNOWN" => assessed[x].required
    BY <1>1, GatesSettled DEF PlanningInv
  <2>2. commercial \in BOOLEAN
    BY PlanningAssumption DEF PlanningAssumption
  <2>3. ~Blocked(assessed) /\ MaterialUnknowns(assessed) = {} =>
            \A x \in Gate : assessed[x].status \in {"PASS", "NOT_REQUIRED"}
    BY <2>1 DEF Blocked, MaterialUnknowns, GateStatus, AttestedStatus
  <2>4. commercial /\ assessed[g].status \in {"PASS", "NOT_REQUIRED"}
    BY <2>2, <2>3 DEF ConversationAction, Eligibility, PermittedAction
  <2>5. assessed[g] = IF g \in DOMAIN attested[c] THEN Required(attested[c][g])
                      ELSE RuleGates(Bundle[c].traits)[g]
    BY DEF GatesOf, Assessed
  <2>6. Required(attested[c][g]).status = attested[c][g]
    BY DEF Required
  <2> QED
    BY <2>4, <2>5, <2>6
<1> QED
  BY <1>1, PlanningHolds, PTL

(* Nothing could be added to a degraded plan: the pass does not only give   *)
(* each that it leaves out a reason, it uses what room there is.            *)
FallbackIsFull ==
    plan.status = "DEGRADED_FALLBACK" =>
        \A c \in Eligible \ InPlan : ~WithinLimits(InPlan \cup {c})

(* The plan of the fallback is not the solver's, but it is a maximal one,   *)
(* for all conversations, utilities, attestations and limits.               *)
THEOREM FallbackFills == PlanningSpec => []FallbackIsFull
<1>1. ASSUME PlanningInv, LeftOutForAReason PROVE FallbackIsFull
  <2> SUFFICES ASSUME plan.status = "DEGRADED_FALLBACK", NEW c \in Eligible \ InPlan,
                      WithinLimits(InPlan \cup {c})
               PROVE  FALSE
    BY DEF FallbackIsFull
  <2> DEFINE better == {c} \cup {d \in InPlan : Precedes(d, c)}
  <2>1. InPlan \cup {c} \in SUBSET Conversation /\ better \in SUBSET (InPlan \cup {c})
    BY <1>1, PlanIsChosen, EligibleConversations DEF PlanningInv
  <2>2. WithinLimits(better)
    BY <2>1, LimitsOfPart
  <2> QED
    BY <1>1, <2>2 DEF LeftOutForAReason
<1> QED
  BY <1>1, PlanningHolds, NobodyPassedOver, PTL

-----------------------------------------------------------------------------
(* Building a conversation. *)

LEMMA LeastIndex ==
    ASSUME NEW S, S \subseteq Nat, S # {}
    PROVE  Min(S) \in S
<1>1. PICK m \in S : \A n \in S : ~(<<n, m>> \in OpToRel(<, Nat))
  BY WFMin, NatLessThanWellFounded, Zenon
<1>2. m \in Nat /\ \A n \in S : n \in Nat /\ ~(n < m)
  BY <1>1, Zenon DEF OpToRel
<1>3. \E n \in S : \A k \in S : n <= k
  BY <1>2
<1> QED
  BY <1>3 DEF Min

LEMMA CatalogueComplete ==
    ASSUME NEW s \in BankingSolution
    PROVE  \E i \in DOMAIN SolutionOrder : SolutionOrder[i] = s
<1>1. s \in {"COLLECTIONS", "PAYMENTS", "LIQUIDITY_CASH_MANAGEMENT", "CROSS_BORDER_FX",
             "TRADE_FINANCE", "SUPPLY_CHAIN_FINANCE", "GUARANTEES_AND_LC",
             "WORKING_CAPITAL_REVOLVING", "TERM_AND_SYNDICATED_LENDING", "DEBT_CAPITAL_MARKETS",
             "PROJECT_FINANCE", "INTEREST_RATE_RISK_MANAGEMENT", "COMMODITY_RISK_MANAGEMENT",
             "ESCROW_AND_AGENCY", "SUSTAINABLE_FINANCE", "MA_AND_STRATEGIC_ADVISORY"}
  BY DEF BankingSolution, Family
<1>2. DOMAIN SolutionOrder = 1 .. 16
  BY DEF SolutionOrder
<1> QED
  BY <1>1, <1>2 DEF SolutionOrder

LEMMA RowsInCatalogue ==
    ASSUME NEW p \in BusinessProblem
    PROVE  Matrix[p].primary \subseteq BankingSolution /\ Matrix[p].supporting \subseteq BankingSolution
BY DEF BusinessProblem, Matrix, Row, BankingSolution, Family

LEMMA EveryProblemHasRoles ==
    ASSUME NEW p \in BusinessProblem
    PROVE  DOMAIN Responsible[p] \subseteq Nat /\ 1 \in DOMAIN Responsible[p]
BY DEF BusinessProblem, Matrix, Responsible

LEMMA FirstIsOne ==
    ASSUME NEW solutions, solutions \subseteq BankingSolution, solutions # {}
    PROVE  FirstInCatalogue(solutions) \in solutions
<1> DEFINE places == {i \in DOMAIN SolutionOrder : SolutionOrder[i] \in solutions}
<1>1. DOMAIN SolutionOrder = 1 .. 16
  BY DEF SolutionOrder
<1>2. places \subseteq Nat
  BY <1>1
<1>3. places # {}
  BY CatalogueComplete
<1>4. Min(places) \in places
  BY <1>2, <1>3, LeastIndex
<1> QED
  BY <1>4 DEF FirstInCatalogue

(* What a bundle of at most `most` solutions around a primary one keeps. *)
Sound(taken, most) ==
    /\ taken \in Seq(BankingSolution) /\ Len(taken) \in 1 .. most
    /\ IsInjective(taken)
    /\ Range(taken) \subseteq
           Sizeable(client) \cap (Matrix[problem].primary \cup Matrix[problem].supporting)
    /\ taken[1] \in Matrix[problem].primary
    /\ ~MutuallyExclusive(Range(taken))

LEMMA AppendKeepsSound ==
    ASSUME problem \in BusinessProblem, NEW most \in Nat, NEW taken, Sound(taken, most),
           NEW solution, solution \in Fits(taken, Matrix[problem].primary)
                             \cup Fits(taken, Matrix[problem].supporting)
    PROVE  Sound(Append(taken, solution), most + 1)
<1>1. /\ solution \in Sizeable(client) \cap (Matrix[problem].primary \cup Matrix[problem].supporting)
      /\ solution \notin Range(taken)
      /\ ~MutuallyExclusive(Range(taken) \cup {solution})
      /\ solution \in BankingSolution
  BY RowsInCatalogue DEF Fits, Offered
<1>2. /\ taken \in Seq(BankingSolution) /\ Len(taken) \in 1 .. most
      /\ DOMAIN taken = 1 .. Len(taken)
  BY DEF Sound
<1>3. /\ Append(taken, solution) \in Seq(BankingSolution)
      /\ Len(Append(taken, solution)) = Len(taken) + 1
      /\ DOMAIN Append(taken, solution) = 1 .. Len(taken) + 1
      /\ \A i \in 1 .. Len(taken) : Append(taken, solution)[i] = taken[i]
      /\ Append(taken, solution)[Len(taken) + 1] = solution
  BY <1>1, <1>2
<1>4. PICK longer : longer = Append(taken, solution)
  OBVIOUS
<1>5. Range(longer) = Range(taken) \cup {solution}
  BY <1>2, <1>3, <1>4 DEF Range
<1>6. IsInjective(longer)
  <2>1. \A i \in 1 .. Len(taken) : taken[i] # solution
    BY <1>1, <1>2 DEF Range
  <2> QED
    BY <1>2, <1>3, <1>4, <2>1 DEF IsInjective, Sound
<1>7. longer[1] = taken[1] /\ Len(longer) \in 1 .. most + 1 /\ longer \in Seq(BankingSolution)
  BY <1>2, <1>3, <1>4
<1>8. Sound(longer, most + 1)
  BY <1>1, <1>5, <1>6, <1>7 DEF Sound
<1> QED
  BY <1>4, <1>8

LEMMA ExtendedIsSound ==
    ASSUME problem \in BusinessProblem, NEW most \in Nat, NEW taken, Sound(taken, most)
    PROVE  Sound(Extended(taken), most + 1)
<1> DEFINE supporting == Fits(taken, Matrix[problem].supporting)
           primary == Fits(taken, Matrix[problem].primary)
<1>1. supporting \subseteq BankingSolution /\ primary \subseteq BankingSolution
  BY RowsInCatalogue DEF Fits, Offered
<1>2. Extended(taken) =
          IF supporting # {} THEN Append(taken, FirstInCatalogue(supporting))
          ELSE IF primary # {} THEN Append(taken, FirstInCatalogue(primary))
          ELSE taken
  BY DEF Extended
<1>3. CASE supporting # {}
  BY <1>1, <1>2, <1>3, FirstIsOne, AppendKeepsSound
<1>4. CASE supporting = {} /\ primary # {}
  BY <1>1, <1>2, <1>4, FirstIsOne, AppendKeepsSound
<1>5. CASE supporting = {} /\ primary = {}
  <2>1. Extended(taken) = taken
    BY <1>2, <1>5
  <2> QED
    BY <2>1 DEF Sound
<1> QED
  BY <1>3, <1>4, <1>5

LEMMA BundleIsSound ==
    ASSUME problem \in BusinessProblem, NEW primary \in PrimarySolutions
    PROVE  Sound(BundleAround(primary), 3)
<1>1. /\ primary \in BankingSolution /\ primary \in Matrix[problem].primary
      /\ primary \in Sizeable(client)
  BY RowsInCatalogue DEF PrimarySolutions, Offered
<1>2. Range(<<primary>>) = {primary}
  BY DEF Range
<1>3. ~MutuallyExclusive({primary})
  BY DEF MutuallyExclusive, MutuallyExclusivePairs
<1>4. Sound(<<primary>>, 1)
  BY <1>1, <1>2, <1>3 DEF Sound, IsInjective
<1>5. Sound(Extended(<<primary>>), 1 + 1)
  BY <1>4, ExtendedIsSound
<1>6. Sound(Extended(Extended(<<primary>>)), 1 + 1 + 1)
  BY <1>5, ExtendedIsSound
<1>7. 1 + 1 + 1 = 3
  OBVIOUS
<1> QED
  BY <1>6, <1>7 DEF BundleAround
-----------------------------------------------------------------------------
(* What every turn keeps: each decision is the one its rule makes of the    *)
(* client, the problem and the decisions before it, none is taken early,    *)
(* and none is changed afterwards.                                          *)
Bundled == {"routing", "dating", "assessing", "concluding", "built"}
Routed == {"dating", "assessing", "concluding", "built"}
Dated == {"assessing", "concluding", "built"}

DetectedByRule ==
    /\ problem \in BusinessProblem
    /\ stage \in {"detecting", "bundling", "dropped"} \cup Bundled
    /\ hypothesis = IF stage = "detecting" THEN NeverIdentified({}) ELSE Detect(client, problem)
    /\ stage = "dropped" =>
           ~Detect(client, problem).identified \/ Matrix[problem].primary \cap Sizeable(client) = {}

BundledByRule == IF stage \in Bundled THEN Sound(bundle, 3) ELSE bundle = <<>>

RoutedByRule ==
    LET roles == Responsible[problem]
        permitted == PermittedForAll(Range(bundle))
    IN IF stage \in Routed
       THEN /\ owner = OwnerAmong(roles, permitted)
            /\ secondary = (Range(roles) \cap permitted) \ {owner}
       ELSE owner = "none" /\ secondary = {}

DatedByRule ==
    LET urgent == MostUrgent(Triggers(client, problem))
    IN IF stage \in Dated /\ urgent # {} THEN \E event \in urgent : trigger = {event}
                                         ELSE trigger = {}

ExplainedByRule ==
    stage = "built" =>
        conversation.path =
            ExplanationPath(trigger, UNION {signal.claims : signal \in Detect(client, problem).support},
                            problem, owner, bundle[1])

BuildingInv ==
    /\ DetectedByRule
    /\ BundledByRule
    /\ RoutedByRule
    /\ DatedByRule
    /\ ExplainedByRule

LEMMA BuildingBegins == BuildingInit => BuildingInv
BY DEF BuildingInit, BuildingInv, DetectedByRule, BundledByRule, RoutedByRule, DatedByRule,
       ExplainedByRule, Bundled, Routed, Dated

LEMMA BuildingStutters ==
    ASSUME BuildingInv, UNCHANGED buildingVars
    PROVE  BuildingInv'
BY DEF buildingVars, BuildingInv, DetectedByRule, BundledByRule, RoutedByRule, DatedByRule,
       ExplainedByRule, Sound

LEMMA BuildingStep ==
    ASSUME BuildingInv, BuildingNext
    PROVE  BuildingInv'
<1> USE DEF Bundled, Routed, Dated
<1>1. CASE DetectProblem
  <2>1. DetectedByRule'
    BY <1>1, Zenon DEF DetectProblem, BuildingInv, DetectedByRule
  <2>2. BundledByRule' /\ RoutedByRule' /\ DatedByRule' /\ ExplainedByRule'
    BY <1>1 DEF DetectProblem, BuildingInv, DetectedByRule, BundledByRule, RoutedByRule,
                DatedByRule, ExplainedByRule
  <2> QED
    BY <2>1, <2>2 DEF BuildingInv
<1>2. CASE BundleSolutions
  <2>1. CASE stage' = "dropped"
    BY <1>2, <2>1 DEF BundleSolutions, PrimarySolutions, Offered, BuildingInv, DetectedByRule,
                      BundledByRule, RoutedByRule, DatedByRule, ExplainedByRule
  <2>2. CASE stage' # "dropped"
    <3>1. PICK primary \in PrimarySolutions : stage' = "routing" /\ bundle' = BundleAround(primary)
      BY <1>2, <2>2 DEF BundleSolutions
    <3>2. Sound(BundleAround(primary), 3)
      BY BundleIsSound DEF BuildingInv, DetectedByRule
    <3>3. BundledByRule'
      BY <1>2, <3>1, <3>2 DEF BundleSolutions, BundledByRule, Sound
    <3>4. DetectedByRule' /\ RoutedByRule' /\ DatedByRule' /\ ExplainedByRule'
      BY <1>2, <3>1 DEF BundleSolutions, BuildingInv, DetectedByRule, RoutedByRule, DatedByRule,
                        ExplainedByRule
    <3> QED
      BY <3>3, <3>4 DEF BuildingInv
  <2> QED
    BY <2>1, <2>2
<1>3. CASE RouteToRole
  <2>1. BundledByRule'
    BY <1>3 DEF RouteToRole, BuildingInv, BundledByRule, Sound
  <2>2. DetectedByRule' /\ RoutedByRule' /\ DatedByRule' /\ ExplainedByRule'
    BY <1>3 DEF RouteToRole, BuildingInv, DetectedByRule, RoutedByRule, DatedByRule,
                ExplainedByRule
  <2> QED
    BY <2>1, <2>2 DEF BuildingInv
<1>4. CASE FindTrigger
  <2>1. BundledByRule'
    BY <1>4 DEF FindTrigger, BuildingInv, BundledByRule, Sound
  <2>2. DetectedByRule' /\ RoutedByRule' /\ ExplainedByRule'
    BY <1>4 DEF FindTrigger, BuildingInv, DetectedByRule, RoutedByRule, ExplainedByRule
  <2>3. DatedByRule'
    BY <1>4 DEF FindTrigger, DatedByRule
  <2> QED
    BY <2>1, <2>2, <2>3 DEF BuildingInv
<1>5. CASE AssessBundle
  <2>1. BundledByRule'
    BY <1>5 DEF AssessBundle, BuildingInv, BundledByRule, Sound
  <2>2. DetectedByRule' /\ RoutedByRule' /\ DatedByRule' /\ ExplainedByRule'
    BY <1>5 DEF AssessBundle, BuildingInv, DetectedByRule, RoutedByRule, DatedByRule,
                ExplainedByRule
  <2> QED
    BY <2>1, <2>2 DEF BuildingInv
<1>6. CASE ConcludeConversation
  <2>1. BundledByRule'
    BY <1>6 DEF ConcludeConversation, BuildingInv, BundledByRule, Sound
  <2>2. DetectedByRule' /\ RoutedByRule' /\ DatedByRule'
    BY <1>6 DEF ConcludeConversation, BuildingInv, DetectedByRule, RoutedByRule, DatedByRule
  <2>3. hypothesis = Detect(client, problem)
    BY <1>6 DEF ConcludeConversation, BuildingInv, DetectedByRule
  <2>4. conversation'.path = ExplanationPath(trigger, ImpactClaims, problem, owner, bundle[1])
    BY <1>6 DEF ConcludeConversation
  <2>5. ExplainedByRule'
    BY <1>6, <2>3, <2>4 DEF ConcludeConversation, ExplainedByRule, ImpactClaims
  <2> QED
    BY <2>1, <2>2, <2>5 DEF BuildingInv
<1> QED
  BY <1>1, <1>2, <1>3, <1>4, <1>5, <1>6 DEF BuildingNext

LEMMA BuildingHolds == BuildingSpec => []BuildingInv
<1>1. BuildingInv /\ [BuildingNext]_buildingVars => BuildingInv'
  BY BuildingStep, BuildingStutters
<1> QED
  BY BuildingBegins, <1>1, PTL DEF BuildingSpec

(* Whatever the clients disclose and the bank observes: a bundle is at most *)
(* three different solutions that the client can be sized for and that      *)
(* answer its problem, and no two of them exclude each other.               *)
THEOREM BundlesSound == BuildingSpec => []BundlesHoldTogether
<1>1. BuildingInv => BundlesHoldTogether
  <2> SUFFICES ASSUME BuildingInv, bundle # <<>>
               PROVE  BundlesHoldTogether
    BY DEF BundlesHoldTogether
  <2>1. Sound(bundle, 3)
    BY DEF BuildingInv, BundledByRule
  <2>2. Len(bundle) \in 1 .. 3
    BY <2>1, Zenon DEF Sound
  <2>3. Len(bundle) <= 3
    <3>1. \A n \in 1 .. 3 : n <= 3
      OBVIOUS
    <3> QED
      BY <2>2, <3>1, Zenon
  <2> QED
    BY <2>1, <2>3, Zenon DEF Sound, BundlesHoldTogether
<1> QED
  BY BuildingHolds, <1>1, PTL

LEMMA PermittedMayDiscuss ==
    ASSUME NEW role, bundle # <<>>, bundle \in Seq(BankingSolution)
    PROVE  role \in PermittedForAll(Range(bundle)) <=> MayDiscuss(role)
<1>1. bundle[1] \in Range(bundle)
  BY DEF Range
<1> QED
  BY <1>1, Zenon DEF PermittedForAll, MayDiscuss

(* The first of the roles that is permitted, when one is. *)
LEMMA OwnerIsAmong ==
    ASSUME NEW roles, NEW permitted, DOMAIN roles \subseteq Nat
    PROVE  IF Range(roles) \cap permitted = {} THEN OwnerAmong(roles, permitted) = roles[1]
           ELSE OwnerAmong(roles, permitted) \in permitted
<1> DEFINE places == {i \in DOMAIN roles : roles[i] \in permitted}
<1>1. CASE Range(roles) \cap permitted = {}
  BY <1>1 DEF OwnerAmong
<1>2. CASE Range(roles) \cap permitted # {}
  <2>1. places # {} /\ places \subseteq Nat
    BY <1>2 DEF Range
  <2>2. Min(places) \in places
    BY <2>1, LeastIndex
  <2> QED
    BY <1>2, <2>2 DEF OwnerAmong
<1> QED
  BY <1>1, <1>2

(* Whoever a conversation is routed to may be approached about all of its   *)
(* solutions, for every client and problem, or nobody of the problem's      *)
(* roles may and its owner stays alone.                                     *)
THEOREM RoutedWhereAllowed == BuildingSpec => []RoutedToAPermittedRole
<1>1. BuildingInv => RoutedToAPermittedRole
  <2> SUFFICES ASSUME BuildingInv, owner # "none"
               PROVE  RoutedToAPermittedRole
    BY DEF RoutedToAPermittedRole
  <2> DEFINE roles == Responsible[problem]
             permitted == PermittedForAll(Range(bundle))
  <2>1. /\ stage \in Routed
        /\ owner = OwnerAmong(roles, permitted)
        /\ secondary = (Range(roles) \cap permitted) \ {owner}
    BY DEF BuildingInv, RoutedByRule
  <2>2. bundle # <<>> /\ bundle \in Seq(BankingSolution)
    BY <2>1 DEF BuildingInv, BundledByRule, Bundled, Routed, Sound
  <2>3. \A role : role \in permitted <=> MayDiscuss(role)
    BY <2>2, PermittedMayDiscuss
  <2>4. IF Range(roles) \cap permitted = {} THEN owner = roles[1] ELSE owner \in permitted
    BY <2>1, OwnerIsAmong, EveryProblemHasRoles DEF BuildingInv, DetectedByRule
  <2> HIDE DEF roles, permitted
  <2>5. \A role \in secondary : MayDiscuss(role) /\ role # owner
    BY <2>1, <2>3
  <2>6. CASE Range(roles) \cap permitted = {}
    <3>1. secondary = {} /\ owner = roles[1]
      BY <2>1, <2>4, <2>6
    <3>2. ~\E role \in Range(roles) : MayDiscuss(role)
      BY <2>3, <2>6
    <3> QED
      BY <2>5, <3>1, <3>2, Zenon DEF RoutedToAPermittedRole, roles
  <2>7. CASE Range(roles) \cap permitted # {}
    <3>1. MayDiscuss(owner)
      BY <2>3, <2>4, <2>7
    <3> QED
      BY <2>5, <3>1, Zenon DEF RoutedToAPermittedRole, roles
  <2> QED
    BY <2>6, <2>7
<1> QED
  BY BuildingHolds, <1>1, PTL
-----------------------------------------------------------------------------
(* The evidence that identifies a problem and the evidence that sizes an    *)
(* answer to it.                                                            *)

LEMMA SizedAnswers ==
    ASSUME NEW c
    PROVE  /\ Rates(c) => "INTEREST_RATE_RISK_MANAGEMENT" \in Sizeable(c)
           /\ Dcm(c) => "DEBT_CAPITAL_MARKETS" \in Sizeable(c)
           /\ Guarantees(c) => "GUARANTEES_AND_LC" \in Sizeable(c)
BY DEF Sizeable

LEMMA RateExposureIsSized ==
    ASSUME NEW c, Detect(c, "INTEREST_RATE_EXPOSURE").identified
    PROVE  Matrix["INTEREST_RATE_EXPOSURE"].primary \cap Sizeable(c) # {}
<1>1. Detect(c, "INTEREST_RATE_EXPOSURE") = InterestRateExposure(c)
  BY Zenon DEF Detect
<1>2. InterestRateExposure(c).identified = (NonZero(c, DebtChain) # {})
  BY DEF InterestRateExposure, Hypothesis
<1>3. Rates(c)
  BY <1>1, <1>2, Zenon DEF Rates
<1> QED
  BY <1>3, SizedAnswers DEF Matrix, Row

LEMMA RefinancingIsDated ==
    ASSUME NEW c, Detect(c, "REFINANCING_CLIFF").identified
    PROVE  /\ FirstOf(c, MaturityChain) # {}
           /\ Claimed(FirstOf(c, MaturityChain)) \in Detect(c, "REFINANCING_CLIFF").support
<1>1. Detect(c, "REFINANCING_CLIFF") = RefinancingCliff(c)
  BY Zenon DEF Detect
<1>2. /\ RefinancingCliff(c).identified = (FirstOf(c, MaturityChain) # {})
      /\ When(FirstOf(c, MaturityChain) # {}, Claimed(FirstOf(c, MaturityChain)))
             \subseteq RefinancingCliff(c).support
  BY DEF RefinancingCliff, Hypothesis
<1>3. FirstOf(c, MaturityChain) # {}
  BY <1>1, <1>2, Zenon
<1>4. Claimed(FirstOf(c, MaturityChain)) \in RefinancingCliff(c).support
  BY <1>2, <1>3 DEF When
<1> QED
  BY <1>1, <1>3, <1>4

LEMMA MaturitiesAreSized ==
    ASSUME NEW c, NonZero(c, MaturityChain) # {}
    PROVE  Matrix["REFINANCING_CLIFF"].primary \cap Sizeable(c) # {}
<1>1. "DEBT_CAPITAL_MARKETS" \in Sizeable(c)
  BY SizedAnswers DEF Dcm
<1> QED
  BY <1>1 DEF Matrix, Row

LEMMA GuaranteeIsSized ==
    ASSUME NEW c, Detect(c, "GUARANTEE_OR_COLLATERAL_REQUIREMENT").identified
    PROVE  /\ Matrix["GUARANTEE_OR_COLLATERAL_REQUIREMENT"].primary \cap Sizeable(c) # {}
           /\ c.pipeline = "sized"
           /\ Observed \in Detect(c, "GUARANTEE_OR_COLLATERAL_REQUIREMENT").support
<1>1. Detect(c, "GUARANTEE_OR_COLLATERAL_REQUIREMENT") = GuaranteeRequirement(c)
  BY Zenon DEF Detect
<1>2. /\ GuaranteeRequirement(c).identified = (c.pipeline = "sized")
      /\ GuaranteeRequirement(c).support = When(c.pipeline = "sized", Observed)
  BY DEF GuaranteeRequirement, Hypothesis
<1>3. c.pipeline = "sized"
  BY <1>1, <1>2, Zenon
<1>4. Observed \in GuaranteeRequirement(c).support
  BY <1>2, <1>3 DEF When
<1>5. "GUARANTEES_AND_LC" \in Sizeable(c)
  BY <1>3, SizedAnswers DEF Guarantees
<1> QED
  BY <1>1, <1>3, <1>4, <1>5 DEF Matrix, Row

(* Only a maturity implies a refinancing, and it rests on the very claims   *)
(* that identify it.                                                        *)
LEMMA RefinancingTriggers ==
    ASSUME NEW c, FirstOf(c, MaturityChain) # {}
    PROVE  /\ MostUrgent(Triggers(c, "REFINANCING_CLIFF")) # {}
           /\ \A event \in Triggers(c, "REFINANCING_CLIFF") :
                  event.claims \subseteq FirstOf(c, MaturityChain)
<1> DEFINE maturities == Triggers(c, "REFINANCING_CLIFF")
<1>1. \A event \in Events(c) : "REFINANCING_CLIFF" \in event.implied => event \in DebtMaturity(c)
  BY DEF Events, TradePipeline, FlowShifts, ChangePoints, When, Seen, Event
<1>2. \A event \in DebtMaturity(c) :
          /\ event.kind = "DEBT_MATURITY_WINDOW"
          /\ event.claims # {} /\ event.claims \subseteq FirstOf(c, MaturityChain)
          /\ "REFINANCING_CLIFF" \in event.implied
  BY DEF DebtMaturity, Event
<1>3. DebtMaturity(c) # {} /\ DebtMaturity(c) \subseteq Events(c)
  BY DEF DebtMaturity, Events
<1>4. maturities = DebtMaturity(c)
  BY <1>1, <1>2, <1>3 DEF Triggers
<1>5. \A event \in maturities : Urgency(event) = 4
  BY <1>2, <1>4, Zenon DEF Urgency
<1>6. MostUrgent(maturities) = maturities
  BY <1>5 DEF MostUrgent
<1> QED
  BY <1>2, <1>3, <1>4, <1>6

LEMMA GuaranteeTriggers ==
    ASSUME NEW c, c.pipeline = "sized"
    PROVE  /\ MostUrgent(Triggers(c, "GUARANTEE_OR_COLLATERAL_REQUIREMENT")) # {}
           /\ \A event \in Triggers(c, "GUARANTEE_OR_COLLATERAL_REQUIREMENT") :
                  event.claims = {"bank"}
<1> DEFINE trades == Triggers(c, "GUARANTEE_OR_COLLATERAL_REQUIREMENT")
           pipeline == Seen("TRADE_EVENT_PIPELINE",
                            {"SUPPLY_CHAIN_RISK", "WORKING_CAPITAL_PRESSURE",
                             "GUARANTEE_OR_COLLATERAL_REQUIREMENT"})
<1>1. TradePipeline(c) = {pipeline}
  BY DEF TradePipeline, When
<1>2. \A event \in Events(c) :
          "GUARANTEE_OR_COLLATERAL_REQUIREMENT" \in event.implied => event \in TradePipeline(c)
  BY DEF Events, DebtMaturity, FlowShifts, ChangePoints, When, Seen, Event
<1>3. /\ pipeline.claims = {"bank"} /\ pipeline.kind = "TRADE_EVENT_PIPELINE"
      /\ "GUARANTEE_OR_COLLATERAL_REQUIREMENT" \in pipeline.implied
  BY DEF Seen, Event
<1>4. trades = {pipeline}
  <2>1. pipeline \in Events(c)
    BY <1>1 DEF Events
  <2> HIDE DEF pipeline
  <2> QED
    BY <1>1, <1>2, <1>3, <2>1 DEF Triggers
<1> HIDE DEF pipeline
<1>5. MostUrgent(trades) = {pipeline}
  <2>1. Urgency(pipeline) = 3
    BY <1>3, Zenon DEF Urgency
  <2> QED
    BY <1>4, <2>1 DEF MostUrgent
<1> QED
  BY <1>3, <1>4, <1>5

LEMMA ObservedClaims == Observed.claims = {"bank"}
BY DEF Observed

LEMMA ClaimedClaims == ASSUME NEW concepts PROVE Claimed(concepts).claims = concepts
BY DEF Claimed

(* What identifies a rate exposure, a refinancing or a guarantee also sizes *)
(* an answer, whatever else the client discloses: of these problems only a  *)
(* refinancing whose maturity is zero is dropped, and the event that        *)
(* identifies one of the last two opens its window.                         *)
THEOREM IdentifiedIsDiscussed == BuildingSpec => []IdentifiedProblemsAreDiscussed
<1>1. BuildingInv => IdentifiedProblemsAreDiscussed
  <2> SUFFICES ASSUME BuildingInv, hypothesis.identified
               PROVE  /\ problem \in SizedByTheirEvidence /\ stage = "dropped" => MaturityOfZero
                      /\ stage = "built" /\ problem \in IdentifiedByAnEvent =>
                             /\ trigger # {}
                             /\ \A event \in trigger : event.claims \subseteq ImpactClaims
    BY Zenon DEF IdentifiedProblemsAreDiscussed
  <2>1. ASSUME problem \in SizedByTheirEvidence, stage = "dropped", ~MaturityOfZero
        PROVE  FALSE
    <3>1. hypothesis = Detect(client, problem)
      BY <2>1 DEF BuildingInv, DetectedByRule
    <3>2. Detect(client, problem).identified
      BY <3>1, Zenon
    <3>3. Matrix[problem].primary \cap Sizeable(client) = {}
      BY <2>1, <3>2, Zenon DEF BuildingInv, DetectedByRule
    <3>4. problem \in {"INTEREST_RATE_EXPOSURE", "REFINANCING_CLIFF",
                       "GUARANTEE_OR_COLLATERAL_REQUIREMENT"}
      BY <2>1 DEF SizedByTheirEvidence
    <3>5. problem = "REFINANCING_CLIFF" => NonZero(client, MaturityChain) # {}
      BY <2>1 DEF MaturityOfZero
    <3> QED
      BY <3>2, <3>3, <3>4, <3>5, RateExposureIsSized, MaturitiesAreSized, GuaranteeIsSized, Zenon
  <2>2. ASSUME stage = "built", problem \in IdentifiedByAnEvent
        PROVE  trigger # {} /\ \A event \in trigger : event.claims \subseteq ImpactClaims
    <3>1. hypothesis = Detect(client, problem)
      BY <2>2 DEF BuildingInv, DetectedByRule
    <3>2. Detect(client, problem).identified
      BY <3>1, Zenon
    <3> DEFINE urgent == MostUrgent(Triggers(client, problem))
    <3>3. urgent # {} => \E event \in urgent : trigger = {event}
      BY <2>2 DEF BuildingInv, DatedByRule, Dated
    <3>4. urgent \subseteq Triggers(client, problem)
      BY DEF MostUrgent
    <3> HIDE DEF urgent
    <3>5. CASE problem = "REFINANCING_CLIFF"
      <4>1. FirstOf(client, MaturityChain) \subseteq ImpactClaims
        <5>1. Claimed(FirstOf(client, MaturityChain)) \in hypothesis.support
          BY <3>1, <3>2, <3>5, RefinancingIsDated, Zenon
        <5> QED
          BY <5>1, ClaimedClaims DEF ImpactClaims
      <4>2. FirstOf(client, MaturityChain) # {}
        BY <3>2, <3>5, RefinancingIsDated, Zenon
      <4>3. /\ urgent # {}
            /\ \A event \in Triggers(client, problem) :
                   event.claims \subseteq FirstOf(client, MaturityChain)
        BY <3>5, <4>2, RefinancingTriggers, Zenon DEF urgent
      <4> QED
        BY <3>3, <3>4, <4>1, <4>3
    <3>6. CASE problem = "GUARANTEE_OR_COLLATERAL_REQUIREMENT"
      <4>1. {"bank"} \subseteq ImpactClaims
        <5>1. Observed \in hypothesis.support
          BY <3>1, <3>2, <3>6, GuaranteeIsSized, Zenon
        <5> QED
          BY <5>1, ObservedClaims DEF ImpactClaims
      <4>2. client.pipeline = "sized"
        BY <3>2, <3>6, GuaranteeIsSized, Zenon
      <4>3. urgent # {} /\ \A event \in Triggers(client, problem) : event.claims = {"bank"}
        BY <3>6, <4>2, GuaranteeTriggers, Zenon DEF urgent
      <4> QED
        BY <3>3, <3>4, <4>1, <4>3
    <3> QED
      BY <2>2, <3>5, <3>6 DEF IdentifiedByAnEvent
  <2> QED
    BY <2>1, <2>2
<1> QED
  BY BuildingHolds, <1>1, PTL
-----------------------------------------------------------------------------
(* The explanation and the graph. *)

(* The edges of a problem that some event of the client implies. *)
LEMMA EdgesOfProblem ==
    ASSUME NEW c, NEW event \in Events(c), NEW p \in event.implied,
           NEW solution \in Matrix[p].primary
    PROVE  /\ Edge("IMPLIES_PROBLEM", EventNode(event), ProblemNode(p), event.reviewed)
                  \in GraphEdges(c)
           /\ Edge("ADDRESSED_BY_SOLUTION", ProblemNode(p), SolutionNode(solution), TRUE)
                  \in GraphEdges(c)
           /\ Edge("IS_OWNED_BY_ROLE", ProblemNode(p), RoleNode(Responsible[p][1]), TRUE)
                  \in GraphEdges(c)
<1>1. p \in ImpliedProblems(c)
  BY DEF ImpliedProblems
<1> DEFINE implications(e) ==
               {Edge("IMPLIES_PROBLEM", EventNode(e), ProblemNode(q), e.reviewed) : q \in e.implied}
           addressed(q) ==
               {Edge("ADDRESSED_BY_SOLUTION", ProblemNode(q), SolutionNode(s), TRUE) :
                   s \in Matrix[q].primary}
<1>2. Edge("IMPLIES_PROBLEM", EventNode(event), ProblemNode(p), event.reviewed) \in EventEdges(c)
  <2>1. Edge("IMPLIES_PROBLEM", EventNode(event), ProblemNode(p), event.reviewed)
            \in implications(event)
    OBVIOUS
  <2>2. UNION {implications(e) : e \in Events(c)} \subseteq EventEdges(c)
    BY DEF EventEdges
  <2> HIDE DEF implications
  <2> QED
    BY <2>1, <2>2
<1>3. Edge("ADDRESSED_BY_SOLUTION", ProblemNode(p), SolutionNode(solution), TRUE) \in ProblemEdges(c)
  <2>1. Edge("ADDRESSED_BY_SOLUTION", ProblemNode(p), SolutionNode(solution), TRUE) \in addressed(p)
    OBVIOUS
  <2>2. UNION {addressed(q) : q \in ImpliedProblems(c)} \subseteq ProblemEdges(c)
    BY DEF ProblemEdges
  <2> HIDE DEF addressed
  <2> QED
    BY <1>1, <2>1, <2>2
<1>4. Edge("IS_OWNED_BY_ROLE", ProblemNode(p), RoleNode(Responsible[p][1]), TRUE) \in ProblemEdges(c)
  BY <1>1, Zenon DEF ProblemEdges
<1> QED
  BY <1>2, <1>3, <1>4, Zenon DEF GraphEdges

LEMMA TargetsAreNodes ==
    ASSUME NEW c, NEW type, NEW source, NEW target, NEW reviewed,
           Edge(type, source, target, reviewed) \in GraphEdges(c)
    PROVE  target \in GraphNodes(c)
<1>1. Edge(type, source, target, reviewed).target \in {edge.target : edge \in GraphEdges(c)}
  OBVIOUS
<1>2. target \in {edge.target : edge \in GraphEdges(c)}
  BY <1>1 DEF Edge
<1> QED
  BY <1>2, Zenon DEF GraphNodes, Linked

(* The client has every role that may be approached about something. *)
LEMMA PermittedRolesAreNodes ==
    ASSUME NEW c, NEW solution \in BankingSolution, NEW role \in PermittedRoles[solution]
    PROVE  RoleNode(role) \in GraphNodes(c)
<1>1. role \in StakeholderRole
  BY DEF StakeholderRole
<1>2. Edge("HAS_ROLE", Root, RoleNode(role), TRUE) \in AttributeEdges(c)
  BY <1>1, Zenon DEF AttributeEdges
<1>3. Edge("HAS_ROLE", Root, RoleNode(role), TRUE) \in GraphEdges(c)
  BY <1>2, Zenon DEF GraphEdges
<1> QED
  BY <1>3, TargetsAreNodes

(* Whenever a conversation names an event as its trigger, the event, the    *)
(* problem, the role and the solution it is told by are nodes of the        *)
(* client's graph and the links it claims between them are edges of it.     *)
THEOREM ToldAlongTheGraph == BuildingSpec => []ExplanationFollowsTheGraph
<1>1. BuildingInv => ExplanationFollowsTheGraph
  <2> SUFFICES ASSUME BuildingInv, stage = "built", trigger # {}
               PROVE  ExplanationFollowsTheGraph
    BY DEF ExplanationFollowsTheGraph
  <2>1. PICK event \in Triggers(client, problem) : trigger = {event}
    BY DEF BuildingInv, DatedByRule, MostUrgent
  <2>2. event \in Events(client) /\ problem \in event.implied /\ event.claims # {}
    BY DEF Triggers
  <2>3. Sound(bundle, 3)
    BY DEF BuildingInv, BundledByRule, Bundled
  <2>4. /\ bundle \in Seq(BankingSolution) /\ bundle # <<>> /\ bundle[1] \in Range(bundle)
        /\ bundle[1] \in BankingSolution /\ bundle[1] \in Matrix[problem].primary
    BY <2>3 DEF Sound, Range
  <2> DEFINE path == conversation.path
             told == UNION {signal.claims : signal \in Detect(client, problem).support}
  <2>5. path = ExplanationPath({event}, told, problem, owner, bundle[1])
    BY <2>1 DEF BuildingInv, ExplainedByRule
  <2> HIDE DEF told
  <2>6. (CHOOSE e \in {event} : TRUE) = event
    OBVIOUS
  <2>7. /\ path = <<path[1], path[2], path[3], path[4], path[5]>>
        /\ path[1] = Step("EVENT", EventNode(event), event.claims)
        /\ path[2] = Step("BUSINESS_IMPACT", Node("BUSINESS_MODEL_COMPONENT", "impact"), told)
        /\ path[3] = Step("PROBLEM", ProblemNode(problem), told)
        /\ path[4] = Step("STAKEHOLDER", RoleNode(owner), {})
        /\ path[5] = Step("SOLUTION", SolutionNode(bundle[1]), {})
    BY <2>5, <2>6 DEF ExplanationPath
  <2> HIDE DEF path
  <2>8. /\ path[1].node = EventNode(event) /\ path[3].node = ProblemNode(problem)
        /\ path[4].node = RoleNode(owner) /\ path[5].node = SolutionNode(bundle[1])
    BY <2>7 DEF Step
  <2>9. "EVENT" \notin UnsupportedSteps(path)
    <3>1. /\ path[1].claims = event.claims
          /\ path[2].name = "BUSINESS_IMPACT" /\ path[3].name = "PROBLEM"
      BY <2>7 DEF Step
    <3> QED
      BY <2>2, <3>1 DEF UnsupportedSteps
  <2>10. /\ Edge("IMPLIES_PROBLEM", EventNode(event), ProblemNode(problem), event.reviewed)
                \in GraphEdges(client)
         /\ Edge("ADDRESSED_BY_SOLUTION", ProblemNode(problem), SolutionNode(bundle[1]), TRUE)
                \in GraphEdges(client)
         /\ Edge("IS_OWNED_BY_ROLE", ProblemNode(problem), RoleNode(Responsible[problem][1]), TRUE)
                \in GraphEdges(client)
    BY <2>2, <2>4, EdgesOfProblem
  <2>11. RoleNode(owner) \in GraphNodes(client)
    <3> DEFINE permitted == PermittedForAll(Range(bundle))
    <3>1. owner = OwnerAmong(Responsible[problem], permitted)
      BY DEF BuildingInv, RoutedByRule, Routed
    <3>2. owner = Responsible[problem][1] \/ owner \in permitted
      BY <3>1, OwnerIsAmong, EveryProblemHasRoles DEF BuildingInv, DetectedByRule
    <3>3. CASE owner = Responsible[problem][1]
      BY <2>10, <3>3, TargetsAreNodes, Zenon
    <3>4. CASE owner \in permitted
      <4>1. owner \in PermittedRoles[bundle[1]]
        BY <2>4, <3>4, Zenon DEF PermittedForAll
      <4> QED
        BY <2>4, <4>1, PermittedRolesAreNodes
    <3> QED
      BY <3>2, <3>3, <3>4
  <2>12. \E edge \in GraphEdges(client) :
             /\ edge.type = "IMPLIES_PROBLEM"
             /\ edge.source = path[1].node /\ edge.target = path[3].node
    <3> DEFINE link == Edge("IMPLIES_PROBLEM", EventNode(event), ProblemNode(problem),
                              event.reviewed)
    <3>1. /\ link.type = "IMPLIES_PROBLEM"
          /\ link.source = EventNode(event) /\ link.target = ProblemNode(problem)
      BY DEF Edge
    <3>2. link \in GraphEdges(client)
      BY <2>10
    <3> HIDE DEF link
    <3> QED
      BY <2>8, <3>1, <3>2
  <2>13. \E edge \in GraphEdges(client) :
             /\ edge.type = "ADDRESSED_BY_SOLUTION"
             /\ edge.source = path[3].node /\ edge.target = path[5].node
    <3> DEFINE link == Edge("ADDRESSED_BY_SOLUTION", ProblemNode(problem),
                            SolutionNode(bundle[1]), TRUE)
    <3>1. /\ link.type = "ADDRESSED_BY_SOLUTION"
          /\ link.source = ProblemNode(problem) /\ link.target = SolutionNode(bundle[1])
      BY DEF Edge
    <3>2. link \in GraphEdges(client)
      BY <2>10
    <3> HIDE DEF link
    <3> QED
      BY <2>8, <3>1, <3>2
  <2> QED
    BY <2>8, <2>9, <2>11, <2>12, <2>13, Zenon DEF ExplanationFollowsTheGraph, path
<1> QED
  BY BuildingHolds, <1>1, PTL
-----------------------------------------------------------------------------
(* What a snapshot may propose, before anybody attests anything. *)

(* "All are discovery-only because material bank feasibility is unknown"    *)
(* (System Dossier of V3.1, of the 224 conversations of the shipped         *)
(* portfolio).                                                              *)
DiscoveryUntilAttested ==
    stage = "built" => conversation.eligibility = "DISCOVERY_ONLY" /\ conversation.action = "DISCOVERY"

GatesByRule ==
    /\ stage \in {"concluding", "built"} =>
           gates = Assessed(TraitsOf(Range(bundle), client.flagged), <<>>)
    /\ DiscoveryUntilAttested

(* No rule of the gates says FAIL, and compliance is open for every bundle. *)
LEMMA UnattestedGates ==
    ASSUME NEW traits
    PROVE  /\ ~Blocked(Assessed(traits, <<>>))
           /\ MaterialUnknowns(Assessed(traits, <<>>)) # {}
<1>1. \A g \in Gate : Assessed(traits, <<>>)[g] = RuleGates(traits)[g]
  BY DEF Assessed
<1>2. \A g \in Gate : RuleGates(traits)[g].status # "FAIL"
  BY DEF RuleGates, Required, Conditional, Gate
<1>3. /\ "COMPLIANCE_AND_CONDUCT" \in Gate
      /\ RuleGates(traits)["COMPLIANCE_AND_CONDUCT"] = [status |-> "UNKNOWN", required |-> TRUE]
  BY DEF RuleGates, Required, Gate
<1>4. ~Blocked(Assessed(traits, <<>>))
  BY <1>1, <1>2 DEF Blocked
<1>5. "COMPLIANCE_AND_CONDUCT" \in MaterialUnknowns(Assessed(traits, <<>>))
  BY <1>1, <1>3 DEF MaterialUnknowns
<1> QED
  BY <1>4, <1>5

(* It is so for every client and problem, and not a trait of the portfolio: *)
(* nothing a client discloses and nothing the bank observes makes a         *)
(* conversation of a snapshot more than one to discover facts.              *)
THEOREM SnapshotsOnlyDiscover == BuildingSpec => []DiscoveryUntilAttested
<1>1. BuildingInit => GatesByRule
  BY DEF BuildingInit, GatesByRule, DiscoveryUntilAttested
<1>2. ASSUME BuildingInv, GatesByRule, [BuildingNext]_buildingVars
      PROVE  GatesByRule'
  <2> USE DEF GatesByRule, DiscoveryUntilAttested
  <2>1. CASE DetectProblem \/ BundleSolutions \/ RouteToRole \/ FindTrigger
    BY <1>2, <2>1 DEF DetectProblem, BundleSolutions, RouteToRole, FindTrigger
  <2>2. CASE AssessBundle
    BY <1>2, <2>2 DEF AssessBundle
  <2>3. CASE ConcludeConversation
    <3> DEFINE commercial == CommerciallyEligible(client, hypothesis)
    <3>1. /\ gates = Assessed(TraitsOf(Range(bundle), client.flagged), <<>>)
          /\ UNCHANGED <<client, bundle, gates>>
          /\ conversation'.eligibility = Eligibility(commercial, gates)
          /\ conversation'.action = ConversationAction(commercial, gates)
      BY <1>2, <2>3 DEF ConcludeConversation
    <3>2. ~Blocked(gates) /\ MaterialUnknowns(gates) # {}
      BY <3>1, UnattestedGates
    <3>3. Eligibility(commercial, gates) = "DISCOVERY_ONLY"
      BY <3>2 DEF Eligibility
    <3>4. ConversationAction(commercial, gates) = "DISCOVERY"
      BY <3>3 DEF ConversationAction
    <3> QED
      BY <3>1, <3>3, <3>4
  <2>4. CASE UNCHANGED buildingVars
    BY <1>2, <2>4 DEF buildingVars
  <2> QED
    BY <1>2, <2>1, <2>2, <2>3, <2>4 DEF BuildingNext
<1>3. GatesByRule => DiscoveryUntilAttested
  BY DEF GatesByRule
<1> QED
  BY <1>1, <1>2, <1>3, BuildingHolds, PTL DEF BuildingSpec
=============================================================================
