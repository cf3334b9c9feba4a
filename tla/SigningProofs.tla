--------------------------- MODULE SigningProofs ---------------------------
(***************************************************************************)
(* What is signed in a rehearsal, and whom it convinces.                   *)
(*                                                                         *)
(* The trust registry keeps rehearsal roots away from the bank, and trust  *)
(* that is lost away from everybody, for every set of keys, domains, roles *)
(* and environments and without a bound on time.  The mutating routes sign *)
(* the evidence that is on file and rehearsal evidence only, and write one *)
(* event for each thing, for any number of threads, keys and requests.     *)
(***************************************************************************)
EXTENDS TrustRegistry, PromotionRequests, TLAPS

(* Every key on file passed its constructor, whatever is registered when.  *)
THEOREM TrustTyped == Spec => []TypeOK
<1>1. Init => TypeOK
  <2> SUFFICES ASSUME Init PROVE TypeOK
    OBVIOUS
  <2> DEFINE key == RehearsalKey(LocalKey, 0, 1)
  <2>1. SyntheticModes \in SUBSET Mode /\ SyntheticModes # {}
    BY DEF SyntheticModes, Mode
  <2>2. SyntheticModes \cap RealTrackModes = {}
    BY DEF SyntheticModes, RealTrackModes, PublicModes
  <2>3. 0 \in Time /\ 1 \in Time /\ Never \in 0 .. Never
    BY TrustAssumption DEF Time, Never
  <2>4. key \in KeyForm
    BY <2>1, <2>3, TrustAssumption DEF KeyForm, RehearsalKey
  <2>5. WellFormed(key)
    BY <2>1, <2>2 DEF WellFormed, RehearsalKey
  <2>6. key.id = LocalKey
    BY DEF RehearsalKey
  <2> QED
    BY <2>3, <2>4, <2>5, <2>6, TrustAssumption DEF Init, TypeOK
<1>2. TypeOK /\ [Next]_vars => TypeOK'
  <2> SUFFICES ASSUME TypeOK, [Next]_vars PROVE TypeOK'
    OBVIOUS
  <2>1. CASE Tick
    BY <2>1, TrustAssumption DEF Tick, TypeOK, Time
  <2>2. CASE IssueDecision
    <3> DEFINE verified == Verified(Signed("decision", LocalKey), {LocalKey})
    <3>1. verified \in BOOLEAN
      BY DEF Verified
    <3>2. packages' = packages \cup {[issued |-> now, verified |-> verified]}
      BY <2>2 DEF IssueDecision
    <3> HIDE DEF verified
    <3>3. packages' \subseteq [issued : Time, verified : BOOLEAN]
      BY <3>1, <3>2 DEF TypeOK
    <3> QED
      BY <2>2, <3>3 DEF IssueDecision, TypeOK
  <2>3. ASSUME NEW key \in Candidate, Register(key) PROVE TypeOK'
    <3>1. key \in KeyForm /\ WellFormed(key)
      BY <2>3, TrustAssumption DEF Register
    <3>2. key.id \in KeyId
      BY <3>1 DEF KeyForm
    <3>3. registry' = [id \in DOMAIN registry \cup {key.id} |->
                          IF id = key.id THEN key ELSE registry[id]]
      BY <2>3 DEF Register
    <3>4. ASSUME NEW id \in DOMAIN registry'
          PROVE  registry'[id] \in KeyForm /\ registry'[id].id = id /\ WellFormed(registry'[id])
      <4>1. CASE id = key.id
        BY <3>1, <3>3, <4>1
      <4>2. CASE id # key.id
        BY <3>3, <4>2 DEF TypeOK
      <4> QED
        BY <4>1, <4>2
    <3> QED
      BY <2>3, <3>2, <3>3, <3>4 DEF Register, TypeOK
  <2>4. CASE UNCHANGED vars
    BY <2>4 DEF vars, TypeOK
  <2> QED
    BY <2>1, <2>2, <2>3, <2>4 DEF Next
<1> QED
  BY <1>1, <1>2, PTL DEF Spec

(* No key of the rehearsal domain is ever trusted on the real track.  The   *)
(* mode such a key may sign is not one the real track admits: the first     *)
(* fact is the constructor's, the second evaluate's.                        *)
THEOREM RehearsalRootsSafe == Spec => []RehearsalRootsConferNothing
<1>1. TypeOK => RehearsalRootsConferNothing
  <2> SUFFICES ASSUME TypeOK,
                      NEW id \in DOMAIN registry, registry[id].domain = "rehearsal",
                      NEW purpose \in Purpose, NEW moment \in Time,
                      purpose.track = "REAL", Trusted(id, purpose, moment)
               PROVE  FALSE
    BY DEF RehearsalRootsConferNothing
  <2>1. registry[id].modes \cap RealTrackModes = {}
    BY DEF TypeOK, WellFormed
  <2>2. purpose.mode \in registry[id].modes
    BY DEF Trusted, Reasons
  <2>3. AdmitsTrack(purpose.mode, purpose.track)
    BY DEF Trusted, Reasons
  <2> QED
    BY <2>1, <2>2, <2>3 DEF AdmitsTrack
<1> QED
  BY <1>1, TrustTyped, PTL

(* A key that has expired or been revoked is not trusted after any step:    *)
(* time only passes, and a key on file is never replaced.                   *)
THEOREM TrustStaysLost == Spec => LostTrustStaysLost
<1>1. ASSUME TypeOK, [Next]_vars
      PROVE  \A id \in DOMAIN registry :
                 now > registry[id].notAfter \/ now >= registry[id].revokedAt =>
                     \A purpose \in Purpose : ~Trusted(id, purpose, now)'
  <2> SUFFICES ASSUME NEW id \in DOMAIN registry,
                      now > registry[id].notAfter \/ now >= registry[id].revokedAt,
                      NEW purpose \in Purpose
               PROVE  ~Trusted(id, purpose, now)'
    OBVIOUS
  <2>1. now' \in {now, now + 1} /\ id \in DOMAIN registry' /\ registry'[id] = registry[id]
    <3>1. CASE Tick
      BY <3>1 DEF Tick
    <3>2. CASE IssueDecision
      BY <3>2 DEF IssueDecision
    <3>3. ASSUME NEW key \in Candidate, Register(key)
          PROVE  now' = now /\ id \in DOMAIN registry' /\ registry'[id] = registry[id]
      <4>1. id # key.id
        BY <3>3 DEF Register
      <4> QED
        BY <3>3, <4>1 DEF Register
    <3>4. CASE UNCHANGED vars
      BY <3>4 DEF vars
    <3> QED
      BY <1>1, <3>1, <3>2, <3>3, <3>4 DEF Next
  <2>2. now \in Int
    BY <1>1, TrustAssumption DEF TypeOK, Time
  <2>3. registry[id] \in KeyForm
    BY <1>1 DEF TypeOK
  <2>4. registry[id].notAfter \in Int /\ registry[id].revokedAt \in Int
    BY <2>3, TrustAssumption DEF KeyForm, Time, Never
  <2>5. now' > registry'[id].notAfter \/ now' >= registry'[id].revokedAt
    BY <2>1, <2>2, <2>4
  <2>6. registry'[id].notBefore \in Int
    BY <2>1, <2>3, TrustAssumption DEF KeyForm, Time
  <2>7. Reasons(id, purpose, now)' # {}
    BY <2>1, <2>2, <2>4, <2>5, <2>6 DEF Reasons
  <2> QED
    BY <2>7 DEF Trusted
<1> QED
  BY <1>1, TrustTyped, PTL DEF Spec, LostTrustStaysLost

-----------------------------------------------------------------------------
(* The mutating routes of the promotion API. *)

(* What the event store's keys are. *)
LogKey == {"eval", "evidence", "signed"} \X STRING

(* A thread is free, or it is somewhere in a request. *)
InRequest(call) ==
    /\ DOMAIN call = {"pc", "request", "late", "answer"}
    /\ call.pc \in {"lookup", "write", "sign", "remember"}
    /\ call.request \in Request

RequestTypeOK ==
    /\ DOMAIN calls = Thread
    /\ \A t \in Thread : calls[t] = Idle \/ InRequest(calls[t])
    /\ evaluations \in Seq(Request)
    /\ log \in Seq(LogKey)

(* The step of a thread changes no other. *)
LEMMA OthersKept ==
    ASSUME RequestTypeOK, NEW t \in Thread, NEW call, calls' = [calls EXCEPT ![t] = call]
    PROVE  /\ DOMAIN calls' = Thread
           /\ calls'[t] = call
           /\ \A u \in Thread \ {t} : calls'[u] = calls[u]
BY DEF RequestTypeOK

LEMMA ProceedKeeps ==
    ASSUME RequestTypeOK, NEW t \in Thread, calls[t].pc # "idle",
           NEW pc \in {"lookup", "write", "sign", "remember"}, Proceed(t, pc)
    PROVE  /\ DOMAIN calls' = Thread
           /\ InRequest(calls'[t])
           /\ calls'[t].pc = pc
           /\ calls'[t].request = calls[t].request
           /\ calls'[t].late = calls[t].late
           /\ \A u \in Thread \ {t} : calls'[u] = calls[u]
<1>1. InRequest(calls[t])
  BY DEF RequestTypeOK, Idle
<1> QED
  BY <1>1 DEF Proceed, InRequest, RequestTypeOK

LEMMA PublishKeeps ==
    ASSUME NEW events \in Seq(LogKey), NEW key \in LogKey
    PROVE  /\ Publish(events, key) \in Seq(LogKey)
           /\ Contains(Publish(events, key), key)
           /\ \A other : Contains(events, other) => Contains(Publish(events, key), other)
           /\ IsInjective(events) => IsInjective(Publish(events, key))
<1>1. CASE Contains(events, key)
  BY <1>1 DEF Publish
<1>2. CASE ~Contains(events, key)
  <2>1. Publish(events, key) = Append(events, key)
    BY <1>2 DEF Publish
  <2>2. /\ Append(events, key) \in Seq(LogKey)
        /\ Len(Append(events, key)) = Len(events) + 1
        /\ Append(events, key)[Len(events) + 1] = key
        /\ \A i \in 1 .. Len(events) : Append(events, key)[i] = events[i]
        /\ Len(events) \in Nat
        /\ DOMAIN events = 1 .. Len(events)
        /\ DOMAIN Append(events, key) = 1 .. Len(events) + 1
    OBVIOUS
  <2>3. Contains(Append(events, key), key)
    BY <2>2 DEF Contains
  <2>4. \A other : Contains(events, other) => Contains(Append(events, key), other)
    BY <2>2 DEF Contains
  <2>5. \A i \in 1 .. Len(events) : events[i] # key
    BY <1>2 DEF Contains
  <2>6. ASSUME IsInjective(events) PROVE IsInjective(Append(events, key))
    BY <2>2, <2>5, <2>6 DEF IsInjective
  <2> QED
    BY <2>1, <2>2, <2>3, <2>4, <2>6
<1> QED
  BY <1>1, <1>2

LEMMA RequestTypes ==
    ASSUME NEW r \in Request
    PROVE  /\ r.op \in Operation /\ r.subject \in STRING
           /\ {<<"eval", r.subject>>, <<"evidence", r.subject>>, <<"signed", r.subject>>}
                  \subseteq LogKey
<1>1. r.op \in Operation /\ r.subject \in STRING
  BY DEF Request
<1> QED
  BY <1>1 DEF LogKey

LEMMA RequestsTyped == RequestInit => RequestTypeOK
BY DEF RequestInit, RequestTypeOK

(* What the step of a thread does to the calls. *)
LEMMA CallsTyped ==
    ASSUME RequestTypeOK, NEW t \in Thread, Step(t)
    PROVE  /\ calls[t].pc # "idle" /\ InRequest(calls[t])
           /\ DOMAIN calls' = Thread
           /\ \A u \in Thread \ {t} : calls'[u] = calls[u]
           /\ \/ calls'[t] = Idle
              \/ /\ InRequest(calls'[t])
                 /\ calls'[t].request = calls[t].request /\ calls'[t].late = calls[t].late
                 /\ calls'[t].pc = IF calls[t].pc = "lookup" THEN "write"
                                   ELSE IF RegisterEvidence(t) THEN "sign" ELSE "remember"
<1>1. calls[t].pc # "idle"
  BY DEF Step, Lookup, Refuse, RecordEvaluation, RegisterEvidence, Sign, SignFails,
         StartRehearsal, InjectIncident, Remember, Accepted
<1>2. InRequest(calls[t])
  BY <1>1 DEF RequestTypeOK, Idle
<1>3. CASE Finish(t)
  BY <1>1, <1>2, <1>3 DEF Finish, RequestTypeOK
<1>4. CASE Lookup(t)
  BY <1>1, <1>2, <1>3, <1>4, ProceedKeeps DEF Lookup
<1>5. CASE RegisterEvidence(t)
  BY <1>1, <1>2, <1>5, ProceedKeeps DEF RegisterEvidence, Accepted
<1>6. CASE RecordEvaluation(t) \/ StartRehearsal(t) \/ InjectIncident(t)
  <2>1. Proceed(t, "remember") /\ calls[t].pc = "write" /\ calls[t].request.op # "evidence"
    BY <1>6 DEF RecordEvaluation, StartRehearsal, InjectIncident, Accepted
  <2>2. ~RegisterEvidence(t)
    BY <2>1 DEF RegisterEvidence, Accepted
  <2> QED
    BY <1>1, <1>2, <2>1, <2>2, ProceedKeeps
<1>7. CASE Sign(t)
  <2> DEFINE answer == <<calls[t].request.says, evidence[calls[t].request.subject]>>
  <2>1. calls' = [calls EXCEPT ![t].pc = "remember", ![t].answer = answer]
        /\ calls[t].pc = "sign"
    BY <1>7 DEF Sign
  <2> HIDE DEF answer
  <2>2. /\ DOMAIN calls' = Thread
        /\ \A u \in Thread \ {t} : calls'[u] = calls[u]
        /\ DOMAIN calls'[t] = DOMAIN calls[t]
        /\ calls'[t].pc = "remember"
        /\ calls'[t].request = calls[t].request /\ calls'[t].late = calls[t].late
    BY <1>2, <2>1 DEF RequestTypeOK, InRequest
  <2>3. ~RegisterEvidence(t)
    BY <2>1 DEF RegisterEvidence, Accepted
  <2> QED
    BY <1>1, <1>2, <2>1, <2>2, <2>3 DEF InRequest
<1> QED
  BY <1>3, <1>4, <1>5, <1>6, <1>7 DEF Step, Refuse, SignFails, Remember

LEMMA ArrivalTyped ==
    ASSUME RequestTypeOK, NEW t \in Thread, NEW r \in Inputs, Arrive(t, r)
    PROVE  /\ calls[t].pc = "idle"
           /\ DOMAIN calls' = Thread
           /\ \A u \in Thread \ {t} : calls'[u] = calls[u]
           /\ InRequest(calls'[t])
           /\ calls'[t].pc = "lookup" /\ calls'[t].request = r
           /\ calls'[t].late = (Slot(r) \in answered)
           /\ UNCHANGED <<stores, cache, answered>>
<1> DEFINE late == Slot(r) \in answered
           call == [pc |-> "lookup", request |-> r, late |-> late, answer |-> r.says]
<1>1. calls' = [calls EXCEPT ![t] = call]
  BY DEF Arrive
<1>2. InRequest(call) /\ call.late = late /\ call.pc = "lookup" /\ call.request = r
  <2> HIDE DEF late
  <2> QED
    BY RequestsAssumption DEF RequestsAssumption, InRequest
<1> HIDE DEF call
<1>3. calls'[t] = call
  BY <1>1, OthersKept
<1>4. calls'[t].late = (Slot(r) \in answered)
  BY <1>2, <1>3, Zenon
<1>5. DOMAIN calls' = Thread /\ \A u \in Thread \ {t} : calls'[u] = calls[u]
  BY <1>1, OthersKept
<1>6. calls[t].pc = "idle" /\ UNCHANGED <<stores, cache, answered>>
  BY DEF Arrive
<1>7. InRequest(calls'[t]) /\ calls'[t].pc = "lookup" /\ calls'[t].request = r
  BY <1>2, <1>3
<1> HIDE DEF late
<1> QED
  BY <1>4, <1>5, <1>6, <1>7, Zenon

LEMMA StepTyped == RequestTypeOK /\ [RequestNext]_requestVars => RequestTypeOK'
<1> SUFFICES ASSUME RequestTypeOK, [RequestNext]_requestVars PROVE RequestTypeOK'
  OBVIOUS
<1>1. ASSUME NEW t \in Thread, Step(t) PROVE RequestTypeOK'
  <2>1. DOMAIN calls' = Thread /\ \A u \in Thread : calls'[u] = Idle \/ InRequest(calls'[u])
    BY <1>1, CallsTyped DEF RequestTypeOK
  <2>2. calls[t].request \in Request
    BY <1>1, CallsTyped DEF InRequest
  <2>3. /\ evaluations' = evaluations \/ evaluations' = Append(evaluations, calls[t].request)
        /\ log' = log \/ \E key \in LogKey : log' = Publish(log, key)
    BY <1>1, <2>2, RequestTypes
       DEF Step, Lookup, Refuse, RecordEvaluation, RegisterEvidence, Sign, SignFails,
           StartRehearsal, InjectIncident, Remember, stores
  <2>4. evaluations' \in Seq(Request)
    BY <2>2, <2>3 DEF RequestTypeOK
  <2>5. log' \in Seq(LogKey)
    <3>1. log \in Seq(LogKey)
      BY DEF RequestTypeOK
    <3> QED
      BY <2>3, <3>1, PublishKeeps
  <2> QED
    BY <2>1, <2>4, <2>5 DEF RequestTypeOK
<1>2. ASSUME NEW t \in Thread, NEW r \in Inputs, Arrive(t, r) PROVE RequestTypeOK'
  BY <1>2, ArrivalTyped DEF RequestTypeOK, stores
<1>3. CASE UNCHANGED requestVars
  BY <1>3 DEF requestVars, stores, RequestTypeOK
<1> QED
  BY <1>1, <1>2, <1>3 DEF RequestNext

(* What the step of a thread does to the stores. *)
LEMMA StepWrites ==
    ASSUME RequestTypeOK, NEW t \in Thread, Step(t), NEW r, r = calls[t].request
    PROVE  \/ UNCHANGED stores
           \/ /\ UNCHANGED <<evidence, envelopes>>
              /\ evaluations' = evaluations /\ log' = log
           \/ /\ UNCHANGED <<evidence, envelopes>>
              /\ evaluations' = Append(evaluations, r)
              /\ log' = Publish(log, <<"eval", r.subject>>)
           \/ /\ RegisterEvidence(t)
              /\ UNCHANGED <<evaluations, envelopes>>
              /\ evidence' = Put(evidence, r.subject, r.says)
              /\ log' = Publish(log, <<"evidence", r.subject>>)
           \/ /\ Sign(t)
              /\ UNCHANGED <<evaluations, evidence>>
              /\ envelopes' = Put(envelopes, r.subject, evidence[r.subject])
              /\ log' = Publish(log, <<"signed", r.subject>>)
BY DEF Step, Lookup, Refuse, RecordEvaluation, RegisterEvidence, Sign, SignFails,
       StartRehearsal, InjectIncident, Remember

(* One event for each thing written. *)
LEMMA LogBegins == RequestInit => OneEventEach
BY DEF RequestInit, OneEventEach, IsInjective

LEMMA LogStep ==
    RequestTypeOK /\ OneEventEach /\ [RequestNext]_requestVars => OneEventEach'
<1> SUFFICES ASSUME RequestTypeOK, OneEventEach, [RequestNext]_requestVars PROVE OneEventEach'
  OBVIOUS
<1>1. CASE UNCHANGED <<evaluations, evidence, envelopes, log>>
  BY <1>1 DEF OneEventEach
<1>2. ASSUME NEW t \in Thread, Step(t) PROVE OneEventEach'
  <2> DEFINE r == calls[t].request
  <2>1. r \in Request
    BY <1>2, CallsTyped DEF InRequest
  <2>2. log \in Seq(LogKey) /\ evaluations \in Seq(Request)
    BY DEF RequestTypeOK
  <2>3. ASSUME NEW key \in LogKey, log' = Publish(log, key)
        PROVE  /\ IsInjective(log') /\ Contains(log', key)
               /\ \A other : Contains(log, other) => Contains(log', other)
    BY <2>2, <2>3, PublishKeeps DEF OneEventEach
  <2>4. CASE /\ UNCHANGED <<evidence, envelopes>>
             /\ evaluations' = Append(evaluations, r)
             /\ log' = Publish(log, <<"eval", r.subject>>)
    <3> HIDE DEF r
    <3>1. \A i \in DOMAIN evaluations' :
              evaluations'[i] = r \/ (i \in DOMAIN evaluations /\ evaluations'[i] = evaluations[i])
      BY <2>1, <2>2, <2>4
    <3> QED
      BY <2>1, <2>3, <2>4, <3>1, RequestTypes DEF OneEventEach
  <2>5. CASE /\ UNCHANGED <<evaluations, envelopes>>
             /\ evidence' = Put(evidence, r.subject, r.says)
             /\ log' = Publish(log, <<"evidence", r.subject>>)
    <3>1. DOMAIN evidence' = DOMAIN evidence \cup {r.subject}
      BY <2>5 DEF Put
    <3> HIDE DEF r
    <3> QED
      BY <2>1, <2>3, <2>5, <3>1, RequestTypes DEF OneEventEach
  <2>6. CASE /\ UNCHANGED <<evaluations, evidence>>
             /\ envelopes' = Put(envelopes, r.subject, evidence[r.subject])
             /\ log' = Publish(log, <<"signed", r.subject>>)
    <3>1. DOMAIN envelopes' = DOMAIN envelopes \cup {r.subject}
      BY <2>6 DEF Put
    <3> HIDE DEF r
    <3> QED
      BY <2>1, <2>3, <2>6, <3>1, RequestTypes DEF OneEventEach
  <2> QED
    BY <1>1, <1>2, <2>4, <2>5, <2>6, StepWrites DEF stores
<1> QED
  BY <1>1, <1>2, ArrivalTyped DEF RequestNext, requestVars, stores

(* Registering and signing are two sections: a request between them is at   *)
(* an id that is on file, and nothing is signed that is not.  In a fixture  *)
(* only synthetic modes are registered, which the local key may sign.       *)
SigningInv ==
    /\ \A t \in Thread : calls[t].pc = "sign" => calls[t].request.subject \in DOMAIN evidence
    /\ DOMAIN envelopes \subseteq DOMAIN evidence
    /\ fixtureMode => \A id \in DOMAIN evidence : evidence[id] \in SyntheticModes
    /\ EnvelopeSignsEvidence
    /\ EvidenceIsSigned

LEMMA SigningBegins == RequestInit => SigningInv
BY DEF RequestInit, SigningInv, EnvelopeSignsEvidence, EvidenceIsSigned, Idle

LEMMA FixtureRegistersSynthetic ==
    ASSUME NEW t \in Thread, RegisterEvidence(t), fixtureMode
    PROVE  calls[t].request.says \in SyntheticModes
<1>1. calls[t].request.op = "evidence" /\ ~Refused(calls[t].request)
  BY DEF RegisterEvidence, Accepted
<1> QED
  BY <1>1 DEF Refused

(* The threads that sign an id are those that did, unless this one is one   *)
(* of them or ceases to be.                                                 *)
LEMMA SigningMoves ==
    ASSUME RequestTypeOK, NEW t \in Thread, DOMAIN calls' = Thread,
           \A u \in Thread \ {t} : calls'[u] = calls[u], NEW id
    PROVE  /\ calls'[t].pc # "sign" => Signing(id)' = Signing(id) \ {t}
           /\ calls[t].pc # "sign" /\ calls'[t].pc # "sign" => Signing(id)' = Signing(id)
           /\ calls[t].request.subject # id /\ calls'[t].request.subject # id
                  => Signing(id)' = Signing(id)
BY DEF Signing

LEMMA SigningStep ==
    RequestTypeOK /\ SigningInv /\ [RequestNext]_requestVars => SigningInv'
<1> SUFFICES ASSUME RequestTypeOK, SigningInv, [RequestNext]_requestVars PROVE SigningInv'
  OBVIOUS
<1> USE DEF EnvelopeSignsEvidence, EvidenceIsSigned
<1>1. UNCHANGED fixtureMode
  BY DEF RequestNext, requestVars, stores, Step, Lookup, Refuse, RecordEvaluation,
         RegisterEvidence, Sign, SignFails, StartRehearsal, InjectIncident, Remember, Arrive
<1>2. ASSUME NEW t \in Thread, DOMAIN calls' = Thread,
             \A u \in Thread \ {t} : calls'[u] = calls[u],
             calls[t].pc # "sign", calls'[t].pc # "sign", UNCHANGED <<evidence, envelopes>>
      PROVE  SigningInv'
  <2>1. \A id : Signing(id)' = Signing(id)
    BY <1>2, SigningMoves
  <2> QED
    BY <1>1, <1>2, <2>1 DEF SigningInv
<1>3. ASSUME NEW t \in Thread, RegisterEvidence(t) PROVE SigningInv'
  <2> DEFINE r == calls[t].request
  <2>1. /\ calls[t].pc = "write" /\ calls'[t].pc = "sign" /\ calls'[t].request = r
        /\ DOMAIN calls' = Thread /\ \A u \in Thread \ {t} : calls'[u] = calls[u]
    BY <1>3, ProceedKeeps DEF RegisterEvidence, Accepted
  <2>2. /\ evidence' = Put(evidence, r.subject, r.says)
        /\ UNCHANGED envelopes
    BY <1>3 DEF RegisterEvidence
  <2>3. /\ DOMAIN evidence' = DOMAIN evidence \cup {r.subject}
        /\ evidence'[r.subject] = r.says
        /\ \A id \in DOMAIN evidence : id # r.subject => evidence'[id] = evidence[id]
    BY <2>2 DEF Put
  <2>0. PICK id0 : id0 = r.subject
    OBVIOUS
  <2>4. Signing(id0)' # {}
    BY <2>0, <2>1 DEF Signing
  <2>5. \A id : id # id0 => Signing(id)' = Signing(id)
    BY <2>0, <2>1, SigningMoves
  <2>6. fixtureMode => r.says \in SyntheticModes
    BY <1>3, FixtureRegistersSynthetic
  <2>7. fixtureMode => \A id \in DOMAIN evidence' : evidence'[id] \in SyntheticModes
    BY <2>3, <2>6 DEF SigningInv
  <2>8. \A u \in Thread : calls'[u].pc = "sign" => calls'[u].request.subject \in DOMAIN evidence'
    BY <2>1, <2>3 DEF SigningInv
  <2> HIDE DEF r
  <2>9. EnvelopeSignsEvidence' /\ EvidenceIsSigned'
    BY <1>1, <2>0, <2>2, <2>3, <2>4, <2>5 DEF SigningInv
  <2> QED
    BY <1>1, <2>2, <2>3, <2>7, <2>8, <2>9 DEF SigningInv
<1>4. ASSUME NEW t \in Thread, Sign(t) PROVE SigningInv'
  <2> DEFINE id0 == calls[t].request.subject
  <2>1. /\ calls[t].pc = "sign" /\ calls'[t].pc = "remember" /\ calls'[t].request.subject = id0
        /\ DOMAIN calls' = Thread /\ \A u \in Thread \ {t} : calls'[u] = calls[u]
    <3>1. calls[t].pc = "sign" /\ ~RegisterEvidence(t) /\ Step(t)
      BY <1>4 DEF Sign, Step, RegisterEvidence, Accepted
    <3>2. ~(calls'[t] = Idle)
      <4>1. InRequest(calls[t])
        BY <3>1 DEF RequestTypeOK, Idle
      <4>2. calls'[t].pc = "remember"
        BY <1>4, <4>1 DEF Sign, RequestTypeOK, InRequest
      <4> QED
        BY <4>2 DEF Idle
    <3> QED
      BY <3>1, <3>2, CallsTyped
  <2>2. /\ id0 \in DOMAIN evidence /\ evidence[id0] \in SyntheticModes
        /\ envelopes' = Put(envelopes, id0, evidence[id0])
        /\ UNCHANGED evidence
    BY <1>4 DEF Sign, SigningInv
  <2>3. /\ DOMAIN envelopes' = DOMAIN envelopes \cup {id0}
        /\ envelopes'[id0] = evidence[id0]
        /\ \A id \in DOMAIN envelopes : id # id0 => envelopes'[id] = envelopes[id]
    BY <2>2 DEF Put
  <2>4. \A id : id # id0 => Signing(id)' = Signing(id)
    BY <2>1, SigningMoves
  <2>5. \A u \in Thread : calls'[u].pc = "sign" => calls'[u].request.subject \in DOMAIN evidence'
    BY <2>1, <2>2 DEF SigningInv
  <2> HIDE DEF id0
  <2>6. EnvelopeSignsEvidence' /\ EvidenceIsSigned'
    BY <1>1, <2>2, <2>3, <2>4 DEF SigningInv
  <2> QED
    BY <1>1, <2>2, <2>3, <2>5, <2>6 DEF SigningInv
(* What was registered cannot be signed: never in a fixture. *)
<1>5. ASSUME NEW t \in Thread, SignFails(t) PROVE SigningInv'
  <2>1. ~fixtureMode
    BY <1>5 DEF SignFails, SigningInv
  <2>2. /\ calls'[t].pc # "sign"
        /\ \A u \in Thread \ {t} : calls'[u] = calls[u]
    BY <1>5 DEF SignFails, Finish, Idle, RequestTypeOK
  <2>3. UNCHANGED <<evidence, envelopes>>
    BY <1>5 DEF SignFails, stores
  <2> QED
    BY <1>1, <2>1, <2>2, <2>3 DEF SigningInv
<1>6. ASSUME NEW t \in Thread, Step(t), ~RegisterEvidence(t), ~Sign(t), ~SignFails(t)
      PROVE  SigningInv'
  <2>1. UNCHANGED <<evidence, envelopes>>
    BY <1>6 DEF Step, Lookup, Refuse, RecordEvaluation, StartRehearsal, InjectIncident,
                Remember, stores
  <2>2. calls[t].pc # "sign"
    BY <1>6 DEF Step, Lookup, Refuse, RecordEvaluation, StartRehearsal, InjectIncident,
                Remember, Accepted
  <2>3. calls'[t].pc # "sign"
    BY <1>6, CallsTyped DEF Idle
  <2> QED
    BY <1>2, <1>6, <2>1, <2>2, <2>3, CallsTyped
<1>7. ASSUME NEW t \in Thread, NEW r \in Inputs, Arrive(t, r) PROVE SigningInv'
  BY <1>2, <1>7, ArrivalTyped DEF stores
<1>8. CASE UNCHANGED requestVars
  BY <1>8 DEF requestVars, stores, SigningInv, Signing
<1> QED
  BY <1>3, <1>4, <1>5, <1>6, <1>7, <1>8 DEF RequestNext

(* Whoever has an answer finds it in the cache, and a request that arrived  *)
(* when its key was answered is still to look it up.                        *)
RetryInv ==
    /\ answered \subseteq DOMAIN cache
    /\ \A t \in Thread :
           calls[t].pc # "idle" /\ calls[t].late =>
               calls[t].pc = "lookup" /\ Slot(calls[t].request) \in DOMAIN cache

LEMMA RetryBegins == RequestInit => RetryInv
BY DEF RequestInit, RetryInv, Idle

LEMMA RetryStep ==
    RequestTypeOK /\ RetryInv /\ [RequestNext]_requestVars => RetryInv'
<1> SUFFICES ASSUME RequestTypeOK, RetryInv, [RequestNext]_requestVars PROVE RetryInv'
  OBVIOUS
<1>1. ASSUME NEW t \in Thread, Step(t) PROVE RetryInv'
  <2>1. DOMAIN cache \subseteq DOMAIN cache' /\ answered' \subseteq DOMAIN cache'
    <3>1. CASE Remember(t)
      BY <3>1 DEF Remember, RetryInv, Put
    <3>2. CASE Lookup(t)
      BY <3>2 DEF Lookup, RetryInv
    <3>3. CASE ~Remember(t) /\ ~Lookup(t)
      BY <1>1, <3>3
         DEF Step, Refuse, RecordEvaluation, RegisterEvidence, Sign, SignFails,
             StartRehearsal, InjectIncident, RetryInv
    <3> QED
      BY <3>1, <3>2, <3>3
  <2>2. calls'[t].pc # "idle" => ~calls'[t].late
    <3>1. SUFFICES ASSUME calls'[t].pc # "idle", calls[t].late, calls'[t].late = calls[t].late
                   PROVE  FALSE
      BY <1>1, CallsTyped DEF Idle
    <3>2. calls[t].pc = "lookup" /\ Slot(calls[t].request) \in DOMAIN cache
      BY <1>1, <3>1, CallsTyped DEF RetryInv
    <3>3. Lookup(t) /\ Finish(t)
      BY <1>1, <3>2
         DEF Step, Lookup, Refuse, RecordEvaluation, RegisterEvidence, Sign, SignFails,
             StartRehearsal, InjectIncident, Remember, Accepted
    <3> QED
      BY <3>1, <3>3 DEF Finish, Idle, RequestTypeOK
  <2> QED
    BY <1>1, <2>1, <2>2, CallsTyped DEF RetryInv
<1>2. ASSUME NEW t \in Thread, NEW r \in Inputs, Arrive(t, r) PROVE RetryInv'
  BY <1>2, ArrivalTyped DEF RetryInv
<1>3. CASE UNCHANGED requestVars
  BY <1>3 DEF requestVars, RetryInv
<1> QED
  BY <1>1, <1>2, <1>3 DEF RequestNext

(* What each thread is doing is one stage of one request. *)
LEMMA RequestsStayTyped == RequestSpec => []RequestTypeOK
BY RequestsTyped, StepTyped, PTL DEF RequestSpec

(* However many requests write the same thing, and in whatever order their  *)
(* threads run, the event store holds one event for it.                     *)
THEOREM EventsAreSingle == RequestSpec => []OneEventEach
BY LogBegins, LogStep, RequestsStayTyped, PTL DEF RequestSpec

LEMMA SigningHolds == RequestSpec => []SigningInv
BY SigningBegins, SigningStep, RequestsStayTyped, PTL DEF RequestSpec

(* In a fixture, whoever registers an id while another signs it, the        *)
(* envelope that is left speaks of the evidence that is left.               *)
THEOREM EnvelopesFollowEvidence == RequestSpec => []EnvelopeSignsEvidence
<1>1. SigningInv => EnvelopeSignsEvidence
  BY DEF SigningInv
<1> QED
  BY <1>1, SigningHolds, PTL

(* In a fixture no evidence stays registered without a signature: the mode  *)
(* that the second section would refuse is refused before the first.        *)
THEOREM FixtureEvidenceIsSigned == RequestSpec => []EvidenceIsSigned
<1>1. SigningInv => EvidenceIsSigned
  BY DEF SigningInv
<1> QED
  BY <1>1, SigningHolds, PTL

(* A request that arrives when its key has been answered writes nothing:    *)
(* its next step is the lookup, and the lookup finds the answer.            *)
THEOREM LateRetriesWriteNothing == RequestSpec => LateRetryWritesNothing
<1>1. ASSUME RequestTypeOK, RetryInv, [RequestNext]_requestVars,
             NEW t \in Thread, calls[t].pc # "idle", calls[t].late, calls'[t] # calls[t]
      PROVE  UNCHANGED stores
  <2>1. calls[t].pc = "lookup"
    BY <1>1 DEF RetryInv
  <2>2. CASE Step(t)
    <3>1. Lookup(t)
      BY <2>1, <2>2
         DEF Step, Lookup, Refuse, RecordEvaluation, RegisterEvidence, Sign, SignFails,
             StartRehearsal, InjectIncident, Remember, Accepted
    <3> QED
      BY <3>1 DEF Lookup
  <2>3. ASSUME NEW u \in Thread, Step(u), u # t PROVE FALSE
    BY <1>1, <2>3, CallsTyped
  <2>4. ASSUME NEW u \in Thread, NEW r \in Inputs, Arrive(u, r) PROVE UNCHANGED stores
    BY <1>1, <2>4, ArrivalTyped
  <2>5. CASE UNCHANGED requestVars
    BY <2>5 DEF requestVars
  <2> QED
    BY <1>1, <2>2, <2>3, <2>4, <2>5 DEF RequestNext
<1>2. RequestTypeOK /\ RetryInv /\ [RequestNext]_requestVars =>
          [\A t \in Thread :
              calls[t].pc # "idle" /\ calls[t].late /\ calls'[t] # calls[t]
                  => UNCHANGED stores]_requestVars
  BY <1>1, Zenon
<1> QED
  BY <1>2, RequestsStayTyped, RetryBegins, RetryStep, PTL DEF RequestSpec, LateRetryWritesNothing
=============================================================================
