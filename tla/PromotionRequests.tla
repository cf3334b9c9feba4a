------------------------- MODULE PromotionRequests -------------------------
(***************************************************************************)
(* The mutating routes of the promotion API (api.py of src/wallet_twin_v32)*)
(* as they run: each request on a worker thread, first looking its         *)
(* Idempotency-Key up in an unlocked cache, then writing through the       *)
(* repository, then remembering its answer under the key.                  *)
(*                                                                         *)
(* Here are the routes that do not depend on the position: evaluations,    *)
(* evidence (registered and signed under two separate lock sections),      *)
(* rehearsals and their incidents.  Approvals are in PromotionRepository.  *)
(* Who may call a route (authorize) is left out.                           *)
(***************************************************************************)
EXTENDS EvidenceModes, SequencesExt

CONSTANTS
    Thread,        \* the worker threads
    Key,           \* Idempotency-Key header values
    Inputs,        \* the requests clients send
    MaxRequests    \* bound on the requests that arrive

Operation == {"evaluation", "evidence", "rehearsal", "rehearsal-incident"}

(* A request: `subject` is the evaluation's gate, track and time, the       *)
(* evidence id, or the scenario of the rehearsal; `says` is the track of an *)
(* evaluation, the mode of evidence or of a rehearsal, or the scenario an   *)
(* incident names.                                                          *)
Request == [op : Operation, key : Key, subject : STRING, says : STRING]

ASSUME RequestsAssumption ==
    /\ Inputs \subseteq Request
    /\ MaxRequests \in Nat

VARIABLES
    fixtureMode,   \* repository.fixture_mode, which the constructor fixes
    cache,         \* _MUTATION_CACHE: answers by operation and key
    calls,         \* what each thread is doing
    evaluations,   \* the repository's evaluations, as the requests sent
    evidence,      \* _evidence: the mode registered for each evidence id
    envelopes,     \* _envelopes: the mode signed for each evidence id
    log,           \* the idempotency keys of the event store, in order
    runs,          \* _REHEARSAL_RUNS: the scenarios with a run
    incidents,     \* _REHEARSAL_INCIDENTS of all runs, in order
    answered,      \* the operations and keys whose answer a client has
    arrived        \* how many requests have arrived

stores == <<fixtureMode, evaluations, evidence, envelopes, log, runs, incidents>>
requestVars == <<cache, calls, stores, answered, arrived>>

Idle == [pc |-> "idle"]

RequestInit ==
    /\ fixtureMode \in BOOLEAN
    /\ cache = <<>>
    /\ calls = [t \in Thread |-> Idle]
    /\ evaluations = <<>> /\ evidence = <<>> /\ envelopes = <<>>
    /\ log = <<>> /\ runs = {} /\ incidents = <<>>
    /\ answered = {}
    /\ arrived = 0

-----------------------------------------------------------------------------
Slot(r) == <<r.op, r.key>>

Put(map, key, value) == [k \in DOMAIN map \cup {key} |-> IF k = key THEN value ELSE map[k]]

(* Mutant: the store takes every event. *)
PublishAlways(events, key) == Append(events, key)

(* PromotionEventStore.append: a key already on record adds nothing. *)
Publish(events, key) == IF Contains(events, key) THEN events ELSE Append(events, key)

Proceed(t, pc) == calls' = [calls EXCEPT ![t].pc = pc]
Finish(t) == calls' = [calls EXCEPT ![t] = Idle]

(* A request reaches a free thread.  `late` says that a client already has  *)
(* an answer under its key.                                                 *)
Arrive(t, r) ==
    /\ calls[t].pc = "idle"
    /\ arrived < MaxRequests
    /\ arrived' = arrived + 1
    /\ calls' = [calls EXCEPT ![t] =
                    [pc |-> "lookup", request |-> r, late |-> Slot(r) \in answered,
                     answer |-> r.says]]
    /\ UNCHANGED <<cache, stores, answered>>

(* _cached. *)
Lookup(t) ==
    /\ calls[t].pc = "lookup"
    /\ IF Slot(calls[t].request) \in DOMAIN cache
         THEN Finish(t) /\ answered' = answered \cup {Slot(calls[t].request)}
         ELSE Proceed(t, "write") /\ UNCHANGED answered
    /\ UNCHANGED <<cache, stores, arrived>>

(* Mutant: fixture mode is left to the repository, as it is for the others. *)
RefusedWithoutMode(r) ==
    CASE r.op = "evaluation"         -> fixtureMode /\ r.says = "REAL"
      [] r.op = "evidence"           -> FALSE
      [] r.op = "rehearsal"          -> r.says \notin SyntheticModes
      [] r.op = "rehearsal-incident" -> r.subject \notin runs \/ r.says # r.subject

(* The refusals of the handlers (HTTP 404 and 409), which remember nothing. *)
Refused(r) ==
    CASE r.op = "evaluation"         -> fixtureMode /\ r.says = "REAL"
      [] r.op = "evidence"           -> fixtureMode /\ r.says \notin SyntheticModes
      [] r.op = "rehearsal"          -> r.says \notin SyntheticModes
      [] r.op = "rehearsal-incident" -> r.subject \notin runs \/ r.says # r.subject

Refuse(t) ==
    /\ calls[t].pc = "write"
    /\ Refused(calls[t].request)
    /\ Finish(t)
    /\ UNCHANGED <<cache, stores, answered, arrived>>

-----------------------------------------------------------------------------
(* The writes.  Each is one section under the repository's lock, or one     *)
(* operation on a dictionary.                                               *)
Accepted(t, op) ==
    /\ calls[t].pc = "write"
    /\ calls[t].request.op = op
    /\ ~Refused(calls[t].request)

(* repository.record_evaluation. *)
RecordEvaluation(t) ==
    /\ Accepted(t, "evaluation")
    /\ evaluations' = Append(evaluations, calls[t].request)
    /\ log' = Publish(log, <<"eval", calls[t].request.subject>>)
    /\ Proceed(t, "remember")
    /\ UNCHANGED <<cache, fixtureMode, evidence, envelopes, runs, incidents, answered, arrived>>

(* repository.register_evidence, the first half of POST /evidence. *)
RegisterEvidence(t) ==
    LET r == calls[t].request
    IN /\ Accepted(t, "evidence")
       /\ evidence' = Put(evidence, r.subject, r.says)
       /\ log' = Publish(log, <<"evidence", r.subject>>)
       /\ Proceed(t, "sign")
       /\ UNCHANGED <<cache, fixtureMode, evaluations, envelopes, runs, incidents, answered, arrived>>

(* Mutant: what the request carried is signed, not what is registered. *)
SignCarried(t) ==
    LET r == calls[t].request
    IN /\ calls[t].pc = "sign"
       /\ r.says \in SyntheticModes
       /\ envelopes' = Put(envelopes, r.subject, r.says)
       /\ log' = Publish(log, <<"signed", r.subject>>)
       /\ calls' = [calls EXCEPT ![t].pc = "remember", ![t].answer = <<r.says, r.says>>]
       /\ UNCHANGED <<cache, fixtureMode, evaluations, evidence, runs, incidents, answered, arrived>>

(* repository.sign_evidence, the second half: it signs what is registered   *)
(* now.  The local key may sign the synthetic modes only.                   *)
Sign(t) ==
    LET id == calls[t].request.subject
    IN /\ calls[t].pc = "sign"
       /\ evidence[id] \in SyntheticModes
       /\ envelopes' = Put(envelopes, id, evidence[id])
       /\ log' = Publish(log, <<"signed", id>>)
       /\ calls' = [calls EXCEPT ![t].pc = "remember",
                                 ![t].answer = <<calls[t].request.says, evidence[id]>>]
       /\ UNCHANGED <<cache, fixtureMode, evaluations, evidence, runs, incidents, answered, arrived>>

(* The envelope's contract refuses the mode: the request ends in an error   *)
(* that the handler does not catch, and the registration stays.             *)
SignFails(t) ==
    /\ calls[t].pc = "sign"
    /\ evidence[calls[t].request.subject] \notin SyntheticModes
    /\ Finish(t)
    /\ UNCHANGED <<cache, stores, answered, arrived>>

(* start_promotion_rehearsal: the run is named after its scenario. *)
StartRehearsal(t) ==
    /\ Accepted(t, "rehearsal")
    /\ runs' = runs \cup {calls[t].request.subject}
    /\ Proceed(t, "remember")
    /\ UNCHANGED <<cache, fixtureMode, evaluations, evidence, envelopes, log, incidents, answered, arrived>>

(* inject_rehearsal_incident. *)
InjectIncident(t) ==
    /\ Accepted(t, "rehearsal-incident")
    /\ incidents' = Append(incidents, calls[t].request)
    /\ Proceed(t, "remember")
    /\ UNCHANGED <<cache, fixtureMode, evaluations, evidence, envelopes, log, runs, answered, arrived>>

(* Mutant: the answer is sent and not remembered. *)
RememberNothing(t) ==
    /\ calls[t].pc = "remember"
    /\ answered' = answered \cup {Slot(calls[t].request)}
    /\ Finish(t)
    /\ UNCHANGED <<cache, stores, arrived>>

(* _remember, and the answer goes out. *)
Remember(t) ==
    /\ calls[t].pc = "remember"
    /\ cache' = Put(cache, Slot(calls[t].request), calls[t].answer)
    /\ answered' = answered \cup {Slot(calls[t].request)}
    /\ Finish(t)
    /\ UNCHANGED <<stores, arrived>>

Step(t) ==
    \/ Lookup(t) \/ Refuse(t) \/ RecordEvaluation(t) \/ RegisterEvidence(t) \/ Sign(t)
    \/ SignFails(t) \/ StartRehearsal(t) \/ InjectIncident(t) \/ Remember(t)

RequestNext == \E t \in Thread : Step(t) \/ \E r \in Inputs : Arrive(t, r)

RequestSpec == RequestInit /\ [][RequestNext]_requestVars

-----------------------------------------------------------------------------
(* What the mutating routes of the promotion API are checked for.           *)

(* Threads that have registered this evidence and have yet to sign it. *)
Signing(id) == {t \in Thread : calls[t].pc = "sign" /\ calls[t].request.subject = id}

(* The event store holds one event for each thing written, however many     *)
(* requests wrote it and in whatever order.                                 *)
OneEventEach ==
    /\ IsInjective(log)
    /\ \A i \in DOMAIN evaluations : Contains(log, <<"eval", evaluations[i].subject>>)
    /\ \A id \in DOMAIN evidence : Contains(log, <<"evidence", id>>)
    /\ \A id \in DOMAIN envelopes : Contains(log, <<"signed", id>>)

(* Registering and signing are two sections, and other requests register    *)
(* the same id in between; in a fixture, once nobody is signing it any      *)
(* more, the envelope of an evidence id speaks of the evidence on file.     *)
EnvelopeSignsEvidence ==
    fixtureMode =>
        \A id \in DOMAIN envelopes : Signing(id) = {} => envelopes[id] = evidence[id]

(* In a fixture nothing stays registered without a signature: when no       *)
(* request is signing it, evidence on file has an envelope                  *)
(* ("len(repository.envelopes()) == len(repository.evidence())",            *)
(* test_v32_service.py).  POST /evidence registers before it signs, and     *)
(* only its refusal of bank evidence keeps the second step from failing.    *)
EvidenceIsSigned ==
    fixtureMode => \A id \in DOMAIN evidence : Signing(id) = {} => id \in DOMAIN envelopes

(* A request that arrives when its key has been answered writes nothing.    *)
LateRetryWritesNothing ==
    [][\A t \in Thread :
          calls[t].pc # "idle" /\ calls[t].late /\ calls'[t] # calls[t] => UNCHANGED stores]_requestVars

-----------------------------------------------------------------------------
(* "a retried request must resolve to the same event rather than a second   *)
(* one" (api.py): an Idempotency-Key injects one incident.                  *)
OneIncidentPerKey ==
    \A i, j \in DOMAIN incidents : incidents[i].key = incidents[j].key => i = j
=============================================================================
