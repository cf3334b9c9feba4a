-------------------------- MODULE ProviderGateway --------------------------
(***************************************************************************)
(* The GenAI gateway of the service (genai_gateway.py): narratives are     *)
(* asked of an external provider behind a payload guard, a circuit breaker *)
(* and a claim compiler, with a deterministic narrative wherever one of    *)
(* them refuses.  FastAPI runs each request on a thread of its own and the *)
(* breaker has no lock, so a step here is what a CPython thread does       *)
(* between two points at which the interpreter may switch: the return of a *)
(* call into C, such as time.monotonic(), and the entry of a function.     *)
(*                                                                         *)
(* The provider chosen is enabled: without one generate() returns the      *)
(* deterministic narrative and touches nothing.                            *)
(***************************************************************************)
EXTENDS Integers, Sequences, FiniteSets

CONSTANTS
    Thread,           \* the threads that serve requests
    FailureThreshold, \* CircuitBreaker.failure_threshold
    ResetSeconds,     \* CircuitBreaker.reset_seconds
    AuditLimit,       \* maxlen of the audit deque
    MaxTime           \* bound on the clock

ASSUME GatewayAssumption ==
    /\ FailureThreshold \in Nat \ {0}
    /\ ResetSeconds \in Nat
    /\ AuditLimit \in Nat \ {0}
    /\ MaxTime \in Nat

None == -1

(* How an answered request ended: the mode returned with the narrative, or  *)
(* "error" where an exception left generate().                              *)
Mode == {"provider", "deterministic_guard_rejection", "deterministic_circuit_open",
         "deterministic_fallback"}
Answer == Mode \cup {"none", "error"}

VARIABLES
    clock,      \* time.monotonic()
    failures,   \* CircuitBreaker.failures
    openedAt,   \* CircuitBreaker.opened_at
    audit,      \* the modes in the audit deque, oldest first
    thread      \* per thread: where it is, the time it read last, and the
                \* answer it is about to give ("error" once it has raised)

vars == <<clock, failures, openedAt, audit, thread>>

Place == {"idle", "asking", "timing", "calling", "succeeding", "failing",
          "opening", "auditing"}

Init ==
    /\ clock = 0
    /\ failures = 0
    /\ openedAt = None
    /\ audit = <<>>
    /\ thread = [t \in Thread |-> [at |-> "idle", read |-> 0, answer |-> "none"]]

At(t, place) == thread[t].at = place

Goes(t, place) == thread' = [thread EXCEPT ![t].at = place]

(* The thread leaves with an answer that is audited first; the time it read *)
(* last does not matter any more.                                           *)
Concludes(t, answer) ==
    thread' = [thread EXCEPT ![t] = [at |-> "auditing", read |-> 0, answer |-> answer]]

-----------------------------------------------------------------------------
(* A request arrives on a thread that is free, and PayloadGuard.validate    *)
(* finds nothing in its payload, or a reason to keep it.                    *)
Arrive(t) ==
    /\ At(t, "idle")
    /\ \/ thread' = [thread EXCEPT ![t] = [at |-> "asking", read |-> 0, answer |-> "none"]]
       \/ Concludes(t, "deterministic_guard_rejection")
    /\ UNCHANGED <<clock, failures, openedAt, audit>>

(* CircuitBreaker.allow, first look: closed, or the clock is read. *)
AllowAsk(t) ==
    /\ At(t, "asking")
    /\ thread' = [thread EXCEPT ![t].at = IF openedAt = None THEN "calling" ELSE "timing",
                                ![t].read = IF openedAt = None THEN 0 ELSE clock]
    /\ UNCHANGED <<clock, failures, openedAt, audit>>

(* Mutant: whoever finds the breaker open closes it. *)
AllowResetAlways(t) ==
    /\ At(t, "timing")
    /\ openedAt # None
    /\ failures' = 0
    /\ openedAt' = None
    /\ thread' = [thread EXCEPT ![t].at = "calling", ![t].read = 0]
    /\ UNCHANGED <<clock, audit>>

(* CircuitBreaker.allow, once the clock is read: opened_at is loaded again. *)
(* The window is over and the breaker closes; *)
AllowReset(t) ==
    /\ At(t, "timing")
    /\ openedAt # None
    /\ thread[t].read - openedAt >= ResetSeconds
    /\ failures' = 0
    /\ openedAt' = None
    /\ thread' = [thread EXCEPT ![t].at = "calling", ![t].read = 0]
    /\ UNCHANGED <<clock, audit>>

(* or it is not, and the request is refused; *)
AllowRefuse(t) ==
    /\ At(t, "timing")
    /\ openedAt # None
    /\ thread[t].read - openedAt < ResetSeconds
    /\ Concludes(t, "deterministic_circuit_open")
    /\ UNCHANGED <<clock, failures, openedAt, audit>>

(* or another thread has closed the breaker since the first look, and the   *)
(* subtraction raises a TypeError, outside the try of generate().           *)
AllowRaise(t) ==
    /\ At(t, "timing")
    /\ openedAt = None
    /\ thread' = [thread EXCEPT ![t] = [at |-> "idle", read |-> 0, answer |-> "error"]]
    /\ UNCHANGED <<clock, failures, openedAt, audit>>

(* Mutant: a failed call is tried again, with no limit and no count. *)
ProviderRetried(t) ==
    /\ At(t, "calling")
    /\ Goes(t, "succeeding") \/ Goes(t, "asking")
    /\ UNCHANGED <<clock, failures, openedAt, audit>>

(* The provider answers with a narrative that compiles, or it raises, or    *)
(* times out, or the claim compiler rejects what it says.                   *)
ProviderReturns(t) ==
    /\ At(t, "calling")
    /\ Goes(t, "succeeding") \/ Goes(t, "failing")
    /\ UNCHANGED <<clock, failures, openedAt, audit>>

(* CircuitBreaker.success. *)
BreakerSuccess(t) ==
    /\ At(t, "succeeding")
    /\ failures' = 0
    /\ openedAt' = None
    /\ Concludes(t, "provider")
    /\ UNCHANGED <<clock, audit>>

(* Mutant: the breaker opens one failure late. *)
BreakerFailureLate(t) ==
    /\ At(t, "failing")
    /\ failures' = failures + 1
    /\ IF failures >= FailureThreshold
         THEN thread' = [thread EXCEPT ![t].at = "opening", ![t].read = clock]
         ELSE Concludes(t, "deterministic_fallback")
    /\ UNCHANGED <<clock, openedAt, audit>>

(* CircuitBreaker.failure: counted, and at the threshold the clock is read. *)
BreakerFailure(t) ==
    /\ At(t, "failing")
    /\ failures' = failures + 1
    /\ IF failures + 1 >= FailureThreshold
         THEN thread' = [thread EXCEPT ![t].at = "opening", ![t].read = clock]
         ELSE Concludes(t, "deterministic_fallback")
    /\ UNCHANGED <<clock, openedAt, audit>>

(* CircuitBreaker.failure, once the clock is read: the breaker opens. *)
BreakerOpen(t) ==
    /\ At(t, "opening")
    /\ openedAt' = thread[t].read
    /\ Concludes(t, "deterministic_fallback")
    /\ UNCHANGED <<clock, failures, audit>>

(* Keeping the newest `limit` entries of a deque. *)
Bounded(deque, limit) ==
    IF Len(deque) <= limit THEN deque ELSE SubSeq(deque, Len(deque) - limit + 1, Len(deque))

(* _audit, and the answer is returned. *)
Audit(t) ==
    /\ At(t, "auditing")
    /\ audit' = Bounded(Append(audit, thread[t].answer), AuditLimit)
    /\ thread' = [thread EXCEPT ![t].at = "idle", ![t].answer = "none"]
    /\ UNCHANGED <<clock, failures, openedAt>>

Tick ==
    /\ clock < MaxTime
    /\ clock' = clock + 1
    /\ UNCHANGED <<failures, openedAt, audit, thread>>

(* What a thread does of its own once a request is on it. *)
Step(t) ==
    \/ AllowAsk(t) \/ AllowReset(t) \/ AllowRefuse(t) \/ AllowRaise(t)
    \/ ProviderReturns(t) \/ BreakerSuccess(t) \/ BreakerFailure(t) \/ BreakerOpen(t)
    \/ Audit(t)

Next == Tick \/ \E t \in Thread : Arrive(t) \/ Step(t)

Spec == Init /\ [][Next]_vars

(* A handler runs to its end: the provider clients have a timeout, and no   *)
(* thread waits for another.  Nothing obliges a request to arrive.          *)
FairSpec == Spec /\ \A t \in Thread : WF_vars(Step(t))

-----------------------------------------------------------------------------
(* What the provider gateway is checked for.                                *)

TypeOK ==
    /\ clock \in 0 .. MaxTime
    /\ failures \in Nat
    /\ openedAt \in 0 .. clock \cup {None}
    /\ audit \in Seq(Mode) /\ Len(audit) <= AuditLimit
    /\ thread \in [Thread -> [at : Place, read : 0 .. clock, answer : Answer]]

(* A provider that has failed often enough is not left behind a closed      *)
(* breaker: whenever the count has reached the threshold and the breaker is *)
(* closed, some thread is about to open it.  The counter and the time are   *)
(* two fields, written by failure(), success() and allow() of several       *)
(* threads with switches in between.                                        *)
TripsAtThreshold ==
    failures >= FailureThreshold /\ openedAt = None => \E t \in Thread : At(t, "opening")

(* The two fields keep the promise of a circuit breaker: no call begins     *)
(* while the window runs, and before its end only the success of a call     *)
(* already in flight closes it.                                             *)
Breaker == INSTANCE BreakerPromise WITH
    Window <- ResetSeconds,
    opened <- openedAt,
    inflight <- {t \in Thread : thread[t].at \in {"calling", "succeeding", "failing"}},
    blamed <- {<<t, thread[t].read>> : t \in {u \in Thread : At(u, "opening")}}

KeepsBreakerPromise == Breaker!Spec

(* Every request is answered: with a narrative, or with an error.           *)
RequestsAnswered ==
    \A t \in Thread : ~At(t, "idle") ~> At(t, "idle")

-----------------------------------------------------------------------------
(* "A deterministic brief remains the operational fallback whenever the     *)
(* provider, circuit breaker, payload guard or compiler fails": no request  *)
(* ends without a narrative.                                                *)
EveryRequestGetsNarrative == \A t \in Thread : thread[t].answer # "error"
=============================================================================
