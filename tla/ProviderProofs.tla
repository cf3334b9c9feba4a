--------------------------- MODULE ProviderProofs ---------------------------
(***************************************************************************)
(* What TLAPS proves of the provider gateway, for every set of threads,    *)
(* threshold, window and length of the audit: its types, that the breaker  *)
(* is never left closed over a count that has reached the threshold, and    *)
(* that its two fields implement BreakerPromise.                            *)
(***************************************************************************)
EXTENDS ProviderGateway, TLAPS


(* A thread that is about to be audited has a mode to enter: what raised    *)
(* never gets there.  TypeOK needs it for the audit.                        *)
AuditHasMode == \A t \in Thread : At(t, "auditing") => thread[t].answer \in Mode

GatewayInv == TypeOK /\ AuditHasMode

(* A bounded deque holds what was in it, and never more than its limit. *)
LEMMA BoundedType ==
    ASSUME NEW S, NEW deque \in Seq(S), NEW limit \in Nat \ {0}
    PROVE  Bounded(deque, limit) \in Seq(S) /\ Len(Bounded(deque, limit)) <= limit
<1>1. CASE Len(deque) <= limit
  BY <1>1 DEF Bounded
<1>2. CASE ~(Len(deque) <= limit)
  <2> DEFINE first == Len(deque) - limit + 1
  <2>1. first \in 1 .. Len(deque) /\ Len(deque) \in Nat
    BY <1>2
  <2>2. SubSeq(deque, first, Len(deque)) \in Seq(S)
    BY <2>1
  <2>3. Len(SubSeq(deque, first, Len(deque))) = limit
    BY <2>1
  <2> QED
    BY <1>2, <2>2, <2>3 DEF Bounded
<1> QED
  BY <1>1, <1>2

(* What a step makes of its thread, as one record. *)
Puts(t, place, read, answer) ==
    thread' = [thread EXCEPT ![t] = [at |-> place, read |-> read, answer |-> answer]]

(* A thread that goes on, or concludes, leaves the record of threads typed. *)
LEMMA ThreadTyped ==
    ASSUME GatewayInv, NEW t \in Thread,
           NEW place \in Place, NEW read \in 0 .. clock, NEW answer \in Answer,
           place = "auditing" => answer \in Mode,
           Puts(t, place, read, answer)
    PROVE  /\ thread' \in [Thread -> [at : Place, read : 0 .. clock, answer : Answer]]
           /\ AuditHasMode'
<1>1. thread \in [Thread -> [at : Place, read : 0 .. clock, answer : Answer]]
  BY DEF GatewayInv, TypeOK
<1>0. thread' = [thread EXCEPT ![t] = [at |-> place, read |-> read, answer |-> answer]]
  BY DEF Puts
<1>2. thread' \in [Thread -> [at : Place, read : 0 .. clock, answer : Answer]]
  BY <1>0, <1>1
<1>3. ASSUME NEW u \in Thread, thread'[u].at = "auditing"
      PROVE  thread'[u].answer \in Mode
  <2>1. CASE u = t
    BY <1>0, <1>1, <1>3, <2>1
  <2>2. CASE u # t
    BY <1>0, <1>1, <1>3, <2>2 DEF GatewayInv, AuditHasMode, At
  <2> QED
    BY <2>1, <2>2
<1> QED
  BY <1>2, <1>3 DEF AuditHasMode, At

(* Setting two fields of the record of a thread, one after the other. *)
LEMMA PlaceAndTime ==
    ASSUME NEW R, NEW r \in [at : Place, read : R, answer : Answer], NEW x, NEW y
    PROVE  [r EXCEPT !.at = x, !.read = y] = [at |-> x, read |-> y, answer |-> r.answer]
<1> DEFINE q == [r EXCEPT !.at = x]
<1>1. q = [at |-> x, read |-> r.read, answer |-> r.answer]
  OBVIOUS
<1>2. [r EXCEPT !.at = x, !.read = y] = [q EXCEPT !.read = y]
  OBVIOUS
<1> HIDE DEF q
<1> QED
  BY <1>1, <1>2

LEMMA PlaceAndAnswer ==
    ASSUME NEW R, NEW r \in [at : Place, read : R, answer : Answer], NEW x, NEW y
    PROVE  [r EXCEPT !.at = x, !.answer = y] = [at |-> x, read |-> r.read, answer |-> y]
<1> DEFINE q == [r EXCEPT !.at = x]
<1>1. q = [at |-> x, read |-> r.read, answer |-> r.answer]
  OBVIOUS
<1>2. [r EXCEPT !.at = x, !.answer = y] = [q EXCEPT !.answer = y]
  OBVIOUS
<1> HIDE DEF q
<1> QED
  BY <1>1, <1>2

(* Every action of a thread puts that thread somewhere, and only there with *)
(* a mode to enter in the audit.                                            *)
LEMMA StepPuts ==
    ASSUME GatewayInv, NEW t \in Thread, Arrive(t) \/ Step(t)
    PROVE  \E place \in Place, read \in 0 .. clock, answer \in Answer :
               Puts(t, place, read, answer) /\ (place = "auditing" => answer \in Mode)
<1> DEFINE Goal == \E place \in Place, read \in 0 .. clock, answer \in Answer :
               Puts(t, place, read, answer) /\ (place = "auditing" => answer \in Mode)
<1>1. /\ clock \in Nat
      /\ thread \in [Thread -> [at : Place, read : 0 .. clock, answer : Answer]]
  BY DEF GatewayInv, TypeOK
<1>2. /\ thread[t] \in [at : Place, read : 0 .. clock, answer : Answer]
      /\ 0 \in 0 .. clock /\ clock \in 0 .. clock
  BY <1>1
<1>3. ASSUME NEW place \in Place, NEW read \in 0 .. clock, NEW answer \in Answer,
             place = "auditing" => answer \in Mode,
             thread' = [thread EXCEPT ![t] = [at |-> place, read |-> read, answer |-> answer]]
      PROVE  Goal
  BY <1>3 DEF Puts
<1>4. CASE Arrive(t)
  BY <1>2, <1>3, <1>4 DEF Arrive, Concludes, Place, Answer, Mode
<1>5. CASE AllowAsk(t)
  <2>1. CASE openedAt = None
    <3>1. thread' = [thread EXCEPT ![t] = [at |-> "calling", read |-> 0, answer |-> thread[t].answer]]
      <4>1. thread' = [thread EXCEPT ![t] = [thread[t] EXCEPT !.at = "calling", !.read = 0]]
        BY <1>5, <2>1 DEF AllowAsk
      <4>2. [thread[t] EXCEPT !.at = "calling", !.read = 0]
                = [at |-> "calling", read |-> 0, answer |-> thread[t].answer]
        BY <1>2, PlaceAndTime
      <4> QED
        BY <4>1, <4>2
    <3> QED
      BY <1>2, <1>3, <3>1 DEF Place
  <2>2. CASE openedAt # None
    <3>1. thread' = [thread EXCEPT ![t] = [at |-> "timing", read |-> clock, answer |-> thread[t].answer]]
      <4>1. thread' = [thread EXCEPT ![t] = [thread[t] EXCEPT !.at = "timing", !.read = clock]]
        BY <1>5, <2>2 DEF AllowAsk
      <4>2. [thread[t] EXCEPT !.at = "timing", !.read = clock]
                = [at |-> "timing", read |-> clock, answer |-> thread[t].answer]
        BY <1>2, PlaceAndTime
      <4> QED
        BY <4>1, <4>2
    <3> QED
      BY <1>2, <1>3, <3>1 DEF Place
  <2> QED
    BY <2>1, <2>2
<1>6. CASE AllowReset(t)
  <2>1. thread' = [thread EXCEPT ![t] = [at |-> "calling", read |-> 0, answer |-> thread[t].answer]]
    <3>1. thread' = [thread EXCEPT ![t] = [thread[t] EXCEPT !.at = "calling", !.read = 0]]
      BY <1>6 DEF AllowReset
    <3>2. [thread[t] EXCEPT !.at = "calling", !.read = 0]
              = [at |-> "calling", read |-> 0, answer |-> thread[t].answer]
      BY <1>2, PlaceAndTime
    <3> QED
      BY <3>1, <3>2
  <2> QED
    BY <1>2, <1>3, <2>1 DEF Place
<1>7. CASE AllowRefuse(t) \/ AllowRaise(t)
  BY <1>2, <1>3, <1>7 DEF AllowRefuse, AllowRaise, Concludes, Place, Answer, Mode
<1>8. CASE ProviderReturns(t)
  BY <1>1, <1>2, <1>3, <1>8 DEF ProviderReturns, Goes, Place
<1>9. CASE BreakerSuccess(t) \/ BreakerOpen(t)
  BY <1>2, <1>3, <1>9 DEF BreakerSuccess, BreakerOpen, Concludes, Place, Answer, Mode
<1>10. CASE BreakerFailure(t)
  BY <1>1, <1>2, <1>3, <1>10 DEF BreakerFailure, Concludes, Place, Answer, Mode
<1>11. CASE Audit(t)
  <2>1. thread' = [thread EXCEPT ![t] = [at |-> "idle", read |-> thread[t].read, answer |-> "none"]]
    <3>1. thread' = [thread EXCEPT ![t] = [thread[t] EXCEPT !.at = "idle", !.answer = "none"]]
      BY <1>11 DEF Audit
    <3>2. [thread[t] EXCEPT !.at = "idle", !.answer = "none"]
              = [at |-> "idle", read |-> thread[t].read, answer |-> "none"]
      BY <1>2, PlaceAndAnswer
    <3> QED
      BY <3>1, <3>2
  <2> QED
    BY <1>2, <1>3, <2>1 DEF Place, Answer
<1> QED
  BY <1>4, <1>5, <1>6, <1>7, <1>8, <1>9, <1>10, <1>11 DEF Step

(* No step disturbs the types, nor sends to the audit what raised. *)
LEMMA GatewayStep ==
    ASSUME GatewayInv, [Next]_vars
    PROVE  GatewayInv'
<1>0. /\ clock \in 0 .. MaxTime /\ failures \in Nat /\ openedAt \in 0 .. clock \cup {None}
      /\ audit \in Seq(Mode) /\ Len(audit) <= AuditLimit
      /\ thread \in [Thread -> [at : Place, read : 0 .. clock, answer : Answer]]
  BY DEF GatewayInv, TypeOK
<1>1. CASE UNCHANGED vars
  BY <1>1 DEF vars, GatewayInv, TypeOK, AuditHasMode, At
<1>2. CASE Tick
  <2>1. clock' \in 0 .. MaxTime /\ \A n \in 0 .. clock : n \in 0 .. clock'
    BY <1>0, <1>2, GatewayAssumption DEF Tick
  <2>2. thread' \in [Thread -> [at : Place, read : 0 .. clock', answer : Answer]]
    BY <1>0, <1>2, <2>1 DEF Tick
  <2>3. openedAt' \in 0 .. clock' \cup {None}
    BY <1>0, <1>2, <2>1 DEF Tick
  <2> QED
    BY <1>2, <2>1, <2>2, <2>3 DEF Tick, GatewayInv, TypeOK, AuditHasMode, At
<1>3. ASSUME NEW t \in Thread, Arrive(t) \/ Step(t)
      PROVE  GatewayInv'
  <2>1. UNCHANGED clock
    BY <1>3 DEF Arrive, Step, AllowAsk, AllowReset, AllowRefuse, AllowRaise, ProviderReturns,
                BreakerSuccess, BreakerFailure, BreakerOpen, Audit
  <2>2. /\ thread' \in [Thread -> [at : Place, read : 0 .. clock, answer : Answer]]
        /\ AuditHasMode'
    <3>1. PICK place \in Place, read \in 0 .. clock, answer \in Answer :
              Puts(t, place, read, answer) /\ (place = "auditing" => answer \in Mode)
      BY <1>3, StepPuts
    <3> QED
      BY <3>1, ThreadTyped
  <2>3. failures' \in Nat
    BY <1>0, <1>3 DEF Arrive, Step, AllowAsk, AllowReset, AllowRefuse, AllowRaise,
                      ProviderReturns, BreakerSuccess, BreakerFailure, BreakerOpen, Audit
  <2>4. openedAt' \in 0 .. clock \cup {None}
    <3>1. CASE BreakerOpen(t)
      BY <1>0, <3>1 DEF BreakerOpen
    <3>2. CASE ~BreakerOpen(t)
      BY <1>0, <1>3, <3>2 DEF Arrive, Step, AllowAsk, AllowReset, AllowRefuse, AllowRaise,
                              ProviderReturns, BreakerSuccess, BreakerFailure, Audit
    <3> QED
      BY <3>1, <3>2
  <2>5. audit' \in Seq(Mode) /\ Len(audit') <= AuditLimit
    <3>1. CASE Audit(t)
      <4>1. Append(audit, thread[t].answer) \in Seq(Mode)
        BY <1>0, <3>1 DEF Audit, GatewayInv, AuditHasMode
      <4> QED
        BY <3>1, <4>1, BoundedType, GatewayAssumption DEF Audit
    <3>2. CASE ~Audit(t)
      BY <1>0, <1>3, <3>2 DEF Arrive, Step, AllowAsk, AllowReset, AllowRefuse, AllowRaise,
                              ProviderReturns, BreakerSuccess, BreakerFailure, BreakerOpen
    <3> QED
      BY <3>1, <3>2
  <2> QED
    BY <1>0, <2>1, <2>2, <2>3, <2>4, <2>5 DEF GatewayInv, TypeOK
<1> QED
  BY <1>1, <1>2, <1>3 DEF Next

(* The state of the gateway keeps its types: whatever the threads do, the   *)
(* audit holds modes and no more than its limit, and the breaker was never  *)
(* opened in the future.                                                    *)
THEOREM GatewayTyped == Spec => []TypeOK
<1>1. Init => GatewayInv
  BY GatewayAssumption DEF Init, GatewayInv, TypeOK, AuditHasMode, At, Place, Answer, None
<1>2. GatewayInv /\ [Next]_vars => GatewayInv'
  BY GatewayStep
<1>3. GatewayInv => TypeOK
  BY DEF GatewayInv
<1> QED
  BY <1>1, <1>2, <1>3, PTL DEF Spec

-----------------------------------------------------------------------------
(* What an action leaves of the places and times of the other threads. *)
LEMMA OthersStay ==
    ASSUME GatewayInv, NEW t \in Thread, Arrive(t) \/ Step(t), NEW u \in Thread, u # t
    PROVE  thread'[u] = thread[u]
<1>1. PICK place \in Place, read \in 0 .. clock, answer \in Answer :
          Puts(t, place, read, answer)
  BY StepPuts
<1> QED
  BY <1>1 DEF Puts, GatewayInv, TypeOK

(* The breaker is not left closed over a count that has reached the         *)
(* threshold: whoever raises the count that far is on the way to open it,   *)
(* whatever the others do to the two fields meanwhile, and whoever closes   *)
(* it resets the count in the same step.                                    *)
THEOREM BreakerTrips == Spec => []TripsAtThreshold
<1>1. Init => GatewayInv /\ TripsAtThreshold
  BY GatewayAssumption DEF Init, GatewayInv, TypeOK, AuditHasMode, TripsAtThreshold, At, Place, Answer, None
<1>2. GatewayInv /\ TripsAtThreshold /\ [Next]_vars => GatewayInv' /\ TripsAtThreshold'
  <2> SUFFICES ASSUME GatewayInv, TripsAtThreshold, [Next]_vars
               PROVE  TripsAtThreshold'
    BY GatewayStep
  <2>0. /\ failures \in Nat /\ clock \in Nat
        /\ thread \in [Thread -> [at : Place, read : 0 .. clock, answer : Answer]]
    BY DEF GatewayInv, TypeOK
  <2>1. CASE UNCHANGED vars \/ Tick
    BY <2>1 DEF vars, Tick, TripsAtThreshold, At
  <2>2. ASSUME NEW t \in Thread, Arrive(t) \/ Step(t)
        PROVE  TripsAtThreshold'
    <3> SUFFICES ASSUME failures' >= FailureThreshold, openedAt' = None
                 PROVE  \E u \in Thread : thread'[u].at = "opening"
      BY DEF TripsAtThreshold, At
    <3>1. CASE BreakerFailure(t)
      <4>1. thread'[t].at = "opening"
        BY <2>0, <3>1 DEF BreakerFailure
      <4> QED
        BY <4>1
    <3>2. CASE AllowReset(t) \/ BreakerSuccess(t)
      BY <3>2, GatewayAssumption DEF AllowReset, BreakerSuccess
    <3>3. CASE BreakerOpen(t)
      BY <2>0, <3>3 DEF BreakerOpen, None
    <3>4. CASE Arrive(t) \/ AllowAsk(t) \/ AllowRefuse(t) \/ AllowRaise(t)
               \/ ProviderReturns(t) \/ Audit(t)
      <4>1. UNCHANGED <<failures, openedAt>> /\ ~At(t, "opening")
        BY <3>4 DEF Arrive, AllowAsk, AllowRefuse, AllowRaise, ProviderReturns, Audit, At
      <4>2. PICK u \in Thread : At(u, "opening")
        BY <4>1 DEF TripsAtThreshold
      <4>3. thread'[u] = thread[u]
        BY <2>2, <4>1, <4>2, OthersStay
      <4> QED
        BY <4>2, <4>3 DEF At
    <3> QED
      BY <2>2, <3>1, <3>2, <3>3, <3>4 DEF Step
  <2> QED
    BY <2>1, <2>2 DEF Next
<1> QED
  BY <1>1, <1>2, PTL DEF Spec

-----------------------------------------------------------------------------
(* The refinement.  A thread's part in the promise is whether its call is   *)
(* in flight and, if it is about to open the breaker, since when.           *)
InFlight(place) == place \in {"calling", "succeeding", "failing"}

LEMMA MappedSets ==
    ASSUME GatewayInv, NEW t \in Thread, NEW place \in Place, NEW read \in 0 .. clock,
           thread'[t].at = place, thread'[t].read = read,
           \A u \in Thread \ {t} : thread'[u] = thread[u]
    PROVE  LET calls == {u \in Thread : thread[u].at \in {"calling", "succeeding", "failing"}}
               blame == {<<u, thread[u].read>> : u \in {w \in Thread : At(w, "opening")}}
           IN  /\ calls' = IF InFlight(place) THEN calls \cup {t} ELSE calls \ {t}
               /\ blame' = (IF At(t, "opening") THEN blame \ {<<t, thread[t].read>>} ELSE blame)
                              \cup (IF place = "opening" THEN {<<t, read>>} ELSE {})
<1> DEFINE calls == {u \in Thread : thread[u].at \in {"calling", "succeeding", "failing"}}
           blame == {<<u, thread[u].read>> : u \in {w \in Thread : At(w, "opening")}}
<1>1. calls' = IF InFlight(place) THEN calls \cup {t} ELSE calls \ {t}
  BY DEF InFlight
<1>2. ASSUME NEW b \in blame'
      PROVE  \/ b \in blame /\ (At(t, "opening") => b # <<t, thread[t].read>>)
             \/ place = "opening" /\ b = <<t, read>>
  BY <1>2 DEF At
<1>3. ASSUME NEW b \in blame, At(t, "opening") => b # <<t, thread[t].read>>
      PROVE  b \in blame'
  BY <1>3 DEF At
<1>4. ASSUME place = "opening" PROVE <<t, read>> \in blame'
  BY <1>4 DEF At
<1> QED
  BY <1>1, <1>2, <1>3, <1>4

(* What a thread does, seen from the promise: arriving, being refused and   *)
(* being audited are invisible, a call that begins finds the breaker closed *)
(* or its window over, and only success closes it otherwise.  The time a    *)
(* thread compared is not in the future, so a window that was over when it  *)
(* looked is over when it acts, even where another thread has moved it.     *)
LEMMA StepKeepsPromise ==
    ASSUME GatewayInv, NEW t \in Thread, Arrive(t) \/ Step(t)
    PROVE  [Breaker!Next]_(Breaker!vars)
<1> DEFINE calls == {u \in Thread : thread[u].at \in {"calling", "succeeding", "failing"}}
           blame == {<<u, thread[u].read>> : u \in {w \in Thread : At(w, "opening")}}
<1>0. /\ clock \in Nat /\ openedAt \in 0 .. clock \cup {None}
      /\ thread \in [Thread -> [at : Place, read : 0 .. clock, answer : Answer]]
  BY DEF GatewayInv, TypeOK
<1>1. /\ thread' \in [Thread -> [at : Place, read : 0 .. clock, answer : Answer]]
      /\ UNCHANGED clock
  <2>1. PICK place \in Place, read \in 0 .. clock, answer \in Answer :
            Puts(t, place, read, answer) /\ (place = "auditing" => answer \in Mode)
    BY StepPuts
  <2> QED
    BY <2>1, ThreadTyped DEF Arrive, Step, AllowAsk, AllowReset, AllowRefuse, AllowRaise,
         ProviderReturns, BreakerSuccess, BreakerFailure, BreakerOpen, Audit
<1>2. \A u \in Thread \ {t} : thread'[u] = thread[u]
  BY OthersStay
<1>3. /\ calls' = IF InFlight(thread'[t].at) THEN calls \cup {t} ELSE calls \ {t}
      /\ blame' = (IF At(t, "opening") THEN blame \ {<<t, thread[t].read>>} ELSE blame)
                     \cup (IF thread'[t].at = "opening" THEN {<<t, thread'[t].read>>} ELSE {})
  BY <1>1, <1>2, MappedSets
<1>4. t \in calls <=> InFlight(thread[t].at)
  BY DEF InFlight
<1>5. At(t, "opening") => <<t, thread[t].read>> \in blame
  OBVIOUS
<1> HIDE DEF calls, blame
<1>6. CASE Arrive(t) \/ AllowRefuse(t) \/ AllowRaise(t) \/ Audit(t)
  <2>1. /\ ~InFlight(thread[t].at) /\ ~At(t, "opening")
        /\ ~InFlight(thread'[t].at) /\ thread'[t].at # "opening" /\ UNCHANGED openedAt
    BY <1>0, <1>6 DEF Arrive, AllowRefuse, AllowRaise, Audit, Concludes, At, InFlight
  <2>2. UNCHANGED <<clock, openedAt, calls, blame>>
    BY <1>1, <1>3, <1>4, <2>1
  <2> QED
    BY <2>2 DEF Breaker!vars, calls, blame
<1>7. CASE AllowAsk(t)
  <2>1. ~InFlight(thread[t].at) /\ ~At(t, "opening") /\ UNCHANGED openedAt
    BY <1>0, <1>7 DEF AllowAsk, At, InFlight
  <2>2. CASE openedAt = None
    <3>1. thread'[t].at = "calling"
      BY <1>0, <1>7, <2>2 DEF AllowAsk
    <3>2. t \notin calls /\ calls' = calls \cup {t} /\ UNCHANGED blame
      BY <1>3, <1>4, <2>1, <3>1 DEF InFlight
    <3>3. Breaker!Begin(t)
      BY <1>1, <2>1, <2>2, <3>2 DEF Breaker!Begin, Breaker!Closed, None, calls, blame
    <3> QED
      BY <3>3 DEF Breaker!Next
  <2>3. CASE openedAt # None
    <3>1. thread'[t].at = "timing"
      BY <1>0, <1>7, <2>3 DEF AllowAsk
    <3>2. UNCHANGED <<clock, openedAt, calls, blame>>
      BY <1>1, <1>3, <1>4, <2>1, <3>1 DEF InFlight
    <3> QED
      BY <3>2 DEF Breaker!vars, calls, blame
  <2> QED
    BY <2>2, <2>3
<1>8. CASE AllowReset(t)
  <2>1. /\ ~InFlight(thread[t].at) /\ ~At(t, "opening") /\ thread'[t].at = "calling"
    BY <1>0, <1>8 DEF AllowReset, At, InFlight
  <2>2. openedAt' = -1 /\ clock - openedAt >= ResetSeconds
    BY <1>0, <1>8, GatewayAssumption DEF AllowReset, None
  <2>3. t \notin calls /\ calls' = calls \cup {t} /\ UNCHANGED blame
    BY <1>3, <1>4, <2>1 DEF InFlight
  <2>4. Breaker!Begin(t)
    BY <1>1, <2>2, <2>3 DEF Breaker!Begin, calls, blame
  <2> QED
    BY <2>4 DEF Breaker!Next
<1>9. CASE ProviderReturns(t)
  <2>1. /\ InFlight(thread[t].at) /\ ~At(t, "opening") /\ UNCHANGED openedAt
        /\ InFlight(thread'[t].at) /\ thread'[t].at # "opening"
    BY <1>0, <1>9 DEF ProviderReturns, Goes, At, InFlight
  <2>2. UNCHANGED <<clock, openedAt, calls, blame>>
    BY <1>1, <1>3, <1>4, <2>1
  <2> QED
    BY <2>2 DEF Breaker!vars, calls, blame
<1>10. CASE BreakerSuccess(t)
  <2>1. /\ InFlight(thread[t].at) /\ ~At(t, "opening") /\ openedAt' = -1
        /\ ~InFlight(thread'[t].at) /\ thread'[t].at # "opening"
    BY <1>0, <1>10 DEF BreakerSuccess, Concludes, At, InFlight, None
  <2>2. t \in calls /\ calls' = calls \ {t} /\ UNCHANGED blame
    BY <1>3, <1>4, <2>1
  <2>3. Breaker!Succeed(t)
    BY <1>1, <2>1, <2>2 DEF Breaker!Succeed, calls, blame
  <2> QED
    BY <2>3 DEF Breaker!Next
<1>11. CASE BreakerFailure(t)
  <2>1. /\ InFlight(thread[t].at) /\ ~At(t, "opening") /\ UNCHANGED openedAt
        /\ ~InFlight(thread'[t].at)
    BY <1>0, <1>11 DEF BreakerFailure, Concludes, At, InFlight
  <2>2. t \in calls /\ calls' = calls \ {t}
    BY <1>3, <1>4, <2>1
  <2>3. blame' \in {blame, blame \cup {<<t, clock>>}}
    <3>1. thread'[t].at = "opening" => thread'[t].read = clock
      BY <1>0, <1>11 DEF BreakerFailure, Concludes
    <3> QED
      BY <1>3, <2>1, <3>1
  <2>4. Breaker!Fail(t)
    BY <1>1, <2>1, <2>2, <2>3 DEF Breaker!Fail, calls, blame
  <2> QED
    BY <2>4 DEF Breaker!Next
<1>12. CASE BreakerOpen(t)
  <2>1. /\ ~InFlight(thread[t].at) /\ At(t, "opening") /\ openedAt' = thread[t].read
        /\ ~InFlight(thread'[t].at) /\ thread'[t].at # "opening"
    BY <1>0, <1>12 DEF BreakerOpen, Concludes, At, InFlight
  <2>2. UNCHANGED calls /\ blame' = blame \ {<<t, thread[t].read>>}
    BY <1>3, <1>4, <2>1
  <2>3. <<t, thread[t].read>> \in blame /\ openedAt' = <<t, thread[t].read>>[2]
    BY <1>5, <2>1
  <2>4. Breaker!Open
    BY <1>1, <2>2, <2>3 DEF Breaker!Open, calls, blame
  <2> QED
    BY <2>4 DEF Breaker!Next
<1> QED
  BY <1>6, <1>7, <1>8, <1>9, <1>10, <1>11, <1>12 DEF Step

(* The two fields, read and written by several threads with switches in     *)
(* between, keep the promise of a circuit breaker.                          *)
THEOREM GatewayKeepsPromise == Spec => KeepsBreakerPromise
<1>1. Init => GatewayInv
  BY GatewayAssumption DEF Init, GatewayInv, TypeOK, AuditHasMode, At, Place, Answer, None
<1>2. Init => Breaker!Init
  BY DEF Init, Breaker!Init, At, None
<1>3. GatewayInv /\ [Next]_vars => GatewayInv'
  BY GatewayStep
<1>4. GatewayInv /\ [Next]_vars => [Breaker!Next]_(Breaker!vars)
  <2> SUFFICES ASSUME GatewayInv, [Next]_vars PROVE [Breaker!Next]_(Breaker!vars)
    OBVIOUS
  <2>1. CASE UNCHANGED vars
    BY <2>1 DEF vars, Breaker!vars, At
  <2>2. CASE Tick
    BY <2>2 DEF Tick, Breaker!Next, Breaker!Wait, At
  <2>3. ASSUME NEW t \in Thread, Arrive(t) \/ Step(t)
        PROVE  [Breaker!Next]_(Breaker!vars)
    BY <2>3, StepKeepsPromise
  <2> QED
    BY <2>1, <2>2, <2>3 DEF Next
<1> QED
  BY <1>1, <1>2, <1>3, <1>4, PTL DEF Spec, KeepsBreakerPromise, Breaker!Spec
=============================================================================
