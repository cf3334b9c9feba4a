---------------------------- MODULE PolicyProofs ----------------------------
(***************************************************************************)
(* What TLAPS proves of the entitlement gateway, for all threads, contexts *)
(* and requests: it fails closed whatever OPA does, and under the          *)
(* repository's own policy it denies for divergence only where the two     *)
(* policies are known to differ.                                           *)
(***************************************************************************)
EXTENDS PolicyGateway, TLAPS

(* The in-process decision, which authorize makes before anything else.     *)
LocalOf(asked) == asked[1] # NoContext /\ LocalAllows(asked[1], asked[2])

RegoOf(asked) == RegoAllows(asked[1], asked[2])

(* How an answer came about: OPA was not asked, or could not be, or had its *)
(* say, which is the repository's as long as nobody has edited the policy.  *)
NotAsked(call) ==
    ~Adjudicated(call.asked) /\ call.opa = "not asked" /\ call.answer = Verdict(call.local)

Unanswered(call) == Adjudicated(call.asked) /\ call.opa = "unavailable" /\ call.answer = "error"

Heard(call) ==
    /\ Adjudicated(call.asked)
    /\ \E opa \in BOOLEAN :
          /\ call.opa = Verdict(opa)
          /\ call.answer = Verdict(opa /\ call.local)
          /\ policy = "repository" => opa = RegoOf(call.asked)
          /\ opa # call.local => [opa |-> opa, local |-> call.local] \in divergences

Explained(call) ==
    \/ call = Idle
    \/ /\ call.at \in {"asking", "answered"}
       /\ call.asked \in Asked /\ call.local = LocalOf(call.asked)
       /\ call.at = "asking" => Adjudicated(call.asked)
       /\ call.at = "answered" => NotAsked(call) \/ Unanswered(call) \/ Heard(call)

GatewayInv ==
    /\ thread = [t \in Thread |-> thread[t]]
    /\ \A t \in Thread : Explained(thread[t])

(* The record of divergences only grows, and what was explained before the  *)
(* policy was edited needs no explanation by it afterwards.                 *)
LEMMA StaysExplained ==
    ASSUME NEW call, Explained(call), enabled' = enabled,
           divergences \subseteq divergences', policy' = policy \/ policy' = "edited"
    PROVE  Explained(call)'
<1>1. \A asked : Adjudicated(asked)' = Adjudicated(asked)
  BY DEF Adjudicated
<1>2. Heard(call) => Heard(call)'
  BY <1>1 DEF Heard
<1> QED
  BY <1>1, <1>2 DEF Explained, NotAsked, Unanswered

LEMMA GatewayStep == GatewayInv /\ [Next]_vars => GatewayInv'
<1> SUFFICES ASSUME GatewayInv, [Next]_vars
             PROVE  GatewayInv'
  OBVIOUS
<1>0. /\ thread = [t \in Thread |-> thread[t]]
      /\ \A t \in Thread : Explained(thread[t])
  BY DEF GatewayInv
<1>1. CASE UNCHANGED vars \/ EditPolicy
  <2>1. \A t \in Thread : Explained(thread[t])'
    BY <1>0, <1>1, StaysExplained DEF vars, EditPolicy
  <2> QED
    BY <1>0, <1>1, <2>1 DEF vars, EditPolicy, GatewayInv
<1>2. ASSUME NEW t \in Thread, NEW call, thread' = [thread EXCEPT ![t] = call],
             enabled' = enabled, policy' = policy, divergences \subseteq divergences',
             Explained(call)'
      PROVE  GatewayInv'
  <2>1. thread' = [u \in Thread |-> thread'[u]]
    BY <1>0, <1>2
  <2>2. ASSUME NEW u \in Thread PROVE Explained(thread[u])'
    <3>1. CASE u = t
      BY <1>0, <1>2, <3>1
    <3>2. CASE u # t
      <4>1. thread'[u] = thread[u]
        BY <1>0, <1>2, <3>2
      <4> QED
        BY <1>0, <1>2, <4>1, StaysExplained
    <3> QED
      BY <3>1, <3>2
  <2> QED
    BY <2>1, <2>2 DEF GatewayInv
<1>3. ASSUME NEW t \in Thread, NEW asked \in Asked, Authorize(t, asked)
      PROVE  GatewayInv'
  <2>1. CASE Adjudicated(asked)
    <3> DEFINE call == [at |-> "asking", asked |-> asked, local |-> LocalOf(asked)]
    <3>1. thread' = [thread EXCEPT ![t] = call] /\ UNCHANGED <<enabled, policy, divergences>>
      BY <1>3, <2>1 DEF Authorize, LocalOf
    <3>2. Explained(call)'
      BY <2>1, <3>1 DEF Explained, Adjudicated, LocalOf
    <3> QED
      BY <1>2, <3>1, <3>2
  <2>2. CASE ~Adjudicated(asked)
    <3> DEFINE call == Answered(asked, LocalOf(asked), "not asked", Verdict(LocalOf(asked)))
    <3>1. thread' = [thread EXCEPT ![t] = call] /\ UNCHANGED <<enabled, policy, divergences>>
      BY <1>3, <2>2 DEF Authorize, LocalOf
    <3>2. Explained(call)'
      BY <2>2, <3>1 DEF Explained, NotAsked, Adjudicated, Answered, LocalOf
    <3> QED
      BY <1>2, <3>1, <3>2
  <2> QED
    BY <2>1, <2>2
<1>4. ASSUME NEW t \in Thread, thread[t].at = "asking"
      PROVE  \E asked \in Asked, local \in BOOLEAN :
                /\ thread[t].asked = asked /\ thread[t].local = local
                /\ local = LocalOf(asked) /\ Adjudicated(asked)
  <2>1. Explained(thread[t]) /\ thread[t] # Idle
    BY <1>0, <1>4 DEF Idle
  <2>2. /\ thread[t].asked \in Asked /\ thread[t].local = LocalOf(thread[t].asked)
        /\ Adjudicated(thread[t].asked)
    BY <1>4, <2>1 DEF Explained
  <2>3. LocalOf(thread[t].asked) \in BOOLEAN
    BY DEF LocalOf
  <2> QED
    BY <2>2, <2>3
<1>5. ASSUME NEW t \in Thread, OpaAnswers(t)
      PROVE  GatewayInv'
  <2>1. PICK asked \in Asked, local \in BOOLEAN :
            /\ thread[t].asked = asked /\ thread[t].local = local
            /\ local = LocalOf(asked) /\ Adjudicated(asked)
    BY <1>4, <1>5 DEF OpaAnswers
  <2>2. PICK opa \in OpaVerdicts(asked) :
            /\ divergences' = divergences \cup Divergence(opa, local)
            /\ thread' = [thread EXCEPT ![t] =
                   Answered(asked, local, Verdict(opa), Decide(opa, local))]
    BY <1>0, <1>5, <2>1 DEF OpaAnswers
  <2> DEFINE call == Answered(asked, local, Verdict(opa), Decide(opa, local))
  <2>3. UNCHANGED <<enabled, policy>>
    BY <1>5 DEF OpaAnswers
  <2>4. opa \in BOOLEAN /\ (policy = "repository" => opa = RegoOf(asked))
    BY <2>2 DEF OpaVerdicts, RegoOf, RegoAllows
  <2>5. /\ call.at = "answered" /\ call.asked = asked /\ call.local = local
        /\ call.opa = Verdict(opa) /\ call.answer = Verdict(opa /\ local)
    BY DEF Answered, Decide
  <2>6. opa # local => [opa |-> opa, local |-> local] \in divergences'
    BY <2>2 DEF Divergence
  <2>7. Adjudicated(asked)'
    BY <2>1, <2>3 DEF Adjudicated
  <2>8. Heard(call)'
    BY <2>3, <2>4, <2>5, <2>6, <2>7 DEF Heard
  <2>9. Explained(call)'
    BY <2>1, <2>5, <2>8 DEF Explained
  <2> QED
    BY <1>2, <2>2, <2>3, <2>9
<1>6. ASSUME NEW t \in Thread, OpaUnavailable(t)
      PROVE  GatewayInv'
  <2>1. PICK asked \in Asked, local \in BOOLEAN :
            /\ thread[t].asked = asked /\ thread[t].local = local
            /\ local = LocalOf(asked) /\ Adjudicated(asked)
    BY <1>4, <1>6 DEF OpaUnavailable
  <2> DEFINE call == Answered(asked, local, "unavailable", "error")
  <2>2. thread' = [thread EXCEPT ![t] = call] /\ UNCHANGED <<enabled, policy, divergences>>
    BY <1>0, <1>6, <2>1 DEF OpaUnavailable
  <2>3. Explained(call)'
    BY <2>1, <2>2 DEF Explained, Unanswered, Adjudicated, Answered
  <2> QED
    BY <1>2, <2>2, <2>3
<1>7. ASSUME NEW t \in Thread, Deliver(t)
      PROVE  GatewayInv'
  <2>1. Explained(Idle)'
    BY DEF Explained, Idle
  <2> QED
    BY <1>2, <1>7, <2>1 DEF Deliver
<1> QED
  BY <1>1, <1>3, <1>5, <1>6, <1>7 DEF Next

LEMMA AnswerExplained ==
    ASSUME GatewayInv, NEW t \in Thread, thread[t].at = "answered"
    PROVE  /\ thread[t].asked \in Asked
           /\ thread[t].local = LocalOf(thread[t].asked) /\ thread[t].local \in BOOLEAN
           /\ NotAsked(thread[t]) \/ Unanswered(thread[t]) \/ Heard(thread[t])
<1>1. Explained(thread[t]) /\ thread[t] # Idle
  BY DEF GatewayInv, Idle
<1>2. \A asked : LocalOf(asked) \in BOOLEAN
  BY DEF LocalOf
<1> QED
  BY <1>1, <1>2 DEF Explained

LEMMA GatewayBegins == Init => GatewayInv
BY DEF Init, GatewayInv, Explained

(* What OPA and the in-process policy answer decides what is allowed, and   *)
(* both are needed: OPA down, late or edited never opens anything, and a    *)
(* refusal of OPA's against the in-process policy is on record.             *)
THEOREM GatewayFailsClosed == Spec => []FailsClosed
<1>1. GatewayInv => FailsClosed
  <2> SUFFICES ASSUME GatewayInv, NEW t \in Thread, thread[t].at = "answered"
               PROVE  /\ thread[t].answer = "allowed" =>
                            /\ LocalOf(thread[t].asked)
                            /\ Adjudicated(thread[t].asked) => thread[t].opa = "allowed"
                      /\ thread[t].local /\ thread[t].opa = "denied" =>
                            [opa |-> FALSE, local |-> TRUE] \in divergences
    BY DEF FailsClosed, LocalOf
  <2>1. /\ thread[t].local = LocalOf(thread[t].asked) /\ thread[t].local \in BOOLEAN
        /\ NotAsked(thread[t]) \/ Unanswered(thread[t]) \/ Heard(thread[t])
    BY AnswerExplained
  <2>2. CASE NotAsked(thread[t]) \/ Unanswered(thread[t])
    BY <2>1, <2>2 DEF NotAsked, Unanswered, Verdict
  <2>3. CASE Heard(thread[t])
    BY <2>1, <2>3 DEF Heard, Verdict
  <2> QED
    BY <2>1, <2>2, <2>3
<1> QED
  BY <1>1, GatewayBegins, GatewayStep, PTL DEF Spec

(* Where the two policies differ, rule by rule.                             *)
LEMMA PoliciesCompared ==
    ASSUME NEW context, NEW request, context.environment \in Environment,
           request.kind \in Kind, OpaAction(request) # "none"
    PROVE  /\ LocalAllows(context, request) /\ ~RegoAllows(context, request) =>
                  OpaStricter(context, request)
           /\ ~LocalAllows(context, request) /\ RegoAllows(context, request) =>
                  OpaLaxer(context, request)
<1>1. /\ OpaAction(request) = "approve_evidence" <=> request.kind = "approve"
      /\ OpaAction(request) = "read_sensitive_economics"
             <=> request.kind # "approve" /\ request.sensitive
      /\ OpaAction(request) = "read" <=> request.kind = "read" /\ ~request.sensitive
  BY DEF OpaAction, Kind
<1>2. /\ request.kind = "approve" \/ request.sensitive \/ request.kind = "read"
  BY <1>1 DEF OpaAction, Kind
<1>3. ASSUME LocalAllows(context, request), ~RegoAllows(context, request)
      PROVE  OpaStricter(context, request)
  BY <1>1, <1>2, <1>3
     DEF LocalAllows, RegoAllows, OpaStricter, Environment, Holds, ReviewerRoles
<1>4. ASSUME ~LocalAllows(context, request), RegoAllows(context, request)
      PROVE  OpaLaxer(context, request)
  BY <1>1, <1>2, <1>4 DEF LocalAllows, RegoAllows, OpaLaxer, Holds, ReviewerRoles
<1> QED
  BY <1>3, <1>4

(* Under the repository's own policy every disagreement falls under one of  *)
(* the known differences, whoever asks for whatever.                        *)
THEOREM DivergenceExplained == Spec => []DisagreementsExplained
<1>1. GatewayInv => DisagreementsExplained
  <2> SUFFICES ASSUME GatewayInv, NEW t \in Thread, thread[t].at = "answered",
                      thread[t].opa \in {"allowed", "denied"},
                      policy = "repository", thread[t].opa # Verdict(thread[t].local)
               PROVE  IF thread[t].local
                        THEN OpaStricter(thread[t].asked[1], thread[t].asked[2])
                        ELSE OpaLaxer(thread[t].asked[1], thread[t].asked[2])
    BY DEF DisagreementsExplained
  <2>1. /\ thread[t].asked \in Asked /\ thread[t].local = LocalOf(thread[t].asked)
        /\ Heard(thread[t])
    BY AnswerExplained DEF NotAsked, Unanswered
  <2>2. PICK asked \in Asked : asked = thread[t].asked
    BY <2>1
  <2>3. asked[1] # NoContext /\ OpaAction(asked[2]) # "none"
    BY <2>1, <2>2 DEF Heard, Adjudicated
  <2>4. thread[t].local <=> LocalAllows(asked[1], asked[2])
    BY <2>1, <2>2, <2>3 DEF LocalOf
  <2>5. thread[t].opa = Verdict(RegoAllows(asked[1], asked[2]))
    BY <2>1, <2>2 DEF Heard, RegoOf
  <2>6. asked[1].environment \in Environment /\ asked[2].kind \in Kind
    BY <2>3, AskedAssumption
  <2> QED
    <3> DEFINE lets == LocalAllows(asked[1], asked[2])
               rego == RegoAllows(asked[1], asked[2])
    <3>1. /\ lets /\ ~rego => OpaStricter(asked[1], asked[2])
          /\ ~lets /\ rego => OpaLaxer(asked[1], asked[2])
      BY <2>3, <2>6, PoliciesCompared
    <3>2. CASE thread[t].local
      <4>1. lets /\ ~rego
        BY <2>4, <2>5, <3>2 DEF Verdict
      <4> QED
        BY <2>2, <3>1, <3>2, <4>1
    <3>3. CASE ~thread[t].local
      <4>1. ~lets /\ rego
        BY <2>4, <2>5, <3>3 DEF Verdict
      <4> QED
        BY <2>2, <3>1, <3>3, <4>1
    <3> QED
      BY <3>2, <3>3
<1> QED
  BY <1>1, GatewayBegins, GatewayStep, PTL DEF Spec
=============================================================================
