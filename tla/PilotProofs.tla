----------------------------- MODULE PilotProofs -----------------------------
(***************************************************************************)
(* What TLAPS proves of the supervised pilot, for every number of threads, *)
(* sessions, tasks and items of feedback: sessions are completed when their*)
(* tasks are, and the readiness that is put together from three walks is    *)
(* about the sessions as they are.                                          *)
(***************************************************************************)
EXTENDS PilotSessions, FiniteSetTheorems, TLAPS

Item == [session : Nat, task : Task, completed : BOOLEAN]

Session == [tasks : SUBSET Task, status : {"IN_PROGRESS", "COMPLETED"}, real : BOOLEAN]

Done(s) == sessions[s].tasks \subseteq CompletedTasks(s)

Completed(s) == sessions[s].real /\ sessions[s].status = "COMPLETED"

Marking(s) ==
    \E t \in Thread : \/ At(t, "tally") /\ calls[t].item.session = s
                      \/ At(t, "mark") /\ calls[t].session = s

(* What is on file: sessions are known before there is feedback on them, a  *)
(* session has tasks, and one that is completed has done them.              *)
OnFile ==
    /\ pilot \in BOOLEAN
    /\ sessions \in Seq(Session)
    /\ \A s \in DOMAIN sessions :
          /\ sessions[s].tasks # {}
          /\ sessions[s].status = "COMPLETED" => Done(s)
    /\ feedback \in Seq(Item)
    /\ \A i \in DOMAIN feedback : feedback[i].session \in DOMAIN sessions

(* What a thread holds while it is on its way.                              *)
Holds(call) ==
    /\ call.pc \in {"append", "tally"} => call.item \in Item /\ call.item.session \in DOMAIN sessions
    /\ call.pc = "mark" => call.session \in DOMAIN sessions /\ Done(call.session)
    /\ call.pc = "completed" =>
          call.size \in Nat /\ call.done \in Nat /\ 1 .. call.size \subseteq DOMAIN sessions
    /\ call.pc \in {"completed", "between", "real", "ratings"} =>
          \A s \in call.completed : s \in DOMAIN sessions /\ Completed(s)
    /\ call.pc = "ratings" =>
          /\ call.real \subseteq DOMAIN sessions
          /\ call.completed \subseteq call.real

OnTheWay ==
    /\ calls = [t \in Thread |-> calls[t]]
    /\ \A t \in Thread : Holds(calls[t])

NoneForgotten == \A s \in DOMAIN sessions : Done(s) => sessions[s].status = "COMPLETED" \/ Marking(s)

PilotInv == OnFile /\ OnTheWay /\ NoneForgotten

(* What is completed stays completed: feedback and sessions are only added, *)
(* and a session keeps its tasks and where it is from.                      *)
Grows ==
    /\ DOMAIN sessions \subseteq DOMAIN sessions'
    /\ \A s \in DOMAIN sessions :
          /\ sessions'[s].tasks = sessions[s].tasks
          /\ sessions'[s].real = sessions[s].real
          /\ sessions[s].status = "COMPLETED" => sessions'[s].status = "COMPLETED"
          /\ CompletedTasks(s) \subseteq CompletedTasks(s)'

LEMMA FileStep ==
    ASSUME PilotInv, [Next]_vars
    PROVE  Grows /\ OnFile'
<1>0. OnFile /\ OnTheWay
  BY DEF PilotInv
<1>1. CASE UNCHANGED <<pilot, sessions, feedback>>
  BY <1>0, <1>1 DEF OnFile, Grows, Done, CompletedTasks
<1>2. ASSUME NEW t \in Thread, NEW tasks \in SUBSET Task, Start(t, tasks)
      PROVE  Grows /\ OnFile'
  <2>1. PICK new \in Session :
           /\ new = [tasks |-> tasks, status |-> "IN_PROGRESS", real |-> pilot] /\ tasks # {}
           /\ sessions' = Append(sessions, new) /\ UNCHANGED <<pilot, feedback>>
    BY <1>0, <1>2 DEF Start, OnFile, Session
  <2>2. /\ sessions' \in Seq(Session) /\ DOMAIN sessions \subseteq DOMAIN sessions'
        /\ \A s \in DOMAIN sessions : sessions'[s] = sessions[s]
        /\ \A s \in DOMAIN sessions' : s \in DOMAIN sessions \/ sessions'[s] = new
    BY <1>0, <2>1 DEF OnFile
  <2>3. \A s : CompletedTasks(s)' = CompletedTasks(s)
    BY <2>1 DEF CompletedTasks
  <2>4. Grows
    BY <2>2, <2>3 DEF Grows
  <2>5. ASSUME NEW s \in DOMAIN sessions'
        PROVE  sessions'[s].tasks # {} /\ (sessions'[s].status = "COMPLETED" => Done(s)')
    BY <1>0, <2>1, <2>2, <2>3 DEF OnFile, Done
  <2> QED
    BY <1>0, <2>1, <2>2, <2>4, <2>5 DEF OnFile
<1>3. ASSUME NEW t \in Thread, AppendFeedback(t)
      PROVE  Grows /\ OnFile'
  <2>1. /\ calls[t].item \in Item /\ calls[t].item.session \in DOMAIN sessions
        /\ feedback' = Append(feedback, calls[t].item) /\ UNCHANGED <<pilot, sessions>>
    BY <1>0, <1>3 DEF OnTheWay, Holds, AppendFeedback, At
  <2>2. /\ feedback' \in Seq(Item) /\ Range(feedback) \subseteq Range(feedback')
        /\ \A i \in DOMAIN feedback' : feedback'[i].session \in DOMAIN sessions
    <3>1. feedback \in Seq(Item) /\ \A i \in DOMAIN feedback : feedback[i].session \in DOMAIN sessions
      BY <1>0 DEF OnFile
    <3>2. feedback' \in Seq(Item) /\ Range(feedback) \subseteq Range(feedback')
      BY <2>1, <3>1 DEF Range
    <3>3. \A i \in DOMAIN feedback' :
             feedback'[i] = calls[t].item \/ (i \in DOMAIN feedback /\ feedback'[i] = feedback[i])
      BY <2>1, <3>1
    <3> QED
      BY <2>1, <3>1, <3>2, <3>3
  <2>3. \A s : CompletedTasks(s) \subseteq CompletedTasks(s)'
    BY <2>2 DEF CompletedTasks
  <2> QED
    BY <1>0, <2>1, <2>2, <2>3 DEF OnFile, Grows, Done
<1>4. ASSUME NEW t \in Thread, Mark(t)
      PROVE  Grows /\ OnFile'
  <2> DEFINE id == calls[t].session
  <2>1. /\ id \in DOMAIN sessions /\ Done(id)
        /\ sessions' = [sessions EXCEPT ![id].status = "COMPLETED"] /\ UNCHANGED <<pilot, feedback>>
    BY <1>0, <1>4 DEF OnTheWay, Holds, Mark, At
  <2>2. \A s : CompletedTasks(s)' = CompletedTasks(s)
    BY <2>1 DEF CompletedTasks
  <2>3. /\ DOMAIN sessions' = DOMAIN sessions
        /\ sessions'[id] = [sessions[id] EXCEPT !.status = "COMPLETED"]
        /\ \A s \in DOMAIN sessions \ {id} : sessions'[s] = sessions[s]
    BY <1>0, <2>1 DEF OnFile
  <2>4. /\ sessions'[id] \in Session /\ sessions' \in Seq(Session)
        /\ sessions'[id].tasks = sessions[id].tasks /\ sessions'[id].real = sessions[id].real
        /\ sessions'[id].status = "COMPLETED"
    <3>1. sessions \in Seq(Session) /\ sessions[id] \in Session
      BY <1>0, <2>1 DEF OnFile
    <3>2. /\ [sessions[id] EXCEPT !.status = "COMPLETED"] \in Session
          /\ [sessions[id] EXCEPT !.status = "COMPLETED"].tasks = sessions[id].tasks
          /\ [sessions[id] EXCEPT !.status = "COMPLETED"].real = sessions[id].real
          /\ [sessions[id] EXCEPT !.status = "COMPLETED"].status = "COMPLETED"
      BY <3>1 DEF Session
    <3>3. PICK new \in Session : new = [sessions[id] EXCEPT !.status = "COMPLETED"]
      BY <3>2
    <3>4. sessions' = [sessions EXCEPT ![id] = new]
      BY <2>1, <3>3
    <3>5. sessions' \in Seq(Session)
      BY <2>1, <3>1, <3>4
    <3> QED
      BY <2>3, <3>1, <3>2, <3>5
  <2> HIDE DEF id
  <2>5. Grows
    BY <1>0, <2>2, <2>3, <2>4 DEF Grows
  <2>6. ASSUME NEW s \in DOMAIN sessions
        PROVE  /\ sessions'[s].tasks # {}
               /\ sessions'[s].status = "COMPLETED" => Done(s)'
    BY <1>0, <2>1, <2>2, <2>3, <2>4 DEF OnFile, Done
  <2> QED
    BY <1>0, <2>1, <2>3, <2>4, <2>5, <2>6 DEF OnFile
<1> QED
  BY <1>1, <1>2, <1>3, <1>4 DEF Next, vars, ReceiveFeedback, Tally, BeginReadiness,
                                ReadinessRaises, LookAtSession, EndFirstWalk, BeginSecondWalk,
                                WalkReal, Publish

(* Whatever a thread holds stays true while others go on.                   *)
LEMMA HoldsGrows ==
    ASSUME NEW call, Holds(call), Grows
    PROVE  Holds(call)'
BY DEF Holds, Grows, Done, Completed

LEMMA WayStep ==
    ASSUME PilotInv, [Next]_vars
    PROVE  OnTheWay'
<1>0. OnFile /\ OnTheWay /\ Grows /\ OnFile'
  BY FileStep DEF PilotInv
<1>1. ASSUME UNCHANGED calls PROVE OnTheWay'
  <2>1. \A t \in Thread : Holds(calls[t])'
    BY <1>0, <1>1, HoldsGrows DEF OnTheWay
  <2> QED
    BY <1>0, <1>1, <2>1 DEF OnTheWay, Holds, Done, Completed
<1>2. ASSUME NEW t \in Thread, NEW call, Become(t, call), Holds(call)'
      PROVE  OnTheWay'
  <2>1. calls' = [u \in Thread |-> calls'[u]] /\ calls'[t] = call
    BY <1>0, <1>2 DEF OnTheWay, Become
  <2>2. ASSUME NEW u \in Thread, u # t PROVE calls'[u] = calls[u] /\ Holds(calls[u])'
    BY <1>0, <1>2, <2>2, HoldsGrows DEF OnTheWay, Become
  <2> QED
    BY <1>2, <2>1, <2>2 DEF OnTheWay, Holds, Done, Completed
<1>3. Holds(Idle)'
  BY DEF Holds, Idle
<1>4. ASSUME NEW t \in Thread, NEW item \in Item, item.session \in DOMAIN sessions,
             ReceiveFeedback(t, item)
      PROVE  OnTheWay'
  <2>1. Holds([pc |-> "append", item |-> item])'
    BY <1>4 DEF ReceiveFeedback, Holds
  <2> QED
    BY <1>2, <1>4, <2>1 DEF ReceiveFeedback
<1>5. ASSUME NEW t \in Thread, AppendFeedback(t)
      PROVE  OnTheWay'
  <2>1. PICK item \in Item : item = calls[t].item /\ item.session \in DOMAIN sessions
    BY <1>0, <1>5 DEF AppendFeedback, At, OnTheWay, Holds
  <2>2. Holds([pc |-> "tally", item |-> item])'
    BY <1>5, <2>1 DEF AppendFeedback, Holds
  <2> QED
    BY <1>2, <1>5, <2>1, <2>2 DEF AppendFeedback
<1>6. ASSUME NEW t \in Thread, Tally(t)
      PROVE  OnTheWay'
  <2>1. PICK id \in DOMAIN sessions : id = calls[t].item.session /\ UNCHANGED <<sessions, feedback>>
    BY <1>0, <1>6 DEF Tally, At, OnTheWay, Holds
  <2>2. ASSUME Done(id) PROVE Holds([pc |-> "mark", session |-> id])'
    BY <2>1, <2>2 DEF Holds, Done, CompletedTasks
  <2>3. \/ Done(id) /\ Become(t, [pc |-> "mark", session |-> id])
        \/ Become(t, Idle)
    BY <1>6, <2>1 DEF Tally, Done
  <2> QED
    BY <1>2, <1>3, <2>2, <2>3
<1>7. ASSUME NEW t \in Thread, Mark(t) \/ ReadinessRaises(t) \/ Publish(t)
      PROVE  OnTheWay'
  BY <1>2, <1>3, <1>7 DEF Mark, ReadinessRaises, Publish
<1>8. ASSUME NEW t \in Thread, BeginReadiness(t)
      PROVE  OnTheWay'
  <2>1. Holds([pc |-> "completed", size |-> Len(sessions), done |-> 0, completed |-> {}])'
    BY <1>0 DEF Holds, OnFile
  <2> QED
    BY <1>2, <1>8, <2>1 DEF BeginReadiness
<1>9. ASSUME NEW t \in Thread, LookAtSession(t)
      PROVE  OnTheWay'
  <2> DEFINE s == calls[t].done + 1
             counted == IF sessions[s].status = "COMPLETED" /\ sessions[s].real THEN {s} ELSE {}
             call == [calls[t] EXCEPT !.done = s, !.completed = @ \cup counted]
  <2>1. /\ calls[t].pc = "completed" /\ calls[t].size \in Nat /\ calls[t].done \in Nat
        /\ ~(Len(sessions) > calls[t].size) /\ s <= calls[t].size /\ UNCHANGED sessions
        /\ \A x \in calls[t].completed : x \in DOMAIN sessions /\ Completed(x)
        /\ 1 .. calls[t].size \subseteq DOMAIN sessions
        /\ Become(t, call)
    BY <1>0, <1>9 DEF LookAtSession, OnTheWay, Holds, At, Grown
  <2>2. \A x \in counted : x \in DOMAIN sessions /\ Completed(x)
    <3>1. s \in DOMAIN sessions
      BY <2>1
    <3> QED
      BY <3>1 DEF Completed
  <2>3. call.pc = "completed"
    BY <2>1
  <2>4. call.size \in Nat /\ call.done \in Nat /\ 1 .. call.size \subseteq DOMAIN sessions
    BY <2>1
  <2>5. call.completed \subseteq calls[t].completed \cup counted
    OBVIOUS
  <2> HIDE DEF call, counted, s
  <2>6. \A x \in call.completed : x \in DOMAIN sessions /\ Completed(x)
    BY <2>1, <2>2, <2>5
  <2>7. PICK next : next = call
    OBVIOUS
  <2>8. Holds(next)'
    BY <2>1, <2>3, <2>4, <2>6, <2>7 DEF Holds, Completed
  <2> QED
    BY <1>2, <2>1, <2>7, <2>8
<1>13. ASSUME NEW t \in Thread, EndFirstWalk(t) \/ BeginSecondWalk(t)
       PROVE  OnTheWay'
  <2>1. PICK call :
           /\ Become(t, call) /\ UNCHANGED sessions /\ call.pc \in {"between", "real"}
           /\ call.completed = calls[t].completed /\ calls[t].pc \in {"completed", "between"}
    BY <1>13 DEF EndFirstWalk, BeginSecondWalk, At
  <2>2. Holds(call)'
    BY <1>0, <2>1 DEF OnTheWay, Holds, Completed
  <2> QED
    BY <1>2, <2>1, <2>2
<1>10. ASSUME NEW t \in Thread, WalkReal(t)
      PROVE  OnTheWay'
  <2>0. PICK call :
            call = [pc |-> "ratings", completed |-> calls[t].completed,
                    real |-> {s \in DOMAIN sessions : sessions[s].real}]
    OBVIOUS
  <2>1. \A s \in calls[t].completed : s \in DOMAIN sessions /\ Completed(s)
    BY <1>0, <1>10 DEF OnTheWay, Holds, WalkReal, At
  <2>2. UNCHANGED sessions
    BY <1>10 DEF WalkReal
  <2>3. Holds(call)'
    BY <2>0, <2>1, <2>2 DEF Holds, Completed
  <2>4. Become(t, call)
    BY <1>10, <2>0 DEF WalkReal
  <2> QED
    BY <1>2, <2>3, <2>4
<1>11. ASSUME NEW t \in Thread, NEW tasks \in SUBSET Task, Start(t, tasks)
       PROVE  OnTheWay'
  BY <1>1, <1>11 DEF Start
<1>12. CASE UNCHANGED vars
  BY <1>1, <1>12 DEF vars
<1> QED
  <2>1. ASSUME NEW session \in DOMAIN sessions, NEW task \in Task, NEW completed \in BOOLEAN
        PROVE  [session |-> session, task |-> task, completed |-> completed] \in Item
    BY <1>0 DEF OnFile, Item
  <2> QED
    BY <1>4, <1>5, <1>6, <1>7, <1>8, <1>9, <1>10, <1>11, <1>12, <1>13, <2>1 DEF Next

(* Whose tasks are done is completed or about to be: the thread that brings *)
(* the last of them sees them all, since it walks the list after appending. *)
LEMMA ForgottenStep ==
    ASSUME PilotInv, [Next]_vars
    PROVE  NoneForgotten'
<1>0. OnFile /\ OnTheWay /\ NoneForgotten /\ Grows /\ OnFile'
  BY FileStep DEF PilotInv
<1>1. ASSUME UNCHANGED <<sessions, feedback>>,
             \A t \in Thread : At(t, "tally") \/ At(t, "mark") => calls'[t] = calls[t]
      PROVE  NoneForgotten'
  BY <1>0, <1>1 DEF NoneForgotten, Done, CompletedTasks, Marking, At
<1>2. ASSUME NEW t \in Thread, NEW tasks \in SUBSET Task, Start(t, tasks)
      PROVE  NoneForgotten'
  <2>1. PICK new \in Session :
           /\ new.tasks = tasks /\ tasks # {} /\ sessions' = Append(sessions, new)
           /\ UNCHANGED <<feedback, calls>>
    BY <1>0, <1>2 DEF Start, OnFile, Session
  <2>2. /\ \A s \in DOMAIN sessions : sessions'[s] = sessions[s]
        /\ \A s \in DOMAIN sessions' : s \in DOMAIN sessions \/ sessions'[s] = new
    BY <1>0, <2>1 DEF OnFile
  <2>3. \A s : /\ CompletedTasks(s)' = CompletedTasks(s)
               /\ s \notin DOMAIN sessions => CompletedTasks(s) = {}
    BY <1>0, <2>1 DEF CompletedTasks, OnFile, Range
  <2>4. ASSUME NEW s \in DOMAIN sessions', Done(s)'
        PROVE  sessions'[s].status = "COMPLETED" \/ Marking(s)'
    <3>1. s \in DOMAIN sessions
      BY <2>1, <2>2, <2>3, <2>4 DEF Done
    <3> QED
      BY <1>0, <2>1, <2>2, <2>3, <2>4, <3>1 DEF NoneForgotten, Done, Marking, At
  <2> QED
    BY <2>4 DEF NoneForgotten
<1>3. ASSUME NEW t \in Thread, AppendFeedback(t)
      PROVE  NoneForgotten'
  <2> DEFINE id == calls[t].item.session
  <2>1. /\ feedback' = Append(feedback, calls[t].item) /\ UNCHANGED sessions /\ At(t, "append")
        /\ At(t, "tally")' /\ calls'[t].item = calls[t].item
        /\ \A u \in Thread \ {t} : calls'[u] = calls[u]
    BY <1>0, <1>3 DEF AppendFeedback, Become, At, OnTheWay
  <2>2. ASSUME NEW s \in DOMAIN sessions, s # id PROVE CompletedTasks(s)' = CompletedTasks(s)
    <3>1. Range(feedback') \subseteq Range(feedback) \cup {calls[t].item}
      BY <1>0, <2>1 DEF OnFile, Range
    <3>2. CompletedTasks(s)' \subseteq CompletedTasks(s)
      BY <2>2, <3>1 DEF CompletedTasks
    <3> QED
      BY <1>0, <3>2 DEF Grows
  <2>3. ASSUME NEW s \in DOMAIN sessions, Done(s)'
        PROVE  sessions'[s].status = "COMPLETED" \/ Marking(s)'
    <3>1. CASE s = id
      BY <2>1, <3>1 DEF Marking, At
    <3>2. CASE s # id
      <4>1. sessions[s].status = "COMPLETED" \/ Marking(s)
        BY <1>0, <2>1, <2>2, <2>3, <3>2 DEF Done, NoneForgotten
      <4> QED
        BY <2>1, <4>1 DEF Marking, At
    <3> QED
      BY <3>1, <3>2
  <2> QED
    BY <2>1, <2>3 DEF NoneForgotten
<1>4. ASSUME NEW t \in Thread, Tally(t)
      PROVE  NoneForgotten'
  <2> DEFINE id == calls[t].item.session
  <2>1. /\ UNCHANGED <<sessions, feedback>> /\ At(t, "tally")
        /\ \A u \in Thread \ {t} : calls'[u] = calls[u]
        /\ Done(id) => calls'[t] = [pc |-> "mark", session |-> id]
    BY <1>0, <1>4 DEF Tally, Become, OnTheWay, Done
  <2>2. ASSUME NEW s \in DOMAIN sessions, Done(s)'
        PROVE  sessions'[s].status = "COMPLETED" \/ Marking(s)'
    <3>1. Done(s)
      BY <2>1, <2>2 DEF Done, CompletedTasks
    <3>2. CASE s = id
      BY <2>1, <3>1, <3>2 DEF Marking, At
    <3>3. CASE s # id
      <4>1. sessions[s].status = "COMPLETED" \/ Marking(s)
        BY <1>0, <3>1 DEF NoneForgotten
      <4> QED
        BY <2>1, <3>3, <4>1 DEF Marking, At
    <3> QED
      BY <3>2, <3>3
  <2> QED
    BY <2>1, <2>2 DEF NoneForgotten
<1>5. ASSUME NEW t \in Thread, Mark(t)
      PROVE  NoneForgotten'
  <2> DEFINE id == calls[t].session
  <2>1. /\ id \in DOMAIN sessions /\ UNCHANGED feedback /\ At(t, "mark")
        /\ sessions' = [sessions EXCEPT ![id].status = "COMPLETED"]
        /\ \A u \in Thread \ {t} : calls'[u] = calls[u]
    BY <1>0, <1>5 DEF Mark, At, Become, OnTheWay, Holds
  <2>2. /\ DOMAIN sessions' = DOMAIN sessions /\ sessions'[id].status = "COMPLETED"
        /\ \A s \in DOMAIN sessions \ {id} : sessions'[s] = sessions[s]
    <3>1. sessions \in Seq(Session) /\ sessions[id] \in Session
      BY <1>0, <2>1 DEF OnFile
    <3> QED
      BY <2>1, <3>1 DEF Session
  <2> HIDE DEF id
  <2>3. ASSUME NEW s \in DOMAIN sessions, s # id, Done(s)'
        PROVE  sessions'[s].status = "COMPLETED" \/ Marking(s)'
    <3>1. sessions[s].status = "COMPLETED" \/ Marking(s)
      BY <1>0, <2>1, <2>2, <2>3 DEF NoneForgotten, Done, CompletedTasks
    <3> QED
      BY <2>1, <2>2, <2>3, <3>1 DEF Marking, At, id
  <2> QED
    BY <2>2, <2>3 DEF NoneForgotten
<1>6. ASSUME NEW t \in Thread,
             \/ \E item \in Item : ReceiveFeedback(t, item)
             \/ BeginReadiness(t) \/ ReadinessRaises(t) \/ LookAtSession(t)
             \/ EndFirstWalk(t) \/ BeginSecondWalk(t) \/ WalkReal(t) \/ Publish(t)
      PROVE  NoneForgotten'
  <2>1. UNCHANGED <<sessions, feedback>> /\ ~At(t, "tally") /\ ~At(t, "mark")
    BY <1>6 DEF ReceiveFeedback, BeginReadiness, ReadinessRaises, LookAtSession, EndFirstWalk,
                BeginSecondWalk, WalkReal, Publish, At
  <2>2. \A u \in Thread \ {t} : calls'[u] = calls[u]
    BY <1>0, <1>6 DEF ReceiveFeedback, BeginReadiness, ReadinessRaises, LookAtSession, EndFirstWalk,
                      BeginSecondWalk, WalkReal, Publish, Become, OnTheWay
  <2> QED
    BY <1>1, <2>1, <2>2
<1>7. CASE UNCHANGED vars
  BY <1>1, <1>7 DEF vars
<1> QED
  <2>1. ASSUME NEW session \in DOMAIN sessions, NEW task \in Task, NEW completed \in BOOLEAN
        PROVE  [session |-> session, task |-> task, completed |-> completed] \in Item
    BY <1>0 DEF OnFile, Item
  <2> QED
    BY <1>2, <1>3, <1>4, <1>5, <1>6, <1>7, <2>1 DEF Next

LEMMA PilotBegins == Init => PilotInv
<1> SUFFICES ASSUME Init PROVE PilotInv
  OBVIOUS
<1>1. DOMAIN sessions = {} /\ sessions \in Seq(Session)
  BY DEF Init
<1>2. OnFile
  BY <1>1 DEF Init, OnFile
<1>3. OnTheWay
  BY DEF Init, OnTheWay, Holds, Idle
<1>4. NoneForgotten
  BY <1>1 DEF NoneForgotten
<1> QED
  BY <1>2, <1>3, <1>4 DEF PilotInv

LEMMA PilotStep == PilotInv /\ [Next]_vars => PilotInv'
BY FileStep, WayStep, ForgottenStep DEF PilotInv

(* A session is completed when its tasks are and not before, however the    *)
(* threads that bring its feedback overlap.                                 *)
THEOREM SessionsDone == Spec => []SessionsComplete
<1>1. PilotInv => SessionsComplete
  BY DEF PilotInv, OnFile, NoneForgotten, SessionsComplete, Done, Marking
<1> QED
  BY <1>1, PilotBegins, PilotStep, PTL DEF Spec

(* What a published readiness says, as it stays true of growing sessions.   *)
Kept(answer) ==
    /\ answer.open => Cardinality(answer.completed) >= Minimum
    /\ answer.completed \subseteq answer.real
    /\ \A s \in answer.completed :
          /\ s \in DOMAIN sessions /\ Completed(s)
          /\ sessions[s].tasks \subseteq {item.task : item \in {i \in answer.rated : i.session = s}}

AllKept == \A answer \in published : Kept(answer)

LEMMA KeptGrows ==
    ASSUME NEW answer, Kept(answer), Grows
    PROVE  Kept(answer)'
BY DEF Kept, Grows, Completed

LEMMA KeptStep ==
    ASSUME PilotInv, AllKept, [Next]_vars
    PROVE  AllKept'
<1>0. OnFile /\ OnTheWay /\ Grows
  BY FileStep DEF PilotInv
<1>1. CASE UNCHANGED published
  BY <1>0, <1>1, KeptGrows DEF AllKept
<1>2. ASSUME NEW t \in Thread, Publish(t)
      PROVE  AllKept'
  <2>1. PICK call : call = calls[t]
    OBVIOUS
  <2>2. PICK answer :
            answer = [completed |-> call.completed, real |-> call.real,
                      rated |-> {item \in Range(feedback) : item.completed /\ item.session \in call.real},
                      open |-> Cardinality(call.completed) >= Minimum]
    OBVIOUS
  <2>3. published' = {answer} /\ call.pc = "ratings"
    BY <1>2, <2>1, <2>2 DEF Publish, At
  <2>4. /\ call.completed \subseteq call.real
        /\ \A s \in call.completed : s \in DOMAIN sessions /\ Completed(s)
    BY <1>0, <2>1, <2>3 DEF OnTheWay, Holds
  <2>5. ASSUME NEW s \in call.completed
        PROVE  sessions[s].tasks \subseteq
                   {item.task : item \in {i \in answer.rated : i.session = s}}
    <3>1. Done(s)
      BY <1>0, <2>4 DEF OnFile, Completed
    <3>2. \A i \in Range(feedback) : i.session = s /\ i.completed => i \in answer.rated
      BY <2>2, <2>4
    <3> QED
      BY <3>1, <3>2 DEF Done, CompletedTasks
  <2>6. Kept(answer)
    BY <2>2, <2>4, <2>5 DEF Kept
  <2>7. Kept(answer)'
    BY <1>0, <2>6, KeptGrows
  <2> QED
    BY <2>3, <2>7 DEF AllKept
<1> QED
  BY <1>1, <1>2 DEF Next, vars, Start, ReceiveFeedback, AppendFeedback, Tally, Mark,
                    BeginReadiness, ReadinessRaises, LookAtSession, EndFirstWalk,
                    BeginSecondWalk, WalkReal

(* A readiness that is put together from three walks at three moments is    *)
(* about real, completed sessions with all their tasks rated, and the gate  *)
(* it opens stays earned.                                                   *)
THEOREM ReadinessTrue == Spec => []ReadinessHoldsTogether
<1>1. Init => AllKept
  BY DEF Init, AllKept
<1>2. PilotInv /\ AllKept /\ [Next]_vars => AllKept'
  BY KeptStep
<1>3. PilotInv /\ AllKept => ReadinessHoldsTogether
  <2> SUFFICES ASSUME PilotInv, AllKept, NEW answer \in published
               PROVE  /\ answer.open => Minimum <= Cardinality({s \in DOMAIN sessions :
                             sessions[s].real /\ sessions[s].status = "COMPLETED"})
                      /\ answer.completed \subseteq answer.real
                      /\ \A s \in answer.completed :
                            sessions[s].tasks \subseteq
                                {item.task : item \in {i \in answer.rated : i.session = s}}
    BY DEF ReadinessHoldsTogether
  <2> DEFINE earned == {s \in DOMAIN sessions : sessions[s].real /\ sessions[s].status = "COMPLETED"}
  <2>1. Kept(answer)
    BY DEF AllKept
  <2>2. answer.completed \subseteq earned
    BY <2>1 DEF Kept, Completed
  <2>3. IsFiniteSet(earned)
    <3>1. IsFiniteSet(DOMAIN sessions)
      BY FS_Interval DEF PilotInv, OnFile
    <3> QED
      BY <3>1, FS_Subset
  <2>4. /\ Cardinality(answer.completed) \in Nat /\ Cardinality(earned) \in Nat
        /\ Cardinality(answer.completed) <= Cardinality(earned)
    BY <2>2, <2>3, FS_Subset, FS_CardinalityType
  <2>5. answer.open => Minimum <= Cardinality(earned)
    BY <2>1, <2>4, PilotAssumption DEF Kept
  <2> QED
    BY <2>1, <2>5 DEF Kept
<1> QED
  BY <1>1, <1>2, <1>3, PilotBegins, PilotStep, PTL DEF Spec
=============================================================================
