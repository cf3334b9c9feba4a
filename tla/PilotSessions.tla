--------------------------- MODULE PilotSessions ---------------------------
(***************************************************************************)
(* The supervised pilot: sessions of relationship managers, the feedback on*)
(* their tasks and the readiness that is published (PilotStore of          *)
(* experiment_analysis.py and its routes in api.py, src/wallet_twin_v2).   *)
(* The store has no lock and requests run on threads: a step here is what  *)
(* a thread does on a shared list or dictionary before another can come in *)
(* between.  The dictionary of sessions keeps the order they are put in, so *)
(* a session is known here by its place in it.  Numbers in the feedback,   *)
(* and who may call a route, are left out.                                 *)
(***************************************************************************)
EXTENDS Integers, Sequences, FiniteSets, Functions

CONSTANTS
    Thread, Task,
    Minimum,        \* completed sessions the gate asks for; 5 in the code
    MaxSessions,    \* bound on the sessions that are started
    MaxFeedback     \* bound on the feedback that is recorded

ASSUME PilotAssumption == Minimum \in Nat \ {0} /\ MaxSessions \in Nat /\ MaxFeedback \in Nat

VARIABLES
    pilot,      \* whether the service runs in PILOT or PRODUCTION
    sessions,   \* PilotStore.sessions, in the order they are started
    feedback,   \* PilotStore.feedback
    calls,      \* what each thread is doing
    published   \* the readiness a client was last answered, if any

vars == <<pilot, sessions, feedback, calls, published>>

Idle == [pc |-> "idle"]

Init ==
    /\ pilot \in BOOLEAN
    /\ sessions = <<>> /\ feedback = <<>>
    /\ calls = [t \in Thread |-> Idle]
    /\ published = {}

At(t, pc) == calls[t].pc = pc
Become(t, call) == calls' = [calls EXCEPT ![t] = call]
-----------------------------------------------------------------------------
(* start_pilot_session: one assignment to the dictionary, of a new id. *)
Start(t, tasks) ==
    /\ At(t, "idle")
    /\ Len(sessions) < MaxSessions /\ tasks # {}
    /\ sessions' = Append(sessions, [tasks |-> tasks, status |-> "IN_PROGRESS", real |-> pilot])
    /\ UNCHANGED <<pilot, feedback, calls, published>>

(* record_pilot_feedback finds the session, which is one on file.  The task *)
(* need not be one of the session's.                                        *)
ReceiveFeedback(t, item) ==
    /\ At(t, "idle")
    /\ Become(t, [pc |-> "append", item |-> item])
    /\ UNCHANGED <<pilot, sessions, feedback, published>>

AppendFeedback(t) ==
    /\ At(t, "append")
    /\ Len(feedback) < MaxFeedback
    /\ feedback' = Append(feedback, calls[t].item)
    /\ Become(t, [pc |-> "tally", item |-> calls[t].item])
    /\ UNCHANGED <<pilot, sessions, published>>

CompletedTasks(session) ==
    {item.task : item \in {i \in Range(feedback) : i.session = session /\ i.completed}}

(* Mutant: the tasks completed are those of the request. *)
TallyOwn(t) ==
    LET session == calls[t].item.session
        own == IF calls[t].item.completed THEN {calls[t].item.task} ELSE {}
    IN /\ At(t, "tally")
       /\ Become(t, IF sessions[session].tasks \subseteq own
                      THEN [pc |-> "mark", session |-> session] ELSE Idle)
       /\ UNCHANGED <<pilot, sessions, feedback, published>>

(* The walk of the live list ends on what it holds then. *)
Tally(t) ==
    LET session == calls[t].item.session
    IN /\ At(t, "tally")
       /\ Become(t, IF sessions[session].tasks \subseteq CompletedTasks(session)
                      THEN [pc |-> "mark", session |-> session] ELSE Idle)
       /\ UNCHANGED <<pilot, sessions, feedback, published>>

Mark(t) ==
    /\ At(t, "mark")
    /\ sessions' = [sessions EXCEPT ![calls[t].session].status = "COMPLETED"]
    /\ Become(t, Idle)
    /\ UNCHANGED <<pilot, feedback, published>>
-----------------------------------------------------------------------------
(* readiness walks the sessions twice and then the feedback.  An iterator    *)
(* of the dictionary remembers its size: asked for the next session, or for *)
(* one past the last, it raises if the dictionary has grown since.  done is *)
(* how many sessions the first walk has looked at.                          *)
BeginReadiness(t) ==
    /\ At(t, "idle")
    /\ Become(t, [pc |-> "completed", size |-> Len(sessions), done |-> 0, completed |-> {}])
    /\ UNCHANGED <<pilot, sessions, feedback, published>>

Grown(t) == Len(sessions) > calls[t].size

ReadinessRaises(t) ==
    /\ At(t, "completed") \/ At(t, "real")
    /\ Grown(t)
    /\ Become(t, Idle)
    /\ UNCHANGED <<pilot, sessions, feedback, published>>

(* Mutant: a session is counted that is not from a real participant. *)
LookAtAnySession(t) ==
    LET s == calls[t].done + 1
        counted == IF sessions[s].status = "COMPLETED" THEN {s} ELSE {}
    IN /\ At(t, "completed") /\ ~Grown(t) /\ s <= calls[t].size
       /\ Become(t, [calls[t] EXCEPT !.done = s, !.completed = @ \cup counted])
       /\ UNCHANGED <<pilot, sessions, feedback, published>>

(* The next session of the first walk, with the status it has by then. *)
LookAtSession(t) ==
    LET s == calls[t].done + 1
        counted == IF sessions[s].status = "COMPLETED" /\ sessions[s].real THEN {s} ELSE {}
    IN /\ At(t, "completed") /\ ~Grown(t) /\ s <= calls[t].size
       /\ Become(t, [calls[t] EXCEPT !.done = s, !.completed = @ \cup counted])
       /\ UNCHANGED <<pilot, sessions, feedback, published>>

EndFirstWalk(t) ==
    /\ At(t, "completed") /\ ~Grown(t) /\ calls[t].done = calls[t].size
    /\ Become(t, [pc |-> "between", completed |-> calls[t].completed])
    /\ UNCHANGED <<pilot, sessions, feedback, published>>

(* A session that is started between the walks is counted by the second. *)
BeginSecondWalk(t) ==
    /\ At(t, "between")
    /\ Become(t, [pc |-> "real", completed |-> calls[t].completed, size |-> Len(sessions)])
    /\ UNCHANGED <<pilot, sessions, feedback, published>>

(* Where a session is from never changes, so the second walk is its end. *)
WalkReal(t) ==
    /\ At(t, "real") /\ ~Grown(t)
    /\ Become(t, [pc |-> "ratings", completed |-> calls[t].completed,
                  real |-> {s \in DOMAIN sessions : sessions[s].real}])
    /\ UNCHANGED <<pilot, sessions, feedback, published>>

(* The numbers of the ratings are taken of the completed feedback on real   *)
(* sessions; rated keeps which.                                             *)
Publish(t) ==
    /\ At(t, "ratings")
    /\ published' = {
           [completed |-> calls[t].completed, real |-> calls[t].real,
            rated |-> {item \in Range(feedback) : item.completed /\ item.session \in calls[t].real},
            open |-> Cardinality(calls[t].completed) >= Minimum]}
    /\ Become(t, Idle)
    /\ UNCHANGED <<pilot, sessions, feedback>>

Next ==
    \E t \in Thread :
        \/ \E tasks \in SUBSET Task : Start(t, tasks)
        \/ \E session \in DOMAIN sessions, task \in Task, completed \in BOOLEAN :
               ReceiveFeedback(t, [session |-> session, task |-> task, completed |-> completed])
        \/ AppendFeedback(t) \/ Tally(t) \/ Mark(t)
        \/ BeginReadiness(t) \/ ReadinessRaises(t) \/ LookAtSession(t) \/ EndFirstWalk(t)
        \/ BeginSecondWalk(t) \/ WalkReal(t) \/ Publish(t)

Spec == Init /\ [][Next]_vars

-----------------------------------------------------------------------------
(* What the supervised pilot is checked for.                                *)

(* A session is completed when its tasks are and not before, although the   *)
(* feedback on them arrives on several threads and each of them decides on  *)
(* its own: whoever comes last sees the feedback of all.                    *)
SessionsComplete ==
    \A s \in DOMAIN sessions :
        LET done == sessions[s].tasks \subseteq CompletedTasks(s)
            marking == \E t \in Thread :
                           \/ At(t, "tally") /\ calls[t].item.session = s
                           \/ At(t, "mark") /\ calls[t].session = s
        IN /\ sessions[s].status = "COMPLETED" => done
           /\ done => sessions[s].status = "COMPLETED" \/ marking

(* The readiness is put together from three walks, between and during which *)
(* sessions are started, completed and rated, and is still about real       *)
(* sessions that are completed: the gate opens only when                    *)
(* so many of them are, each of them is among the real ones of the answer,  *)
(* and its tasks are all behind the ratings published with it.              *)
ReadinessHoldsTogether ==
    \A answer \in published :
        /\ answer.open => Minimum <= Cardinality({s \in DOMAIN sessions :
               sessions[s].real /\ sessions[s].status = "COMPLETED"})
        /\ answer.completed \subseteq answer.real
        /\ \A s \in answer.completed :
               sessions[s].tasks \subseteq
                   {item.task : item \in {i \in answer.rated : i.session = s}}
=============================================================================
