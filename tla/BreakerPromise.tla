--------------------------- MODULE BreakerPromise ---------------------------
(***************************************************************************)
(* What a circuit breaker promises the calls that pass through it, however *)
(* its implementation reads and writes its two fields.  A call begins while *)
(* the breaker is closed.  It closes again only because its window has run  *)
(* out, or because a call that was already in flight succeeds; it opens    *)
(* only on behalf of a call that failed, as of the time it failed.         *)
(***************************************************************************)
EXTENDS Integers

CONSTANTS
    Thread,  \* the callers
    Window   \* how long an open breaker refuses calls

VARIABLES
    clock,    \* the time
    opened,   \* the time the breaker was opened, or -1 while it is closed
    inflight, \* the callers whose calls have begun and not ended
    blamed    \* <<caller, time>>: a call failed then and is yet to open the breaker

vars == <<clock, opened, inflight, blamed>>

Closed == opened = -1

Init ==
    /\ clock = 0
    /\ opened = -1
    /\ inflight = {}
    /\ blamed = {}

(* Time passes. *)
Wait == clock' = clock + 1 /\ UNCHANGED <<opened, inflight, blamed>>

(* A call begins: the breaker is closed, or its window is over and this     *)
(* caller closes it.                                                        *)
Begin(t) ==
    /\ t \notin inflight
    /\ Closed \/ clock - opened >= Window
    /\ opened' = -1
    /\ inflight' = inflight \cup {t}
    /\ UNCHANGED <<clock, blamed>>

Succeed(t) ==
    /\ t \in inflight
    /\ opened' = -1
    /\ inflight' = inflight \ {t}
    /\ UNCHANGED <<clock, blamed>>

(* A failure that the breaker tolerates, or that is to open it. *)
Fail(t) ==
    /\ t \in inflight
    /\ inflight' = inflight \ {t}
    /\ blamed' \in {blamed, blamed \cup {<<t, clock>>}}
    /\ UNCHANGED <<clock, opened>>

(* The breaker is opened as of the time of the failure. *)
Open ==
    \E blame \in blamed :
        /\ opened' = blame[2]
        /\ blamed' = blamed \ {blame}
        /\ UNCHANGED <<clock, inflight>>

Next ==
    \/ Wait
    \/ Open
    \/ \E t \in Thread : Begin(t) \/ Succeed(t) \/ Fail(t)

Spec == Init /\ [][Next]_vars
=============================================================================
