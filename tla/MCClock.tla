------------------------------ MODULE MCClock ------------------------------
(***************************************************************************)
(* The rehearsal clock under every negative scenario, and the canonical    *)
(* rehearsal for a range of incident days and of days required.            *)
(***************************************************************************)
EXTENDS RehearsalClock

Injected == {NegativeIncident(scenario) : scenario \in Scenario}

Plans == {[incidentDay |-> 17, required |-> 30]} \cup [incidentDay : 1 .. 5, required : 0 .. 5]
=============================================================================
