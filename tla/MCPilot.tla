------------------------------ MODULE MCPilot ------------------------------
(***************************************************************************)
(* Two threads, two sessions and two tasks; two completed sessions open the*)
(* gate.                                                                   *)
(***************************************************************************)
EXTENDS PilotSessions, TLC

Symmetry == Permutations(Thread) \cup Permutations(Task)
=============================================================================
