----------------------------- MODULE MCRequests -----------------------------
(***************************************************************************)
(* Requests that share keys, evidence ids and rehearsal runs.              *)
(***************************************************************************)
EXTENDS PromotionRequests

Sent(op, key, subject, says) == [op |-> op, key |-> key, subject |-> subject, says |-> says]

(* One evidence id sent under two keys with two modes. *)
EvidenceInputs ==
    {Sent("evidence", "k1", "ev-1", "SYNTHETIC_REHEARSAL"),
     Sent("evidence", "k2", "ev-1", "SIMULATED_POLICY")}

RehearsalInputs ==
    {Sent("rehearsal", "k1", "late-refresh", "SYNTHETIC_REHEARSAL"),
     Sent("rehearsal", "k2", "late-refresh", "REAL_BANK"),
     Sent("rehearsal-incident", "k1", "late-refresh", "late-refresh"),
     Sent("rehearsal-incident", "k2", "late-refresh", "sev1-incident")}

AllInputs ==
    EvidenceInputs \cup RehearsalInputs
      \cup {Sent("evidence", "k2", "ev-1", "REAL_BANK"),
            Sent("evaluation", "k1", "reconciliation-exact", "REHEARSAL"),
            Sent("evaluation", "k2", "reconciliation-exact", "REAL")}
=============================================================================
