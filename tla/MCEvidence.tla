----------------------------- MODULE MCEvidence -----------------------------
(***************************************************************************)
(* The evidence registry with four people, so that a material fact can be  *)
(* rejected before, between and after the two approvals it needs.          *)
(***************************************************************************)
EXTENDS EvidenceRegistry, TLC

Candidate(id, material, valid) == [id |-> id, material |-> material, valid |-> valid]

MCSubmission == {Candidate("material-fact", TRUE, TRUE), Candidate("plain-fact", FALSE, TRUE),
                 Candidate("plain-fact", TRUE, FALSE)}

(* Nothing tells one person from another. *)
PersonSymmetry == Permutations(Person)
=============================================================================
