----------------------------- MODULE MCAnswers -----------------------------
(***************************************************************************)
(* The reviewed-answer loop with two threads, two reviewers, one answer id *)
(* and two keys, one of which the snapshot used for an event of its own (as*)
(* it does with question ids).                                             *)
(***************************************************************************)
EXTENDS ClientAnswers, TLC

Symmetry == Permutations(Thread) \cup Permutations(Reviewer)
=============================================================================
