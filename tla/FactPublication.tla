-------------------------- MODULE FactPublication --------------------------
(***************************************************************************)
(* What an evidence registry promises of the facts it publishes: each has  *)
(* one author, fixed when it is proposed, and is published in the step in  *)
(* which the last of the approvals it needs is given, by somebody who is   *)
(* neither the author nor one who approved before.  What is published      *)
(* stays.  Nothing is said of rejections: they publish nothing.            *)
(***************************************************************************)
CONSTANTS
    Fact,       \* the facts that can be proposed
    Person,     \* their authors and reviewers
    Role,       \* the roles in which they review
    Kind,       \* the kinds of facts, which need different approvals
    Needs(_, _) \* whether approvals in a set of roles suffice for a kind

VARIABLES
    proposal,  \* of each fact its <<author, kind>>, as a set: empty until proposed
    approvals, \* the <<person, role>> pairs that approved each fact
    published  \* the facts published

vars == <<proposal, approvals, published>>

RolesOf(pairs) == {pair[2] : pair \in pairs}

Init ==
    /\ proposal = [f \in Fact |-> {}]
    /\ approvals = [f \in Fact |-> {}]
    /\ published = {}

Propose(f, p, kind) ==
    /\ proposal[f] = {}
    /\ proposal' = [proposal EXCEPT ![f] = {<<p, kind>>}]
    /\ UNCHANGED <<approvals, published>>

Approve(f, p, role) ==
    \E proposed \in proposal[f] :
        /\ p # proposed[1]
        /\ \A pair \in approvals[f] : pair[1] # p
        /\ approvals' = [approvals EXCEPT ![f] = @ \cup {<<p, role>>}]
        /\ published' = IF Needs(proposed[2], RolesOf(approvals'[f]))
                          THEN published \cup {f} ELSE published
        /\ UNCHANGED proposal

Next ==
    \E f \in Fact, p \in Person :
        \/ \E kind \in Kind : Propose(f, p, kind)
        \/ \E role \in Role : Approve(f, p, role)

Spec == Init /\ [][Next]_vars
=============================================================================
