-------------------------- MODULE CoveragePlanning --------------------------
(***************************************************************************)
(* The weekly coverage plan of V3.1: from the conversations built and      *)
(* assessed (fixtures.py, conversations.py) the optimizer selects those a  *)
(* banker has time for (coverage.py) and the repository publishes the plan *)
(* and shows each caller the part it is entitled to (repository.py).       *)
(*                                                                         *)
(* Utilities are numbers estimated over scenarios.  Here a conversation    *)
(* has a rank by utility, ties included; the solver, which maximises over  *)
(* the scenarios themselves, returns any selection within the limits or    *)
(* fails, and then the greedy loop selects in the order of the ranks.      *)
(*                                                                         *)
(* The engine takes attestations and the optimizer blocked conversations;  *)
(* the fixture's builder passes no attestation, so that all of its own     *)
(* conversations are for discovery.                                        *)
(***************************************************************************)
EXTENDS Feasibility, Integers, Sequences, FiniteSets, SequencesExt

CONSTANTS
    Conversation,   \* the conversations built, in the order of their ids
    Bundle,         \* of each: its traits, and whether its problem is commercial
    Place,          \* of each: its client, role, sector and solution family
    Exclusive,      \* those whose solutions exclude each other
    Attestation,    \* the attestations an assessment may be given
    Utility,        \* the ranks of utilities
    Capacity,       \* conversations a week
    MaxPerClient, MaxPerClientRole, MaxPerFamily, MaxPerSector

ASSUME PlanningAssumption ==
    /\ Conversation \subseteq Nat /\ IsFiniteSet(Conversation)
    /\ Bundle \in [Conversation -> [traits : Traits, commercial : BOOLEAN]]
    /\ \A given \in Attestation :
           DOMAIN given \subseteq Gate /\ \A g \in DOMAIN given : given[g] \in AttestedStatus
    /\ Utility \subseteq Int
    /\ Capacity \in Nat \ {0}
    /\ {MaxPerClient, MaxPerClientRole, MaxPerFamily, MaxPerSector} \subseteq Nat

VARIABLES
    attested, \* of each conversation, the attestations it is assessed with
    utility,  \* of each conversation, the rank of its utility
    phase,    \* "planning", "greedy", "published" or "failed"
    todo,     \* the conversations the greedy loop has not looked at, best first
    chosen,   \* those selected so far
    plan      \* the published plan: its solver status and its entries in order

planningVars == <<attested, utility, phase, todo, chosen, plan>>

GatesOf(c) == Assessed(Bundle[c].traits, attested[c])

(* _eligible: what cannot be carried out, or contradicts itself, is no      *)
(* candidate.  (The client frontier before it compares conversations of one *)
(* client about one problem, and the builder makes at most one of those.)   *)
Eligible == {c \in Conversation : ~Blocked(GatesOf(c)) /\ c \notin Exclusive}

(* Higher utility first, and the smaller id where they tie. *)
Precedes(c, d) == utility[c] > utility[d] \/ (utility[c] = utility[d] /\ c < d)

(* The place of a conversation is the number of those that precede it. *)
Ranked(selection) ==
    [i \in 1 .. Cardinality(selection) |->
        CHOOSE c \in selection : Cardinality({d \in selection : Precedes(d, c)}) = i - 1]

(* Mutant: conversations are counted per role alone. *)
GroupsPerRole ==
    <<[of |-> [c \in Conversation |-> Place[c].role], most |-> MaxPerClientRole],
      [of |-> [c \in Conversation |-> Place[c].family], most |-> MaxPerFamily],
      [of |-> [c \in Conversation |-> Place[c].sector], most |-> MaxPerSector]>>

(* How conversations are grouped, and how many of a group are selected at   *)
(* most.                                                                    *)
Groups ==
    <<[of |-> [c \in Conversation |-> Place[c].client], most |-> MaxPerClient],
      [of |-> [c \in Conversation |-> <<Place[c].client, Place[c].role>>],
       most |-> MaxPerClientRole],
      [of |-> [c \in Conversation |-> Place[c].family], most |-> MaxPerFamily],
      [of |-> [c \in Conversation |-> Place[c].sector], most |-> MaxPerSector]>>

(* The members of a selection in the group of c. *)
Beside(c, selection, group) == {d \in selection : group.of[d] = group.of[c]}

(* The constraints of the solver's program. *)
WithinLimits(selection) ==
    /\ Cardinality(selection) <= Capacity
    /\ \A i \in DOMAIN Groups : \A c \in selection :
           Cardinality(Beside(c, selection, Groups[i])) <= Groups[i].most

NoPlan == [status |-> "none", entries |-> <<>>]

PlanningInit ==
    /\ attested \in [Conversation -> Attestation]
    /\ utility \in [Conversation -> Utility]
    /\ phase = "planning"
    /\ todo = <<>>
    /\ chosen = {}
    /\ plan = NoPlan

Published(status, selection) ==
    /\ phase' = "published"
    /\ plan' = [status |-> status, entries |-> Ranked(selection)]

-----------------------------------------------------------------------------
(* optimize with no candidate: its answer has no "constraint_report", which *)
(* build_v31_fixture asks of every answer, and nothing is published.        *)
NothingToPlan ==
    /\ phase = "planning"
    /\ Eligible = {}
    /\ phase' = "failed"
    /\ UNCHANGED <<attested, utility, todo, chosen, plan>>

(* _solve_milp succeeds. *)
Solve ==
    /\ phase = "planning"
    /\ Eligible # {}
    /\ \E selection \in SUBSET Eligible :
           /\ WithinLimits(selection)
           /\ chosen' = selection
           /\ Published("OPTIMAL", selection)
    /\ UNCHANGED <<attested, utility, todo>>

(* _solve_milp returns None: the solver is missing or fails. *)
SolverFails ==
    /\ phase = "planning"
    /\ Eligible # {}
    /\ phase' = "greedy"
    /\ todo' = Ranked(Eligible)
    /\ UNCHANGED <<attested, utility, chosen, plan>>

(* Mutant: a group is closed one conversation early. *)
HasRoomForMore(c) ==
    \A i \in DOMAIN Groups :
        Cardinality(Beside(c, chosen, Groups[i])) + 1 < Groups[i].most

(* None of the groups of c is full. *)
HasRoom(c) ==
    \A i \in DOMAIN Groups :
        Cardinality(Beside(c, chosen, Groups[i])) < Groups[i].most

(* One round of _solve_greedy: the next conversation is chosen or passed.   *)
Consider ==
    /\ phase = "greedy"
    /\ todo # <<>>
    /\ Cardinality(chosen) < Capacity
    /\ chosen' = IF HasRoom(Head(todo)) THEN chosen \cup {Head(todo)} ELSE chosen
    /\ todo' = Tail(todo)
    /\ UNCHANGED <<attested, utility, phase, plan>>

(* The loop has come to its end or reached the capacity. *)
FinishGreedy ==
    /\ phase = "greedy"
    /\ todo = <<>> \/ Cardinality(chosen) >= Capacity
    /\ Published("DEGRADED_FALLBACK", chosen)
    /\ UNCHANGED <<attested, utility, todo, chosen>>

PlanningNext == NothingToPlan \/ Solve \/ SolverFails \/ Consider \/ FinishGreedy

PlanningSpec == PlanningInit /\ [][PlanningNext]_planningVars

InPlan == ToSet(plan.entries)

(* coverage_plan for a caller entitled to some clients: the entries it may  *)
(* see, in their order and numbered anew.                                   *)
Projection(clients) == {c \in InPlan : Place[c].client \in clients}

-----------------------------------------------------------------------------
(* What the weekly plan is checked for.                                     *)

CountOf(selection, trait(_), value) == Cardinality({c \in selection : trait(c) = value})

(* The plan keeps the limits the policy publishes, whichever way it was     *)
(* made, names nobody twice and nothing that is blocked or contradicts      *)
(* itself; and so does whatever part of it a caller is shown.               *)
PlanKeepsLimits ==
    /\ IsInjective(plan.entries)
    /\ \A clients \in SUBSET {Place[c].client : c \in Conversation} :
        LET selection == Projection(clients)
            client(c) == Place[c].client
            family(c) == Place[c].family
            sector(c) == Place[c].sector
            seat(c) == <<Place[c].client, Place[c].role>>
        IN /\ Cardinality(selection) <= Capacity
           /\ \A c \in selection :
                 /\ CountOf(selection, client, client(c)) <= MaxPerClient
                 /\ CountOf(selection, seat, seat(c)) <= MaxPerClientRole
                 /\ CountOf(selection, family, family(c)) <= MaxPerFamily
                 /\ CountOf(selection, sector, sector(c)) <= MaxPerSector
                 /\ "FAIL" \notin {GatesOf(c)[g].status : g \in Gate}
                 /\ c \notin Exclusive

(* The greedy fallback passes nothing over without a reason: a candidate    *)
(* that is not in a degraded plan has no place beside the better ones that  *)
(* are, and what is in the plan never owes its place to a worse one.        *)
LeftOutForAReason ==
    plan.status = "DEGRADED_FALLBACK" =>
        \A c \in Eligible \ InPlan :
            ~WithinLimits({c} \cup {d \in InPlan : Precedes(d, c)})

(* A product is proposed only about a commercial problem and over gates none*)
(* of which failed; and what the rules leave open, since no system confirms *)
(* it, has been attested, as passed or as not required: the attestation the *)
(* code also accepts.  The dossier of V3.1: "Unknown gates cannot be turned *)
(* into PASS by a model".                                                   *)
ProposalsAreAttested ==
    \A c \in Conversation :
        ConversationAction(Bundle[c].commercial, GatesOf(c)) = "PRODUCT_PROPOSAL" =>
            /\ Bundle[c].commercial
            /\ \A g \in Gate :
                  /\ GatesOf(c)[g].status # "FAIL"
                  /\ RuleGates(Bundle[c].traits)[g].status = "UNKNOWN" =>
                        g \in DOMAIN attested[c] /\ attested[c][g] \in {"PASS", "NOT_REQUIRED"}

-----------------------------------------------------------------------------
(* What the code's documents say and the code does not do.                  *)

(* "only an all-required-PASS bundle can support a product proposal, and    *)
(* only in pilot or production" (feasibility.py).  A required gate that is  *)
(* attested as not required does not hinder a proposal, and no step asks    *)
(* for the environment.                                                     *)
OnlyPassingBundlesPropose ==
    \A c \in Conversation :
        ConversationAction(Bundle[c].commercial, GatesOf(c)) = "PRODUCT_PROPOSAL" =>
            \A g \in Gate : GatesOf(c)[g].required => GatesOf(c)[g].status = "PASS"

(* "scenario_draws=int(result["scenario_draws"]) or 512" (fixtures.py): the *)
(* builder means to publish a plan for a week without a candidate too.      *)
EveryWeekIsPlanned == phase # "failed"
=============================================================================
