------------------------ MODULE MCPromotionCatalogue ------------------------
(***************************************************************************)
(* A fixture repository over the catalogue of thirty gates, four           *)
(* transitions and sixteen capabilities that the code ships.  The seed     *)
(* passes every gate in rehearsal and approves the first transition, so    *)
(* two approvals lead the rehearsed position up to PILOT_READY and         *)
(* SCALE_READY, and a failed gate takes it down from there.                *)
(***************************************************************************)
EXTENDS PromotionProperties, PromotionCatalogue

Sent(gate, track, outcome, at) ==
    [gate |-> gate, track |-> track, outcome |-> outcome, mode |-> "SYNTHETIC_REHEARSAL",
     backed |-> TRUE, waiver |-> FALSE, injected |-> FALSE, at |-> at]

Waived(gate, track, at) ==
    [Sent(gate, track, "WAIVED", at) EXCEPT !.mode = NoMode, !.backed = FALSE, !.waiver = TRUE]

(* A maker of the first line and a checker of the second. *)
Review(id, transition, track, decision, at) ==
    [id |-> id, transition |-> transition, track |-> track, decision |-> decision,
     maker |-> "rehearsal.maker", makerRole |-> "ENGINEERING",
     checker |-> "rehearsal.checker", checkerRole |-> "MODEL_RISK",
     submitted |-> 0, at |-> at]

(* The e3 gate blocks nothing but is what two capabilities wait for. *)
FixtureEvaluations ==
    {Sent("reconciliation-exact", "REHEARSAL", "FAIL", 1),
     Sent("reconciliation-exact", "REHEARSAL", "FAIL", 2),
     Sent("reconciliation-exact", "REHEARSAL", "PASS", 2)}
      \cup {Sent("elapsed-clean-shadow-days", "REHEARSAL", "FAIL", 1),
            Waived("unknown-gate", "REHEARSAL", 1),
            [Sent("reconciliation-exact", "REAL", "PASS", 1) EXCEPT !.mode = "REAL_BANK"],
            Waived("e3-multibank-observation-approved", "REAL", 1),
            Sent("elapsed-clean-shadow-days", "REAL", "PASS", 1),
            [Sent("elapsed-clean-shadow-days", "REHEARSAL", "PASS", 1) EXCEPT !.backed = FALSE]}

FixtureApprovals ==
    {Review(id, 2, "REHEARSAL", decision, 2) :
         id \in {0, 1}, decision \in {"APPROVED", "REJECTED"}}
      \cup {Review(1, 1, "REHEARSAL", "REJECTED", 0), Review(0, 3, "REHEARSAL", "APPROVED", 2),
            Review(1, 1, "REAL", "APPROVED", 2),
            [Review(1, 2, "REHEARSAL", "APPROVED", 2) EXCEPT !.checker = "rehearsal.maker"]}
=============================================================================
