---------------------------- MODULE MCPromotion ----------------------------
(***************************************************************************)
(* The promotion repository over a catalogue of three gates and two        *)
(* transitions: "reconciliation" must hold for the first, "named-cohort"   *)
(* for the second, and "e3-multibank" blocks nothing but is what the       *)
(* MEASURED_SHARE capability waits for.                                    *)
(***************************************************************************)
EXTENDS PromotionProperties, PromotionReaders

MCGateOrder == <<"reconciliation", "e3-multibank", "named-cohort">>
MCTransitionOf == [gate \in {"reconciliation", "e3-multibank", "named-cohort"} |->
                      IF gate = "named-cohort" THEN 2 ELSE 1]
MCBlocking == {"reconciliation", "named-cohort"}
MCWeight == [gate \in {"reconciliation", "e3-multibank", "named-cohort"} |->
                CASE gate = "reconciliation" -> 5 [] gate = "e3-multibank" -> 3
                  [] gate = "named-cohort" -> 1]
MCMinimumMode == [gate \in {"reconciliation", "e3-multibank", "named-cohort"} |->
                     IF gate = "reconciliation" THEN "REAL_BANK" ELSE "BANK_ATTESTED"]

MCThreshold == [c \in {"OFFLINE_ANALYSIS", "MEASURED_SHARE", "SUPERVISED_RM_PILOT",
                       "AUTONOMOUS_CLIENT_ACTION"} |->
                   CASE c = "OFFLINE_ANALYSIS" -> 0 [] c = "MEASURED_SHARE" -> 1
                     [] OTHER -> 2]
MCPrerequisite == [c \in {"OFFLINE_ANALYSIS", "MEASURED_SHARE", "SUPERVISED_RM_PILOT",
                          "AUTONOMOUS_CLIENT_ACTION"} |->
                      IF c = "MEASURED_SHARE" THEN {"e3-multibank"} ELSE {}]

(* One evaluation of each kind the properties tell apart. *)
Sent(gate, track, outcome, mode, at) ==
    [gate |-> gate, track |-> track, outcome |-> outcome, mode |-> mode,
     backed |-> outcome = "PASS", waiver |-> outcome = "WAIVED",
     injected |-> FALSE, at |-> at]

(* A maker of the first line and a checker of the second. *)
Review(id, transition, track, decision, at) ==
    [id |-> id, transition |-> transition, track |-> track, decision |-> decision,
     maker |-> "rehearsal.maker", makerRole |-> "ENGINEERING",
     checker |-> "rehearsal.checker", checkerRole |-> "MODEL_RISK",
     submitted |-> 0, at |-> at]

SelfReview(id, transition, track) ==
    [Review(id, transition, track, "APPROVED", 2) EXCEPT !.checker = "rehearsal.maker"]

BankEvaluations ==
    {Sent("reconciliation", "REAL", "PASS", "REAL_BANK", 1),
     Sent("reconciliation", "REAL", "FAIL", "REAL_BANK", 2),
     Sent("e3-multibank", "REAL", "PASS", "PUBLIC_PACKAGE", 1),
     Sent("named-cohort", "REAL", "NOT_REQUIRED", NoMode, 1),
     Sent("reconciliation", "REHEARSAL", "FAIL", "REAL_BANK", 1),
     [Sent("e3-multibank", "REAL", "PASS", "BANK_ATTESTED", 1) EXCEPT !.backed = FALSE]}

(* A gate that is waived instead of evidenced. *)
WaivingEvaluations == BankEvaluations \cup {Sent("e3-multibank", "REAL", "WAIVED", NoMode, 2)}

BankApprovals ==
    {Review(1, 1, "REAL", "APPROVED", 2),
     Review(2, 2, "REAL", "APPROVED", 2), Review(1, 1, "REHEARSAL", "REJECTED", 2),
     SelfReview(2, 2, "REAL"),
     [Review(2, 2, "REAL", "APPROVED", 2) EXCEPT !.checkerRole = "ENGINEERING"]}
=============================================================================
