--------------------------- MODULE EvidenceModes ---------------------------
(***************************************************************************)
(* Decision tracks and evidence modes of the promotion twin                *)
(* (src/wallet_twin_v32/modes.py): which mode of evidence may be used on   *)
(* which track, how the modes are ordered by authority, and what each one  *)
(* contributes to Bank Evidence Readiness.                                 *)
(***************************************************************************)
EXTENDS Integers

Track == {"REAL", "REHEARSAL"}

Mode == {"NOT_AVAILABLE", "SYNTHETIC_REHEARSAL", "SIMULATED_POLICY",
         "PUBLIC_APPROVED", "PUBLIC_PACKAGE", "REAL_BANK", "BANK_ATTESTED"}

PublicModes == {"PUBLIC_APPROVED", "PUBLIC_PACKAGE"}

SyntheticModes == {"SYNTHETIC_REHEARSAL", "SIMULATED_POLICY"}

RealTrackModes == PublicModes \cup {"REAL_BANK", "BANK_ATTESTED"}

RehearsalTrackModes == Mode \ {"NOT_AVAILABLE"}

Authority(mode) ==
    CASE mode = "NOT_AVAILABLE"  -> -2
      [] mode \in SyntheticModes -> 0
      [] mode \in PublicModes    -> 1
      [] mode = "REAL_BANK"      -> 2
      [] mode = "BANK_ATTESTED"  -> 3

(* admits_track: evidence of this mode may be used on this track. *)
AdmitsTrack(mode, track) ==
    mode \in (IF track = "REAL" THEN RealTrackModes ELSE RehearsalTrackModes)

(* satisfies_minimum: a gate accepts its minimum mode or any stronger one. *)
SatisfiesMinimum(mode, minimum) == Authority(mode) >= Authority(minimum)

(* bank_evidence_weight: the share of a gate's weight this mode earns. *)
BankEvidenceWeight(mode) == IF mode \in RealTrackModes THEN 1 ELSE 0
=============================================================================
