------------------------- MODULE PromotionAuthority -------------------------
(***************************************************************************)
(* What the promotion twin promises about its position, without gates,     *)
(* evidence or approval ids: each track has the transitions its evaluations *)
(* make ready and the transitions its reviewers approve, and stands at the *)
(* end of the longest unbroken run of transitions that are both.  One      *)
(* evaluation moves the readiness of one transition of one track.  One     *)
(* review moves the approval of one transition of one track, and of the    *)
(* one whose approval it displaces.  A fixture never moves the real track. *)
(***************************************************************************)
EXTENDS Integers

CONSTANTS TopRank, FixtureMode

Tracks == {"REAL", "REHEARSAL"}
Transitions == 1 .. TopRank

VARIABLES
    ready,      \* per track, the transitions whose blocking gates all hold
    approved    \* per track, the transitions whose latest review approves

vars == <<ready, approved>>

Writable(track) == FixtureMode => track = "REHEARSAL"

Init ==
    /\ ready \in [Tracks -> SUBSET Transitions]
    /\ ready["REHEARSAL"] = Transitions
    /\ approved = [track \in Tracks |-> IF track = "REHEARSAL" THEN {1} ELSE {}]

(* f' differs from f at most in what the pairs <<track, transition>> of S    *)
(* say about their transition.                                              *)
MovesOnly(f, g, S) ==
    \A track \in Tracks, k \in Transitions :
        <<track, k>> \notin S => (k \in g[track] <=> k \in f[track])

Evaluate(track, k) ==
    /\ Writable(track)
    /\ ready' \in [Tracks -> SUBSET Transitions]
    /\ MovesOnly(ready, ready', {<<track, k>>})
    /\ UNCHANGED approved

Review(track, k, displacedTrack, displaced) ==
    /\ Writable(track) /\ Writable(displacedTrack)
    /\ approved' \in [Tracks -> SUBSET Transitions]
    /\ MovesOnly(approved, approved', {<<track, k>>, <<displacedTrack, displaced>>})
    /\ UNCHANGED ready

Next ==
    \/ \E track \in Tracks, k \in Transitions : Evaluate(track, k)
    \/ \E track, displacedTrack \in Tracks, k, displaced \in Transitions :
           Review(track, k, displacedTrack, displaced)

Spec == Init /\ [][Next]_vars
=============================================================================
