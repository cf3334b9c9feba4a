-------------------------- MODULE PromotionReaders --------------------------
(***************************************************************************)
(* Reading the position while it changes.  decision() does not take the    *)
(* repository's lock: it copies the approvals, then evaluate_promotion goes *)
(* through the live list of evaluations once per question, and writers run  *)
(* in between.  The list only grows, so what one pass saw of it is a prefix *)
(* and a read keeps what each pass made of the prefix it saw.                *)
(***************************************************************************)
EXTENDS PromotionRepository

CONSTANT MaxOvertaking    \* bound on the writes that overtake one read

ASSUME OvertakingAssumption == MaxOvertaking \in Nat

VARIABLE page    \* the read in flight, or the last one answered
(* page.apps: the approvals it copied, until they are used.  page.passes:   *)
(* the passes made.  page.state and page.granted: the real state and the    *)
(* capabilities it will publish.  page.moments: what was granted at each    *)
(* moment since the read began.  page.writes: the writes since then.        *)

readerVars == <<vars, page>>

(* The passes of evaluate_promotion, in order: the transitions ready on the *)
(* real track, those on the rehearsal track, the real gates passed, the     *)
(* gates never evaluated, and the scores.                                   *)
Passes == <<"readyReal", "readyRehearsal", "gates", "unevaluated", "score">>

Reading == page.passes < Len(Passes)

GrantedNow(evals, apps) ==
    GrantedCapabilities(Position(evals, apps, "REAL"), PassedGates(evals, "REAL"))

(* Mutant: the prerequisites are looked up on the wrong track. *)
PublishedGrantsRehearsed(state) ==
    GrantedCapabilities(state, PassedGates(evaluations, "REHEARSAL"))

(* The capabilities published beside a real state computed two passes ago. *)
PublishedGrants(state) == GrantedCapabilities(state, PassedGates(evaluations, "REAL"))

EmptyBook == [id \in {} |-> SeedApproval]

PageOf(apps, evals) ==
    [apps |-> apps, passes |-> 0, state |-> 0, granted |-> {},
     moments |-> {GrantedNow(evals, apps)}, writes |-> 0]

ReaderInit ==
    /\ Init
    /\ page = [PageOf(EmptyBook, evaluations)
                  EXCEPT !.passes = Len(Passes), !.granted = GrantedNow(evaluations, approvals),
                         !.moments = {GrantedNow(evaluations, approvals)}]

(* decision() is called and copies the approvals. *)
BeginRead ==
    /\ ~Reading
    /\ page' = PageOf(approvals, evaluations)
    /\ UNCHANGED vars

(* evaluate_promotion makes its next pass over the evaluations. *)
Pass ==
    /\ Reading
    /\ LET pass == Passes[page.passes + 1]
           next == [page EXCEPT !.passes = @ + 1]
       IN page' = IF pass = "readyReal"
                    THEN [next EXCEPT !.apps = EmptyBook,
                                      !.state = Position(evaluations, page.apps, "REAL")]
                  ELSE IF pass = "gates"
                    THEN [next EXCEPT !.granted = PublishedGrants(page.state)]
                  ELSE next
    /\ UNCHANGED vars

(* A write of the repository, and what it grants from then on. *)
Write ==
    /\ Reading => page.writes < MaxOvertaking
    /\ \/ \E e \in EvaluationInputs : RecordEvaluation(e)
       \/ \E c \in Client, a \in ApprovalInputs : RecordApproval(c, a)
    /\ page' = IF Reading
                 THEN [page EXCEPT !.moments = @ \cup {GrantedNow(evaluations', approvals')},
                                   !.writes = @ + 1]
                 ELSE page

(* Another client reads the position, to be able to file an approval. *)
ReadForApproval ==
    /\ \E c \in Client : ReadDecision(c)
    /\ UNCHANGED page

ReaderNext == BeginRead \/ Pass \/ Write \/ ReadForApproval

ReaderSpec == ReaderInit /\ [][ReaderNext]_readerVars

-----------------------------------------------------------------------------
Overgranted == {c \in page.granted : \A moment \in page.moments : c \notin moment}

(* One write that overtakes a read does no harm: every capability published *)
(* was granted when the read began or when it ended (evaluate_promotion     *)
(* resolves capabilities from a state and from gates it read separately).   *)
OneWriteNeverOvergrants == ~Reading /\ page.writes <= 1 => Overgranted = {}

(* "A capability is granted only when both its state threshold and its      *)
(* evidence prerequisites hold" (states.py): whatever overtakes the read,   *)
(* what it publishes was granted at some moment of it.                      *)
PublishedGrantsHeld == ~Reading => Overgranted = {}
=============================================================================
