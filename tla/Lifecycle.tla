------------------------------ MODULE Lifecycle ------------------------------
(***************************************************************************)
(* What the store promises about one idempotency key: no row, then a row   *)
(* in `created`, then moves along the state table and nothing else.  The   *)
(* engine, with its workers, crashes and resumes, is shown to implement    *)
(* this specification (Engine.tla, property Lifecycle).                    *)
(***************************************************************************)
EXTENDS CorridorState

VARIABLE state      \* the stored state of the key, "none" before the claim

Init == state = "none"

Claim == state = "none" /\ state' = "created"

Move(s) == state # "none" /\ canTransition(state, s) /\ state' = s

Next == Claim \/ \E s \in ALL_STATES : Move(s)

Spec == Init /\ [][Next]_state

TypeOK == state \in ALL_STATES \cup {"none"}

(* The states a run may be in once a payment has been confirmed or the run *)
(* has been sent to recovery.                                              *)
AfterSettlement ==
    {"settled", "reconciled", "completed", "recovering", "refund_pending",
     "refunded", "held", "failed"}

(* The guarantee state.ts:45-55 claims for the table: a run that reached   *)
(* `settled` or `recovering` has no path back to `settling`, so no         *)
(* control-flow bug that respects the table can submit a second payment.   *)
NoWayBackToSettling ==
    [][(state \in AfterSettlement) => (state' \in AfterSettlement)]_state

=============================================================================
