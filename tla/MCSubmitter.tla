----------------------------- MODULE MCSubmitter -----------------------------
(* Submitter.tla for TLC: two requests, each with a memo of its own.       *)
EXTENDS Submitter, TLC

CONSTANTS r1, r2

MCMemo == r1 :> "m1" @@ r2 :> "m2"

=============================================================================
