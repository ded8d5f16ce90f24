--------------------------- MODULE CorridorState ---------------------------
(***************************************************************************)
(* The state table of a corridor run, packages/engine/src/state.ts.  It is *)
(* the guard every transition of the engine passes through: `advance` and  *)
(* `failRun` refuse a move that is not in it.                              *)
(***************************************************************************)

ALL_STATES ==
    {"created", "quoted", "compliant", "opened", "funding", "funded",
     "verifying", "settling", "retrying", "settled", "reconciled",
     "completed", "recovering", "refund_pending", "refunded", "held",
     "failed"}

(* The successors of a state, NEXT in the source. *)
NextStates(s) ==
    CASE s = "created"        -> {"quoted", "failed"}
      [] s = "quoted"         -> {"compliant", "recovering", "failed"}
      [] s = "compliant"      -> {"opened", "recovering", "failed"}
      [] s = "opened"         -> {"funding", "verifying", "recovering", "failed"}
      [] s = "funding"        -> {"funded", "recovering", "failed"}
      [] s = "funded"         -> {"verifying", "recovering", "failed"}
      [] s = "verifying"      -> {"settling", "recovering", "failed"}
      [] s = "settling"       -> {"settled", "retrying", "recovering", "failed"}
      [] s = "retrying"       -> {"verifying", "recovering", "failed"}
      [] s = "settled"        -> {"reconciled", "recovering", "failed"}
      [] s = "reconciled"     -> {"completed", "failed"}
      [] s = "recovering"     -> {"refund_pending", "refunded", "held", "failed"}
      [] s = "refund_pending" -> {"refunded", "held", "failed"}
      [] OTHER                -> {}

canTransition(from, to) == to \in NextStates(from)

TERMINAL == {"completed", "refunded", "held", "failed"}

isTerminal(s) == s \in TERMINAL

=============================================================================
