------------------------------ MODULE MCReconcile ------------------------------
(***************************************************************************)
(* Reconcile.tla for TLC: a poll a unit of time apart, two units apart     *)
(* after the backoff.                                                      *)
(***************************************************************************)
EXTENDS Reconcile

CONSTANTS A, memo

MCZero == [m |-> 0, d |-> 0]
Whole == [m |-> 5, d |-> 0]
Less == [m |-> 45, d |-> 1]

Record(status, refunds, amount) ==
    [status |-> status, account |-> A, memo |-> memo, memoType |-> "text",
     amount |-> amount, refunds |-> refunds]

MCFirst == Record("pending_sender", None, Whole)

MCRecords ==
    { MCFirst, Record("pending_receiver", None, Whole),
      Record("completed", None, Whole),
      Record("error", None, Whole),
      Record("error", [amount |-> Less], Whole),
      Record("refunded", [amount |-> Whole], Whole),
      Record("refunded", [amount |-> Whole], Bad),
      Record("refunded", Bad, Whole) }

=============================================================================
