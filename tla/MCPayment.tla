------------------------------- MODULE MCPayment -------------------------------
(***************************************************************************)
(* Payment.tla for TLC.  Amounts have two decimals.  The quotes agree with *)
(* themselves, miss by a fifth either way, cannot be checked because their *)
(* price is too fine (one that never expires), or cannot be read.          *)
(***************************************************************************)
EXTENDS Payment

CONSTANTS A, B, m

Cents(n) == [m |-> n, d |-> 2]

MCTolerance == Cents(10)
MCAsked == [m |-> 1, d |-> 0]

Quote(sell, buy, price, expires) ==
    [sell |-> sell, buy |-> buy, totalPrice |-> price, expires |-> expires, feeAsset |-> None]

MCQuoteBodies ==
    { Quote(Cents(80), Cents(200), Cents(50), 3),
      Quote(Cents(120), Cents(200), Cents(50), 3),
      Quote(Cents(66), Cents(201), Cents(33), 2),
      Quote(Cents(-100), Cents(200), None, 3),
      Quote(None, Cents(200), [m |-> 555, d |-> 3], Bad),
      Quote(Cents(100), None, Cents(50), 3),
      Quote(Bad, Cents(200), Cents(50), 3),
      [Quote(None, Cents(200), Cents(50), 3) EXCEPT !.feeAsset = "other"] }

Price(price) == [price |-> price, buy |-> None, expires |-> None]

(* The last one says what it pays out, not what its price makes of it, and *)
(* for how long.                                                           *)
MCPrices ==
    {Price(p) : p \in {Cents(200), Cents(0), [m |-> 2005, d |-> 3], Bad}}
        \cup {[price |-> Cents(200), buy |-> Cents(7), expires |-> 1]}

Record(status, account, memo, memoType) ==
    [status |-> status, account |-> account, memo |-> memo, memoType |-> memoType,
     amount |-> MCAsked, refunds |-> None]

MCRecords ==
    { Record("pending_sender", A, m, "hash"),
      Record("pending_sender", B, m, "hash"),
      Record("pending_sender", A, None, "bogus"),
      Record("incomplete", None, m, "hash") }

Entry(enabled, min, max) == [enabled |-> enabled, min |-> min, max |-> max]

MCFirstEntry == Entry(TRUE, Cents(50), Cents(500))

MCEntries ==
    { MCFirstEntry, Entry(None, Bad, Cents(90)),
      Entry(FALSE, None, None), None }

Base ==
    [protocol |-> "sep31", signer |-> TRUE, kycServer |-> TRUE, quoteServer |-> TRUE,
     quoteSource |-> "sep38", method |-> None, margin |-> 1, strict |-> FALSE,
     sellsBridge |-> TRUE, infoRead |-> FALSE, infoDoc |-> None,
     limits |-> [min |-> None, max |-> Cents(110)], checks |-> Check,
     anchorAtRisk |-> FALSE]

(* SEP-31 with every check, without a server for customers or quotes, of a *)
(* foreign asset; SEP-6 with what it supports, unidentified, of an asset   *)
(* that /info disables; and four that their adapter does not fit.          *)
MCCorridors ==
    { Base,
      [Base EXCEPT !.kycServer = FALSE, !.signer = FALSE, !.quoteSource = "external",
                   !.checks = {"kyc", "tx", "window"}, !.strict = TRUE],
      [Base EXCEPT !.sellsBridge = FALSE, !.checks = {"window"}],
      [Base EXCEPT !.protocol = "sep6", !.checks = {"kyc", "window"}],
      [Base EXCEPT !.protocol = "sep6", !.quoteSource = "external", !.kycServer = FALSE,
                   !.checks = {}],
      [Base EXCEPT !.protocol = "sep6", !.infoRead = TRUE,
                   !.infoDoc = [exchange |-> [enabled |-> FALSE]]],
      [Base EXCEPT !.method = "none"],
      [Base EXCEPT !.quoteServer = FALSE],
      [Base EXCEPT !.quoteSource = "native"],
      [Base EXCEPT !.quoteSource = "external", !.anchorAtRisk = TRUE] }

=============================================================================
