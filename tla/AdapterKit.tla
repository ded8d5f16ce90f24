------------------------------- MODULE AdapterKit -------------------------------
(***************************************************************************)
(* What every anchor adapter is made of (packages/adapter-kit): outcomes,  *)
(* the SEP-10 token's cache, the SEP-12 status read, the SEP-38 quote and  *)
(* its cross-check, the refund report.  All of it reads what the anchor    *)
(* wrote: a field of a body is a value, None where it is absent, Bad where *)
(* it cannot be read.                                                      *)
(***************************************************************************)
EXTENDS Money

CONSTANTS
    Tolerance,     \* QUOTE_TOLERANCE
    TokenMargin,   \* the 30 s a token must have left
    TokenLife,     \* the 15 min a token without an exp claim is taken to have
    QuoteTtl       \* fx.quote_ttl_seconds

ASSUME KitAssumption ==
    /\ Tolerance \in [m : Nat, d : 0 .. Scale]
    /\ TokenMargin \in Nat /\ TokenLife \in Nat /\ QuoteTtl \in Nat

Ok(v) == [ok |-> TRUE, value |-> v]
Fail(code, retryable) == [ok |-> FALSE, code |-> code, retryable |-> retryable]

(* A call whose answer is not a body: it never came, the anchor failed, or *)
(* it refused.                                                             *)
HttpProblems == {"lost", "5xx", "4xx"}

HttpFail(http, code) ==
    IF http = "lost" THEN Fail("ANCHOR_UNAVAILABLE", TRUE) ELSE Fail(code, http = "5xx")

Readable(field) == IF field = Bad THEN None ELSE field

-----------------------------------------------------------------------------
(* SEP-10 *)

(* A cached token is used while it has the margin left. *)
Fresh(cached, now) == cached # None /\ cached.exp - TokenMargin > now

(* A JWT's exp claim, or the default where it has none. *)
BelievedExpiry(claim, now) == IF claim = None THEN now + TokenLife ELSE claim

(* SEP-12: anything but a clear yes or no is pending. *)
KycVerdict(status) ==
    CASE status = "ACCEPTED" -> "accepted"
      [] status = "REJECTED" -> "rejected"
      [] OTHER -> "pending"

Sep12Answer(http, status) ==
    IF http # "ok" THEN HttpFail(http, "KYC_REQUIRED") ELSE Ok(KycVerdict(status))

-----------------------------------------------------------------------------
(* SEP-38 *)

(* Mutant of totalPriceProblem: a sell amount above the implied one is not *)
(* noticed.                                                                *)
totalPriceProblemOneSided(totalPrice, buy, sell) ==
    /\ isValidAmount(totalPrice) /\ isValidAmount(buy)
    /\ LET drift == subAmounts(applyPrice(buy, totalPrice), sell)
           tolerance == applyPrice(sell, Tolerance)
       IN  /\ None \notin {applyPrice(buy, totalPrice), drift, tolerance}
           /\ compareAmounts(drift, tolerance) = 1

(* total_price times buy_amount misses sell_amount by more than the        *)
(* tolerance; what cannot be computed is no problem.                       *)
totalPriceProblem(totalPrice, buy, sell) ==
    /\ isValidAmount(totalPrice) /\ isValidAmount(buy)
    /\ LET implied == applyPrice(buy, totalPrice)
           drift == IF implied = None THEN None ELSE subAmounts(implied, sell)
           tolerance == applyPrice(sell, Tolerance)
       IN  /\ None \notin {drift, tolerance}
           /\ compareAmounts([drift EXCEPT !.m = Abs(@)], tolerance) = 1

FirmQuote(body, sell) ==
    [firm |-> TRUE, expiresAt |-> body.expires, sell |-> sell, buy |-> body.buy,
     totalPrice |-> body.totalPrice]

(* A fee must be in the asset sold. *)
FeeProblem(body) == body.feeAsset \notin {None, "sell"}

(* Sep38QuoteProvider.quote: the answer is taken at its word but for the   *)
(* sell amount, its consistency and the fee's asset.  An expiry that does  *)
(* not parse is NaN, here None; isValidAmount(undefined) throws.           *)
Sep38Quote(asked, body) ==
    LET sell == IF body.sell = None THEN asked ELSE body.sell
    IN  CASE ~isValidAmount(sell) -> Fail("QUOTE_UNAVAILABLE", FALSE)
          [] isValidAmount(sell) /\ isValidAmount(body.totalPrice) /\ body.buy = None ->
                Fail("ANCHOR_UNAVAILABLE", TRUE)
          [] isValidAmount(sell) /\ totalPriceProblem(body.totalPrice, body.buy, sell) ->
                Fail("QUOTE_UNAVAILABLE", FALSE)
          [] OTHER -> IF FeeProblem(body) THEN Fail("QUOTE_UNAVAILABLE", FALSE)
                      ELSE Ok(FirmQuote([body EXCEPT !.expires = Readable(@)], sell))

(* ExternalQuoteProvider.quote: the operator's price, which binds nobody.  *)
(* An amount to pay out and an expiry that come with it are taken as they  *)
(* are, in place of the ones that follow from the price and the ttl.       *)
ExternalQuote(asked, answer, now) ==
    LET derived == applyPrice(asked, answer.price)
    IN  IF derived = None \/ toScaled(answer.price) <= 0
        THEN Fail("QUOTE_UNAVAILABLE", FALSE)
        ELSE Ok([firm |-> FALSE, sell |-> asked, totalPrice |-> None,
                 expiresAt |-> IF answer.expires = None THEN now + QuoteTtl
                               ELSE answer.expires,
                 buy |-> IF answer.buy = None THEN derived ELSE answer.buy])

-----------------------------------------------------------------------------
(* Transaction records *)

MemoType == {"text", "hash", "id"}

parseMemoType(t) == IF t \in MemoType THEN t ELSE None

(* Mutant of parseRefunds: what cannot be compared came back whole. *)
parseRefundsAnyAmount(refunds, settledAmount) ==
    IF refunds \in {None, Bad} THEN None
    ELSE [amount |-> refunds.amount, completeness |-> "full"]

(* parseRefunds: what came back, if that can be read, and whether it was   *)
(* all of the amount that went out.                                        *)
parseRefunds(refunds, settledAmount) ==
    IF refunds \in {None, Bad} \/ ~isValidAmount(refunds.amount) THEN None
    ELSE [amount |-> refunds.amount,
          completeness |->
              LET cmp == IF isValidAmount(settledAmount)
                         THEN compareAmounts(refunds.amount, settledAmount) ELSE None
              IN  CASE cmp = None -> "unknown"
                    [] cmp = -1 -> "partial"
                    [] OTHER -> "full"]

(* The status an adapter returns: the classification, beside the record's  *)
(* own fields, each read by itself and left out when it cannot be.         *)
StatusOf(class, record) ==
    [class |-> class,
     refunds |-> parseRefunds(record.refunds, record.amount),
     amountIn |-> Readable(record.amount),
     depositAddress |-> Readable(record.account),
     memo |-> Readable(record.memo),
     memoType |-> parseMemoType(record.memoType)]

(* A transaction opened for a plain payment: what it says, twice. *)
Payable(to, memo, memoType) ==
    LET flat == [to |-> to, memo |-> memo, memoType |-> memoType]
    IN  [instructions |-> [kind |-> "stellar_payment", to |-> to, memo |-> memo,
                           memoType |-> memoType],
         flat |-> flat]

(* toLegacy: an opened transaction's address and memo, from its            *)
(* instructions or, for the other kinds, the flat fields beside them.      *)
toLegacy(opened) ==
    IF opened.instructions.kind = "stellar_payment"
    THEN [to |-> opened.instructions.to, memo |-> opened.instructions.memo,
          memoType |-> opened.instructions.memoType]
    ELSE opened.flat

=============================================================================
