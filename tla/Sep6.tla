---------------------------------- MODULE Sep6 ----------------------------------
(***************************************************************************)
(* The SEP-6 adapter (packages/sep6/src/index.ts), which withdraws: its    *)
(* statuses, its quote, its two-call opening, and what /info says of the   *)
(* corridor's asset.                                                       *)
(***************************************************************************)
EXTENDS AdapterKit

(* mapSep6Status *)
mapSep6Status(status) ==
    [status |-> status,
     phase |-> IF status = "pending_external" THEN "external" ELSE "anchor",
     settled |-> status = "completed",
     terminalFailure |-> status \in {"error", "expired", "refunded", "no_market",
                                     "too_small", "too_large"},
     awaitingInput |-> status \in {"incomplete", "pending_user",
                                   "pending_user_transfer_start",
                                   "pending_customer_info_update",
                                   "pending_transaction_info_update"}]

(* The entry of the corridor's asset in /info; what is not an object has   *)
(* no sections, and an entry that is not one is left out.                  *)
parseSep6Info(doc) ==
    IF doc \in {None, Bad} \/ doc.exchange \in {None, Bad} THEN None
    ELSE [enabled |-> IF doc.exchange.enabled \in BOOLEAN THEN doc.exchange.enabled
                      ELSE None]

(* capabilities: until /info was read the corridor's lane is assumed. *)
capabilities6(corridor, infoRead, entry) ==
    [protocol |-> "sep6",
     quotes |-> IF corridor.quoteServer THEN {"sep38_firm"} ELSE {"none"},
     kyc |-> IF corridor.kycServer THEN "sep12" ELSE "sep6_fields",
     settlement |-> IF ~infoRead \/ (entry # None /\ entry.enabled # FALSE)
                    THEN {"stellar_payment"} ELSE {}]

(* requestQuote: as Sep38Quote, of a body that must be readable whole. *)
Sep6Quote(asked, body) ==
    IF body.buy \in {None, Bad} \/ body.expires \in {None, Bad}
    THEN Fail("QUOTE_UNAVAILABLE", FALSE)
    ELSE Sep38Quote(asked, [body EXCEPT !.sell = Readable(@), !.totalPrice = Readable(@)])

NoKyc6 == Fail("KYC_REQUIRED", FALSE)

(* kycRefusal: told by the body's type, whatever the HTTP status. *)
kycRefusal(type, denied) ==
    CASE type = "customer_info_status" /\ denied -> Fail("KYC_REJECTED", FALSE)
      [] type = "authentication_required" -> Fail("ANCHOR_UNAVAILABLE", TRUE)
      [] OTHER -> Fail("KYC_REQUIRED", FALSE)

KycTypes == {"non_interactive_customer_info_needed", "customer_info_status",
             "authentication_required"}

(* openTransaction, up to the record's read: refused, payable, or None,    *)
(* where the answer names the transaction and no account.                  *)
Initiated(http, body) ==
    CASE http # "lost" /\ body.type \in KycTypes -> kycRefusal(body.type, body.denied)
      [] http \in HttpProblems /\ (http = "lost" \/ body.type \notin KycTypes) ->
            HttpFail(http, "ANCHOR_UNAVAILABLE")
      [] OTHER -> IF body.id = None THEN Fail("ANCHOR_UNAVAILABLE", FALSE)
                  ELSE IF Readable(body.account) = None THEN Ok(None)
                  ELSE Ok(Payable(body.account, Readable(body.memo), parseMemoType(body.memoType)))

(* Mutant of instructionsFromRecord: the record's status is enough. *)
instructionsFromRecordAnyway(http, record) ==
    IF http # "ok" THEN HttpFail(http, "ANCHOR_UNAVAILABLE")
    ELSE Ok(Payable(record.account, record.memo, parseMemoType(record.memoType)))

(* instructionsFromRecord: one read of the record for the account.  A call *)
(* that throws rejects openTransaction.                                    *)
instructionsFromRecord(http, record) ==
    CASE http # "ok" -> HttpFail(http, "ANCHOR_UNAVAILABLE")
      [] http = "ok" /\ Readable(record.account) # None ->
            Ok(Payable(record.account, Readable(record.memo), parseMemoType(record.memoType)))
      [] OTHER -> Fail(IF record.status \in {"incomplete", "pending_customer_info_update"}
                       THEN "KYC_REQUIRED" ELSE "ANCHOR_UNAVAILABLE", FALSE)

(* getTransaction: a record without a readable status is an outage. *)
Status6(http, record) ==
    CASE http # "ok" -> HttpFail(http, "ANCHOR_UNAVAILABLE")
      [] http = "ok" /\ record.status \in {None, Bad} -> Fail("ANCHOR_UNAVAILABLE", TRUE)
      [] OTHER -> Ok(StatusOf(mapSep6Status(record.status), record))

=============================================================================
