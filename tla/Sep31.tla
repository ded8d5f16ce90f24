--------------------------------- MODULE Sep31 ---------------------------------
(***************************************************************************)
(* The SEP-31 adapter (packages/sep31/src/index.ts): what it makes of the  *)
(* anchor's answers, and the checks of the pre-settle gate that are        *)
(* SEP-31's.  Every operator takes what the anchor answered, a body or one *)
(* of HttpProblems, and gives the Outcome.                                 *)
(***************************************************************************)
EXTENDS AdapterKit

(* mapSep31Status: anything unknown is in flight. *)
mapSep31Status(status) ==
    [status |-> status,
     phase |-> IF status \in {"pending_external", "pending_receiver"} THEN "external"
               ELSE "anchor",
     settled |-> status = "completed",
     terminalFailure |-> status \in {"refunded", "expired", "error"},
     awaitingInput |-> status \in {"incomplete", "pending_customer_info_update",
                                   "pending_transaction_info_update"}]

capabilities31(corridor) ==
    [protocol |-> "sep31",
     quotes |-> IF corridor.quoteServer THEN {"sep38_firm"} ELSE {"none"},
     kyc |-> IF corridor.kycServer THEN "sep12" ELSE "none",
     settlement |-> {"stellar_payment"}]

(* registerCustomer: PUT /customer, before the engine's first call. *)
Registered(http, id) ==
    CASE http # "ok" -> HttpFail(http, "KYC_REQUIRED")
      [] http = "ok" /\ id = None -> Fail("KYC_REQUIRED", FALSE)
      [] OTHER -> Ok(id)

(* ensureCompliance without a KYC server: nothing to ask. *)
NoKyc31 == Ok("accepted")

(* openTransaction: the instructions are the answer's, whatever it lacks.  *)
Opened31(http, body) ==
    IF http # "ok" THEN HttpFail(http, "ANCHOR_UNAVAILABLE")
    ELSE Ok(Payable(body.account, body.memo, parseMemoType(body.memoType)))

(* getTransaction; the amount's asset is the bridge asset where the record *)
(* names none.                                                             *)
Status31(http, record) ==
    IF http # "ok" THEN HttpFail(http, "ANCHOR_UNAVAILABLE")
    ELSE Ok(StatusOf(mapSep31Status(record.status), record))

(* getInfo: the bridge asset's entry, None where /info lists none. *)
Info(http, entry) ==
    IF http # "ok" THEN HttpFail(http, "ANCHOR_UNAVAILABLE")
    ELSE IF entry = None THEN Ok(None)
    ELSE Ok([enabled |-> entry.enabled, min |-> Readable(entry.min),
             max |-> Readable(entry.max)])

-----------------------------------------------------------------------------
(* The gate's checks *)

Pass == [passed |-> TRUE, code |-> "none"]
Block(code) == [passed |-> FALSE, code |-> code]

(* sep31InfoCheck *)
InfoVerdict(info) ==
    IF ~info.ok \/ info.value = None \/ info.value.enabled = FALSE
    THEN Block("PRESETTLE_ANCHOR_DRIFT") ELSE Pass

(* amountRangeCheck's pick: the stricter of the corridor's bound and the   *)
(* anchor's; None where there is neither, Bad where they do not compare.   *)
pick(a, b, wins) ==
    CASE a = None -> b
      [] a # None /\ b = None -> a
      [] OTHER -> LET cmp == compareAmounts(a, b)
                  IN  IF cmp = None THEN Bad ELSE IF cmp = wins THEN a ELSE b

Beyond(amount, bound, side) ==
    bound # None /\ (bound = Bad \/ compareAmounts(amount, bound) \in {None, side})

(* Mutant of AmountVerdict: the corridor's own bounds replace the anchor's. *)
AmountVerdictOwnBounds(info, limits, amount) ==
    IF ~info.ok THEN Block("PRESETTLE_ANCHOR_DRIFT")
    ELSE IF Beyond(amount, limits.min, -1) \/ Beyond(amount, limits.max, 1)
    THEN Block("PRESETTLE_AMOUNT_OUT_OF_RANGE") ELSE Pass

(* amountRangeCheck: an asset /info does not list has no bounds there. *)
AmountVerdict(info, limits, amount) ==
    IF ~info.ok THEN Block("PRESETTLE_ANCHOR_DRIFT")
    ELSE LET of(field) == IF info.value = None THEN None ELSE info.value[field]
         IN  IF Beyond(amount, pick(limits.min, of("min"), 1), -1)
                \/ Beyond(amount, pick(limits.max, of("max"), -1), 1)
             THEN Block("PRESETTLE_AMOUNT_OUT_OF_RANGE") ELSE Pass

(* receiverKycCheck *)
KycGate(outcome) ==
    IF outcome.ok /\ outcome.value = "accepted" THEN Pass
    ELSE Block("PRESETTLE_RECEIVER_NOT_ACCEPTED")

(* openedTxCheck: the status must be pending_sender, and what the record   *)
(* reports must be what will be sent.  It reads the amount and the asset   *)
(* from fields that no status has (amountIn carries both), so these two    *)
(* are never compared and a strict check never passes.                     *)
OpenedTxVerdict(outcome, request, strict) ==
    LET s == outcome.value
        sentType == IF request.memoType = None THEN "text" ELSE request.memoType
        mismatch == \/ s.depositAddress \notin {None, request.to}
                    \/ s.memo # None /\ s.memo # request.memo
                    \/ s.memoType \notin {None, sentType}
    IN  CASE ~outcome.ok -> Block("SETTLEMENT_FAILED")
          [] outcome.ok /\ (s.class.status # "pending_sender" \/ mismatch \/ strict) ->
                Block("PRESETTLE_TX_MISMATCH")
          [] OTHER -> Pass

=============================================================================
