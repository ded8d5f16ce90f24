--------------------------------- MODULE Horizon ---------------------------------
(***************************************************************************)
(* The Stellar package's reading and writing of the chain                  *)
(* (packages/stellar/src/index.ts): what it asks of accounts before it     *)
(* pays, the envelope it builds, and what it makes of a transaction it     *)
(* reads back.  On the chain amounts are integers of the last decimal      *)
(* place; Horizon writes them out with every decimal.  An asset is its     *)
(* code and issuer; an account its lines, by asset, and its entry counts.  *)
(***************************************************************************)
EXTENDS Money, FiniteSets

CONSTANTS
    BaseReserve,   \* opts.baseReserve: per ledger entry
    Fee,           \* StellarSettlementSubmitter.fee
    BpsUnit,       \* 10000: basis points in one
    Upper(_)       \* toUpperCase, of an asset's code

ASSUME HorizonAssumption ==
    BaseReserve \in Nat /\ Fee \in Nat /\ BpsUnit \in Nat \ {0} /\ Upper("XLM") = "XLM"

Passed == [passed |-> TRUE, code |-> "none"]
Refused(code) == [passed |-> FALSE, code |-> code]

isXlm(asset) == Upper(asset.code) = "XLM"

(* The checks and the lookup take "native" for XLM too; the payment, its   *)
(* path and its verification do not.                                       *)
isNative(asset) == Upper(asset.code) \in {"XLM", "NATIVE"}

(* They find an issued asset by its code in either case; the others ask    *)
(* for the code as it is.                                                  *)
Names(bridge, asset) == Upper(asset.code) = Upper(bridge.code) /\ asset.issuer = bridge.issuer

(* bridgeAsset: any asset of that code is built as the native one. *)
Native == [code |-> "XLM", issuer |-> None]
bridgeAsset(asset) == IF isXlm(asset) THEN Native ELSE asset

Written(stroops) == [m |-> stroops, d |-> Scale]

(* Mutant of needsPathPayment: assets of one code are one asset. *)
needsPathPaymentByCode(corridor) ==
    corridor.receive # None /\ corridor.receive.code # corridor.bridge.code

(* The anchor receives another asset than the one we hold. *)
needsPathPayment(corridor) ==
    /\ corridor.receive # None
    /\ IF isXlm(corridor.bridge) \/ isXlm(corridor.receive)
       THEN isXlm(corridor.bridge) # isXlm(corridor.receive)
       ELSE corridor.receive # corridor.bridge

-----------------------------------------------------------------------------
(* The gate's chain checks *)

NoLine == [balance |-> 0, selling |-> 0, authorized |-> FALSE]

Line(facts, asset) == IF asset \in DOMAIN facts.lines THEN facts.lines[asset] ELSE NoLine

(* The first line that the bridge asset names; the native one it does not. *)
NamedLine(facts, bridge) ==
    LET named == {a \in DOMAIN facts.lines : a # Native /\ Names(bridge, a)}
    IN  IF named = {} THEN NoLine ELSE facts.lines[CHOOSE a \in named : TRUE]

(* A line by code; Horizon lists the native balance last, so another line  *)
(* of that code is found before it.                                        *)
NativeLine(facts) ==
    LET named == {a \in DOMAIN facts.lines : isXlm(a) /\ a # Native}
    IN  Line(facts, IF named = {} THEN Native ELSE CHOOSE a \in named : TRUE)

MinimumReserve(facts) ==
    LET entries == 2 + facts.subentries + facts.sponsoring - facts.sponsored
    IN  (IF entries < 0 THEN 0 ELSE entries) * BaseReserve

(* Mutant of AvailableXlm: what the open offers would sell is spent twice. *)
AvailableXlmGross(facts) == NativeLine(facts).balance - MinimumReserve(facts)

AvailableXlm(facts) ==
    NativeLine(facts).balance - NativeLine(facts).selling - MinimumReserve(facts)

(* An issued asset covers the amount, the native balance the fee. *)
CoversIssued(facts, asset, sum) ==
    /\ NamedLine(facts, asset).balance - NamedLine(facts, asset).selling >= sum
    /\ AvailableXlm(facts) >= Fee

(* AccountInspector.account: what is on the chain, None where nothing is;  *)
(* or Bad, where Horizon does not answer.                                  *)
account(facts) == {facts, Bad}

(* balanceCheck: the amount and the fee are there and may be spent.        *)
balanceCheck(facts, corridor, amount) ==
    LET sum == toScaled(amount)
    IN  CASE facts = Bad -> Refused("SETTLEMENT_FAILED")
          [] facts = None -> Refused("PRESETTLE_INSUFFICIENT_FUNDS")
          [] facts \notin {Bad, None} /\ sum = None -> Refused("AMOUNT_INVALID")
          [] OTHER -> IF IF isNative(corridor.bridge) THEN AvailableXlm(facts) >= sum + Fee
                         ELSE CoversIssued(facts, corridor.bridge, sum)
                      THEN Passed ELSE Refused("PRESETTLE_INSUFFICIENT_FUNDS")

(* destinationCheck: somebody else, not flagged, on the chain, and with an *)
(* authorized line for the bridge asset.                                   *)
destinationCheck(to, us, flagged, facts, corridor) ==
    LET barred == to \in {None, us} \cup flagged
    IN  IF ~barred /\ facts = Bad THEN Refused("SETTLEMENT_FAILED")
        ELSE IF \/ barred
                \/ facts = None
                \/ ~isNative(corridor.bridge) /\ ~NamedLine(facts, corridor.bridge).authorized
        THEN Refused("PRESETTLE_DESTINATION_UNSAFE") ELSE Passed

(* tomlHashCheck: what the domain serves is what was attested; what cannot *)
(* be read is neither.                                                     *)
tomlHashCheck(domainAllowed, attested, live) ==
    IF domainAllowed \/ (attested \notin {None, Bad} /\ live = attested)
    THEN Passed ELSE Refused("PRESETTLE_ANCHOR_DRIFT")

-----------------------------------------------------------------------------
(* Memos: a text, an id, or 32 bytes that the anchor may spell in base64   *)
(* as Horizon does ("canonical"), in another base64, or in a way that does *)
(* not encode ("unfit").                                                   *)

NoMemo == [type |-> "none", content |-> None]

TypeOf(req) == IF req.memoType = None THEN "text" ELSE req.memoType

(* buildMemo: None where the builder throws. *)
buildMemo(req) ==
    IF req.memo = None THEN NoMemo
    ELSE IF req.memo.form = "unfit" THEN None
    ELSE [type |-> TypeOf(req), content |-> req.memo.content]

(* Mutant of SameMemo: the strings, whatever they spell. *)
SameMemoLiterally(req, memo) ==
    IF req.memo = None THEN memo = NoMemo
    ELSE /\ memo = [type |-> TypeOf(req), content |-> req.memo.content]
         /\ req.memo.form = "canonical"

(* A hash is compared by its bytes, an id or a text as it is written; the  *)
(* chain writes an id without leading zeros ("canonical").                 *)
SameMemo(req, memo) ==
    IF req.memo = None THEN memo = NoMemo
    ELSE /\ memo = [type |-> TypeOf(req), content |-> req.memo.content]
         /\ TypeOf(req) = "hash" \/ req.memo.form = "canonical"

-----------------------------------------------------------------------------
(* Path payments *)

(* expected less the slippage, rounded up: None where either is invalid.   *)
applySlippage(expected, bps) ==
    IF expected <= 0 \/ bps \notin 0 .. BpsUnit - 1 THEN None
    ELSE (expected * (BpsUnit - bps) + BpsUnit - 1) \div BpsUnit

(* bestStrictSendPath: the one that delivers most, of those that deliver.  *)
bestStrictSendPath(paths) ==
    IF \E p \in paths : p > 0 THEN CHOOSE p \in paths : \A q \in paths : q <= p ELSE None

(* An asset as the anchor writes it: a bare code has no issuer. *)
namesAsset(id, asset) ==
    IF isXlm(asset) THEN id.issuer = None /\ (isXlm(id) \/ id.code = "native")
    ELSE id.code = asset.code /\ id.issuer \in {None, asset.issuer}

(* The anchor's floor, when it is in the asset it receives. *)
MinDest(opened, corridor) ==
    IF opened.amountIn # None /\ corridor.receive # None
       /\ namesAsset(opened.amountIn.asset, corridor.receive)
    THEN opened.amountIn.amount ELSE None

(* An amount that reaches the floor; none reaches one with more decimals   *)
(* than there are.                                                         *)
Reaches(stroops, floor) ==
    floor = None \/ compareAmounts(Written(stroops), floor) \in {0, 1}

-----------------------------------------------------------------------------
(* Reading a transaction back *)

(* One payment among those of the account to this address. *)
IsExisting(payment, req, corridor) ==
    /\ payment.kind \in {"payment", "path"} /\ payment.to = req.to
    /\ IF isNative(corridor.bridge) THEN isXlm(payment.asset)
       ELSE Names(corridor.bridge, payment.asset)
    /\ compareAmounts(Written(payment.amount), req.amount) = 0
    /\ SameMemo(req, payment.memo)

(* settlementFacts: the transaction, or Bad where Horizon does not answer. *)
settlementFacts(t) == {t, Bad}

(* The transaction is the payment that was asked for; a path payment's     *)
(* amount and asset are what left.                                         *)
verifySettlementFacts(facts, req, corridor) ==
    /\ facts.kind = (IF needsPathPayment(corridor) THEN "path" ELSE "payment")
    /\ facts.to = req.to
    /\ compareAmounts(req.amount, Written(facts.sent)) = 0
    /\ facts.sentAsset = bridgeAsset(corridor.bridge)
    /\ facts.kind = "path" => facts.asset = bridgeAsset(corridor.receive)
    /\ SameMemo(req, facts.memo)

(* createChainVerifier: the error's code, where it is not confirmed. *)
createChainVerifier(facts, req, corridor) ==
    IF facts = Bad THEN "SETTLEMENT_FAILED"
    ELSE IF verifySettlementFacts(facts, req, corridor) THEN "none" ELSE "RECONCILE_MISMATCH"

=============================================================================
