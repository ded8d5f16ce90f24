-------------------------------- MODULE Payment --------------------------------
(***************************************************************************)
(* One payment over one anchor, through its adapter and up to the request  *)
(* that is handed to the chain: the capability check, quote, compliance,   *)
(* opening (packages/engine/src/verbs.ts over packages/sep31 and sep6),    *)
(* and the pre-settle gate, whose checks run at the same time against an   *)
(* anchor that changes its mind (packages/engine/src/gate.ts).  What a     *)
(* call costs the engine's own state is Engine's; here the calls           *)
(* themselves are looked at: their tokens, their answers, and what the     *)
(* answers were worth by the time they were used.                          *)
(***************************************************************************)
EXTENDS Sep31, Sep6, FiniteSets

CONSTANTS
    Corridors,     \* the manifests, each with its adapter's options
    Asked,         \* intent.sourceAmount.amount
    QuoteBodies,   \* what the anchor's quote server answers
    Prices,        \* what the operator's pricing function answers
    Records,       \* what the anchor may make of the transaction
    Entries,       \* its /info entries for the asset
    FirstEntry,    \* the one it begins with
    ClaimedLife,   \* how long the anchor's tokens live, where they say so
    GateTimeout,   \* timeoutMs of the gate
    MaxAttempts,   \* recovery.max_retries: evaluations of the gate
    MaxTime,       \* bound: the clock
    MaxMoves       \* bound: how often the anchor changes something

Check == {"info", "range", "kyc", "tx", "window"}
Thread == {"run", "info", "kyc", "tx"}

ASSUME PaymentAssumption ==
    /\ \A c \in Corridors : c.checks \subseteq Check
    /\ ClaimedLife \in Nat /\ GateTimeout \in Nat /\ MaxAttempts \in Nat
    /\ MaxTime \in Nat /\ MaxMoves \in Nat

(* What is written as an amount is a whole number of units of the last     *)
(* decimal place, where it can be read and is not too fine; a quote, a     *)
(* pair of bounds and a token are records.                                 *)
Legible(a) == toScaled(a) \in Int \cup {None}
QuoteFields == {"sell", "buy", "totalPrice", "expires", "feeAsset"}

ASSUME AmountsAssumption ==
    /\ Legible(Asked)
    /\ \A b \in QuoteBodies :
          /\ DOMAIN b = QuoteFields
          /\ Legible(b.sell) /\ Legible(b.buy) /\ Legible(b.totalPrice)
    /\ \A c \in Corridors : Legible(c.limits.min) /\ Legible(c.limits.max)
    /\ \A e \in Entries \cup {FirstEntry} :
          e # None => Legible(e.min) /\ Legible(e.max) /\ Info("ok", e) # Ok(None)
    /\ None \notin [exp : Int, key : Int]

VARIABLES
    corridor,   \* this payment's
    now,
    anchor,     \* the anchor: the transaction, the customer, /info, its keys
    cached,     \* the adapter's SEP-10 token
    run,        \* where the engine is, and what it holds
    call,       \* each outstanding call: its step and the token it carries
    verdict,    \* what each check of this evaluation found
    seen        \* history: what each check's read found, and when

vars == <<corridor, now, anchor, cached, run, call, verdict, seen>>

NoCall == [step |-> "idle", tok |-> None, since |-> 0]
Unread == [attempt |-> 0, authenticated |-> FALSE, what |-> None]

GateReads == {"info", "kyc", "tx"}

-----------------------------------------------------------------------------
(* The engine's control *)

Goto(pc) == run' = [run EXCEPT !.pc = pc]
Stop(code) == run' = [run EXCEPT !.pc = "failed", !.code = code]

Start(t) == call' = [call EXCEPT ![t] = [NoCall EXCEPT !.step = "auth"]]
Finish(t) == call' = [call EXCEPT ![t] = NoCall]

Capabilities ==
    IF corridor.protocol = "sep31" THEN capabilities31(corridor)
    ELSE capabilities6(corridor, corridor.infoRead, parseSep6Info(corridor.infoDoc))

(* checkCompatibility, with the strategies the engine has by default. *)
Compatible(caps, strategies) ==
    /\ corridor.quoteSource = "sep38" => "sep38_firm" \in caps.quotes
    /\ corridor.method \in {None, caps.kyc}
    /\ caps.settlement # {} /\ caps.settlement \subseteq strategies

(* Who may price it: an external rate binds no anchor, so it is refused    *)
(* where the anchor bears the risk and cannot price the payment itself.    *)
Unpriceable(caps) ==
    /\ corridor.quoteSource = "native" \/ (corridor.quoteSource = "external" /\ corridor.anchorAtRisk)
    /\ "native" \notin caps.quotes

Begin ==
    /\ run.pc = "new"
    /\ CASE ~Compatible(Capabilities, {"stellar_payment", "adapter_settled"}) ->
              Stop("CAPABILITY_MISMATCH") /\ UNCHANGED call
         [] Compatible(Capabilities, {"stellar_payment", "adapter_settled"})
            /\ Unpriceable(Capabilities) -> Stop("MANIFEST_INVALID") /\ UNCHANGED call
         [] OTHER -> /\ Goto("quote")
                     /\ IF corridor.quoteSource = "sep38" THEN Start("run") ELSE UNCHANGED call
    /\ UNCHANGED <<corridor, now, anchor, cached, verdict, seen>>

(* registerCustomer, by the deployment, before there is a payment. *)
Register ==
    /\ run.pc = "new" /\ run.customer = None /\ corridor.kycServer
    /\ \E http \in HttpProblems \cup {"ok"}, id \in {None, "customer"} :
          LET r == Registered(http, id)
          IN  run' = IF r.ok THEN [run EXCEPT !.customer = r.value] ELSE run
    /\ UNCHANGED <<corridor, now, anchor, cached, call, verdict, seen>>

(* quote: a firm one must not have expired; NaN never has. *)
Expired(q) == q.firm /\ q.expiresAt # None /\ q.expiresAt <= now

TakeQuote(r) ==
    CASE ~r.ok -> Stop(r.code)
      [] r.ok /\ Expired(r.value) -> Stop("QUOTE_EXPIRED")
      [] OTHER -> run' = [run EXCEPT !.pc = "comply", !.quote = r.value]

PriceExternally ==
    /\ run.pc = "quote" /\ corridor.quoteSource = "external"
    /\ \/ \E p \in Prices : TakeQuote(ExternalQuote(Asked, p, now))
       \/ Stop("QUOTE_UNAVAILABLE")
    /\ UNCHANGED <<corridor, now, anchor, cached, call, verdict, seen>>

(* comply, after ensureCompliance's outcome. *)
TakeCompliance(r) ==
    CASE ~r.ok -> Stop(r.code)
      [] r.ok /\ r.value = "rejected" -> Stop("KYC_REJECTED")
      [] r.ok /\ r.value = "pending" -> Stop("KYC_REQUIRED")
      [] OTHER -> Goto("open")

(* ensureCompliance without a call: no KYC server, or nobody to ask about. *)
Unasked ==
    IF corridor.kycServer THEN Fail("KYC_REQUIRED", FALSE)
    ELSE IF corridor.protocol = "sep31" THEN NoKyc31 ELSE NoKyc6

NeedsKycCall == corridor.kycServer /\ run.customer # None

Comply ==
    /\ run.pc = "comply" /\ call["run"] = NoCall
    /\ IF NeedsKycCall THEN Start("run") /\ UNCHANGED run
       ELSE TakeCompliance(Unasked) /\ UNCHANGED call
    /\ UNCHANGED <<corridor, now, anchor, cached, verdict, seen>>

(* openTransaction: somebody must be identified; SEP-6 takes the signer.   *)
Open ==
    /\ run.pc = "open" /\ call["run"] = NoCall
    /\ IF run.customer # None \/ (corridor.protocol = "sep6" /\ corridor.signer)
       THEN Start("run") /\ UNCHANGED run
       ELSE Stop("KYC_REQUIRED") /\ UNCHANGED call
    /\ UNCHANGED <<corridor, now, anchor, cached, verdict, seen>>

-----------------------------------------------------------------------------
(* SEP-10 *)

Ready(t, tok) == call' = [call EXCEPT ![t] = [NoCall EXCEPT !.step = "asking", !.tok = tok]]

(* A call that ends without the anchor being asked: the token's failure. *)
Unauthenticated == Fail("ANCHOR_UNAVAILABLE", TRUE)

(* token: none is needed, the cached one is good, or the handshake starts. *)
Authenticate(t) ==
    /\ call[t].step = "auth"
    /\ CASE ~corridor.signer -> Ready(t, None)
         [] corridor.signer /\ Fresh(cached, now) -> Ready(t, cached)
         [] OTHER -> call' = [call EXCEPT ![t].step = "handshake", ![t].since = now]
    /\ UNCHANGED <<corridor, now, anchor, cached, run, verdict, seen>>

(* The handshake succeeds: the newest token is the one kept.  The token    *)
(* may not say when it expires; it is then counted from the request.       *)
Handshake(t) ==
    /\ call[t].step = "handshake"
    /\ \E claim \in {None, now + ClaimedLife} :
          LET tok == [exp |-> BelievedExpiry(claim, call[t].since), key |-> anchor.key]
          IN  /\ cached' = tok
              /\ Ready(t, tok)
    /\ UNCHANGED <<corridor, now, anchor, run, verdict, seen>>

(* What the anchor makes of a call's token; without one it may be lenient. *)
Honoured(tok) == tok # None => tok.key = anchor.key /\ now < tok.exp

(* How a call that waits may be answered; it may also never be. *)
Answers(t) ==
    IF call[t].step # "asking" THEN {}
    ELSE IF Honoured(call[t].tok) THEN HttpProblems \cup {"ok"} ELSE HttpProblems

HandshakeFails ==
    /\ call["run"].step = "handshake"
    /\ Stop(Unauthenticated.code) /\ Finish("run")
    /\ UNCHANGED <<corridor, now, anchor, cached, verdict, seen>>

-----------------------------------------------------------------------------
(* The answers to the engine's calls *)

AnswerQuote ==
    /\ run.pc = "quote"
    /\ \E http \in Answers("run"), body \in QuoteBodies :
          TakeQuote(CASE http # "ok" -> HttpFail(http, "QUOTE_UNAVAILABLE")
                      [] http = "ok" /\ corridor.protocol = "sep31" -> Sep38Quote(Asked, body)
                      [] OTHER -> Sep6Quote(Asked, body))
    /\ Finish("run")
    /\ UNCHANGED <<corridor, now, anchor, cached, verdict, seen>>

AnswerCompliance ==
    /\ run.pc = "comply"
    /\ \E http \in Answers("run") : TakeCompliance(Sep12Answer(http, anchor.kyc))
    /\ Finish("run")
    /\ UNCHANGED <<corridor, now, anchor, cached, verdict, seen>>

TakeOpened(r) ==
    CASE ~r.ok -> Stop(r.code)
      [] r.ok /\ r.value = None -> Goto("read")
      [] OTHER -> run' = [run EXCEPT !.pc = "gate", !.opened = r.value]

(* POST /transactions: the anchor opens the transaction, whether or not    *)
(* its answer arrives.                                                     *)
AnswerOpen31 ==
    /\ run.pc = "open" /\ corridor.protocol = "sep31"
    /\ \E http \in Answers("run"), r \in Records :
          /\ TakeOpened(Opened31(http, r))
          /\ anchor' = IF http \in {"ok", "lost"} THEN [anchor EXCEPT !.record = r] ELSE anchor
    /\ Finish("run")
    /\ UNCHANGED <<corridor, now, cached, verdict, seen>>

(* GET /withdraw-exchange: a refusal that talks of the customer, nothing   *)
(* readable, no id, no account yet, or the whole transaction.              *)
AnswerOpen6 ==
    /\ run.pc = "open" /\ corridor.protocol = "sep6"
    /\ \E http \in Answers("run"), r \in Records, type \in KycTypes \cup {"none"},
           id \in {None, "id"}, denied, bare \in BOOLEAN :
          LET body == [type |-> type, denied |-> denied, id |-> id, memo |-> r.memo,
                       account |-> IF bare THEN None ELSE r.account,
                       memoType |-> r.memoType]
              refused == http # "ok" \/ type # "none" \/ id = None
          IN  /\ TakeOpened(Initiated(http, body))
              /\ anchor' = IF http = "lost" \/ ~refused THEN [anchor EXCEPT !.record = r]
                           ELSE anchor
              /\ call' = [call EXCEPT !["run"] = IF run'.pc = "read" THEN @ ELSE NoCall]
    /\ UNCHANGED <<corridor, now, cached, verdict, seen>>

(* The one read of the record, with the token openTransaction began with.  *)
AnswerRead ==
    /\ run.pc = "read"
    /\ \E http \in Answers("run") : TakeOpened(instructionsFromRecord(http, anchor.record))
    /\ Finish("run")
    /\ UNCHANGED <<corridor, now, anchor, cached, verdict, seen>>

-----------------------------------------------------------------------------
(* The gate *)

(* buildSettlementRequest *)
Request ==
    LET flat == toLegacy(run.opened)
    IN  [to |-> flat.to, memo |-> flat.memo, memoType |-> flat.memoType,
         amount |-> run.quote.sell]

(* quoteWindowCheck: what is left of a firm quote; of NaN, nothing fails.  *)
WindowVerdict ==
    LET q == run.quote
    IN  IF q.firm /\ q.expiresAt # None
           /\ (q.expiresAt <= now \/ q.expiresAt - now < corridor.margin)
        THEN Block("PRESETTLE_QUOTE_WINDOW") ELSE Pass

(* What each read tells the checks that wait for it. *)
Verdicts(t, outcome) ==
    [c \in Check |->
        CASE t = "info" /\ c = "info" -> InfoVerdict(outcome)
          [] t = "info" /\ c = "range" -> AmountVerdict(outcome, corridor.limits, Request.amount)
          [] t = "kyc" /\ c = "kyc" -> KycGate(outcome)
          [] t = "tx" /\ c = "tx" -> OpenedTxVerdict(outcome, Request, corridor.strict)
          [] OTHER -> None]

(* What waits for a read: sharedInfoSource has one /info answer serve both *)
(* checks of an evaluation.                                                *)
Reads(t) == IF t = "info" THEN {"info", "range"} ELSE {t}

(* A check that has to ask, asks. *)
Asks(t) ==
    /\ Reads(t) \cap corridor.checks # {}
    /\ t = "kyc" => NeedsKycCall

(* settleQuoteProblem: never an asset relabelled, never an amount rounded. *)
settleQuoteProblem == ~corridor.sellsBridge \/ ~isSettleableAmount(run.quote.sell)

Unsettleable ==
    /\ run.pc = "gate" /\ settleQuoteProblem
    /\ Stop("AMOUNT_INVALID")
    /\ UNCHANGED <<corridor, now, anchor, cached, call, verdict, seen>>

(* evaluate: every check starts, and those that ask nobody are done.       *)
Evaluate ==
    /\ run.pc = "gate" /\ ~settleQuoteProblem
    /\ now + GateTimeout <= MaxTime
    /\ run' = [run EXCEPT !.pc = "checking", !.attempt = @ + 1, !.since = now]
    /\ verdict' = [c \in Check |->
          CASE c \notin corridor.checks -> Pass
            [] c = "window" /\ c \in corridor.checks -> WindowVerdict
            [] c = "kyc" /\ c \in corridor.checks /\ ~NeedsKycCall -> KycGate(Unasked)
            [] OTHER -> None]
    /\ call' = [t \in Thread |->
          IF t = "run" \/ ~Asks(t) THEN NoCall
          ELSE [NoCall EXCEPT !.step = IF t = "tx" /\ corridor.protocol = "sep31"
                                       THEN "asking" ELSE "auth"]]
    /\ UNCHANGED <<corridor, now, anchor, cached, seen>>

(* A read concludes, unless its check has run out of time. *)
Conclude(t, outcome) ==
    /\ verdict' = [c \in Check |-> IF c \in Reads(t) /\ verdict[c] = None
                                   THEN Verdicts(t, outcome)[c] ELSE verdict[c]]
    /\ Finish(t)

(* What the anchor says is looked up when it answers. *)
AnswerCheck(t) ==
    /\ run.pc = "checking"
    /\ \E http \in Answers(t) :
          LET what == CASE t = "info" -> anchor.entry
                        [] t = "kyc" -> anchor.kyc
                        [] t = "tx" -> anchor.record
          IN  /\ Conclude(t, CASE t = "info" -> Info(http, what)
                               [] t = "kyc" -> Sep12Answer(http, what)
                               [] t = "tx" -> IF corridor.protocol = "sep31"
                                              THEN Status31(http, what)
                                              ELSE Status6(http, what))
              /\ seen' = [seen EXCEPT ![t] = [attempt |-> run.attempt, authenticated |-> call[t].tok # None,
                                              what |-> what]]
    /\ UNCHANGED <<corridor, now, anchor, cached, run>>

CheckUnauthenticated(t) ==
    /\ run.pc = "checking" /\ call[t].step = "handshake"
    /\ Conclude(t, Unauthenticated)
    /\ UNCHANGED <<corridor, now, anchor, cached, run, seen>>

TimerDue ==
    /\ run.pc = "checking" /\ now >= run.since + GateTimeout
    /\ \E c \in Check : verdict[c] = None

(* Mutant of GateTimer: a check may take as long as its anchor. *)
GateTimerOff == FALSE /\ UNCHANGED vars

(* withTimeout: a check still running at its time fails, and what its read *)
(* brings later is nobody's.                                               *)
GateTimer ==
    /\ TimerDue
    /\ verdict' = [c \in Check |-> IF verdict[c] = None THEN Block("SETTLEMENT_FAILED")
                                   ELSE verdict[c]]
    /\ call' = [t \in Thread |-> NoCall]
    /\ UNCHANGED <<corridor, now, anchor, cached, run, seen>>

(* evaluate's result: every check must have passed. *)
Judge ==
    /\ run.pc = "checking" /\ \A c \in Check : verdict[c] # None
    /\ \/ (\A c \in Check : verdict[c].passed) /\ Goto("settle")
       \/ \E c \in Check : ~verdict[c].passed /\ Stop(verdict[c].code)
    /\ UNCHANGED <<corridor, now, anchor, cached, call, verdict, seen>>

-----------------------------------------------------------------------------
(* The settle leg *)

(* settle, after the quote was looked at once more: handed to the chain,   *)
(* or a failure before anything was sent, which is tried again from the    *)
(* gate on.                                                                *)
Settle ==
    /\ run.pc = "settle"
    /\ \/ Expired(run.quote) /\ Stop("QUOTE_EXPIRED")
       \/ /\ ~Expired(run.quote)
          /\ \/ run' = [run EXCEPT !.pc = "sent", !.sent = Request]
             \/ run.attempt < MaxAttempts /\ Goto("gate")
             \/ Stop("SETTLEMENT_FAILED")
    /\ UNCHANGED <<corridor, now, anchor, cached, call, verdict, seen>>

-----------------------------------------------------------------------------
(* The anchor and the clock *)

(* What happens once the payment is out of these hands is not looked at.   *)
Over == run.pc \in {"failed", "sent"}

(* Timers that are due fire before time goes on. *)
Tick ==
    /\ ~Over /\ now < MaxTime /\ ~TimerDue
    /\ now' = now + 1
    /\ UNCHANGED <<corridor, anchor, cached, run, call, verdict, seen>>

(* The anchor changes the transaction, clears or bars the customer,        *)
(* changes /info, or withdraws the tokens it gave.                         *)
Move ==
    /\ ~Over /\ anchor.moves < MaxMoves
    /\ \/ /\ anchor.record # None
          /\ \E r \in Records : anchor' = [anchor EXCEPT !.record = r, !.moves = @ + 1]
       \/ \E k \in {"ACCEPTED", "REJECTED", "NEEDS_INFO"} :
             anchor' = [anchor EXCEPT !.kyc = k, !.moves = @ + 1]
       \/ \E e \in Entries : anchor' = [anchor EXCEPT !.entry = e, !.moves = @ + 1]
       \/ anchor' = [anchor EXCEPT !.key = @ + 1, !.moves = @ + 1]
    /\ UNCHANGED <<corridor, now, cached, run, call, verdict, seen>>

Init ==
    /\ corridor \in Corridors
    /\ now = 0
    /\ anchor = [record |-> None, kyc |-> "ACCEPTED", entry |-> FirstEntry, key |-> 0,
                 moves |-> 0]
    /\ cached = None
    /\ run = [pc |-> "new", customer |-> None, quote |-> None, opened |-> None,
              attempt |-> 0, since |-> 0, sent |-> None, code |-> "none"]
    /\ call = [t \in Thread |-> NoCall]
    /\ verdict = [c \in Check |-> Pass]
    /\ seen = [t \in GateReads |-> Unread]

Engine ==
    \/ Begin \/ Register \/ PriceExternally \/ Comply \/ Open
    \/ HandshakeFails
    \/ Unsettleable \/ Evaluate \/ Judge \/ Settle

Adapter ==
    \/ AnswerQuote \/ AnswerCompliance \/ AnswerOpen31 \/ AnswerOpen6 \/ AnswerRead
    \/ \E t \in Thread : Authenticate(t) \/ Handshake(t)
    \/ \E t \in GateReads : AnswerCheck(t) \/ CheckUnauthenticated(t)

Next == Engine \/ Adapter \/ GateTimer \/ Tick \/ Move

(* The process schedules what is ready and its timers fire; that the       *)
(* anchor answers is not assumed.                                          *)
Fairness == WF_vars(Judge) /\ WF_vars(GateTimer) /\ WF_vars(Tick)

Spec == Init /\ [][Next]_vars /\ Fairness

-----------------------------------------------------------------------------
(* Properties *)

Holds(bound, amount, atLeast) ==
    isValidAmount(bound) /\ toScaled(bound) # None =>
        IF atLeast THEN toScaled(amount) >= toScaled(bound)
        ELSE toScaled(amount) <= toScaled(bound)

(* The amount is within the corridor's limits and the anchor's. *)
InRange ==
    LET e == seen["info"].what
    IN  \A bounds \in {corridor.limits} \cup (IF e = None THEN {} ELSE {e}) :
            Holds(bounds.min, run.sent.amount, TRUE) /\ Holds(bounds.max, run.sent.amount, FALSE)

(* The anchor waits for a payment to this account with this memo. *)
Expected ==
    LET r == seen["tx"].what
    IN  /\ r.status = "pending_sender"
        /\ r.account \in {None, Bad, run.sent.to}
        /\ r.memo \in {None, Bad, run.sent.memo}

(* Money is sent on evidence of the evaluation that let it: in this        *)
(* attempt, after its gate began, the anchor listed the asset with bounds  *)
(* that hold the amount, had cleared the recipient (and told the operator, *)
(* not a stranger), and had the transaction open for this account and      *)
(* memo (gate.ts:48-54, amountRangeCheck.ts:18-34, openedTxCheck.ts:1-6).  *)
PaidOnEvidence ==
    run.pc = "sent" =>
        /\ \A c \in corridor.checks \ {"window"} :
              LET read == IF c = "range" THEN "info" ELSE c
              IN  (c = "kyc" /\ ~corridor.kycServer) \/ seen[read].attempt = run.attempt
        /\ "info" \in corridor.checks =>
              seen["info"].what # None /\ seen["info"].what.enabled # FALSE
        /\ "range" \in corridor.checks => InRange
        /\ "kyc" \in corridor.checks /\ corridor.kycServer =>
              seen["kyc"].what = "ACCEPTED" /\ (corridor.signer => seen["kyc"].authenticated)
        /\ "tx" \in corridor.checks => Expected

(* A firm quote whose total price can be checked agrees with itself, up to *)
(* the tolerance and the rounding of the two products, both of which are   *)
(* half a unit at most: |total_price x buy - sell| <= tolerance x sell + 1 *)
(* (packages/adapter-kit/src/index.ts:359-387).                            *)
QuoteAddsUp ==
    run.quote # None =>
        LET sell == toScaled(run.quote.sell)
            buy == toScaled(run.quote.buy)
            price == toScaled(run.quote.totalPrice)
        IN  None \notin {sell, buy, price} =>
                Abs(buy * price - sell * Factor) <= sell * toScaled(Tolerance) + Factor

(* A SEP-6 transaction is opened with an account to pay, or not at all: a  *)
(* half-opened one would be paid to nowhere (packages/sep6/src/index.ts:   *)
(* 697-710, 804-815).  SEP-31's adapter does not look.                     *)
SomewhereToPay ==
    corridor.protocol = "sep6" /\ run.opened # None => run.opened.flat.to \notin {None, Bad}

(* The gate always comes to a decision, whatever the anchor leaves         *)
(* unanswered (gate.ts:41-55, 85-102).                                     *)
GateDecides == run.pc = "checking" ~> run.pc # "checking"

=============================================================================
