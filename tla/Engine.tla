------------------------------- MODULE Engine -------------------------------
(***************************************************************************)
(* execute() and resumeRun() of packages/engine/src/run.ts, over the       *)
(* idempotency store, the settlement submitter and the two anchors, for    *)
(* ONE idempotency key.  Each Worker is one call of execute() with that    *)
(* key: a fresh run, a resume after a crash, or a duplicate request.       *)
(*                                                                         *)
(* A step of the model is the code between two awaits: the local change    *)
(* and the store.put it awaits are one step (the change is private until   *)
(* the put lands), while an effect outside the process (a deposit, a       *)
(* payment, a refund) and the put that records it are two, so that a crash *)
(* can fall between them.                                                  *)
(***************************************************************************)
EXTENDS CorridorState, Integers

CONSTANTS
    Worker,          \* the calls of execute() made with the key
    Concurrent,      \* may a call start while another is still running?
    Versioned,       \* put() refuses a version that is not higher (Postgres)
    HasGate,         \* deps.gate (otherwise unsafeSkipPreSettleGate)
    HasFindExisting, \* submitter.findExisting is implemented
    Prefunded,       \* corridor.source.protocol = "prefunded"
    Rollback,        \* corridor.recovery.rollback
    MaxRetries,      \* corridor.recovery.max_retries
    ManifestMayChange \* the manifest may be edited between two calls

ASSUME EngineAssumption ==
    /\ {Concurrent, Versioned, HasGate, HasFindExisting, Prefunded,
        ManifestMayChange} \subseteq BOOLEAN
    /\ Rollback \in {"refund_sender", "hold", "manual"}
    /\ MaxRetries \in Nat

VARIABLES
    row,       \* the stored run of the key (state "none": no row)
    pc,        \* where each call is
    run,       \* each call's own copy of the run
    call,      \* the locals of each call
    pay,       \* the payment envelope each call sent at each attempt
    anchor,    \* the receiving anchor's record of the transaction
    deposit,   \* the sending anchor's deposit
    expired,   \* has the quote expired? (one that is not firm never does)
    manifest,  \* the corridor manifest callers now load
    refunds,   \* refunds the submitter has sent
    counted    \* outcomes reported to the circuit breaker

stored == <<row, run>>
network == <<pay, anchor, deposit, refunds>>
world == <<expired, manifest>>
vars == <<row, pc, run, call, pay, anchor, deposit, expired, manifest,
          refunds, counted>>

-----------------------------------------------------------------------------
(* Values *)

PayStates == {"none", "bounded", "unbounded", "applied", "dead", "offchain"}
Envelopes == Worker \X (0 .. MaxRetries)

(* The error codes, as far as the breaker and the engine tell them apart;  *)
(* ILLEGAL_TRANSITION is advance()'s own SETTLEMENT_FAILED.                *)
LaneFailureCodes ==
    {"SETTLEMENT_FAILED", "SETTLEMENT_TIMEOUT", "RECONCILE_MISMATCH",
     "RECONCILE_STALLED", "PRESETTLE_TX_MISMATCH", "ILLEGAL_TRANSITION"}
NeutralCodes ==
    {"ROUTE_REFUSED", "KYC_REJECTED", "ANCHOR_UNAVAILABLE", "QUOTE_EXPIRED",
     "AMOUNT_INVALID", "ENGINE_MISCONFIGURED", "DRY_RUN_COMPLETE",
     "PRESETTLE_QUOTE_WINDOW", "MANIFEST_CHANGED", "IDEMPOTENCY_CONFLICT",
     "REFUND_UNSUPPORTED", "MANIFEST_INVALID"}
Codes == LaneFailureCodes \cup NeutralCodes \cup {"none"}

(* StoredRun: `instr` stands for transactionId and the kind of deposit     *)
(* instructions openTransaction returned (only a stellar_payment has the   *)
(* depositAddress a resume needs), `src` for sourceTransactionId, `ref`    *)
(* for settlementRef and settlementKind, `refund` for refundId, `err` for  *)
(* the code of lastError.                                                  *)
Instructions == {"stellar_payment", "adapter_settled"}
Runs ==
    [state : ALL_STATES \cup {"none"}, version : Nat,
     instr : Instructions \cup {"none"}, src : BOOLEAN, ref : {"none", "stellar", "adapter"}, refund : BOOLEAN,
     err : Codes, man : {0, 1}]

NoRun == [state |-> "none", version |-> 0, instr |-> "none", src |-> FALSE,
          ref |-> "none", refund |-> FALSE, err |-> "none", man |-> 0]

(* The locals of a call: `resumed` in resumeRun, `dry` opts.dryRun, `man`  *)
(* the corridor it was given, `next` where it goes once the deposit is     *)
(* received, `err` and `cause` the failure being recovered from and what   *)
(* the breaker is to judge, `term` that the failure carries the anchor's   *)
(* terminal status, `found` that findExisting returned a payment.          *)
Calls ==
    [resumed : BOOLEAN, dry : BOOLEAN, man : {0, 1}, attempt : 0 .. MaxRetries,
     next : {"loop", "unsettled", "ready"}, err : Codes, cause : Codes,
     term : BOOLEAN, found : BOOLEAN]

RefKind(r) == IF r.instr = "adapter_settled" THEN "adapter" ELSE "stellar"

hasSettlementRef(r) == r.ref # "none"
hasRequestedRefund(r) == r.refund

(* The awaits of execute() and resumeRun(). *)
Places ==
    {"idle", "claim", "route", "comply", "open", "opened", "deposit",
     "deposited", "await_deposit", "loop", "gate", "refused", "verified",
     "find", "submit", "confirm", "paid", "verify", "reconcile", "complete",
     "resume", "unsettled", "lookup", "recomply", "ready", "enter", "hold",
     "refund", "refunded", "watch", "record", "done", "crashed"}

BeforeOpen == {"created", "quoted", "compliant"}
Live(w) == pc[w] \notin {"idle", "done", "crashed"}

(* Money reached the receiving anchor, on the chain or by its own account. *)
Received == \E p \in Envelopes : pay[p] \in {"applied", "offchain"}

breakerOutcomeFor(s, code) ==
    CASE s = "completed" -> "success"
      [] s \in {"failed", "held", "refunded"} /\ code \in LaneFailureCodes -> "failure"
      [] OTHER -> "neutral"

recoveredBreakerCause(lastError, fallback) ==
    IF lastError \in LaneFailureCodes THEN lastError ELSE fallback

-----------------------------------------------------------------------------
(* The store *)

(* Mutant of Stored: a writer at the stored version writes as well. *)
StoredSameVersion(r) ==
    IF row.version > r.version THEN row
    ELSE [r EXCEPT !.src = row.src \/ r.src,
                   !.refund = row.refund \/ r.refund,
                   !.ref = IF r.ref # "none" THEN r.ref ELSE row.ref,
                   !.man = row.man]

(* PostgresIdempotencyStore.put: strictly higher versions only, with what  *)
(* must never be erased coalesced; InMemoryIdempotencyStore.put writes     *)
(* whatever it is given and keeps only the source deposit.                 *)
Stored(r) ==
    IF ~Versioned THEN [r EXCEPT !.src = row.src \/ r.src]
    ELSE IF row.version >= r.version THEN row
    ELSE [r EXCEPT !.src = row.src \/ r.src,
                   !.refund = row.refund \/ r.refund,
                   !.ref = IF r.ref # "none" THEN r.ref ELSE row.ref,
                   !.man = row.man]

(* Mutant of Put: the write is not awaited and may be lost. *)
PutUnawaited(w, r) == row' \in {row, Stored(r)} /\ run' = [run EXCEPT ![w] = r]

Put(w, r) == row' = Stored(r) /\ run' = [run EXCEPT ![w] = r]

Goto(w, p) == pc' = [pc EXCEPT ![w] = p]
Stay == UNCHANGED stored

(* Mutant of Moved: the version is not incremented. *)
MovedSameVersion(r, s) == [r EXCEPT !.state = s]

Moved(r, s) == [r EXCEPT !.state = s, !.version = r.version + 1]

-----------------------------------------------------------------------------
(* Transitions and failure handling, shared by fresh and resumed runs *)

(* failRun: the run ends in `failed` if the table allows it, and the       *)
(* breaker is told; otherwise the call just returns the error.             *)
Die(w, r, e) ==
    IF canTransition(r.state, "failed")
    THEN /\ Put(w, [Moved(r, "failed") EXCEPT !.err = e])
         /\ call' = [call EXCEPT ![w].cause = e]
         /\ Goto(w, "record")
    ELSE Stay /\ Goto(w, "done") /\ UNCHANGED call

(* advance(to), then on to `next` with the locals c. *)
Advance(w, r, to, next, c) ==
    IF canTransition(r.state, to)
    THEN Put(w, Moved(r, to)) /\ call' = [call EXCEPT ![w] = c] /\ Goto(w, next)
    ELSE Die(w, r, "ILLEGAL_TRANSITION")

(* The locals of a call that starts to recover from e; term says that e    *)
(* carries the anchor's own terminal status.                               *)
Recovering(w, e, cause, term) ==
    [call[w] EXCEPT !.err = e, !.cause = cause, !.term = term]

(* holdAndStop: into `recovering` unless already there or waiting for a    *)
(* refund; Hold does the rest.                                             *)
HoldAndStop(w, r, e, cause) ==
    LET c == Recovering(w, e, cause, FALSE) IN
    IF r.state \in {"recovering", "refund_pending"}
    THEN Stay /\ call' = [call EXCEPT ![w] = c] /\ Goto(w, "hold")
    ELSE Advance(w, r, "recovering", "hold", c)

(* finishFailure: what the manifest's rollback policy says. *)
FinishFailure(w, r, e, term) ==
    CASE Rollback = "refund_sender" ->
             Advance(w, r, "recovering", "refund", Recovering(w, e, e, term))
      [] Rollback = "hold" -> HoldAndStop(w, r, e, e)
      [] OTHER -> Die(w, r, e)

(* A firm quote that is no longer valid, before anything was sent. *)
QuoteExpired(w, r) ==
    IF r.src THEN HoldAndStop(w, r, "QUOTE_EXPIRED", "QUOTE_EXPIRED")
    ELSE FinishFailure(w, r, "QUOTE_EXPIRED", FALSE)

(* Return to the caller with nothing more written. *)
Return(w) == Stay /\ Goto(w, "done") /\ UNCHANGED call

(* Mutant of Hold: the write of `held` is lost. *)
HoldUnsaved(w) ==
    /\ pc[w] = "hold"
    /\ run' = [run EXCEPT ![w] = Moved(run[w], "held")]
    /\ Goto(w, "record")
    /\ UNCHANGED <<row, call, network, world, counted>>

Hold(w) ==
    /\ pc[w] = "hold"
    /\ Advance(w, [run[w] EXCEPT !.err = call[w].err], "held", "record", call[w])
    /\ UNCHANGED <<network, world, counted>>

(* refundAndStop, from `recovering`: wait for an anchor that is already    *)
(* refunding, hand over what the submitter cannot reverse, or ask it to.   *)
RefundAnchor(w) ==
    /\ pc[w] = "refund"
    /\ hasSettlementRef(run[w]) /\ call[w].term
    /\ Advance(w, [run[w] EXCEPT !.err = call[w].err], "refund_pending", "watch", call[w])
    /\ UNCHANGED <<network, world, counted>>

RefundByOperator(w) ==
    /\ pc[w] = "refund"
    /\ ~call[w].term
    /\ run[w].ref = "adapter"
    /\ HoldAndStop(w, run[w], "REFUND_UNSUPPORTED", call[w].err)
    /\ UNCHANGED <<network, world, counted>>

RefundOnChain(w) ==
    /\ pc[w] = "refund"
    /\ ~call[w].term /\ run[w].ref = "stellar" /\ ~hasRequestedRefund(run[w])
    /\ \/ /\ refunds' = refunds + 1
          /\ run' = [run EXCEPT ![w].refund = TRUE]
          /\ Goto(w, "refunded")
          /\ UNCHANGED <<row, call, pay, anchor, deposit>>
       \/ HoldAndStop(w, run[w], "REFUND_UNSUPPORTED", call[w].err) /\ UNCHANGED network
    /\ UNCHANGED <<world, counted>>

RefundNothing(w) ==
    /\ pc[w] = "refund"
    /\ run[w].ref = "none" \/ (~call[w].term /\ run[w].ref = "stellar" /\ hasRequestedRefund(run[w]))
    /\ Stay /\ Goto(w, "refunded")
    /\ UNCHANGED <<call, network, world, counted>>

Refunded(w) ==
    /\ pc[w] = "refunded"
    /\ Advance(w, [run[w] EXCEPT !.err = call[w].err], "refunded", "record", call[w])
    /\ UNCHANGED <<network, world, counted>>

(* watchRefund: only a full refund is one; a partial refund, or no report  *)
(* before the deadline, is held.  A resumed run clears lastError.          *)
WatchRefund(w) ==
    /\ pc[w] = "watch"
    /\ \/ /\ anchor = "refunded"
          /\ \E listed \in BOOLEAN :    \* does the report carry a payment id?
                Advance(w, [run[w] EXCEPT !.refund = @ \/ listed,
                                          !.err = IF call[w].resumed THEN "none" ELSE @],
                        "refunded", "record", call[w])
       \/ /\ anchor = "partial"
          /\ HoldAndStop(w, run[w], "RECONCILE_MISMATCH", call[w].cause)
       \/ HoldAndStop(w, run[w], "SETTLEMENT_TIMEOUT", call[w].cause)
    /\ UNCHANGED <<network, world, counted>>

(* recordOutcome, the last thing a run that resolved does. *)
RecordOutcome(w) ==
    /\ pc[w] = "record"
    /\ LET o == breakerOutcomeFor(run[w].state, call[w].cause) IN
       counted' = [k \in DOMAIN counted |-> counted[k] + (IF k = o THEN 1 ELSE 0)]
    /\ Goto(w, "done")
    /\ UNCHANGED <<stored, call, network, world>>

-----------------------------------------------------------------------------
(* A fresh run *)

(* The entry of execute(): the refusals that precede the claim leave no    *)
(* row; then store.get decides between a fresh run, a resume and an answer.*)
Start(w, dry) ==
    /\ pc[w] = "idle"
    /\ Concurrent \/ \A v \in Worker : ~Live(v)
    /\ call' = [call EXCEPT ![w].dry = dry, ![w].man = manifest,
                           ![w].resumed = row.state # "none"]
    /\ \/ Goto(w, "done") /\ UNCHANGED run
       \/ row.state = "none" /\ Goto(w, "claim") /\ UNCHANGED run
       \/ isTerminal(row.state) /\ Goto(w, "done") /\ UNCHANGED run
       \/ /\ row.state # "none" /\ ~isTerminal(row.state)
          /\ run' = [run EXCEPT ![w] = row]
          /\ Goto(w, "resume")
    /\ UNCHANGED <<row, network, world, counted>>

(* Mutant of Claim: create() is an upsert that always succeeds. *)
ClaimUpsert(w) ==
    /\ pc[w] = "claim"
    /\ LET r == [NoRun EXCEPT !.state = "created", !.man = call[w].man] IN
       row' = r /\ run' = [run EXCEPT ![w] = r] /\ Goto(w, "route")
    /\ UNCHANGED <<call, network, world, counted>>

(* store.create: a conditional insert; the loser gets a conflict. *)
Claim(w) ==
    /\ pc[w] = "claim"
    /\ LET r == [NoRun EXCEPT !.state = "created", !.man = call[w].man] IN
       IF row.state = "none"
       THEN row' = r /\ run' = [run EXCEPT ![w] = r] /\ Goto(w, "route") /\ UNCHANGED call
       ELSE Return(w)
    /\ UNCHANGED <<network, world, counted>>

(* The route is refused or incompatible, or quote, comply or open fails. *)
SetupFails(w) ==
    /\ pc[w] \in {"route", "comply", "open"}
    /\ \E e \in {"ROUTE_REFUSED", "SETTLEMENT_FAILED"} : Die(w, run[w], e)
    /\ UNCHANGED <<network, world, counted>>

Quote(w) ==
    /\ pc[w] = "route"
    /\ ~expired
    /\ Advance(w, run[w], "quoted", "comply", call[w])
    /\ UNCHANGED <<network, world, counted>>

Comply(w) ==
    /\ pc[w] = "comply"
    /\ Advance(w, run[w], "compliant", "open", call[w])
    /\ UNCHANGED <<network, world, counted>>

Open(w) ==
    /\ pc[w] = "open"
    /\ anchor' = "pending"
    /\ \E kind \in Instructions :
          Advance(w, [run[w] EXCEPT !.instr = kind], "opened", "opened", call[w])
    /\ UNCHANGED <<pay, deposit, refunds, world, counted>>

(* Source funding, unless the treasury is prefunded; it takes an adapter   *)
(* for the sending side.                                                   *)
EnterFunding(w) ==
    /\ pc[w] = "opened"
    /\ IF Prefunded THEN Stay /\ Goto(w, "loop") /\ UNCHANGED call
       ELSE IF call[w].dry THEN Die(w, run[w], "DRY_RUN_COMPLETE")
       ELSE \/ Die(w, run[w], "ENGINE_MISCONFIGURED")
            \/ Advance(w, run[w], "funding", "deposit", [call[w] EXCEPT !.next = "loop"])
    /\ UNCHANGED <<network, world, counted>>

(* sending.openDeposit, idempotent by the run's key. *)
OpenDeposit(w) ==
    /\ pc[w] = "deposit"
    /\ \/ /\ deposit' = IF deposit = "none" THEN "opened" ELSE deposit
          /\ run' = [run EXCEPT ![w].src = TRUE]
          /\ Goto(w, "deposited")
          /\ UNCHANGED <<row, call, pay, anchor, refunds>>
       \/ FinishFailure(w, run[w], "ANCHOR_UNAVAILABLE", FALSE) /\ UNCHANGED network
    /\ UNCHANGED <<world, counted>>

(* The put that records the deposit: same state, next version. *)
RecordDeposit(w) ==
    /\ pc[w] = "deposited"
    /\ Put(w, [run[w] EXCEPT !.version = @ + 1])
    /\ Goto(w, "await_deposit")
    /\ UNCHANGED <<call, network, world, counted>>

(* waitForSourceDeposit; a source anchor's terminal failure carries its    *)
(* status just as the receiving anchor's does.                             *)
AwaitDeposit(w) ==
    /\ pc[w] = "await_deposit"
    /\ \/ deposit = "received" /\ Advance(w, run[w], "funded", call[w].next, call[w])
       \/ \E e \in {"SETTLEMENT_TIMEOUT", "ANCHOR_UNAVAILABLE"} :
             FinishFailure(w, run[w], e, FALSE)
       \/ deposit = "opened" /\ FinishFailure(w, run[w], "RECONCILE_MISMATCH", TRUE)
    /\ UNCHANGED <<network, world, counted>>

(* The head of the settle loop, up to the gate's await. *)
LoopHead(w) ==
    /\ pc[w] = "loop"
    /\ \/ FinishFailure(w, run[w], "SETTLEMENT_TIMEOUT", FALSE)
       \/ expired /\ QuoteExpired(w, run[w])
       \/ ~expired /\ Die(w, run[w], "AMOUNT_INVALID")
       \/ ~expired /\ Stay /\ Goto(w, "gate") /\ UNCHANGED call
    /\ UNCHANGED <<network, world, counted>>

(* The gate passes, is skipped, or refuses; its result is recorded on the  *)
(* way into `verifying` before it is acted on.                             *)
Gate(w) ==
    /\ pc[w] = "gate"
    /\ \/ Advance(w, run[w], "verifying", "verified", call[w])
       \/ /\ HasGate
          /\ \E e \in {"PRESETTLE_TX_MISMATCH", "PRESETTLE_QUOTE_WINDOW"} :
                Advance(w, run[w], "verifying", "refused", [call[w] EXCEPT !.err = e])
    /\ UNCHANGED <<network, world, counted>>

GateRefused(w) ==
    /\ pc[w] = "refused"
    /\ IF run[w].src THEN HoldAndStop(w, run[w], call[w].err, call[w].err)
       ELSE Die(w, run[w], call[w].err)
    /\ UNCHANGED <<network, world, counted>>

(* Between the gate and the submit: a dry run stops, an expired quote is   *)
(* not settled, anything else enters `settling`.                           *)
EnterSettling(w) ==
    /\ pc[w] = "verified"
    /\ IF call[w].dry THEN Die(w, run[w], "DRY_RUN_COMPLETE")
       ELSE IF expired THEN QuoteExpired(w, run[w])
       ELSE Advance(w, run[w], "settling",
                    IF HasFindExisting /\ run[w].instr = "stellar_payment"
                    THEN "find" ELSE "submit", call[w])
    /\ UNCHANGED <<network, world, counted>>

(* submitter.findExisting: a payment that landed may still be missed, the  *)
(* ledger's history being read with a lag and one page at a time.          *)
FindExisting(w) ==
    /\ pc[w] = "find"
    /\ \/ Received /\ Stay /\ Goto(w, "paid") /\ UNCHANGED call
       \/ Stay /\ Goto(w, "submit") /\ UNCHANGED call
       \/ FinishFailure(w, run[w], "SETTLEMENT_FAILED", FALSE)
    /\ UNCHANGED <<network, world, counted>>

-----------------------------------------------------------------------------
(* Settlement *)

(* Mutant of SettleFailed: an ambiguous submit is retried too. *)
SettleFailedRetriesAll(w, e, retryable) ==
    IF ~call[w].resumed /\ call[w].attempt < MaxRetries
    THEN Advance(w, run[w], "retrying", "loop", [call[w] EXCEPT !.attempt = @ + 1])
    ELSE FinishFailure(w, run[w], e, FALSE)

(* A failed settle(): recover() retries it only if it is retryable, which  *)
(* submitters report only when nothing can have been sent; a resumed run   *)
(* never retries.                                                          *)
SettleFailed(w, e, retryable) ==
    IF ~call[w].resumed /\ retryable /\ call[w].attempt < MaxRetries
    THEN Advance(w, run[w], "retrying", "loop",
                 [call[w] EXCEPT !.attempt = @ + 1])
    ELSE FinishFailure(w, run[w], e, FALSE)

Envelope(w) == <<w, call[w].attempt>>

(* Mutant of Submit: the envelope carries no time bound. *)
SubmitWithoutTimebounds(w) ==
    /\ pc[w] = "submit"
    /\ pay' = [pay EXCEPT ![Envelope(w)] = "unbounded"]
    /\ Goto(w, "confirm")
    /\ UNCHANGED <<stored, call, anchor, deposit, refunds, world, counted>>

(* submitter.submit puts an envelope on the wire, valid until the firm     *)
(* quote expires; the request a resumed run builds has no such limit.  An  *)
(* adapter-settled transaction is confirmed by the anchor instead.         *)
Submit(w) ==
    /\ pc[w] = "submit"
    /\ IF run[w].instr = "adapter_settled"
       THEN pay' = [pay EXCEPT ![Envelope(w)] = "offchain"] /\ Goto(w, "paid")
       ELSE /\ pay' = [pay EXCEPT ![Envelope(w)] =
                          IF ~call[w].resumed THEN "bounded" ELSE "unbounded"]
            /\ Goto(w, "confirm")
    /\ UNCHANGED <<stored, call, anchor, deposit, refunds, world, counted>>

(* The submit fails before anything is sent. *)
SubmitRejected(w) ==
    /\ pc[w] = "submit"
    /\ \E retryable \in BOOLEAN : SettleFailed(w, "SETTLEMENT_FAILED", retryable)
    /\ UNCHANGED <<network, world, counted>>

(* The answer to a submit: the ledger applied it; the ledger refused it,   *)
(* which may be retried; or it is still unknown when the wait is over.     *)
SubmitAnswered(w) ==
    /\ pc[w] = "confirm"
    /\ \/ pay[Envelope(w)] = "applied" /\ Stay /\ Goto(w, "paid") /\ UNCHANGED call
       \/ /\ pay[Envelope(w)] = "dead"
          /\ \E retryable \in BOOLEAN : SettleFailed(w, "SETTLEMENT_FAILED", retryable)
       \/ SettleFailed(w, "SETTLEMENT_TIMEOUT", FALSE)
    /\ UNCHANGED <<network, world, counted>>

MarkSettled(w) ==
    /\ pc[w] = "paid"
    /\ Advance(w, [run[w] EXCEPT !.ref = RefKind(run[w])], "settled", "verify", call[w])
    /\ UNCHANGED <<network, world, counted>>

(* verifyOnChain, a no-op for an adapter's settlement and when no verifier *)
(* is configured.  A resumed run is always held when the chain disagrees.  *)
VerifyOnChain(w) ==
    /\ pc[w] = "verify"
    /\ \/ Stay /\ Goto(w, "reconcile") /\ UNCHANGED call
       \/ /\ run[w].ref = "stellar"
          /\ IF call[w].resumed
             THEN HoldAndStop(w, run[w], "RECONCILE_MISMATCH", "RECONCILE_MISMATCH")
             ELSE FinishFailure(w, run[w], "RECONCILE_MISMATCH", FALSE)
    /\ UNCHANGED <<network, world, counted>>

(* Mutant of Reconcile: a terminal failure is read as settled. *)
ReconcileAnyTerminal(w) ==
    /\ pc[w] = "reconcile"
    /\ anchor \in {"completed", "failed", "refunded", "partial"}
    /\ Advance(w, run[w], "reconciled", "complete", call[w])
    /\ UNCHANGED <<network, world, counted>>

(* Mutant of Reconcile: the polls have no deadline and no stall budget. *)
ReconcileForever(w) ==
    /\ pc[w] = "reconcile"
    /\ \/ anchor = "completed" /\ Advance(w, run[w], "reconciled", "complete", call[w])
       \/ /\ anchor \in {"failed", "refunded", "partial"}
          /\ FinishFailure(w, run[w], "RECONCILE_MISMATCH", TRUE)
    /\ UNCHANGED <<network, world, counted>>

(* reconcileUntil: the anchor reports success or a terminal failure, the   *)
(* polls stall or time out, or every poll fails until the deadline and the *)
(* anchor's own error is what comes back.                                  *)
Reconcile(w) ==
    /\ pc[w] = "reconcile"
    /\ \/ anchor = "completed" /\ Advance(w, run[w], "reconciled", "complete", call[w])
       \/ /\ anchor \in {"failed", "refunded", "partial"}
          /\ FinishFailure(w, run[w], "RECONCILE_MISMATCH", TRUE)
       \/ \E e \in {"RECONCILE_STALLED", "ANCHOR_UNAVAILABLE"} :
             FinishFailure(w, run[w], e, FALSE)
    /\ UNCHANGED <<network, world, counted>>

Complete(w) ==
    /\ pc[w] = "complete"
    /\ Advance(w, run[w], "completed", "record", [call[w] EXCEPT !.cause = "none"])
    /\ UNCHANGED <<network, world, counted>>

-----------------------------------------------------------------------------
(* A resumed run *)

ManifestChanged(w) ==
    run[w].man # call[w].man /\ run[w].state \notin {"settled", "reconciled"}

(* Mutant of ResumeRefused: a refused route fails the run wherever it is. *)
ResumeRefusedAlwaysFails(w) ==
    /\ pc[w] = "resume"
    /\ Die(w, run[w], "ROUTE_REFUSED")
    /\ UNCHANGED <<network, world, counted>>

(* The route is refused: only a run that cannot have moved money is failed.*)
(* A run in funding whose sending adapter is gone is a conflict too.       *)
ResumeRefused(w) ==
    /\ pc[w] = "resume"
    /\ IF run[w].state \in BeforeOpen THEN Die(w, run[w], "ROUTE_REFUSED") ELSE Return(w)
    /\ UNCHANGED <<network, world, counted>>

(* The manifest changed, or the run never opened a transaction. *)
ResumeFails(w) ==
    /\ pc[w] = "resume"
    /\ \/ ManifestChanged(w) /\ Die(w, run[w], "MANIFEST_CHANGED")
       \/ /\ ~ManifestChanged(w) /\ run[w].state \in BeforeOpen
          /\ Die(w, run[w], "IDEMPOTENCY_CONFLICT")
    /\ UNCHANGED <<network, world, counted>>

(* A settlement that is recorded is verified and waited for. *)
ResumeSettled(w) ==
    run[w].state = "settled" /\ Goto(w, "verify") /\ UNCHANGED call

(* Back to the step the stored state stands before. *)
ResumeAt(w) ==
    /\ pc[w] = "resume" /\ ~ManifestChanged(w)
    /\ \/ /\ run[w].state = "funding"
          /\ call' = [call EXCEPT ![w].next = "unsettled"]
          /\ Goto(w, IF run[w].src THEN "await_deposit" ELSE "deposit")
       \/ /\ run[w].state \in {"opened", "funded", "retrying", "verifying", "settling"}
          /\ Goto(w, "unsettled") /\ UNCHANGED call
       \/ ResumeSettled(w)
       \/ run[w].state = "reconciled" /\ Goto(w, "complete") /\ UNCHANGED call
    /\ Stay
    /\ UNCHANGED <<network, world, counted>>

(* Mutant of ResumeRecovery: the refund is requested again. *)
ResumeRecoveryAsksAgain(w) ==
    /\ pc[w] = "resume" /\ ~ManifestChanged(w)
    /\ run[w].state = "recovering"
    /\ Stay /\ Goto(w, "refund") /\ UNCHANGED call
    /\ UNCHANGED <<network, world, counted>>

(* A run in recovery: a refund already requested is recorded, any other is *)
(* waited for; resumeRun never asks the submitter for one.  The breaker is *)
(* to judge the failure that was stored, not what follows.                 *)
ResumeRecovery(w) ==
    /\ pc[w] = "resume" /\ ~ManifestChanged(w)
    /\ run[w].state \in {"recovering", "refund_pending"}
    /\ LET c == [call[w] EXCEPT !.cause =
                    recoveredBreakerCause(run[w].err, "RECONCILE_MISMATCH")] IN
       IF hasRequestedRefund(run[w]) THEN Advance(w, run[w], "refunded", "record", c)
       ELSE IF run[w].state = "recovering"
       THEN Advance(w, run[w], "refund_pending", "watch", c)
       ELSE Stay /\ call' = [call EXCEPT ![w] = c] /\ Goto(w, "watch")
    /\ UNCHANGED <<network, world, counted>>

(* A run stored before `settled`: a gate cannot be run again, and only a   *)
(* submitter that can look the payment up is trusted to go on.             *)
ResumeUnsettled(w) ==
    /\ pc[w] = "unsettled"
    /\ IF (run[w].state = "funded" /\ HasGate) \/ run[w].instr = "adapter_settled"
       THEN Return(w)
       ELSE IF run[w].state = "funded" /\ expired
       THEN HoldAndStop(w, run[w], "QUOTE_EXPIRED", "QUOTE_EXPIRED")
       ELSE IF ~HasFindExisting THEN Return(w)
       ELSE Stay /\ Goto(w, "lookup") /\ UNCHANGED call
    /\ UNCHANGED <<network, world, counted>>

(* findExisting on resume.  A miss in `settling` stays a conflict: the     *)
(* payment may still be in flight.  A miss may also find that the public   *)
(* network takes no route without attestation.                             *)
LookupFound(w) ==
    /\ pc[w] = "lookup"
    /\ Received
    /\ IF Prefunded \/ run[w].src
       THEN Stay /\ call' = [call EXCEPT ![w].found = TRUE] /\ Goto(w, "enter")
       ELSE Return(w)
    /\ UNCHANGED <<network, world, counted>>

LookupMissed(w) ==
    /\ pc[w] = "lookup"
    /\ IF run[w].state = "settling" THEN Return(w)
       ELSE IF expired THEN Die(w, run[w], "QUOTE_EXPIRED")
       ELSE \/ Die(w, run[w], "MANIFEST_INVALID")
            \/ HasGate /\ Return(w)
            \/ ~HasGate /\ Stay /\ Goto(w, "recomply") /\ UNCHANGED call
    /\ UNCHANGED <<network, world, counted>>

LookupFails(w) ==
    /\ pc[w] = "lookup"
    /\ Return(w)
    /\ UNCHANGED <<network, world, counted>>

(* Compliance again, then the source funding the run still lacks, which    *)
(* takes a sending adapter and a run that is no further than `opened`.     *)
ResumeComply(w) ==
    /\ pc[w] = "recomply"
    /\ \/ Die(w, run[w], "KYC_REJECTED")
       \/ /\ Prefunded \/ run[w].src
          /\ Stay /\ Goto(w, "ready") /\ UNCHANGED call
       \/ /\ ~(Prefunded \/ run[w].src)
          /\ \/ Return(w)
             \/ /\ run[w].state = "opened"
                /\ Advance(w, run[w], "funding", "deposit", [call[w] EXCEPT !.next = "ready"])
    /\ UNCHANGED <<network, world, counted>>

ResumeReady(w) ==
    /\ pc[w] = "ready"
    /\ IF expired THEN QuoteExpired(w, run[w])
       ELSE Stay /\ Goto(w, "enter") /\ UNCHANGED call
    /\ UNCHANGED <<network, world, counted>>

(* enterSettling: the legal path up to `settling`, one put at a time. *)
ResumeEnter(w) ==
    /\ pc[w] = "enter"
    /\ \/ /\ run[w].state \in {"opened", "funded", "retrying"}
          /\ Advance(w, run[w], "verifying", "enter", call[w])
       \/ run[w].state = "verifying" /\ Advance(w, run[w], "settling", "enter", call[w])
       \/ /\ run[w].state = "settling"
          /\ Stay /\ Goto(w, IF call[w].found THEN "paid" ELSE "submit") /\ UNCHANGED call
    /\ UNCHANGED <<network, world, counted>>

-----------------------------------------------------------------------------
(* What is not the engine *)

(* A process crash, or a throw from the store or the audit sink, at any    *)
(* point between two steps; the row survives.                              *)
Crash(w) ==
    /\ Live(w)
    /\ Goto(w, "crashed")
    /\ UNCHANGED <<stored, call, network, world, counted>>

(* The network applies an envelope, within its time bounds, or drops it. *)
Land(p) ==
    /\ pay[p] = "unbounded" \/ (pay[p] = "bounded" /\ ~expired)
    /\ pay' = [pay EXCEPT ![p] = "applied"]
    /\ UNCHANGED <<stored, pc, call, anchor, deposit, refunds, world, counted>>

Drop(p) ==
    /\ pay[p] \in {"bounded", "unbounded"}
    /\ pay' = [pay EXCEPT ![p] = "dead"]
    /\ UNCHANGED <<stored, pc, call, anchor, deposit, refunds, world, counted>>

(* The receiving anchor pays out or refunds only what it received. *)
AnchorMoves ==
    /\ \/ anchor = "pending" /\ Received /\ anchor' = "completed"
       \/ anchor = "pending" /\ anchor' = "failed"
       \/ /\ anchor \in {"pending", "failed"} /\ Received
          /\ anchor' \in {"refunded", "partial"}
    /\ UNCHANGED <<stored, pc, call, pay, deposit, refunds, world, counted>>

DepositArrives ==
    /\ deposit = "opened"
    /\ deposit' = "received"
    /\ UNCHANGED <<stored, pc, call, pay, anchor, refunds, world, counted>>

QuoteExpires ==
    /\ ~expired
    /\ expired' = TRUE
    /\ UNCHANGED <<stored, pc, call, network, manifest, counted>>

EditManifest ==
    /\ ManifestMayChange /\ manifest = 0
    /\ manifest' = 1
    /\ UNCHANGED <<stored, pc, call, network, expired, counted>>

-----------------------------------------------------------------------------
Init ==
    /\ row = NoRun
    /\ pc = [w \in Worker |-> "idle"]
    /\ run = [w \in Worker |-> NoRun]
    /\ call = [w \in Worker |->
                 [resumed |-> FALSE, dry |-> FALSE, man |-> 0, attempt |-> 0,
                  next |-> "loop", err |-> "none", cause |-> "none",
                  term |-> FALSE, found |-> FALSE]]
    /\ pay = [p \in Envelopes |-> "none"]
    /\ anchor = "none"
    /\ deposit = "none"
    /\ expired = FALSE
    /\ manifest = 0
    /\ refunds = 0
    /\ counted = [success |-> 0, failure |-> 0]

Fresh(w) ==
    \/ Claim(w) \/ SetupFails(w) \/ Quote(w) \/ Comply(w) \/ Open(w)
    \/ EnterFunding(w) \/ OpenDeposit(w) \/ RecordDeposit(w) \/ AwaitDeposit(w)
    \/ LoopHead(w) \/ Gate(w) \/ GateRefused(w) \/ EnterSettling(w) \/ FindExisting(w)

Settling(w) ==
    \/ Submit(w) \/ SubmitRejected(w) \/ SubmitAnswered(w) \/ MarkSettled(w)
    \/ VerifyOnChain(w) \/ Reconcile(w) \/ Complete(w)

Resuming(w) ==
    \/ ResumeRefused(w) \/ ResumeFails(w) \/ ResumeAt(w) \/ ResumeRecovery(w)
    \/ ResumeUnsettled(w) \/ LookupFound(w) \/ LookupMissed(w) \/ LookupFails(w)
    \/ ResumeComply(w) \/ ResumeReady(w) \/ ResumeEnter(w)

Failing(w) ==
    \/ Hold(w) \/ RefundAnchor(w) \/ RefundByOperator(w) \/ RefundOnChain(w)
    \/ RefundNothing(w) \/ Refunded(w) \/ WatchRefund(w) \/ RecordOutcome(w)

Step(w) == Fresh(w) \/ Settling(w) \/ Resuming(w) \/ Failing(w)

Environment ==
    \/ \E p \in Envelopes : Land(p) \/ Drop(p)
    \/ AnchorMoves \/ DepositArrives \/ QuoteExpires \/ EditManifest

Next ==
    \/ \E w \in Worker : Step(w) \/ Crash(w) \/ \E dry \in BOOLEAN : Start(w, dry)
    \/ Environment

Spec == Init /\ [][Next]_vars

(* Every step of a call is the continuation of an await that the runtime   *)
(* resolves: polls end at a deadline and ports answer or time out.  No     *)
(* fairness for callers, crashes, the network or the anchors.              *)
FairSpec == Spec /\ \A w \in Worker : WF_vars(Step(w))

-----------------------------------------------------------------------------
(* Properties *)

TypeOK ==
    /\ row \in Runs /\ run \in [Worker -> Runs]
    /\ pc \in [Worker -> Places]
    /\ call \in [Worker -> Calls]
    /\ pay \in [Envelopes -> PayStates]
    /\ anchor \in {"none", "pending", "completed", "failed", "refunded", "partial"}
    /\ deposit \in {"none", "opened", "received"}
    /\ expired \in BOOLEAN /\ manifest \in {0, 1}
    /\ refunds \in Nat
    /\ counted \in [{"success", "failure"} -> Nat]

(* Two envelopes that may both move money. *)
MayMove(p) == pay[p] \in {"bounded", "unbounded", "applied", "offchain"}

(* The same idempotency key never settles twice (idempotency.ts:1): at any *)
(* moment at most one envelope has moved money or still can.               *)
NoDoublePayment == \A p, q \in Envelopes : MayMove(p) /\ MayMove(q) => p = q

(* A live call always works on the stored row: its copy has the row's      *)
(* state and version, up to the write it is about to make, so no put is    *)
(* ever dropped by the version guard and no resume starts from a stale     *)
(* snapshot.                                                               *)
Synced ==
    \A w \in Worker : Live(w) /\ pc[w] # "claim" =>
        run[w].state = row.state /\ run[w].version = row.version

(* A refund is asked of the submitter at most once, whatever crashes and   *)
(* resumes happen between the request and its record (idempotency.ts:97).  *)
RefundAtMostOnce == refunds <= 1

(* A run is counted by the circuit breaker at most once (run.ts:232).      *)
CountedOnce == counted.success + counted.failure <= 1

(* `failed` means that nothing was sent and nothing can still land         *)
(* (run.ts:749).                                                           *)
FailedMeansNotSent == row.state = "failed" => \A p \in Envelopes : ~MayMove(p)

(* `completed` is only ever recorded with the payment on the chain and the *)
(* payout confirmed by the anchor.                                         *)
CompletedMeansPaidOut ==
    row.state = "completed" => Received /\ anchor = "completed"

(* A payout that is recorded stays recorded: no other call with the key,   *)
(* ahead of the one that completed or behind it, writes over a completed   *)
(* row (idempotency-pg.ts:321-325, "a stale writer ... is silently         *)
(* ignored").  The version alone does not say so: each call counts its own *)
(* moves, and held, refunded and failed rows are written over.             *)
CompletedIsFinal == [][row.state = "completed" => row' = row]_row

(* No envelope of a firm quote lands after the quote expired (ports.ts:32).*)
NothingLandsAfterExpiry ==
    [][expired => \A p \in Envelopes : pay[p] # "applied" => pay'[p] # "applied"]_pay

(* The stored row walks the state table, one legal move at a time.         *)
LC == INSTANCE Lifecycle WITH state <- row.state
Lifecycle == LC!Spec

(* Every call that does not crash returns to its caller.                   *)
EveryCallReturns == \A w \in Worker : Live(w) ~> ~Live(w)

=============================================================================
