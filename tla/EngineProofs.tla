---------------------------- MODULE EngineProofs ----------------------------
(***************************************************************************)
(* Theorems about Engine.tla, for every number of calls, every rollback    *)
(* policy, every retry bound, with and without a gate, with and without    *)
(* source funding: first what holds of calls that overlap (the types, the  *)
(* versions of the row, and that a run behind a gate pays once), then what *)
(* needs the calls with one key to follow one another.                     *)
(***************************************************************************)
EXTENDS Engine, TLAPS

-----------------------------------------------------------------------------
(* Type correctness *)

(* The part of TypeOK that a step of a call may change by moving the run.  *)
LocalOK ==
    /\ row \in Runs /\ run \in [Worker -> Runs]
    /\ pc \in [Worker -> Places] /\ call \in [Worker -> Calls]

LEMMA TableTyped ==
    ASSUME NEW s, NEW t, canTransition(s, t)
    PROVE  s \in ALL_STATES /\ t \in ALL_STATES \ {"created"}
BY SMT DEF canTransition, NextStates, ALL_STATES

LEMMA PutTyped ==
    ASSUME TypeOK, NEW w \in Worker, NEW r \in Runs, Put(w, r)
    PROVE  row' \in Runs /\ run' \in [Worker -> Runs]
<1>1. row \in Runs /\ run \in [Worker -> Runs]
  BY DEF TypeOK
<1>2. (row.src \/ r.src) \in BOOLEAN /\ (row.refund \/ r.refund) \in BOOLEAN
  OBVIOUS
<1>3. row.ref \in {"none", "stellar", "adapter"} /\ row.man \in {0, 1}
  BY <1>1 DEF Runs
<1>4. Stored(r) \in Runs
  <2>1. CASE ~Versioned
    BY <1>1, <1>2, <2>1, Zenon DEF Stored, Runs
  <2>2. CASE Versioned /\ row.version >= r.version
    BY <1>1, <2>2 DEF Stored
  <2>3. CASE Versioned /\ ~(row.version >= r.version)
    <3>1. \A a, b \in BOOLEAN, k \in {"none", "stellar", "adapter"}, m \in {0, 1} :
             [r EXCEPT !.src = a, !.refund = b, !.ref = k, !.man = m] \in Runs
      BY Zenon DEF Runs
    <3>2. (IF r.ref # "none" THEN r.ref ELSE row.ref) \in {"none", "stellar", "adapter"}
      BY <1>3 DEF Runs
    <3>3. QED
      BY <1>2, <1>3, <2>3, <3>1, <3>2 DEF Stored
  <2>4. QED
    BY <2>1, <2>2, <2>3
<1>5. QED
  BY <1>1, <1>4 DEF Put

LEMMA MovedTyped ==
    ASSUME NEW r \in Runs, NEW s \in ALL_STATES
    PROVE  Moved(r, s) \in Runs
<1>1. r.version + 1 \in Nat
  BY DEF Runs
<1>2. \A n \in Nat : [r EXCEPT !.state = s, !.version = n] \in Runs
  BY Zenon DEF Runs
<1>3. QED
  BY <1>1, <1>2 DEF Moved

LEMMA NextVersion ==
    ASSUME NEW r \in Runs
    PROVE  /\ [r EXCEPT !.version = @ + 1] \in Runs
           /\ [r EXCEPT !.version = @ + 1].state = r.state
           /\ [r EXCEPT !.version = @ + 1].version = r.version + 1
<1>1. r.version + 1 \in Nat
  BY DEF Runs
<1>2. \A n \in Nat : [r EXCEPT !.version = n] \in Runs
  BY Zenon DEF Runs
<1>3. QED
  BY <1>1, <1>2 DEF Runs

LEMMA ErrTyped ==
    ASSUME NEW r \in Runs, NEW e \in Codes
    PROVE  [r EXCEPT !.err = e] \in Runs
BY Zenon DEF Runs

LEMMA GotoTyped ==
    ASSUME TypeOK, NEW w \in Worker, NEW p \in Places, Goto(w, p)
    PROVE  pc' \in [Worker -> Places]
BY DEF TypeOK, Goto

LEMMA CallTyped ==
    ASSUME TypeOK, NEW w \in Worker, NEW c \in Calls, call' = [call EXCEPT ![w] = c]
    PROVE  call' \in [Worker -> Calls]
BY DEF TypeOK

LEMMA CauseTyped ==
    ASSUME NEW c \in Calls, NEW e \in Codes
    PROVE  [c EXCEPT !.cause = e] \in Calls
BY Zenon DEF Calls

LEMMA StayTyped ==
    ASSUME TypeOK, Stay
    PROVE  row' \in Runs /\ run' \in [Worker -> Runs]
BY DEF TypeOK, Stay, stored

LEMMA DieTyped ==
    ASSUME TypeOK, NEW w \in Worker, NEW r \in Runs, NEW e \in Codes, Die(w, r, e)
    PROVE  LocalOK'
<1>1. CASE canTransition(r.state, "failed")
  <2>1. [Moved(r, "failed") EXCEPT !.err = e] \in Runs
    BY MovedTyped, ErrTyped DEF ALL_STATES
  <2>2. row' \in Runs /\ run' \in [Worker -> Runs]
    BY <1>1, <2>1, PutTyped DEF Die
  <2>3. pc' \in [Worker -> Places]
    BY <1>1, GotoTyped DEF Die, Places
  <2>4. [call[w] EXCEPT !.cause = e] \in Calls
    BY CauseTyped DEF TypeOK
  <2>5. call' = [call EXCEPT ![w] = [call[w] EXCEPT !.cause = e]]
    BY <1>1, Zenon DEF Die
  <2>6. QED
    BY <2>2, <2>3, <2>4, <2>5, CallTyped DEF LocalOK
<1>2. CASE ~canTransition(r.state, "failed")
  BY <1>2, StayTyped, GotoTyped DEF Die, LocalOK, TypeOK, Places
<1>3. QED
  BY <1>1, <1>2

LEMMA AdvanceTyped ==
    ASSUME TypeOK, NEW w \in Worker, NEW r \in Runs, NEW to, NEW next \in Places,
           NEW c \in Calls, Advance(w, r, to, next, c)
    PROVE  LocalOK'
<1>1. CASE canTransition(r.state, to)
  <2>1. to \in ALL_STATES
    BY <1>1, TableTyped
  <2>2. row' \in Runs /\ run' \in [Worker -> Runs]
    BY <1>1, <2>1, MovedTyped, PutTyped DEF Advance
  <2>3. QED
    BY <1>1, <2>2, GotoTyped, CallTyped DEF Advance, LocalOK
<1>2. CASE ~canTransition(r.state, to)
  BY <1>2, DieTyped DEF Advance, Codes, LaneFailureCodes
<1>3. QED
  BY <1>1, <1>2

LEMMA RecoveringTyped ==
    ASSUME TypeOK, NEW w \in Worker, NEW e \in Codes, NEW cause \in Codes,
           NEW term \in BOOLEAN
    PROVE  Recovering(w, e, cause, term) \in Calls
<1>1. call[w] \in Calls
  BY DEF TypeOK
<1>2. \A c \in Calls :
         [c EXCEPT !.err = e, !.cause = cause, !.term = term] \in Calls
  BY Zenon DEF Calls
<1>3. QED
  BY <1>1, <1>2 DEF Recovering

LEMMA HoldAndStopTyped ==
    ASSUME TypeOK, NEW w \in Worker, NEW r \in Runs, NEW e \in Codes,
           NEW cause \in Codes, HoldAndStop(w, r, e, cause)
    PROVE  LocalOK'
<1>1. Recovering(w, e, cause, FALSE) \in Calls
  BY RecoveringTyped
<1>2. CASE r.state \in {"recovering", "refund_pending"}
  BY <1>1, <1>2, StayTyped, GotoTyped, CallTyped DEF HoldAndStop, LocalOK, Places
<1>3. CASE r.state \notin {"recovering", "refund_pending"}
  BY <1>1, <1>3, AdvanceTyped DEF HoldAndStop, Places
<1>4. QED
  BY <1>2, <1>3

LEMMA FinishFailureTyped ==
    ASSUME TypeOK, NEW w \in Worker, NEW r \in Runs, NEW e \in Codes,
           NEW term \in BOOLEAN, FinishFailure(w, r, e, term)
    PROVE  LocalOK'
<1>1. Recovering(w, e, e, term) \in Calls
  BY RecoveringTyped
<1>2. CASE Rollback = "refund_sender"
  BY <1>1, <1>2, AdvanceTyped DEF FinishFailure, Places
<1>3. CASE Rollback = "hold"
  BY <1>3, HoldAndStopTyped DEF FinishFailure
<1>4. CASE Rollback \notin {"refund_sender", "hold"}
  BY <1>4, DieTyped DEF FinishFailure
<1>5. QED
  BY <1>2, <1>3, <1>4

LEMMA FrameTyped ==
    ASSUME TypeOK, LocalOK', UNCHANGED <<network, world, counted>>
    PROVE  TypeOK'
BY DEF TypeOK, LocalOK, network, world

LEMMA LocalsTyped ==
    ASSUME TypeOK, NEW w \in Worker
    PROVE  /\ run[w] \in Runs /\ call[w] \in Calls
           /\ call[w].err \in Codes /\ call[w].cause \in Codes
           /\ call[w].term \in BOOLEAN /\ call[w].next \in Places
           /\ [run[w] EXCEPT !.err = call[w].err] \in Runs
<1>1. run[w] \in Runs /\ call[w] \in Calls
  BY DEF TypeOK
<1>2. /\ call[w].err \in Codes /\ call[w].cause \in Codes
      /\ call[w].term \in BOOLEAN /\ call[w].next \in Places
  BY <1>1 DEF Calls, Places
<1>3. QED
  BY <1>1, <1>2, ErrTyped

LEMMA RefundTyped ==
    ASSUME NEW r \in Runs, NEW b \in BOOLEAN
    PROVE  [r EXCEPT !.refund = b] \in Runs
BY Zenon DEF Runs

LEMMA FailingTyped ==
    ASSUME TypeOK, NEW w \in Worker, Failing(w)
    PROVE  TypeOK'
<1> USE LocalsTyped
<1>1. CASE Hold(w)
  BY <1>1, AdvanceTyped, FrameTyped DEF Hold, Places
<1>2. CASE RefundAnchor(w)
  BY <1>2, AdvanceTyped, FrameTyped DEF RefundAnchor, Places
<1>3. CASE RefundByOperator(w)
  BY <1>3, HoldAndStopTyped, FrameTyped DEF RefundByOperator, Codes, NeutralCodes
<1>4. CASE RefundOnChain(w)
  <2>1. CASE HoldAndStop(w, run[w], "REFUND_UNSUPPORTED", call[w].err) /\ UNCHANGED network
    BY <1>4, <2>1, HoldAndStopTyped, FrameTyped DEF RefundOnChain, Codes, NeutralCodes
  <2>2. CASE /\ refunds' = refunds + 1
             /\ run' = [run EXCEPT ![w].refund = TRUE]
             /\ Goto(w, "refunded")
             /\ UNCHANGED <<row, call, pay, anchor, deposit>>
    <3>1. [run[w] EXCEPT !.refund = TRUE] \in Runs
      BY RefundTyped
    <3>2. run' \in [Worker -> Runs]
      BY <2>2, <3>1, Zenon DEF TypeOK
    <3>3. pc' \in [Worker -> Places]
      BY <2>2, GotoTyped DEF Places
    <3>4. QED
      BY <1>4, <2>2, <3>2, <3>3 DEF RefundOnChain, TypeOK, world
  <2>3. QED
    BY <1>4, <2>1, <2>2 DEF RefundOnChain
<1>5. CASE RefundNothing(w)
  BY <1>5, StayTyped, GotoTyped, FrameTyped DEF RefundNothing, LocalOK, TypeOK, Places
<1>6. CASE Refunded(w)
  BY <1>6, AdvanceTyped, FrameTyped DEF Refunded, Places
<1>7. CASE WatchRefund(w)
  <2>1. ASSUME NEW listed \in BOOLEAN,
               Advance(w, [run[w] EXCEPT !.refund = @ \/ listed,
                                         !.err = IF call[w].resumed THEN "none" ELSE @],
                       "refunded", "record", call[w])
        PROVE  LocalOK'
    <3>1. [run[w] EXCEPT !.refund = @ \/ listed,
                         !.err = IF call[w].resumed THEN "none" ELSE @] \in Runs
      <4>1. "none" \in Codes
        BY DEF Codes
      <4>2. \A b \in BOOLEAN, e \in Codes :
               [run[w] EXCEPT !.refund = b, !.err = e] \in Runs
        BY Zenon DEF Runs
      <4>3. run[w].err \in Codes
        BY DEF Runs
      <4>4. QED
        BY <4>1, <4>2, <4>3
    <3>2. QED
      BY <2>1, <3>1, AdvanceTyped DEF Places
  <2>2. LocalOK'
    BY <1>7, <2>1, HoldAndStopTyped DEF WatchRefund, Codes, LaneFailureCodes
  <2>3. QED
    BY <1>7, <2>2, FrameTyped DEF WatchRefund
<1>8. CASE RecordOutcome(w)
  <2>1. counted' \in [{"success", "failure"} -> Nat]
    <3>1. DOMAIN counted = {"success", "failure"}
      BY DEF TypeOK
    <3>2. \A k \in {"success", "failure"} : counted[k] \in Nat /\ counted[k] + 1 \in Nat /\ counted[k] + 0 \in Nat
      BY DEF TypeOK
    <3>3. QED
      BY <1>8, <3>1, <3>2 DEF RecordOutcome
  <2>2. QED
    BY <1>8, <2>1, GotoTyped DEF RecordOutcome, TypeOK, Places, stored, network, world
<1>9. QED
  BY <1>1, <1>2, <1>3, <1>4, <1>5, <1>6, <1>7, <1>8 DEF Failing

LEMMA QuoteExpiredTyped ==
    ASSUME TypeOK, NEW w \in Worker, NEW r \in Runs, QuoteExpired(w, r)
    PROVE  LocalOK'
BY HoldAndStopTyped, FinishFailureTyped DEF QuoteExpired, Codes, NeutralCodes

LEMMA ReturnTyped ==
    ASSUME TypeOK, NEW w \in Worker, Return(w)
    PROVE  LocalOK'
BY StayTyped, GotoTyped DEF Return, LocalOK, TypeOK, Places

(* A step that only moves on to p. *)
LEMMA GoOnTyped ==
    ASSUME TypeOK, NEW w \in Worker, NEW p \in Places, Stay, Goto(w, p), UNCHANGED call
    PROVE  LocalOK'
BY StayTyped, GotoTyped DEF LocalOK, TypeOK

LEMMA FreshTyped ==
    ASSUME TypeOK, NEW w \in Worker, Fresh(w)
    PROVE  TypeOK'
<1> USE LocalsTyped
<1>1. CASE Claim(w)
  <2>1. call[w].man \in {0, 1}
    BY DEF Calls
  <2>2. [NoRun EXCEPT !.state = "created", !.man = call[w].man] \in Runs
    BY <2>1 DEF NoRun, Runs, ALL_STATES, Codes
  <2>3. CASE row.state = "none"
    BY <1>1, <2>2, <2>3, GotoTyped, FrameTyped DEF Claim, LocalOK, TypeOK, Places
  <2>4. CASE row.state # "none"
    BY <1>1, <2>4, ReturnTyped, FrameTyped DEF Claim
  <2>5. QED
    BY <2>3, <2>4
<1>2. CASE SetupFails(w)
  BY <1>2, DieTyped, FrameTyped DEF SetupFails, Codes, LaneFailureCodes, NeutralCodes
<1>3. CASE Quote(w)
  BY <1>3, AdvanceTyped, FrameTyped DEF Quote, Places
<1>4. CASE Comply(w)
  BY <1>4, AdvanceTyped, FrameTyped DEF Comply, Places
<1>5. CASE Open(w)
  <2>1. PICK kind \in Instructions :
           Advance(w, [run[w] EXCEPT !.instr = kind], "opened", "opened", call[w])
    BY <1>5 DEF Open
  <2>2. [run[w] EXCEPT !.instr = kind] \in Runs
    BY Zenon DEF Runs
  <2>3. LocalOK'
    BY <2>1, <2>2, AdvanceTyped DEF Places
  <2>4. QED
    BY <1>5, <2>3 DEF Open, LocalOK, TypeOK, world
<1>6. CASE EnterFunding(w)
  <2>1. [call[w] EXCEPT !.next = "loop"] \in Calls
    BY Zenon DEF Calls
  <2>2. QED
    BY <1>6, <2>1, GoOnTyped, DieTyped, AdvanceTyped, FrameTyped
    DEF EnterFunding, Places, Codes, NeutralCodes
<1>7. CASE OpenDeposit(w)
  <2>1. CASE FinishFailure(w, run[w], "ANCHOR_UNAVAILABLE", FALSE) /\ UNCHANGED network
    BY <1>7, <2>1, FinishFailureTyped, FrameTyped DEF OpenDeposit, Codes, NeutralCodes
  <2>2. CASE /\ deposit' = IF deposit = "none" THEN "opened" ELSE deposit
             /\ run' = [run EXCEPT ![w].src = TRUE]
             /\ Goto(w, "deposited")
             /\ UNCHANGED <<row, call, pay, anchor, refunds>>
    <3>1. [run[w] EXCEPT !.src = TRUE] \in Runs
      BY Zenon DEF Runs
    <3>2. run' \in [Worker -> Runs]
      BY <2>2, <3>1, Zenon DEF TypeOK
    <3>3. pc' \in [Worker -> Places]
      BY <2>2, GotoTyped DEF Places
    <3>4. QED
      BY <1>7, <2>2, <3>2, <3>3 DEF OpenDeposit, TypeOK, world
  <2>3. QED
    BY <1>7, <2>1, <2>2 DEF OpenDeposit
<1>8. CASE RecordDeposit(w)
  <2>1. [run[w] EXCEPT !.version = @ + 1] \in Runs
    BY NextVersion
  <2>2. QED
    BY <1>8, <2>1, PutTyped, GotoTyped, FrameTyped DEF RecordDeposit, LocalOK, TypeOK, Places
<1>9. CASE AwaitDeposit(w)
  BY <1>9, AdvanceTyped, FinishFailureTyped, FrameTyped
  DEF AwaitDeposit, Codes, LaneFailureCodes, NeutralCodes
<1>10. CASE LoopHead(w)
  BY <1>10, FinishFailureTyped, QuoteExpiredTyped, DieTyped, GoOnTyped, FrameTyped
  DEF LoopHead, Codes, LaneFailureCodes, NeutralCodes, Places
<1>11. CASE Gate(w)
  <2>1. \A e \in {"PRESETTLE_TX_MISMATCH", "PRESETTLE_QUOTE_WINDOW"} :
           [call[w] EXCEPT !.err = e] \in Calls
    BY Zenon DEF Calls, Codes, LaneFailureCodes, NeutralCodes
  <2>2. QED
    BY <1>11, <2>1, AdvanceTyped, FrameTyped DEF Gate, Places
<1>12. CASE GateRefused(w)
  BY <1>12, HoldAndStopTyped, DieTyped, FrameTyped DEF GateRefused
<1>13. CASE EnterSettling(w)
  BY <1>13, DieTyped, QuoteExpiredTyped, AdvanceTyped, FrameTyped
  DEF EnterSettling, Codes, NeutralCodes, Places
<1>14. CASE FindExisting(w)
  BY <1>14, GoOnTyped, FinishFailureTyped, FrameTyped
  DEF FindExisting, Codes, LaneFailureCodes, Places
<1>15. QED
  BY <1>1, <1>2, <1>3, <1>4, <1>5, <1>6, <1>7, <1>8, <1>9, <1>10, <1>11,
     <1>12, <1>13, <1>14 DEF Fresh

LEMMA SettleFailedTyped ==
    ASSUME TypeOK, NEW w \in Worker, NEW e \in Codes, NEW retryable,
           SettleFailed(w, e, retryable)
    PROVE  LocalOK'
<1>1. CASE ~call[w].resumed /\ retryable /\ call[w].attempt < MaxRetries
  <2>1. call[w].attempt + 1 \in 0 .. MaxRetries
    <3>1. call[w].attempt \in 0 .. MaxRetries
      BY LocalsTyped, Zenon DEF Calls
    <3>2. call[w].attempt < MaxRetries
      BY <1>1
    <3>3. QED
      BY <3>1, <3>2, EngineAssumption
  <2>2. \A n \in 0 .. MaxRetries : [call[w] EXCEPT !.attempt = n] \in Calls
    BY LocalsTyped, Zenon DEF Calls
  <2>3. [call[w] EXCEPT !.attempt = @ + 1] \in Calls
    BY <2>1, <2>2
  <2>4. QED
    BY <1>1, <2>3, AdvanceTyped, LocalsTyped DEF SettleFailed, Places
<1>2. CASE ~(~call[w].resumed /\ retryable /\ call[w].attempt < MaxRetries)
  BY <1>2, FinishFailureTyped, LocalsTyped DEF SettleFailed
<1>3. QED
  BY <1>1, <1>2

LEMMA SettlingTyped ==
    ASSUME TypeOK, NEW w \in Worker, Settling(w)
    PROVE  TypeOK'
<1> USE LocalsTyped
<1>1. CASE Submit(w)
  <2>1. pay' \in [Envelopes -> PayStates]
    BY <1>1 DEF Submit, TypeOK, PayStates
  <2>2. pc' \in [Worker -> Places]
    BY <1>1, GotoTyped DEF Submit, Places
  <2>3. QED
    BY <1>1, <2>1, <2>2 DEF Submit, TypeOK, stored, world
<1>2. CASE SubmitRejected(w)
  BY <1>2, SettleFailedTyped, FrameTyped DEF SubmitRejected, Codes, LaneFailureCodes
<1>3. CASE SubmitAnswered(w)
  BY <1>3, GoOnTyped, SettleFailedTyped, FrameTyped
  DEF SubmitAnswered, Codes, LaneFailureCodes, Places
<1>4. CASE MarkSettled(w)
  <2>1. [run[w] EXCEPT !.ref = RefKind(run[w])] \in Runs
    BY Zenon DEF Runs, RefKind
  <2>2. QED
    BY <1>4, <2>1, AdvanceTyped, FrameTyped DEF MarkSettled, Places
<1>5. CASE VerifyOnChain(w)
  BY <1>5, GoOnTyped, HoldAndStopTyped, FinishFailureTyped, FrameTyped
  DEF VerifyOnChain, Codes, LaneFailureCodes, Places
<1>6. CASE Reconcile(w)
  BY <1>6, AdvanceTyped, FinishFailureTyped, FrameTyped
  DEF Reconcile, Codes, LaneFailureCodes, NeutralCodes, Places
<1>7. CASE Complete(w)
  <2>1. [call[w] EXCEPT !.cause = "none"] \in Calls
    BY CauseTyped DEF Codes
  <2>2. QED
    BY <1>7, <2>1, AdvanceTyped, FrameTyped DEF Complete, Places
<1>8. QED
  BY <1>1, <1>2, <1>3, <1>4, <1>5, <1>6, <1>7 DEF Settling

LEMMA ResumingTyped ==
    ASSUME TypeOK, NEW w \in Worker, Resuming(w)
    PROVE  TypeOK'
<1> USE LocalsTyped
<1>1. CASE ResumeRefused(w)
  BY <1>1, DieTyped, ReturnTyped, FrameTyped DEF ResumeRefused, Codes, NeutralCodes
<1>2. CASE ResumeFails(w)
  BY <1>2, DieTyped, FrameTyped DEF ResumeFails, Codes, NeutralCodes
<1>3. CASE ResumeAt(w)
  <2>1. [call[w] EXCEPT !.next = "unsettled"] \in Calls
    BY Zenon DEF Calls
  <2>2. pc' \in [Worker -> Places] /\ call' \in [Worker -> Calls]
    <3>1. CASE /\ call' = [call EXCEPT ![w].next = "unsettled"]
               /\ Goto(w, IF run[w].src THEN "await_deposit" ELSE "deposit")
      BY <2>1, <3>1, GotoTyped, Zenon DEF Places, TypeOK
    <3>2. CASE UNCHANGED call /\ \E p \in Places : Goto(w, p)
      BY <3>2, GotoTyped DEF TypeOK
    <3>3. QED
      BY <1>3, <3>1, <3>2 DEF ResumeAt, ResumeSettled, Places
  <2>3. QED
    BY <1>3, <2>2, StayTyped, FrameTyped DEF ResumeAt, ResumeSettled, LocalOK
<1>4. CASE ResumeRecovery(w)
  <2> DEFINE c == [call[w] EXCEPT !.cause =
                      recoveredBreakerCause(run[w].err, "RECONCILE_MISMATCH")]
  <2>1. c \in Calls
    <3>1. recoveredBreakerCause(run[w].err, "RECONCILE_MISMATCH") \in Codes
      BY DEF recoveredBreakerCause, Codes, LaneFailureCodes
    <3>2. QED
      BY <3>1, CauseTyped
  <2> HIDE DEF c
  <2>2. \/ Advance(w, run[w], "refunded", "record", c)
        \/ Advance(w, run[w], "refund_pending", "watch", c)
        \/ Stay /\ call' = [call EXCEPT ![w] = c] /\ Goto(w, "watch")
    BY <1>4, Zenon DEF ResumeRecovery, c
  <2>3. LocalOK'
    BY <2>1, <2>2, AdvanceTyped, StayTyped, CallTyped, GotoTyped DEF LocalOK, Places
  <2>4. QED
    BY <1>4, <2>3, FrameTyped DEF ResumeRecovery
<1>5. CASE ResumeUnsettled(w)
  BY <1>5, ReturnTyped, HoldAndStopTyped, GoOnTyped, FrameTyped
  DEF ResumeUnsettled, Codes, NeutralCodes, Places
<1>6. CASE LookupFound(w)
  <2>1. [call[w] EXCEPT !.found = TRUE] \in Calls
    BY Zenon DEF Calls
  <2>2. CASE Stay /\ call' = [call EXCEPT ![w].found = TRUE] /\ Goto(w, "enter")
    <3>1. call' \in [Worker -> Calls]
      BY <2>1, <2>2, Zenon DEF TypeOK
    <3>2. QED
      BY <1>6, <2>2, <3>1, StayTyped, GotoTyped, FrameTyped DEF LookupFound, LocalOK, Places
  <2>3. CASE Return(w)
    BY <1>6, <2>3, ReturnTyped, FrameTyped DEF LookupFound
  <2>4. QED
    BY <1>6, <2>2, <2>3 DEF LookupFound
<1>7. CASE LookupMissed(w)
  BY <1>7, ReturnTyped, DieTyped, GoOnTyped, FrameTyped
  DEF LookupMissed, Codes, NeutralCodes, Places
<1>8. CASE LookupFails(w)
  BY <1>8, ReturnTyped, FrameTyped DEF LookupFails
<1>9. CASE ResumeComply(w)
  <2>1. [call[w] EXCEPT !.next = "ready"] \in Calls
    BY Zenon DEF Calls
  <2>2. QED
    BY <1>9, <2>1, DieTyped, GoOnTyped, AdvanceTyped, ReturnTyped, FrameTyped
    DEF ResumeComply, Codes, NeutralCodes, Places
<1>10. CASE ResumeReady(w)
  BY <1>10, QuoteExpiredTyped, GoOnTyped, FrameTyped DEF ResumeReady, Places
<1>11. CASE ResumeEnter(w)
  BY <1>11, AdvanceTyped, GoOnTyped, FrameTyped DEF ResumeEnter, Places
<1>12. QED
  BY <1>1, <1>2, <1>3, <1>4, <1>5, <1>6, <1>7, <1>8, <1>9, <1>10, <1>11 DEF Resuming

LEMMA StartTyped ==
    ASSUME TypeOK, NEW w \in Worker, NEW dry \in BOOLEAN, Start(w, dry)
    PROVE  TypeOK'
<1>1. [call[w] EXCEPT !.dry = dry, !.man = manifest, !.resumed = row.state # "none"] \in Calls
  <2>1. call[w] \in Calls /\ manifest \in {0, 1} /\ (row.state # "none") \in BOOLEAN
    BY DEF TypeOK
  <2>2. \A m \in {0, 1}, b \in BOOLEAN :
           [call[w] EXCEPT !.dry = dry, !.man = m, !.resumed = b] \in Calls
    BY <2>1, Zenon DEF Calls
  <2>3. QED
    BY <2>1, <2>2
<1>2. call' \in [Worker -> Calls]
  <2>1. call' = [call EXCEPT ![w] =
            [call[w] EXCEPT !.dry = dry, !.man = manifest, !.resumed = row.state # "none"]]
    BY Zenon DEF Start, TypeOK
  <2>2. QED
    BY <1>1, <2>1, CallTyped
<1>3. pc' \in [Worker -> Places] /\ run' \in [Worker -> Runs]
  BY GotoTyped DEF Start, TypeOK, Places
<1>4. QED
  BY <1>2, <1>3, FrameTyped DEF Start, LocalOK, TypeOK

LEMMA EnvironmentTyped ==
    ASSUME TypeOK, Environment
    PROVE  TypeOK'
<1>1. CASE \E p \in Envelopes : Land(p) \/ Drop(p)
  BY <1>1 DEF Land, Drop, TypeOK, PayStates, stored, world
<1>2. CASE AnchorMoves
  BY <1>2 DEF AnchorMoves, TypeOK, stored, world
<1>3. CASE DepositArrives
  BY <1>3 DEF DepositArrives, TypeOK, stored, world
<1>4. CASE QuoteExpires
  BY <1>4 DEF QuoteExpires, TypeOK, stored, network
<1>5. CASE EditManifest
  BY <1>5 DEF EditManifest, TypeOK, stored, network
<1>6. QED
  BY <1>1, <1>2, <1>3, <1>4, <1>5 DEF Environment

LEMMA InitTyped == Init => TypeOK
<1> SUFFICES ASSUME Init PROVE TypeOK
  OBVIOUS
<1>1. NoRun \in Runs
  BY DEF NoRun, Runs, Codes
<1>2. [resumed |-> FALSE, dry |-> FALSE, man |-> 0, attempt |-> 0,
       next |-> "loop", err |-> "none", cause |-> "none",
       term |-> FALSE, found |-> FALSE] \in Calls
  BY EngineAssumption DEF Calls, Codes
<1>3. /\ pc \in [Worker -> Places] /\ pay \in [Envelopes -> PayStates]
      /\ counted \in [{"success", "failure"} -> Nat] /\ refunds \in Nat
  BY DEF Init, Places, PayStates
<1>4. QED
  BY <1>1, <1>2, <1>3 DEF Init, TypeOK

(* No step of a call, no crash and nothing the network does takes the      *)
(* stored run, a caller's copy of it or its locals out of their types: the *)
(* attempts stay within max_retries (verbs.ts:464).                        *)
THEOREM TypeCorrect == Spec => []TypeOK
<1>1. TypeOK /\ [Next]_vars => TypeOK'
  <2> SUFFICES ASSUME TypeOK, [Next]_vars PROVE TypeOK'
    OBVIOUS
  <2>1. ASSUME NEW w \in Worker, Step(w) PROVE TypeOK'
    BY <2>1, FreshTyped, SettlingTyped, ResumingTyped, FailingTyped DEF Step
  <2>2. ASSUME NEW w \in Worker, Crash(w) PROVE TypeOK'
    BY <2>2, GotoTyped DEF Crash, TypeOK, Places, stored, network, world
  <2>3. CASE UNCHANGED vars
    BY <2>3 DEF vars, TypeOK
  <2>4. QED
    BY <2>1, <2>2, <2>3, StartTyped, EnvironmentTyped DEF Next
<1>2. QED
  BY <1>1, InitTyped, PTL DEF Spec

-----------------------------------------------------------------------------
(* Calls that overlap *)

(* A call that holds a run. *)
Going(w) == pc[w] \notin {"idle", "claim", "done", "crashed"}

(* A key that was claimed stays so, and what a call holds was claimed.     *)
Begun ==
    /\ row.state = "none" => row.version = 0
    /\ \A w \in Worker : Going(w) => run[w].state # "none" /\ row.state # "none"

(* As long as nobody edits the manifest, every copy of it is the same.     *)
Pinned ==
    /\ manifest = 0 /\ row.man = 0
    /\ \A w \in Worker : run[w].man = 0 /\ call[w].man = 0

(* The call that claimed the key. *)
Owner(w) == Going(w) /\ ~call[w].resumed

Deposits == {"deposit", "deposited", "await_deposit"}

(* The places from which the owner may still submit. *)
BeforeSending ==
    {"route", "comply", "open", "opened", "loop", "gate", "refused", "verified",
     "find", "submit"} \cup Deposits

Lookups == {"resume", "unsettled", "lookup", "enter"}

(* The places no call submits from. *)
Past ==
    {"paid", "verify", "reconcile", "complete", "hold", "refund", "refunded",
     "watch", "record", "done", "crashed"}

(* With a gate, a resumed call is never where payments are made: what it   *)
(* finds was paid, and what it does not find it leaves.                    *)
RoleOK(w) ==
    IF call[w].resumed
    THEN /\ pc[w] \in Deposits \cup Lookups \cup Past
         /\ pc[w] \in Deposits => call[w].next = "unsettled"
         /\ pc[w] = "enter" => call[w].found
    ELSE /\ pc[w] \in {"idle", "claim", "confirm"} \cup BeforeSending \cup Past
         /\ call[w].next = "loop"

NothingSent == \A p \in Envelopes : ~MayMove(p)

OwnerOK(w) ==
    /\ pc[w] \in BeforeSending => NothingSent
    /\ pc[w] = "confirm" => \A p \in Envelopes : MayMove(p) => p = Envelope(w)

Overlap ==
    /\ row.state = "none" => NothingSent
    /\ \A v, w \in Worker : Owner(v) /\ Owner(w) => v = w
    /\ \A w \in Worker : RoleOK(w)
    /\ \A w \in Worker : Owner(w) => OwnerOK(w)
    /\ NoDoublePayment

(* The other calls do not move. *)
Others(w) ==
    \A v \in Worker \ {w} : pc'[v] = pc[v] /\ run'[v] = run[v] /\ call'[v] = call[v]

(* No write changes the manifest a run is pinned to.                       *)
SamePin(w) ==
    /\ run'[w].man = run[w].man /\ call'[w].man = call[w].man
    /\ row'.man \in {row.man, run[w].man}

(* A step of call w that leaves the run claimed, and the row no older.     *)
Goes(w) ==
    /\ Others(w)
    /\ row'.state # "none" /\ run'[w].state # "none"
    /\ SamePin(w)
    /\ Versioned => row'.version >= row.version

SameRole(w) ==
    /\ call'[w].resumed = call[w].resumed /\ call'[w].next = call[w].next
    /\ call'[w].found = call[w].found

(* A step after which the call will not submit. *)
Resigns(w) == Goes(w) /\ SameRole(w) /\ pc'[w] \in Past

(* What a step of call w must respect when calls overlap. *)
Walks(w) ==
    /\ call'[w].resumed = call[w].resumed
    /\ pc'[w] \notin {"idle", "claim", "confirm"}
    /\ RoleOK(w)'
    /\ Owner(w) /\ pc'[w] \in BeforeSending => NothingSent

LEMMA GotoShape ==
    ASSUME TypeOK, NEW w \in Worker, NEW p, Goto(w, p)
    PROVE  pc'[w] = p /\ \A v \in Worker \ {w} : pc'[v] = pc[v]
BY DEF TypeOK, Goto

LEMMA PutGoes ==
    ASSUME TypeOK, NEW w \in Worker, NEW r \in Runs, r.state # "none", row.state # "none",
           Put(w, r)
    PROVE  /\ row'.state # "none" /\ run'[w] = r
           /\ row'.man \in {row.man, r.man}
           /\ Versioned => row'.version >= row.version
           /\ \A v \in Worker \ {w} : run'[v] = run[v]
<1>1. run'[w] = r /\ \A v \in Worker \ {w} : run'[v] = run[v]
  BY DEF Put, TypeOK
<1>2. CASE ~Versioned
  BY <1>1, <1>2 DEF Put, Stored, Runs
<1>3. CASE Versioned /\ row.version >= r.version
  BY <1>1, <1>3 DEF Put, Stored, TypeOK, Runs
<1>4. CASE Versioned /\ ~(row.version >= r.version)
  <2>1. row'.state = r.state /\ row'.version = r.version /\ row'.man = row.man
    BY <1>4 DEF Put, Stored, Runs
  <2>2. row'.version >= row.version
    BY <1>4, <2>1 DEF TypeOK, Runs
  <2>3. QED
    BY <1>1, <2>1, <2>2
<1>5. QED
  BY <1>2, <1>3, <1>4

LEMMA MovedState ==
    ASSUME NEW r \in Runs, NEW s, NEW e
    PROVE  /\ Moved(r, s).state = s /\ [Moved(r, s) EXCEPT !.err = e].state = s
           /\ Moved(r, s).man = r.man /\ [Moved(r, s) EXCEPT !.err = e].man = r.man
BY DEF Moved, Runs

(* r is the run of a call that holds one, with some of its data changed.   *)
Holding(r, w) ==
    /\ r \in Runs /\ r.state # "none" /\ r.man = run[w].man
    /\ run[w].state # "none" /\ row.state # "none"

LEMMA HoldingMore ==
    ASSUME TypeOK, NEW w \in Worker, Holding(run[w], w)
    PROVE  /\ \A k \in Instructions : Holding([run[w] EXCEPT !.instr = k], w)
           /\ \A e \in Codes : Holding([run[w] EXCEPT !.err = e], w)
           /\ Holding([run[w] EXCEPT !.ref = RefKind(run[w])], w)
           /\ \A b \in BOOLEAN, e \in Codes :
                 Holding([run[w] EXCEPT !.refund = b, !.err = e], w)
<1>1. /\ \A k \in Instructions : [run[w] EXCEPT !.instr = k] \in Runs
      /\ \A e \in Codes : [run[w] EXCEPT !.err = e] \in Runs
      /\ [run[w] EXCEPT !.ref = RefKind(run[w])] \in Runs
      /\ \A b \in BOOLEAN, e \in Codes : [run[w] EXCEPT !.refund = b, !.err = e] \in Runs
  BY Zenon DEF Holding, Runs, RefKind
<1>2. QED
  BY <1>1 DEF Holding, Runs

LEMMA DieGoes ==
    ASSUME TypeOK, NEW w \in Worker, NEW r, Holding(r, w), NEW e \in Codes, Die(w, r, e)
    PROVE  Resigns(w) /\ pc'[w] \in {"record", "done"}
<1>1. CASE canTransition(r.state, "failed")
  <2> DEFINE d == [Moved(r, "failed") EXCEPT !.err = e]
  <2>1. d \in Runs /\ d.state # "none" /\ d.man = run[w].man
    BY MovedTyped, ErrTyped, MovedState DEF ALL_STATES, Holding
  <2>2. Put(w, d) /\ call' = [call EXCEPT ![w].cause = e] /\ Goto(w, "record")
    BY <1>1 DEF Die
  <2> HIDE DEF d
  <2>3. /\ row'.state # "none" /\ run'[w] = d /\ row'.man \in {row.man, d.man}
        /\ Versioned => row'.version >= row.version
        /\ \A v \in Worker \ {w} : run'[v] = run[v]
    BY <2>1, <2>2, PutGoes DEF Holding
  <2>4. /\ SameRole(w) /\ call'[w].man = call[w].man
        /\ \A v \in Worker \ {w} : call'[v] = call[v]
    BY <2>2 DEF TypeOK, SameRole, Calls
  <2>5. QED
    BY <2>1, <2>2, <2>3, <2>4, GotoShape DEF Resigns, Goes, SamePin, Others, Past
<1>2. CASE ~canTransition(r.state, "failed")
  <2>1. Stay /\ Goto(w, "done") /\ UNCHANGED call
    BY <1>2 DEF Die
  <2>2. QED
    BY <2>1, GotoShape
    DEF Stay, stored, Resigns, Goes, SamePin, Others, SameRole, Past, Holding, TypeOK, Runs
<1>3. QED
  BY <1>1, <1>2

LEMMA AdvanceGoes ==
    ASSUME TypeOK, NEW w \in Worker, NEW r, Holding(r, w), NEW to, NEW next, NEW c,
           c.man = call[w].man, Advance(w, r, to, next, c)
    PROVE  \/ Goes(w) /\ pc'[w] = next /\ call'[w] = c
           \/ Resigns(w)
<1>1. CASE canTransition(r.state, to)
  <2> DEFINE d == Moved(r, to)
  <2>1. d \in Runs /\ d.state # "none" /\ d.man = run[w].man
    BY <1>1, MovedTyped, MovedState, TableTyped DEF ALL_STATES, Holding
  <2>2. Put(w, d) /\ call' = [call EXCEPT ![w] = c] /\ Goto(w, next)
    BY <1>1 DEF Advance
  <2> HIDE DEF d
  <2>3. /\ row'.state # "none" /\ run'[w] = d /\ row'.man \in {row.man, d.man}
        /\ Versioned => row'.version >= row.version
        /\ \A v \in Worker \ {w} : run'[v] = run[v]
    BY <2>1, <2>2, PutGoes DEF Holding
  <2>4. call'[w] = c /\ \A v \in Worker \ {w} : call'[v] = call[v]
    BY <2>2 DEF TypeOK
  <2>5. QED
    BY <2>1, <2>2, <2>3, <2>4, GotoShape DEF Goes, SamePin, Others
<1>2. CASE ~canTransition(r.state, to)
  BY <1>2, DieGoes DEF Advance, Codes, LaneFailureCodes
<1>3. QED
  BY <1>1, <1>2

(* A write that keeps the call's role, on the way to a place no call       *)
(* submits from.                                                           *)
LEMMA AdvanceResigns ==
    ASSUME TypeOK, NEW w \in Worker, NEW r, Holding(r, w), NEW to, NEW next \in Past, NEW c,
           c.resumed = call[w].resumed, c.next = call[w].next, c.found = call[w].found,
           c.man = call[w].man, Advance(w, r, to, next, c)
    PROVE  Resigns(w)
BY AdvanceGoes DEF Resigns, SameRole

LEMMA SameLocals ==
    ASSUME TypeOK, NEW w \in Worker, NEW e, NEW cause, NEW term
    PROVE  /\ Recovering(w, e, cause, term).resumed = call[w].resumed
           /\ Recovering(w, e, cause, term).next = call[w].next
           /\ Recovering(w, e, cause, term).found = call[w].found
           /\ Recovering(w, e, cause, term).man = call[w].man
BY DEF Recovering, TypeOK, Calls

LEMMA StayGoes ==
    ASSUME TypeOK, NEW w \in Worker, Holding(run[w], w), Stay, NEW p, Goto(w, p), NEW c,
           c.man = call[w].man, call' = [call EXCEPT ![w] = c]
    PROVE  Goes(w) /\ pc'[w] = p /\ call'[w] = c
BY GotoShape DEF Stay, stored, Goes, SamePin, Others, Holding, TypeOK, Runs

LEMMA PassGoes ==
    ASSUME TypeOK, NEW w \in Worker, Holding(run[w], w), Stay, NEW p, Goto(w, p), UNCHANGED call
    PROVE  Goes(w) /\ pc'[w] = p /\ call'[w] = call[w]
BY GotoShape DEF Stay, stored, Goes, SamePin, Others, Holding, TypeOK, Runs

LEMMA ReturnGoes ==
    ASSUME TypeOK, NEW w \in Worker, Holding(run[w], w), Return(w)
    PROVE  Resigns(w)
BY PassGoes DEF Return, Resigns, SameRole, Past

LEMMA HoldAndStopGoes ==
    ASSUME TypeOK, NEW w \in Worker, NEW r, Holding(r, w), NEW e, NEW cause,
           HoldAndStop(w, r, e, cause)
    PROVE  Resigns(w)
<1> DEFINE c == Recovering(w, e, cause, FALSE)
<1>1. /\ c.resumed = call[w].resumed /\ c.next = call[w].next /\ c.found = call[w].found
      /\ c.man = call[w].man
  BY DEF Recovering, TypeOK, Calls
<1>2. \/ Stay /\ call' = [call EXCEPT ![w] = c] /\ Goto(w, "hold")
      \/ Advance(w, r, "recovering", "hold", c)
  BY DEF HoldAndStop
<1> HIDE DEF c
<1>3. run[w] \in Runs
  BY LocalsTyped
<1>4. Holding(run[w], w) /\ "hold" \in Past
  BY <1>3 DEF Holding, Past
<1>5. CASE Stay /\ call' = [call EXCEPT ![w] = c] /\ Goto(w, "hold")
  BY <1>1, <1>4, <1>5, StayGoes DEF Resigns, SameRole
<1>6. CASE Advance(w, r, "recovering", "hold", c)
  BY <1>1, <1>4, <1>6, AdvanceResigns
<1>7. QED
  BY <1>2, <1>5, <1>6

LEMMA FinishFailureGoes ==
    ASSUME TypeOK, NEW w \in Worker, NEW r, Holding(r, w), NEW e \in Codes, NEW term,
           FinishFailure(w, r, e, term)
    PROVE  Resigns(w)
<1>1. CASE Rollback = "refund_sender"
  <2> DEFINE c == Recovering(w, e, e, term)
  <2>1. /\ c.resumed = call[w].resumed /\ c.next = call[w].next /\ c.found = call[w].found
        /\ c.man = call[w].man
    BY SameLocals
  <2>2. Advance(w, r, "recovering", "refund", c)
    BY <1>1 DEF FinishFailure
  <2> HIDE DEF c
  <2>3. QED
    BY <2>1, <2>2, AdvanceResigns DEF Past
<1>2. CASE Rollback = "hold"
  BY <1>2, HoldAndStopGoes DEF FinishFailure
<1>3. CASE Rollback \notin {"refund_sender", "hold"}
  BY <1>3, DieGoes DEF FinishFailure
<1>4. QED
  BY <1>1, <1>2, <1>3

LEMMA QuoteExpiredGoes ==
    ASSUME TypeOK, NEW w \in Worker, NEW r, Holding(r, w), QuoteExpired(w, r)
    PROVE  Resigns(w)
BY HoldAndStopGoes, FinishFailureGoes DEF QuoteExpired, Codes, NeutralCodes

LEMMA ResignWalks ==
    ASSUME NEW w \in Worker, RoleOK(w), Going(w), Resigns(w)
    PROVE  Walks(w)
BY DEF RoleOK, Going, Resigns, SameRole, Walks, Past, BeforeSending, Deposits, Lookups


(* The steps of a call that hold to this are all but those that claim,     *)
(* submit or report.                                                       *)
Walk(w) == Goes(w) /\ (HasGate /\ Overlap => Walks(w))

LEMMA ResignWalk ==
    ASSUME NEW w \in Worker, Going(w), Resigns(w)
    PROVE  Walk(w)
BY ResignWalks DEF Walk, Resigns, Overlap

LEMMA CodesUsed ==
    {"ROUTE_REFUSED", "SETTLEMENT_FAILED", "SETTLEMENT_TIMEOUT", "KYC_REJECTED",
     "ANCHOR_UNAVAILABLE", "QUOTE_EXPIRED", "AMOUNT_INVALID", "RECONCILE_MISMATCH",
     "RECONCILE_STALLED", "DRY_RUN_COMPLETE", "MANIFEST_CHANGED",
     "IDEMPOTENCY_CONFLICT", "REFUND_UNSUPPORTED", "PRESETTLE_TX_MISMATCH",
     "PRESETTLE_QUOTE_WINDOW", "ENGINE_MISCONFIGURED", "MANIFEST_INVALID", "none"} \subseteq Codes
BY DEF Codes, LaneFailureCodes, NeutralCodes

(* On to a place where only the owner is.                                  *)
LEMMA OwnerWalk ==
    ASSUME NEW w \in Worker, Going(w), Goes(w),
           pc[w] \in BeforeSending \ Deposits, pc'[w] \in BeforeSending,
           call'[w].resumed = call[w].resumed,
           call'[w].next \in {call[w].next, "loop"}
    PROVE  Walk(w)
<1> SUFFICES ASSUME HasGate, Overlap PROVE Walks(w)
  BY DEF Walk
<1>1. RoleOK(w)
  BY DEF Overlap
<1>2. ~call[w].resumed /\ call[w].next = "loop"
  BY <1>1 DEF RoleOK, BeforeSending, Deposits, Lookups, Past
<1>3. NothingSent
  BY <1>2 DEF Overlap, Owner, OwnerOK
<1>4. QED
  BY <1>2, <1>3 DEF Walks, RoleOK, BeforeSending, Deposits

(* A step while the deposit is made and waited for, by either kind of call.*)
LEMMA DepositWalk ==
    ASSUME NEW w \in Worker, Going(w), Goes(w), SameRole(w), pc[w] \in Deposits,
           pc'[w] \in Deposits \cup {call[w].next}
    PROVE  Walk(w)
<1> SUFFICES ASSUME HasGate, Overlap PROVE Walks(w)
  BY DEF Walk
<1>1. RoleOK(w)
  BY DEF Overlap
<1>2. CASE call[w].resumed
  <2>1. call[w].next = "unsettled"
    BY <1>1, <1>2 DEF RoleOK
  <2>2. QED
    BY <1>2, <2>1 DEF Walks, RoleOK, SameRole, Owner, Deposits, Lookups
<1>3. CASE ~call[w].resumed
  <2>1. call[w].next = "loop" /\ NothingSent
    BY <1>1, <1>3 DEF RoleOK, Overlap, Owner, OwnerOK, BeforeSending
  <2>2. QED
    BY <1>3, <2>1 DEF Walks, RoleOK, SameRole, BeforeSending, Deposits
<1>4. QED
  BY <1>2, <1>3

(* On to look for a payment, which is for resumed calls.                   *)
LEMMA LookupWalk ==
    ASSUME NEW w \in Worker, Going(w), Goes(w), pc[w] \in Lookups,
           pc'[w] \in Lookups \cup Deposits,
           call'[w].resumed = call[w].resumed,
           pc'[w] \in Deposits => call'[w].next = "unsettled",
           pc'[w] = "enter" => call'[w].found
    PROVE  Walk(w)
<1> SUFFICES ASSUME HasGate, Overlap PROVE Walks(w)
  BY DEF Walk
<1>1. RoleOK(w)
  BY DEF Overlap
<1>2. call[w].resumed
  BY <1>1 DEF RoleOK, BeforeSending, Deposits, Lookups, Past
<1>3. QED
  BY <1>2 DEF Walks, RoleOK, Lookups, Deposits, Owner

LEMMA FreshGoes ==
    ASSUME TypeOK, Begun, NEW w \in Worker, Fresh(w), ~Claim(w)
    PROVE  Walk(w)
<1>1. Going(w) /\ Holding(run[w], w)
  BY LocalsTyped DEF Begun, Holding, Going, Fresh, SetupFails, Quote, Comply, Open,
     EnterFunding, OpenDeposit, RecordDeposit, AwaitDeposit, LoopHead, Gate, GateRefused,
     EnterSettling, FindExisting
<1> USE LocalsTyped, CodesUsed, ResignWalk
<1>2. CASE SetupFails(w)
  BY <1>1, <1>2, DieGoes DEF SetupFails
<1>3. CASE Quote(w)
  BY <1>1, <1>3, AdvanceGoes, OwnerWalk DEF Quote, BeforeSending, Deposits
<1>4. CASE Comply(w)
  BY <1>1, <1>4, AdvanceGoes, OwnerWalk DEF Comply, BeforeSending, Deposits
<1>5. CASE Open(w)
  <2>1. PICK kind \in Instructions :
           Advance(w, [run[w] EXCEPT !.instr = kind], "opened", "opened", call[w])
    BY <1>5 DEF Open
  <2>2. Holding([run[w] EXCEPT !.instr = kind], w)
    BY <1>1, HoldingMore
  <2>3. QED
    BY <1>1, <1>5, <2>1, <2>2, AdvanceGoes, OwnerWalk DEF Open, BeforeSending, Deposits
<1>6. CASE EnterFunding(w)
  <2>1. CASE Stay /\ Goto(w, "loop") /\ UNCHANGED call
    BY <1>1, <1>6, <2>1, PassGoes, OwnerWalk DEF EnterFunding, BeforeSending, Deposits
  <2>2. CASE Advance(w, run[w], "funding", "deposit", [call[w] EXCEPT !.next = "loop"])
    <3> DEFINE c == [call[w] EXCEPT !.next = "loop"]
    <3>1. /\ c.next = "loop" /\ c.resumed = call[w].resumed /\ c.man = call[w].man
          /\ Advance(w, run[w], "funding", "deposit", c)
      BY <2>2 DEF Calls
    <3> HIDE DEF c
    <3>2. QED
      BY <1>1, <1>6, <3>1, AdvanceGoes, OwnerWalk DEF EnterFunding, BeforeSending, Deposits
  <2>3. QED
    BY <1>1, <1>6, <2>1, <2>2, DieGoes DEF EnterFunding
<1>7. CASE OpenDeposit(w)
  <2>1. CASE /\ run' = [run EXCEPT ![w].src = TRUE]
             /\ Goto(w, "deposited")
             /\ UNCHANGED <<row, call>>
    <3>1. /\ run'[w].state = run[w].state /\ run'[w].man = run[w].man
          /\ \A v \in Worker \ {w} : run'[v] = run[v]
      BY <2>1 DEF TypeOK, Runs
    <3>2. Goes(w) /\ SameRole(w) /\ pc'[w] = "deposited"
      BY <1>1, <2>1, <3>1, GotoShape DEF Goes, SamePin, Others, SameRole, Holding, TypeOK, Runs
    <3>3. QED
      BY <1>1, <1>7, <3>2, DepositWalk DEF OpenDeposit, Deposits
  <2>2. QED
    BY <1>1, <1>7, <2>1, FinishFailureGoes DEF OpenDeposit
<1>8. CASE RecordDeposit(w)
  <2> DEFINE r == [run[w] EXCEPT !.version = @ + 1]
  <2>1. r \in Runs /\ r.state # "none" /\ r.man = run[w].man
    BY <1>1, NextVersion DEF Holding, Runs
  <2>2. Put(w, r) /\ Goto(w, "await_deposit") /\ UNCHANGED call
    BY <1>8 DEF RecordDeposit
  <2> HIDE DEF r
  <2>3. Goes(w) /\ SameRole(w) /\ pc'[w] = "await_deposit"
    BY <1>1, <2>1, <2>2, PutGoes, GotoShape DEF Goes, SamePin, Others, SameRole, Holding
  <2>4. QED
    BY <1>1, <1>8, <2>3, DepositWalk DEF RecordDeposit, Deposits
<1>9. CASE AwaitDeposit(w)
  <2>1. CASE Advance(w, run[w], "funded", call[w].next, call[w])
    BY <1>1, <1>9, <2>1, AdvanceGoes, DepositWalk DEF AwaitDeposit, Deposits, SameRole
  <2>2. QED
    BY <1>1, <1>9, <2>1, FinishFailureGoes DEF AwaitDeposit
<1>10. CASE LoopHead(w)
  <2>1. CASE Stay /\ Goto(w, "gate") /\ UNCHANGED call
    BY <1>1, <1>10, <2>1, PassGoes, OwnerWalk DEF LoopHead, BeforeSending, Deposits
  <2>2. QED
    BY <1>1, <1>10, <2>1, FinishFailureGoes, QuoteExpiredGoes, DieGoes DEF LoopHead
<1>11. CASE Gate(w)
  <2>1. CASE Advance(w, run[w], "verifying", "verified", call[w])
    BY <1>1, <1>11, <2>1, AdvanceGoes, OwnerWalk DEF Gate, BeforeSending, Deposits
  <2>2. ASSUME NEW e, Advance(w, run[w], "verifying", "refused", [call[w] EXCEPT !.err = e])
        PROVE  Walk(w)
    <3> DEFINE c == [call[w] EXCEPT !.err = e]
    <3>1. /\ c.next = call[w].next /\ c.resumed = call[w].resumed /\ c.man = call[w].man
          /\ Advance(w, run[w], "verifying", "refused", c)
      BY <2>2 DEF Calls
    <3> HIDE DEF c
    <3>2. QED
      BY <1>1, <1>11, <3>1, AdvanceGoes, OwnerWalk DEF Gate, BeforeSending, Deposits
  <2>3. QED
    BY <1>11, <2>1, <2>2 DEF Gate
<1>12. CASE GateRefused(w)
  BY <1>1, <1>12, HoldAndStopGoes, DieGoes DEF GateRefused
<1>13. CASE EnterSettling(w)
  <2> DEFINE next == IF HasFindExisting /\ run[w].instr = "stellar_payment" THEN "find" ELSE "submit"
  <2>1. next \in {"find", "submit"}
    OBVIOUS
  <2>2. \/ Die(w, run[w], "DRY_RUN_COMPLETE") \/ QuoteExpired(w, run[w])
        \/ Advance(w, run[w], "settling", next, call[w])
    BY <1>13 DEF EnterSettling
  <2> HIDE DEF next
  <2>3. QED
    BY <1>1, <1>13, <2>1, <2>2, AdvanceGoes, OwnerWalk, DieGoes, QuoteExpiredGoes
    DEF EnterSettling, BeforeSending, Deposits
<1>14. CASE FindExisting(w)
  <2>1. CASE Stay /\ Goto(w, "paid") /\ UNCHANGED call
    BY <1>1, <2>1, PassGoes DEF Resigns, SameRole, Past
  <2>2. CASE Stay /\ Goto(w, "submit") /\ UNCHANGED call
    BY <1>1, <1>14, <2>2, PassGoes, OwnerWalk DEF FindExisting, BeforeSending, Deposits
  <2>3. QED
    BY <1>1, <1>14, <2>1, <2>2, FinishFailureGoes DEF FindExisting
<1>15. QED
  BY <1>2, <1>3, <1>4, <1>5, <1>6, <1>7, <1>8, <1>9, <1>10, <1>11, <1>12, <1>13, <1>14 DEF Fresh

(* A failed submit goes round again only if nothing was sent.              *)
LEMMA SettleFailedGoes ==
    ASSUME TypeOK, NEW w \in Worker, Going(w), Holding(run[w], w), NEW e \in Codes,
           NEW retryable, SettleFailed(w, e, retryable),
           pc[w] \in {"submit", "confirm"},
           HasGate /\ Overlap /\ retryable => NothingSent
    PROVE  Walk(w)
<1>1. CASE ~call[w].resumed /\ retryable /\ call[w].attempt < MaxRetries
  <2> DEFINE c == [call[w] EXCEPT !.attempt = @ + 1]
  <2>1. /\ Advance(w, run[w], "retrying", "loop", c)
        /\ c.resumed = call[w].resumed /\ c.next = call[w].next /\ c.man = call[w].man
    BY <1>1, LocalsTyped DEF SettleFailed, Calls
  <2> HIDE DEF c
  <2>2. CASE Goes(w) /\ pc'[w] = "loop" /\ call'[w] = c
    BY <1>1, <2>1, <2>2 DEF Walk, Walks, Overlap, RoleOK, BeforeSending
  <2>3. QED
    BY <2>1, <2>2, AdvanceGoes, ResignWalk
<1>2. CASE ~(~call[w].resumed /\ retryable /\ call[w].attempt < MaxRetries)
  BY <1>2, FinishFailureGoes, ResignWalk DEF SettleFailed
<1>3. QED
  BY <1>1, <1>2

LEMMA SettlingGoes ==
    ASSUME TypeOK, Begun, NEW w \in Worker, Settling(w), ~Submit(w)
    PROVE  Walk(w)
<1>1. Going(w) /\ Holding(run[w], w)
  BY LocalsTyped DEF Begun, Holding, Going, Settling, SubmitRejected, SubmitAnswered,
     MarkSettled, VerifyOnChain, Reconcile, Complete
<1> USE CodesUsed, ResignWalk
<1>2. CASE SubmitRejected(w)
  <2>1. HasGate /\ Overlap => NothingSent
    BY <1>1, <1>2 DEF SubmitRejected, Overlap, RoleOK, Owner, OwnerOK, BeforeSending,
       Deposits, Lookups, Past
  <2>2. QED
    BY <1>1, <1>2, <2>1, SettleFailedGoes DEF SubmitRejected
<1>3. CASE SubmitAnswered(w)
  <2>1. HasGate /\ Overlap /\ pay[Envelope(w)] = "dead" => NothingSent
    BY <1>1, <1>3 DEF SubmitAnswered, Overlap, RoleOK, Owner, OwnerOK, NothingSent, MayMove,
       Deposits, Lookups, Past
  <2>2. CASE Stay /\ Goto(w, "paid") /\ UNCHANGED call
    BY <1>1, <2>2, PassGoes DEF Resigns, SameRole, Past
  <2>3. QED
    BY <1>1, <1>3, <2>1, <2>2, SettleFailedGoes DEF SubmitAnswered
<1>4. CASE MarkSettled(w)
  <2>1. Holding([run[w] EXCEPT !.ref = RefKind(run[w])], w)
    BY <1>1, HoldingMore
  <2>2. QED
    BY <1>1, <1>4, <2>1, AdvanceResigns DEF MarkSettled, Past
<1>5. CASE VerifyOnChain(w)
  <2>1. CASE Stay /\ Goto(w, "reconcile") /\ UNCHANGED call
    BY <1>1, <2>1, PassGoes DEF Resigns, SameRole, Past
  <2>2. QED
    BY <1>1, <1>5, <2>1, HoldAndStopGoes, FinishFailureGoes DEF VerifyOnChain
<1>6. CASE Reconcile(w)
  BY <1>1, <1>6, AdvanceResigns, FinishFailureGoes DEF Reconcile, Past
<1>7. CASE Complete(w)
  <2> DEFINE c == [call[w] EXCEPT !.cause = "none"]
  <2>1. /\ Advance(w, run[w], "completed", "record", c)
        /\ c.resumed = call[w].resumed /\ c.next = call[w].next /\ c.found = call[w].found
        /\ c.man = call[w].man
    BY <1>7, LocalsTyped DEF Complete, Calls
  <2> HIDE DEF c
  <2>2. QED
    BY <1>1, <2>1, AdvanceResigns DEF Past
<1>8. QED
  BY <1>2, <1>3, <1>4, <1>5, <1>6, <1>7 DEF Settling

LEMMA ResumingGoes ==
    ASSUME TypeOK, Begun, NEW w \in Worker, Resuming(w)
    PROVE  Walk(w)
<1>1. Going(w) /\ Holding(run[w], w)
  BY LocalsTyped DEF Begun, Holding, Going, Resuming, ResumeRefused, ResumeFails, ResumeAt,
     ResumeSettled, ResumeRecovery, ResumeUnsettled, LookupFound, LookupMissed, LookupFails,
     ResumeComply, ResumeReady, ResumeEnter
<1> USE CodesUsed, ResignWalk
<1>2. CASE ResumeRefused(w)
  BY <1>1, <1>2, DieGoes, ReturnGoes DEF ResumeRefused
<1>3. CASE ResumeFails(w)
  BY <1>1, <1>3, DieGoes DEF ResumeFails
<1>4. CASE ResumeAt(w)
  <2>1. CASE /\ call' = [call EXCEPT ![w].next = "unsettled"]
             /\ Goto(w, IF run[w].src THEN "await_deposit" ELSE "deposit")
    <3> DEFINE c == [call[w] EXCEPT !.next = "unsettled"]
               next == IF run[w].src THEN "await_deposit" ELSE "deposit"
    <3>1. /\ call' = [call EXCEPT ![w] = c] /\ Goto(w, next) /\ next \in Deposits
          /\ c.resumed = call[w].resumed /\ c.next = "unsettled" /\ c.man = call[w].man
      BY <2>1, LocalsTyped DEF Calls, TypeOK, Deposits
    <3> HIDE DEF c, next
    <3>2. QED
      BY <1>1, <1>4, <3>1, StayGoes, LookupWalk DEF ResumeAt, Lookups, Deposits
  <2>2. CASE Goto(w, "unsettled") /\ UNCHANGED call
    BY <1>1, <1>4, <2>2, PassGoes, LookupWalk DEF ResumeAt, Lookups, Deposits
  <2>3. ASSUME NEW p \in {"verify", "complete"}, Goto(w, p), UNCHANGED call PROVE Walk(w)
    BY <1>1, <1>4, <2>3, PassGoes DEF ResumeAt, Resigns, SameRole, Past
  <2>4. QED
    BY <1>4, <2>1, <2>2, <2>3 DEF ResumeAt, ResumeSettled
<1>5. CASE ResumeRecovery(w)
  <2> DEFINE c == [call[w] EXCEPT !.cause =
                      recoveredBreakerCause(run[w].err, "RECONCILE_MISMATCH")]
  <2>1. /\ c.resumed = call[w].resumed /\ c.next = call[w].next /\ c.found = call[w].found
        /\ c.man = call[w].man
        /\ \/ Advance(w, run[w], "refunded", "record", c)
           \/ Advance(w, run[w], "refund_pending", "watch", c)
           \/ Stay /\ call' = [call EXCEPT ![w] = c] /\ Goto(w, "watch")
    BY <1>5, LocalsTyped DEF ResumeRecovery, Calls
  <2> HIDE DEF c
  <2>2. CASE Stay /\ call' = [call EXCEPT ![w] = c] /\ Goto(w, "watch")
    BY <1>1, <2>1, <2>2, StayGoes DEF Resigns, SameRole, Past
  <2>3. QED
    BY <1>1, <2>1, <2>2, AdvanceResigns DEF Past
<1>6. CASE ResumeUnsettled(w)
  <2>1. CASE Stay /\ Goto(w, "lookup") /\ UNCHANGED call
    BY <1>1, <1>6, <2>1, PassGoes, LookupWalk DEF ResumeUnsettled, Lookups, Deposits
  <2>2. QED
    BY <1>1, <1>6, <2>1, ReturnGoes, HoldAndStopGoes DEF ResumeUnsettled
<1>7. CASE LookupFound(w)
  <2>1. CASE Stay /\ call' = [call EXCEPT ![w].found = TRUE] /\ Goto(w, "enter")
    <3> DEFINE c == [call[w] EXCEPT !.found = TRUE]
    <3>1. /\ call' = [call EXCEPT ![w] = c] /\ c.found /\ c.resumed = call[w].resumed
          /\ c.man = call[w].man
      BY <2>1, LocalsTyped DEF Calls, TypeOK
    <3> HIDE DEF c
    <3>2. Goes(w) /\ pc'[w] = "enter" /\ call'[w] = c
      BY <1>1, <2>1, <3>1, StayGoes
    <3>3. pc[w] \in Lookups
      BY <1>7 DEF LookupFound, Lookups
    <3>4. QED
      BY <1>1, <3>1, <3>2, <3>3, LookupWalk DEF Lookups, Deposits
  <2>2. QED
    BY <1>1, <1>7, <2>1, ReturnGoes DEF LookupFound
<1>8. CASE LookupMissed(w)
  <2>1. CASE Stay /\ Goto(w, "recomply") /\ UNCHANGED call /\ ~HasGate
    BY <1>1, <2>1, PassGoes DEF Walk
  <2>2. QED
    BY <1>1, <1>8, <2>1, ReturnGoes, DieGoes DEF LookupMissed
<1>9. CASE LookupFails(w)
  BY <1>1, <1>9, ReturnGoes DEF LookupFails
<1>10. CASE ResumeComply(w)
  <2>1. ~(HasGate /\ Overlap)
    BY <1>10 DEF ResumeComply, Overlap, RoleOK, BeforeSending, Deposits, Lookups, Past
  <2>2. CASE Stay /\ Goto(w, "ready") /\ UNCHANGED call
    BY <1>1, <2>1, <2>2, PassGoes DEF Walk
  <2>3. CASE Advance(w, run[w], "funding", "deposit", [call[w] EXCEPT !.next = "ready"])
    <3> DEFINE c == [call[w] EXCEPT !.next = "ready"]
    <3>1. c.man = call[w].man /\ Advance(w, run[w], "funding", "deposit", c)
      BY <2>3, LocalsTyped DEF Calls
    <3> HIDE DEF c
    <3>2. QED
      BY <1>1, <2>1, <3>1, AdvanceGoes DEF Walk
  <2>4. QED
    BY <1>1, <1>10, <2>2, <2>3, DieGoes, ReturnGoes DEF ResumeComply
<1>11. CASE ResumeReady(w)
  <2>1. ~(HasGate /\ Overlap)
    BY <1>11 DEF ResumeReady, Overlap, RoleOK, BeforeSending, Deposits, Lookups, Past
  <2>2. CASE Stay /\ Goto(w, "enter") /\ UNCHANGED call
    BY <1>1, <2>1, <2>2, PassGoes DEF Walk
  <2>3. QED
    BY <1>1, <1>11, <2>2, QuoteExpiredGoes DEF ResumeReady
<1>12. CASE ResumeEnter(w)
  <2>1. HasGate /\ Overlap => call[w].resumed /\ call[w].found
    BY <1>12 DEF ResumeEnter, Overlap, RoleOK, BeforeSending, Deposits, Past
  <2>2. ASSUME NEW to, Advance(w, run[w], to, "enter", call[w]) PROVE Walk(w)
    <3>1. CASE Goes(w) /\ pc'[w] = "enter" /\ call'[w] = call[w]
      BY <2>1, <3>1 DEF Walk, Walks, RoleOK, Owner, Deposits, Lookups
    <3>2. QED
      BY <1>1, <2>2, <3>1, AdvanceGoes
  <2>3. CASE /\ Stay /\ Goto(w, IF call[w].found THEN "paid" ELSE "submit")
             /\ UNCHANGED call
    <3>1. CASE call[w].found
      BY <1>1, <2>3, <3>1, PassGoes DEF Resigns, SameRole, Past
    <3>2. CASE ~call[w].found
      BY <1>1, <2>1, <2>3, <3>2, PassGoes DEF Walk
    <3>3. QED
      BY <3>1, <3>2
  <2>4. QED
    BY <1>12, <2>2, <2>3 DEF ResumeEnter
<1>13. QED
  BY <1>2, <1>3, <1>4, <1>5, <1>6, <1>7, <1>8, <1>9, <1>10, <1>11, <1>12 DEF Resuming

(* A refund is only recorded as asked; the run stays as it was.            *)
LEMMA FailingGoes ==
    ASSUME TypeOK, Begun, NEW w \in Worker, Failing(w)
    PROVE  Walk(w)
<1>1. Going(w) /\ Holding(run[w], w) /\ Holding([run[w] EXCEPT !.err = call[w].err], w)
  <2>1. Going(w) /\ Holding(run[w], w)
    BY LocalsTyped DEF Begun, Holding, Going, Failing, Hold, RefundAnchor, RefundByOperator,
       RefundOnChain, RefundNothing, Refunded, WatchRefund, RecordOutcome
  <2>2. QED
    BY <2>1, HoldingMore, LocalsTyped
<1> USE CodesUsed, ResignWalk
<1>2. CASE Hold(w)
  BY <1>1, <1>2, AdvanceResigns DEF Hold, Past
<1>3. CASE RefundAnchor(w)
  BY <1>1, <1>3, AdvanceResigns DEF RefundAnchor, Past
<1>4. CASE RefundByOperator(w)
  BY <1>1, <1>4, HoldAndStopGoes DEF RefundByOperator
<1>5. CASE RefundOnChain(w)
  <2>1. CASE HoldAndStop(w, run[w], "REFUND_UNSUPPORTED", call[w].err)
    BY <1>1, <2>1, HoldAndStopGoes
  <2>2. CASE /\ run' = [run EXCEPT ![w].refund = TRUE]
             /\ Goto(w, "refunded")
             /\ UNCHANGED <<row, call>>
    <3>1. /\ run'[w].state = run[w].state /\ run'[w].man = run[w].man
          /\ \A v \in Worker \ {w} : run'[v] = run[v]
      BY <2>2 DEF TypeOK, Runs
    <3>2. QED
      BY <1>1, <2>2, <3>1, GotoShape
      DEF Resigns, Goes, SamePin, Others, SameRole, Holding, TypeOK, Runs, Past
  <2>3. QED
    BY <1>5, <2>1, <2>2 DEF RefundOnChain
<1>6. CASE RefundNothing(w)
  BY <1>1, <1>6, PassGoes DEF RefundNothing, Resigns, SameRole, Past
<1>7. CASE Refunded(w)
  BY <1>1, <1>7, AdvanceResigns DEF Refunded, Past
<1>8. CASE WatchRefund(w)
  <2>1. ASSUME NEW listed \in BOOLEAN,
               Advance(w, [run[w] EXCEPT !.refund = @ \/ listed,
                                         !.err = IF call[w].resumed THEN "none" ELSE @],
                       "refunded", "record", call[w])
        PROVE  Walk(w)
    <3> DEFINE b == run[w].refund \/ listed
               e == IF call[w].resumed THEN "none" ELSE run[w].err
    <3>1. b \in BOOLEAN /\ e \in Codes
      BY LocalsTyped DEF Runs
    <3>2. Advance(w, [run[w] EXCEPT !.refund = b, !.err = e], "refunded", "record", call[w])
      BY <2>1
    <3> HIDE DEF b, e
    <3>3. Holding([run[w] EXCEPT !.refund = b, !.err = e], w)
      BY <1>1, <3>1, HoldingMore
    <3>4. QED
      BY <1>1, <3>2, <3>3, AdvanceResigns DEF Past
  <2>2. QED
    BY <1>1, <1>8, <2>1, HoldAndStopGoes DEF WatchRefund
<1>9. CASE RecordOutcome(w)
  BY <1>1, <1>9, PassGoes DEF RecordOutcome, Stay, Resigns, SameRole, Past
<1>10. QED
  BY <1>2, <1>3, <1>4, <1>5, <1>6, <1>7, <1>8, <1>9 DEF Failing

(* The envelopes a step may change are the ones Submit sends.              *)
LEMMA WalkKeepsBegun ==
    ASSUME TypeOK, Begun, NEW w \in Worker, Going(w), Goes(w)
    PROVE  Begun'
<1>1. \A v \in Worker \ {w} : Going(v)' => run'[v].state # "none"
  BY DEF Goes, Others, Begun, Going
<1>2. QED
  BY <1>1 DEF Begun, Goes

LEMMA WalkKeepsOverlap ==
    ASSUME TypeOK, Overlap, NEW w \in Worker, Going(w), Goes(w), Walks(w), UNCHANGED pay,
           row.state # "none"
    PROVE  Overlap'
<1>1. \A v \in Worker \ {w} :
         /\ RoleOK(v)' /\ (Owner(v)' <=> Owner(v)) /\ (Owner(v) => OwnerOK(v)')
  BY DEF Goes, Others, Overlap, RoleOK, Owner, Going, OwnerOK, NothingSent, MayMove, Envelope
<1>2. RoleOK(w)' /\ (Owner(w)' => Owner(w))
  BY DEF Walks, Owner, Going
<1>3. Owner(w)' => OwnerOK(w)'
  BY <1>2 DEF Walks, OwnerOK, NothingSent, MayMove
<1>4. NoDoublePayment'
  BY DEF Overlap, NoDoublePayment, MayMove
<1>5. row'.state # "none"
  BY DEF Goes
<1>6. \A v \in Worker : RoleOK(v)' /\ (Owner(v)' => Owner(v) /\ OwnerOK(v)')
  BY <1>1, <1>2, <1>3
<1>7. QED
  BY <1>4, <1>5, <1>6 DEF Overlap

(* The steps that do not move a call on, or that send.                     *)
LEMMA StartKeeps ==
    ASSUME TypeOK, Begun, NEW w \in Worker, NEW dry \in BOOLEAN, Start(w, dry)
    PROVE  Begun' /\ row' = row /\ (HasGate /\ Overlap => Overlap')
<1> DEFINE c == [call[w] EXCEPT !.dry = dry, !.man = manifest, !.resumed = row.state # "none"]
<1>1. /\ pc[w] = "idle" /\ UNCHANGED <<row, pay>>
      /\ pc'[w] \in {"done", "claim", "resume"} /\ \A v \in Worker \ {w} : pc'[v] = pc[v]
      /\ pc'[w] = "resume" => row.state # "none" /\ run' = [run EXCEPT ![w] = row]
      /\ pc'[w] = "claim" => row.state = "none"
      /\ pc'[w] # "resume" => run' = run
      /\ \A v \in Worker \ {w} : run'[v] = run[v]
  BY GotoShape DEF Start, network, TypeOK
<1>2. /\ call'[w] = c /\ \A v \in Worker \ {w} : call'[v] = call[v]
      /\ c.resumed = (row.state # "none") /\ c.next = call[w].next
  BY DEF Start, TypeOK, Calls
<1> HIDE DEF c
<1>3. Begun'
  BY <1>1 DEF Begun, Going, TypeOK
<1>4. ASSUME HasGate, Overlap PROVE Overlap'
  <2>1. \A v \in Worker \ {w} :
           /\ RoleOK(v)' /\ (Owner(v)' <=> Owner(v)) /\ (Owner(v) => OwnerOK(v)')
    BY <1>1, <1>2, <1>4
    DEF Overlap, RoleOK, Owner, Going, OwnerOK, NothingSent, MayMove, Envelope
  <2>2. call[w].next = "loop"
    BY <1>1, <1>4 DEF Overlap, RoleOK, BeforeSending, Deposits, Lookups, Past
  <2>3. RoleOK(w)' /\ ~Owner(w)'
    BY <1>1, <1>2, <2>2 DEF RoleOK, Owner, Going, BeforeSending, Deposits, Lookups, Past
  <2>4. QED
    BY <1>1, <1>4, <2>1, <2>3 DEF Overlap, NothingSent, MayMove, NoDoublePayment
<1>5. QED
  BY <1>1, <1>3, <1>4

LEMMA ClaimKeeps ==
    ASSUME TypeOK, Begun, NEW w \in Worker, Claim(w)
    PROVE  Begun' /\ row'.version >= row.version /\ (HasGate /\ Overlap => Overlap')
<1>1. CASE row.state = "none"
  <2> DEFINE r == [NoRun EXCEPT !.state = "created", !.man = call[w].man]
  <2>1. /\ r.state = "created" /\ r.version = 0
        /\ pc[w] = "claim" /\ row' = r /\ run' = [run EXCEPT ![w] = r]
        /\ Goto(w, "route") /\ UNCHANGED <<call, pay>>
    BY <1>1 DEF Claim, NoRun, network
  <2> HIDE DEF r
  <2>2. /\ pc'[w] = "route" /\ run'[w] = r
        /\ \A v \in Worker \ {w} : pc'[v] = pc[v] /\ run'[v] = run[v]
    BY <2>1, GotoShape DEF TypeOK
  <2>3. Begun' /\ \A v \in Worker : ~Going(v)
    BY <1>1, <2>1, <2>2 DEF Begun, Going
  <2>4. ASSUME HasGate, Overlap PROVE Overlap'
    <3>1. NothingSent /\ ~call[w].resumed /\ call[w].next = "loop"
      BY <1>1, <2>1, <2>4 DEF Overlap, RoleOK, Deposits, Lookups, Past
    <3>2. \A v \in Worker : RoleOK(v)'
      BY <2>1, <2>2, <2>4, <3>1 DEF Overlap, RoleOK, BeforeSending
    <3>3. \A v \in Worker : Owner(v)' => v = w
      BY <2>1, <2>2, <2>3 DEF Owner, Going
    <3>4. QED
      BY <2>1, <2>2, <2>4, <3>1, <3>2, <3>3
      DEF Overlap, NothingSent, MayMove, NoDoublePayment, OwnerOK
  <2>5. QED
    BY <1>1, <2>1, <2>3, <2>4 DEF Begun
<1>2. CASE row.state # "none"
  <2>1. /\ pc[w] = "claim" /\ UNCHANGED <<row, run, call, pay>>
        /\ pc'[w] = "done" /\ \A v \in Worker \ {w} : pc'[v] = pc[v]
    BY <1>2, GotoShape DEF Claim, Return, Stay, stored, network
  <2>2. Begun' /\ row'.version >= row.version
    BY <2>1 DEF Begun, Going, TypeOK, Runs
  <2>3. ASSUME HasGate, Overlap PROVE Overlap'
    <3>1. \A v \in Worker :
             RoleOK(v)' /\ (Owner(v)' => Owner(v)) /\ (Owner(v)' => OwnerOK(v)')
      BY <2>1, <2>3 DEF Overlap, RoleOK, Owner, Going, OwnerOK, NothingSent, MayMove, Envelope,
         BeforeSending, Deposits, Lookups, Past
    <3>2. QED
      BY <2>1, <2>3, <3>1 DEF Overlap, NothingSent, MayMove, NoDoublePayment
  <2>4. QED
    BY <2>2, <2>3
<1>3. QED
  BY <1>1, <1>2

LEMMA SubmitKeeps ==
    ASSUME TypeOK, Begun, NEW w \in Worker, Submit(w)
    PROVE  Begun' /\ UNCHANGED row /\ (HasGate /\ Overlap => Overlap')
<1>1. /\ pc[w] = "submit" /\ pc'[w] \in {"paid", "confirm"} /\ UNCHANGED <<row, run, call>>
      /\ \A v \in Worker \ {w} : pc'[v] = pc[v]
      /\ \A p \in Envelopes : p # Envelope(w) => pay'[p] = pay[p]
  BY GotoShape DEF Submit, stored, TypeOK
<1>2. Begun'
  BY <1>1 DEF Begun, Going
<1>3. ASSUME HasGate, Overlap PROVE Overlap'
  <2>1. Owner(w) /\ NothingSent /\ call[w].next = "loop" /\ row.state # "none"
    BY <1>1, <1>3 DEF Overlap, RoleOK, OwnerOK, Owner, Going, Begun, BeforeSending, Deposits,
       Lookups, Past
  <2>2. \A p \in Envelopes : MayMove(p)' => p = Envelope(w)
    BY <1>1, <2>1 DEF NothingSent, MayMove
  <2>3. \A v \in Worker : RoleOK(v)' /\ (Owner(v)' => v = w)
    BY <1>1, <1>3, <2>1 DEF Overlap, RoleOK, Owner, Going, Past
  <2>4. OwnerOK(w)'
    BY <1>1, <2>2 DEF OwnerOK, Envelope, BeforeSending, Deposits
  <2>5. QED
    BY <1>1, <2>1, <2>2, <2>3, <2>4 DEF Overlap, NoDoublePayment
<1>4. QED
  BY <1>1, <1>2, <1>3

LEMMA CrashKeeps ==
    ASSUME TypeOK, Begun, NEW w \in Worker, Crash(w)
    PROVE  Begun' /\ UNCHANGED row /\ (HasGate /\ Overlap => Overlap')
<1>1. /\ pc[w] # "idle" /\ pc'[w] = "crashed" /\ UNCHANGED <<row, run, call, pay>>
      /\ \A v \in Worker \ {w} : pc'[v] = pc[v]
  BY GotoShape DEF Crash, Live, stored, network
<1>2. Begun'
  BY <1>1 DEF Begun, Going
<1>3. ASSUME HasGate, Overlap PROVE Overlap'
  <2>1. \A v \in Worker :
           RoleOK(v)' /\ (Owner(v)' => Owner(v)) /\ (Owner(v)' => OwnerOK(v)')
    BY <1>1, <1>3 DEF Overlap, RoleOK, Owner, Going, OwnerOK, NothingSent, MayMove, Envelope,
       BeforeSending, Deposits, Lookups, Past
  <2>2. QED
    BY <1>1, <1>3, <2>1 DEF Overlap, NothingSent, MayMove, NoDoublePayment
<1>4. QED
  BY <1>1, <1>2, <1>3

LEMMA EnvironmentKeeps ==
    ASSUME TypeOK, Begun, Environment \/ UNCHANGED vars
    PROVE  Begun' /\ UNCHANGED row /\ (HasGate /\ Overlap => Overlap')
<1>1. UNCHANGED <<row, run, call, pc>>
  BY DEF Environment, Land, Drop, AnchorMoves, DepositArrives, QuoteExpires, EditManifest,
     stored, vars
<1>2. \A p \in Envelopes : MayMove(p)' => MayMove(p)
  BY DEF Environment, Land, Drop, AnchorMoves, DepositArrives, QuoteExpires, EditManifest,
     network, vars, MayMove, TypeOK
<1>3. Begun'
  BY <1>1 DEF Begun, Going
<1>4. ASSUME HasGate, Overlap PROVE Overlap'
  <2>1. \A v \in Worker :
           RoleOK(v)' /\ (Owner(v)' => Owner(v)) /\ (Owner(v)' => OwnerOK(v)')
    BY <1>1, <1>2, <1>4 DEF Overlap, RoleOK, Owner, Going, OwnerOK, NothingSent, Envelope
  <2>2. QED
    BY <1>1, <1>2, <1>4, <2>1 DEF Overlap, NothingSent, NoDoublePayment
<1>5. QED
  BY <1>1, <1>3, <1>4

(* The steps that neither claim nor send. *)
LEMMA StepWalks ==
    ASSUME TypeOK, Begun, NEW w \in Worker, Step(w), ~Claim(w), ~Submit(w)
    PROVE  Walk(w) /\ Going(w) /\ UNCHANGED <<pay, manifest>>
<1>1. Walk(w)
  BY FreshGoes, SettlingGoes, ResumingGoes, FailingGoes DEF Step
<1>2. CASE Fresh(w)
  BY <1>1, <1>2 DEF Going, Fresh, SetupFails, Quote, Comply, Open,
     EnterFunding, OpenDeposit, RecordDeposit, AwaitDeposit, LoopHead, Gate, GateRefused,
     EnterSettling, FindExisting, network, world
<1>3. CASE Settling(w)
  BY <1>1, <1>3 DEF Going, Settling, SubmitRejected, SubmitAnswered, MarkSettled,
     VerifyOnChain, Reconcile, Complete, network, world
<1>4. CASE Resuming(w)
  BY <1>1, <1>4 DEF Going, Resuming, ResumeRefused, ResumeFails, ResumeAt, ResumeRecovery,
     ResumeUnsettled, LookupFound, LookupMissed, LookupFails, ResumeComply, ResumeReady,
     ResumeEnter, network, world
<1>5. CASE Failing(w)
  BY <1>1, <1>5 DEF Going, Failing, Hold, RefundAnchor, RefundByOperator,
     RefundOnChain, RefundNothing, Refunded, WatchRefund, RecordOutcome, network, world
<1>6. QED
  BY <1>2, <1>3, <1>4, <1>5 DEF Step

LEMMA StepKeeps ==
    ASSUME TypeOK, Begun, NEW w \in Worker, Step(w)
    PROVE  /\ Begun' /\ (Versioned => row'.version >= row.version)
           /\ HasGate /\ Overlap => Overlap'
<1>1. CASE Claim(w)
  BY <1>1, ClaimKeeps
<1>2. CASE Submit(w)
  BY <1>2, SubmitKeeps DEF TypeOK, Runs
<1>3. CASE ~Claim(w) /\ ~Submit(w)
  <2>1. Walk(w) /\ Going(w) /\ UNCHANGED pay
    BY <1>3, StepWalks
  <2>3. Goes(w) /\ Begun'
    BY <2>1, WalkKeepsBegun DEF Walk
  <2>4. HasGate /\ Overlap => Overlap'
    BY <2>1, <2>3, WalkKeepsOverlap DEF Walk, Begun
  <2>5. QED
    BY <2>3, <2>4 DEF Goes
<1>4. QED
  BY <1>1, <1>2, <1>3

LEMMA OverlapNext ==
    ASSUME TypeOK, Begun, [Next]_vars
    PROVE  /\ Begun' /\ (Versioned => row'.version >= row.version)
           /\ HasGate /\ Overlap => Overlap'
<1>1. row' = row => row'.version >= row.version
  BY DEF TypeOK, Runs
<1>2. ASSUME NEW w \in Worker, Step(w) \/ Crash(w) \/ \E dry \in BOOLEAN : Start(w, dry)
      PROVE  /\ Begun' /\ (Versioned => row'.version >= row.version)
             /\ HasGate /\ Overlap => Overlap'
  BY <1>1, <1>2, StepKeeps, CrashKeeps, StartKeeps
<1>3. CASE Environment \/ UNCHANGED vars
  BY <1>1, <1>3, EnvironmentKeeps
<1>4. QED
  BY <1>2, <1>3 DEF Next

LEMMA InitBegun == Init => Begun /\ Overlap
<1> SUFFICES ASSUME Init PROVE Begun /\ Overlap
  OBVIOUS
<1>1. /\ row = NoRun /\ \A w \in Worker : pc[w] = "idle" /\ ~call[w].resumed /\ call[w].next = "loop"
      /\ \A p \in Envelopes : pay[p] = "none"
  BY DEF Init
<1>2. QED
  BY <1>1 DEF Begun, Overlap, Going, NoRun, NothingSent, MayMove, RoleOK, Owner,
     NoDoublePayment, Past, BeforeSending, Deposits, Lookups

LEMMA AlwaysBegun == Spec => []Begun
<1>1. TypeOK /\ Begun /\ [Next]_vars => Begun'
  BY OverlapNext
<1>2. QED
  BY <1>1, InitBegun, TypeCorrect, PTL DEF Spec

(* Nobody edits the manifest, and nothing else changes a copy of it.       *)
LEMMA AlwaysPinned == ASSUME ~ManifestMayChange PROVE Spec => []Pinned
<1>1. Init => Pinned
  BY DEF Init, Pinned, NoRun
<1>2. TypeOK /\ Begun /\ Pinned /\ [Next]_vars => Pinned'
  <2> SUFFICES ASSUME TypeOK, Begun, Pinned, [Next]_vars PROVE Pinned'
    OBVIOUS
  <2>1. ASSUME NEW w \in Worker, Step(w) PROVE Pinned'
    <3>1. CASE Claim(w)
      <4> DEFINE r == [NoRun EXCEPT !.state = "created", !.man = call[w].man]
      <4>1. /\ r.man = 0 /\ UNCHANGED <<call, manifest>>
            /\ \/ row' = r /\ run' = [run EXCEPT ![w] = r]
               \/ UNCHANGED <<row, run>>
        BY <3>1 DEF Claim, Return, Stay, stored, world, Pinned, NoRun
      <4> HIDE DEF r
      <4>2. QED
        BY <4>1 DEF Pinned, TypeOK
    <3>2. CASE Submit(w)
      BY <3>2 DEF Submit, stored, world, Pinned
    <3>3. CASE ~Claim(w) /\ ~Submit(w)
      <4>1. Goes(w) /\ UNCHANGED manifest
        BY <2>1, <3>3, StepWalks DEF Walk
      <4>2. QED
        BY <4>1 DEF Goes, SamePin, Others, Pinned
    <3>4. QED
      BY <3>1, <3>2, <3>3
  <2>2. ASSUME NEW w \in Worker, Crash(w) PROVE Pinned'
    BY <2>2 DEF Crash, stored, world, Pinned
  <2>3. ASSUME NEW w \in Worker, NEW dry \in BOOLEAN, Start(w, dry) PROVE Pinned'
    <3>1. call'[w].man = manifest /\ \A v \in Worker \ {w} : call'[v] = call[v]
      BY <2>3 DEF Start, TypeOK, Calls
    <3>2. UNCHANGED <<row, manifest>> /\ (run' = run \/ run' = [run EXCEPT ![w] = row])
      BY <2>3 DEF Start, world
    <3>3. QED
      BY <3>1, <3>2 DEF Pinned, TypeOK
  <2>4. CASE Environment \/ UNCHANGED vars
    BY <2>4 DEF Environment, Land, Drop, AnchorMoves, DepositArrives, QuoteExpires,
       EditManifest, stored, world, vars, Pinned
  <2>5. QED
    BY <2>1, <2>2, <2>3, <2>4 DEF Next
<1>3. QED
  BY <1>1, <1>2, AlwaysBegun, TypeCorrect, PTL DEF Spec

(* Only a submission puts an envelope on the wire.                         *)
LEMMA OthersSendNothing ==
    ASSUME NEW w \in Worker, Step(w) \/ Crash(w) \/ \E dry \in BOOLEAN : Start(w, dry),
           ~Submit(w)
    PROVE  UNCHANGED pay
<1>1. CASE Fresh(w)
  BY <1>1 DEF Fresh, Claim, SetupFails, Quote, Comply, Open, EnterFunding, OpenDeposit,
     RecordDeposit, AwaitDeposit, LoopHead, Gate, GateRefused, EnterSettling, FindExisting,
     network
<1>2. CASE Settling(w)
  BY <1>2 DEF Settling, SubmitRejected, SubmitAnswered, MarkSettled, VerifyOnChain,
     Reconcile, Complete, network
<1>3. CASE Resuming(w)
  BY <1>3 DEF Resuming, ResumeRefused, ResumeFails, ResumeAt, ResumeRecovery,
     ResumeUnsettled, LookupFound, LookupMissed, LookupFails, ResumeComply, ResumeReady,
     ResumeEnter, network
<1>4. CASE Failing(w)
  BY <1>4 DEF Failing, Hold, RefundAnchor, RefundByOperator, RefundOnChain, RefundNothing,
     Refunded, WatchRefund, RecordOutcome, network
<1>5. CASE Crash(w) \/ \E dry \in BOOLEAN : Start(w, dry)
  BY <1>5 DEF Crash, Start, network
<1>6. QED
  BY <1>1, <1>2, <1>3, <1>4, <1>5 DEF Step

(* No envelope is out without the quote's time bound. *)
InTime == \A p \in Envelopes : pay[p] # "unbounded"

(* Envelopes are in time and none lands late, as a gated call that submits *)
(* is the one that quoted.                                                 *)
LEMMA InTimeNext ==
    ASSUME HasGate, TypeOK, Overlap, InTime, [Next]_vars
    PROVE  /\ InTime'
           /\ [expired => \A p \in Envelopes :
                             pay[p] # "applied" => pay'[p] # "applied"]_pay
<1>1. CASE UNCHANGED pay
  BY <1>1 DEF InTime
<1>2. ASSUME NEW w \in Worker, Submit(w)
      PROVE  \A p \in Envelopes : pay'[p] \in {pay[p], "offchain", "bounded"}
  <2>1. ~call[w].resumed
    BY <1>2 DEF Submit, Overlap, RoleOK, Deposits, Lookups, Past
  <2>2. QED
    BY <1>2, <2>1 DEF Submit, TypeOK
<1>3. ASSUME NEW q \in Envelopes, Land(q) \/ Drop(q)
      PROVE  /\ \A p \in Envelopes : pay'[p] \in {pay[p], "applied", "dead"}
             /\ expired => \A p \in Envelopes : pay'[p] \in {pay[p], "dead"}
  BY <1>3 DEF Land, Drop, InTime, TypeOK
<1>4. UNCHANGED pay \/ (\E w \in Worker : Submit(w)) \/ \E p \in Envelopes : Land(p) \/ Drop(p)
  BY OthersSendNothing DEF Next, Environment, AnchorMoves, DepositArrives, QuoteExpires,
     EditManifest, network, vars
<1>5. QED
  BY <1>1, <1>2, <1>3, <1>4 DEF InTime

(* Behind the gate no payment lands after its firm quote expired, however  *)
(* many calls overlap (ports.ts:32): a resumed call, whose request has no  *)
(* time bound, submits only where there is no gate.                        *)
THEOREM NoLateSettlement ==
    ASSUME HasGate PROVE Spec => NothingLandsAfterExpiry
<1>1. Init => InTime
  BY DEF Init, InTime
<1>2. TypeOK /\ Begun /\ Overlap /\ [Next]_vars => Overlap'
  BY OverlapNext
<1>3. TypeOK /\ Overlap /\ InTime /\ [Next]_vars =>
        /\ InTime'
        /\ [expired => \A p \in Envelopes :
                          pay[p] # "applied" => pay'[p] # "applied"]_pay
  BY InTimeNext
<1>4. QED
  BY <1>1, <1>2, <1>3, InitBegun, AlwaysBegun, TypeCorrect, PTL
     DEF Spec, NothingLandsAfterExpiry

(* With a gate, calls that overlap do not pay twice, whatever they read    *)
(* before the others wrote: only the call that claimed the key submits,    *)
(* and again only after the ledger dropped what it sent (idempotency.ts:1).*)
THEOREM NoSecondPaymentBehindGate ==
    ASSUME HasGate PROVE Spec => []NoDoublePayment
<1>1. TypeOK /\ Begun /\ Overlap /\ [Next]_vars => Overlap'
  BY OverlapNext
<1>2. Overlap => NoDoublePayment
  BY DEF Overlap
<1>3. QED
  BY <1>1, <1>2, InitBegun, AlwaysBegun, TypeCorrect, PTL DEF Spec

-----------------------------------------------------------------------------
(* Calls with one key that do not overlap: a fresh run and any number of   *)
(* resumes, each of which may crash anywhere.  The inductive invariant     *)
(* relates where a call is to the stored state and to what is on the       *)
(* network: the live call holds the stored state and version; nothing has  *)
(* been sent while that state is before `settling`, nor while a call is on *)
(* its way to a submit; a refund is asked for only from a state no         *)
(* recovery led to; and the outcome is reported from a terminal state,     *)
(* once.                                                                   *)

(* The states from which a submit can still be reached. *)
BeforePaying ==
    {"none", "created", "quoted", "compliant", "opened", "funding", "funded",
     "verifying", "retrying"}

(* `recovering` and what follows it. *)
AfterRecovery == {"recovering", "refund_pending", "refunded", "held", "failed"}

InSync(w) == run[w].state = row.state /\ run[w].version = row.version

(* Calls that will submit without looking for a payment again. *)
AboutToPay(w) ==
    \/ pc[w] \in {"find", "submit", "recomply", "ready"}
    \/ pc[w] = "enter" /\ ~call[w].found

Alone == \A v, w \in Worker : Live(v) /\ Live(w) => v = w

ClaimOK == \A w \in Worker : pc[w] = "claim" => row.state = "none"

PayOK ==
    /\ row.state \in BeforePaying => NothingSent
    /\ \A w \in Worker : AboutToPay(w) => NothingSent
    /\ \A w \in Worker : pc[w] \in {"find", "submit"} => row.state = "settling"
    /\ \A w \in Worker : pc[w] = "confirm" =>
          \A p \in Envelopes : MayMove(p) => p = Envelope(w)
    /\ \A w \in Worker : pc[w] \in {"unsettled", "lookup"} =>
          row.state \in BeforePaying \cup {"settling"}
    /\ NoDoublePayment

RefundOK ==
    /\ refunds > 0 => row.state \in AfterRecovery
    /\ \A w \in Worker : pc[w] = "refund" => refunds = 0 /\ row.state = "recovering"
    /\ refunds <= 1

Reported == counted.success + counted.failure

CountOK ==
    /\ Reported > 0 => isTerminal(row.state)
    /\ \A w \in Worker : Live(w) /\ isTerminal(row.state) => pc[w] = "record"
    /\ \A w \in Worker : pc[w] = "record" => isTerminal(row.state) /\ Reported = 0
    /\ Reported <= 1

Safe == Alone /\ ClaimOK /\ Synced /\ PayOK /\ RefundOK /\ CountOK

-----------------------------------------------------------------------------
(* The state table *)

(* What the proofs use of the table of state.ts. *)
LEMMA Table ==
    ASSUME NEW s, NEW t, canTransition(s, t)
    PROVE  /\ t \in BeforePaying \ {"retrying"} => s \in BeforePaying
           /\ t = "retrying" => s = "settling"
           /\ t = "settling" => s = "verifying"
           /\ t = "recovering" => s \notin AfterRecovery
           /\ s \in AfterRecovery => t \in AfterRecovery
           /\ ~isTerminal(s)
           /\ s # "none" /\ t # "none"
           /\ t = "reconciled" => s = "settled"
           /\ t = "completed" => s = "reconciled"
BY SMT DEF canTransition, NextStates, BeforePaying, AfterRecovery, isTerminal, TERMINAL

-----------------------------------------------------------------------------
(* What the shared operators do to the stored row and to the call *)

(* The run moved to state `to`, and the call to `next`. *)
MovesTo(w, to, next) ==
    /\ Others(w)
    /\ canTransition(row.state, to)
    /\ row'.state = to
    /\ InSync(w)'
    /\ pc'[w] = next

(* The run stayed where it is, and the call moved to `next`. *)
StaysAt(w, next) ==
    /\ Others(w)
    /\ UNCHANGED <<row, run>>
    /\ pc'[w] = next

Dies(w) == MovesTo(w, "failed", "record") \/ StaysAt(w, "done")

Waiting == {"recovering", "refund_pending"}

Parks(w) ==
    \/ MovesTo(w, "recovering", "hold")
    \/ StaysAt(w, "hold") /\ row.state \in Waiting

Holds(w) == Parks(w) \/ Dies(w)

Fails(w) == MovesTo(w, "recovering", "refund") \/ Holds(w)

(* A failure of the run may leave a payment behind: the policy gives up    *)
(* after an ambiguous submit, or the manifest is edited under a run that   *)
(* sent one.                                                               *)
Excused == Rollback \notin {"refund_sender", "hold"} \/ ManifestMayChange

(* r is the live call's run, with some of its data changed. *)
CopyOf(r, w) == r \in Runs /\ r.state = run[w].state /\ r.version = run[w].version

LEMMA PutLands ==
    ASSUME TypeOK, NEW w \in Worker, NEW r \in Runs, r.version = row.version + 1,
           Put(w, r)
    PROVE  /\ row'.state = r.state /\ row'.version = r.version
           /\ run'[w] = r
           /\ \A v \in Worker \ {w} : run'[v] = run[v]
<1>1. ~(row.version >= r.version)
  BY DEF TypeOK, Runs
<1>2. row'.state = r.state /\ row'.version = r.version
  <2>1. CASE ~Versioned
    BY <2>1 DEF Put, Stored, Runs
  <2>2. CASE Versioned
    BY <1>1, <2>2 DEF Put, Stored, Runs
  <2>3. QED
    BY <2>1, <2>2
<1>3. QED
  BY <1>2 DEF Put, TypeOK

LEMMA MovedShape ==
    ASSUME NEW r \in Runs, NEW s, NEW e
    PROVE  /\ Moved(r, s).state = s /\ Moved(r, s).version = r.version + 1
           /\ [Moved(r, s) EXCEPT !.err = e].state = s
           /\ [Moved(r, s) EXCEPT !.err = e].version = r.version + 1
BY DEF Moved, Runs

LEMMA DieShape ==
    ASSUME TypeOK, NEW w \in Worker, NEW r, CopyOf(r, w), InSync(w),
           NEW e \in Codes, Die(w, r, e)
    PROVE  Dies(w)
<1>1. r \in Runs /\ r.state = row.state /\ r.version = row.version
  BY DEF CopyOf, InSync
<1>2. CASE canTransition(r.state, "failed")
  <2> DEFINE d == [Moved(r, "failed") EXCEPT !.err = e]
  <2>1. d \in Runs /\ d.state = "failed" /\ d.version = row.version + 1
    BY <1>1, MovedTyped, MovedShape, ErrTyped DEF ALL_STATES
  <2>2. Put(w, d) /\ call' = [call EXCEPT ![w].cause = e] /\ Goto(w, "record")
    BY <1>2 DEF Die
  <2> HIDE DEF d
  <2>3. /\ row'.state = "failed" /\ row'.version = d.version /\ run'[w] = d
        /\ \A v \in Worker \ {w} : run'[v] = run[v]
    BY <2>1, <2>2, PutLands
  <2>4. \A v \in Worker \ {w} : call'[v] = call[v]
    BY <2>2 DEF TypeOK
  <2>5. QED
    BY <1>1, <1>2, <2>1, <2>2, <2>3, <2>4, GotoShape DEF Dies, MovesTo, Others, InSync
<1>3. CASE ~canTransition(r.state, "failed")
  BY <1>3, GotoShape DEF Die, Stay, stored, Dies, StaysAt, Others
<1>4. QED
  BY <1>2, <1>3

LEMMA AdvanceShape ==
    ASSUME TypeOK, NEW w \in Worker, NEW r, CopyOf(r, w), InSync(w),
           NEW to, NEW next, NEW c, Advance(w, r, to, next, c)
    PROVE  \/ MovesTo(w, to, next) /\ call'[w] = c
           \/ Dies(w) /\ ~canTransition(row.state, to)
<1>1. r \in Runs /\ r.state = row.state /\ r.version = row.version
  BY DEF CopyOf, InSync
<1>2. CASE canTransition(r.state, to)
  <2> DEFINE d == Moved(r, to)
  <2>1. d \in Runs /\ d.state = to /\ d.version = row.version + 1
    BY <1>1, <1>2, MovedTyped, MovedShape, TableTyped
  <2>2. Put(w, d) /\ call' = [call EXCEPT ![w] = c] /\ Goto(w, next)
    BY <1>2 DEF Advance
  <2> HIDE DEF d
  <2>3. /\ row'.state = to /\ row'.version = d.version /\ run'[w] = d
        /\ \A v \in Worker \ {w} : run'[v] = run[v]
    BY <2>1, <2>2, PutLands
  <2>4. call'[w] = c /\ \A v \in Worker \ {w} : call'[v] = call[v]
    BY <2>2 DEF TypeOK
  <2>5. QED
    BY <1>1, <1>2, <2>1, <2>2, <2>3, <2>4, GotoShape DEF MovesTo, Others, InSync
<1>3. CASE ~canTransition(r.state, to)
  BY <1>1, <1>3, DieShape DEF Advance, Codes, LaneFailureCodes
<1>4. QED
  BY <1>2, <1>3

LEMMA HoldAndStopShape ==
    ASSUME TypeOK, NEW w \in Worker, NEW r, CopyOf(r, w), InSync(w),
           NEW e \in Codes, NEW cause \in Codes, HoldAndStop(w, r, e, cause)
    PROVE  /\ Holds(w)
           /\ canTransition(row.state, "recovering") \/ row.state \in Waiting => Parks(w)
<1>1. CASE r.state \in {"recovering", "refund_pending"}
  <2> DEFINE c == Recovering(w, e, cause, FALSE)
  <2>1. Stay /\ call' = [call EXCEPT ![w] = c] /\ Goto(w, "hold")
    BY <1>1 DEF HoldAndStop
  <2> HIDE DEF c
  <2>2. QED
    BY <1>1, <2>1, GotoShape DEF Stay, stored, TypeOK, Holds, Parks, Waiting, StaysAt, Others, CopyOf, InSync
<1>2. CASE r.state \notin {"recovering", "refund_pending"}
  <2>1. Advance(w, r, "recovering", "hold", Recovering(w, e, cause, FALSE))
    BY <1>2 DEF HoldAndStop
  <2>2. QED
    BY <1>2, <2>1, AdvanceShape DEF Holds, Parks, Waiting, CopyOf, InSync
<1>3. QED
  BY <1>1, <1>2

LEMMA FinishFailureShape ==
    ASSUME TypeOK, NEW w \in Worker, NEW r, CopyOf(r, w), InSync(w),
           NEW e \in Codes, NEW term \in BOOLEAN, FinishFailure(w, r, e, term)
    PROVE  /\ Fails(w)
           /\ ~Excused /\ canTransition(row.state, "recovering") =>
                 MovesTo(w, "recovering", "refund") \/ Parks(w)
<1>1. CASE Rollback = "refund_sender"
  <2>1. Advance(w, r, "recovering", "refund", Recovering(w, e, e, term))
    BY <1>1 DEF FinishFailure
  <2>2. QED
    BY <2>1, AdvanceShape DEF Fails, Holds
<1>2. CASE Rollback = "hold"
  BY <1>2, HoldAndStopShape DEF FinishFailure, Fails
<1>3. CASE Rollback \notin {"refund_sender", "hold"}
  BY <1>3, DieShape DEF FinishFailure, Fails, Holds, Excused
<1>4. QED
  BY <1>1, <1>2, <1>3

-----------------------------------------------------------------------------
(* Steps that neither pay, nor refund, nor report *)

(* What such a step must respect to keep Safe. *)
Careful(w) ==
    /\ UNCHANGED <<pay, refunds, counted>>
    /\ Others(w)
    /\ Live(w) /\ pc[w] \notin {"claim", "record"}
    /\ pc'[w] \notin {"idle", "claim", "confirm"}
    /\ pc'[w] # "done" => InSync(w)'
    /\ row'.state = row.state \/ canTransition(row.state, row'.state)
    /\ row'.state = "retrying" => row.state = "retrying" \/ NothingSent
    /\ AboutToPay(w)' => NothingSent
    /\ pc'[w] \in {"find", "submit"} => row'.state = "settling"
    /\ pc'[w] \in {"unsettled", "lookup"} => row'.state \in BeforePaying \cup {"settling"}
    /\ pc'[w] = "refund" => row.state \notin AfterRecovery /\ row'.state = "recovering"
    /\ pc'[w] = "record" <=> isTerminal(row'.state)

LEMMA SentNothing ==
    ASSUME UNCHANGED pay
    PROVE  /\ NothingSent' = NothingSent /\ NoDoublePayment' = NoDoublePayment
           /\ \A p : MayMove(p)' = MayMove(p)
BY DEF NothingSent, NoDoublePayment, MayMove

LEMMA Running ==
    ASSUME TypeOK, Safe, NEW w \in Worker, Live(w), pc[w] \notin {"claim", "record"}
    PROVE  /\ InSync(w) /\ ~isTerminal(row.state) /\ Reported = 0
           /\ \A v \in Worker \ {w} : ~Live(v)
<1>1. InSync(w) /\ ~isTerminal(row.state) /\ \A v \in Worker \ {w} : ~Live(v)
  BY DEF Safe, Synced, CountOK, Alone, InSync
<1>2. Reported = 0
  <2>1. Reported \in Nat
    BY DEF TypeOK, Reported
  <2>2. QED
    BY <1>1, <2>1 DEF Safe, CountOK
<1>3. QED
  BY <1>1, <1>2

(* The stored state stayed, moved along the table, or was just claimed. *)
Legal ==
    \/ row'.state = row.state
    \/ canTransition(row.state, row'.state)
    \/ row.state = "none" /\ row'.state = "created"

Keeps == Safe' /\ Legal

LEMMA CarefulKeeps ==
    ASSUME TypeOK, TypeOK', Safe, NEW w \in Worker, Careful(w)
    PROVE  Keeps
<1>1. /\ InSync(w) /\ ~isTerminal(row.state) /\ Reported = 0
      /\ \A v \in Worker \ {w} : ~Live(v)
  BY Running DEF Careful
<1>2. \A v \in Worker \ {w} : ~Live(v)'
  BY <1>1 DEF Careful, Others, Live
<1>3. Alone'
  BY <1>2 DEF Alone
<1>4. ClaimOK'
  BY <1>2 DEF ClaimOK, Careful, Live
<1>5. Synced'
  BY <1>2 DEF Synced, Careful, Live, InSync
<1>6. PayOK'
  <2>1. row'.state \in BeforePaying => NothingSent
    BY Table DEF Careful, Safe, PayOK
  <2>2. \A v \in Worker : AboutToPay(v)' => NothingSent
    BY <1>2 DEF Careful, AboutToPay, Live
  <2>3. \A v \in Worker : /\ pc'[v] # "confirm"
                          /\ pc'[v] \in {"find", "submit"} => row'.state = "settling"
    BY <1>2 DEF Careful, Live
  <2>4. \A v \in Worker : pc'[v] \in {"unsettled", "lookup"} =>
           row'.state \in BeforePaying \cup {"settling"}
    BY <1>2 DEF Careful, Live
  <2>5. NoDoublePayment' /\ NothingSent' = NothingSent
    BY SentNothing DEF Careful, Safe, PayOK
  <2>6. QED
    BY <2>1, <2>2, <2>3, <2>4, <2>5 DEF PayOK
<1>7. RefundOK'
  <2>1. refunds' = refunds
    BY DEF Careful
  <2>2. refunds > 0 => row'.state \in AfterRecovery
    BY Table DEF Careful, Safe, RefundOK
  <2>3. \A v \in Worker : pc'[v] = "refund" => refunds = 0 /\ row'.state = "recovering"
    <3>1. refunds \in Nat
      BY DEF TypeOK
    <3>2. pc'[w] = "refund" => refunds = 0 /\ row'.state = "recovering"
      BY <3>1 DEF Careful, Safe, RefundOK
    <3>3. QED
      BY <1>2, <3>2 DEF Live
  <2>4. QED
    BY <2>1, <2>2, <2>3 DEF Safe, RefundOK
<1>8. CountOK'
  <2>1. Reported' = 0
    BY <1>1 DEF Reported, Careful
  <2>2. \A v \in Worker : Live(v)' /\ isTerminal(row'.state) => pc'[v] = "record"
    BY <1>2 DEF Careful
  <2>3. \A v \in Worker : pc'[v] = "record" => isTerminal(row'.state)
    BY <1>2 DEF Careful, Live
  <2>4. QED
    BY <2>1, <2>2, <2>3 DEF CountOK
<1>9. QED
  BY <1>3, <1>4, <1>5, <1>6, <1>7, <1>8 DEF Safe, Keeps, Legal, Careful

(* A move to a state that is not terminal, or to one on the way to report. *)
LEMMA MovesCareful ==
    ASSUME TypeOK, Safe, NEW w \in Worker, Live(w), pc[w] \notin {"claim", "record"},
           UNCHANGED <<pay, refunds, counted>>, NEW to, NEW next, MovesTo(w, to, next),
           next \notin {"idle", "claim", "confirm"},
           next \in {"unsettled", "lookup"} => to \in BeforePaying,
           to = "retrying" => NothingSent,
           AboutToPay(w)' => NothingSent,
           next \in {"find", "submit"} => to = "settling",
           next = "refund" => to = "recovering",
           next = "record" <=> isTerminal(to)
    PROVE  Careful(w)
BY Table DEF Careful, MovesTo

LEMMA DoneCareful ==
    ASSUME TypeOK, Safe, NEW w \in Worker, Live(w), pc[w] \notin {"claim", "record"},
           UNCHANGED <<pay, refunds, counted>>, StaysAt(w, "done")
    PROVE  Careful(w)
<1>1. ~isTerminal(row.state)
  BY Running
<1>2. QED
  BY <1>1 DEF Careful, StaysAt, AboutToPay, Safe, PayOK, BeforePaying

LEMMA DiesCareful ==
    ASSUME TypeOK, Safe, NEW w \in Worker, Live(w), pc[w] \notin {"claim", "record"},
           UNCHANGED <<pay, refunds, counted>>, Dies(w)
    PROVE  Careful(w)
BY DoneCareful, MovesCareful DEF Dies, MovesTo, AboutToPay, isTerminal, TERMINAL

LEMMA HoldsCareful ==
    ASSUME TypeOK, Safe, NEW w \in Worker, Live(w), pc[w] \notin {"claim", "record"},
           UNCHANGED <<pay, refunds, counted>>, Holds(w)
    PROVE  Careful(w)
<1>1. CASE MovesTo(w, "recovering", "hold")
  BY <1>1, MovesCareful DEF MovesTo, AboutToPay, isTerminal, TERMINAL
<1>2. CASE StaysAt(w, "hold")
  <2>1. InSync(w) /\ ~isTerminal(row.state)
    BY Running
  <2>2. QED
    BY <1>2, <2>1 DEF Careful, StaysAt, AboutToPay, InSync
<1>3. QED
  BY <1>1, <1>2, DiesCareful DEF Holds, Parks

LEMMA FailsCareful ==
    ASSUME TypeOK, Safe, NEW w \in Worker, Live(w), pc[w] \notin {"claim", "record"},
           UNCHANGED <<pay, refunds, counted>>, Fails(w)
    PROVE  Careful(w)
<1>1. CASE MovesTo(w, "recovering", "refund")
  BY <1>1, MovesCareful DEF MovesTo, AboutToPay, isTerminal, TERMINAL
<1>2. QED
  BY <1>1, HoldsCareful DEF Fails

(* Going on without a write, to a place no part of Safe restricts. *)
LEMMA GoesOnCareful ==
    ASSUME TypeOK, Safe, NEW w \in Worker, Live(w), pc[w] \notin {"claim", "record"},
           UNCHANGED <<pay, refunds, counted>>, NEW next, StaysAt(w, next),
           next \notin {"idle", "claim", "confirm", "refund", "record"},
           AboutToPay(w)' => NothingSent,
           next \in {"find", "submit"} => row.state = "settling",
           next \in {"unsettled", "lookup"} => row.state \in BeforePaying \cup {"settling"}
    PROVE  Careful(w)
<1>1. InSync(w) /\ ~isTerminal(row.state)
  BY Running
<1>2. QED
  BY <1>1 DEF Careful, StaysAt, InSync

LEMMA Copies ==
    ASSUME TypeOK, NEW w \in Worker
    PROVE  /\ CopyOf(run[w], w)
           /\ \A e \in Codes : CopyOf([run[w] EXCEPT !.err = e], w)
           /\ \A k \in Instructions : CopyOf([run[w] EXCEPT !.instr = k], w)
           /\ CopyOf([run[w] EXCEPT !.ref = RefKind(run[w])], w)
           /\ \A b \in BOOLEAN, e \in Codes :
                 CopyOf([run[w] EXCEPT !.refund = b, !.err = e], w)
<1>1. run[w] \in Runs
  BY LocalsTyped
<1>2. /\ \A e \in Codes : [run[w] EXCEPT !.err = e] \in Runs
      /\ \A k \in Instructions : [run[w] EXCEPT !.instr = k] \in Runs
      /\ [run[w] EXCEPT !.ref = RefKind(run[w])] \in Runs
      /\ \A b \in BOOLEAN, e \in Codes :
            [run[w] EXCEPT !.refund = b, !.err = e] \in Runs
  BY <1>1, Zenon DEF Runs, RefKind
<1>3. QED
  BY <1>1, <1>2 DEF CopyOf, Runs

LEMMA CopyWithDeposit ==
    ASSUME TypeOK, NEW w \in Worker
    PROVE  CopyOf([run[w] EXCEPT !.src = TRUE], w)
<1>1. run[w] \in Runs
  BY LocalsTyped
<1>2. QED
  BY <1>1, Zenon DEF CopyOf, Runs

LEMMA CopyWithRefund ==
    ASSUME TypeOK, NEW w \in Worker
    PROVE  CopyOf([run[w] EXCEPT !.refund = TRUE], w)
<1>1. run[w] \in Runs
  BY LocalsTyped
<1>2. QED
  BY <1>1, Zenon DEF CopyOf, Runs

-----------------------------------------------------------------------------
(* The shared operators keep Safe *)

(* A call that is past its claim and has not resolved its run, in a step   *)
(* that neither pays, nor refunds, nor reports.                            *)
Quiet(w) ==
    /\ Live(w) /\ pc[w] \notin {"claim", "record"}
    /\ UNCHANGED <<pay, refunds, counted>>

LEMMA AdvanceSafe ==
    ASSUME TypeOK, TypeOK', Safe, NEW w \in Worker, Quiet(w), NEW r, CopyOf(r, w),
           NEW to, NEW next, NEW c, Advance(w, r, to, next, c),
           next \notin {"idle", "claim", "confirm", "refund"},
           next \in {"unsettled", "lookup"} => to \in BeforePaying,
           to = "retrying" => NothingSent,
           next \in {"find", "submit", "recomply", "ready"} => NothingSent,
           next = "enter" => c.found \/ NothingSent,
           next \in {"find", "submit"} => to = "settling",
           next = "record" <=> isTerminal(to)
    PROVE  Keeps
<1>1. InSync(w)
  BY Running DEF Quiet
<1>2. CASE MovesTo(w, to, next) /\ call'[w] = c
  <2>1. AboutToPay(w)' => NothingSent
    BY <1>2 DEF AboutToPay, MovesTo
  <2>2. Careful(w)
    BY <1>2, <2>1, MovesCareful DEF Quiet
  <2>3. QED
    BY <2>2, CarefulKeeps
<1>3. CASE Dies(w)
  BY <1>3, DiesCareful, CarefulKeeps DEF Quiet
<1>4. QED
  BY <1>1, <1>2, <1>3, AdvanceShape

LEMMA DieSafe ==
    ASSUME TypeOK, TypeOK', Safe, NEW w \in Worker, Quiet(w), NEW r, CopyOf(r, w),
           NEW e \in Codes, Die(w, r, e)
    PROVE  Keeps
BY Running, DieShape, DiesCareful, CarefulKeeps DEF Quiet

LEMMA HoldAndStopSafe ==
    ASSUME TypeOK, TypeOK', Safe, NEW w \in Worker, Quiet(w), NEW r, CopyOf(r, w),
           NEW e \in Codes, NEW cause \in Codes, HoldAndStop(w, r, e, cause)
    PROVE  Keeps
BY Running, HoldAndStopShape, HoldsCareful, CarefulKeeps DEF Quiet

LEMMA FinishFailureSafe ==
    ASSUME TypeOK, TypeOK', Safe, NEW w \in Worker, Quiet(w), NEW r, CopyOf(r, w),
           NEW e \in Codes, NEW term \in BOOLEAN, FinishFailure(w, r, e, term)
    PROVE  Keeps
BY Running, FinishFailureShape, FailsCareful, CarefulKeeps DEF Quiet

LEMMA QuoteExpiredSafe ==
    ASSUME TypeOK, TypeOK', Safe, NEW w \in Worker, Quiet(w), NEW r, CopyOf(r, w),
           QuoteExpired(w, r)
    PROVE  Keeps
BY HoldAndStopSafe, FinishFailureSafe DEF QuoteExpired, Codes, NeutralCodes

(* The locals of the call become c. *)
Locals(w, c) == call' = [call EXCEPT ![w] = c]

(* Going on without a write; the call's locals may change. *)
LEMMA GoOnSafe ==
    ASSUME TypeOK, TypeOK', Safe, NEW w \in Worker, Quiet(w), Stay,
           NEW c, Locals(w, c), NEW next, Goto(w, next),
           next \notin {"idle", "claim", "confirm", "refund", "record"},
           next \in {"find", "submit", "recomply", "ready"} => NothingSent,
           next = "enter" => c.found \/ NothingSent,
           next \in {"find", "submit"} => row.state = "settling",
           next \in {"unsettled", "lookup"} => row.state \in BeforePaying \cup {"settling"}
    PROVE  Keeps
<1>1. StaysAt(w, next) /\ call'[w] = c
  BY GotoShape DEF Stay, stored, StaysAt, Others, TypeOK, Locals
<1>2. AboutToPay(w)' => NothingSent
  BY <1>1 DEF AboutToPay, StaysAt
<1>3. QED
  BY <1>1, <1>2, GoesOnCareful, CarefulKeeps DEF Quiet

LEMMA SameCall ==
    ASSUME TypeOK, NEW w \in Worker, UNCHANGED call
    PROVE  Locals(w, call[w])
BY DEF TypeOK, Locals

(* The places of a call that Safe says nothing about. *)
Plain ==
    {"comply", "open", "opened", "deposit", "deposited", "await_deposit", "loop",
     "gate", "refused", "verified", "paid", "verify", "reconcile", "complete",
     "watch", "hold", "refunded"}

LEMMA MoveOnSafe ==
    ASSUME TypeOK, TypeOK', Safe, NEW w \in Worker, Quiet(w), NEW r, CopyOf(r, w),
           NEW to, ~isTerminal(to), to # "retrying", NEW next \in Plain, NEW c,
           Advance(w, r, to, next, c)
    PROVE  Keeps
BY AdvanceSafe DEF Plain

LEMMA ResolveSafe ==
    ASSUME TypeOK, TypeOK', Safe, NEW w \in Worker, Quiet(w), NEW r, CopyOf(r, w),
           NEW to \in TERMINAL, NEW c, Advance(w, r, to, "record", c)
    PROVE  Keeps
<1>1. InSync(w)
  BY Running DEF Quiet
<1>2. CASE MovesTo(w, to, "record")
  <2>1. ~AboutToPay(w)' /\ isTerminal(to) /\ to \notin {"retrying", "recovering"}
    BY <1>2 DEF AboutToPay, MovesTo, isTerminal, TERMINAL
  <2>2. Careful(w)
    BY <1>2, <2>1, MovesCareful DEF Quiet
  <2>3. QED
    BY <2>2, CarefulKeeps
<1>3. CASE Dies(w)
  BY <1>3, DiesCareful, CarefulKeeps DEF Quiet
<1>4. QED
  BY <1>1, <1>2, <1>3, AdvanceShape

LEMMA EnterSafe ==
    ASSUME TypeOK, TypeOK', Safe, NEW w \in Worker, Quiet(w), NEW r, CopyOf(r, w),
           NEW to \in {"verifying", "settling"}, NEW c, Advance(w, r, to, "enter", c),
           c.found \/ NothingSent
    PROVE  Keeps
<1>1. ~isTerminal(to) /\ to # "retrying"
  BY DEF isTerminal, TERMINAL
<1>2. QED
  BY <1>1, AdvanceSafe

LEMMA PassWithSafe ==
    ASSUME TypeOK, TypeOK', Safe, NEW w \in Worker, Quiet(w), Stay, NEW c, Locals(w, c),
           NEW next \in Plain, Goto(w, next)
    PROVE  Keeps
BY GoOnSafe DEF Plain

LEMMA PassOnSafe ==
    ASSUME TypeOK, TypeOK', Safe, NEW w \in Worker, Quiet(w), Stay, UNCHANGED call,
           NEW next \in Plain, Goto(w, next)
    PROVE  Keeps
BY GoOnSafe, SameCall DEF Plain

LEMMA LookSafe ==
    ASSUME TypeOK, TypeOK', Safe, NEW w \in Worker, Quiet(w), Stay, UNCHANGED call,
           NEW next \in {"unsettled", "lookup"}, Goto(w, next),
           row.state \in BeforePaying \cup {"settling"}
    PROVE  Keeps
BY GoOnSafe, SameCall

(* Only a field of the call's own copy of the run changed. *)
LEMMA NoteSafe ==
    ASSUME TypeOK, TypeOK', Safe, NEW w \in Worker, Quiet(w), UNCHANGED <<row, call>>,
           NEW r, CopyOf(r, w), run' = [run EXCEPT ![w] = r],
           NEW next \in Plain, Goto(w, next)
    PROVE  Keeps
<1>1. InSync(w) /\ ~isTerminal(row.state)
  BY Running DEF Quiet
<1>2. run'[w] = r /\ \A v \in Worker \ {w} : run'[v] = run[v]
  BY DEF TypeOK
<1>3. pc'[w] = next /\ \A v \in Worker \ {w} : pc'[v] = pc[v]
  BY GotoShape
<1>4. InSync(w)'
  BY <1>1, <1>2 DEF InSync, CopyOf
<1>5. Careful(w)
  BY <1>1, <1>2, <1>3, <1>4 DEF Quiet, Careful, Others, AboutToPay, Plain
<1>6. QED
  BY <1>5, CarefulKeeps

LEMMA ReturnSafe ==
    ASSUME TypeOK, TypeOK', Safe, NEW w \in Worker, Quiet(w), Return(w)
    PROVE  Keeps
BY GoOnSafe, SameCall DEF Return

-----------------------------------------------------------------------------
(* Every action keeps Safe *)

LEMMA Unsent ==
    ASSUME Safe, row.state \in BeforePaying
    PROVE  NothingSent
BY DEF Safe, PayOK

LEMMA FreshSafe ==
    ASSUME TypeOK, TypeOK', Safe, NEW w \in Worker, Fresh(w)
    PROVE  Keeps
<1> USE DEF Quiet, Live
<1>1. CASE Claim(w)
  <2>1. row.state = "none"
    BY <1>1 DEF Claim, Safe, ClaimOK
  <2> DEFINE r == [NoRun EXCEPT !.state = "created", !.man = call[w].man]
  <2>2. row' = r /\ run' = [run EXCEPT ![w] = r] /\ Goto(w, "route") /\ UNCHANGED <<call, network, counted>>
    BY <1>1, <2>1 DEF Claim
  <2>3. r.state = "created"
    BY DEF NoRun
  <2> HIDE DEF r
  <2>4. /\ pc'[w] = "route" /\ \A v \in Worker \ {w} : pc'[v] = pc[v]
        /\ run'[w] = row'
    BY <2>2, GotoShape DEF TypeOK
  <2>5. \A v \in Worker \ {w} : ~Live(v)'
    BY <1>1, <2>4 DEF Claim, Safe, Alone
  <2>6. NothingSent /\ UNCHANGED <<pay, refunds>> /\ Reported' = Reported
    BY <2>1, <2>2, Unsent DEF BeforePaying, network, Reported
  <2>7. Reported = 0 /\ refunds = 0
    BY <2>1 DEF Safe, CountOK, RefundOK, isTerminal, TERMINAL, AfterRecovery, TypeOK, Reported
  <2>8. Alone' /\ ClaimOK' /\ Synced'
    BY <2>4, <2>5 DEF Alone, ClaimOK, Synced
  <2>9. PayOK'
    BY <2>2, <2>3, <2>4, <2>5, <2>6, SentNothing DEF PayOK, AboutToPay, Safe, BeforePaying
  <2>10. RefundOK' /\ CountOK'
    BY <2>2, <2>3, <2>4, <2>5, <2>6, <2>7 DEF RefundOK, CountOK, isTerminal, TERMINAL
  <2>11. QED
    BY <2>1, <2>2, <2>3, <2>8, <2>9, <2>10 DEF Safe, Keeps, Legal
<1> USE Copies, CodesUsed DEF network, isTerminal, TERMINAL
<1>2. CASE SetupFails(w)
  BY <1>2, DieSafe DEF SetupFails
<1>3. CASE Quote(w)
  BY <1>3, MoveOnSafe DEF Quote, Plain
<1>4. CASE Comply(w)
  BY <1>4, MoveOnSafe DEF Comply, Plain
<1>5. CASE Open(w)
  BY <1>5, MoveOnSafe DEF Open, Plain
<1>6. CASE EnterFunding(w)
  BY <1>6, PassOnSafe, DieSafe, MoveOnSafe DEF EnterFunding, Plain
<1>7. CASE OpenDeposit(w)
  <2>1. CASE FinishFailure(w, run[w], "ANCHOR_UNAVAILABLE", FALSE) /\ UNCHANGED network
    BY <1>7, <2>1, FinishFailureSafe DEF OpenDeposit
  <2>2. CASE /\ run' = [run EXCEPT ![w].src = TRUE]
             /\ Goto(w, "deposited")
             /\ UNCHANGED <<row, call, pay, anchor, refunds>>
    <3>1. CopyOf([run[w] EXCEPT !.src = TRUE], w)
      BY CopyWithDeposit
    <3>2. run' = [run EXCEPT ![w] = [run[w] EXCEPT !.src = TRUE]]
      BY <2>2, Zenon DEF TypeOK
    <3>3. QED
      BY <1>7, <2>2, <3>1, <3>2, NoteSafe DEF OpenDeposit, Plain
  <2>3. QED
    BY <1>7, <2>1, <2>2 DEF OpenDeposit
<1>8. CASE RecordDeposit(w)
  <2> DEFINE r == [run[w] EXCEPT !.version = @ + 1]
  <2>1. InSync(w) /\ ~isTerminal(row.state)
    BY <1>8, Running DEF RecordDeposit
  <2>2. r.state = row.state /\ r.version = row.version + 1
    BY <2>1, NextVersion, LocalsTyped DEF InSync
  <2>3. r \in Runs
    BY NextVersion, LocalsTyped
  <2>4. Put(w, r) /\ Goto(w, "await_deposit") /\ UNCHANGED <<call, pay, refunds, counted>>
    BY <1>8 DEF RecordDeposit
  <2> HIDE DEF r
  <2>5. /\ row'.state = row.state /\ row'.version = r.version /\ run'[w] = r
        /\ \A v \in Worker \ {w} : run'[v] = run[v]
    BY <2>2, <2>3, <2>4, PutLands
  <2>6. pc'[w] = "await_deposit" /\ \A v \in Worker \ {w} : pc'[v] = pc[v]
    BY <2>4, GotoShape
  <2>7. InSync(w)'
    BY <2>2, <2>5 DEF InSync
  <2>8. Careful(w)
    BY <1>8, <2>1, <2>4, <2>5, <2>6, <2>7 DEF RecordDeposit, Careful, Others, AboutToPay
  <2>9. QED
    BY <2>8, CarefulKeeps
<1>9. CASE AwaitDeposit(w)
  <2>1. call[w].next \in {"loop", "unsettled", "ready"}
    BY LocalsTyped, Zenon DEF Calls
  <2>2. ASSUME Advance(w, run[w], "funded", call[w].next, call[w])
        PROVE  Keeps
    <3>1. canTransition(run[w].state, "funded") => NothingSent
      BY <1>9, Running, Table, Unsent DEF AwaitDeposit, InSync, BeforePaying
    <3>2. CASE canTransition(run[w].state, "funded")
      BY <1>9, <2>1, <2>2, <3>1, <3>2, AdvanceSafe DEF AwaitDeposit, BeforePaying
    <3>3. CASE ~canTransition(run[w].state, "funded")
      BY <1>9, <2>2, <3>3, DieSafe DEF AwaitDeposit, Advance, Codes, LaneFailureCodes
    <3>4. QED
      BY <3>2, <3>3
  <2>3. QED
    BY <1>9, <2>2, FinishFailureSafe DEF AwaitDeposit
<1>10. CASE LoopHead(w)
  BY <1>10, FinishFailureSafe, QuoteExpiredSafe, DieSafe, PassOnSafe DEF LoopHead, Plain
<1>11. CASE Gate(w)
  BY <1>11, MoveOnSafe DEF Gate, Plain
<1>12. CASE GateRefused(w)
  BY <1>12, HoldAndStopSafe, DieSafe, LocalsTyped DEF GateRefused
<1>13. CASE EnterSettling(w)
  <2> DEFINE next == IF HasFindExisting /\ run[w].instr = "stellar_payment" THEN "find" ELSE "submit"
  <2>1. ASSUME Advance(w, run[w], "settling", next, call[w])
        PROVE  Keeps
    <3>1. canTransition(run[w].state, "settling") => NothingSent
      BY <1>13, Running, Table, Unsent DEF EnterSettling, InSync, BeforePaying
    <3>2. CASE canTransition(run[w].state, "settling")
      <4>1. next \in {"find", "submit"} /\ ~isTerminal("settling") /\ CopyOf(run[w], w)
        OBVIOUS
      <4> HIDE DEF next
      <4>2. QED
        BY <1>13, <2>1, <3>1, <3>2, <4>1, AdvanceSafe DEF EnterSettling
    <3>3. CASE ~canTransition(run[w].state, "settling")
      BY <1>13, <2>1, <3>3, DieSafe DEF EnterSettling, Advance, Codes, LaneFailureCodes
    <3>4. QED
      BY <3>2, <3>3
  <2>2. QED
    BY <1>13, <2>1, DieSafe, QuoteExpiredSafe DEF EnterSettling
<1>14. CASE FindExisting(w)
  <2>1. NothingSent /\ row.state = "settling"
    BY <1>14 DEF FindExisting, Safe, PayOK, AboutToPay
  <2>2. QED
    BY <1>14, <2>1, GoOnSafe, SameCall, FinishFailureSafe DEF FindExisting
<1>15. QED
  BY <1>1, <1>2, <1>3, <1>4, <1>5, <1>6, <1>7, <1>8, <1>9, <1>10, <1>11,
     <1>12, <1>13, <1>14 DEF Fresh

LEMMA SettleFailedSafe ==
    ASSUME TypeOK, TypeOK', Safe, NEW w \in Worker, Quiet(w), NEW e \in Codes,
           NEW retryable, SettleFailed(w, e, retryable), retryable => NothingSent
    PROVE  Keeps
<1>1. CASE ~call[w].resumed /\ retryable /\ call[w].attempt < MaxRetries
  <2> DEFINE c == [call[w] EXCEPT !.attempt = @ + 1]
  <2>1. Advance(w, run[w], "retrying", "loop", c) /\ NothingSent
    BY <1>1 DEF SettleFailed
  <2>2. ~isTerminal("retrying") /\ CopyOf(run[w], w)
    BY Copies DEF isTerminal, TERMINAL
  <2> HIDE DEF c
  <2>3. QED
    BY <2>1, <2>2, AdvanceSafe
<1>2. CASE ~(~call[w].resumed /\ retryable /\ call[w].attempt < MaxRetries)
  BY <1>2, Copies, FinishFailureSafe DEF SettleFailed
<1>3. QED
  BY <1>1, <1>2

LEMMA EnvelopeTyped ==
    ASSUME TypeOK, NEW w \in Worker
    PROVE  Envelope(w) \in Envelopes
<1>1. call[w].attempt \in 0 .. MaxRetries
  BY LocalsTyped, Zenon DEF Calls
<1>2. QED
  BY <1>1 DEF Envelope, Envelopes

LEMMA SettlingSafe ==
    ASSUME TypeOK, TypeOK', Safe, NEW w \in Worker, Settling(w)
    PROVE  Keeps
<1> USE DEF Quiet, Live
<1>1. CASE Submit(w)
  <2>1. NothingSent /\ Live(w) /\ pc[w] \notin {"claim", "record"}
    BY <1>1 DEF Submit, Safe, PayOK, AboutToPay
  <2>2. /\ InSync(w) /\ ~isTerminal(row.state) /\ Reported = 0
        /\ \A v \in Worker \ {w} : ~Live(v)
    BY <2>1, Running
  <2>3. pc'[w] \in {"paid", "confirm"} /\ \A v \in Worker \ {w} : pc'[v] = pc[v]
    BY <1>1, GotoShape DEF Submit
  <2>4. \A v \in Worker \ {w} : ~Live(v)'
    BY <2>2, <2>3
  <2>5. UNCHANGED <<row, run, call, refunds, counted>>
    BY <1>1 DEF Submit, stored
  <2>6. \A p \in Envelopes : MayMove(p)' => p = Envelope(w)
    BY <1>1, <2>1, EnvelopeTyped DEF Submit, NothingSent, MayMove, TypeOK
  <2>7. row.state = "settling"
    BY <1>1 DEF Submit, Safe, PayOK
  <2>8. pc'[w] = "confirm" => \A p \in Envelopes : MayMove(p)' => p = Envelope(w)'
    BY <2>5, <2>6 DEF Envelope
  <2>9. Alone' /\ ClaimOK' /\ Synced'
    BY <2>2, <2>3, <2>4, <2>5 DEF Alone, ClaimOK, Synced, InSync
  <2>10. PayOK'
    BY <2>3, <2>4, <2>5, <2>6, <2>7, <2>8 DEF PayOK, AboutToPay, NoDoublePayment, BeforePaying
  <2>11. RefundOK' /\ CountOK'
    BY <2>2, <2>3, <2>4, <2>5 DEF Safe, RefundOK, CountOK, Reported
  <2>12. QED
    BY <2>5, <2>9, <2>10, <2>11 DEF Safe, Keeps, Legal
<1> USE Copies, CodesUsed DEF network
<1>2. CASE SubmitRejected(w)
  <2>1. NothingSent
    BY <1>2 DEF SubmitRejected, Safe, PayOK, AboutToPay
  <2>2. QED
    BY <1>2, <2>1, SettleFailedSafe DEF SubmitRejected
<1>3. CASE SubmitAnswered(w)
  <2>1. pay[Envelope(w)] = "dead" => NothingSent
    BY <1>3 DEF SubmitAnswered, Safe, PayOK, NothingSent, MayMove
  <2>2. QED
    BY <1>3, <2>1, PassOnSafe, SettleFailedSafe DEF SubmitAnswered, Plain
<1>4. CASE MarkSettled(w)
  BY <1>4, MoveOnSafe DEF MarkSettled, Plain, isTerminal, TERMINAL
<1>5. CASE VerifyOnChain(w)
  BY <1>5, PassOnSafe, HoldAndStopSafe, FinishFailureSafe DEF VerifyOnChain, Plain
<1>6. CASE Reconcile(w)
  BY <1>6, MoveOnSafe, FinishFailureSafe DEF Reconcile, Plain, isTerminal, TERMINAL
<1>7. CASE Complete(w)
  <2> DEFINE c == [call[w] EXCEPT !.cause = "none"]
  <2>1. Advance(w, run[w], "completed", "record", c) /\ Quiet(w)
    BY <1>7 DEF Complete
  <2> HIDE DEF c, Quiet
  <2>2. QED
    BY <2>1, ResolveSafe DEF TERMINAL
<1>8. QED
  BY <1>1, <1>2, <1>3, <1>4, <1>5, <1>6, <1>7 DEF Settling

LEMMA ResumingSafe ==
    ASSUME TypeOK, TypeOK', Safe, NEW w \in Worker, Resuming(w)
    PROVE  Keeps
<1> USE Copies, CodesUsed DEF Quiet, Live, network
<1>1. CASE ResumeRefused(w)
  BY <1>1, DieSafe, ReturnSafe DEF ResumeRefused
<1>2. CASE ResumeFails(w)
  BY <1>2, DieSafe DEF ResumeFails
<1>3. CASE ResumeAt(w)
  <2>1. InSync(w) /\ Quiet(w)
    BY <1>3, Running DEF ResumeAt, ResumeSettled
  <2>2. CASE /\ call' = [call EXCEPT ![w].next = "unsettled"]
             /\ Goto(w, IF run[w].src THEN "await_deposit" ELSE "deposit")
    <3>1. Locals(w, [call[w] EXCEPT !.next = "unsettled"])
      BY <2>2, Zenon DEF TypeOK, Locals
    <3>2. QED
      BY <1>3, <2>1, <2>2, <3>1, GoOnSafe DEF ResumeAt, ResumeSettled
  <2>3. CASE /\ run[w].state \in {"opened", "funded", "retrying", "verifying", "settling"}
             /\ Goto(w, "unsettled") /\ UNCHANGED call
    <3>1. row.state \in BeforePaying \cup {"settling"}
      BY <2>1, <2>3 DEF InSync, BeforePaying
    <3>2. QED
      BY <1>3, <2>1, <2>3, <3>1, LookSafe DEF ResumeAt, ResumeSettled
  <2>4. CASE \E p \in {"verify", "complete"} : Goto(w, p) /\ UNCHANGED call
    BY <1>3, <2>1, <2>4, PassOnSafe DEF ResumeAt, ResumeSettled, Plain
  <2>5. QED
    BY <1>3, <2>2, <2>3, <2>4 DEF ResumeAt, ResumeSettled
<1>4. CASE ResumeRecovery(w)
  <2> DEFINE c == [call[w] EXCEPT !.cause =
                      recoveredBreakerCause(run[w].err, "RECONCILE_MISMATCH")]
  <2>1. \/ Advance(w, run[w], "refunded", "record", c)
        \/ Advance(w, run[w], "refund_pending", "watch", c)
        \/ Stay /\ call' = [call EXCEPT ![w] = c] /\ Goto(w, "watch")
    BY <1>4, Zenon DEF ResumeRecovery, c
  <2> HIDE DEF c
  <2>2. Quiet(w) /\ CopyOf(run[w], w)
    BY <1>4 DEF ResumeRecovery
  <2>3. isTerminal("refunded") /\ ~isTerminal("refund_pending")
    BY DEF isTerminal, TERMINAL
  <2> HIDE DEF Quiet
  <2>4. CASE Advance(w, run[w], "refunded", "record", c)
    BY <2>2, <2>4, ResolveSafe DEF TERMINAL
  <2>5. CASE Advance(w, run[w], "refund_pending", "watch", c)
    BY <2>2, <2>3, <2>5, MoveOnSafe DEF Plain
  <2>6. CASE Stay /\ call' = [call EXCEPT ![w] = c] /\ Goto(w, "watch")
    <3>1. Locals(w, c)
      BY <2>6 DEF Locals
    <3>2. QED
      BY <2>2, <2>6, <3>1, PassWithSafe DEF Plain
  <2>7. QED
    BY <2>1, <2>4, <2>5, <2>6
<1>5. CASE ResumeUnsettled(w)
  <2>1. row.state \in BeforePaying \cup {"settling"}
    BY <1>5 DEF ResumeUnsettled, Safe, PayOK
  <2>2. QED
    BY <1>5, <2>1, ReturnSafe, HoldAndStopSafe, LookSafe DEF ResumeUnsettled
<1>6. CASE LookupFound(w)
  <2>1. CASE Stay /\ call' = [call EXCEPT ![w].found = TRUE] /\ Goto(w, "enter")
    <3> DEFINE c == [call[w] EXCEPT !.found = TRUE]
    <3>1. Locals(w, c)
      BY <2>1, Zenon DEF TypeOK, Locals
    <3>2. c.found
      BY LocalsTyped DEF Calls
    <3> HIDE DEF c
    <3>3. Quiet(w)
      BY <1>6 DEF LookupFound
    <3> HIDE DEF Quiet
    <3>4. QED
      BY <2>1, <3>1, <3>2, <3>3, GoOnSafe
  <2>2. CASE Return(w)
    BY <1>6, <2>2, ReturnSafe DEF LookupFound
  <2>3. QED
    BY <1>6, <2>1, <2>2 DEF LookupFound
<1>7. CASE LookupMissed(w)
  <2>1. run[w].state # "settling" => NothingSent
    BY <1>7, Running DEF LookupMissed, InSync, Safe, PayOK
  <2>2. QED
    BY <1>7, <2>1, ReturnSafe, DieSafe, GoOnSafe, SameCall DEF LookupMissed
<1>8. CASE LookupFails(w)
  BY <1>8, ReturnSafe DEF LookupFails
<1>9. CASE ResumeComply(w)
  <2>1. NothingSent
    BY <1>9 DEF ResumeComply, Safe, PayOK, AboutToPay
  <2>2. QED
    BY <1>9, <2>1, DieSafe, GoOnSafe, SameCall, MoveOnSafe, ReturnSafe
    DEF ResumeComply, Plain, isTerminal, TERMINAL
<1>10. CASE ResumeReady(w)
  <2>1. NothingSent
    BY <1>10 DEF ResumeReady, Safe, PayOK, AboutToPay
  <2>2. QED
    BY <1>10, <2>1, QuoteExpiredSafe, GoOnSafe, SameCall DEF ResumeReady
<1>11. CASE ResumeEnter(w)
  <2>1. /\ call[w].found \/ NothingSent
        /\ Quiet(w) /\ InSync(w) /\ CopyOf(run[w], w)
        /\ ~isTerminal("verifying") /\ ~isTerminal("settling")
    BY <1>11, Running DEF ResumeEnter, Safe, PayOK, AboutToPay, isTerminal, TERMINAL
  <2> HIDE DEF Quiet
  <2>2. \/ \E to \in {"verifying", "settling"} : Advance(w, run[w], to, "enter", call[w])
        \/ /\ run[w].state = "settling" /\ Stay /\ UNCHANGED call
           /\ Goto(w, IF call[w].found THEN "paid" ELSE "submit")
    BY <1>11 DEF ResumeEnter
  <2>3. ASSUME NEW to \in {"verifying", "settling"}, Advance(w, run[w], to, "enter", call[w])
        PROVE  Keeps
    BY <2>1, <2>3, EnterSafe
  <2>4. CASE /\ run[w].state = "settling" /\ Stay /\ UNCHANGED call
             /\ Goto(w, IF call[w].found THEN "paid" ELSE "submit")
    BY <2>1, <2>4, GoOnSafe, SameCall DEF InSync
  <2>5. QED
    BY <2>2, <2>3, <2>4
<1>12. QED
  BY <1>1, <1>2, <1>3, <1>4, <1>5, <1>6, <1>7, <1>8, <1>9, <1>10, <1>11 DEF Resuming

(* Whatever the outcome is, it is added to at most one of the counters. *)
LEMMA CountedMore ==
    ASSUME TypeOK, TypeOK', NEW w \in Worker, RecordOutcome(w), Reported = 0
    PROVE  Reported' <= 1
<1> DEFINE o == breakerOutcomeFor(run[w].state, call[w].cause)
           s == counted["success"]
           f == counted["failure"]
<1>1. counted \in [{"success", "failure"} -> Nat]
  BY DEF TypeOK
<1>2. counted' = [k \in {"success", "failure"} |-> counted[k] + (IF k = o THEN 1 ELSE 0)]
  BY <1>1 DEF RecordOutcome
<1> HIDE DEF o
<1>3. /\ counted'["success"] = s + (IF "success" = o THEN 1 ELSE 0)
      /\ counted'["failure"] = f + (IF "failure" = o THEN 1 ELSE 0)
  BY <1>2
<1>4. s \in Nat /\ f \in Nat /\ s + f = 0
  BY <1>1 DEF Reported
<1>5. Reported' = counted'["success"] + counted'["failure"]
  BY DEF Reported
<1> HIDE DEF s, f
<1>6. QED
  BY <1>3, <1>4, <1>5

(* The step that asks the submitter for a refund. *)
Refunds(w) ==
    /\ refunds' = refunds + 1
    /\ run' = [run EXCEPT ![w].refund = TRUE]
    /\ Goto(w, "refunded")
    /\ UNCHANGED <<row, call, pay, anchor, deposit>>

LEMMA RefundsSafe ==
    ASSUME TypeOK, TypeOK', Safe, NEW w \in Worker, pc[w] = "refund", Refunds(w),
           UNCHANGED counted
    PROVE  Keeps
<1>1. /\ InSync(w) /\ ~isTerminal(row.state) /\ Reported = 0
      /\ \A v \in Worker \ {w} : ~Live(v)
  BY Running DEF Live
<1>2. pc'[w] = "refunded" /\ \A v \in Worker \ {w} : pc'[v] = pc[v]
  BY GotoShape DEF Refunds
<1>3. \A v \in Worker \ {w} : ~Live(v)'
  BY <1>1, <1>2 DEF Live
<1>4. run'[w].state = run[w].state /\ run'[w].version = run[w].version
  <2>1. run' = [run EXCEPT ![w] = [run[w] EXCEPT !.refund = TRUE]]
    BY Zenon DEF Refunds, TypeOK
  <2>2. run'[w] = [run[w] EXCEPT !.refund = TRUE]
    BY <2>1, Zenon DEF TypeOK
  <2>3. QED
    BY <2>2, CopyWithRefund DEF CopyOf
<1>5. row.state \in AfterRecovery /\ refunds = 0
  BY DEF Safe, RefundOK, AfterRecovery
<1>6. row' = row /\ UNCHANGED pay /\ refunds' = 1
  BY <1>5 DEF Refunds
<1>7. Reported' = 0
  BY <1>1 DEF Reported
<1>8. \A v \in Worker : pc'[v] \notin {"refund", "record", "claim", "confirm",
                         "find", "submit", "unsettled", "lookup", "recomply", "ready", "enter"}
  BY <1>2, <1>3 DEF Live
<1>9. Alone' /\ ClaimOK' /\ Synced'
  BY <1>1, <1>3, <1>4, <1>6, <1>8 DEF Alone, ClaimOK, Synced, InSync
<1>10. PayOK'
  <2>1. row.state \notin BeforePaying
    BY <1>5 DEF AfterRecovery, BeforePaying
  <2>2. QED
    BY <1>6, <1>8, <2>1, SentNothing DEF Safe, PayOK, AboutToPay
<1>11. RefundOK'
  BY <1>5, <1>6, <1>8 DEF RefundOK
<1>12. CountOK'
  BY <1>1, <1>6, <1>7, <1>8 DEF CountOK
<1>13. QED
  BY <1>6, <1>9, <1>10, <1>11, <1>12 DEF Safe, Keeps, Legal

LEMMA FailingSafe ==
    ASSUME TypeOK, TypeOK', Safe, NEW w \in Worker, Failing(w)
    PROVE  Keeps
<1> USE Copies, CodesUsed, LocalsTyped DEF Quiet, Live, network
<1>1. CASE Hold(w)
  BY <1>1, ResolveSafe DEF Hold, TERMINAL
<1>2. CASE RefundAnchor(w)
  BY <1>2, MoveOnSafe DEF RefundAnchor, Plain, isTerminal, TERMINAL
<1>3. CASE RefundByOperator(w)
  BY <1>3, HoldAndStopSafe DEF RefundByOperator
<1>4. CASE RefundOnChain(w)
  <2>1. CASE HoldAndStop(w, run[w], "REFUND_UNSUPPORTED", call[w].err) /\ UNCHANGED network
    BY <1>4, <2>1, HoldAndStopSafe DEF RefundOnChain
  <2>2. CASE Refunds(w)
    BY <1>4, <2>2, RefundsSafe DEF RefundOnChain
  <2>3. QED
    BY <1>4, <2>1, <2>2 DEF RefundOnChain, Refunds
<1>5. CASE RefundNothing(w)
  BY <1>5, PassOnSafe DEF RefundNothing, Plain
<1>6. CASE Refunded(w)
  BY <1>6, ResolveSafe DEF Refunded, TERMINAL
<1>7. CASE WatchRefund(w)
  <2>1. ASSUME NEW listed \in BOOLEAN,
               Advance(w, [run[w] EXCEPT !.refund = @ \/ listed,
                                         !.err = IF call[w].resumed THEN "none" ELSE @],
                       "refunded", "record", call[w])
        PROVE  Keeps
    <3> DEFINE r == [run[w] EXCEPT !.refund = @ \/ listed,
                                   !.err = IF call[w].resumed THEN "none" ELSE @]
    <3>1. CopyOf(r, w)
      <4>1. run[w].err \in Codes
        BY DEF Runs
      <4>2. r = [run[w] EXCEPT !.refund = run[w].refund \/ listed,
                               !.err = IF call[w].resumed THEN "none" ELSE run[w].err]
        OBVIOUS
      <4> HIDE DEF r
      <4>3. (IF call[w].resumed THEN "none" ELSE run[w].err) \in Codes
        BY <4>1
      <4>4. (run[w].refund \/ listed) \in BOOLEAN
        OBVIOUS
      <4>5. QED
        BY <4>2, <4>3, <4>4
    <3>2. Advance(w, r, "refunded", "record", call[w]) /\ Quiet(w)
      BY <1>7, <2>1 DEF WatchRefund
    <3> HIDE DEF r, Quiet
    <3>3. QED
      BY <3>1, <3>2, ResolveSafe DEF TERMINAL
  <2>2. QED
    BY <1>7, <2>1, HoldAndStopSafe DEF WatchRefund
<1>8. CASE RecordOutcome(w)
  <2>1. isTerminal(row.state) /\ Reported = 0 /\ \A v \in Worker \ {w} : ~Live(v)
    BY <1>8 DEF RecordOutcome, Safe, CountOK, Alone
  <2>2. pc'[w] = "done" /\ \A v \in Worker \ {w} : pc'[v] = pc[v]
    BY <1>8, GotoShape DEF RecordOutcome
  <2>3. \A v \in Worker : ~Live(v)'
    BY <2>1, <2>2
  <2>4. Reported' <= 1 /\ UNCHANGED <<row, run, call, pay, refunds>>
    BY <1>8, <2>1, CountedMore DEF RecordOutcome, stored
  <2>5. Alone' /\ ClaimOK' /\ Synced'
    BY <2>3 DEF Alone, ClaimOK, Synced
  <2>6. PayOK' /\ RefundOK' /\ CountOK'
    BY <2>1, <2>2, <2>3, <2>4, SentNothing DEF Safe, PayOK, AboutToPay, RefundOK, CountOK
  <2>7. QED
    BY <2>4, <2>5, <2>6 DEF Safe, Keeps, Legal
<1>9. QED
  BY <1>1, <1>2, <1>3, <1>4, <1>5, <1>6, <1>7, <1>8 DEF Failing

LEMMA StartSafe ==
    ASSUME TypeOK, TypeOK', Safe, ~Concurrent, NEW w \in Worker, NEW dry, Start(w, dry)
    PROVE  Keeps
<1>1. \A v \in Worker : ~Live(v)
  BY DEF Start
<1>2. pc'[w] \in {"done", "claim", "resume"} /\ \A v \in Worker \ {w} : pc'[v] = pc[v]
  BY GotoShape DEF Start
<1>3. UNCHANGED <<row, pay, refunds, counted>>
  BY DEF Start, network
<1>4. \A v \in Worker \ {w} : ~Live(v)'
  BY <1>1, <1>2 DEF Live
<1>5. pc'[w] = "claim" => row.state = "none"
  BY <1>2, GotoShape DEF Start
<1>6. pc'[w] = "resume" => run'[w] = row /\ ~isTerminal(row.state)
  BY <1>2, GotoShape DEF Start, TypeOK
<1>7. Alone' /\ ClaimOK' /\ Synced'
  BY <1>2, <1>3, <1>4, <1>5, <1>6 DEF Alone, ClaimOK, Synced, Live
<1>8. PayOK'
  BY <1>2, <1>3, <1>4, SentNothing DEF Safe, PayOK, AboutToPay, Live
<1>9. RefundOK' /\ CountOK'
  BY <1>2, <1>3, <1>4, <1>5, <1>6 DEF Safe, RefundOK, CountOK, Live, Reported, isTerminal, TERMINAL
<1>10. QED
  BY <1>3, <1>7, <1>8, <1>9 DEF Safe, Keeps, Legal

LEMMA CrashSafe ==
    ASSUME TypeOK, TypeOK', Safe, NEW w \in Worker, Crash(w)
    PROVE  Keeps
<1>1. pc'[w] = "crashed" /\ \A v \in Worker \ {w} : pc'[v] = pc[v]
  BY GotoShape DEF Crash
<1>2. UNCHANGED <<row, run, call, pay, refunds, counted>>
  BY DEF Crash, stored, network
<1>3. Alone' /\ ClaimOK' /\ Synced'
  BY <1>1, <1>2 DEF Safe, Alone, ClaimOK, Synced, Live
<1>4. PayOK'
  <2>1. \A v \in Worker : pc'[v] = "confirm" => Envelope(v)' = Envelope(v)
    BY <1>2 DEF Envelope
  <2>2. QED
    BY <1>1, <1>2, <2>1, SentNothing DEF Safe, PayOK, AboutToPay
<1>5. RefundOK' /\ CountOK'
  BY <1>1, <1>2 DEF Safe, RefundOK, CountOK, Live, Reported
<1>6. QED
  BY <1>2, <1>3, <1>4, <1>5 DEF Safe, Keeps, Legal

LEMMA EnvironmentSafe ==
    ASSUME TypeOK, TypeOK', Safe, Environment
    PROVE  Keeps
<1>1. UNCHANGED <<row, run, pc, call, refunds, counted>>
  BY DEF Environment, Land, Drop, AnchorMoves, DepositArrives, QuoteExpires,
         EditManifest, stored, network
<1>2. \A p \in Envelopes : MayMove(p)' => MayMove(p)
  BY DEF Environment, Land, Drop, AnchorMoves, DepositArrives, QuoteExpires,
         EditManifest, stored, network, MayMove, TypeOK
<1>3. Alone' /\ ClaimOK' /\ Synced' /\ RefundOK' /\ CountOK'
  BY <1>1 DEF Safe, Alone, ClaimOK, Synced, RefundOK, CountOK, Live, Reported
<1>4. PayOK'
  <2>1. NothingSent => NothingSent'
    BY <1>2 DEF NothingSent
  <2>2. \A v \in Worker : Envelope(v)' = Envelope(v)
    BY <1>1 DEF Envelope
  <2>3. QED
    BY <1>1, <1>2, <2>1, <2>2 DEF Safe, PayOK, AboutToPay, NoDoublePayment
<1>5. QED
  BY <1>1, <1>3, <1>4 DEF Safe, Keeps, Legal

-----------------------------------------------------------------------------
(* The theorems *)

(* Every step keeps the inductive invariant and moves the stored state     *)
(* along the table.                                                        *)
LEMMA NextKeeps ==
    ASSUME ~Concurrent, TypeOK, TypeOK', Safe, [Next]_vars
    PROVE  Keeps
<1>1. ASSUME NEW w \in Worker, Step(w) PROVE Keeps
  BY <1>1, FreshSafe, SettlingSafe, ResumingSafe, FailingSafe DEF Step
<1>2. CASE UNCHANGED vars
  <2>1. \A v \in Worker : Envelope(v)' = Envelope(v)
    BY <1>2 DEF vars, Envelope
  <2>2. Safe'
    BY <1>2, <2>1, SentNothing DEF vars, Safe, Alone, ClaimOK, Synced, PayOK, RefundOK,
       CountOK, Live, AboutToPay, Reported
  <2>3. QED
    BY <1>2, <2>2 DEF vars, Keeps, Legal
<1>3. QED
  BY <1>1, <1>2, StartSafe, CrashSafe, EnvironmentSafe DEF Next

(* The inductive invariant holds in every behaviour of calls that do not   *)
(* overlap: one call of execute() at a time, each of which may crash.      *)
THEOREM Safety ==
    ASSUME ~Concurrent
    PROVE  Spec => []Safe
<1>1. Init => Safe
  <2> SUFFICES ASSUME Init PROVE Safe
    OBVIOUS
  <2>1. /\ \A w \in Worker : pc[w] = "idle"
        /\ NothingSent /\ refunds = 0 /\ Reported = 0
    BY DEF Init, NothingSent, MayMove, Reported
  <2>2. QED
    BY <2>1 DEF Safe, Alone, ClaimOK, Synced, PayOK, RefundOK, CountOK, Live,
                AboutToPay, NothingSent, NoDoublePayment
<1>2. TypeOK /\ TypeOK' /\ Safe /\ [Next]_vars => Safe'
  BY NextKeeps DEF Keeps
<1>3. QED
  BY <1>1, <1>2, TypeCorrect, PTL DEF Spec

(* One idempotency key never has two payments that moved money or still    *)
(* can (run.ts execute and resumeRun, idempotency.ts:1), whatever the      *)
(* number of calls, the retries and the rollback policy.                   *)
THEOREM NoSecondPayment ==
    ASSUME ~Concurrent
    PROVE  Spec => []NoDoublePayment
<1>1. Safe => NoDoublePayment
  BY DEF Safe, PayOK
<1>2. QED
  BY <1>1, Safety, PTL

(* refundAndStop and resumeRun together ask the submitter for a refund at  *)
(* most once (run.ts:1113-1148, 1666-1712).                                *)
THEOREM NoSecondRefund ==
    ASSUME ~Concurrent
    PROVE  Spec => []RefundAtMostOnce
<1>1. Safe => RefundAtMostOnce
  BY DEF Safe, RefundOK, RefundAtMostOnce
<1>2. QED
  BY <1>1, Safety, PTL

(* A run reports at most one outcome to the circuit breaker, however often *)
(* it is resumed (makeRecordOutcome, run.ts:259-276).                      *)
THEOREM CountedAtMostOnce ==
    ASSUME ~Concurrent
    PROVE  Spec => []CountedOnce
<1>1. Safe => CountedOnce
  BY DEF Safe, CountOK, CountedOnce, Reported
<1>2. QED
  BY <1>1, Safety, PTL

(* A live call holds the stored state and version, so the version guard of *)
(* put (idempotency-pg.ts:321-391) never drops one of its writes.          *)
THEOREM CallsAreInSync ==
    ASSUME ~Concurrent
    PROVE  Spec => []Synced
<1>1. Safe => Synced
  BY DEF Safe
<1>2. QED
  BY <1>1, Safety, PTL

(* The stored row implements Lifecycle.tla: claimed once, then one move of *)
(* the state table (state.ts:30-72) at a time.                             *)
THEOREM RowImplementsLifecycle ==
    ASSUME ~Concurrent
    PROVE  Spec => Lifecycle
<1>1. Init => LC!Init
  BY DEF Init, LC!Init, NoRun
<1>2. TypeOK /\ TypeOK' /\ Safe /\ [Next]_vars => [LC!Next]_(row.state)
  <2> SUFFICES ASSUME TypeOK, TypeOK', Safe, [Next]_vars PROVE [LC!Next]_(row.state)
    OBVIOUS
  <2>1. Legal
    BY NextKeeps DEF Keeps
  <2>2. CASE canTransition(row.state, row'.state)
    <3>1. row.state # "none" /\ row'.state \in ALL_STATES
      BY <2>2, Table DEF TypeOK, Runs
    <3>2. LC!Move(row'.state)
      BY <2>2, <3>1 DEF LC!Move, LC!canTransition, canTransition, LC!NextStates, NextStates
    <3>3. QED
      BY <3>1, <3>2 DEF LC!Next, LC!ALL_STATES, ALL_STATES
  <2>3. QED
    BY <2>1, <2>2 DEF Legal, LC!Next, LC!Claim
<1>3. QED
  BY <1>1, <1>2, Safety, TypeCorrect, PTL DEF Spec, Lifecycle, LC!Spec

(* A run that reached `settled` or `recovering` never comes back to where  *)
(* a payment is submitted (the claim of state.ts:45-55).                   *)
THEOREM NoWayBackToSubmit ==
    ASSUME ~Concurrent
    PROVE  Spec => LC!NoWayBackToSettling
<1>1. ASSUME NEW s \in LC!AfterSettlement, NEW t, canTransition(s, t)
      PROVE  t \in LC!AfterSettlement
  BY <1>1, SMT DEF LC!AfterSettlement, canTransition, NextStates
<1>2. "none" \notin LC!AfterSettlement
  BY DEF LC!AfterSettlement
<1>3. TypeOK /\ TypeOK' /\ Safe /\ [Next]_vars =>
         [row.state \in LC!AfterSettlement => (row.state)' \in LC!AfterSettlement]_(row.state)
  BY <1>1, <1>2, NextKeeps DEF Keeps, Legal
<1>4. QED
  BY <1>3, Safety, TypeCorrect, PTL DEF Spec, LC!NoWayBackToSettling

-----------------------------------------------------------------------------
(* What `completed` and `failed` say of the money *)

(* The places of a call before anything can have been sent. *)
Early ==
    {"route", "comply", "open", "opened", "deposit", "deposited", "await_deposit",
     "loop", "gate", "refused", "verified", "recomply", "ready"}

(* Where a call is says how far the stored run is. *)
StandsAt(p, s) ==
    /\ p \in Early => s \in BeforePaying
    /\ p \in {"find", "submit", "confirm", "paid"} => s = "settling"
    /\ p \in {"verify", "reconcile"} => s = "settled"
    /\ p = "complete" => s = "reconciled"
    /\ p = "hold" => s \in Waiting
    /\ p \in {"refund", "refunded"} => s = "recovering"
    /\ p = "watch" => s = "refund_pending"

(* The payout is confirmed from `reconciled` on, and only of money that    *)
(* was received; a run fails with nothing sent.                            *)
Tidy ==
    /\ \A w \in Worker : StandsAt(pc[w], row.state)
    /\ anchor = "completed" => Received
    /\ row.state \in {"reconciled", "completed"} => anchor = "completed"
    /\ Excused \/ FailedMeansNotSent

(* A step of a call past its claim and before its report that sends        *)
(* nothing; only opening a transaction changes the anchor's record.        *)
Calm(w) ==
    /\ Live(w) /\ pc[w] \notin {"claim", "record"}
    /\ UNCHANGED pay
    /\ anchor' # anchor => anchor' = "pending" /\ row.state \in BeforePaying

(* How such a step may move the run. *)
Orderly(w) ==
    /\ Others(w)
    /\ StandsAt(pc'[w], row'.state)
    /\ row'.state = row.state \/ canTransition(row.state, row'.state)
    /\ row'.state = "reconciled" => row.state = "reconciled" \/ anchor = "completed"
    /\ row'.state = "failed" => NothingSent \/ Excused

LEMMA Unmoved ==
    ASSUME UNCHANGED pay
    PROVE  Received' = Received /\ NothingSent' = NothingSent
BY DEF Received, NothingSent, MayMove

LEMMA OrderlyKeeps ==
    ASSUME TypeOK, Safe, Tidy, NEW w \in Worker, Calm(w), Orderly(w)
    PROVE  Tidy'
<1>1. \A v \in Worker \ {w} : ~Live(v)
  BY Running DEF Calm
<1>2. \A v \in Worker : StandsAt(pc'[v], row'.state)
  BY <1>1 DEF Orderly, Others, StandsAt, Early, Live
<1>3. Received' = Received /\ NothingSent' = NothingSent
  BY Unmoved DEF Calm
<1>4. row'.state \in {"reconciled", "completed"} => anchor' = "completed"
  BY Table DEF Tidy, Calm, Orderly, BeforePaying
<1>5. anchor' = "completed" => anchor = "completed"
  BY DEF Calm
<1>6. row.state # "failed"
  BY Running DEF Calm, isTerminal, TERMINAL
<1>7. Excused \/ FailedMeansNotSent'
  BY <1>3, <1>6 DEF Orderly, FailedMeansNotSent, NothingSent
<1>8. QED
  BY <1>2, <1>3, <1>4, <1>5, <1>7 DEF Tidy

LEMMA DiesOrderly ==
    ASSUME NEW w \in Worker, Dies(w), NothingSent \/ Excused
    PROVE  Orderly(w)
BY DEF Dies, MovesTo, StaysAt, Orderly, StandsAt, Early

LEMMA ParksOrderly ==
    ASSUME NEW w \in Worker, Parks(w) \/ MovesTo(w, "recovering", "refund")
    PROVE  Orderly(w)
BY DEF Parks, Waiting, MovesTo, StaysAt, Orderly, StandsAt, Early

LEMMA DieTidy ==
    ASSUME TypeOK, Safe, Tidy, NEW w \in Worker, Calm(w), NEW r, CopyOf(r, w),
           NEW e \in Codes, Die(w, r, e), NothingSent \/ Excused
    PROVE  Tidy'
<1>1. Dies(w)
  BY Running, DieShape DEF Calm
<1>2. QED
  BY <1>1, DiesOrderly, OrderlyKeeps

LEMMA AdvanceTidy ==
    ASSUME TypeOK, Safe, Tidy, NEW w \in Worker, Calm(w), NEW r, CopyOf(r, w),
           NEW to, NEW next, NEW c, Advance(w, r, to, next, c),
           NothingSent \/ canTransition(row.state, to),
           StandsAt(next, to), to # "failed",
           to = "reconciled" => anchor = "completed"
    PROVE  Tidy'
<1>1. MovesTo(w, to, next) \/ (Dies(w) /\ ~canTransition(row.state, to))
  <2>1. InSync(w)
    BY Running DEF Calm
  <2>2. QED
    BY <2>1, AdvanceShape
<1>2. CASE MovesTo(w, to, next)
  BY <1>2, OrderlyKeeps DEF MovesTo, Orderly
<1>3. CASE Dies(w) /\ ~canTransition(row.state, to)
  BY <1>3, DiesOrderly, OrderlyKeeps
<1>4. QED
  BY <1>1, <1>2, <1>3

LEMMA HoldTidy ==
    ASSUME TypeOK, Safe, Tidy, NEW w \in Worker, Calm(w), NEW r, CopyOf(r, w),
           NEW e \in Codes, NEW cause \in Codes, HoldAndStop(w, r, e, cause),
           \/ NothingSent \/ row.state \in Waiting
           \/ canTransition(row.state, "recovering")
    PROVE  Tidy'
<1>1. Parks(w) \/ (Dies(w) /\ NothingSent)
  <2>1. InSync(w)
    BY Running DEF Calm
  <2>2. /\ Holds(w)
        /\ canTransition(row.state, "recovering") \/ row.state \in Waiting => Parks(w)
    BY <2>1, HoldAndStopShape
  <2>3. QED
    BY <2>2 DEF Holds
<1>2. QED
  BY <1>1, ParksOrderly, DiesOrderly, OrderlyKeeps

LEMMA FailTidy ==
    ASSUME TypeOK, Safe, Tidy, NEW w \in Worker, Calm(w), NEW r, CopyOf(r, w),
           NEW e \in Codes, NEW term \in BOOLEAN, FinishFailure(w, r, e, term),
           NothingSent \/ canTransition(row.state, "recovering")
    PROVE  Tidy'
<1>1. \/ Parks(w) \/ MovesTo(w, "recovering", "refund")
      \/ Dies(w) /\ (NothingSent \/ Excused)
  BY Running, FinishFailureShape DEF Calm, Fails, Holds
<1>2. QED
  BY <1>1, ParksOrderly, DiesOrderly, OrderlyKeeps

LEMMA QuoteTidy ==
    ASSUME TypeOK, Safe, Tidy, NEW w \in Worker, Calm(w), QuoteExpired(w, run[w]), NothingSent
    PROVE  Tidy'
BY HoldTidy, FailTidy, Copies, CodesUsed DEF QuoteExpired

(* Going on with nothing written, or only noted in the call's own copy.    *)
LEMMA PassTidy ==
    ASSUME TypeOK, Safe, Tidy, NEW w \in Worker, Calm(w), UNCHANGED row,
           \A v \in Worker \ {w} : run'[v] = run[v] /\ call'[v] = call[v],
           NEW next, Goto(w, next), StandsAt(next, row.state)
    PROVE  Tidy'
<1>1. row.state # "failed"
  BY Running DEF Calm, isTerminal, TERMINAL
<1>2. Orderly(w)
  BY <1>1, GotoShape DEF Orderly, Others
<1>3. QED
  BY <1>2, OrderlyKeeps

LEMMA StayTidy ==
    ASSUME TypeOK, Safe, Tidy, NEW w \in Worker, Calm(w), Stay, UNCHANGED call,
           NEW next, Goto(w, next), StandsAt(next, row.state)
    PROVE  Tidy'
BY PassTidy DEF Stay, stored

LEMMA ReturnTidy ==
    ASSUME TypeOK, Safe, Tidy, NEW w \in Worker, Calm(w), Return(w)
    PROVE  Tidy'
BY StayTidy DEF Return, StandsAt, Early

(* Where a call may stand. *)
LEMMA Stands ==
    /\ \A p \in Early, s \in BeforePaying : StandsAt(p, s)
    /\ \A p \in {"done", "record", "crashed", "claim", "resume", "unsettled", "lookup", "enter"} :
          \A s : StandsAt(p, s)
    /\ \A p \in {"find", "submit", "confirm", "paid"} : StandsAt(p, "settling")
    /\ StandsAt("verify", "settled") /\ StandsAt("reconcile", "settled")
    /\ StandsAt("complete", "reconciled") /\ StandsAt("watch", "refund_pending")
    /\ StandsAt("refunded", "recovering")
BY DEF StandsAt, Early

LEMMA EarlyMoveTidy ==
    ASSUME TypeOK, Safe, Tidy, NEW w \in Worker, Calm(w), NothingSent, NEW r, CopyOf(r, w),
           NEW to \in BeforePaying, NEW next \in Early, NEW c, Advance(w, r, to, next, c)
    PROVE  Tidy'
<1>1. StandsAt(next, to) /\ to \notin {"failed", "reconciled"}
  BY Stands DEF BeforePaying
<1>2. QED
  BY <1>1, AdvanceTidy

(* The end of a run that the table allows. *)
LEMMA EndTidy ==
    ASSUME TypeOK, Safe, Tidy, NEW w \in Worker, Calm(w), NEW r, CopyOf(r, w),
           NEW to \in {"completed", "refunded", "held"}, canTransition(row.state, to),
           NEW c, Advance(w, r, to, "record", c)
    PROVE  Tidy'
<1>1. StandsAt("record", to) /\ to \notin {"failed", "reconciled"}
  BY Stands
<1>2. QED
  BY <1>1, AdvanceTidy

LEMMA EarlyStayTidy ==
    ASSUME TypeOK, Safe, Tidy, NEW w \in Worker, Calm(w), Stay, UNCHANGED call,
           row.state \in BeforePaying, NEW next \in Early, Goto(w, next)
    PROVE  Tidy'
BY StayTidy, Stands

(* What the table allows past the first submit. *)
LEMMA LegalMoves ==
    /\ \A s \in {"settling", "settled"} : canTransition(s, "recovering")
    /\ canTransition("settling", "retrying") /\ canTransition("settling", "settled")
    /\ canTransition("settled", "reconciled") /\ canTransition("reconciled", "completed")
    /\ \A s \in Waiting : canTransition(s, "refunded") /\ canTransition(s, "held")
    /\ canTransition("recovering", "refund_pending")
    /\ \A s \in {"opened", "funded", "retrying"} : canTransition(s, "verifying")
    /\ canTransition("verifying", "settling")
BY DEF canTransition, NextStates, Waiting

(* The moves past the submit that are not the end of the run. *)
LEMMA LateMoveTidy ==
    ASSUME TypeOK, Safe, Tidy, NEW w \in Worker, Calm(w), NEW c,
           \/ /\ row.state = "settled" /\ anchor = "completed"
              /\ Advance(w, run[w], "reconciled", "complete", c)
           \/ /\ row.state = "recovering"
              /\ Advance(w, run[w], "refund_pending", "watch", c)
    PROVE  Tidy'
<1>1. CopyOf(run[w], w)
  BY Copies
<1>2. CASE /\ row.state = "settled" /\ anchor = "completed"
           /\ Advance(w, run[w], "reconciled", "complete", c)
  <2>1. StandsAt("complete", "reconciled") /\ canTransition(row.state, "reconciled")
    BY <1>2, Stands, LegalMoves
  <2>2. QED
    BY <1>1, <1>2, <2>1, AdvanceTidy
<1>3. CASE row.state = "recovering" /\ Advance(w, run[w], "refund_pending", "watch", c)
  <2>1. StandsAt("watch", "refund_pending") /\ canTransition(row.state, "refund_pending")
    BY <1>3, Stands, LegalMoves
  <2>2. QED
    BY <1>1, <1>3, <2>1, AdvanceTidy
<1>4. QED
  BY <1>2, <1>3

LEMMA EarlyTidy ==
    ASSUME TypeOK, Safe, Tidy, NEW w \in Worker, Fresh(w), ~Claim(w), ~FindExisting(w)
    PROVE  Tidy'
<1> USE Copies, CodesUsed, LocalsTyped
<1>1. /\ pc[w] \in Early /\ Live(w) /\ pc[w] \notin {"claim", "record"}
      /\ UNCHANGED pay /\ (anchor' # anchor => anchor' = "pending")
  BY DEF Fresh, SetupFails, Quote, Comply, Open, EnterFunding, OpenDeposit, RecordDeposit,
     AwaitDeposit, LoopHead, Gate, GateRefused, EnterSettling, network, Early, Live
<1>2. row.state \in BeforePaying /\ NothingSent
  BY <1>1, Unsent DEF Tidy, StandsAt
<1>3. Calm(w)
  BY <1>1, <1>2 DEF Calm
<1>4. CASE SetupFails(w)
  <2>1. PICK e \in {"ROUTE_REFUSED", "SETTLEMENT_FAILED"} : Die(w, run[w], e)
    BY <1>4 DEF SetupFails
  <2>2. QED
    BY <1>2, <1>3, <2>1, DieTidy
<1>5. CASE Quote(w)
  BY <1>2, <1>3, <1>5, EarlyMoveTidy DEF Quote, Early, BeforePaying
<1>6. CASE Comply(w)
  BY <1>2, <1>3, <1>6, EarlyMoveTidy DEF Comply, Early, BeforePaying
<1>7. CASE Open(w)
  <2>1. PICK kind \in Instructions :
           Advance(w, [run[w] EXCEPT !.instr = kind], "opened", "opened", call[w])
    BY <1>7 DEF Open
  <2>2. QED
    BY <1>2, <1>3, <2>1, EarlyMoveTidy DEF Early, BeforePaying
<1>8. CASE EnterFunding(w)
  BY <1>2, <1>3, <1>8, EarlyMoveTidy, DieTidy, EarlyStayTidy
  DEF EnterFunding, Early, BeforePaying
<1>9. CASE OpenDeposit(w)
  <2>1. CASE /\ run' = [run EXCEPT ![w].src = TRUE]
             /\ Goto(w, "deposited")
             /\ UNCHANGED <<row, call>>
    <3>1. \A v \in Worker \ {w} : run'[v] = run[v] /\ call'[v] = call[v]
      BY <2>1 DEF TypeOK
    <3>2. QED
      BY <1>2, <1>3, <2>1, <3>1, PassTidy DEF StandsAt, Early
  <2>2. QED
    BY <1>2, <1>3, <1>9, <2>1, FailTidy DEF OpenDeposit
<1>10. CASE RecordDeposit(w)
  <2> DEFINE r == [run[w] EXCEPT !.version = @ + 1]
  <2>1. Put(w, r) /\ Goto(w, "await_deposit") /\ UNCHANGED call
    BY <1>10 DEF RecordDeposit
  <2>2. InSync(w)
    BY <1>1, Running
  <2>3. r \in Runs /\ r.version = row.version + 1 /\ r.state = row.state
    BY <2>2, NextVersion DEF InSync
  <2> HIDE DEF r
  <2>4. row'.state = row.state /\ \A v \in Worker \ {w} : run'[v] = run[v]
    BY <2>1, <2>3, PutLands
  <2>5. row.state # "failed"
    BY <1>2 DEF BeforePaying
  <2>6. Orderly(w)
    BY <1>2, <2>1, <2>4, <2>5, GotoShape DEF Orderly, Others, StandsAt, Early
  <2>7. QED
    BY <1>3, <2>6, OrderlyKeeps
<1>11. CASE AwaitDeposit(w)
  <2>1. StandsAt(call[w].next, "funded")
    BY DEF Calls, StandsAt, Early, BeforePaying
  <2>2. QED
    BY <1>2, <1>3, <1>11, <2>1, AdvanceTidy, FailTidy DEF AwaitDeposit
<1>12. CASE LoopHead(w)
  BY <1>2, <1>3, <1>12, FailTidy, QuoteTidy, DieTidy, EarlyStayTidy DEF LoopHead, Early
<1>13. CASE Gate(w)
  BY <1>2, <1>3, <1>13, EarlyMoveTidy DEF Gate, Early, BeforePaying
<1>14. CASE GateRefused(w)
  BY <1>2, <1>3, <1>14, HoldTidy, DieTidy DEF GateRefused
<1>15. CASE EnterSettling(w)
  <2> DEFINE next == IF HasFindExisting /\ run[w].instr = "stellar_payment" THEN "find" ELSE "submit"
  <2>1. StandsAt(next, "settling")
    BY Stands
  <2>2. \/ Die(w, run[w], "DRY_RUN_COMPLETE") \/ QuoteExpired(w, run[w])
        \/ Advance(w, run[w], "settling", next, call[w])
    BY <1>15 DEF EnterSettling
  <2> HIDE DEF next
  <2>3. QED
    BY <1>2, <1>3, <2>1, <2>2, DieTidy, QuoteTidy, AdvanceTidy
<1>16. QED
  BY <1>4, <1>5, <1>6, <1>7, <1>8, <1>9, <1>10, <1>11, <1>12, <1>13, <1>14, <1>15 DEF Fresh

LEMMA SettleFailedTidy ==
    ASSUME TypeOK, Safe, Tidy, NEW w \in Worker, Calm(w), row.state = "settling",
           NEW e \in Codes, NEW retryable, SettleFailed(w, e, retryable)
    PROVE  Tidy'
<1>1. CASE Advance(w, run[w], "retrying", "loop", [call[w] EXCEPT !.attempt = @ + 1])
  <2>1. StandsAt("loop", "retrying")
    BY Stands DEF Early, BeforePaying
  <2>2. QED
    BY <1>1, <2>1, AdvanceTidy, LegalMoves, Copies
<1>2. QED
  BY <1>1, FailTidy, LegalMoves, Copies DEF SettleFailed

LEMMA SettlingTidy ==
    ASSUME TypeOK, Safe, Tidy, NEW w \in Worker, Settling(w) \/ FindExisting(w)
    PROVE  Tidy'
<1> USE Copies, CodesUsed, LocalsTyped, LegalMoves, Stands
<1>1. CASE Submit(w)
  <2>1. NothingSent /\ row.state = "settling"
    BY <1>1 DEF Submit, Safe, PayOK, AboutToPay
  <2>2. ~Received /\ anchor' # "completed"
    BY <1>1, <2>1 DEF Submit, NothingSent, MayMove, Received, Tidy
  <2>3. row' = row /\ \A v \in Worker : StandsAt(pc'[v], row.state)
    <3>1. pc'[w] \in {"paid", "confirm"} /\ \A v \in Worker \ {w} : pc'[v] = pc[v]
      BY <1>1, GotoShape DEF Submit
    <3>2. QED
      BY <1>1, <2>1, <3>1, Stands DEF Submit, stored, Tidy
  <2>4. QED
    BY <2>1, <2>2, <2>3 DEF Tidy, FailedMeansNotSent
<1>2. CASE (Settling(w) /\ ~Submit(w)) \/ FindExisting(w)
  <2>1. Calm(w)
    BY <1>2 DEF Calm, Live, Settling, FindExisting, SubmitRejected, SubmitAnswered,
       MarkSettled, VerifyOnChain, Reconcile, Complete, network
  <2>2. StandsAt(pc[w], row.state)
    BY DEF Tidy
  <2>3. CASE FindExisting(w)
    BY <2>1, <2>2, <2>3, FailTidy, StayTidy DEF FindExisting, StandsAt, Early
  <2>4. CASE SubmitRejected(w)
    BY <2>1, <2>2, <2>4, SettleFailedTidy DEF SubmitRejected, StandsAt
  <2>5. CASE SubmitAnswered(w)
    <3>1. row.state = "settling"
      BY <2>2, <2>5 DEF SubmitAnswered, StandsAt
    <3>2. QED
      BY <2>1, <2>5, <3>1, SettleFailedTidy, StayTidy DEF SubmitAnswered
  <2>6. CASE MarkSettled(w)
    <3>1. row.state = "settling"
      BY <2>2, <2>6 DEF MarkSettled, StandsAt
    <3>2. QED
      BY <2>1, <2>6, <3>1, AdvanceTidy DEF MarkSettled
  <2>7. CASE VerifyOnChain(w)
    <3>1. row.state = "settled"
      BY <2>2, <2>7 DEF VerifyOnChain, StandsAt
    <3>2. QED
      BY <2>1, <2>7, <3>1, StayTidy, HoldTidy, FailTidy DEF VerifyOnChain
  <2>8. CASE Reconcile(w)
    <3>1. row.state = "settled"
      BY <2>2, <2>8 DEF Reconcile, StandsAt
    <3>2. CASE anchor = "completed" /\ Advance(w, run[w], "reconciled", "complete", call[w])
      BY <2>1, <3>1, <3>2, LateMoveTidy
    <3>3. QED
      BY <2>1, <2>8, <3>1, <3>2, FailTidy DEF Reconcile
  <2>9. CASE Complete(w)
    <3>1. row.state = "reconciled"
      BY <2>2, <2>9 DEF Complete, StandsAt
    <3>2. QED
      BY <2>1, <2>9, <3>1, EndTidy DEF Complete
  <2>10. QED
    BY <1>2, <2>3, <2>4, <2>5, <2>6, <2>7, <2>8, <2>9 DEF Settling
<1>3. QED
  BY <1>1, <1>2

LEMMA ResumingTidy ==
    ASSUME TypeOK, Safe, Tidy, Excused \/ Pinned, NEW w \in Worker, Resuming(w)
    PROVE  Tidy'
<1> USE Copies, CodesUsed, LocalsTyped, LegalMoves, Stands
<1>1. Calm(w)
  BY DEF Calm, Live, Resuming, ResumeRefused, ResumeFails, ResumeAt,
     ResumeRecovery, ResumeUnsettled, LookupFound, LookupMissed, LookupFails,
     ResumeComply, ResumeReady, ResumeEnter, network
<1>2. StandsAt(pc[w], row.state) /\ run[w].state = row.state
  BY <1>1, Running DEF Tidy, Calm, InSync
<1>3. row.state \in BeforePaying => NothingSent
  BY Unsent
<1>4. CASE ResumeRefused(w)
  BY <1>1, <1>2, <1>3, <1>4, DieTidy, ReturnTidy DEF ResumeRefused, BeforeOpen, BeforePaying
<1>5. CASE ResumeFails(w)
  <2>1. ManifestChanged(w) => Excused
    BY DEF ManifestChanged, Pinned
  <2>2. QED
    BY <1>1, <1>2, <1>3, <1>5, <2>1, DieTidy DEF ResumeFails, BeforeOpen, BeforePaying
<1>6. CASE ResumeAt(w)
  <2>1. UNCHANGED row /\ \A v \in Worker \ {w} : run'[v] = run[v] /\ call'[v] = call[v]
    BY <1>6 DEF ResumeAt, ResumeSettled, Stay, stored, TypeOK
  <2>2. CASE row.state = "funding" /\ Goto(w, IF run[w].src THEN "await_deposit" ELSE "deposit")
    <3>1. /\ StandsAt("await_deposit", "funding") /\ StandsAt("deposit", "funding")
      BY DEF Early, BeforePaying
    <3>2. Goto(w, "await_deposit") \/ Goto(w, "deposit")
      BY <2>2
    <3>3. QED
      BY <1>1, <2>1, <2>2, <3>1, <3>2, PassTidy
  <2>3. CASE Goto(w, "unsettled")
    BY <1>1, <2>1, <2>3, PassTidy
  <2>4. CASE row.state = "settled" /\ Goto(w, "verify")
    BY <1>1, <2>1, <2>4, PassTidy
  <2>5. CASE row.state = "reconciled" /\ Goto(w, "complete")
    BY <1>1, <2>1, <2>5, PassTidy
  <2>6. QED
    BY <1>2, <1>6, <2>2, <2>3, <2>4, <2>5 DEF ResumeAt, ResumeSettled
<1>7. CASE ResumeRecovery(w)
  <2> DEFINE c == [call[w] EXCEPT !.cause =
                      recoveredBreakerCause(run[w].err, "RECONCILE_MISMATCH")]
  <2>1. /\ row.state \in Waiting
        /\ \/ Advance(w, run[w], "refunded", "record", c)
           \/ row.state = "recovering" /\ Advance(w, run[w], "refund_pending", "watch", c)
           \/ /\ row.state = "refund_pending" /\ Stay
              /\ call' = [call EXCEPT ![w] = c] /\ Goto(w, "watch")
    BY <1>2, <1>7 DEF ResumeRecovery, Waiting
  <2> HIDE DEF c
  <2>2. CASE Stay /\ call' = [call EXCEPT ![w] = c] /\ Goto(w, "watch")
             /\ row.state = "refund_pending"
    <3>1. \A v \in Worker \ {w} : run'[v] = run[v] /\ call'[v] = call[v]
      BY <2>2 DEF Stay, stored, TypeOK
    <3>2. StandsAt("watch", row.state) /\ UNCHANGED row
      BY <2>2 DEF Stay, stored
    <3>3. QED
      BY <1>1, <2>2, <3>1, <3>2, PassTidy
  <2>3. CASE row.state = "recovering" /\ Advance(w, run[w], "refund_pending", "watch", c)
    BY <1>1, <2>3, LateMoveTidy
  <2>4. CASE Advance(w, run[w], "refunded", "record", c)
    BY <1>1, <2>1, <2>4, EndTidy
  <2>5. QED
    BY <2>1, <2>2, <2>3, <2>4
<1>8. CASE ResumeUnsettled(w)
  BY <1>1, <1>2, <1>3, <1>8, ReturnTidy, HoldTidy, StayTidy
  DEF ResumeUnsettled, BeforePaying
<1>9. CASE LookupFound(w)
  <2>1. CASE Stay /\ call' = [call EXCEPT ![w].found = TRUE] /\ Goto(w, "enter")
    <3>1. \A v \in Worker \ {w} : run'[v] = run[v] /\ call'[v] = call[v]
      BY <2>1 DEF Stay, stored, TypeOK
    <3>2. QED
      BY <1>1, <2>1, <3>1, PassTidy DEF StandsAt, Early, Stay, stored
  <2>2. QED
    BY <1>1, <1>9, <2>1, ReturnTidy DEF LookupFound
<1>10. CASE LookupMissed(w)
  <2>1. row.state # "settling" => row.state \in BeforePaying
    BY <1>10 DEF LookupMissed, Safe, PayOK
  <2>2. QED
    BY <1>1, <1>2, <1>3, <1>10, <2>1, ReturnTidy, DieTidy, StayTidy
    DEF LookupMissed, Early
<1>11. CASE LookupFails(w)
  BY <1>1, <1>11, ReturnTidy DEF LookupFails
<1>12. CASE ResumeComply(w)
  <2>1. row.state \in BeforePaying /\ NothingSent
    BY <1>2, <1>3, <1>12 DEF ResumeComply, StandsAt, Early
  <2>2. QED
    BY <1>1, <1>12, <2>1, DieTidy, EarlyStayTidy, EarlyMoveTidy, ReturnTidy
    DEF ResumeComply, Early, BeforePaying
<1>13. CASE ResumeReady(w)
  <2>1. row.state \in BeforePaying /\ NothingSent
    BY <1>2, <1>3, <1>13 DEF ResumeReady, StandsAt, Early
  <2>2. QED
    BY <1>1, <1>13, <2>1, QuoteTidy, StayTidy DEF ResumeReady
<1>14. CASE ResumeEnter(w)
  <2>1. ASSUME NEW to \in {"verifying", "settling"}, canTransition(row.state, to),
               Advance(w, run[w], to, "enter", call[w])
        PROVE  Tidy'
    BY <1>1, <2>1, AdvanceTidy
  <2>2. CASE /\ row.state = "settling" /\ Stay
             /\ Goto(w, IF call[w].found THEN "paid" ELSE "submit") /\ UNCHANGED call
    <3>1. Goto(w, "paid") \/ Goto(w, "submit")
      BY <2>2
    <3>2. QED
      BY <1>1, <2>2, <3>1, StayTidy
  <2>3. QED
    BY <1>2, <1>14, <2>1, <2>2 DEF ResumeEnter
<1>15. QED
  BY <1>4, <1>5, <1>6, <1>7, <1>8, <1>9, <1>10, <1>11, <1>12, <1>13, <1>14 DEF Resuming

LEMMA FailingTidy ==
    ASSUME TypeOK, Safe, Tidy, NEW w \in Worker, Failing(w)
    PROVE  Tidy'
<1> USE Copies, CodesUsed, LocalsTyped, LegalMoves, Stands
<1>1. CASE RecordOutcome(w)
  <2>1. UNCHANGED <<row, pay, anchor>>
    BY <1>1 DEF RecordOutcome, stored, network
  <2>2. \A v \in Worker : StandsAt(pc'[v], row.state)
    <3>1. pc'[w] = "done" /\ \A v \in Worker \ {w} : pc'[v] = pc[v]
      BY <1>1, GotoShape DEF RecordOutcome
    <3>2. StandsAt("done", row.state) /\ \A v \in Worker : StandsAt(pc[v], row.state)
      BY DEF Tidy
    <3>3. QED
      BY <3>1, <3>2
  <2>3. QED
    BY <2>1, <2>2, Unmoved DEF Tidy, FailedMeansNotSent, NothingSent
<1>2. CASE ~RecordOutcome(w)
  <2>1. Calm(w)
    BY <1>2 DEF Calm, Live, Failing, Hold, RefundAnchor, RefundByOperator,
       RefundOnChain, RefundNothing, Refunded, WatchRefund, network
  <2>2. StandsAt(pc[w], row.state)
    BY DEF Tidy
  <2>3. CASE Hold(w)
    <3>1. canTransition(row.state, "held")
      BY <2>2, <2>3 DEF Hold, StandsAt
    <3>2. QED
      BY <2>1, <2>3, <3>1, EndTidy DEF Hold
  <2>4. CASE RefundAnchor(w)
    <3>1. row.state = "recovering"
      BY <2>2, <2>4 DEF RefundAnchor, StandsAt
    <3>2. QED
      BY <2>1, <2>4, <3>1, AdvanceTidy DEF RefundAnchor
  <2>5. CASE RefundByOperator(w)
    BY <2>1, <2>2, <2>5, HoldTidy DEF RefundByOperator, StandsAt, Waiting
  <2>6. CASE RefundOnChain(w)
    <3>1. row.state = "recovering"
      BY <2>2, <2>6 DEF RefundOnChain, StandsAt
    <3>2. CASE /\ run' = [run EXCEPT ![w].refund = TRUE]
               /\ Goto(w, "refunded")
               /\ UNCHANGED <<row, call>>
      <4>1. \A v \in Worker \ {w} : run'[v] = run[v] /\ call'[v] = call[v]
        BY <3>2 DEF TypeOK
      <4>2. QED
        BY <2>1, <3>1, <3>2, <4>1, PassTidy
    <3>3. QED
      BY <2>1, <2>6, <3>1, <3>2, HoldTidy DEF RefundOnChain, Waiting
  <2>7. CASE RefundNothing(w)
    <3>1. row.state = "recovering"
      BY <2>2, <2>7 DEF RefundNothing, StandsAt
    <3>2. QED
      BY <2>1, <2>7, <3>1, StayTidy DEF RefundNothing
  <2>8. CASE Refunded(w)
    <3>1. canTransition(row.state, "refunded")
      BY <2>2, <2>8 DEF Refunded, StandsAt, Waiting
    <3>2. QED
      BY <2>1, <2>8, <3>1, EndTidy DEF Refunded
  <2>9. CASE WatchRefund(w)
    <3>1. row.state = "refund_pending"
      BY <2>2, <2>9 DEF WatchRefund, StandsAt
    <3>2. ASSUME NEW listed \in BOOLEAN,
                 Advance(w, [run[w] EXCEPT !.refund = @ \/ listed,
                                           !.err = IF call[w].resumed THEN "none" ELSE @],
                         "refunded", "record", call[w])
          PROVE  Tidy'
      <4> DEFINE b == run[w].refund \/ listed
                 e == IF call[w].resumed THEN "none" ELSE run[w].err
      <4>1. b \in BOOLEAN /\ e \in Codes
        BY DEF Runs
      <4>2. Advance(w, [run[w] EXCEPT !.refund = b, !.err = e], "refunded", "record", call[w])
        BY <3>2
      <4> HIDE DEF b, e
      <4>3. CopyOf([run[w] EXCEPT !.refund = b, !.err = e], w)
        BY <4>1
      <4>4. QED
        BY <2>1, <3>1, <4>2, <4>3, EndTidy DEF Waiting
    <3>3. QED
      BY <2>1, <2>9, <3>1, <3>2, HoldTidy DEF WatchRefund, Waiting
  <2>10. QED
    BY <1>2, <2>3, <2>4, <2>5, <2>6, <2>7, <2>8, <2>9 DEF Failing
<1>3. QED
  BY <1>1, <1>2

(* A claim writes a row that nothing was sent for. *)
LEMMA ClaimTidy ==
    ASSUME TypeOK, Safe, Tidy, NEW w \in Worker, Claim(w)
    PROVE  Tidy'
<1>1. row.state = "none" /\ Live(w)
  BY DEF Claim, Safe, ClaimOK, Live
<1>2. row'.state = "created" /\ UNCHANGED <<pay, anchor>> /\ Goto(w, "route")
  BY <1>1 DEF Claim, NoRun, network
<1>3. \A v \in Worker \ {w} : ~Live(v)
  BY <1>1 DEF Safe, Alone
<1>4. \A v \in Worker : StandsAt(pc'[v], row'.state)
  BY <1>2, <1>3, GotoShape DEF StandsAt, Early, BeforePaying, Live
<1>5. QED
  BY <1>2, <1>4, Unmoved DEF Tidy, FailedMeansNotSent

LEMMA WorldTidy ==
    ASSUME TypeOK, Tidy, Environment
    PROVE  Tidy'
<1>1. UNCHANGED <<row, pc>> /\ (Received => Received')
  BY DEF Environment, Land, Drop, AnchorMoves, DepositArrives, QuoteExpires,
     EditManifest, stored, network, Received, TypeOK
<1>2. \A p \in Envelopes : MayMove(p)' => MayMove(p)
  BY DEF Environment, Land, Drop, AnchorMoves, DepositArrives, QuoteExpires,
     EditManifest, stored, network, MayMove, TypeOK
<1>3. /\ anchor = "completed" => anchor' = "completed"
      /\ anchor' = "completed" => anchor = "completed" \/ Received
  BY DEF Environment, Land, Drop, AnchorMoves, DepositArrives, QuoteExpires,
     EditManifest, stored, network
<1>4. QED
  BY <1>1, <1>2, <1>3 DEF Tidy, FailedMeansNotSent

LEMMA NextTidy ==
    ASSUME TypeOK, Safe, Tidy, Excused \/ Pinned, [Next]_vars
    PROVE  Tidy'
<1>1. ASSUME NEW w \in Worker, Step(w) PROVE Tidy'
  BY <1>1, ClaimTidy, EarlyTidy, SettlingTidy, ResumingTidy, FailingTidy DEF Step
<1>2. ASSUME NEW w \in Worker, Crash(w) \/ \E dry \in BOOLEAN : Start(w, dry) PROVE Tidy'
  <2>1. UNCHANGED <<row, pay, anchor>>
    BY <1>2 DEF Crash, Start, stored, network
  <2>2. \A v \in Worker : StandsAt(pc'[v], row.state)
    <3>1. /\ pc'[w] \in {"crashed", "done", "claim", "resume"}
          /\ \A v \in Worker \ {w} : pc'[v] = pc[v]
      BY <1>2, GotoShape DEF Crash, Start
    <3>2. QED
      BY <3>1, Stands DEF Tidy
  <2>3. QED
    BY <2>1, <2>2, Unmoved DEF Tidy, FailedMeansNotSent, NothingSent
<1>3. CASE UNCHANGED vars
  BY <1>3, Unmoved DEF vars, Tidy, FailedMeansNotSent, NothingSent
<1>4. QED
  BY <1>1, <1>2, <1>3, WorldTidy DEF Next

LEMMA InitTidy == Init => Tidy
<1> SUFFICES ASSUME Init PROVE Tidy
  OBVIOUS
<1>1. row.state = "none" /\ anchor = "none" /\ \A w \in Worker : pc[w] = "idle"
  BY DEF Init, NoRun
<1>2. QED
  BY <1>1 DEF Tidy, StandsAt, Early, FailedMeansNotSent

LEMMA AlwaysTidy ==
    ASSUME ~Concurrent
    PROVE  Spec => []Tidy
<1>1. CASE Excused
  <2>1. TypeOK /\ Safe /\ Tidy /\ [Next]_vars => Tidy'
    BY <1>1, NextTidy
  <2>2. QED
    BY <2>1, InitTidy, Safety, TypeCorrect, PTL DEF Spec
<1>2. CASE ~Excused
  <2>1. TypeOK /\ Safe /\ Pinned /\ Tidy /\ [Next]_vars => Tidy'
    BY NextTidy
  <2>2. Spec => []Pinned
    BY <1>2, AlwaysPinned DEF Excused
  <2>3. QED
    BY <2>1, <2>2, InitTidy, Safety, TypeCorrect, PTL DEF Spec
<1>3. QED
  BY <1>1, <1>2

(* `completed` is only ever stored after the anchor confirmed its payout,  *)
(* and of money that reached it (run.ts:859-875 and 1654-1664), whatever   *)
(* the policy, the crashes and the edits of the manifest.                  *)
THEOREM CompletedIsPaidOut ==
    ASSUME ~Concurrent
    PROVE  Spec => []CompletedMeansPaidOut
<1>1. Tidy => CompletedMeansPaidOut
  BY DEF Tidy, CompletedMeansPaidOut
<1>2. QED
  BY <1>1, AlwaysTidy, PTL

(* `failed` means that nothing was sent and nothing can still land         *)
(* (run.ts:749), if the policy refunds or holds and nobody edits the       *)
(* manifest: under `manual` an ambiguous submit fails the run, and an      *)
(* edited manifest fails one that had sent its payment.                    *)
THEOREM FailedIsUnsent ==
    ASSUME ~Concurrent, Rollback \in {"refund_sender", "hold"}, ~ManifestMayChange
    PROVE  Spec => []FailedMeansNotSent
<1>1. Tidy => FailedMeansNotSent
  BY DEF Tidy, Excused
<1>2. QED
  BY <1>1, AlwaysTidy, PTL

=============================================================================
