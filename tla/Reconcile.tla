------------------------------- MODULE Reconcile -------------------------------
(***************************************************************************)
(* Waiting for the anchor: reconcileUntil and watchRefund                  *)
(* (packages/engine/src/verbs.ts), the wake signal that cuts a wait short  *)
(* (ports.ts), and the endpoint through which the anchor rings it          *)
(* (packages/service/src/index.ts).  The anchor moves while a poll is on   *)
(* its way back, and another call of the engine may wait for the same      *)
(* transaction: all that it does to this one is clear the wake signal.     *)
(* Engine has this loop as one step; here it is every poll.                *)
(***************************************************************************)
EXTENDS Sep31, FiniteSets

CONSTANTS
    Records,          \* what the anchor may make of it
    FirstRecord,      \* what it is when the wait begins
    PollMs,           \* pollMs, and the unit of time
    LongestDelay,     \* max(pollMs, 60_000): where the backoff ends
    Timeout,          \* recovery.timeout_seconds
    RefundWait,       \* recovery.refund_wait_seconds
    StallThreshold,   \* stallThreshold: 0 switches it off
    ExternalStall,    \* externalStallMs, of the wait for the payout
    DefaultExternalStall, \* what it is where nobody gives it
    AnswerTime,       \* how long the HTTP client waits for an answer
    MaxTime,          \* bound: the clock
    MaxMoves          \* bound: how often the anchor changes the transaction

ASSUME ReconcileAssumption ==
    /\ PollMs \in Nat \ {0} /\ LongestDelay \in Nat /\ LongestDelay >= PollMs
    /\ {Timeout, RefundWait, StallThreshold, ExternalStall, DefaultExternalStall,
        AnswerTime, MaxTime, MaxMoves} \subseteq Nat

(* What lastStatus and lastPhase begin with is no status and no phase, and *)
(* an amount that is written reads as a decimal.                           *)
ASSUME RecordsAssumption ==
    /\ None # "external"
    /\ \A r \in Records \cup {FirstRecord} :
          /\ r.status # "unknown"
          /\ toScaled(r.amount) \in Int \cup {None}
          /\ isValidAmount(r.refunds) => toScaled(r.refunds.amount) \in Int \cup {None}

VARIABLES
    now,
    anchor,     \* the transaction's record, and how often it changed
    aborted,    \* the waker's flag for the transaction
    rival,      \* whether another call waits for the transaction
    wait        \* the loop

vars == <<now, anchor, aborted, rival, wait>>

(* A loop: firstStatus aside, the locals of reconcileUntil, and until when *)
(* it sleeps, or when it was over.  The last four are for the properties:  *)
(* when the present status was first read, when a phase that was not the   *)
(* external one was last, how many polls since then a wake brought on, and *)
(* whether there was a wake that no read has followed.                     *)
Idle == [pc |-> "idle", goal |-> "payout", asked |-> 0, answer |-> None, deadline |-> 0,
         lastStatus |-> "unknown", lastPhase |-> None, sameCount |-> 0,
         externalSince |-> None, nextPoll |-> PollMs, until |-> 0, code |-> "none",
         since |-> 0, elseAt |-> 0, hurried |-> 0, missed |-> FALSE]

Waiting == wait.pc \in {"asking", "answered", "asleep"}

(* Only the wait for the payout listens for a wake. *)
Listens == wait.goal = "payout"

Poll(w) == [w EXCEPT !.pc = "asking", !.asked = now, !.answer = None]
End(w, code) == [w EXCEPT !.pc = "over", !.code = code, !.until = now]

-----------------------------------------------------------------------------
(* reconcileUntil *)

(* For the payout, or for the sender's deposit at the sending anchor; the  *)
(* repository has no sending anchor but a mock, so the deposit is given    *)
(* the statuses of a payout.                                               *)
Begin ==
    /\ wait.pc = "idle" /\ now + Timeout + LongestDelay + AnswerTime < MaxTime
    /\ \E goal \in {"deposit", "payout"} :
          wait' = Poll([Idle EXCEPT !.goal = goal, !.deadline = now + Timeout,
                                    !.since = now, !.elseAt = now])
    /\ UNCHANGED <<now, anchor, aborted, rival>>

(* getTransaction: the record as it is when the anchor reads it.           *)
Read ==
    /\ wait.pc = "asking"
    /\ \E http \in {"ok", "lost"} :
          wait' = [wait EXCEPT !.pc = "answered", !.missed = FALSE,
                               !.answer = Status31(http, anchor.record)]
    /\ UNCHANGED <<now, anchor, aborted, rival>>

(* Bound: above the threshold nothing tells counts apart. *)
Capped(n) == IF n < StallThreshold THEN n + 1 ELSE n

(* What an answered poll changes in the loop's locals. *)
Polled(w, class, same, external) ==
    [w EXCEPT
        !.lastStatus = class.status,
        !.lastPhase = class.phase,
        !.sameCount = IF same THEN Capped(@) ELSE 0,
        !.since = IF same THEN @ ELSE now,
        !.hurried = IF same THEN @ ELSE 0,
        !.elseAt = IF external THEN @ ELSE now,
        !.externalSince = IF ~external THEN None ELSE IF @ = None THEN now ELSE @,
        !.nextPoll = IF same /\ external THEN @ ELSE PollMs]

(* Mutant of Noted: the external phase is timed from its first beginning. *)
NotedOnce(w) ==
    LET class == w.answer.value.class
        external == class.phase = "external"
    IN  IF ~w.answer.ok THEN w
        ELSE [Polled(w, class, class.status = w.lastStatus, external) EXCEPT
                !.externalSince = IF w.externalSince = None THEN @ ELSE w.externalSince]

Noted(w) ==
    LET class == w.answer.value.class
    IN  IF ~w.answer.ok THEN w
        ELSE Polled(w, class, class.status = w.lastStatus, class.phase = "external")

(* waitForSourceDeposit passes no externalStallMs on. *)
ExternalBudget(w) == IF w.goal = "deposit" THEN DefaultExternalStall ELSE ExternalStall

Stalled(w) ==
    \/ w.lastPhase = "external" /\ now - w.externalSince >= ExternalBudget(w)
    \/ w.lastPhase # "external" /\ StallThreshold > 0 /\ w.sameCount >= StallThreshold

(* Mutant of Verdict: the deadline is looked at with an answer only. *)
VerdictOfAnswers(w) ==
    LET class == w.answer.value.class
    IN  CASE w.answer.ok /\ class.settled -> "settled"
          [] w.answer.ok /\ ~class.settled /\ class.terminalFailure -> "RECONCILE_MISMATCH"
          [] OTHER -> IF Stalled(w) THEN "RECONCILE_STALLED"
                      ELSE IF w.answer.ok /\ now >= w.deadline THEN "SETTLEMENT_TIMEOUT"
                      ELSE "none"

(* How a poll ends the wait; "none" where it does not. *)
Verdict(w) ==
    LET class == w.answer.value.class
    IN  CASE w.answer.ok /\ class.settled -> "settled"
          [] w.answer.ok /\ ~class.settled /\ class.terminalFailure -> "RECONCILE_MISMATCH"
          [] OTHER -> IF Stalled(w) THEN "RECONCILE_STALLED"
                      ELSE IF now < w.deadline THEN "none"
                      ELSE IF w.answer.ok THEN "SETTLEMENT_TIMEOUT" ELSE w.answer.code

Delay(w) ==
    IF w.lastPhase = "external" /\ w.nextPoll > LongestDelay THEN LongestDelay
    ELSE IF w.lastPhase = "external" THEN w.nextPoll ELSE PollMs

(* The longer waits of an external phase. *)
BackedOff(w) ==
    LET twice == 2 * Delay(w)
    IN  IF w.lastPhase # "external" THEN PollMs
        ELSE IF twice > LongestDelay THEN LongestDelay ELSE twice

Hurry(w) == [w EXCEPT !.hurried = Capped(@)]

(* Mutant of Rung: only a wake that finds the loop asleep is heard. *)
RungAsleep == FALSE

(* A wake was delivered while the poll was out. *)
Rung == Listens /\ aborted

(* The poll's answer is looked at: the wait is over, or the next poll is   *)
(* due at once, as a wake was delivered, or it is slept for.               *)
Judge ==
    /\ wait.pc = "answered" /\ wait.goal # "refund"
    /\ LET w == Noted(wait)
           code == Verdict(w)
       IN  CASE code # "none" ->
                  wait' = End(w, code) /\ UNCHANGED aborted
             [] code = "none" /\ Rung ->
                  wait' = Poll(Hurry(w)) /\ aborted' = FALSE
             [] OTHER ->
                  /\ wait' = [w EXCEPT !.pc = "asleep", !.until = now + Delay(w),
                                       !.answer = None]
                  /\ UNCHANGED aborted
    /\ UNCHANGED <<now, anchor, rival>>

(* The sleep is over; the flag is cleared, whoever set it. *)
Wake ==
    /\ wait.pc = "asleep" /\ wait.until <= now
    /\ wait' = Poll([wait EXCEPT !.nextPoll = BackedOff(wait)])
    /\ aborted' = IF Listens THEN FALSE ELSE aborted
    /\ UNCHANGED <<now, anchor, rival>>

-----------------------------------------------------------------------------
(* watchRefund *)

(* A terminal failure after the payment: the engine waits for the refund.  *)
BeginWatch ==
    /\ wait.pc = "over" /\ wait.goal = "payout" /\ wait.code = "RECONCILE_MISMATCH"
    /\ now + RefundWait + PollMs + AnswerTime < MaxTime
    /\ wait' = Poll([Idle EXCEPT !.goal = "refund", !.deadline = now + RefundWait])
    /\ UNCHANGED <<now, anchor, aborted, rival>>

JudgeRefund ==
    /\ wait.pc = "answered" /\ wait.goal = "refund"
    /\ LET w == wait
           status == w.answer.value
           reported == /\ w.answer.ok /\ status.refunds # None
                       /\ status.class.status = "refunded" \/ status.class.terminalFailure
       IN  wait' = IF reported
                   THEN End(w, IF status.refunds.completeness = "full" THEN "refunded"
                               ELSE "RECONCILE_MISMATCH")
                   ELSE IF now >= w.deadline THEN End(w, "SETTLEMENT_TIMEOUT")
                   ELSE [w EXCEPT !.pc = "asleep", !.until = now + PollMs, !.answer = None]
    /\ UNCHANGED <<now, anchor, aborted, rival>>

-----------------------------------------------------------------------------
(* The anchor, its callbacks, and the clock *)

Final(record) == mapSep31Status(record.status).settled

RefundedInFull(record) ==
    /\ isValidAmount(record.refunds) /\ {record.refunds.amount, record.amount} \cap {None, Bad} = {}
    /\ toScaled(record.refunds.amount) >= toScaled(record.amount)

(* The anchor moves the transaction; what is completed stays so, what      *)
(* failed can only go on to be refunded.                                   *)
MoveRecord ==
    /\ anchor.moves < MaxMoves /\ ~Final(anchor.record)
    /\ \E r \in Records :
          /\ mapSep31Status(anchor.record.status).terminalFailure =>
                r.status = "refunded" /\ ~RefundedInFull(anchor.record)
          /\ anchor' = [anchor EXCEPT !.record = r, !.moves = @ + 1]
    /\ UNCHANGED <<now, aborted, rival, wait>>

(* wake: the flag is set, and a sleep ends, which clears it. *)
Ring ==
    LET asleep == wait.pc = "asleep" /\ Listens
    IN  /\ aborted' = ~asleep
        /\ wait' = CASE asleep ->
                           Poll(Hurry([wait EXCEPT !.nextPoll = BackedOff(wait),
                                                   !.missed = TRUE]))
                     [] Waiting /\ Listens /\ ~asleep -> [wait EXCEPT !.missed = TRUE]
                     [] OTHER -> wait

(* The other call's loop goes on to its next poll. *)
Rival == rival /\ aborted' = FALSE /\ UNCHANGED <<now, anchor, rival, wait>>

(* POST /callbacks/sep31/:corridorId: of a corridor there is, signed       *)
(* within the window by the key that was last fetched, which may no longer *)
(* be the anchor's; it names this transaction, and nothing else of it is   *)
(* used.  One that is refused changes nothing.                             *)
Callback == Ring /\ UNCHANGED <<now, anchor, rival>>

(* Time passes, while there is a wait; a timer that is due and a poll that *)
(* has had its time are not passed over.                                   *)
Tick ==
    /\ Waiting /\ now < MaxTime
    /\ wait.pc = "asleep" => now < wait.until
    /\ wait.pc = "asking" => now < wait.asked + AnswerTime
    /\ wait.pc # "answered"
    /\ now' = now + 1
    /\ UNCHANGED <<anchor, aborted, rival, wait>>

Init ==
    /\ now = 0
    /\ anchor = [record |-> FirstRecord, moves |-> 0]
    /\ aborted \in BOOLEAN
    /\ rival \in BOOLEAN
    /\ wait = Idle

Next ==
    \/ Begin \/ Read \/ Judge \/ Wake
    \/ BeginWatch \/ JudgeRefund
    \/ MoveRecord \/ Callback \/ Rival \/ Tick

Spec == Init /\ [][Next]_vars

-----------------------------------------------------------------------------
(* Properties *)

(* A wake is never slept through: while one call waits, it has read the    *)
(* transaction since it was last woken, also when the wake came while a    *)
(* poll was on its way back (verbs.ts:334-354, ports.ts:88-127).  Of two   *)
(* calls that wait for one transaction each clears the other's wake.       *)
WakeIsSeen == wait.pc = "asleep" /\ ~rival => ~wait.missed

(* An anchor is called stuck on evidence.  Either it was last read in a    *)
(* phase other than the external one externalStallMs ago or longer: a new  *)
(* status within that phase restarts nothing.  Or its status was the same  *)
(* for as many polls as the threshold, of which those that no wake brought *)
(* on were pollMs apart: wakes shorten the wait by a poll's time each      *)
(* (verbs.ts:188-203, 281-323).                                            *)
StalledOnEvidence ==
    wait.code = "RECONCILE_STALLED" =>
        IF wait.lastPhase = "external" THEN wait.until - wait.elseAt >= ExternalBudget(wait)
        ELSE wait.until - wait.since >= (StallThreshold - wait.hurried) * PollMs

(* What a wait reports is so: settled was completed, a mismatch was a      *)
(* failure at the anchor, and refunded was refunded whole, by amounts that *)
(* can be read (verbs.ts:296-309, 401-415).                                *)
VerdictsStand ==
    LET class == mapSep31Status(anchor.record.status)
    IN  /\ wait.code = "settled" => class.settled
        /\ wait.code = "RECONCILE_MISMATCH" => class.terminalFailure
        /\ wait.code = "refunded" => RefundedInFull(anchor.record)

(* No wait outlives its deadline by more than a delay and an answer,       *)
(* backoff, wakes and failing polls or not (verbs.ts:182, 324-337).        *)
EndsInTime ==
    Waiting => now <= wait.deadline + LongestDelay + AnswerTime

=============================================================================
