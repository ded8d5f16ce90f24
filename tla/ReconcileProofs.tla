--------------------------- MODULE ReconcileProofs ---------------------------
(***************************************************************************)
(* What holds of a wait for the anchor, whatever the anchor makes of the   *)
(* transaction, however often it calls back, and for any timeouts.         *)
(*                                                                         *)
(* A wake that finds a poll on its way back stays in the flag until the    *)
(* answer is judged, unless another call clears it; and every instant of a *)
(* wait is bounded by the one at which its last poll went out or its sleep *)
(* ends, which the deadline bounds.  A poll that is counted comes a poll's *)
(* time after the one before, unless a wake brought it on; and an answer   *)
(* that is final stays true while it is on its way, as what is completed   *)
(* or failed at the anchor stays so.                                       *)
(***************************************************************************)
EXTENDS Reconcile, TLAPS

Fields == {"pc", "goal", "asked", "answer", "deadline", "lastStatus", "lastPhase",
           "sameCount", "externalSince", "nextPoll", "until", "code", "since",
           "elseAt", "hurried", "missed"}

(* The loop's locals that the clock is compared with. *)
Timed(w) ==
    /\ DOMAIN w = Fields
    /\ w.asked \in Nat /\ w.deadline \in Nat /\ w.nextPoll \in Nat /\ w.until \in Nat

(* A poll that failed says why. *)
Explained(w) == w.answer.ok \/ w.answer.code # "none"

Shaped ==
    /\ now \in Nat
    /\ Timed(wait)
    /\ wait.pc \in {"idle", "asking", "answered", "asleep", "over"}
    /\ wait.pc = "answered" => Explained(wait)

(* Where a wake is that no read has followed. *)
WakeKept ==
    /\ wait.missed => Listens
    /\ wait.missed /\ ~rival /\ wait.pc = "answered" => aborted
    /\ WakeIsSeen

(* How far from its deadline a wait can be. *)
Bounded ==
    /\ wait.pc = "asking" => /\ wait.asked <= wait.deadline + LongestDelay
                             /\ now <= wait.asked + AnswerTime
    /\ wait.pc = "asleep" => /\ wait.until <= wait.deadline + LongestDelay
                             /\ now <= wait.until
    /\ EndsInTime

-----------------------------------------------------------------------------
(* The helpers *)

LEMMA PollTimed ==
    ASSUME NEW w, Timed(w), now \in Nat
    PROVE  /\ Timed(Poll(w)) /\ Poll(w).pc = "asking" /\ Poll(w).asked = now
           /\ Poll(w).goal = w.goal /\ Poll(w).deadline = w.deadline
           /\ Poll(w).missed = w.missed
  BY DEF Timed, Fields, Poll

LEMMA EndTimed ==
    ASSUME NEW w, NEW code, Timed(w), now \in Nat
    PROVE  /\ Timed(End(w, code)) /\ End(w, code).pc = "over"
           /\ End(w, code).goal = w.goal /\ End(w, code).missed = w.missed
           /\ End(w, code).deadline = w.deadline
  BY DEF Timed, Fields, End

LEMMA HurryTimed ==
    ASSUME NEW w, Timed(w)
    PROVE  /\ Timed(Hurry(w)) /\ Hurry(w).goal = w.goal
           /\ Hurry(w).deadline = w.deadline /\ Hurry(w).missed = w.missed
  BY DEF Timed, Fields, Hurry

LEMMA IdleTimed ==
    /\ Timed(Idle) /\ Idle.pc = "idle" /\ Idle.missed = FALSE /\ Idle.goal = "payout"
  BY ReconcileAssumption DEF Timed, Fields, Idle, ReconcileAssumption

(* A poll's answer touches neither the deadline nor the wake. *)
LEMMA NotedTimed ==
    ASSUME NEW w, Timed(w)
    PROVE  /\ Timed(Noted(w)) /\ Noted(w).goal = w.goal
           /\ Noted(w).deadline = w.deadline /\ Noted(w).missed = w.missed
           /\ Noted(w).answer = w.answer
  <1>1. CASE ~w.answer.ok
    BY <1>1 DEF Noted
  <1>2. CASE w.answer.ok
    <2> DEFINE class == w.answer.value.class
               x == Polled(w, class, class.status = w.lastStatus, class.phase = "external")
    <2>1. Noted(w) = x
      BY <1>2 DEF Noted
    <2>2. /\ DOMAIN x = Fields /\ x.goal = w.goal /\ x.deadline = w.deadline
          /\ x.missed = w.missed /\ x.answer = w.answer /\ x.asked = w.asked /\ x.until = w.until
          /\ x.nextPoll = w.nextPoll \/ x.nextPoll = PollMs
      BY DEF Timed, Fields, Polled
    <2> HIDE DEF x
    <2> QED BY <2>1, <2>2, ReconcileAssumption DEF Timed, ReconcileAssumption
  <1> QED BY <1>1, <1>2

(* No delay is longer than the longest, also after the backoff. *)
LEMMA DelayBounded ==
    ASSUME NEW w, Timed(w)
    PROVE  /\ Delay(w) \in 0 .. LongestDelay
           /\ BackedOff(w) \in Nat
  BY ReconcileAssumption DEF Timed, Delay, BackedOff, ReconcileAssumption

(* A wait that goes on is before its deadline. *)
LEMMA GoesOnInTime ==
    ASSUME NEW w, Timed(w), Explained(w), now \in Nat, Verdict(w) = "none"
    PROVE  now < w.deadline
  <1> DEFINE class == w.answer.value.class
             late == IF w.answer.ok THEN "SETTLEMENT_TIMEOUT" ELSE w.answer.code
             other == IF Stalled(w) THEN "RECONCILE_STALLED"
                      ELSE IF now < w.deadline THEN "none" ELSE late
  <1>1. CASE w.answer.ok /\ class.settled
    <2>1. Verdict(w) = "settled"
      BY <1>1 DEF Verdict
    <2> QED BY <2>1
  <1>2. CASE w.answer.ok /\ ~class.settled /\ class.terminalFailure
    <2>1. Verdict(w) = "RECONCILE_MISMATCH"
      BY <1>2 DEF Verdict
    <2> QED BY <2>1
  <1>3. CASE ~(w.answer.ok /\ class.settled)
             /\ ~(w.answer.ok /\ ~class.settled /\ class.terminalFailure)
    <2>1. Verdict(w) = other
      BY <1>3 DEF Verdict
    <2>2. late # "none"
      BY DEF Explained
    <2> HIDE DEF late
    <2> QED BY <2>1, <2>2
  <1> QED BY <1>1, <1>2, <1>3

-----------------------------------------------------------------------------
(* The loop's locals *)

LEMMA InitShaped == Init => Shaped /\ WakeKept /\ Bounded
  BY IdleTimed DEF Init, Shaped, WakeKept, WakeIsSeen, Bounded, EndsInTime, Waiting

LEMMA ReadShaped ==
    ASSUME Shaped, Read
    PROVE  /\ Shaped' /\ wait'.pc = "answered" /\ wait'.missed = FALSE
           /\ wait'.deadline = wait.deadline /\ wait'.goal = wait.goal
  <1>1. PICK http \in {"ok", "lost"} :
            wait' = [wait EXCEPT !.pc = "answered", !.missed = FALSE,
                                 !.answer = Status31(http, anchor.record)]
    BY DEF Read
  <1> DEFINE answer == Status31(http, anchor.record)
  <1>2. answer.ok \/ answer.code # "none"
    BY DEF Status31, HttpFail, Ok, Fail
  <1> HIDE DEF answer
  <1>3. /\ DOMAIN wait' = Fields /\ wait'.pc = "answered" /\ wait'.missed = FALSE
        /\ wait'.deadline = wait.deadline /\ wait'.goal = wait.goal
        /\ wait'.asked = wait.asked /\ wait'.until = wait.until
        /\ wait'.nextPoll = wait.nextPoll /\ wait'.answer = answer
    BY <1>1 DEF Shaped, Timed, Fields, answer
  <1> QED BY <1>2, <1>3 DEF Shaped, Timed, Explained, Read

(* What a judged answer leads to. *)
LEMMA JudgeShaped ==
    ASSUME Shaped, Judge
    PROVE  /\ Shaped' /\ wait'.deadline = wait.deadline /\ wait'.goal = wait.goal
           /\ wait'.missed = wait.missed
           /\ \/ wait'.pc = "over"
              \/ now < wait.deadline /\ wait'.pc = "asking" /\ wait'.asked = now
              \/ /\ now < wait.deadline /\ wait'.pc = "asleep" /\ ~Rung
                 /\ wait'.until \in now .. (now + LongestDelay)
  <1> DEFINE w == Noted(wait)
             code == Verdict(w)
  <1>1. /\ Timed(w) /\ w.goal = wait.goal /\ w.deadline = wait.deadline
        /\ w.missed = wait.missed /\ Explained(w) /\ now \in Nat /\ now' = now
    BY NotedTimed DEF Shaped, Judge, Explained
  <1>2. code = "none" => now < w.deadline
    BY <1>1, GoesOnInTime
  <1>3. Delay(w) \in 0 .. LongestDelay
    BY <1>1, DelayBounded
  <1>4. \/ code # "none" /\ wait' = End(w, code)
        \/ code = "none" /\ Rung /\ wait' = Poll(Hurry(w))
        \/ /\ code = "none" /\ ~Rung
           /\ wait' = [w EXCEPT !.pc = "asleep", !.until = now + Delay(w),
                                !.answer = None]
    BY DEF Judge
  <1> HIDE DEF w, code
  <1>5. CASE code # "none" /\ wait' = End(w, code)
    BY <1>1, <1>5, EndTimed DEF Shaped
  <1>6. CASE code = "none" /\ wait' = Poll(Hurry(w))
    <2>1. /\ Timed(Hurry(w)) /\ Hurry(w).goal = wait.goal
          /\ Hurry(w).deadline = wait.deadline /\ Hurry(w).missed = wait.missed
      BY <1>1, HurryTimed
    <2> QED BY <1>1, <1>2, <1>6, <2>1, PollTimed DEF Shaped
  <1>7. CASE /\ code = "none" /\ ~Rung
             /\ wait' = [w EXCEPT !.pc = "asleep", !.until = now + Delay(w),
                                  !.answer = None]
    <2>1. /\ DOMAIN wait' = Fields /\ wait'.pc = "asleep"
          /\ wait'.until = now + Delay(w) /\ wait'.asked = w.asked
          /\ wait'.deadline = w.deadline /\ wait'.nextPoll = w.nextPoll
          /\ wait'.goal = w.goal /\ wait'.missed = w.missed
      BY <1>1, <1>7 DEF Timed, Fields
    <2>2. /\ now + Delay(w) \in Nat
          /\ now + Delay(w) \in now .. (now + LongestDelay)
      BY <1>1, <1>3, ReconcileAssumption DEF ReconcileAssumption
    <2> QED BY <1>1, <1>2, <1>7, <2>1, <2>2 DEF Shaped, Timed
  <1> QED BY <1>4, <1>5, <1>6, <1>7

LEMMA WakeShaped ==
    ASSUME Shaped, Wake
    PROVE  /\ Shaped' /\ wait'.deadline = wait.deadline /\ wait'.goal = wait.goal
           /\ wait'.missed = wait.missed /\ wait'.pc = "asking" /\ wait'.asked = now
  <1> DEFINE w == [wait EXCEPT !.nextPoll = BackedOff(wait)]
  <1>1. BackedOff(wait) \in Nat
    BY DelayBounded DEF Shaped
  <1>2. /\ Timed(w) /\ w.goal = wait.goal /\ w.deadline = wait.deadline
        /\ w.missed = wait.missed
    BY <1>1 DEF Shaped, Timed, Fields
  <1>3. wait' = Poll(w) /\ now' = now
    BY DEF Wake
  <1> HIDE DEF w
  <1> QED BY <1>2, <1>3, PollTimed DEF Shaped

(* A wake finds the loop asleep, or on its way, or does not concern it. *)
LEMMA RingShaped ==
    ASSUME Shaped, Ring, UNCHANGED now
    PROVE  /\ Shaped' /\ wait'.deadline = wait.deadline /\ wait'.goal = wait.goal
           /\ \/ /\ wait.pc = "asleep" /\ Listens
                 /\ wait'.pc = "asking" /\ wait'.asked = now
              \/ /\ Waiting /\ Listens /\ wait.pc # "asleep" /\ aborted'
                 /\ wait'.pc = wait.pc /\ wait'.asked = wait.asked
              \/ wait' = wait /\ ~(Waiting /\ Listens) /\ aborted'
  <1>1. CASE wait.pc = "asleep" /\ Listens
    <2> DEFINE w == [wait EXCEPT !.nextPoll = BackedOff(wait), !.missed = TRUE]
    <2>1. BackedOff(wait) \in Nat
      BY DelayBounded DEF Shaped
    <2>2. Timed(w) /\ w.goal = wait.goal /\ w.deadline = wait.deadline
      BY <2>1 DEF Shaped, Timed, Fields
    <2>3. wait' = Poll(Hurry(w))
      BY <1>1 DEF Ring
    <2> HIDE DEF w
    <2>4. /\ Timed(Hurry(w)) /\ Hurry(w).goal = wait.goal
          /\ Hurry(w).deadline = wait.deadline
      BY <2>2, HurryTimed
    <2> QED BY <1>1, <2>3, <2>4, PollTimed DEF Shaped
  <1>2. CASE Waiting /\ Listens /\ wait.pc # "asleep"
    <2>1. wait' = [wait EXCEPT !.missed = TRUE] /\ aborted'
      BY <1>2 DEF Ring
    <2>2. /\ Timed(wait') /\ wait'.pc = wait.pc /\ wait'.goal = wait.goal
          /\ wait'.deadline = wait.deadline /\ wait'.asked = wait.asked
          /\ wait'.answer = wait.answer
      BY <2>1 DEF Shaped, Timed, Fields
    <2> QED BY <1>2, <2>1, <2>2 DEF Shaped, Explained
  <1>3. CASE ~(Waiting /\ Listens)
    BY <1>3 DEF Ring, Waiting, Shaped, Explained, Timed
  <1> QED BY <1>1, <1>2, <1>3 DEF Waiting

LEMMA BeginShaped ==
    ASSUME Shaped, Begin \/ BeginWatch
    PROVE  /\ Shaped' /\ wait'.pc = "asking" /\ wait'.asked = now
           /\ wait'.missed = FALSE /\ now <= wait'.deadline
  <1>1. CASE Begin
    <2>1. PICK goal \in {"deposit", "payout"} :
              wait' = Poll([Idle EXCEPT !.goal = goal, !.deadline = now + Timeout,
                                        !.since = now, !.elseAt = now])
      BY <1>1 DEF Begin
    <2> DEFINE w == [Idle EXCEPT !.goal = goal, !.deadline = now + Timeout,
                                 !.since = now, !.elseAt = now]
    <2>2. Timed(w) /\ w.missed = FALSE /\ w.deadline = now + Timeout
      BY IdleTimed, ReconcileAssumption DEF Timed, Fields, Shaped, ReconcileAssumption
    <2>3. wait' = Poll(w) /\ now' = now
      BY <1>1, <2>1 DEF Begin
    <2> HIDE DEF w
    <2> QED BY <2>2, <2>3, PollTimed, ReconcileAssumption DEF Shaped, ReconcileAssumption
  <1>2. CASE BeginWatch
    <2> DEFINE w == [Idle EXCEPT !.goal = "refund", !.deadline = now + RefundWait]
    <2>1. Timed(w) /\ w.missed = FALSE /\ w.deadline = now + RefundWait
      BY IdleTimed, ReconcileAssumption DEF Timed, Fields, Shaped, ReconcileAssumption
    <2>2. wait' = Poll(w) /\ now' = now
      BY <1>2 DEF BeginWatch
    <2> HIDE DEF w
    <2> QED BY <2>1, <2>2, PollTimed, ReconcileAssumption DEF Shaped, ReconcileAssumption
  <1> QED BY <1>1, <1>2

LEMMA JudgeRefundShaped ==
    ASSUME Shaped, JudgeRefund
    PROVE  /\ Shaped' /\ wait'.deadline = wait.deadline /\ wait'.goal = "refund"
           /\ wait'.missed = wait.missed
           /\ \/ wait'.pc = "over"
              \/ now < wait.deadline /\ wait'.pc = "asleep" /\ wait'.until = now + PollMs
  <1>1. /\ now' = now /\ wait.goal = "refund"
        /\ \/ \E code \in {"refunded", "RECONCILE_MISMATCH", "SETTLEMENT_TIMEOUT"} :
                  wait' = End(wait, code)
           \/ /\ ~(now >= wait.deadline)
              /\ wait' = [wait EXCEPT !.pc = "asleep", !.until = now + PollMs,
                                      !.answer = None]
    BY DEF JudgeRefund
  <1>2. CASE \E code \in {"refunded", "RECONCILE_MISMATCH", "SETTLEMENT_TIMEOUT"} :
                 wait' = End(wait, code)
    BY <1>1, <1>2, EndTimed DEF Shaped
  <1>3. CASE /\ ~(now >= wait.deadline)
             /\ wait' = [wait EXCEPT !.pc = "asleep", !.until = now + PollMs,
                                     !.answer = None]
    <2>1. now + PollMs \in Nat /\ now < wait.deadline
      BY <1>3, ReconcileAssumption DEF Shaped, Timed, ReconcileAssumption
    <2> QED BY <1>1, <1>3, <2>1 DEF Shaped, Timed, Fields
  <1> QED BY <1>1, <1>2, <1>3

-----------------------------------------------------------------------------
(* Wakes *)

LEMMA NextKept == Shaped /\ WakeKept /\ [Next]_vars => WakeKept'
  <1> SUFFICES ASSUME Shaped, WakeKept, [Next]_vars PROVE WakeKept'
    OBVIOUS
  <1>1. CASE Begin \/ BeginWatch
    BY <1>1, BeginShaped DEF WakeKept, WakeIsSeen
  <1>2. CASE Read
    BY <1>2, ReadShaped DEF WakeKept, WakeIsSeen
  <1>3. CASE Judge
    (* A wake that no read followed is in the flag, and polls again. *)
    <2>1. wait.missed /\ ~rival => Rung
      BY <1>3 DEF WakeKept, Judge, Rung
    <2> QED BY <1>3, <2>1, JudgeShaped DEF WakeKept, WakeIsSeen, Listens, Judge
  <1>4. CASE Wake
    BY <1>4, WakeShaped DEF WakeKept, WakeIsSeen, Listens
  <1>5. CASE JudgeRefund
    BY <1>5, JudgeRefundShaped DEF WakeKept, WakeIsSeen, Listens, JudgeRefund
  <1>6. CASE Callback
    BY <1>6, RingShaped DEF WakeKept, WakeIsSeen, Listens, Waiting, Callback
  <1>7. CASE MoveRecord \/ Rival \/ Tick \/ UNCHANGED vars
    BY <1>7 DEF WakeKept, WakeIsSeen, Listens, MoveRecord, Rival, Tick, vars
  <1> QED BY <1>1, <1>2, <1>3, <1>4, <1>5, <1>6, <1>7 DEF Next

-----------------------------------------------------------------------------
(* Deadlines *)

LEMMA NextBounded == Shaped /\ Bounded /\ [Next]_vars => Shaped' /\ Bounded'
  <1> SUFFICES ASSUME Shaped, Bounded, [Next]_vars PROVE Shaped' /\ Bounded'
    OBVIOUS
  <1>0. /\ now \in Nat /\ LongestDelay \in Nat /\ AnswerTime \in Nat
        /\ PollMs \in Nat /\ PollMs <= LongestDelay
        /\ wait.deadline \in Nat /\ wait.until \in Nat /\ wait.asked \in Nat
    BY ReconcileAssumption DEF ReconcileAssumption, Shaped, Timed
  <1>1. CASE Begin \/ BeginWatch
    <2>1. now' = now
      BY <1>1 DEF Begin, BeginWatch
    <2>2. /\ Shaped' /\ wait'.pc = "asking" /\ wait'.asked = now
          /\ now <= wait'.deadline
      BY <1>1, BeginShaped
    <2>3. wait'.deadline \in Nat
      BY <2>2 DEF Shaped, Timed
    <2> QED BY <1>0, <2>1, <2>2, <2>3 DEF Bounded, EndsInTime
  <1>2. CASE Read
    <2>1. now' = now /\ wait.pc = "asking"
      BY <1>2 DEF Read
    <2> QED BY <1>0, <1>2, <2>1, ReadShaped DEF Bounded, EndsInTime, Waiting
  <1>3. CASE Judge
    <2>1. now' = now
      BY <1>3 DEF Judge
    <2> QED BY <1>0, <1>3, <2>1, JudgeShaped DEF Bounded, EndsInTime, Waiting
  <1>4. CASE Wake
    <2>1. now' = now /\ wait.pc = "asleep"
      BY <1>4 DEF Wake
    <2> QED BY <1>0, <1>4, <2>1, WakeShaped DEF Bounded, EndsInTime, Waiting
  <1>5. CASE JudgeRefund
    <2>1. now' = now
      BY <1>5 DEF JudgeRefund
    <2> QED BY <1>0, <1>5, <2>1, JudgeRefundShaped DEF Bounded, EndsInTime, Waiting
  <1>6. CASE Callback
    <2>1. UNCHANGED now /\ Ring
      BY <1>6 DEF Callback
    <2> QED BY <1>0, <2>1, RingShaped DEF Bounded, EndsInTime, Waiting
  <1>7. CASE Tick
    <2>1. now' = now + 1 /\ UNCHANGED wait
      BY <1>7 DEF Tick
    <2>2. /\ wait.pc = "asleep" => now < wait.until
          /\ wait.pc = "asking" => now < wait.asked + AnswerTime
          /\ wait.pc # "answered" /\ Waiting
      BY <1>7 DEF Tick
    <2>3. Shaped'
      BY <1>0, <2>1 DEF Shaped
    <2> QED BY <1>0, <2>1, <2>2, <2>3 DEF Bounded, EndsInTime, Waiting
  <1>8. CASE MoveRecord \/ Rival \/ UNCHANGED vars
    <2>1. UNCHANGED <<now, wait>>
      BY <1>8 DEF MoveRecord, Rival, vars
    <2> QED BY <2>1 DEF Shaped, Bounded, EndsInTime, Waiting
  <1> QED BY <1>1, <1>2, <1>3, <1>4, <1>5, <1>6, <1>7, <1>8 DEF Next

-----------------------------------------------------------------------------
(* Stalls *)

(* The loop's counters, in their ranges, and its instants, none to come.   *)
Counters(w) ==
    /\ w.sameCount \in 0 .. StallThreshold /\ w.hurried \in 0 .. StallThreshold
    /\ w.since \in 0 .. now /\ w.elseAt \in 0 .. now
    /\ w.nextPoll >= PollMs
    /\ w.lastStatus = "unknown" => w.sameCount = 0

(* The external phase is timed from after the last look at another one.    *)
Outside(w) ==
    IF w.lastPhase = "external" THEN w.externalSince \in w.elseAt .. now
    ELSE w.externalSince = None

Counted(w) == Counters(w) /\ Outside(w)

(* The polls that found the same status took this long, up to instant t,   *)
(* when n of them have found it.                                           *)
Took(w, n, t) ==
    StallThreshold > 0 /\ w.lastStatus # "unknown" =>
        w.since + (n - w.hurried) * PollMs <= t

(* What is counted with the next answer is due when a poll is out, and     *)
(* when a sleep ends.                                                      *)
Paced ==
    /\ wait.pc \in {"asking", "answered", "asleep"} => Counted(wait)
    /\ wait.pc \in {"asking", "answered"} => Took(wait, Capped(wait.sameCount), now)
    /\ wait.pc = "asleep" => /\ Took(wait, Capped(wait.sameCount), wait.until)
                             /\ Took(wait, wait.sameCount, now)
    /\ wait.pc # "over" => wait.code = "none"
    /\ StalledOnEvidence

(* The answer that is judged is one of the record, as it is or was.        *)
Failed(record) == mapSep31Status(record.status).terminalFailure

Truthful ==
    /\ anchor.record \in Records \cup {FirstRecord}
    /\ wait.pc = "answered" /\ ~wait.answer.ok => wait.answer.code = "ANCHOR_UNAVAILABLE"
    /\ wait.pc = "answered" /\ wait.answer.ok =>
          LET class == wait.answer.value.class
              refunds == wait.answer.value.refunds
          IN  /\ class.status # "unknown"
              /\ class.settled => Final(anchor.record)
              /\ class.status = "refunded" => class.terminalFailure
              /\ class.terminalFailure => Failed(anchor.record)
              /\ class.terminalFailure /\ refunds # None /\ refunds.completeness = "full" =>
                    RefundedInFull(anchor.record)
    /\ wait.pc # "over" => wait.code = "none"
    /\ VerdictsStand
    /\ wait.code = "refunded" => Failed(anchor.record)

LEMMA Products ==
    ASSUME NEW n \in Int, NEW m \in Int, n <= m
    PROVE  /\ n * PollMs \in Int /\ m * PollMs \in Int
           /\ n * PollMs <= m * PollMs
           /\ (n + 1) * PollMs = n * PollMs + PollMs
           /\ n <= 0 => n * PollMs <= 0
  <1>1. PollMs \in Nat
    BY ReconcileAssumption DEF ReconcileAssumption
  <1> QED BY <1>1, SMT

LEMMA CappedRange ==
    ASSUME NEW n \in 0 .. StallThreshold
    PROVE  /\ Capped(n) \in 0 .. StallThreshold /\ n <= Capped(n) /\ Capped(n) <= n + 1
           /\ n # StallThreshold => Capped(n) = n + 1
  BY ReconcileAssumption DEF Capped, ReconcileAssumption

(* Two values of the loop's locals with the same counters. *)
Alike(x, w) ==
    /\ x.sameCount = w.sameCount /\ x.hurried = w.hurried /\ x.since = w.since
    /\ x.elseAt = w.elseAt /\ x.lastStatus = w.lastStatus /\ x.lastPhase = w.lastPhase
    /\ x.externalSince = w.externalSince /\ x.code = w.code

LEMMA AlikeCounted ==
    ASSUME NEW x, NEW w, Alike(x, w), x.nextPoll >= PollMs
    PROVE  /\ Counted(w) => Counted(x)
           /\ \A n, t : Took(w, n, t) => Took(x, n, t)
  BY DEF Alike, Counted, Counters, Outside, Took

LEMMA PollAlike ==
    ASSUME NEW w, Timed(w)
    PROVE  Alike(Poll(w), w) /\ Poll(w).nextPoll = w.nextPoll
  BY DEF Timed, Fields, Poll, Alike

(* A wake takes one poll off what was waited for. *)
LEMMA HurryCounted ==
    ASSUME NEW w, Timed(w), Counted(w), Took(w, w.sameCount, now), now \in Nat
    PROVE  /\ Counted(Hurry(w)) /\ Hurry(w).code = w.code
           /\ Hurry(w).sameCount = w.sameCount
           /\ Took(Hurry(w), Capped(w.sameCount), now)
  <1> DEFINE x == Hurry(w)
             S == StallThreshold
  <1>1. /\ x.sameCount = w.sameCount /\ x.hurried = Capped(w.hurried)
        /\ x.since = w.since /\ x.elseAt = w.elseAt /\ x.nextPoll = w.nextPoll
        /\ x.lastStatus = w.lastStatus /\ x.lastPhase = w.lastPhase
        /\ x.externalSince = w.externalSince /\ x.code = w.code
    BY DEF Timed, Fields, Hurry
  <1> HIDE DEF x
  <1>2. /\ w.sameCount \in 0 .. S /\ w.hurried \in 0 .. S /\ w.since \in Nat
        /\ w.since <= now /\ S \in Nat /\ PollMs \in Nat
    BY ReconcileAssumption DEF Counted, Counters, ReconcileAssumption
  <1>3. /\ Capped(w.hurried) \in 0 .. S /\ Capped(w.sameCount) \in 0 .. S
        /\ Capped(w.sameCount) <= w.sameCount + 1
        /\ w.hurried # S => Capped(w.hurried) = w.hurried + 1
        /\ w.hurried <= Capped(w.hurried)
    BY <1>2, CappedRange
  <1>4. Counted(x)
    BY <1>1, <1>3 DEF Counted, Counters, Outside
  <1>5. Took(x, Capped(w.sameCount), now)
    <2> DEFINE n == Capped(w.sameCount) - Capped(w.hurried)
               m == w.sameCount - w.hurried
    <2>1. n \in Int /\ m \in Int
      BY <1>2, <1>3
    <2>2. n <= m \/ n <= 0
      BY <1>2, <1>3
    <2> HIDE DEF n, m
    <2>3. n * PollMs \in Int /\ m * PollMs \in Int
      BY <1>2, <2>1, Products
    <2>4. CASE n <= m
      <3>1. n * PollMs <= m * PollMs
        BY <2>1, <2>4, Products
      <3>2. S > 0 /\ w.lastStatus # "unknown" => w.since + m * PollMs <= now
        BY DEF Took, m
      <3> QED BY <1>1, <1>2, <2>3, <3>1, <3>2 DEF Took, n
    <2>5. CASE n <= 0
      <3>1. n * PollMs <= 0
        BY <2>1, <2>5, Products
      <3> QED BY <1>1, <1>2, <2>3, <3>1 DEF Took, n
    <2> QED BY <2>2, <2>4, <2>5
  <1> QED BY <1>1, <1>4, <1>5 DEF x

(* An answer: one more poll found the status, or another status was found. *)
LEMMA NotedCounted ==
    ASSUME NEW w, Timed(w), Counted(w), Took(w, Capped(w.sameCount), now), now \in Nat,
           w.answer.ok => w.answer.value.class.status # "unknown"
    PROVE  /\ Counted(Noted(w)) /\ Noted(w).code = w.code
           /\ Took(Noted(w), Noted(w).sameCount, now)
  <1> DEFINE S == StallThreshold
  <1>1. /\ w.sameCount \in 0 .. S /\ w.hurried \in 0 .. S /\ w.since \in Nat
        /\ w.since <= now /\ S \in Nat /\ PollMs \in Nat
    BY ReconcileAssumption DEF Counted, Counters, ReconcileAssumption
  <1>2. /\ Capped(w.sameCount) \in 0 .. S /\ w.sameCount <= Capped(w.sameCount)
    BY <1>1, CappedRange
  <1>3. CASE ~w.answer.ok
    <2>1. Noted(w) = w
      BY <1>3 DEF Noted
    <2>2. /\ (w.sameCount - w.hurried) * PollMs \in Int
          /\ (Capped(w.sameCount) - w.hurried) * PollMs \in Int
          /\ (w.sameCount - w.hurried) * PollMs <= (Capped(w.sameCount) - w.hurried) * PollMs
      <3>1. /\ w.sameCount - w.hurried \in Int /\ Capped(w.sameCount) - w.hurried \in Int
            /\ w.sameCount - w.hurried <= Capped(w.sameCount) - w.hurried
        BY <1>1, <1>2
      <3> QED BY <3>1, Products
    <2>3. Took(w, w.sameCount, now)
      BY <1>1, <2>2 DEF Took
    <2> QED BY <2>1, <2>3
  <1>4. CASE w.answer.ok
    <2> DEFINE class == w.answer.value.class
               same == class.status = w.lastStatus
               external == class.phase = "external"
               x == Polled(w, class, same, external)
    <2>1. Noted(w) = x
      BY <1>4 DEF Noted
    <2>2. /\ x.lastStatus = class.status /\ x.lastPhase = class.phase /\ x.code = w.code
          /\ x.sameCount = (IF same THEN Capped(w.sameCount) ELSE 0)
          /\ x.since = (IF same THEN w.since ELSE now)
          /\ x.hurried = (IF same THEN w.hurried ELSE 0)
          /\ x.elseAt = (IF external THEN w.elseAt ELSE now)
          /\ x.externalSince = (IF ~external THEN None
                                ELSE IF w.externalSince = None THEN now ELSE w.externalSince)
          /\ x.nextPoll = w.nextPoll \/ x.nextPoll = PollMs
      BY DEF Timed, Fields, Polled
    <2>3. class.status # "unknown"
      BY <1>4
    <2>a. w.nextPoll >= PollMs /\ PollMs >= PollMs
      BY <1>1 DEF Counted, Counters
    <2> HIDE DEF x, class
    <2>4. Counters(x)
      BY <1>1, <1>2, <2>2, <2>3, <2>a DEF Counted, Counters
    <2>5. Outside(x)
      <3>1. w.elseAt \in 0 .. now
        BY DEF Counted, Counters
      <3>2. \/ w.externalSince \in w.elseAt .. now
            \/ w.externalSince = None
        BY DEF Counted, Outside
      <3> QED BY <2>2, <3>1, <3>2 DEF Outside
    <2>6. Took(x, x.sameCount, now)
      <3>1. CASE same
        BY <2>2, <3>1 DEF Took
      <3>2. CASE ~same
        <4>1. (0 - 0) * PollMs = 0
          BY <1>1
        <4>2. x.sameCount = 0 /\ x.hurried = 0 /\ x.since = now
          BY <2>2, <3>2
        <4> QED BY <4>1, <4>2 DEF Took
      <3> QED BY <3>1, <3>2
    <2> QED BY <2>1, <2>2, <2>4, <2>5, <2>6 DEF Counted
  <1> QED BY <1>3, <1>4

LEMMA EndFields ==
    ASSUME NEW w, NEW code, Timed(w)
    PROVE  /\ End(w, code).code = code /\ End(w, code).until = now
           /\ End(w, code).pc = "over" /\ End(w, code).lastPhase = w.lastPhase
           /\ End(w, code).elseAt = w.elseAt /\ End(w, code).since = w.since
           /\ End(w, code).hurried = w.hurried /\ End(w, code).goal = w.goal
  BY DEF Timed, Fields, End

(* A stall is called on what was counted. *)
LEMMA StallCounted ==
    ASSUME NEW w, Timed(w), Counted(w), Took(w, w.sameCount, now), now \in Nat, Stalled(w)
    PROVE  IF w.lastPhase = "external" THEN now - w.elseAt >= ExternalBudget(w)
           ELSE now - w.since >= (StallThreshold - w.hurried) * PollMs
  <1>1. /\ w.sameCount \in 0 .. StallThreshold /\ w.hurried \in 0 .. StallThreshold
        /\ w.since \in Nat /\ w.elseAt \in Nat /\ StallThreshold \in Nat /\ PollMs \in Nat
        /\ ExternalBudget(w) \in Nat
    BY ReconcileAssumption DEF Counted, Counters, ReconcileAssumption, ExternalBudget
  <1>2. CASE w.lastPhase = "external"
    <2>1. w.externalSince \in w.elseAt .. now
      BY <1>2 DEF Counted, Outside
    <2>2. now - w.externalSince >= ExternalBudget(w)
      BY <1>2 DEF Stalled
    <2> QED BY <1>1, <1>2, <2>1, <2>2
  <1>3. CASE w.lastPhase # "external"
    <2>1. w.sameCount = StallThreshold /\ StallThreshold > 0
      BY <1>1, <1>3 DEF Stalled
    <2>2. w.lastStatus # "unknown"
      BY <1>1, <2>1 DEF Counted, Counters
    <2>3. w.since + (StallThreshold - w.hurried) * PollMs <= now
      BY <2>1, <2>2 DEF Took
    <2>4. (StallThreshold - w.hurried) * PollMs \in Int
      BY <1>1
    <2> QED BY <1>1, <1>3, <2>3, <2>4
  <1> QED BY <1>2, <1>3

(* A delay is a poll's time at least. *)
LEMMA DelayLong ==
    ASSUME NEW w, Timed(w), w.nextPoll >= PollMs
    PROVE  Delay(w) >= PollMs /\ BackedOff(w) >= PollMs
  BY ReconcileAssumption DEF Timed, Delay, BackedOff, ReconcileAssumption

(* The sleep takes a poll's time. *)
LEMMA TookLonger ==
    ASSUME NEW w, Counted(w), Took(w, w.sameCount, now), now \in Nat,
           NEW t \in Nat, t >= now + PollMs
    PROVE  Took(w, Capped(w.sameCount), t)
  <1> DEFINE m == w.sameCount - w.hurried
             n == Capped(w.sameCount) - w.hurried
  <1>1. /\ w.sameCount \in 0 .. StallThreshold /\ w.hurried \in 0 .. StallThreshold
        /\ w.since \in Nat /\ StallThreshold \in Nat /\ PollMs \in Nat
    BY ReconcileAssumption DEF Counted, Counters, ReconcileAssumption
  <1>2. m \in Int /\ n \in Int /\ m + 1 \in Int /\ n <= m + 1 /\ m <= m + 1
    BY <1>1, CappedRange
  <1>3. Took(w, w.sameCount, now) => (StallThreshold > 0 /\ w.lastStatus # "unknown" =>
                                      w.since + m * PollMs <= now)
    BY DEF Took
  <1>4. (StallThreshold > 0 /\ w.lastStatus # "unknown" => w.since + n * PollMs <= t)
            => Took(w, Capped(w.sameCount), t)
    BY DEF Took
  <1> HIDE DEF m, n
  <1>5. n * PollMs <= (m + 1) * PollMs /\ n * PollMs \in Int
    BY <1>2, Products
  <1>6. (m + 1) * PollMs = m * PollMs + PollMs /\ m * PollMs \in Int
    BY <1>2, Products
  <1> QED BY <1>1, <1>3, <1>4, <1>5, <1>6

LEMMA IdleCounted ==
    ASSUME now \in Nat
    PROVE  /\ Idle.code = "none" /\ Idle.lastStatus = "unknown" /\ Idle.sameCount = 0
           /\ Idle.hurried = 0 /\ Idle.externalSince = None /\ Idle.lastPhase = None
           /\ Idle.nextPoll = PollMs /\ Idle.since = 0 /\ Idle.elseAt = 0
  BY DEF Idle

LEMMA InitPaced == Init => Paced
  BY IdleCounted, IdleTimed DEF Init, Paced, StalledOnEvidence

LEMMA BeginPaced ==
    ASSUME Shaped, Begin \/ BeginWatch
    PROVE  Paced'
  <1>0. /\ now \in Nat /\ StallThreshold \in Nat /\ PollMs \in Nat
    BY ReconcileAssumption DEF Shaped, ReconcileAssumption
  <1>1. PICK w : /\ Timed(w) /\ wait' = Poll(w) /\ now' = now
                 /\ w.code = "none" /\ w.lastStatus = "unknown" /\ w.sameCount = 0
                 /\ w.hurried = 0 /\ w.externalSince = None /\ w.lastPhase = None
                 /\ w.nextPoll = PollMs /\ w.since \in {0, now} /\ w.elseAt \in {0, now}
    <2>1. CASE Begin
      <3>1. PICK goal \in {"deposit", "payout"} :
                wait' = Poll([Idle EXCEPT !.goal = goal, !.deadline = now + Timeout,
                                          !.since = now, !.elseAt = now])
        BY <2>1 DEF Begin
      <3> DEFINE w == [Idle EXCEPT !.goal = goal, !.deadline = now + Timeout,
                                   !.since = now, !.elseAt = now]
      <3>2. /\ Timed(w) /\ w.code = "none" /\ w.lastStatus = "unknown" /\ w.sameCount = 0
            /\ w.hurried = 0 /\ w.externalSince = None /\ w.lastPhase = None
            /\ w.nextPoll = PollMs /\ w.since = now /\ w.elseAt = now
        BY <1>0, IdleTimed, ReconcileAssumption DEF Timed, Fields, Idle, ReconcileAssumption
      <3>3. wait' = Poll(w) /\ now' = now
        BY <2>1, <3>1 DEF Begin
      <3> HIDE DEF w
      <3> QED BY <3>2, <3>3
    <2>2. CASE BeginWatch
      <3> DEFINE w == [Idle EXCEPT !.goal = "refund", !.deadline = now + RefundWait]
      <3>2. /\ Timed(w) /\ w.code = "none" /\ w.lastStatus = "unknown" /\ w.sameCount = 0
            /\ w.hurried = 0 /\ w.externalSince = None /\ w.lastPhase = None
            /\ w.nextPoll = PollMs /\ w.since = 0 /\ w.elseAt = 0
        BY <1>0, IdleTimed, ReconcileAssumption DEF Timed, Fields, Idle, ReconcileAssumption
      <3>3. wait' = Poll(w) /\ now' = now
        BY <2>2 DEF BeginWatch
      <3> HIDE DEF w
      <3> QED BY <3>2, <3>3
    <2> QED BY <2>1, <2>2
  <1>2. Poll(w).pc = "asking" /\ Alike(Poll(w), w) /\ Poll(w).nextPoll = PollMs
    BY <1>0, <1>1, PollAlike, PollTimed
  <1>3. /\ wait'.pc = "asking" /\ wait'.code = "none" /\ wait'.lastStatus = "unknown"
        /\ wait'.sameCount = 0 /\ wait'.hurried = 0 /\ wait'.externalSince = None
        /\ wait'.lastPhase = None /\ wait'.nextPoll = PollMs
        /\ wait'.since \in 0 .. now /\ wait'.elseAt \in 0 .. now
    BY <1>0, <1>1, <1>2 DEF Alike
  <1>4. Counted(wait)' /\ Took(wait, Capped(wait.sameCount), now)'
    BY <1>0, <1>1, <1>3, RecordsAssumption
       DEF Counted, Counters, Outside, Took, RecordsAssumption
  <1> QED BY <1>3, <1>4 DEF Paced, StalledOnEvidence

LEMMA ReadPaced ==
    ASSUME Shaped, Paced, Read
    PROVE  Paced'
  <1>1. PICK answer : wait' = [wait EXCEPT !.pc = "answered", !.missed = FALSE,
                                           !.answer = answer]
    BY DEF Read
  <1>2. Alike(wait', wait) /\ wait'.nextPoll = wait.nextPoll /\ wait'.pc = "answered"
    BY <1>1 DEF Shaped, Timed, Fields, Alike
  <1>3. now' = now /\ wait.pc = "asking"
    BY DEF Read
  <1>4. /\ Counted(wait) /\ Took(wait, Capped(wait.sameCount), now)
        /\ wait.nextPoll >= PollMs /\ wait.code = "none"
    BY <1>3 DEF Paced, Counted, Counters
  <1>5. Counted(wait') /\ Took(wait', Capped(wait.sameCount), now)
    BY <1>2, <1>4, AlikeCounted
  <1>6. Counted(wait)' /\ Took(wait, Capped(wait.sameCount), now)'
    BY <1>2, <1>3, <1>5 DEF Counted, Counters, Outside, Took, Alike
  <1> QED BY <1>2, <1>3, <1>4, <1>6 DEF Paced, StalledOnEvidence, Alike

(* A poll that goes out counts on. *)
LEMMA PollPaced ==
    ASSUME NEW w, Timed(w), Counted(w), Took(w, Capped(w.sameCount), now), w.code = "none",
           now \in Nat, wait' = Poll(w), now' = now
    PROVE  Paced'
  <1>1. /\ Poll(w).pc = "asking" /\ Alike(Poll(w), w) /\ w.nextPoll >= PollMs
        /\ Poll(w).nextPoll = w.nextPoll
    BY PollAlike, PollTimed DEF Counted, Counters
  <1>2. Counted(wait') /\ Took(wait', Capped(w.sameCount), now)
    BY <1>1, AlikeCounted
  <1>3. Counted(wait)' /\ Took(wait, Capped(wait.sameCount), now)'
    BY <1>1, <1>2 DEF Counted, Counters, Outside, Took, Alike
  <1> QED BY <1>1, <1>3 DEF Paced, StalledOnEvidence, Alike

LEMMA EndPaced ==
    ASSUME NEW w, NEW code, Timed(w), wait' = End(w, code), now' = now,
           code = "RECONCILE_STALLED" =>
              IF w.lastPhase = "external" THEN now - w.elseAt >= ExternalBudget(w)
              ELSE now - w.since >= (StallThreshold - w.hurried) * PollMs
    PROVE  Paced'
  <1>1. /\ wait'.code = code /\ wait'.until = now /\ wait'.pc = "over"
        /\ wait'.lastPhase = w.lastPhase /\ wait'.elseAt = w.elseAt
        /\ wait'.since = w.since /\ wait'.hurried = w.hurried /\ wait'.goal = w.goal
    BY EndFields
  <1> QED BY <1>1 DEF Paced, StalledOnEvidence, ExternalBudget

LEMMA VerdictStalled ==
    ASSUME NEW w, Verdict(w) = "RECONCILE_STALLED",
           ~w.answer.ok => w.answer.code # "RECONCILE_STALLED"
    PROVE  Stalled(w)
  <1> DEFINE class == w.answer.value.class
             late == IF w.answer.ok THEN "SETTLEMENT_TIMEOUT" ELSE w.answer.code
             other == IF Stalled(w) THEN "RECONCILE_STALLED"
                      ELSE IF now < w.deadline THEN "none" ELSE late
  <1>1. CASE w.answer.ok /\ class.settled
    BY <1>1 DEF Verdict
  <1>2. CASE w.answer.ok /\ ~class.settled /\ class.terminalFailure
    BY <1>2 DEF Verdict
  <1>3. CASE ~(w.answer.ok /\ class.settled)
             /\ ~(w.answer.ok /\ ~class.settled /\ class.terminalFailure)
    <2>1. Verdict(w) = other
      BY <1>3 DEF Verdict
    <2>2. late # "RECONCILE_STALLED"
      OBVIOUS
    <2> HIDE DEF late
    <2> QED BY <2>1, <2>2
  <1> QED BY <1>1, <1>2, <1>3

LEMMA JudgePaced ==
    ASSUME Shaped, Paced, Truthful, Judge
    PROVE  Paced'
  <1> DEFINE w == Noted(wait)
             code == Verdict(w)
  <1>0. /\ now \in Nat /\ now' = now /\ wait.pc = "answered" /\ wait.code = "none"
        /\ Counted(wait) /\ Took(wait, Capped(wait.sameCount), now) /\ Timed(wait)
    BY DEF Shaped, Judge, Paced
  <1>1. wait.answer.ok => wait.answer.value.class.status # "unknown"
    BY <1>0 DEF Truthful
  <1>2. /\ Timed(w) /\ w.answer = wait.answer /\ Counted(w) /\ w.code = "none"
        /\ Took(w, w.sameCount, now)
    BY <1>0, <1>1, NotedTimed, NotedCounted
  <1>3. ~w.answer.ok => w.answer.code # "RECONCILE_STALLED"
    BY <1>0, <1>2 DEF Truthful
  <1>4. \/ code # "none" /\ wait' = End(w, code)
        \/ wait' = Poll(Hurry(w))
        \/ wait' = [w EXCEPT !.pc = "asleep", !.until = now + Delay(w), !.answer = None]
    BY DEF Judge
  <1>5. code = "RECONCILE_STALLED" => Stalled(w)
    BY <1>3, VerdictStalled
  <1> HIDE DEF w, code
  <1>6. CASE wait' = End(w, code)
    <2>1. code = "RECONCILE_STALLED" =>
              IF w.lastPhase = "external" THEN now - w.elseAt >= ExternalBudget(w)
              ELSE now - w.since >= (StallThreshold - w.hurried) * PollMs
      BY <1>0, <1>2, <1>5, StallCounted
    <2> QED BY <1>0, <1>2, <1>6, <2>1, EndPaced
  <1>7. CASE wait' = Poll(Hurry(w))
    <2>1. /\ Timed(Hurry(w)) /\ Counted(Hurry(w)) /\ Hurry(w).code = "none"
          /\ Took(Hurry(w), Capped(Hurry(w).sameCount), now)
      BY <1>0, <1>2, HurryTimed, HurryCounted
    <2> QED BY <1>0, <1>7, <2>1, PollPaced
  <1>8. CASE wait' = [w EXCEPT !.pc = "asleep", !.until = now + Delay(w), !.answer = None]
    <2>1. /\ Alike(wait', w) /\ wait'.nextPoll = w.nextPoll /\ wait'.pc = "asleep"
          /\ wait'.until = now + Delay(w)
      BY <1>2, <1>8 DEF Timed, Fields, Alike
    <2>2. /\ w.nextPoll >= PollMs /\ Delay(w) \in Nat /\ Delay(w) >= PollMs
          /\ PollMs \in Nat
      BY <1>2, DelayBounded, DelayLong, ReconcileAssumption
         DEF Counted, Counters, ReconcileAssumption
    <2>3. Took(w, Capped(w.sameCount), now + Delay(w))
      <3>1. now + Delay(w) \in Nat /\ now + Delay(w) >= now + PollMs
        BY <1>0, <2>2
      <3> QED BY <1>0, <1>2, <3>1, TookLonger
    <2>4. /\ Counted(wait') /\ Took(wait', w.sameCount, now)
          /\ Took(wait', Capped(w.sameCount), wait'.until)
      BY <1>2, <2>1, <2>2, <2>3, AlikeCounted
    <2>5. /\ Counted(wait)' /\ Took(wait, wait.sameCount, now)'
          /\ Took(wait, Capped(wait.sameCount), wait.until)'
      BY <1>0, <2>1, <2>4 DEF Counted, Counters, Outside, Took, Alike
    <2>6. wait'.code = "none"
      BY <1>2, <2>1 DEF Alike
    <2> QED BY <2>1, <2>5, <2>6 DEF Paced, StalledOnEvidence
  <1> QED BY <1>4, <1>6, <1>7, <1>8

LEMMA WakePaced ==
    ASSUME Shaped, Paced, Wake
    PROVE  Paced'
  <1> DEFINE w == [wait EXCEPT !.nextPoll = BackedOff(wait)]
  <1>0. /\ now \in Nat /\ now' = now /\ wait.pc = "asleep" /\ wait.until <= now
        /\ wait.code = "none" /\ Counted(wait) /\ Timed(wait)
        /\ Took(wait, Capped(wait.sameCount), wait.until)
    BY DEF Shaped, Wake, Paced
  <1>1. BackedOff(wait) \in Nat /\ BackedOff(wait) >= PollMs
    BY <1>0, DelayBounded, DelayLong DEF Counted, Counters
  <1>2. /\ Timed(w) /\ Alike(w, wait) /\ w.nextPoll >= PollMs /\ w.code = "none"
    BY <1>0, <1>1 DEF Timed, Fields, Alike
  <1>3. wait' = Poll(w)
    BY DEF Wake
  <1> HIDE DEF w
  <1>4. Took(wait, Capped(wait.sameCount), now)
    <2>1. /\ wait.sameCount \in 0 .. StallThreshold /\ wait.hurried \in Int
          /\ wait.since \in Nat /\ wait.until \in Nat
      BY <1>0 DEF Counted, Counters, Timed
    <2>2. Capped(wait.sameCount) - wait.hurried \in Int
      BY <2>1, CappedRange
    <2>3. (Capped(wait.sameCount) - wait.hurried) * PollMs \in Int
      BY <2>2, Products
    <2> QED BY <1>0, <2>1, <2>3 DEF Took
  <1>5. Counted(w) /\ Took(w, Capped(w.sameCount), now)
    <2>1. Counted(w) /\ Took(w, Capped(wait.sameCount), now)
      BY <1>0, <1>2, <1>4, AlikeCounted
    <2> QED BY <1>2, <2>1 DEF Alike
  <1> QED BY <1>0, <1>2, <1>3, <1>5, PollPaced

LEMMA RingPaced ==
    ASSUME Shaped, Paced, Ring, UNCHANGED now
    PROVE  Paced'
  <1>0. now \in Nat /\ Timed(wait) /\ now' = now
    BY DEF Shaped
  <1>1. CASE wait.pc = "asleep" /\ Listens
    <2> DEFINE w == [wait EXCEPT !.nextPoll = BackedOff(wait), !.missed = TRUE]
    <2>1. /\ wait.code = "none" /\ Counted(wait) /\ Took(wait, wait.sameCount, now)
      BY <1>1 DEF Paced
    <2>2. BackedOff(wait) \in Nat /\ BackedOff(wait) >= PollMs
      BY <1>0, <2>1, DelayBounded, DelayLong DEF Counted, Counters
    <2>3. /\ Timed(w) /\ Alike(w, wait) /\ w.nextPoll >= PollMs /\ w.code = "none"
      BY <1>0, <2>1, <2>2 DEF Timed, Fields, Alike
    <2>4. wait' = Poll(Hurry(w))
      BY <1>1 DEF Ring
    <2> HIDE DEF w
    <2>5. Counted(w) /\ Took(w, w.sameCount, now)
      <3>1. Counted(w) /\ Took(w, wait.sameCount, now)
        BY <2>1, <2>3, AlikeCounted
      <3> QED BY <2>3, <3>1 DEF Alike
    <2>6. /\ Timed(Hurry(w)) /\ Counted(Hurry(w)) /\ Hurry(w).code = "none"
          /\ Took(Hurry(w), Capped(Hurry(w).sameCount), now)
      BY <1>0, <2>3, <2>5, HurryTimed, HurryCounted
    <2> QED BY <1>0, <2>4, <2>6, PollPaced
  <1>2. CASE Waiting /\ Listens /\ wait.pc # "asleep"
    <2>1. wait' = [wait EXCEPT !.missed = TRUE]
      BY <1>2 DEF Ring
    <2>2. /\ Alike(wait', wait) /\ wait'.nextPoll = wait.nextPoll /\ wait'.pc = wait.pc
      BY <1>0, <2>1 DEF Timed, Fields, Alike
    <2>3. /\ Counted(wait) /\ Took(wait, Capped(wait.sameCount), now)
          /\ wait.nextPoll >= PollMs /\ wait.code = "none"
      BY <1>2 DEF Paced, Waiting, Counted, Counters
    <2>4. Counted(wait') /\ Took(wait', Capped(wait.sameCount), now)
      BY <2>2, <2>3, AlikeCounted
    <2>5. Counted(wait)' /\ Took(wait, Capped(wait.sameCount), now)'
      BY <1>0, <2>2, <2>4 DEF Counted, Counters, Outside, Took, Alike
    <2> QED BY <1>2, <2>2, <2>3, <2>5 DEF Paced, StalledOnEvidence, Alike, Waiting
  <1>3. CASE ~(Waiting /\ Listens)
    <2>1. wait' = wait
      BY <1>3 DEF Ring, Waiting
    <2> QED BY <1>0, <2>1 DEF Paced, StalledOnEvidence, Counted, Counters, Outside, Took
  <1> QED BY <1>1, <1>2, <1>3 DEF Waiting

(* More time only adds to what was waited for. *)
LEMMA TookOn ==
    ASSUME NEW w, Counted(w), now \in Nat, NEW n \in Int, NEW m \in Int, n <= m,
           NEW s \in Nat, NEW t \in Nat, s <= t, Took(w, m, s)
    PROVE  Took(w, n, t)
  <1>1. w.hurried \in Int /\ w.since \in Nat
    BY DEF Counted, Counters
  <1>2. /\ (n - w.hurried) * PollMs \in Int /\ (m - w.hurried) * PollMs \in Int
        /\ (n - w.hurried) * PollMs <= (m - w.hurried) * PollMs
    <2>1. n - w.hurried \in Int /\ m - w.hurried \in Int /\ n - w.hurried <= m - w.hurried
      BY <1>1
    <2> QED BY <2>1, Products
  <1> QED BY <1>1, <1>2 DEF Took

LEMMA JudgeRefundPaced ==
    ASSUME Shaped, Paced, JudgeRefund
    PROVE  Paced'
  <1>0. /\ now \in Nat /\ now' = now /\ wait.pc = "answered" /\ wait.code = "none"
        /\ Counted(wait) /\ Took(wait, Capped(wait.sameCount), now) /\ Timed(wait)
        /\ PollMs \in Nat
    BY ReconcileAssumption DEF Shaped, JudgeRefund, Paced, ReconcileAssumption
  <1>1. \/ \E code \in {"refunded", "RECONCILE_MISMATCH", "SETTLEMENT_TIMEOUT"} :
               wait' = End(wait, code)
        \/ wait' = [wait EXCEPT !.pc = "asleep", !.until = now + PollMs, !.answer = None]
    BY DEF JudgeRefund
  <1>2. CASE \E code \in {"refunded", "RECONCILE_MISMATCH", "SETTLEMENT_TIMEOUT"} :
                 wait' = End(wait, code)
    BY <1>0, <1>2, EndPaced
  <1>3. CASE wait' = [wait EXCEPT !.pc = "asleep", !.until = now + PollMs, !.answer = None]
    <2>1. /\ Alike(wait', wait) /\ wait'.nextPoll = wait.nextPoll /\ wait'.pc = "asleep"
          /\ wait'.until = now + PollMs
      BY <1>0, <1>3 DEF Timed, Fields, Alike
    <2>2. /\ wait.sameCount \in 0 .. StallThreshold /\ Capped(wait.sameCount) \in Int
          /\ wait.sameCount <= Capped(wait.sameCount) /\ wait.nextPoll >= PollMs
      BY <1>0, CappedRange DEF Counted, Counters
    <2>3. Took(wait, wait.sameCount, now) /\ Took(wait, Capped(wait.sameCount), now + PollMs)
      <3>1. now + PollMs \in Nat /\ now <= now + PollMs /\ wait.sameCount \in Int
        BY <1>0, <2>2
      <3> QED BY <1>0, <2>2, <3>1, TookOn
    <2>4. /\ Counted(wait') /\ Took(wait', wait.sameCount, now)
          /\ Took(wait', Capped(wait.sameCount), wait'.until)
      BY <1>0, <2>1, <2>2, <2>3, AlikeCounted
    <2>5. /\ Counted(wait)' /\ Took(wait, wait.sameCount, now)'
          /\ Took(wait, Capped(wait.sameCount), wait.until)'
      BY <1>0, <2>1, <2>4 DEF Counted, Counters, Outside, Took, Alike
    <2>6. wait'.code = "none"
      BY <1>0, <2>1 DEF Alike
    <2> QED BY <2>1, <2>5, <2>6 DEF Paced, StalledOnEvidence
  <1> QED BY <1>1, <1>2, <1>3

LEMMA TickPaced ==
    ASSUME Shaped, Paced, Tick
    PROVE  Paced'
  <1>0. /\ now \in Nat /\ now' = now + 1 /\ wait' = wait /\ wait.code = "none"
        /\ wait.pc \in {"asking", "asleep"} /\ Counted(wait)
    BY DEF Shaped, Tick, Waiting, Paced
  <1>1. Counted(wait)'
    <2>1. /\ wait.since \in 0 .. now + 1 /\ wait.elseAt \in 0 .. now + 1
      BY <1>0 DEF Counted, Counters
    <2>2. wait.lastPhase = "external" => wait.externalSince \in wait.elseAt .. now + 1
      <3>1. wait.elseAt \in Int
        BY <1>0 DEF Counted, Counters
      <3> QED BY <1>0, <3>1 DEF Counted, Outside
    <2> QED BY <1>0, <2>1, <2>2 DEF Counted, Counters, Outside
  <1>2. wait.sameCount \in Int /\ Capped(wait.sameCount) \in Int
    BY <1>0, CappedRange DEF Counted, Counters
  <1>3. CASE wait.pc = "asking"
    <2>1. Took(wait, Capped(wait.sameCount), now)
      BY <1>3 DEF Paced
    <2>2. Took(wait, Capped(wait.sameCount), now + 1)
      BY <1>0, <1>2, <2>1, TookOn
    <2>3. Took(wait, Capped(wait.sameCount), now)'
      BY <1>0, <2>2 DEF Took, Capped
    <2> QED BY <1>0, <1>1, <1>3, <2>3 DEF Paced, StalledOnEvidence
  <1>4. CASE wait.pc = "asleep"
    <2>1. Took(wait, wait.sameCount, now) /\ Took(wait, Capped(wait.sameCount), wait.until)
      BY <1>4 DEF Paced
    <2>2. Took(wait, wait.sameCount, now + 1)
      BY <1>0, <1>2, <2>1, TookOn
    <2>3. /\ Took(wait, wait.sameCount, now)'
          /\ Took(wait, Capped(wait.sameCount), wait.until)'
      BY <1>0, <2>1, <2>2 DEF Took, Capped
    <2> QED BY <1>0, <1>1, <1>4, <2>3 DEF Paced, StalledOnEvidence
  <1> QED BY <1>0, <1>3, <1>4

LEMMA NextPaced == Shaped /\ Truthful /\ Paced /\ [Next]_vars => Paced'
  <1> SUFFICES ASSUME Shaped, Truthful, Paced, [Next]_vars PROVE Paced'
    OBVIOUS
  <1>1. CASE Callback
    <2>1. Ring /\ UNCHANGED now
      BY <1>1 DEF Callback
    <2> QED BY <2>1, RingPaced
  <1>2. CASE MoveRecord \/ Rival \/ UNCHANGED vars
    <2>1. now' = now /\ wait' = wait
      BY <1>2 DEF MoveRecord, Rival, vars
    <2> QED BY <2>1 DEF Paced, StalledOnEvidence, Counted, Counters, Outside, Took, Capped
  <1> QED BY <1>1, <1>2, BeginPaced, ReadPaced, JudgePaced, WakePaced, JudgeRefundPaced,
             TickPaced DEF Next

-----------------------------------------------------------------------------
(* Verdicts *)

(* parseRefunds calls a refund whole when what came back is no less.       *)
LEMMA WholeRefund ==
    ASSUME NEW r \in Records \cup {FirstRecord},
           parseRefunds(r.refunds, r.amount) # None,
           parseRefunds(r.refunds, r.amount).completeness = "full"
    PROVE  RefundedInFull(r)
  <1> DEFINE back == r.refunds.amount
             cmp == IF isValidAmount(r.amount) THEN compareAmounts(back, r.amount) ELSE None
             completeness == CASE cmp = None -> "unknown"
                               [] cmp = -1 -> "partial"
                               [] OTHER -> "full"
  <1>1. /\ r.refunds \notin {None, Bad} /\ isValidAmount(back)
        /\ parseRefunds(r.refunds, r.amount)
              = [amount |-> back, completeness |-> completeness]
    BY DEF parseRefunds
  <1>2. completeness = "full"
    <2> HIDE DEF completeness
    <2> QED BY <1>1
  <1>3. cmp # None /\ cmp # -1
    BY <1>2
  <1>4. isValidAmount(r.amount) /\ cmp = compareAmounts(back, r.amount)
    BY <1>3
  <1>5. /\ None \notin {toScaled(back), toScaled(r.amount)}
        /\ ~(toScaled(back) < toScaled(r.amount))
    BY <1>3, <1>4 DEF compareAmounts
  <1>6. toScaled(back) \in Int /\ toScaled(r.amount) \in Int
    BY <1>1, <1>5, RecordsAssumption DEF RecordsAssumption, isValidAmount
  <1> QED BY <1>1, <1>4, <1>5, <1>6 DEF RefundedInFull, isValidAmount

LEMMA InitTruthful == Init => Truthful
  BY IdleTimed, IdleCounted DEF Init, Truthful, VerdictsStand

LEMMA ReadTruthful ==
    ASSUME Shaped, Truthful, Read
    PROVE  Truthful'
  <1>1. PICK http \in {"ok", "lost"} :
            wait' = [wait EXCEPT !.pc = "answered", !.missed = FALSE,
                                 !.answer = Status31(http, anchor.record)]
    BY DEF Read
  <1> DEFINE answer == Status31(http, anchor.record)
             r == anchor.record
  <1>2. wait'.pc = "answered" /\ wait'.answer = answer /\ wait'.code = wait.code
    BY <1>1 DEF Shaped, Timed, Fields
  <1>3. anchor' = anchor /\ wait.code = "none" /\ r \in Records \cup {FirstRecord}
    BY DEF Read, Truthful
  <1>4. CASE http = "ok"
    <2>1. /\ answer.ok /\ answer.value.class = mapSep31Status(r.status)
          /\ answer.value.refunds = parseRefunds(r.refunds, r.amount)
      BY <1>4 DEF Status31, Ok, StatusOf
    <2>2. /\ mapSep31Status(r.status).status = r.status /\ r.status # "unknown"
          /\ mapSep31Status(r.status).terminalFailure
                = (r.status \in {"refunded", "expired", "error"})
      BY <1>3, RecordsAssumption DEF mapSep31Status, RecordsAssumption
    <2> HIDE DEF answer
    <2> QED BY <1>2, <1>3, <2>1, <2>2, WholeRefund DEF Truthful, VerdictsStand, Final, Failed
  <1>5. CASE http # "ok"
    <2>1. ~answer.ok /\ answer.code = "ANCHOR_UNAVAILABLE"
      BY <1>5 DEF Status31, HttpFail, Fail
    <2> HIDE DEF answer
    <2> QED BY <1>2, <1>3, <2>1 DEF Truthful, VerdictsStand
  <1> QED BY <1>4, <1>5

(* A verdict of the loop is the answer's. *)
LEMMA VerdictAnswers ==
    ASSUME NEW w, ~w.answer.ok => w.answer.code = "ANCHOR_UNAVAILABLE"
    PROVE  /\ Verdict(w) = "settled" => w.answer.ok /\ w.answer.value.class.settled
           /\ Verdict(w) = "RECONCILE_MISMATCH" =>
                 w.answer.ok /\ w.answer.value.class.terminalFailure
           /\ Verdict(w) # "refunded"
  <1> DEFINE class == w.answer.value.class
             late == IF w.answer.ok THEN "SETTLEMENT_TIMEOUT" ELSE w.answer.code
             other == IF Stalled(w) THEN "RECONCILE_STALLED"
                      ELSE IF now < w.deadline THEN "none" ELSE late
  <1>1. CASE w.answer.ok /\ class.settled
    BY <1>1 DEF Verdict
  <1>2. CASE w.answer.ok /\ ~class.settled /\ class.terminalFailure
    BY <1>2 DEF Verdict
  <1>3. CASE ~(w.answer.ok /\ class.settled)
             /\ ~(w.answer.ok /\ ~class.settled /\ class.terminalFailure)
    <2>1. Verdict(w) = other
      BY <1>3 DEF Verdict
    <2>2. late \in {"SETTLEMENT_TIMEOUT", "ANCHOR_UNAVAILABLE"}
      OBVIOUS
    <2> HIDE DEF late
    <2>3. other \in {"RECONCILE_STALLED", "none", "SETTLEMENT_TIMEOUT", "ANCHOR_UNAVAILABLE"}
      BY <2>2
    <2> HIDE DEF other
    <2> QED BY <2>1, <2>3
  <1> QED BY <1>1, <1>2, <1>3

(* The loop's next state, and whether the wait is over with it. *)
LEMMA JudgeTruthful ==
    ASSUME Shaped, Truthful, Paced, Judge
    PROVE  Truthful'
  <1> DEFINE w == Noted(wait)
             code == Verdict(w)
  <1>0. /\ wait.pc = "answered" /\ anchor' = anchor /\ Timed(wait) /\ now \in Nat
        /\ Counted(wait) /\ Took(wait, Capped(wait.sameCount), now) /\ wait.code = "none"
    BY DEF Judge, Shaped, Paced
  <1>1. /\ Timed(w) /\ w.answer = wait.answer /\ w.code = "none"
    BY <1>0, NotedTimed, NotedCounted DEF Truthful
  <1>2. /\ code = "settled" => wait.answer.ok /\ wait.answer.value.class.settled
        /\ code = "RECONCILE_MISMATCH" =>
              wait.answer.ok /\ wait.answer.value.class.terminalFailure
        /\ code # "refunded"
    BY <1>0, <1>1, VerdictAnswers DEF Truthful
  <1>3. \/ wait' = End(w, code)
        \/ wait' = Poll(Hurry(w))
        \/ wait' = [w EXCEPT !.pc = "asleep", !.until = now + Delay(w), !.answer = None]
    BY DEF Judge
  <1> HIDE DEF w, code
  <1>4. CASE wait' = End(w, code)
    <2>1. wait'.pc = "over" /\ wait'.code = code
      BY <1>1, <1>4, EndFields
    <2> QED BY <1>0, <1>2, <2>1 DEF Truthful, VerdictsStand, Final, Failed
  <1>5. CASE wait' = Poll(Hurry(w))
    <2>1. wait'.pc = "asking" /\ wait'.code = "none"
      BY <1>1, <1>5 DEF Poll, Hurry, Timed, Fields
    <2> QED BY <1>0, <2>1 DEF Truthful, VerdictsStand
  <1>6. CASE wait' = [w EXCEPT !.pc = "asleep", !.until = now + Delay(w), !.answer = None]
    <2>1. wait'.pc = "asleep" /\ wait'.code = "none"
      BY <1>1, <1>6 DEF Timed, Fields
    <2> QED BY <1>0, <2>1 DEF Truthful, VerdictsStand
  <1> QED BY <1>3, <1>4, <1>5, <1>6

LEMMA JudgeRefundTruthful ==
    ASSUME Shaped, Truthful, JudgeRefund
    PROVE  Truthful'
  <1> DEFINE status == wait.answer.value
             reported == /\ wait.answer.ok /\ status.refunds # None
                         /\ status.class.status = "refunded" \/ status.class.terminalFailure
             whole == status.refunds.completeness = "full"
  <1>0. /\ wait.pc = "answered" /\ anchor' = anchor /\ Timed(wait) /\ wait.code = "none"
    BY DEF JudgeRefund, Shaped, Truthful
  <1>1. \/ reported /\ whole /\ wait' = End(wait, "refunded")
        \/ reported /\ ~whole /\ wait' = End(wait, "RECONCILE_MISMATCH")
        \/ wait' = End(wait, "SETTLEMENT_TIMEOUT")
        \/ wait' = [wait EXCEPT !.pc = "asleep", !.until = now + PollMs, !.answer = None]
    BY DEF JudgeRefund
  <1>2. reported => Failed(anchor.record) /\ (whole => RefundedInFull(anchor.record))
    BY <1>0 DEF Truthful
  <1> HIDE DEF reported, whole
  <1>3. CASE reported /\ whole /\ wait' = End(wait, "refunded")
    <2>1. wait'.pc = "over" /\ wait'.code = "refunded"
      BY <1>0, <1>3, EndFields
    <2> QED BY <1>0, <1>2, <1>3, <2>1 DEF Truthful, VerdictsStand
  <1>4. CASE reported /\ ~whole /\ wait' = End(wait, "RECONCILE_MISMATCH")
    <2>1. wait'.pc = "over" /\ wait'.code = "RECONCILE_MISMATCH"
      BY <1>0, <1>4, EndFields
    <2> QED BY <1>0, <1>2, <1>4, <2>1 DEF Truthful, VerdictsStand, Failed
  <1>5. CASE wait' = End(wait, "SETTLEMENT_TIMEOUT")
    <2>1. wait'.pc = "over" /\ wait'.code = "SETTLEMENT_TIMEOUT"
      BY <1>0, <1>5, EndFields
    <2> QED BY <1>0, <2>1 DEF Truthful, VerdictsStand
  <1>6. CASE wait' = [wait EXCEPT !.pc = "asleep", !.until = now + PollMs, !.answer = None]
    <2>1. wait'.pc = "asleep" /\ wait'.code = "none"
      BY <1>0, <1>6 DEF Timed, Fields
    <2> QED BY <1>0, <2>1 DEF Truthful, VerdictsStand
  <1> QED BY <1>1, <1>3, <1>4, <1>5, <1>6

(* What is final at the anchor stays so, also while an answer is on its    *)
(* way, and what failed is only refunded.                                  *)
LEMMA MoveTruthful ==
    ASSUME Truthful, MoveRecord
    PROVE  Truthful'
  <1>1. PICK r \in Records :
            /\ mapSep31Status(anchor.record.status).terminalFailure =>
                  r.status = "refunded" /\ ~RefundedInFull(anchor.record)
            /\ anchor' = [anchor EXCEPT !.record = r, !.moves = @ + 1]
    BY DEF MoveRecord
  <1>2. wait' = wait /\ ~Final(anchor.record)
    BY DEF MoveRecord
  <1>3. anchor'.record = r \/ anchor' = anchor
    BY <1>1
  <1>4. Failed(anchor.record) => mapSep31Status(r.status).terminalFailure
                                 /\ ~RefundedInFull(anchor.record)
    BY <1>1 DEF Failed, mapSep31Status
  <1>5. CASE anchor' = anchor
    BY <1>2, <1>5 DEF Truthful, VerdictsStand, Final, Failed
  <1>6. CASE anchor'.record = r
    BY <1>2, <1>4, <1>6 DEF Truthful, VerdictsStand, Final, Failed
  <1> QED BY <1>3, <1>5, <1>6

LEMMA NextTruthful == Shaped /\ Paced /\ Truthful /\ [Next]_vars => Truthful'
  <1> SUFFICES ASSUME Shaped, Paced, Truthful, [Next]_vars PROVE Truthful'
    OBVIOUS
  <1>1. CASE Begin \/ BeginWatch
    <2>1. anchor' = anchor /\ wait'.pc = "asking"
      BY <1>1, BeginShaped DEF Begin, BeginWatch
    <2>2. wait'.code = "none"
      BY <1>1, <2>1, BeginPaced DEF Paced
    <2> QED BY <2>1, <2>2 DEF Truthful, VerdictsStand
  <1>2. CASE Wake
    <2>1. anchor' = anchor /\ wait'.pc = "asking"
      BY <1>2, WakeShaped DEF Wake
    <2>2. wait'.code = "none"
      BY <1>2, <2>1, WakePaced DEF Paced
    <2> QED BY <2>1, <2>2 DEF Truthful, VerdictsStand
  <1>3. CASE Callback
    <2>1. Ring /\ UNCHANGED <<now, anchor, rival>>
      BY <1>3 DEF Callback
    <2>2. CASE wait'.pc = "asking"
      <3>1. wait'.code = "none"
        BY <2>1, <2>2, RingPaced DEF Paced
      <3> QED BY <2>1, <2>2, <3>1 DEF Truthful, VerdictsStand
    <2>3. CASE wait'.pc # "asking"
      <3>1. wait' = wait \/ wait' = [wait EXCEPT !.missed = TRUE]
        BY <2>1, <2>3, RingShaped DEF Ring, Waiting
      <3>2. /\ wait'.pc = wait.pc /\ wait'.answer = wait.answer /\ wait'.code = wait.code
        BY <3>1 DEF Shaped, Timed, Fields
      <3> QED BY <2>1, <3>2 DEF Truthful, VerdictsStand
    <2> QED BY <2>2, <2>3
  <1>4. CASE Rival \/ Tick \/ UNCHANGED vars
    <2>1. anchor' = anchor /\ wait' = wait
      BY <1>4 DEF Rival, Tick, vars
    <2> QED BY <2>1 DEF Truthful, VerdictsStand
  <1> QED BY <1>1, <1>2, <1>3, <1>4, ReadTruthful, JudgeTruthful, JudgeRefundTruthful,
             MoveTruthful DEF Next

-----------------------------------------------------------------------------

(* The locals of the loop keep their types, whatever the anchor answers.   *)
(* It is the typing that the two theorems below rest on (verbs.ts:225-354). *)
THEOREM Typed == Spec => []Shaped
  <1>1. Init => Shaped /\ Bounded
    BY InitShaped
  <1>2. Shaped /\ Bounded /\ [Next]_vars => (Shaped /\ Bounded)'
    BY NextBounded
  <1> QED BY <1>1, <1>2, PTL DEF Spec

(* While one call waits for a transaction, no wake for it is slept through *)
(* (verbs.ts:334-354): the wake is still in the flag when the answer it    *)
(* overtook is judged.                                                     *)
THEOREM NoWakeIsLost == Spec => []WakeIsSeen
  <1>1. Init => Shaped /\ Bounded /\ WakeKept
    BY InitShaped
  <1>2. Shaped /\ Bounded /\ WakeKept /\ [Next]_vars => (Shaped /\ Bounded /\ WakeKept)'
    BY NextBounded, NextKept
  <1>3. WakeKept => WakeIsSeen
    BY DEF WakeKept
  <1> QED BY <1>1, <1>2, <1>3, PTL DEF Spec

(* No wait for the payout, the deposit or the refund outlives its deadline *)
(* by more than one delay and one answer (verbs.ts:324-337).               *)
THEOREM NoWaitIsEndless == Spec => []EndsInTime
  <1>1. Init => Shaped /\ Bounded
    BY InitShaped
  <1>2. Shaped /\ Bounded /\ [Next]_vars => (Shaped /\ Bounded)'
    BY NextBounded
  <1>3. Bounded => EndsInTime
    BY DEF Bounded
  <1> QED BY <1>1, <1>2, <1>3, PTL DEF Spec


LEMMA AllKept == Spec => [](Shaped /\ Bounded /\ Paced /\ Truthful)
  <1>1. Init => Shaped /\ Bounded /\ Paced /\ Truthful
    BY InitShaped, InitPaced, InitTruthful
  <1>2. Shaped /\ Bounded /\ Paced /\ Truthful /\ [Next]_vars
            => (Shaped /\ Bounded /\ Paced /\ Truthful)'
    BY NextBounded, NextPaced, NextTruthful
  <1> QED BY <1>1, <1>2, PTL DEF Spec

(* An anchor is called stuck on evidence, for any thresholds and delays    *)
(* and however wakes, failing polls and phases alternate (verbs.ts:188-203,*)
(* 281-323): the budget of the wait at hand has gone by since a phase      *)
(* other than the external one was last read, or, for equal polls, each    *)
(* one that is counted and that no wake brought on came a poll's time      *)
(* after the one before.                                                   *)
THEOREM NoStallIsGuessed == Spec => []StalledOnEvidence
  <1>1. Paced => StalledOnEvidence
    BY DEF Paced
  <1> QED BY <1>1, AllKept, PTL

(* What a wait reports is still so when it is reported and ever after      *)
(* (verbs.ts:296-309, 401-415), although the anchor moves while the answer *)
(* is on its way: what it says of a final status cannot be taken back.     *)
THEOREM NoVerdictIsTakenBack == Spec => []VerdictsStand
  <1>1. Truthful => VerdictsStand
    BY DEF Truthful
  <1> QED BY <1>1, AllKept, PTL

=============================================================================
