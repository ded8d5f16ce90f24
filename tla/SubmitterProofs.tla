--------------------------- MODULE SubmitterProofs ---------------------------
(***************************************************************************)
(* What holds of a signer for any requests, attempts and page budget.      *)
(*                                                                         *)
(* A request is never paid twice because its earlier attempts' envelopes   *)
(* are spent, its later ones' are unsent, and the current one's is unsent  *)
(* until it is submitted; a resumed request submits nothing.  Sequence     *)
(* numbers are built alone because who builds is at the head of the lock.  *)
(***************************************************************************)
EXTENDS Submitter, SequenceTheorems, TLAPS

Attempt == 1 .. MaxAttempts

(* The attempts before the current one cannot pay, those after it have     *)
(* sent nothing, and neither has the current one until it is submitted.    *)
Spent(r) == \A i \in Attempt : i < attempt[r] => ~MayPay(<<r, i>>)
Unsent(r) == \A i \in Attempt : i > attempt[r] => env[<<r, i>>] = NoEnvelope
Fresh(r) ==
    ~resumed[r] /\ pc[r] \in {"find", "submit", "queued", "built"} =>
        env[This(r)] = NoEnvelope
Passive(r) == resumed[r] => pc[r] \in {"find"} \cup Outcomes

OneLives == \A r \in Request : Spent(r) /\ Unsent(r) /\ Fresh(r) /\ Passive(r)

Heads == \A r \in Request : pc[r] \in {"built", "posted"} => Holds(r)

(* What the ledger shows was applied. *)
Applied(r) == \E i \in Attempt : env[<<r, i>>].st = "applied"

Recorded ==
    /\ \A k \in 1 .. Len(history) : Applied(history[k])
    /\ \A r \in Request : pc[r] = "paid" => Applied(r)

-----------------------------------------------------------------------------
(* Types *)

LEMMA InitTyped == Init => TypeOK
  <1> SUFFICES ASSUME Init PROVE TypeOK
    OBVIOUS
  <1>1. kind \in [Request -> Kinds] /\ pc \in [Request -> Places]
    BY DEF Init, Places
  <1>2. attempt \in [Request -> 1 .. MaxAttempts]
    BY SubmitterAssumption DEF Init, SubmitterAssumption
  <1>3. resumed \in [Request -> BOOLEAN] /\ loaded \in [Request -> Nat]
    BY DEF Init
  <1>4. queue \in [Locks -> Seq(Request)]
    BY DEF Init
  <1>5. NoEnvelope \in [seq : Nat, st : {"none", "flying", "applied", "failed", "dead"}]
    BY DEF NoEnvelope
  <1>6. seq \in Nat /\ history \in Seq(Request)
    BY DEF Init
  <1> QED BY <1>1, <1>2, <1>3, <1>4, <1>5, <1>6 DEF Init, TypeOK

LEMMA ThisTyped ==
    ASSUME TypeOK, NEW r \in Request
    PROVE  This(r) \in Attempts
  BY DEF TypeOK, This, Attempts

(* The head goes, or somebody is appended. *)
LEMMA ReleaseTyped ==
    ASSUME TypeOK, NEW r \in Request, Holds(r), Release(r)
    PROVE  queue' \in [Locks -> Seq(Request)]
  <1>1. LockOf(r) \in Locks /\ queue[LockOf(r)] \in Seq(Request) /\ queue[LockOf(r)] # <<>>
    BY DEF TypeOK, LockOf, Locks, Holds
  <1>2. Tail(queue[LockOf(r)]) \in Seq(Request)
    BY <1>1
  <1> QED BY <1>1, <1>2 DEF Release, TypeOK

LEMMA AcquireTyped ==
    ASSUME TypeOK, NEW r \in Request, Acquire(r)
    PROVE  queue' \in [Locks -> Seq(Request)]
  <1>1. LockOf(r) \in Locks /\ queue[LockOf(r)] \in Seq(Request)
    BY DEF TypeOK, LockOf, Locks
  <1>2. Append(queue[LockOf(r)], r) \in Seq(Request)
    BY <1>1
  <1> QED BY <1>1, <1>2 DEF Acquire, TypeOK

LEMMA RetryTyped ==
    ASSUME TypeOK, NEW r \in Request, Retryable(r)
    PROVE  attempt' \in [Request -> 1 .. MaxAttempts] /\ pc' \in [Request -> Places]
  <1>1. pc' \in [Request -> Places]
    BY DEF TypeOK, Retryable, Goto, Places, Outcomes
  <1>2. attempt[r] < MaxAttempts => attempt[r] + 1 \in 1 .. MaxAttempts
    BY SubmitterAssumption DEF TypeOK, SubmitterAssumption
  <1>3. attempt' \in [Request -> 1 .. MaxAttempts]
    BY <1>2 DEF TypeOK, Retryable
  <1> QED BY <1>1, <1>3

(* An envelope changes its fate. *)
LEMMA FateTyped ==
    ASSUME TypeOK, NEW e \in Attempts, NEW s \in {"applied", "failed", "dead"},
           env' = [env EXCEPT ![e].st = s]
    PROVE  /\ env' \in [Attempts ->
                  [seq : Nat, st : {"none", "flying", "applied", "failed", "dead"}]]
           /\ \A f \in Attempts : f # e => env'[f] = env[f]
           /\ env'[e].st = s
  BY Zenon DEF TypeOK

LEMMA PostTyped ==
    ASSUME TypeOK, NEW r \in Request, SubmitTransaction(r)
    PROVE  /\ env' \in [Attempts ->
                  [seq : Nat, st : {"none", "flying", "applied", "failed", "dead"}]]
           /\ \A f \in Attempts : f # This(r) => env'[f] = env[f]
           /\ env'[This(r)].st = "flying"
  <1>1. This(r) \in Attempts
    BY ThisTyped
  <1>2. loaded[r] + 1 \in Nat
    BY DEF TypeOK
  <1> QED BY <1>1, <1>2, Zenon DEF TypeOK, SubmitTransaction

LEMMA GotoTyped ==
    ASSUME TypeOK, NEW r \in Request, NEW p \in Places, Goto(r, p)
    PROVE  pc' \in [Request -> Places] /\ pc'[r] = p /\ \A q \in Request : q # r => pc'[q] = pc[q]
  BY DEF TypeOK, Goto

LEMMA StepTyped ==
    ASSUME TypeOK, Heads, NEW r \in Request, Step(r)
    PROVE  TypeOK'
  <1>1. CASE FindExisting(r)
    BY <1>1 DEF FindExisting, TypeOK, Goto, Places, Outcomes, ledger
  <1>2. CASE PreflightFails(r)
    <2>1. attempt' \in [Request -> 1 .. MaxAttempts] /\ pc' \in [Request -> Places]
      BY <1>2, RetryTyped DEF PreflightFails, TypeOK, Goto, Places, Outcomes
    <2> QED BY <1>2, <2>1 DEF PreflightFails, TypeOK, ledger
  <1>3. CASE Enqueue(r)
    BY <1>3, AcquireTyped DEF Enqueue, TypeOK, Goto, Places, ledger
  <1>4. CASE LoadAccount(r)
    <2>1. loaded' \in [Request -> Nat]
      BY <1>4 DEF LoadAccount, TypeOK
    <2> QED BY <1>4, <2>1 DEF LoadAccount, TypeOK, Goto, Places, ledger
  <1>5. CASE NothingSubmitted(r)
    BY <1>5, ReleaseTyped, RetryTyped DEF NothingSubmitted, TypeOK, ledger
  <1>6. CASE SubmitTransaction(r)
    BY <1>6, PostTyped DEF SubmitTransaction, TypeOK, Goto, Places
  <1>7. CASE Accepted(r)
    <2>1. Holds(r)
      BY <1>7 DEF Accepted, Heads
    <2> QED BY <1>7, <2>1, ReleaseTyped DEF Accepted, TypeOK, Goto, Places, ledger
  <1>8. CASE Rejected(r)
    <2>1. Holds(r)
      BY <1>8 DEF Rejected, Heads
    <2> QED BY <1>8, <2>1, ReleaseTyped, RetryTyped DEF Rejected, TypeOK, ledger
  <1>9. CASE Ambiguous(r)
    <2>1. Holds(r)
      BY <1>9 DEF Ambiguous, Heads
    <2> QED BY <1>9, <2>1, ReleaseTyped DEF Ambiguous, TypeOK, Goto, Places, ledger
  <1>10. CASE Confirm(r)
    BY <1>10 DEF Confirm, TypeOK, Goto, Places, Outcomes, ledger
  <1> QED BY <1>1, <1>2, <1>3, <1>4, <1>5, <1>6, <1>7, <1>8, <1>9, <1>10 DEF Step

LEMMA LedgerTyped ==
    ASSUME TypeOK, NEW e \in Attempts, Land(e) \/ FailOnChain(e) \/ Die(e)
    PROVE  TypeOK'
  <1>1. env' \in [Attempts -> [seq : Nat, st : {"none", "flying", "applied", "failed", "dead"}]]
    BY FateTyped DEF Land, FailOnChain, Die
  <1>2. seq' \in Nat
    BY DEF TypeOK, Land, FailOnChain, Die
  <1>3. history' \in Seq(Request)
    <2>1. history \in Seq(Request) /\ e[1] \in Request
      BY DEF TypeOK, Attempts
    <2>2. <<e[1]>> \o history \in Seq(Request)
      BY <2>1
    <2> QED BY <2>1, <2>2 DEF Land, FailOnChain, Die
  <1>4. UNCHANGED process
    BY DEF Land, FailOnChain, Die
  <1> QED BY <1>1, <1>2, <1>3, <1>4 DEF TypeOK, process

LEMMA CrashTyped ==
    ASSUME TypeOK, Crash
    PROVE  TypeOK'
  BY DEF Crash, TypeOK, Places, Outcomes, Locks, Kinds, ledger

-----------------------------------------------------------------------------
(* The lock *)

(* Whoever leaves the lock was its head, and takes nobody else's place.    *)
LEMMA LeaveKeepsHeads ==
    ASSUME TypeOK, Heads, NEW r \in Request, Holds(r), Release(r), UNCHANGED kind,
           pc' \in [Request -> Places], pc'[r] \notin {"built", "posted"},
           \A q \in Request : q # r => pc'[q] = pc[q]
    PROVE  Heads'
  <1> SUFFICES ASSUME NEW q \in Request, pc'[q] \in {"built", "posted"}
               PROVE  Holds(q)'
    BY DEF Heads
  <1>1. q # r /\ pc[q] \in {"built", "posted"}
    OBVIOUS
  <1>2. Holds(q)
    BY <1>1 DEF Heads
  <1>3. kind[q] # kind[r]
    BY <1>1, <1>2 DEF Holds, LockOf
  <1>4. queue'[kind[q]] = queue[kind[q]]
    BY <1>3 DEF Release, LockOf, TypeOK, Locks
  <1> QED BY <1>2, <1>4 DEF Holds, LockOf

LEMMA StayKeepsHeads ==
    ASSUME TypeOK, Heads, UNCHANGED <<kind, queue>>,
           \A q \in Request : pc'[q] \in {"built", "posted"} => Holds(q)
    PROVE  Heads'
  BY DEF Heads, Holds, LockOf

LEMMA EnqueueKeepsHeads ==
    ASSUME TypeOK, Heads, NEW r \in Request, Enqueue(r)
    PROVE  Heads'
  <1> SUFFICES ASSUME NEW q \in Request, pc'[q] \in {"built", "posted"}
               PROVE  Holds(q)'
    BY DEF Heads
  <1>1. q # r /\ pc[q] \in {"built", "posted"}
    BY DEF Enqueue, Goto, TypeOK
  <1>2. queue[kind[q]] \in Seq(Request) /\ queue[kind[q]] # <<>> /\ Head(queue[kind[q]]) = q
    BY <1>1 DEF Heads, Holds, LockOf, TypeOK, Locks
  <1>3. queue'[kind[q]] \in {queue[kind[q]], Append(queue[kind[q]], r)}
    BY DEF Enqueue, Acquire, LockOf, TypeOK, Locks
  <1>4. queue'[kind[q]] # <<>> /\ Head(queue'[kind[q]]) = q
    <2>1. CASE queue'[kind[q]] = queue[kind[q]]
      BY <2>1, <1>2
    <2>2. CASE queue'[kind[q]] = Append(queue[kind[q]], r)
      BY <2>2, <1>2, HeadTailProperties, AppendProperties
    <2> QED BY <1>3, <2>1, <2>2
  <1>5. kind' = kind
    BY DEF Enqueue
  <1> QED BY <1>4, <1>5 DEF Holds, LockOf

LEMMA RetryLeaves ==
    ASSUME TypeOK, NEW r \in Request, Retryable(r)
    PROVE  /\ pc'[r] \in {"find", "failed"}
           /\ \A q \in Request : q # r => pc'[q] = pc[q] /\ attempt'[q] = attempt[q]
  BY DEF TypeOK, Retryable, Goto

LEMMA StepKeepsHeads ==
    ASSUME TypeOK, Heads, NEW r \in Request, Step(r)
    PROVE  Heads'
  <1>1. CASE FindExisting(r)
    BY <1>1, StayKeepsHeads DEF FindExisting, Goto, TypeOK, Heads
  <1>2. CASE PreflightFails(r)
    <2>1. pc'[r] \in {"find", "failed"} /\ \A q \in Request : q # r => pc'[q] = pc[q]
      BY <1>2, RetryLeaves DEF PreflightFails, Goto, TypeOK
    <2> QED BY <1>2, <2>1, StayKeepsHeads DEF PreflightFails, Heads
  <1>3. CASE Enqueue(r)
    BY <1>3, EnqueueKeepsHeads
  <1>4. CASE LoadAccount(r)
    BY <1>4, StayKeepsHeads DEF LoadAccount, Goto, TypeOK, Heads
  <1>5. CASE NothingSubmitted(r)
    BY <1>5, RetryLeaves, RetryTyped, LeaveKeepsHeads DEF NothingSubmitted
  <1>6. CASE SubmitTransaction(r)
    BY <1>6, StayKeepsHeads DEF SubmitTransaction, Goto, TypeOK, Heads
  <1>7. CASE Accepted(r) \/ Ambiguous(r)
    <2>1. Holds(r) /\ Release(r) /\ Goto(r, "confirm") /\ UNCHANGED kind
      BY <1>7 DEF Accepted, Ambiguous, Heads
    <2>2. /\ pc' \in [Request -> Places] /\ pc'[r] \notin {"built", "posted"}
          /\ \A q \in Request : q # r => pc'[q] = pc[q]
      BY <2>1 DEF Goto, TypeOK, Places
    <2> QED BY <2>1, <2>2, LeaveKeepsHeads
  <1>8. CASE Rejected(r)
    <2>1. Holds(r)
      BY <1>8 DEF Rejected, Heads
    <2> QED BY <1>8, <2>1, RetryLeaves, RetryTyped, LeaveKeepsHeads DEF Rejected
  <1>9. CASE Confirm(r)
    BY <1>9, StayKeepsHeads DEF Confirm, Goto, TypeOK, Heads
  <1> QED BY <1>1, <1>2, <1>3, <1>4, <1>5, <1>6, <1>7, <1>8, <1>9 DEF Step

-----------------------------------------------------------------------------
(* One envelope of a request lives *)

(* A step that leaves every envelope, attempt and mark alone, and starts   *)
(* nothing over, changes nothing of this.                                  *)
LEMMA MoveKeepsOneLives ==
    ASSUME TypeOK, OneLives, UNCHANGED <<attempt, resumed, env>>,
           \A q \in Request :
               /\ pc'[q] \in {"find", "submit", "queued", "built"} =>
                     pc[q] \in {"find", "submit", "queued", "built"}
               /\ resumed[q] => pc'[q] \in {"find"} \cup Outcomes
    PROVE  OneLives'
  BY DEF OneLives, Spent, Unsent, Fresh, Passive, MayPay, This

(* Going on to the next attempt needs the envelope of this one spent.      *)
LEMMA RetryKeepsOneLives ==
    ASSUME TypeOK, OneLives, NEW r \in Request, Retryable(r), UNCHANGED <<resumed, env>>,
           ~resumed[r], ~MayPay(This(r))
    PROVE  OneLives'
  <1> SUFFICES ASSUME NEW q \in Request
               PROVE  Spent(q)' /\ Unsent(q)' /\ Fresh(q)' /\ Passive(q)'
    BY DEF OneLives
  <1>1. CASE q # r
    <2>1. pc'[q] = pc[q] /\ attempt'[q] = attempt[q]
      BY <1>1, RetryLeaves
    <2> QED BY <2>1 DEF OneLives, Spent, Unsent, Fresh, Passive, MayPay, This
  <1>2. CASE q = r /\ attempt[r] < MaxAttempts
    <2>1. attempt'[r] = attempt[r] + 1 /\ pc'[r] = "find" /\ attempt'[r] \in Attempt
      BY <1>2, SubmitterAssumption
         DEF Retryable, Goto, TypeOK, SubmitterAssumption, Attempt
    <2>2. attempt[r] \in Attempt /\ \A i \in Attempt : i < attempt'[r] => i <= attempt[r]
      BY <2>1 DEF TypeOK, Attempt
    <2>3. Spent(r)'
      BY <2>1, <2>2 DEF OneLives, Spent, MayPay, This, Attempt
    <2>4. Unsent(r)'
      BY <2>1, <2>2 DEF OneLives, Unsent, Attempt
    <2>5. env[<<r, attempt'[r]>>] = NoEnvelope
      BY <2>1, <2>2 DEF OneLives, Unsent, Attempt
    <2> QED BY <1>2, <2>1, <2>3, <2>4, <2>5 DEF Fresh, Passive, This, Outcomes
  <1>3. CASE q = r /\ ~(attempt[r] < MaxAttempts)
    <2>1. attempt' = attempt /\ pc'[r] = "failed"
      BY <1>3 DEF Retryable, Goto, TypeOK
    <2> QED BY <1>3, <2>1 DEF OneLives, Spent, Unsent, Fresh, Passive, MayPay, This, Outcomes
  <1> QED BY <1>1, <1>2, <1>3

LEMMA PostKeepsOneLives ==
    ASSUME TypeOK, OneLives, NEW r \in Request, SubmitTransaction(r)
    PROVE  OneLives'
  <1>1. UNCHANGED <<attempt, resumed>> /\ pc[r] = "built" /\ pc'[r] = "posted"
        /\ \A q \in Request : q # r => pc'[q] = pc[q]
    BY DEF SubmitTransaction, Goto, TypeOK
  <1>2. \A q \in Request, i \in Attempt : q # r \/ i # attempt[r] =>
            env'[<<q, i>>] = env[<<q, i>>]
    BY PostTyped DEF This, Attempts, Attempt
  <1>3. \A q \in Request : attempt[q] \in Attempt
    BY DEF TypeOK, Attempt
  <1>4. ~resumed[r]
    BY <1>1 DEF OneLives, Passive, Outcomes
  <1> SUFFICES ASSUME NEW q \in Request
               PROVE  Spent(q)' /\ Unsent(q)' /\ Fresh(q)' /\ Passive(q)'
    BY DEF OneLives
  <1>5. Spent(q)'
    BY <1>1, <1>2, <1>3 DEF OneLives, Spent, MayPay, Attempt
  <1>6. Unsent(q)'
    BY <1>1, <1>2, <1>3 DEF OneLives, Unsent, Attempt
  <1>7. Fresh(q)'
    BY <1>1, <1>2, <1>3 DEF OneLives, Fresh, This
  <1>8. Passive(q)'
    BY <1>1, <1>4 DEF OneLives, Passive
  <1> QED BY <1>5, <1>6, <1>7, <1>8

LEMMA StepKeepsOneLives ==
    ASSUME TypeOK, OneLives, NEW r \in Request, Step(r)
    PROVE  OneLives'
  <1>1. CASE FindExisting(r)
    <2>1. resumed[r] => pc'[r] \in {"paid", "absent", "unknown"}
      BY <1>1 DEF FindExisting, Goto, TypeOK
    <2>2. \A q \in Request : q # r => pc'[q] = pc[q]
      BY <1>1 DEF FindExisting, Goto, TypeOK
    <2>3. UNCHANGED <<attempt, resumed, env>> /\ pc[r] = "find"
      BY <1>1 DEF FindExisting, ledger
    <2> QED BY <2>1, <2>2, <2>3, MoveKeepsOneLives DEF OneLives, Passive, Outcomes
  <1>2. CASE PreflightFails(r)
    <2>1. UNCHANGED <<resumed, env>> /\ pc[r] = "submit"
      BY <1>2 DEF PreflightFails, ledger
    <2>2. ~resumed[r]
      BY <2>1 DEF OneLives, Passive, Outcomes
    <2>3. CASE Goto(r, "failed") /\ UNCHANGED attempt
      BY <2>1, <2>2, <2>3, MoveKeepsOneLives DEF Goto, TypeOK, OneLives, Passive
    <2>4. CASE Retryable(r)
      <3>1. ~MayPay(This(r))
        BY <2>1, <2>2 DEF OneLives, Fresh, MayPay, NoEnvelope
      <3> QED BY <2>1, <2>2, <2>4, <3>1, RetryKeepsOneLives
    <2> QED BY <1>2, <2>3, <2>4 DEF PreflightFails
  <1>3. CASE Enqueue(r) \/ LoadAccount(r)
    <2>1. /\ UNCHANGED <<attempt, resumed, env>> /\ pc[r] \in {"submit", "queued"}
          /\ pc'[r] \in {"queued", "built"} /\ \A q \in Request : q # r => pc'[q] = pc[q]
      BY <1>3 DEF Enqueue, LoadAccount, Goto, TypeOK, ledger
    <2>2. ~resumed[r]
      BY <2>1 DEF OneLives, Passive, Outcomes
    <2> QED BY <2>1, <2>2, MoveKeepsOneLives DEF OneLives, Passive
  <1>4. CASE NothingSubmitted(r)
    <2>1. UNCHANGED <<resumed, env>> /\ pc[r] \in {"queued", "built"} /\ Retryable(r)
      BY <1>4 DEF NothingSubmitted, ledger
    <2>2. ~resumed[r]
      BY <2>1 DEF OneLives, Passive, Outcomes
    <2>3. ~MayPay(This(r))
      BY <2>1, <2>2 DEF OneLives, Fresh, MayPay, NoEnvelope
    <2> QED BY <2>1, <2>2, <2>3, RetryKeepsOneLives
  <1>5. CASE SubmitTransaction(r)
    BY <1>5, PostKeepsOneLives
  <1>6. CASE Rejected(r)
    <2>1. UNCHANGED <<resumed, env>> /\ pc[r] = "posted" /\ Retryable(r) /\ ~MayPay(This(r))
      BY <1>6 DEF Rejected, ledger, MayPay
    <2>2. ~resumed[r]
      BY <2>1 DEF OneLives, Passive, Outcomes
    <2> QED BY <2>1, <2>2, RetryKeepsOneLives
  <1>7. CASE Accepted(r) \/ Ambiguous(r)
    <2>1. /\ UNCHANGED <<attempt, resumed, env>> /\ pc[r] = "posted" /\ pc'[r] = "confirm"
          /\ \A q \in Request : q # r => pc'[q] = pc[q]
      BY <1>7 DEF Accepted, Ambiguous, Goto, TypeOK, ledger
    <2>2. ~resumed[r]
      BY <2>1 DEF OneLives, Passive, Outcomes
    <2> QED BY <2>1, <2>2, MoveKeepsOneLives DEF OneLives, Passive
  <1>8. CASE Confirm(r)
    <2>1. /\ UNCHANGED <<attempt, resumed, env>> /\ pc'[r] \in {"paid", "failed", "timeout"}
          /\ \A q \in Request : q # r => pc'[q] = pc[q]
      BY <1>8 DEF Confirm, Goto, TypeOK, ledger
    <2> QED BY <2>1, MoveKeepsOneLives DEF OneLives, Passive, Outcomes
  <1> QED BY <1>1, <1>2, <1>3, <1>4, <1>5, <1>6, <1>7, <1>8 DEF Step

(* The ledger changes a flying envelope, and one that could not pay before *)
(* cannot after.                                                           *)
LEMMA LedgerKeepsOneLives ==
    ASSUME TypeOK, OneLives, NEW e \in Attempts, Land(e) \/ FailOnChain(e) \/ Die(e)
    PROVE  OneLives'
  <1>1. UNCHANGED <<attempt, resumed, pc>> /\ env[e].st = "flying"
    BY DEF Land, FailOnChain, Die, process
  <1>2. \A f \in Attempts : f # e => env'[f] = env[f]
    BY FateTyped DEF Land, FailOnChain, Die
  <1>3. MayPay(e) /\ env[e] # NoEnvelope
    BY <1>1 DEF MayPay, NoEnvelope
  <1> SUFFICES ASSUME NEW q \in Request
               PROVE  Spent(q)' /\ Unsent(q)' /\ Fresh(q)' /\ Passive(q)'
    BY DEF OneLives
  <1>4. \A i \in Attempt : <<q, i>> \in Attempts
    BY DEF Attempts, Attempt
  <1>5. Spent(q)'
    <2> SUFFICES ASSUME NEW i \in Attempt, i < attempt[q] PROVE ~MayPay(<<q, i>>)'
      BY <1>1 DEF Spent
    <2>1. ~MayPay(<<q, i>>)
      BY DEF OneLives, Spent
    <2>2. <<q, i>> # e
      BY <2>1, <1>3
    <2> QED BY <1>2, <1>4, <2>1, <2>2 DEF MayPay
  <1>6. Unsent(q)'
    <2> SUFFICES ASSUME NEW i \in Attempt, i > attempt[q] PROVE env'[<<q, i>>] = NoEnvelope
      BY <1>1 DEF Unsent
    <2>1. env[<<q, i>>] = NoEnvelope
      BY DEF OneLives, Unsent
    <2>2. <<q, i>> # e
      BY <2>1, <1>3
    <2> QED BY <1>2, <1>4, <2>1, <2>2
  <1>7. Fresh(q)'
    <2> SUFFICES ASSUME ~resumed[q], pc[q] \in {"find", "submit", "queued", "built"}
                 PROVE  env'[This(q)] = NoEnvelope
      BY <1>1 DEF Fresh, This
    <2>1. env[This(q)] = NoEnvelope
      BY DEF OneLives, Fresh
    <2>2. This(q) # e
      BY <2>1, <1>3
    <2> QED BY <1>2, <2>1, <2>2, ThisTyped
  <1>8. Passive(q)'
    BY <1>1 DEF OneLives, Passive
  <1> QED BY <1>5, <1>6, <1>7, <1>8

(* What a crash picks up again is only looked for. *)
LEMMA CrashKeepsOneLives ==
    ASSUME TypeOK, OneLives, Crash
    PROVE  OneLives'
  <1>1. UNCHANGED <<attempt, env>>
    BY DEF Crash, ledger
  <1>2. \A q \in Request : /\ resumed'[q] => pc'[q] = "find"
                           /\ ~resumed'[q] => pc'[q] \in Outcomes
    BY DEF Crash, TypeOK
  <1> SUFFICES ASSUME NEW q \in Request
               PROVE  Spent(q)' /\ Unsent(q)' /\ Fresh(q)' /\ Passive(q)'
    BY DEF OneLives
  <1>3. Spent(q)' /\ Unsent(q)'
    BY <1>1 DEF OneLives, Spent, Unsent, MayPay
  <1>4. Fresh(q)' /\ Passive(q)'
    BY <1>2 DEF Fresh, Passive, Outcomes
  <1> QED BY <1>3, <1>4

-----------------------------------------------------------------------------
(* What is reported paid was *)

(* What was applied stays so: no step takes an applied envelope back.      *)
LEMMA AppliedStays ==
    ASSUME TypeOK, OneLives, Next
    PROVE  \A r \in Request : Applied(r) => Applied(r)'
  <1> SUFFICES ASSUME NEW r \in Request, NEW i \in Attempt, env[<<r, i>>].st = "applied"
               PROVE  env'[<<r, i>>].st = "applied"
    BY DEF Applied
  <1>1. <<r, i>> \in Attempts
    BY DEF Attempts, Attempt
  <1>2. ASSUME NEW q \in Request, SubmitTransaction(q)
        PROVE  env'[<<r, i>>].st = "applied"
    <2>1. ~resumed[q] /\ pc[q] = "built"
      BY <1>2 DEF SubmitTransaction, OneLives, Passive, Outcomes
    <2>2. env[This(q)] = NoEnvelope
      BY <2>1 DEF OneLives, Fresh
    <2>3. <<r, i>> # This(q)
      BY <2>2 DEF NoEnvelope
    <2> QED BY <1>1, <1>2, <2>3, PostTyped
  <1>3. ASSUME NEW q \in Request, Step(q), ~SubmitTransaction(q)
        PROVE  env' = env
    BY <1>3 DEF Step, FindExisting, PreflightFails, Enqueue, LoadAccount, NothingSubmitted,
                Accepted, Rejected, Ambiguous, Confirm, ledger
  <1>4. ASSUME NEW e \in Attempts, Land(e) \/ FailOnChain(e) \/ Die(e)
        PROVE  env'[<<r, i>>].st = "applied"
    <2>1. e # <<r, i>>
      BY <1>4 DEF Land, FailOnChain, Die
    <2> QED BY <1>1, <1>4, <2>1, FateTyped DEF Land, FailOnChain, Die
  <1>5. CASE Crash \/ Done
    BY <1>5 DEF Crash, Done, ledger, vars
  <1> QED BY <1>2, <1>3, <1>4, <1>5 DEF Next, Ledger

(* Every payment that findExisting reads is one of the ledger's. *)
LEMMA ReadsTheLedger ==
    ASSUME TypeOK, NEW h \in Visible, NEW k \in 1 .. Len(paymentsFrom(h))
    PROVE  \E j \in 1 .. Len(history) : paymentsFrom(h)[k] = history[j]
  <1>1. history \in Seq(Request) /\ (h = history \/ (history # <<>> /\ h = Tail(history)))
    BY DEF TypeOK, Visible
  <1>2. h \in Seq(Request) /\ \A j \in 1 .. Len(h) : \E m \in 1 .. Len(history) : h[j] = history[m]
    <2>1. CASE h = history
      BY <1>1, <2>1
    <2>2. CASE history # <<>> /\ h = Tail(history)
      <3>1. /\ h \in Seq(Request) /\ Len(h) = Len(history) - 1
            /\ \A j \in 1 .. Len(h) : h[j] = history[j + 1]
        BY <1>1, <2>2, HeadTailProperties
      <3>2. \A j \in 1 .. Len(h) : j + 1 \in 1 .. Len(history)
        BY <1>1, <3>1
      <3> QED BY <3>1, <3>2
    <2> QED BY <1>1, <2>1, <2>2
  <1>3. PageBudget \in Nat
    BY SubmitterAssumption DEF SubmitterAssumption
  <1>4. k \in 1 .. Len(h) /\ paymentsFrom(h)[k] = h[k]
    BY <1>2, <1>3, SubSeqProperties DEF paymentsFrom
  <1> QED BY <1>2, <1>4

(* A payment that is looked up is the request's own, where the memos tell  *)
(* them apart.                                                             *)
LEMMA FindsItsOwn ==
    ASSUME TypeOK, Recorded, NEW r \in Request, FindExisting(r), pc'[r] = "paid",
           \A p, q \in Request : Memo[p] = Memo[q] => p = q
    PROVE  Applied(r)
  <1>1. PICK h \in Visible : \E k \in 1 .. Len(paymentsFrom(h)) : Matches(paymentsFrom(h)[k], r)
    BY DEF FindExisting, Goto, TypeOK
  <1>2. PICK k \in 1 .. Len(paymentsFrom(h)) : Memo[paymentsFrom(h)[k]] = Memo[r]
    BY <1>1 DEF Matches
  <1>3. PICK j \in 1 .. Len(history) : paymentsFrom(h)[k] = history[j]
    BY ReadsTheLedger
  <1>4. history[j] \in Request
    BY DEF TypeOK
  <1>5. history[j] = r
    BY <1>2, <1>3, <1>4
  <1> QED BY <1>5 DEF Recorded

LEMMA NextKeepsRecorded ==
    ASSUME TypeOK, OneLives, Recorded, Next,
           \A p, q \in Request : Memo[p] = Memo[q] => p = q
    PROVE  Recorded'
  <1>1. \A r \in Request : Applied(r) => Applied(r)'
    BY AppliedStays
  <1>2. \A k \in 1 .. Len(history) : history[k] \in Request /\ Applied(history[k])
    BY DEF TypeOK, Recorded
  <1>3. ASSUME NEW k \in 1 .. Len(history')
        PROVE  \E i \in Attempt : env'[<<history'[k], i>>].st = "applied"
    <2>1. CASE history' = history
      BY <1>1, <1>2, <1>3, <2>1 DEF Applied
    <2>2. CASE history' # history
      <3>1. PICK e \in Attempts : Land(e) /\ history' = <<e[1]>> \o history
        BY <2>2 DEF Next, Step, FindExisting, PreflightFails, Enqueue, LoadAccount,
                    NothingSubmitted, SubmitTransaction, Accepted, Rejected, Ambiguous, Confirm,
                    Crash, Ledger, Land, FailOnChain, Die, Done, ledger, vars
      <3>2. PICK r \in Request, i \in Attempt : e = <<r, i>>
        BY DEF Attempts, Attempt
      <3>3. env'[<<r, i>>].st = "applied"
        BY <3>1, <3>2, FateTyped DEF Land
      <3>4. history \in Seq(Request) /\ history' = <<r>> \o history
        BY <3>1, <3>2 DEF TypeOK
      <3>5. CASE k = 1
        BY <3>3, <3>4, <3>5 DEF Applied
      <3>6. CASE k # 1
        <4>1. k - 1 \in 1 .. Len(history) /\ history'[k] = history[k - 1]
          BY <1>3, <3>4, <3>6
        <4> QED BY <1>1, <1>2, <4>1 DEF Applied
      <3> QED BY <3>5, <3>6
    <2> QED BY <2>1, <2>2
  <1>4. ASSUME NEW r \in Request, pc'[r] = "paid"
        PROVE  Applied(r)'
    <2>1. CASE pc[r] = "paid"
      BY <1>1, <2>1 DEF Recorded
    <2>2. CASE pc[r] # "paid"
      <3>1. FindExisting(r) \/ Confirm(r)
        <4>1. ASSUME NEW q \in Request, Step(q), q # r
              PROVE  pc'[r] = pc[r]
          BY <4>1, RetryLeaves
             DEF Step, FindExisting, PreflightFails, Enqueue, LoadAccount, NothingSubmitted,
                 SubmitTransaction, Accepted, Rejected, Ambiguous, Confirm, Goto, TypeOK
        <4>2. CASE Step(r)
          BY <1>4, <2>2, <4>2, RetryLeaves
             DEF Step, PreflightFails, Enqueue, LoadAccount, NothingSubmitted,
                 SubmitTransaction, Accepted, Rejected, Ambiguous, Goto, TypeOK
        <4>3. CASE Crash
          BY <1>4, <2>2, <4>3 DEF Crash, TypeOK
        <4>4. CASE Ledger \/ Done
          BY <1>4, <2>2, <4>4 DEF Ledger, Land, FailOnChain, Die, Done, process, vars
        <4> QED BY <1>4, <2>2, <4>1, <4>2, <4>3, <4>4 DEF Next
      <3>2. CASE FindExisting(r)
        BY <1>1, <1>4, <3>2, FindsItsOwn
      <3>3. CASE Confirm(r)
        <4>1. env[<<r, attempt[r]>>].st = "applied" /\ attempt[r] \in Attempt
          BY <1>4, <3>3 DEF Confirm, Goto, TypeOK, This, Attempt
        <4> QED BY <1>1, <4>1 DEF Applied
      <3> QED BY <3>1, <3>2, <3>3
    <2> QED BY <2>1, <2>2
  <1> QED BY <1>3, <1>4 DEF Recorded, Applied

-----------------------------------------------------------------------------
(* Theorems *)

IInv == TypeOK /\ Heads /\ OneLives

LEMMA InitSafe == Init => IInv /\ Recorded
  <1> SUFFICES ASSUME Init PROVE IInv /\ Recorded
    OBVIOUS
  <1>1. TypeOK
    BY InitTyped
  <1>2. Heads
    BY DEF Init, Heads
  <1>3. OneLives
    BY <1>1, ThisTyped
       DEF Init, OneLives, Spent, Unsent, Fresh, Passive, MayPay, NoEnvelope, Attempts, Attempt
  <1>4. Recorded
    BY DEF Init, Recorded
  <1> QED BY <1>1, <1>2, <1>3, <1>4 DEF IInv

LEMMA NextSafe == IInv /\ [Next]_vars => IInv'
  <1> SUFFICES ASSUME IInv, [Next]_vars PROVE IInv'
    OBVIOUS
  <1> USE DEF IInv
  <1>1. ASSUME NEW r \in Request, Step(r) PROVE IInv'
    BY <1>1, StepTyped, StepKeepsHeads, StepKeepsOneLives
  <1>2. CASE Crash
    <2>1. Heads'
      BY <1>2 DEF Crash, Heads, TypeOK, Outcomes
    <2> QED BY <1>2, <2>1, CrashTyped, CrashKeepsOneLives
  <1>3. ASSUME NEW e \in Attempts, Land(e) \/ FailOnChain(e) \/ Die(e) PROVE IInv'
    <2>1. Heads'
      BY <1>3 DEF Land, FailOnChain, Die, process, Heads, Holds, LockOf
    <2> QED BY <1>3, <2>1, LedgerTyped, LedgerKeepsOneLives
  <1>4. CASE Done \/ UNCHANGED vars
    BY <1>4 DEF Done, vars, TypeOK, Heads, Holds, LockOf, OneLives, Spent, Unsent, Fresh,
                Passive, MayPay, This
  <1> QED BY <1>1, <1>2, <1>3, <1>4 DEF Next, Ledger

(* Every state of the signer, the ledger's view of it included, is typed.  *)
THEOREM Typed == Spec => []TypeOK
  <1>1. IInv => TypeOK
    BY DEF IInv
  <1> QED BY InitSafe, NextSafe, <1>1, PTL DEF Spec

(* A request never has two envelopes that paid or still can, for any       *)
(* number of requests and attempts, whatever Horizon shows and answers and *)
(* wherever the process crashes (stellar/src/index.ts:686-703).            *)
THEOREM PaysOnce == Spec => []PaidAtMostOnce
  <1>1. IInv => PaidAtMostOnce
    <2> SUFFICES ASSUME IInv, NEW r \in Request
                 PROVE  /\ \A i, j \in 1 .. MaxAttempts :
                              MayPay(<<r, i>>) /\ MayPay(<<r, j>>) => i = j
                        /\ pc[r] = "built" => env[This(r)] = NoEnvelope
      BY DEF PaidAtMostOnce
    <2>1. ASSUME NEW i \in Attempt, MayPay(<<r, i>>) PROVE i = attempt[r]
      <3>1. ~(i < attempt[r])
        BY <2>1 DEF IInv, OneLives, Spent
      <3>2. ~(i > attempt[r])
        BY <2>1 DEF IInv, OneLives, Unsent, MayPay, NoEnvelope
      <3>3. attempt[r] \in Attempt
        BY DEF IInv, TypeOK, Attempt
      <3> QED BY <3>1, <3>2, <3>3 DEF Attempt
    <2>2. pc[r] = "built" => env[This(r)] = NoEnvelope
      BY DEF IInv, OneLives, Fresh, Passive, Outcomes
    <2> QED BY <2>1, <2>2 DEF Attempt
  <1> QED BY InitSafe, NextSafe, <1>1, PTL DEF Spec

(* Between its loadAccount and the answer to its submitTransaction a call  *)
(* is alone behind its lock (stellar/src/index.ts:243-258).                *)
THEOREM BuildsAlone == Spec => []LockExcludes
  <1>1. IInv => LockExcludes
    BY DEF IInv, Heads, Holds, LockExcludes
  <1> QED BY InitSafe, NextSafe, <1>1, PTL DEF Spec

(* What is reported paid is on the ledger, where the memos tell the        *)
(* requests apart (stellar/src/index.ts:713-775).                          *)
THEOREM PaidIsOnTheLedger ==
    ASSUME \A p, q \in Request : Memo[p] = Memo[q] => p = q
    PROVE  Spec => []PaidMeansOnLedger
  <1>1. IInv /\ Recorded /\ [Next]_vars => Recorded'
    <2>1. UNCHANGED vars /\ Recorded => Recorded'
      BY DEF vars, Recorded, Applied
    <2> QED BY <2>1, NextKeepsRecorded DEF IInv
  <1>2. Recorded => PaidMeansOnLedger
    BY DEF Recorded, Applied, PaidMeansOnLedger, Attempt
  <1> QED BY InitSafe, NextSafe, <1>1, <1>2, PTL DEF Spec

=============================================================================
