------------------------------ MODULE Submitter ------------------------------
(***************************************************************************)
(* StellarSettlementSubmitter and StellarClaimableBalanceStrategy of       *)
(* packages/stellar/src/index.ts: several payment requests that share one  *)
(* signing account, the lock that serialises load, build, sign and submit, *)
(* the confirmation poll, the lookup of an existing payment, and the       *)
(* ledger behind Horizon.  The caller is the settle loop of run.ts: it     *)
(* looks for a payment before each attempt and retries only a failure that *)
(* is reported retryable.                                                  *)
(***************************************************************************)
EXTENDS Integers, Sequences, FiniteSets

CONSTANTS
    Request,       \* the payments asked of this signer
    Memo,          \* the memo of each request
    MaxAttempts,   \* attempts the settle loop makes
    PageBudget,    \* payments paymentsFrom reads: pageSize * maxPages
    HorizonLags    \* may Horizon show an older ledger than the last?

ASSUME SubmitterAssumption ==
    /\ Memo \in [Request -> STRING]
    /\ MaxAttempts \in Nat \ {0} /\ PageBudget \in Nat \ {0}
    /\ HorizonLags \in BOOLEAN

VARIABLES
    kind,      \* what the anchor asks for: a payment or a claimable balance
    pc,        \* where the settlement of each request is
    attempt,   \* its current attempt
    resumed,   \* was it picked up again after a crash?
    loaded,    \* the sequence number loadAccount returned to it
    queue,     \* each AsyncLock: the chain of promises waiting on one another
    env,       \* the envelope of each attempt: its sequence number and fate
    seq,       \* the sequence number of the account on the ledger
    history    \* the payments on the ledger, newest first

process == <<kind, pc, attempt, resumed, loaded, queue>>
ledger == <<env, seq, history>>
vars == <<kind, pc, attempt, resumed, loaded, queue, env, seq, history>>

Kinds == {"stellar_payment", "claimable_balance"}

(* Each strategy has an AsyncLock of its own, for the same account. *)
Locks == Kinds
LockOf(r) == kind[r]

Attempts == Request \X (1 .. MaxAttempts)
This(r) == <<r, attempt[r]>>
NoEnvelope == [seq |-> 0, st |-> "none"]

Goto(r, p) == pc' = [pc EXCEPT ![r] = p]

(* What a resolved settlement returned. *)
Outcomes == {"paid", "failed", "timeout", "absent", "unknown"}

-----------------------------------------------------------------------------
(* The lock *)

(* Mutant of Holds: nobody waits for the previous promise. *)
HoldsAlways(r) == queue[LockOf(r)] # <<>>

Holds(r) == queue[LockOf(r)] # <<>> /\ Head(queue[LockOf(r)]) = r

Acquire(r) == queue' = [queue EXCEPT ![LockOf(r)] = Append(@, r)]

(* Mutant of Release: not in a finally block, a failure keeps the lock. *)
ReleaseOnSuccess(r) ==
    queue' = IF env[This(r)].st = "applied" THEN [queue EXCEPT ![LockOf(r)] = Tail(@)]
             ELSE queue

(* The promise of the one that runs resolves, and the next one goes on. *)
Release(r) == queue' = [queue EXCEPT ![LockOf(r)] = Tail(@)]

(* A failure nothing can have been sent by, or whose envelope Horizon has  *)
(* rejected, is retried by the settle loop; the other failures are final.  *)
Retryable(r) ==
    IF attempt[r] < MaxAttempts
    THEN attempt' = [attempt EXCEPT ![r] = @ + 1] /\ Goto(r, "find")
    ELSE UNCHANGED attempt /\ Goto(r, "failed")

-----------------------------------------------------------------------------
(* findExisting *)

(* The ledger as Horizon shows it: all of it, or all but the last payment. *)
Visible == {history} \cup (IF HorizonLags /\ history # <<>> THEN {Tail(history)} ELSE {})

(* paymentsFrom: the newest payments, up to the page budget. *)
paymentsFrom(h) == SubSeq(h, 1, IF Len(h) < PageBudget THEN Len(h) ELSE PageBudget)

(* Mutant of Matches: the memo is not compared. *)
MatchesAnyMemo(p, r) == TRUE

(* All requests name one amount, asset and destination; the memo tells the *)
(* anchor's transactions apart.                                            *)
Matches(p, r) == Memo[p] = Memo[r]

(* findExisting, then submit; a lookup that fails ends the attempt.  A run *)
(* that crashed in `settling` is not submitted again when no payment is    *)
(* found.  Nothing looks for a claimable balance.                          *)
FindExisting(r) ==
    /\ pc[r] = "find"
    /\ \/ /\ kind[r] = "stellar_payment"
          /\ \/ \E h \in Visible :
                IF \E i \in 1 .. Len(paymentsFrom(h)) : Matches(paymentsFrom(h)[i], r)
                THEN Goto(r, "paid")
                ELSE Goto(r, IF resumed[r] THEN "absent" ELSE "submit")
          \/ Goto(r, "unknown")
       \/ /\ kind[r] = "claimable_balance"
          /\ Goto(r, IF resumed[r] THEN "unknown" ELSE "submit")
    /\ UNCHANGED <<kind, attempt, resumed, loaded, queue, ledger>>

-----------------------------------------------------------------------------
(* submit *)

(* guardNetwork and the quote: refused for good, or Horizon's root cannot  *)
(* be read and the attempt may be made again.  Nothing is sent.  A         *)
(* claimable balance is sent without guardNetwork.                         *)
PreflightFails(r) ==
    /\ pc[r] = "submit"
    /\ \/ Goto(r, "failed") /\ UNCHANGED attempt
       \/ kind[r] = "stellar_payment" /\ Retryable(r)
    /\ UNCHANGED <<kind, resumed, loaded, queue, ledger>>

(* preflight passed: withLock chains this call behind the one before it. *)
Enqueue(r) ==
    /\ pc[r] = "submit"
    /\ Acquire(r)
    /\ Goto(r, "queued")
    /\ UNCHANGED <<kind, attempt, resumed, loaded, ledger>>

LoadAccount(r) ==
    /\ pc[r] = "queued" /\ Holds(r)
    /\ \E s \in {seq} \cup (IF HorizonLags /\ seq > 0 THEN {seq - 1} ELSE {}) :
          loaded' = [loaded EXCEPT ![r] = s]
    /\ Goto(r, "built")
    /\ UNCHANGED <<kind, attempt, resumed, queue, ledger>>

(* loadAccount, build or sign throws before submitTransaction is called. *)
NothingSubmitted(r) ==
    /\ pc[r] \in {"queued", "built"} /\ Holds(r)
    /\ Release(r)
    /\ Retryable(r)
    /\ UNCHANGED <<kind, resumed, loaded, ledger>>

(* submitTransaction puts the envelope on the network. *)
SubmitTransaction(r) ==
    /\ pc[r] = "built"
    /\ env' = [env EXCEPT ![This(r)] = [seq |-> loaded[r] + 1, st |-> "flying"]]
    /\ Goto(r, "posted")
    /\ UNCHANGED <<kind, attempt, resumed, loaded, queue, seq, history>>

Accepted(r) ==
    /\ pc[r] = "posted" /\ env[This(r)].st = "applied"
    /\ Release(r)
    /\ Goto(r, "confirm")
    /\ UNCHANGED <<kind, attempt, resumed, loaded, ledger>>

(* A TransactionFailedError: Horizon's own verdict on the envelope. *)
Rejected(r) ==
    /\ pc[r] = "posted" /\ env[This(r)].st \in {"dead", "failed"}
    /\ Release(r)
    /\ Retryable(r)
    /\ UNCHANGED <<kind, resumed, loaded, ledger>>

(* Mutant of Ambiguous: any error of submitTransaction is retried. *)
AmbiguousRetried(r) ==
    /\ pc[r] = "posted"
    /\ Release(r)
    /\ Retryable(r)
    /\ UNCHANGED <<kind, resumed, loaded, ledger>>

(* Any other error says nothing about the envelope: look its hash up.  The *)
(* lock is released with the envelope's fate unknown.                      *)
Ambiguous(r) ==
    /\ pc[r] = "posted"
    /\ Release(r)
    /\ Goto(r, "confirm")
    /\ UNCHANGED <<kind, attempt, resumed, loaded, ledger>>

(* confirmTransaction: on the ledger, failed on the ledger, or not seen    *)
(* there before the deadline; neither failure is retried.                  *)
Confirm(r) ==
    /\ pc[r] = "confirm"
    /\ \/ env[This(r)].st = "applied" /\ Goto(r, "paid")
       \/ env[This(r)].st = "failed" /\ Goto(r, "failed")
       \/ Goto(r, "timeout")
    /\ UNCHANGED <<kind, attempt, resumed, loaded, queue, ledger>>

Step(r) ==
    \/ FindExisting(r) \/ PreflightFails(r) \/ Enqueue(r) \/ LoadAccount(r)
    \/ NothingSubmitted(r) \/ SubmitTransaction(r) \/ Accepted(r) \/ Rejected(r)
    \/ Ambiguous(r) \/ Confirm(r)

-----------------------------------------------------------------------------
(* What is not the submitter *)

(* A crash loses every call and every lock; the calls that had reached     *)
(* `settling` are resumed, and a resumed call is not retried.              *)
Crash ==
    /\ \E r \in Request : pc[r] \notin Outcomes
    /\ \A r \in Request : ~resumed[r]
    /\ pc' = [r \in Request |-> IF pc[r] \in Outcomes THEN pc[r] ELSE "find"]
    /\ resumed' = [r \in Request |-> pc[r] \notin Outcomes]
    /\ queue' = [l \in Locks |-> <<>>]
    /\ UNCHANGED <<kind, attempt, loaded, ledger>>

(* A flying envelope whose sequence number is the account's next one is    *)
(* applied, paying or failing; any other, and any at its time bound, dies. *)
Land(e) ==
    /\ env[e].st = "flying" /\ env[e].seq = seq + 1
    /\ env' = [env EXCEPT ![e].st = "applied"]
    /\ seq' = seq + 1
    /\ history' = IF kind[e[1]] = "claimable_balance" THEN history
                  ELSE <<e[1]>> \o history
    /\ UNCHANGED process

FailOnChain(e) ==
    /\ env[e].st = "flying" /\ env[e].seq = seq + 1
    /\ env' = [env EXCEPT ![e].st = "failed"]
    /\ seq' = seq + 1
    /\ UNCHANGED <<process, history>>

Die(e) ==
    /\ env[e].st = "flying"
    /\ env' = [env EXCEPT ![e].st = "dead"]
    /\ UNCHANGED <<process, seq, history>>

Ledger == \E e \in Attempts : Land(e) \/ FailOnChain(e) \/ Die(e)

Init ==
    /\ kind \in [Request -> Kinds]
    /\ pc = [r \in Request |-> "find"]
    /\ attempt = [r \in Request |-> 1]
    /\ resumed = [r \in Request |-> FALSE]
    /\ loaded = [r \in Request |-> 0]
    /\ queue = [l \in Locks |-> <<>>]
    /\ env = [e \in Attempts |-> NoEnvelope]
    /\ seq = 0
    /\ history = <<>>

Done == (\A r \in Request : pc[r] \in Outcomes) /\ UNCHANGED vars

Next == (\E r \in Request : Step(r)) \/ Crash \/ Ledger \/ Done

Spec == Init /\ [][Next]_vars

(* Horizon answers or its client times out: a call that can move does.     *)
(* Nothing is assumed of the ledger: a call's own deadline frees it.       *)
FairSpec == Spec /\ \A r \in Request : WF_vars(Step(r))

-----------------------------------------------------------------------------
(* Properties *)

Places ==
    {"find", "submit", "queued", "built", "posted", "confirm"} \cup Outcomes

TypeOK ==
    /\ kind \in [Request -> Kinds] /\ pc \in [Request -> Places]
    /\ attempt \in [Request -> 1 .. MaxAttempts]
    /\ resumed \in [Request -> BOOLEAN]
    /\ loaded \in [Request -> Nat]
    /\ queue \in [Locks -> Seq(Request)]
    /\ env \in [Attempts ->
          [seq : Nat, st : {"none", "flying", "applied", "failed", "dead"}]]
    /\ seq \in Nat
    /\ history \in Seq(Request)

MayPay(e) == env[e].st \in {"flying", "applied"}

(* A request never has two envelopes that paid or still can: what is       *)
(* reported retryable can no longer land, and an attempt that has sent an  *)
(* envelope does not send another (index.ts:686-703).                      *)
PaidAtMostOnce ==
    \A r \in Request :
        /\ \A i, j \in 1 .. MaxAttempts : MayPay(<<r, i>>) /\ MayPay(<<r, j>>) => i = j
        /\ pc[r] = "built" => env[This(r)] = NoEnvelope

(* A request reported paid has its own payment on the ledger, whether it   *)
(* was confirmed or found by findExisting.                                 *)
PaidMeansOnLedger ==
    \A r \in Request : pc[r] = "paid" =>
        \E i \in 1 .. MaxAttempts : env[<<r, i>>].st = "applied"

(* The sequence numbers built under one lock: between its loadAccount and  *)
(* the answer to its submitTransaction a call is alone, so no other call   *)
(* behind the same lock builds on the number it read (index.ts:347-351).   *)
LockExcludes ==
    \A r, q \in Request :
        /\ pc[r] \in {"built", "posted"} /\ pc[q] \in {"built", "posted"}
        /\ LockOf(r) = LockOf(q)
        => r = q

(* Every settlement resolves, whatever the ledger does: a call that fails  *)
(* or stays ambiguous never keeps the others waiting.                      *)
EveryRequestResolves == \A r \in Request : <>(pc[r] \in Outcomes)

=============================================================================
