--------------------------------- MODULE Settle ---------------------------------
(***************************************************************************)
(* One run's settlement: the gate's checks of the chain, the lookup of an  *)
(* earlier payment, the strategy that fits the opened transaction, the     *)
(* submission, and the reading back of what was paid                       *)
(* (packages/engine/src/run.ts 676-935 and 1465-1641, verbs.ts settle,     *)
(* ports.ts, packages/stellar).  The chain moves between the steps: other  *)
(* runs spend, issuers freeze, liquidity goes.  What concurrent            *)
(* submissions and lost answers do to the sequence number is Submitter's.  *)
(***************************************************************************)
EXTENDS Horizon

CONSTANTS
    Corridors,      \* the manifests, each with the deployment's options
    Openings,       \* the transactions the anchors may have opened
    Amount,         \* quote.sourceAmount.amount
    OurAccounts,    \* what our account may hold
    TheirAccounts,  \* what the destination may look like, None for no account
    Routes,         \* the offers there may be: what each path delivers
    Us,             \* our address
    Flagged,        \* the operator's denylist
    MaxAttempts,    \* recovery.max_retries: passes of the settle loop
    MaxMoves        \* bound: how often the chain changes by itself

Check == {"balance", "destination", "toml"}

ASSUME SettleAssumption ==
    /\ isSettleableAmount(Amount)
    /\ \A c \in Corridors : c.checks \subseteq Check /\ (~c.gated => c.checks = {})
    /\ MaxAttempts \in Nat /\ MaxMoves \in Nat

(* Amounts are whole units of the last decimal place, and what Horizon     *)
(* writes out reads as the same amount.                                    *)
ASSUME AmountAssumption ==
    /\ toScaled(Amount) \in Nat
    /\ toScaled(Written(toScaled(Amount))) = toScaled(Amount)
    /\ \A o \in Openings : o.amountIn # None =>
          o.amountIn.amount # None /\ toScaled(o.amountIn.amount) \in Int \cup {None}
    /\ \A r \in Routes : r \subseteq Int /\ (r # {} => \E p \in r : \A q \in r : q <= p)

(* Our accounts hold no asset that is coded XLM beside the native one.     *)
ASSUME AccountsAssumption ==
    \A a \in OurAccounts :
        /\ {a.subentries, a.sponsoring, a.sponsored} \subseteq Int
        /\ \A x \in DOMAIN a.lines :
              /\ a.lines[x].balance \in Int /\ a.lines[x].selling \in Int
              /\ isXlm(x) => x = Native

(* A plain payment has an address (adapter-kit/src/index.ts:55).  A text   *)
(* has one spelling, an id may have leading zeros, and 32 bytes   *)
(* are spelled in hex or base64.                                           *)
ASSUME OpeningsAssumption ==
    \A o \in Openings :
        /\ o.kind = "stellar_payment" => o.to # None
        /\ TypeOf(o) \in {"text", "id", "hash"}
        /\ o.memo # None =>
              /\ o.memo.form \in {"canonical", "other", "unfit"}
              /\ o.memo.form = "other" => TypeOf(o) \in {"id", "hash"}

VARIABLES
    corridor, opened,   \* what this run settles
    chain,              \* accounts, offers, Horizon's root, the domain's file
    passphrase,         \* rootPassphrase, kept by the submitter
    gate,               \* each check's verdict, and the chain it looked at
    run,                \* where the run is
    env,                \* the envelope that is built
    ledger              \* the payments that were made

vars == <<corridor, opened, chain, passphrase, gate, run, env, ledger>>

(* A reference is the submission that paid, or one of these.               *)
Others == 0       \* another run's payment
Adapters == -1    \* no payment: the adapter's word

(* An envelope: a path payment has a floor, and the quote it is taken from.*)
Plain == [kind |-> "payment", to |-> opened.to, destMin |-> 0, quoted |-> 0]

Unchecked == [c \in Check |-> [verdict |-> None, at |-> 0]]

Goto(pc) == run' = [run EXCEPT !.pc = pc]
Stop(code) == run' = [run EXCEPT !.pc = "stopped", !.code = code]

(* The settle loop: a failure that sent nothing goes round through the     *)
(* gate; a resumed run makes one submission.                               *)
RetryAs(r) ==
    IF run.attempt < MaxAttempts /\ ~run.resumed
    THEN /\ run' = [r EXCEPT !.pc = "gate", !.attempt = @ + 1]
         /\ gate' = Unchecked
    ELSE run' = [r EXCEPT !.pc = "stopped", !.code = "SETTLEMENT_FAILED"] /\ UNCHANGED gate

Retry == RetryAs(run)

(* settlementRequestFor *)
Request == [to |-> opened.to, memo |-> opened.memo, memoType |-> opened.memoType,
            amount |-> Amount]

-----------------------------------------------------------------------------
(* The gate *)

(* What a check asks for, when it asks. *)
Answers(c) ==
    CASE c = "balance" -> account(chain.us)
      [] c = "destination" -> account(chain.them)
      [] c = "toml" -> {chain.toml, Bad}

Verdict(c, answer) ==
    CASE c = "balance" -> balanceCheck(answer, corridor, Amount)
      [] c = "destination" -> destinationCheck(opened.to, Us, Flagged, answer, corridor)
      [] c = "toml" -> tomlHashCheck(corridor.unattested, corridor.attested, answer)

(* runOne: a check that takes too long has failed. *)
RunCheck(c) ==
    /\ run.pc = "gate" /\ c \in corridor.checks /\ gate[c].verdict = None
    /\ \E v \in {Verdict(c, answer) : answer \in Answers(c)} \cup {Refused("SETTLEMENT_FAILED")} :
          gate' = [gate EXCEPT ![c] = [verdict |-> v, at |-> chain.moves]]
    /\ UNCHANGED <<corridor, opened, chain, passphrase, run, env, ledger>>

Judge ==
    /\ run.pc = "gate" /\ \A c \in corridor.checks : gate[c].verdict # None
    /\ \/ (\A c \in corridor.checks : gate[c].verdict.passed) /\ Goto("lookup")
       \/ \E c \in corridor.checks :
             ~gate[c].verdict.passed /\ Stop(gate[c].verdict.code)
    /\ UNCHANGED <<corridor, opened, chain, passphrase, gate, env, ledger>>

-----------------------------------------------------------------------------
(* The lookup, and the resumption of a run that crashed *)

Existing == {t \in ledger : IsExisting(t, Request, corridor)}

(* findExisting: looked up for a plain transaction only. *)
Lookup ==
    /\ run.pc = "lookup"
    /\ IF opened.kind # "stellar_payment" THEN Goto("settle")
       ELSE \/ Existing = {} /\ Goto("settle")
            \/ \E t \in Existing : run' = [run EXCEPT !.pc = "verify", !.ref = t.id]
            \/ Stop("SETTLEMENT_FAILED")
    /\ UNCHANGED <<corridor, opened, chain, passphrase, gate, env, ledger>>

Underway == {"gate", "lookup", "settle", "preflight", "route", "send", "verify"}

(* The row says `settling` from the lookup on, until the reference is in   *)
(* it; the process's own memory is gone.                                   *)
Crash ==
    /\ run.pc \in Underway /\ ~run.resumed
    /\ run' = [run EXCEPT !.pc = "resume", !.resumed = TRUE, !.ref = None,
                          !.row = IF run.pc = "gate" THEN "verifying" ELSE "settling"]
    /\ passphrase' = None /\ env' = None
    /\ UNCHANGED <<corridor, opened, chain, gate, ledger>>

(* Mutant of Held: only a gate holds the run. *)
HeldByGate == corridor.gated

(* A row that says settling, or a gate that cannot be asked again. *)
Held == run.row = "settling" \/ corridor.gated

(* resumeRun: nothing without an address; what is found was paid; what may *)
(* be under way is held; otherwise the request is submitted, by the        *)
(* submitter itself.                                                       *)
Resume ==
    /\ run.pc = "resume"
    /\ IF opened.to = None THEN Stop("IDEMPOTENCY_CONFLICT")
       ELSE \/ \E t \in Existing : run' = [run EXCEPT !.pc = "verify", !.ref = t.id]
            \/ /\ Existing = {}
               /\ IF Held THEN Stop("IDEMPOTENCY_CONFLICT")
                  ELSE Goto("preflight")
            \/ Stop("SETTLEMENT_FAILED")
    /\ UNCHANGED <<corridor, opened, chain, passphrase, gate, env, ledger>>

-----------------------------------------------------------------------------
(* settle: the strategy *)

(* A strategy that is configured and takes the transaction and corridor.   *)
Fits(strategy) ==
    /\ strategy \in corridor.strategies
    /\ CASE strategy = "payment" ->
              opened.kind = "stellar_payment" /\ ~needsPathPayment(corridor)
         [] strategy = "path" -> opened.kind = "stellar_payment" /\ needsPathPayment(corridor)
         [] OTHER -> opened.kind = strategy

(* AdapterSettledStrategy: the adapter's word, or the reference it gave.   *)
SettleByAdapter ==
    /\ Fits("adapter_settled")
    /\ IF corridor.confirms
       THEN \/ run' = [run EXCEPT !.pc = "verify", !.ref = Adapters] /\ UNCHANGED gate
            \/ Stop("SETTLEMENT_FAILED") /\ UNCHANGED gate
            \/ Retry
       ELSE /\ IF opened.reference = None THEN Stop("SETTLEMENT_FAILED")
               ELSE run' = [run EXCEPT !.pc = "verify", !.ref = Adapters]
            /\ UNCHANGED gate
    /\ UNCHANGED env

Claimant == IF opened.claimant # None THEN opened.claimant ELSE opened.to

(* StellarClaimableBalanceStrategy, which does not look at the network.    *)
SettleByClaim ==
    /\ Fits("claimable_balance")
    /\ IF chain.quoteDead THEN Stop("QUOTE_EXPIRED") /\ UNCHANGED env
       ELSE IF Claimant = None THEN Stop("SETTLEMENT_FAILED") /\ UNCHANGED env
       ELSE Goto("send") /\ env' = [Plain EXCEPT !.kind = "claimable", !.to = Claimant]
    /\ UNCHANGED gate

Settle ==
    /\ run.pc = "settle"
    /\ \/ SettleByAdapter
       \/ SettleByClaim
       \/ (Fits("payment") \/ Fits("path")) /\ Goto("preflight") /\ UNCHANGED <<gate, env>>
       \/ /\ \A s \in corridor.strategies : ~Fits(s)
          /\ Stop("SETTLEMENT_FAILED") /\ UNCHANGED <<gate, env>>
    /\ UNCHANGED <<corridor, opened, chain, passphrase, ledger>>

-----------------------------------------------------------------------------
(* submit, submitPathPayment *)

MayUseNetwork ==
    /\ corridor.network \in corridor.allowed
    /\ corridor.network = "public" => corridor.signer # "local" \/ corridor.acked

(* preflight: guardNetwork, whose answer from Horizon's root is kept; the  *)
(* quote; and the shape of payment that the corridor needs.                *)
Preflight ==
    /\ run.pc = "preflight"
    /\ \/ ~MayUseNetwork /\ Stop("SETTLEMENT_FAILED") /\ UNCHANGED <<passphrase, gate, env>>
       \/ /\ MayUseNetwork /\ corridor.rootChecked /\ passphrase = None
          /\ Retry /\ UNCHANGED <<passphrase, env>>
       \/ /\ MayUseNetwork
          /\ passphrase' = IF corridor.rootChecked /\ passphrase = None THEN chain.root
                           ELSE passphrase
          /\ CASE corridor.rootChecked /\ passphrase' # corridor.network ->
                     Stop("SETTLEMENT_FAILED") /\ UNCHANGED env
               [] chain.quoteDead /\ (corridor.rootChecked => passphrase' = corridor.network) ->
                     Stop("QUOTE_EXPIRED") /\ UNCHANGED env
               [] OTHER ->
                     IF ~needsPathPayment(corridor) THEN Goto("send") /\ env' = Plain
                     ELSE /\ IF run.resumed THEN Stop("SETTLEMENT_FAILED") ELSE Goto("route")
                          /\ UNCHANGED env
          /\ UNCHANGED gate
    /\ UNCHANGED <<corridor, opened, chain, ledger>>

(* The floor of a path payment: of the best offer, and the anchor's.       *)
Route ==
    /\ run.pc = "route"
    /\ LET best == bestStrictSendPath(chain.routes)
           destMin == IF best = None THEN None ELSE applySlippage(best, corridor.bps)
           floor == MinDest(opened, corridor)
       IN  \/ Retry /\ UNCHANGED env
           \/ /\ IF destMin = None THEN Stop("SETTLEMENT_FAILED") /\ UNCHANGED env
                 ELSE IF ~Reaches(destMin, floor)
                 THEN Stop("SETTLEMENT_FAILED") /\ UNCHANGED env
                 ELSE /\ Goto("send")
                      /\ env' = [kind |-> "path", to |-> opened.to, destMin |-> destMin,
                                 quoted |-> best]
              /\ UNCHANGED gate
    /\ UNCHANGED <<corridor, opened, chain, passphrase, ledger>>

-----------------------------------------------------------------------------
(* The chain *)

SentAsset == bridgeAsset(corridor.bridge)

DeliveredAsset == IF env.kind = "path" THEN bridgeAsset(corridor.receive) ELSE SentAsset

Spendable(facts, asset) ==
    Line(facts, asset).balance - Line(facts, asset).selling
        - (IF asset = Native THEN MinimumReserve(facts) ELSE 0)

Reasons == {"too_late", "no_fee", "src_no_trust", "src_not_authorized", "underfunded",
            "no_destination", "no_trust", "not_authorized", "line_full", "under_dest_min"}

(* Why the network would not apply the envelope. *)
Stops(why) ==
    LET source == chain.us.lines
        payee == IF chain.them = None THEN <<>> ELSE chain.them.lines
        paysThem == env.kind # "claimable"
        needsLine == paysThem /\ chain.them # None /\ DeliveredAsset # Native
        hasLine == DeliveredAsset \in DOMAIN payee
    IN  CASE why = "too_late" -> chain.quoteDead
          [] why = "no_fee" -> Spendable(chain.us, Native) < Fee
          [] why = "src_no_trust" -> SentAsset \notin DOMAIN source
          [] why = "src_not_authorized" ->
                SentAsset # Native /\ SentAsset \in DOMAIN source /\ ~source[SentAsset].authorized
          [] why = "underfunded" ->
                Spendable(chain.us, SentAsset)
                    < toScaled(Amount) + (IF SentAsset = Native THEN Fee ELSE 0)
          [] why = "no_destination" -> paysThem /\ chain.them = None
          [] why = "no_trust" -> needsLine /\ ~hasLine
          [] why = "not_authorized" -> needsLine /\ hasLine /\ ~payee[DeliveredAsset].authorized
          [] why = "line_full" -> needsLine /\ hasLine /\ ~payee[DeliveredAsset].room
          [] why = "under_dest_min" ->
                env.kind = "path" /\ \A p \in chain.routes : p < env.destMin

Obstacles == {why \in Reasons : Stops(why)}

(* What is delivered along a path: the best there is when it is applied.   *)
Delivery == IF env.kind = "path" THEN bestStrictSendPath(chain.routes) ELSE toScaled(Amount)

(* The submission: a resumed run's is not the attempt's before the crash.  *)
Submission == run.attempt + (IF run.resumed THEN MaxAttempts ELSE 0)

Payment ==
    [id |-> Submission, kind |-> env.kind, to |-> env.to, asset |-> DeliveredAsset,
     amount |-> Delivery, sent |-> toScaled(Amount), sentAsset |-> SentAsset,
     memo |-> buildMemo(Request), quoted |-> env.quoted]

Spent ==
    LET cost(a) == (IF a = SentAsset THEN toScaled(Amount) ELSE 0)
                   + (IF a = Native THEN Fee ELSE 0)
    IN  [chain.us EXCEPT !.lines =
            [a \in DOMAIN @ |-> [@[a] EXCEPT !.balance = @ - cost(a)]]]

(* send: the account cannot be loaded, or the memo does not encode: tried  *)
(* again, as nothing was sent.                                             *)
SendFails ==
    /\ run.pc = "send" /\ Retry /\ env' = None
    /\ UNCHANGED <<corridor, opened, chain, passphrase, ledger>>

(* The network applies the envelope, and the submitter may never hear.     *)
Land ==
    /\ run.pc = "send" /\ buildMemo(Request) # None /\ Obstacles = {}
    /\ ledger' = ledger \cup {Payment}
    /\ chain' = [chain EXCEPT !.us = Spent]
    /\ \/ run' = [run EXCEPT !.pc = "verify", !.ref = Submission]
       \/ Stop("SETTLEMENT_TIMEOUT")
    /\ env' = None
    /\ UNCHANGED <<corridor, opened, passphrase, gate>>

(* Horizon rejects it; whether our checks had just looked is remembered.   *)
Reject ==
    /\ run.pc = "send" /\ buildMemo(Request) # None /\ Obstacles # {}
    /\ RetryAs([run EXCEPT !.rejected =
          [kind |-> env.kind, why |-> Obstacles,
           foreseen |-> \A c \in {"balance", "destination"} :
                           c \in corridor.checks /\ gate[c].at = chain.moves]])
    /\ env' = None
    /\ UNCHANGED <<corridor, opened, chain, passphrase, ledger>>

(* It is lost, and its hash is never found. *)
Vanish ==
    /\ run.pc = "send" /\ buildMemo(Request) # None
    /\ Stop("SETTLEMENT_TIMEOUT") /\ env' = None
    /\ UNCHANGED <<corridor, opened, chain, passphrase, gate, ledger>>

(* verifyOnChain: the adapter's word is taken; a transaction is read back, *)
(* where a verifier is configured, and what it cannot confirm is held.     *)
Verify ==
    /\ run.pc = "verify"
    /\ IF ~corridor.verify \/ run.ref = Adapters THEN Goto("settled")
       ELSE \E t \in ledger :
              /\ t.id = run.ref
              /\ \E facts \in settlementFacts(t) :
                    LET code == createChainVerifier(facts, Request, corridor)
                    IN  IF code = "none" THEN Goto("settled") ELSE Stop(code)
    /\ UNCHANGED <<corridor, opened, chain, passphrase, gate, env, ledger>>

(* Other runs spend, issuers freeze, accounts merge, offers go, the domain *)
(* serves another file, the quote's time is over.                          *)
Move ==
    /\ run.pc \in Underway /\ chain.moves < MaxMoves
    /\ \/ \E a \in OurAccounts : chain' = [chain EXCEPT !.us = a, !.moves = @ + 1]
       \/ \E a \in TheirAccounts : chain' = [chain EXCEPT !.them = a, !.moves = @ + 1]
       \/ \E r \in Routes : chain' = [chain EXCEPT !.routes = r, !.moves = @ + 1]
       \/ chain' = [chain EXCEPT !.toml = "changed", !.moves = @ + 1]
       \/ chain' = [chain EXCEPT !.quoteDead = TRUE, !.moves = @ + 1]
    /\ UNCHANGED <<corridor, opened, passphrase, gate, run, env, ledger>>

(* Another run's payment of this amount to this address, with no memo.     *)
Stranger ==
    [id |-> Others, kind |-> "payment", to |-> opened.to, asset |-> SentAsset,
     amount |-> toScaled(Amount), sent |-> toScaled(Amount), sentAsset |-> SentAsset,
     memo |-> NoMemo, quoted |-> 0]

Init ==
    /\ corridor \in Corridors
    /\ opened \in Openings /\ opened.kind \in corridor.opens
    /\ chain \in [us : OurAccounts, them : TheirAccounts, routes : Routes,
                  root : IF corridor.rootChecked THEN {"testnet", "public", "unnamed"}
                         ELSE {"testnet"}, toml : {"attested"},
                  quoteDead : {FALSE}, moves : {0}]
    /\ passphrase = None
    /\ gate = Unchecked
    /\ run = [pc |-> "gate", attempt |-> 1, code |-> "none",
              ref |-> None, row |-> "opened", resumed |-> FALSE, rejected |-> None]
    /\ env = None
    /\ ledger \in {{}, {Stranger}}

Next ==
    \/ \E c \in Check : RunCheck(c)
    \/ Judge \/ Lookup \/ Crash \/ Resume \/ Settle \/ Preflight \/ Route
    \/ SendFails \/ Land \/ Reject \/ Vanish \/ Verify \/ Move

Spec == Init /\ [][Next]_vars

-----------------------------------------------------------------------------
(* Properties *)

Ours == {t \in ledger : t.id # Others}

(* A settlement that a run goes on from is the payment the anchor waits    *)
(* for: to its address, with its memo, of the quoted amount, in the asset  *)
(* it receives, and of a path payment no less than the slippage and the    *)
(* anchor's own floor allow (ports.ts:165-181, stellar/src/index.ts:       *)
(* 488-499, 1056-1061, 1580-1584).                                         *)
Delivered ==
    run.pc = "settled" /\ run.ref # Adapters =>
        \E t \in ledger :
            /\ t.id = run.ref
            /\ t.to \in {opened.to, Claimant} /\ SameMemo(Request, t.memo)
            /\ t.sent = toScaled(Amount)
            /\ t.asset = bridgeAsset(IF corridor.receive = None THEN corridor.bridge
                                     ELSE corridor.receive)
            /\ t.kind = "path" =>
                  /\ t.amount * BpsUnit >= t.quoted * (BpsUnit - corridor.bps)
                  /\ Reaches(t.amount, MinDest(opened, corridor))

(* The bridge asset is spelt as the chain spells it: XLM is not called     *)
(* "native", and no account has a line of the issuer's in another case.    *)
Spelt ==
    \/ isXlm(corridor.bridge)
    \/ /\ ~isNative(corridor.bridge)
       /\ \A a \in (OurAccounts \cup TheirAccounts) \ {None} :
             \A x \in DOMAIN a.lines : Names(corridor.bridge, x) => x = corridor.bridge

(* Where the manifest spells the bridge asset as the chain does, a payment *)
(* that passed the balance and the destination check is not rejected for   *)
(* what these checks are there to foresee, unless the chain moved in       *)
(* between: the funds, the fee, the reserve, the account and its trustline *)
(* (stellar/src/index.ts:1670-1688, 1923-1940).  Spelt otherwise, it       *)
(* passes the checks and is rejected (1823-1824, 1856, 2052-2064; 60-61).  *)
GateForesees ==
    run.rejected # None /\ run.rejected.foreseen /\ run.rejected.kind = "payment" /\ Spelt =>
        run.rejected.why \cap {"no_fee", "underfunded", "src_no_trust", "no_destination",
                               "no_trust", "not_authorized"} = {}

(* What no lookup finds (stellar/src/index.ts:728-760): a claimable        *)
(* balance; a path payment, whose delivered asset and amount are compared  *)
(* with the bridge asset and what left; any payment where the bridge asset *)
(* is called "native"; and an id that the chain writes without its leading *)
(* zeros.                                                                  *)
Unfindable(t) ==
    \/ t.kind # "payment"
    \/ isNative(corridor.bridge) /\ ~isXlm(corridor.bridge)
    \/ opened.memo # None /\ TypeOf(Request) = "id" /\ opened.memo.form # "canonical"

(* A run that crashed finds its payment, and nobody else's: it is not      *)
(* given up with a payment of its own on the ledger but one that no lookup *)
(* finds, and the payment it goes on from is another run's only where no   *)
(* memo tells them apart (run.ts:1493-1524).                               *)
FindsWhatItSent ==
    /\ run.code = "IDEMPOTENCY_CONFLICT" => \A t \in Ours : Unfindable(t)
    /\ run.pc = "settled" /\ run.ref = Others => opened.memo = None

(* And what is not found is not paid again: over failed attempts, a crash  *)
(* between the payment and the row that would have recorded it, and the    *)
(* resumption, a run pays once at most (run.ts:1519-1522).                 *)
PaidOnce == \A t, u \in Ours : t = u

=============================================================================
