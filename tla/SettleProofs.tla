---------------------------- MODULE SettleProofs ----------------------------
(***************************************************************************)
(* What holds of a settlement for any corridor, opened transaction,        *)
(* accounts, offers and moves of the chain.                                *)
(*                                                                         *)
(* What is on the ledger is another run's payment or was sent by this one, *)
(* once, as the opened transaction asks (Booked); an envelope of a path payment  *)
(* keeps to the quote and to the anchor's floor (Enveloped); and a verdict *)
(* of the gate still holds while the chain is the one it was passed on     *)
(* (Watched).                                                              *)
(***************************************************************************)
EXTENDS Settle, TLAPS

(* Before the payment, as far as this process knows. *)
Before == {"gate", "lookup", "settle", "preflight", "route", "send"}

Shape ==
    /\ corridor \in Corridors /\ opened \in Openings
    /\ DOMAIN run = {"pc", "attempt", "code", "ref", "row", "resumed", "rejected"}
    /\ run.pc \in Before \cup {"verify", "resume", "settled", "stopped"}
    /\ run.attempt \in Nat \ {0}
    /\ run.pc # "stopped" => run.code = "none"
    /\ DOMAIN chain = {"us", "them", "routes", "root", "toml", "quoteDead", "moves"}
    /\ chain.moves \in Nat /\ chain.routes \in Routes /\ chain.them \in TheirAccounts
    /\ DOMAIN gate = Check
    /\ \A c \in Check : DOMAIN gate[c] = {"verdict", "at"} /\ gate[c].at \in 0 .. chain.moves

(* Nothing was paid from our account while no payment was sent.            *)
Unspent ==
    run.pc \in Before \/ (run.pc = "resume" /\ run.row # "settling") =>
        chain.us \in OurAccounts /\ Ours = {}

(* What a passed check found. *)
Holds(c) ==
    CASE c = "balance" -> balanceCheck(chain.us, corridor, Amount).passed
      [] c = "destination" ->
            destinationCheck(opened.to, Us, Flagged, chain.them, corridor).passed
      [] OTHER -> TRUE

(* A verdict that was passed on the chain as it is now still holds; past   *)
(* the gate every check passed; and a resumed run that pays has no gate.   *)
Watched ==
    /\ \A c \in Check : gate[c].verdict # None =>
          /\ gate[c].verdict.code # "IDEMPOTENCY_CONFLICT"
          /\ /\ run.pc \in Before /\ ~run.resumed
             /\ gate[c].verdict.passed /\ gate[c].at = chain.moves
             => Holds(c)
    /\ run.pc \in Before \ {"gate"} /\ ~run.resumed =>
          \A c \in corridor.checks : gate[c].verdict # None /\ gate[c].verdict.passed
    /\ run.pc = "resume" => run.resumed
    /\ run.pc \in Before /\ run.resumed => run.pc \in {"preflight", "send"} /\ ~corridor.gated

(* The floor of a path payment keeps to the quote and to the anchor's.     *)
Floored(e) ==
    /\ needsPathPayment(corridor)
    /\ e.destMin \in Nat \ {0}
    /\ e.quoted \in Int /\ corridor.bps \in Int
    /\ e.destMin * BpsUnit >= e.quoted * (BpsUnit - corridor.bps)
    /\ Reaches(e.destMin, MinDest(opened, corridor))

Enveloped ==
    /\ run.pc = "preflight" => opened.to # None
    /\ run.pc = "route" => opened.to # None /\ needsPathPayment(corridor)
    /\ run.pc = "send" =>
        /\ env.kind \in {"payment", "claimable", "path"}
        /\ env.kind = "payment" => env.to = opened.to /\ opened.to # None
        /\ env.to \in {opened.to, Claimant}
        /\ env.kind = "path" => Floored(env)

(* What this run sent. *)
Sent(t) ==
    /\ t.id \in Nat \ {0}
    /\ t.kind \in {"payment", "claimable", "path"}
    /\ t.to \in {opened.to, Claimant} /\ (t.kind = "payment" => t.to = opened.to /\ opened.to # None)
    /\ t.sent = toScaled(Amount)
    /\ t.memo = buildMemo(Request) /\ buildMemo(Request) # None
    /\ t.kind # "path" => t.asset = SentAsset
    /\ t.kind = "payment" => t.amount = toScaled(Amount)
    /\ t.kind = "path" =>
          /\ needsPathPayment(corridor) /\ t.asset = bridgeAsset(corridor.receive)
          /\ t.amount * BpsUnit >= t.quoted * (BpsUnit - corridor.bps)
          /\ Reaches(t.amount, MinDest(opened, corridor))

Booked == PaidOnce /\ \A t \in ledger : t = Stranger \/ Sent(t)

(* What a reference refers to: the payment that was just sent, or one that *)
(* the lookup took for it.                                                 *)
Referred ==
    run.pc \in {"verify", "settled"} =>
        /\ run.ref # Adapters => \E t \in ledger :
              /\ t.id = run.ref
              /\ \/ t.memo = buildMemo(Request) /\ buildMemo(Request) # None
                 \/ SameMemo(Request, t.memo)
        /\ run.ref = Others => opened.memo = None

Kept == Shape /\ Unspent /\ Watched /\ Enveloped /\ Booked /\ Referred

-----------------------------------------------------------------------------
(* The run's own steps *)

Fields == {"pc", "attempt", "code", "ref", "row", "resumed", "rejected"}

LEMMA GotoRun ==
    ASSUME DOMAIN run = Fields, NEW pc, Goto(pc)
    PROVE  /\ DOMAIN run' = Fields /\ run'.pc = pc /\ run'.attempt = run.attempt
           /\ run'.code = run.code /\ run'.ref = run.ref /\ run'.row = run.row
           /\ run'.resumed = run.resumed /\ run'.rejected = run.rejected
  BY DEF Goto, Fields

LEMMA StopRun ==
    ASSUME DOMAIN run = Fields, NEW code, Stop(code)
    PROVE  /\ DOMAIN run' = Fields /\ run'.pc = "stopped" /\ run'.attempt = run.attempt
           /\ run'.code = code /\ run'.ref = run.ref /\ run'.row = run.row
           /\ run'.resumed = run.resumed /\ run'.rejected = run.rejected
  BY DEF Stop, Fields

(* A retry goes round through the gate, which looks again. *)
Again == gate' = Unchecked /\ ~run.resumed /\ run'.pc = "gate" /\ run'.code = run.code

GivenUp == gate' = gate /\ run'.pc = "stopped" /\ run'.code = "SETTLEMENT_FAILED"

LEMMA RetryRun ==
    ASSUME DOMAIN run = Fields, run.attempt \in Nat \ {0},
           NEW r, DOMAIN r = Fields, r.attempt = run.attempt, r.code = run.code, RetryAs(r)
    PROVE  /\ DOMAIN run' = Fields /\ run'.attempt \in Nat \ {0}
           /\ run'.rejected = r.rejected /\ run'.resumed = r.resumed /\ run'.ref = r.ref
           /\ Again \/ GivenUp
  <1>1. CASE run.attempt < MaxAttempts /\ ~run.resumed
    <2>1. run' = [r EXCEPT !.pc = "gate", !.attempt = @ + 1] /\ gate' = Unchecked
      BY <1>1 DEF RetryAs
    <2> QED BY <1>1, <2>1 DEF Fields, Again
  <1>2. CASE ~(run.attempt < MaxAttempts /\ ~run.resumed)
    <2>1. run' = [r EXCEPT !.pc = "stopped", !.code = "SETTLEMENT_FAILED"] /\ gate' = gate
      BY <1>2 DEF RetryAs
    <2> QED BY <2>1 DEF Fields, GivenUp
  <1> QED BY <1>1, <1>2

LEMMA PlainRetry ==
    ASSUME Shape, Retry
    PROVE  /\ DOMAIN run' = Fields /\ run'.attempt \in Nat \ {0}
           /\ run'.rejected = run.rejected /\ run'.resumed = run.resumed
           /\ Again \/ GivenUp
  BY RetryRun DEF Retry, Shape, Fields

LEMMA UncheckedGate ==
    /\ DOMAIN Unchecked = Check
    /\ \A c \in Check : DOMAIN Unchecked[c] = {"verdict", "at"} /\ Unchecked[c].verdict = None
                        /\ Unchecked[c].at = 0
  BY DEF Unchecked

-----------------------------------------------------------------------------
(* The gate *)

LEMMA VerdictTrue ==
    ASSUME NEW c \in Check, NEW answer \in Answers(c)
    PROVE  /\ Verdict(c, answer).code # "IDEMPOTENCY_CONFLICT"
           /\ Verdict(c, answer).passed => Holds(c)
  <1>1. CASE c = "balance"
    <2>1. answer \in {chain.us, Bad} /\ Verdict(c, answer) = balanceCheck(answer, corridor, Amount)
      BY <1>1 DEF Answers, account, Verdict
    <2>2. Holds(c) = balanceCheck(chain.us, corridor, Amount).passed
      BY <1>1 DEF Holds
    <2>3. balanceCheck(answer, corridor, Amount) \in
              {Passed, Refused("SETTLEMENT_FAILED"), Refused("PRESETTLE_INSUFFICIENT_FUNDS"),
               Refused("AMOUNT_INVALID")}
      BY DEF balanceCheck
    <2>4. answer = Bad => balanceCheck(answer, corridor, Amount) # Passed
      BY DEF balanceCheck, Passed, Refused
    <2> QED BY <2>1, <2>2, <2>3, <2>4 DEF Passed, Refused
  <1>2. CASE c = "destination"
    <2>1. /\ answer \in {chain.them, Bad}
          /\ Verdict(c, answer) = destinationCheck(opened.to, Us, Flagged, answer, corridor)
      BY <1>2 DEF Answers, account, Verdict
    <2>2. Holds(c) = destinationCheck(opened.to, Us, Flagged, chain.them, corridor).passed
      BY <1>2 DEF Holds
    <2>3. destinationCheck(opened.to, Us, Flagged, answer, corridor) \in
              {Passed, Refused("SETTLEMENT_FAILED"), Refused("PRESETTLE_DESTINATION_UNSAFE")}
      BY DEF destinationCheck
    <2>4. answer = Bad =>
              destinationCheck(opened.to, Us, Flagged, answer, corridor) # Passed
      BY DEF destinationCheck, Passed, Refused
    <2> QED BY <2>1, <2>2, <2>3, <2>4 DEF Passed, Refused
  <1>3. CASE c = "toml"
    <2>1. Verdict(c, answer) = tomlHashCheck(corridor.unattested, corridor.attested, answer)
      BY <1>3 DEF Verdict
    <2>2. Holds(c)
      BY <1>3 DEF Holds
    <2> QED BY <2>1, <2>2 DEF tomlHashCheck, Passed, Refused
  <1> QED BY <1>1, <1>2, <1>3 DEF Check

(* Spelt as on the chain, the checks look for what the payment takes.      *)
LEMMA SpeltNative ==
    ASSUME Spelt
    PROVE  isNative(corridor.bridge) <=> isXlm(corridor.bridge)
  BY DEF Spelt, isNative, isXlm

LEMMA SpeltLine ==
    ASSUME Spelt, ~isXlm(corridor.bridge), NEW a \in (OurAccounts \cup TheirAccounts) \ {None}
    PROVE  NamedLine(a, corridor.bridge) = Line(a, corridor.bridge)
  <1> DEFINE named == {x \in DOMAIN a.lines : x # Native /\ Names(corridor.bridge, x)}
  <1>1. corridor.bridge # Native /\ Names(corridor.bridge, corridor.bridge)
    BY HorizonAssumption DEF HorizonAssumption, isXlm, Native, Names
  <1>2. named = (IF corridor.bridge \in DOMAIN a.lines THEN {corridor.bridge} ELSE {})
    BY <1>1 DEF Spelt
  <1>3. \A x : (CHOOSE y \in {x} : TRUE) = x
    OBVIOUS
  <1> QED BY <1>2, <1>3 DEF NamedLine, Line

(* What the balance check vouches for. *)
LEMMA FundsThere ==
    ASSUME Shape, Spelt, chain.us \in OurAccounts, Holds("balance")
    PROVE  ~Stops("no_fee") /\ ~Stops("underfunded") /\ ~Stops("src_no_trust")
  <1> DEFINE a == chain.us
             sum == toScaled(Amount)
  <1>1. balanceCheck(a, corridor, Amount).passed
    BY DEF Holds
  <1>2. sum \in Nat /\ sum > 0 /\ Fee \in Nat /\ BaseReserve \in Nat
    BY SettleAssumption, AmountAssumption, HorizonAssumption
       DEF SettleAssumption, AmountAssumption, HorizonAssumption, isSettleableAmount
  <1>3. /\ {a.subentries, a.sponsoring, a.sponsored} \subseteq Int
        /\ \A x \in DOMAIN a.lines :
              /\ a.lines[x].balance \in Int /\ a.lines[x].selling \in Int
              /\ isXlm(x) => x = Native
    BY AccountsAssumption DEF AccountsAssumption
  <1>4. IF isXlm(corridor.bridge) THEN AvailableXlm(a) >= sum + Fee
        ELSE CoversIssued(a, corridor.bridge, sum)
    <2>1. IF isNative(corridor.bridge) THEN AvailableXlm(a) >= sum + Fee
          ELSE CoversIssued(a, corridor.bridge, sum)
      BY <1>1 DEF balanceCheck, Passed, Refused
    <2> QED BY <2>1, SpeltNative
  <1>5. NativeLine(a) = Line(a, Native)
    BY <1>3 DEF NativeLine
  <1>6. MinimumReserve(a) \in Nat
    <2>1. 2 + a.subentries + a.sponsoring - a.sponsored \in Int
      BY <1>3
    <2> DEFINE entries == 2 + a.subentries + a.sponsoring - a.sponsored
               n == IF entries < 0 THEN 0 ELSE entries
    <2>2. n \in Nat
      BY <2>1
    <2>3. MinimumReserve(a) = n * BaseReserve
      BY DEF MinimumReserve
    <2> HIDE DEF n
    <2> QED BY <1>2, <2>2, <2>3
  <1>7. \A x : /\ Line(a, x).balance \in Int /\ Line(a, x).selling \in Int
               /\ x \notin DOMAIN a.lines => Line(a, x).balance = 0 /\ Line(a, x).selling = 0
    BY <1>3 DEF Line, NoLine
  <1>8. /\ Spendable(a, Native) = AvailableXlm(a) /\ AvailableXlm(a) \in Int
        /\ Native \notin DOMAIN a.lines => AvailableXlm(a) <= 0
    BY <1>5, <1>6, <1>7 DEF Spendable, AvailableXlm
  <1>9. CASE isXlm(corridor.bridge)
    <2>1. SentAsset = Native
      BY <1>9 DEF SentAsset, bridgeAsset
    <2>2. AvailableXlm(a) >= sum + Fee
      BY <1>4, <1>9
    <2>3. Native \in DOMAIN a.lines
      BY <1>2, <1>8, <2>2
    <2> HIDE DEF sum, a
    <2>4. ~Stops("no_fee")
      BY <1>2, <1>8, <2>2 DEF Stops, a
    <2>5. ~Stops("underfunded")
      BY <1>2, <1>8, <2>1, <2>2 DEF Stops, a, sum
    <2>6. ~Stops("src_no_trust")
      BY <2>1, <2>3 DEF Stops, a
    <2> QED BY <2>4, <2>5, <2>6
  <1>10. CASE ~isXlm(corridor.bridge)
    <2>1. SentAsset = corridor.bridge /\ SentAsset # Native
      <3>1. isXlm(Native)
        BY HorizonAssumption DEF HorizonAssumption, isXlm, Native
      <3> QED BY <1>10, <3>1 DEF SentAsset, bridgeAsset
    <2>2. /\ Line(a, SentAsset).balance - Line(a, SentAsset).selling >= sum
          /\ AvailableXlm(a) >= Fee
      <3>1. a # None => NamedLine(a, SentAsset) = Line(a, SentAsset)
        BY <1>10, <2>1, SpeltLine
      <3>2. a # None
        BY <1>1 DEF balanceCheck, Passed, Refused
      <3> QED BY <1>4, <1>10, <2>1, <3>1, <3>2 DEF CoversIssued
    <2>3. SentAsset \in DOMAIN a.lines
      BY <1>2, <1>7, <2>2
    <2>a. Spendable(a, SentAsset) >= sum
      BY <1>2, <1>7, <2>1, <2>2 DEF Spendable
    <2> HIDE DEF sum, a
    <2>4. ~Stops("no_fee")
      BY <1>2, <1>8, <2>2 DEF Stops, a
    <2>5. ~Stops("underfunded")
      <3>1. Spendable(a, SentAsset) \in Int
        BY <1>7, <2>1 DEF Spendable
      <3> QED BY <1>2, <2>1, <2>a, <3>1 DEF Stops, a, sum
    <2>6. ~Stops("src_no_trust")
      BY <2>3 DEF Stops, a
    <2> QED BY <2>4, <2>5, <2>6
  <1> QED BY <1>9, <1>10

(* What the destination check vouches for, of a plain payment. *)
LEMMA PayeeThere ==
    ASSUME Shape, Spelt, Holds("destination"), env.kind = "payment"
    PROVE  ~Stops("no_destination") /\ ~Stops("no_trust") /\ ~Stops("not_authorized")
  <1>1. destinationCheck(opened.to, Us, Flagged, chain.them, corridor).passed
    BY DEF Holds
  <1>2. /\ chain.them # None
        /\ isXlm(corridor.bridge) \/ Line(chain.them, corridor.bridge).authorized
    <2>1. /\ chain.them # None
          /\ isNative(corridor.bridge) \/ NamedLine(chain.them, corridor.bridge).authorized
      BY <1>1 DEF destinationCheck, Passed, Refused
    <2>2. chain.them \in (OurAccounts \cup TheirAccounts) \ {None}
      BY <2>1 DEF Shape
    <2> QED BY <2>1, <2>2, SpeltNative, SpeltLine
  <1>3. DeliveredAsset = SentAsset
    BY DEF DeliveredAsset
  <1>4. isXlm(corridor.bridge) => SentAsset = Native
    BY DEF SentAsset, bridgeAsset
  <1>5. ~isXlm(corridor.bridge) => SentAsset = corridor.bridge
    BY DEF SentAsset, bridgeAsset
  <1>6. SentAsset # Native =>
            /\ SentAsset \in DOMAIN chain.them.lines
            /\ chain.them.lines[SentAsset].authorized
    BY <1>2, <1>4, <1>5 DEF Line, NoLine
  <1>7. ~Stops("no_destination")
    BY <1>2 DEF Stops
  <1>8. ~Stops("no_trust")
    BY <1>2, <1>3, <1>6 DEF Stops
  <1>9. ~Stops("not_authorized")
    BY <1>2, <1>3, <1>6 DEF Stops
  <1> QED BY <1>7, <1>8, <1>9

-----------------------------------------------------------------------------
(* What a step does to the invariant, by where it takes the run *)

LEMMA BookedStays ==
    ASSUME Booked, UNCHANGED <<corridor, opened, ledger>>
    PROVE  Booked'
  <1>1. corridor' = corridor /\ opened' = opened /\ ledger' = ledger
    OBVIOUS
  <1>2. SUFFICES ASSUME NEW t \in ledger PROVE (t = Stranger \/ Sent(t))'
    BY <1>1 DEF Booked, PaidOnce, Ours
  <1>3. t = Stranger \/ Sent(t)
    BY DEF Booked
  <1>4. Stranger' = Stranger
    BY <1>1 DEF Stranger, SentAsset
  <1>5. Sent(t)' = Sent(t)
    BY <1>1 DEF Sent, Claimant, Request, SentAsset, MinDest
  <1> QED BY <1>3, <1>4, <1>5

LEMMA WellShaped ==
    ASSUME Shape, UNCHANGED <<corridor, opened, chain>>, DOMAIN run' = Fields,
           run'.attempt \in Nat \ {0}, gate' \in {gate, Unchecked},
           run'.pc \in Before \cup {"verify", "resume", "settled", "stopped"},
           run'.pc # "stopped" => run'.code = "none"
    PROVE  Shape'
  <1>1. chain' = chain /\ chain.moves \in Nat
    BY DEF Shape
  <1>2. DOMAIN gate' = Check
    BY UncheckedGate DEF Shape
  <1>3. \A c \in Check : DOMAIN gate'[c] = {"verdict", "at"} /\ gate'[c].at \in 0 .. chain.moves
    BY <1>1, UncheckedGate DEF Shape
  <1> QED BY <1>1, <1>2, <1>3 DEF Shape, Fields

LEMMA Stopping ==
    ASSUME Kept, DOMAIN run' = Fields, run'.attempt \in Nat \ {0}, run'.pc = "stopped",
           UNCHANGED <<corridor, opened, chain, gate, ledger>>
    PROVE  Kept'
  <1>1. Shape'
    BY WellShaped DEF Kept
  <1>2. Booked'
    BY BookedStays DEF Kept
  <1>3. Unspent' /\ Enveloped' /\ Referred'
    BY DEF Unspent, Enveloped, Referred, Before
  <1>4. Watched'
    BY DEF Kept, Watched, Before
  <1> QED BY <1>1, <1>2, <1>3, <1>4 DEF Kept

LEMMA GoingAgain ==
    ASSUME Kept, run.pc \in Before, DOMAIN run' = Fields, run'.attempt \in Nat \ {0},
           run'.resumed = run.resumed, Again, UNCHANGED <<corridor, opened, chain, ledger>>
    PROVE  Kept'
  <1>0. run'.pc = "gate" /\ gate' = Unchecked /\ ~run.resumed /\ run'.code = run.code
    BY DEF Again
  <1>1. Shape'
    <2>1. run'.code = "none"
      BY <1>0 DEF Kept, Shape, Before
    <2> QED BY WellShaped, <1>0, <2>1 DEF Kept, Before
  <1>2. Booked'
    BY BookedStays DEF Kept
  <1>3. Enveloped' /\ Referred'
    BY <1>0 DEF Enveloped, Referred
  <1>4. Unspent'
    BY DEF Kept, Unspent, Ours
  <1>5. Watched'
    BY <1>0, UncheckedGate DEF Watched, Before
  <1> QED BY <1>1, <1>2, <1>3, <1>4, <1>5 DEF Kept

LEMMA Retrying ==
    ASSUME Kept, run.pc \in Before, Retry, UNCHANGED <<corridor, opened, chain, ledger>>
    PROVE  Kept'
  <1>1. /\ DOMAIN run' = Fields /\ run'.attempt \in Nat \ {0}
        /\ run'.resumed = run.resumed /\ (Again \/ GivenUp)
    BY PlainRetry DEF Kept
  <1>2. CASE Again
    BY <1>1, <1>2, GoingAgain
  <1>3. CASE GivenUp
    BY <1>1, <1>3, Stopping DEF GivenUp
  <1> QED BY <1>1, <1>2, <1>3

LEMMA Halting ==
    ASSUME Kept, NEW code, Stop(code), UNCHANGED <<corridor, opened, chain, gate, ledger>>
    PROVE  Kept'
  <1>1. DOMAIN run = Fields /\ run.attempt \in Nat \ {0}
    BY DEF Kept, Shape, Fields
  <1>2. DOMAIN run' = Fields /\ run'.attempt \in Nat \ {0} /\ run'.pc = "stopped"
    BY <1>1, StopRun
  <1> QED BY <1>2, Stopping

(* A step on towards the payment. *)
LEMMA Going ==
    ASSUME Kept, run.pc \in Before \/ (run.pc = "resume" /\ run.row # "settling"),
           NEW pc \in Before \ {"gate"}, Goto(pc),
           UNCHANGED <<corridor, opened, chain, gate, ledger>>,
           ~run.resumed => \A c \in corridor.checks : gate[c].verdict # None /\ gate[c].verdict.passed,
           run.resumed => pc \in {"preflight", "send"} /\ ~corridor.gated,
           ~run.resumed => run.pc \in Before,
           Enveloped'
    PROVE  Kept'
  <1>1. DOMAIN run = Fields /\ run.attempt \in Nat \ {0} /\ run.code = "none"
    BY DEF Kept, Shape, Fields, Before
  <1>2. /\ DOMAIN run' = Fields /\ run'.attempt = run.attempt /\ run'.pc = pc
        /\ run'.code = run.code /\ run'.resumed = run.resumed
    BY <1>1, GotoRun
  <1>3. Shape'
    BY <1>1, <1>2, WellShaped DEF Kept
  <1>4. Booked'
    BY BookedStays DEF Kept
  <1>5. Unspent'
    BY DEF Kept, Unspent, Ours
  <1>6. Referred'
    BY <1>2 DEF Referred, Before
  <1>7. Watched'
    <2>1. \A c \in Check : Holds(c)' = Holds(c)
      BY DEF Holds
    <2>2. \A c \in Check : gate[c].verdict # None =>
              /\ gate[c].verdict.code # "IDEMPOTENCY_CONFLICT"
              /\ /\ pc \in Before /\ ~run.resumed
                 /\ gate[c].verdict.passed /\ gate[c].at = chain.moves
                 => Holds(c)
      BY DEF Kept, Watched
    <2>3. pc # "resume"
      BY DEF Before
    <2> QED BY <1>2, <2>1, <2>2, <2>3 DEF Watched
  <1> QED BY <1>3, <1>4, <1>5, <1>6, <1>7 DEF Kept

(* A payment is referred to. *)
LEMMA Finding ==
    ASSUME Kept, NEW ref, run' = [run EXCEPT !.pc = "verify", !.ref = ref],
           run.pc \in Before \cup {"resume"},
           UNCHANGED <<corridor, opened, chain, gate, ledger>>,
           Referred'
    PROVE  Kept'
  <1>1. DOMAIN run = Fields /\ run.attempt \in Nat \ {0} /\ run.code = "none"
    BY DEF Kept, Shape, Fields, Before
  <1>2. /\ DOMAIN run' = Fields /\ run'.attempt = run.attempt /\ run'.pc = "verify"
        /\ run'.code = run.code /\ run'.resumed = run.resumed
    BY <1>1 DEF Fields
  <1>3. Shape'
    BY <1>1, <1>2, WellShaped DEF Kept
  <1>4. Booked'
    BY BookedStays DEF Kept
  <1>5. Unspent' /\ Enveloped'
    BY <1>2 DEF Unspent, Enveloped, Before
  <1>6. Watched'
    BY <1>2 DEF Kept, Watched, Before
  <1> QED BY <1>3, <1>4, <1>5, <1>6 DEF Kept

-----------------------------------------------------------------------------
(* The steps, one by one *)

LEMMA KeptByCheck ==
    ASSUME Kept, NEW c \in Check, RunCheck(c)
    PROVE  Kept'
  <1>1. PICK v : /\ \/ \E answer \in Answers(c) : v = Verdict(c, answer)
                    \/ v = Refused("SETTLEMENT_FAILED")
                 /\ gate' = [gate EXCEPT ![c] = [verdict |-> v, at |-> chain.moves]]
    BY DEF RunCheck
  <1>2. run.pc = "gate" /\ UNCHANGED <<corridor, opened, chain, run, env, ledger>>
    BY DEF RunCheck
  <1>3. v.code # "IDEMPOTENCY_CONFLICT" /\ (v.passed => Holds(c))
    BY <1>1, VerdictTrue DEF Refused
  <1>4. DOMAIN gate = Check /\ chain.moves \in Nat
    BY DEF Kept, Shape
  <1>5. DOMAIN gate' = Check /\ gate'[c] = [verdict |-> v, at |-> chain.moves]
    BY <1>1, <1>4
  <1>6. \A d \in Check \ {c} : gate'[d] = gate[d]
    BY <1>1, <1>4
  <1>7. Shape'
    <2>1. \A d \in Check : DOMAIN gate'[d] = {"verdict", "at"} /\ gate'[d].at \in 0 .. chain.moves
      BY <1>4, <1>5, <1>6 DEF Kept, Shape
    <2> QED BY <1>2, <1>5, <2>1 DEF Kept, Shape, Before
  <1>8. Booked'
    BY <1>2, BookedStays DEF Kept
  <1>9. Unspent' /\ Enveloped' /\ Referred'
    BY <1>2 DEF Kept, Unspent, Ours, Enveloped, Referred
  <1>10. Watched'
    <2>1. \A d \in Check : Holds(d)' = Holds(d)
      BY <1>2 DEF Holds
    <2>2. \A d \in Check : gate'[d].verdict # None =>
              /\ gate'[d].verdict.code # "IDEMPOTENCY_CONFLICT"
              /\ /\ run.pc \in Before /\ ~run.resumed
                 /\ gate'[d].verdict.passed /\ gate'[d].at = chain.moves
                 => Holds(d)
      BY <1>3, <1>5, <1>6 DEF Kept, Watched
    <2> QED BY <1>2, <2>1, <2>2 DEF Kept, Watched, Before
  <1> QED BY <1>7, <1>8, <1>9, <1>10 DEF Kept

LEMMA KeptByJudge ==
    ASSUME Kept, Judge
    PROVE  Kept'
  <1>1. /\ run.pc = "gate" /\ \A c \in corridor.checks : gate[c].verdict # None
        /\ UNCHANGED <<corridor, opened, chain, gate, ledger>>
    BY DEF Judge
  <1>2. CASE \E code : Stop(code)
    BY <1>1, <1>2, Halting
  <1>3. CASE (\A c \in corridor.checks : gate[c].verdict.passed) /\ Goto("lookup")
    <2>1. ~run.resumed
      BY <1>1 DEF Kept, Watched, Before
    <2>2. DOMAIN run = Fields
      BY DEF Kept, Shape, Fields
    <2>3. Enveloped'
      BY <1>3, <2>2, GotoRun DEF Enveloped
    <2> QED BY <1>1, <1>3, <2>1, <2>3, Going DEF Before
  <1> QED BY <1>2, <1>3 DEF Judge

LEMMA BookedApart ==
    ASSUME Kept, NEW t \in Existing, t.id = Others
    PROVE  opened.memo = None
  <1>1. t \in ledger /\ SameMemo(Request, t.memo)
    BY DEF Existing, IsExisting
  <1>2. t = Stranger
    BY <1>1 DEF Kept, Booked, Sent, Others
  <1>3. TypeOf(Request) # "none"
    BY OpeningsAssumption DEF OpeningsAssumption, Kept, Shape, TypeOf, Request
  <1>4. Request.memo = opened.memo
    BY DEF Request
  <1>5. t.memo = NoMemo
    BY <1>2 DEF Stranger
  <1> QED BY <1>1, <1>3, <1>4, <1>5 DEF SameMemo, NoMemo

LEMMA KeptByFinding ==
    ASSUME Kept, NEW t \in Existing, run' = [run EXCEPT !.pc = "verify", !.ref = t.id],
           run.pc \in Before \cup {"resume"},
           UNCHANGED <<corridor, opened, chain, gate, ledger>>
    PROVE  Kept'
  <1>1. t \in ledger /\ SameMemo(Request, t.memo)
    BY DEF Existing, IsExisting
  <1>2. run'.ref = t.id
    BY DEF Kept, Shape
  <1>3. Request' = Request
    BY DEF Request
  <1>4. Referred'
    BY <1>1, <1>2, <1>3, BookedApart DEF Referred
  <1> QED BY <1>4, Finding

LEMMA KeptByLookup ==
    ASSUME Kept, Lookup
    PROVE  Kept'
  <1>1. run.pc = "lookup" /\ UNCHANGED <<corridor, opened, chain, gate, ledger>>
    BY DEF Lookup
  <1>2. CASE Goto("settle")
    <2>1. /\ ~run.resumed
          /\ \A c \in corridor.checks : gate[c].verdict # None /\ gate[c].verdict.passed
      BY <1>1 DEF Kept, Watched, Before
    <2>2. DOMAIN run = Fields
      BY DEF Kept, Shape, Fields
    <2>3. Enveloped'
      BY <1>2, <2>2, GotoRun DEF Enveloped
    <2> QED BY <1>1, <1>2, <2>1, <2>3, Going DEF Before
  <1>3. CASE \E t \in Existing : run' = [run EXCEPT !.pc = "verify", !.ref = t.id]
    BY <1>1, <1>3, KeptByFinding DEF Before
  <1>4. CASE \E code : Stop(code)
    BY <1>1, <1>4, Halting
  <1> QED BY <1>2, <1>3, <1>4 DEF Lookup

LEMMA KeptByCrash ==
    ASSUME Kept, Crash
    PROVE  Kept'
  <1>1. /\ run.pc \in Underway /\ ~run.resumed
        /\ run' = [run EXCEPT !.pc = "resume", !.resumed = TRUE, !.ref = None,
                          !.row = IF run.pc = "gate" THEN "verifying" ELSE "settling"]
        /\ UNCHANGED <<corridor, opened, chain, gate, ledger>>
    BY DEF Crash
  <1>2. DOMAIN run = Fields /\ run.attempt \in Nat \ {0} /\ run.code = "none"
    BY <1>1 DEF Kept, Shape, Fields, Underway
  <1>3. /\ DOMAIN run' = Fields /\ run'.attempt = run.attempt /\ run'.pc = "resume"
        /\ run'.code = run.code /\ run'.resumed
        /\ run'.row # "settling" => run.pc = "gate"
    BY <1>1, <1>2 DEF Fields
  <1>4. Shape'
    BY <1>1, <1>2, <1>3, WellShaped DEF Kept
  <1>5. Booked'
    BY <1>1, BookedStays DEF Kept
  <1>6. Enveloped' /\ Referred'
    BY <1>3 DEF Enveloped, Referred
  <1>7. Unspent'
    BY <1>1, <1>3 DEF Kept, Unspent, Ours, Before
  <1>8. Watched'
    BY <1>1, <1>3 DEF Kept, Watched, Before
  <1> QED BY <1>4, <1>5, <1>6, <1>7, <1>8 DEF Kept

LEMMA KeptByResume ==
    ASSUME Kept, Resume
    PROVE  Kept'
  <1>1. run.pc = "resume" /\ UNCHANGED <<corridor, opened, chain, gate, ledger>>
    BY DEF Resume, Held
  <1>2. CASE \E t \in Existing : run' = [run EXCEPT !.pc = "verify", !.ref = t.id]
    BY <1>1, <1>2, KeptByFinding
  <1>3. CASE /\ opened.to # None /\ run.row # "settling" /\ ~corridor.gated
             /\ Goto("preflight")
    <2>2. run.resumed
      BY <1>1 DEF Kept, Watched
    <2>3. DOMAIN run = Fields
      BY DEF Kept, Shape, Fields
    <2>4. Enveloped'
      BY <1>1, <1>3, <2>3, GotoRun DEF Enveloped
    <2> QED BY <1>1, <1>3, <2>2, <2>4, Going DEF Before
  <1>4. CASE \E code : Stop(code)
    BY <1>1, <1>4, Halting
  <1> QED BY <1>2, <1>3, <1>4 DEF Resume, Held

(* What a settlement that is under way may rely on. *)
LEMMA PastTheGate ==
    ASSUME Kept, run.pc \in Before \ {"gate"}
    PROVE  /\ ~run.resumed => \A c \in corridor.checks :
                  gate[c].verdict # None /\ gate[c].verdict.passed
           /\ run.resumed => run.pc \in {"preflight", "send"} /\ ~corridor.gated
           /\ DOMAIN run = Fields
  BY DEF Kept, Watched, Shape, Fields

LEMMA KeptByAdapter ==
    ASSUME Kept, run.pc = "settle", SettleByAdapter,
           UNCHANGED <<corridor, opened, chain, ledger>>
    PROVE  Kept'
  <1>1. CASE run' = [run EXCEPT !.pc = "verify", !.ref = Adapters] /\ UNCHANGED gate
    <2>1. run'.ref = Adapters
      BY <1>1 DEF Kept, Shape
    <2>2. Referred'
      BY <2>1 DEF Referred, Adapters, Others
    <2> QED BY <1>1, <2>2, Finding DEF Before
  <1>2. CASE (\E code : Stop(code)) /\ UNCHANGED gate
    BY <1>2, Halting
  <1>3. CASE Retry
    BY <1>3, Retrying DEF Before
  <1> QED BY <1>1, <1>2, <1>3 DEF SettleByAdapter

LEMMA KeptByClaim ==
    ASSUME Kept, run.pc = "settle", SettleByClaim,
           UNCHANGED <<corridor, opened, chain, ledger>>
    PROVE  Kept'
  <1>1. UNCHANGED gate
    BY DEF SettleByClaim
  <1>2. CASE \E code : Stop(code)
    BY <1>1, <1>2, Halting
  <1>3. CASE Goto("send") /\ env' = [Plain EXCEPT !.kind = "claimable", !.to = Claimant]
    <2>1. env'.kind = "claimable" /\ env'.to = Claimant
      BY <1>3 DEF Plain
    <2>2. Claimant' = Claimant
      BY DEF Claimant
    <2>3. run'.pc = "send"
      BY <1>3, PastTheGate, GotoRun DEF Before
    <2>4. Enveloped'
      BY <2>1, <2>2, <2>3 DEF Enveloped
    <2> QED BY <1>1, <1>3, <2>4, PastTheGate, Going DEF Before
  <1> QED BY <1>2, <1>3 DEF SettleByClaim

LEMMA KeptBySettle ==
    ASSUME Kept, Settle
    PROVE  Kept'
  <1>1. run.pc = "settle" /\ UNCHANGED <<corridor, opened, chain, ledger>>
    BY DEF Settle
  <1>2. CASE SettleByAdapter
    BY <1>1, <1>2, KeptByAdapter
  <1>3. CASE SettleByClaim
    BY <1>1, <1>3, KeptByClaim
  <1>4. CASE (Fits("payment") \/ Fits("path")) /\ Goto("preflight") /\ UNCHANGED <<gate, env>>
    <2>1. opened.to # None
      BY <1>4, OpeningsAssumption DEF OpeningsAssumption, Fits, Kept, Shape
    <2>2. run'.pc = "preflight"
      BY <1>1, <1>4, PastTheGate, GotoRun DEF Before
    <2>3. Enveloped'
      BY <1>1, <2>1, <2>2 DEF Enveloped
    <2> QED BY <1>1, <1>4, <2>3, PastTheGate, Going DEF Before
  <1>5. CASE Stop("SETTLEMENT_FAILED") /\ UNCHANGED <<gate, env>>
    BY <1>1, <1>5, Halting
  <1> QED BY <1>2, <1>3, <1>4, <1>5 DEF Settle

LEMMA KeptByPreflight ==
    ASSUME Kept, Preflight
    PROVE  Kept'
  <1>1. run.pc = "preflight" /\ UNCHANGED <<corridor, opened, chain, ledger>>
    BY DEF Preflight
  <1>2. CASE (\E code : Stop(code)) /\ UNCHANGED gate
    BY <1>1, <1>2, Halting
  <1>3. CASE Retry
    BY <1>1, <1>3, Retrying DEF Before
  <1>4. CASE Goto("send") /\ env' = Plain /\ UNCHANGED gate
    <2>1. env'.kind = "payment" /\ env'.to = opened.to /\ opened.to # None
      BY <1>1, <1>4 DEF Plain, Kept, Enveloped
    <2>2. run'.pc = "send"
      BY <1>1, <1>4, PastTheGate, GotoRun DEF Before
    <2>3. Enveloped'
      BY <1>1, <2>1, <2>2 DEF Enveloped
    <2> QED BY <1>1, <1>4, <2>3, PastTheGate, Going DEF Before
  <1>5. CASE Goto("route") /\ ~run.resumed /\ needsPathPayment(corridor) /\ UNCHANGED gate
    <2>1. opened.to # None
      BY <1>1 DEF Kept, Enveloped
    <2>2. run'.pc = "route"
      BY <1>1, <1>5, PastTheGate, GotoRun DEF Before
    <2>3. Enveloped'
      BY <1>1, <1>5, <2>1, <2>2 DEF Enveloped
    <2> QED BY <1>1, <1>5, <2>3, PastTheGate, Going DEF Before
  <1> QED BY <1>2, <1>3, <1>4, <1>5 DEF Preflight

(* The floor loses no more than the slippage.                              *)
LEMMA SlippageFloor ==
    ASSUME NEW expected \in Int, NEW bps, applySlippage(expected, bps) # None
    PROVE  /\ bps \in Int
           /\ applySlippage(expected, bps) \in Nat \ {0}
           /\ applySlippage(expected, bps) * BpsUnit >= expected * (BpsUnit - bps)
  <1> DEFINE product == expected * (BpsUnit - bps)
             rounded == (product + BpsUnit - 1) \div BpsUnit
  <1>1. BpsUnit \in Nat \ {0}
    BY HorizonAssumption DEF HorizonAssumption
  <1>2. expected > 0 /\ bps \in 0 .. BpsUnit - 1 /\ applySlippage(expected, bps) = rounded
    BY DEF applySlippage
  <1>3. product \in Nat \ {0}
    <2> DEFINE kept == BpsUnit - bps
    <2>1. kept \in Nat \ {0}
      BY <1>1, <1>2
    <2>2. product = expected * kept
      OBVIOUS
    <2> HIDE DEF kept, product
    <2>3. expected \in Nat \ {0}
      BY <1>2
    <2>4. \A a, b \in Nat \ {0} : a * b \in Nat \ {0}
      OBVIOUS
    <2> QED BY <2>1, <2>2, <2>3, <2>4
  <1> HIDE DEF product
  <1>4. rounded \in Int /\ rounded * BpsUnit >= product
    BY <1>1, <1>3
  <1>5. rounded > 0
    BY <1>1, <1>3, <1>4
  <1> QED BY <1>1, <1>2, <1>4, <1>5 DEF product

(* The best of the offers is one of them, and none delivers more.          *)
LEMMA BestOffer ==
    ASSUME NEW paths \in Routes, NEW best, best = bestStrictSendPath(paths), best # None
    PROVE  best \in paths /\ best \in Int /\ \A q \in paths : q <= best
  <1>1. paths \subseteq Int /\ \E p \in paths : \A q \in paths : q <= p
    BY AmountAssumption DEF AmountAssumption, bestStrictSendPath
  <1>2. best = CHOOSE p \in paths : \A q \in paths : q <= p
    BY DEF bestStrictSendPath
  <1> QED BY <1>1, <1>2

LEMMA KeptByRoute ==
    ASSUME Kept, Route
    PROVE  Kept'
  <1> DEFINE best == bestStrictSendPath(chain.routes)
             destMin == IF best = None THEN None ELSE applySlippage(best, corridor.bps)
             floor == MinDest(opened, corridor)
  <1>1. run.pc = "route" /\ UNCHANGED <<corridor, opened, chain, ledger>>
    BY DEF Route
  <1>2. CASE Retry
    BY <1>1, <1>2, Retrying DEF Before
  <1>3. CASE (\E code : Stop(code)) /\ UNCHANGED gate
    BY <1>1, <1>3, Halting
  <1>4. CASE /\ destMin # None /\ Reaches(destMin, floor)
             /\ Goto("send")
             /\ env' = [kind |-> "path", to |-> opened.to, destMin |-> destMin,
                        quoted |-> best]
             /\ UNCHANGED gate
    <2>1. best \in Int
      BY <1>4, BestOffer DEF Kept, Shape
    <2>2. /\ corridor.bps \in Int /\ destMin \in Nat \ {0}
          /\ destMin * BpsUnit >= best * (BpsUnit - corridor.bps)
      BY <1>4, <2>1, SlippageFloor
    <2>4. Reaches(destMin, floor)
      BY <1>4
    <2>5. needsPathPayment(corridor)
      BY <1>1 DEF Kept, Enveloped
    <2> HIDE DEF best, destMin
    <2>6. /\ env'.kind = "path" /\ env'.to = opened.to /\ env'.destMin = destMin
          /\ env'.quoted = best
      BY <1>4
    <2>7. floor' = floor
      BY <1>1 DEF MinDest
    <2> HIDE DEF floor
    <2>8. Floored(env)'
      BY <1>1, <2>1, <2>2, <2>4, <2>5, <2>6, <2>7 DEF Floored, floor
    <2>9. run'.pc = "send"
      BY <1>1, <1>4, PastTheGate, GotoRun DEF Before
    <2>10. Enveloped'
      BY <1>1, <2>6, <2>8, <2>9 DEF Enveloped
    <2>11. ~run.resumed
      BY <1>1, PastTheGate DEF Before
    <2> QED BY <1>1, <1>4, <2>10, <2>11, PastTheGate, Going DEF Before
  <1>5. \/ Retry
        \/ (\E code : Stop(code)) /\ UNCHANGED gate
        \/ /\ destMin # None /\ Reaches(destMin, floor)
           /\ Goto("send")
           /\ env' = [kind |-> "path", to |-> opened.to, destMin |-> destMin,
                      quoted |-> best]
           /\ UNCHANGED gate
    BY DEF Route
  <1> QED BY <1>2, <1>3, <1>4, <1>5

LEMMA KeptBySendFails ==
    ASSUME Kept, SendFails
    PROVE  Kept'
  BY Retrying DEF SendFails, Before

(* What the chain writes out is read as the same amount, so what exceeds   *)
(* an amount that reaches a floor reaches it.                              *)
LEMMA ReachesMore ==
    ASSUME NEW a \in Int, NEW b \in Int, b >= a, NEW floor,
           floor # None => toScaled(floor) \in Int \cup {None}, Reaches(a, floor)
    PROVE  Reaches(b, floor)
  <1>1. \A v \in Int : toScaled(Written(v)) = v
    <2>1. SUFFICES ASSUME NEW v \in Int PROVE toScaled(Written(v)) = v
      OBVIOUS
    <2>2. Scale \in Nat /\ 10 ^ 0 = 1
      BY MoneyAssumption, DecimalAssumption DEF MoneyAssumption, DecimalAssumption
    <2>3. Written(v) \in [m : Int, d : Int] /\ Written(v).m = v /\ Written(v).d = Scale
      BY <2>2 DEF Written
    <2>4. isValidAmount(Written(v))
      BY <2>3, DecimalAssumption DEF DecimalAssumption, isValidAmount
    <2>5. toScaled(Written(v)) = v * 10 ^ (Scale - Scale)
      BY <2>2, <2>3, <2>4 DEF toScaled
    <2>6. Scale - Scale = 0
      BY <2>2
    <2> QED BY <2>2, <2>5, <2>6
  <1>2. None \notin Int
    BY MoneyAssumption DEF MoneyAssumption
  <1> QED BY <1>1, <1>2 DEF Reaches, compareAmounts

(* What lands is what the opened transaction asks for.                     *)
LEMMA LandsAsAsked ==
    ASSUME Kept, run.pc = "send", buildMemo(Request) # None, Obstacles = {}
    PROVE  Sent(Payment)
  <1>1. /\ Payment.id = Submission /\ Payment.kind = env.kind /\ Payment.to = env.to
        /\ Payment.asset = DeliveredAsset /\ Payment.amount = Delivery
        /\ Payment.sent = toScaled(Amount) /\ Payment.memo = buildMemo(Request)
        /\ Payment.quoted = env.quoted
    BY DEF Payment
  <1>2. /\ env.kind \in {"payment", "claimable", "path"}
        /\ env.kind = "payment" => env.to = opened.to /\ opened.to # None
        /\ env.to \in {opened.to, Claimant}
        /\ env.kind = "path" => Floored(env)
    BY DEF Kept, Enveloped
  <1>3. Submission \in Nat \ {0} /\ chain.routes \in Routes
    BY SettleAssumption DEF SettleAssumption, Submission, Kept, Shape
  <1>4. env.kind # "path" => DeliveredAsset = SentAsset
    BY DEF DeliveredAsset
  <1>5. env.kind = "payment" => Delivery = toScaled(Amount)
    BY DEF Delivery
  <1>6. CASE env.kind = "path"
    <2>1. Floored(env)
      BY <1>2, <1>6
    <2>2. DeliveredAsset = bridgeAsset(corridor.receive) /\ Delivery = bestStrictSendPath(chain.routes)
      BY <1>6 DEF DeliveredAsset, Delivery
    <2>3. ~Stops("under_dest_min")
      BY DEF Obstacles, Reasons
    <2>4. chain.routes \subseteq Int
      BY <1>3, AmountAssumption DEF AmountAssumption
    <2>5. PICK p \in chain.routes : p >= env.destMin
      BY <1>6, <2>1, <2>3, <2>4 DEF Stops, Floored
    <2>6. p > 0 /\ p \in Int
      BY <2>1, <2>4, <2>5 DEF Floored
    <2>7. Delivery \in chain.routes /\ \A q \in chain.routes : q <= Delivery
      <3>1. chain.routes # {} /\ \E x \in chain.routes : \A q \in chain.routes : q <= x
        BY <1>3, <2>5, AmountAssumption DEF AmountAssumption
      <3>2. Delivery = CHOOSE x \in chain.routes : \A q \in chain.routes : q <= x
        BY <2>2, <2>6 DEF bestStrictSendPath
      <3> QED BY <3>1, <3>2
    <2>8. Delivery \in Int /\ Delivery >= env.destMin
      BY <2>1, <2>4, <2>5, <2>6, <2>7 DEF Floored
    <2>9. Delivery * BpsUnit >= env.destMin * BpsUnit
      <3>1. BpsUnit \in Nat /\ env.destMin \in Int
        BY <2>1, HorizonAssumption DEF HorizonAssumption, Floored
      <3>2. \A a, b \in Int, n \in Nat : a >= b => a * n >= b * n
        OBVIOUS
      <3> QED BY <2>8, <3>1, <3>2
    <2>10. Delivery * BpsUnit >= env.quoted * (BpsUnit - corridor.bps)
      <3>1. env.destMin * BpsUnit >= env.quoted * (BpsUnit - corridor.bps)
        BY <2>1 DEF Floored
      <3> DEFINE x == Delivery * BpsUnit
                 y == env.destMin * BpsUnit
                 kept == BpsUnit - corridor.bps
                 z == env.quoted * kept
      <3>2. BpsUnit \in Int /\ env.destMin \in Int /\ corridor.bps \in Int /\ env.quoted \in Int
        BY <2>1, HorizonAssumption DEF HorizonAssumption, Floored
      <3>3. kept \in Int
        BY <3>2
      <3>4. x \in Int /\ y \in Int
        BY <2>8, <3>2
      <3> HIDE DEF kept
      <3>5. z \in Int
        BY <3>2, <3>3
      <3>6. x >= y /\ y >= z
        BY <2>9, <3>1 DEF kept
      <3> HIDE DEF x, y, z
      <3>7. x >= z
        BY <3>4, <3>5, <3>6
      <3> QED BY <3>7 DEF x, z, kept
    <2>11. Reaches(Delivery, MinDest(opened, corridor))
      <3>1. MinDest(opened, corridor) # None =>
                toScaled(MinDest(opened, corridor)) \in Int \cup {None}
        BY AmountAssumption DEF AmountAssumption, MinDest, Kept, Shape
      <3>2. env.destMin \in Int /\ Reaches(env.destMin, MinDest(opened, corridor))
        BY <2>1 DEF Floored
      <3> QED BY <2>8, <3>1, <3>2, ReachesMore
    <2>12. needsPathPayment(corridor)
      BY <2>1 DEF Floored
    <2> QED BY <1>1, <1>2, <1>3, <1>6, <2>2, <2>10, <2>11, <2>12 DEF Sent
  <1>7. CASE env.kind # "path"
    BY <1>1, <1>2, <1>3, <1>4, <1>5, <1>7 DEF Sent
  <1> QED BY <1>6, <1>7

LEMMA KeptByLand ==
    ASSUME Kept, Land
    PROVE  Kept'
  <1>1. /\ run.pc = "send" /\ buildMemo(Request) # None /\ Obstacles = {}
        /\ ledger' = ledger \cup {Payment}
        /\ chain' = [chain EXCEPT !.us = Spent]
        /\ corridor' = corridor /\ opened' = opened /\ gate' = gate
    BY DEF Land
  <1>2. DOMAIN run = Fields /\ run.attempt \in Nat \ {0} /\ run.code = "none"
    BY <1>1 DEF Kept, Shape, Fields
  <1>3. /\ DOMAIN run' = Fields /\ run'.attempt = run.attempt
        /\ \/ run'.pc = "verify" /\ run'.ref = Submission /\ run'.code = "none"
           \/ run'.pc = "stopped"
    <2>1. CASE run' = [run EXCEPT !.pc = "verify", !.ref = Submission]
      BY <1>2, <2>1 DEF Fields
    <2>2. CASE Stop("SETTLEMENT_TIMEOUT")
      BY <1>2, <2>2, StopRun
    <2> QED BY <2>1, <2>2 DEF Land
  <1>4. /\ DOMAIN chain' = DOMAIN chain /\ chain'.moves = chain.moves
        /\ chain'.routes = chain.routes /\ chain'.them = chain.them
    BY <1>1 DEF Kept, Shape
  <1>5. Shape'
    BY <1>1, <1>2, <1>3, <1>4 DEF Kept, Shape, Fields
  <1>6. Unspent' /\ Enveloped'
    BY <1>3 DEF Unspent, Enveloped, Before
  <1>7. Watched'
    BY <1>1, <1>3 DEF Kept, Watched, Before
  <1>8. Stranger' = Stranger /\ Request' = Request /\ (\A t : Sent(t)' = Sent(t))
    BY <1>1 DEF Stranger, SentAsset, Sent, Claimant, Request, MinDest
  <1>9. Booked'
    <2>0. PaidOnce'
      <3>1. Ours = {}
        BY <1>1 DEF Kept, Unspent, Before
      <3>2. Ours' \subseteq {Payment}
        BY <1>1, <3>1 DEF Ours
      <3> QED BY <3>2 DEF PaidOnce
    <2>1. SUFFICES ASSUME NEW t \in ledger' PROVE t = Stranger \/ Sent(t)
      BY <1>8, <2>0 DEF Booked
    <2>2. t = Payment \/ t \in ledger
      BY <1>1
    <2> QED BY <1>1, <2>2, LandsAsAsked DEF Kept, Booked
  <1>10. Referred'
    <2>1. SUFFICES ASSUME run'.pc = "verify" PROVE Referred'
      BY <1>3 DEF Referred
    <2>2. Payment \in ledger' /\ Payment.id = Submission /\ Payment.memo = buildMemo(Request)
      BY <1>1 DEF Payment
    <2>3. run'.ref = Submission /\ run'.ref # Others
      BY <1>2, <1>3, <2>1, SettleAssumption DEF SettleAssumption, Submission, Others
    <2> QED BY <1>1, <1>8, <2>2, <2>3 DEF Referred
  <1> QED BY <1>5, <1>6, <1>7, <1>9, <1>10 DEF Kept

LEMMA KeptByReject ==
    ASSUME Kept, Reject
    PROVE  Kept'
  <1> DEFINE rejected ==
          [kind |-> env.kind, why |-> Obstacles,
           foreseen |-> \A c \in {"balance", "destination"} :
                           c \in corridor.checks /\ gate[c].at = chain.moves]
             r == [run EXCEPT !.rejected = rejected]
  <1>1. run.pc = "send" /\ RetryAs(r) /\ UNCHANGED <<corridor, opened, chain, ledger>>
    BY DEF Reject
  <1>2. DOMAIN run = Fields /\ run.attempt \in Nat \ {0}
    BY DEF Kept, Shape, Fields
  <1> HIDE DEF rejected
  <1>3. DOMAIN r = Fields /\ r.attempt = run.attempt /\ r.code = run.code
        /\ r.resumed = run.resumed
    BY <1>2 DEF Fields
  <1> HIDE DEF r
  <1>4. /\ DOMAIN run' = Fields /\ run'.attempt \in Nat \ {0}
        /\ run'.resumed = run.resumed /\ (Again \/ GivenUp)
    BY <1>1, <1>2, <1>3, RetryRun
  <1>5. CASE Again
    BY <1>1, <1>4, <1>5, GoingAgain DEF Before
  <1>6. CASE GivenUp
    BY <1>1, <1>4, <1>6, Stopping DEF GivenUp
  <1> QED BY <1>4, <1>5, <1>6

LEMMA KeptByVanish ==
    ASSUME Kept, Vanish
    PROVE  Kept'
  BY Halting DEF Vanish

LEMMA KeptByVerify ==
    ASSUME Kept, Verify
    PROVE  Kept'
  <1>1. run.pc = "verify" /\ UNCHANGED <<corridor, opened, chain, gate, ledger>>
    BY DEF Verify
  <1>2. DOMAIN run = Fields /\ run.attempt \in Nat \ {0} /\ run.code = "none"
    BY <1>1 DEF Kept, Shape, Fields
  <1>3. CASE \E code : Stop(code)
    BY <1>1, <1>3, Halting
  <1>4. CASE Goto("settled")
    <2>1. /\ DOMAIN run' = Fields /\ run'.attempt = run.attempt /\ run'.pc = "settled"
          /\ run'.code = "none" /\ run'.ref = run.ref
      BY <1>2, <1>4, GotoRun
    <2>2. Shape'
      BY <1>1, <1>2, <2>1, WellShaped DEF Kept
    <2>3. Booked'
      BY <1>1, BookedStays DEF Kept
    <2>4. Unspent' /\ Enveloped'
      BY <2>1 DEF Unspent, Enveloped, Before
    <2>5. Watched'
      BY <1>1, <2>1 DEF Kept, Watched, Before
    <2>6. Request' = Request
      BY <1>1 DEF Request
    <2>7. Referred'
      BY <1>1, <2>1, <2>6 DEF Kept, Referred
    <2> QED BY <2>2, <2>3, <2>4, <2>5, <2>7 DEF Kept
  <1> QED BY <1>3, <1>4 DEF Verify

LEMMA KeptByMove ==
    ASSUME Kept, Move
    PROVE  Kept'
  <1>1. UNCHANGED <<corridor, opened, gate, run, env, ledger>>
    BY DEF Move
  <1>2. DOMAIN chain = {"us", "them", "routes", "root", "toml", "quoteDead", "moves"}
        /\ chain.moves \in Nat /\ chain.routes \in Routes /\ chain.them \in TheirAccounts
    BY DEF Kept, Shape
  <1>3. /\ DOMAIN chain' = DOMAIN chain /\ chain'.moves = chain.moves + 1
        /\ chain'.routes \in Routes /\ chain'.us \in OurAccounts \cup {chain.us}
        /\ chain'.them \in TheirAccounts
    BY <1>2 DEF Move
  <1>4. \A c \in Check : gate[c].at \in 0 .. chain.moves
    BY DEF Kept, Shape
  <1>5. \A c \in Check : gate[c].at \in 0 .. chain'.moves /\ gate[c].at # chain'.moves
    BY <1>2, <1>3, <1>4
  <1>6. Shape'
    BY <1>1, <1>2, <1>3, <1>5 DEF Kept, Shape
  <1>7. Booked'
    BY <1>1, BookedStays DEF Kept
  <1>8. Unspent'
    BY <1>1, <1>3 DEF Kept, Unspent, Ours
  <1>9. Enveloped' /\ Referred'
    <2>1. Request' = Request /\ Claimant' = Claimant /\ Floored(env)' = Floored(env)
      BY <1>1 DEF Request, Claimant, Floored, MinDest
    <2> QED BY <1>1, <2>1 DEF Kept, Enveloped, Referred
  <1>10. Watched'
    BY <1>1, <1>5 DEF Kept, Watched
  <1> QED BY <1>6, <1>7, <1>8, <1>9, <1>10 DEF Kept

LEMMA KeptFirst == Init => Kept
  <1> SUFFICES ASSUME Init PROVE Kept
    OBVIOUS
  <1>1. /\ run = [pc |-> "gate", attempt |-> 1, code |-> "none", ref |-> None,
                  row |-> "opened", resumed |-> FALSE, rejected |-> None]
        /\ gate = Unchecked /\ corridor \in Corridors /\ opened \in Openings
        /\ ledger \in {{}, {Stranger}}
    BY DEF Init
  <1>2. /\ chain.us \in OurAccounts /\ chain.routes \in Routes /\ chain.moves = 0
        /\ chain.them \in TheirAccounts
        /\ DOMAIN chain = {"us", "them", "routes", "root", "toml", "quoteDead", "moves"}
    BY DEF Init
  <1>3. Shape
    BY <1>1, <1>2, UncheckedGate DEF Shape, Before
  <1>4. Unspent /\ Enveloped /\ Booked /\ Referred
    <2>1. Ours = {}
      BY <1>1 DEF Ours, Stranger
    <2> QED BY <1>1, <1>2, <2>1 DEF Unspent, Enveloped, Booked, PaidOnce, Referred
  <1>5. Watched
    BY <1>1, UncheckedGate DEF Watched, Before
  <1> QED BY <1>3, <1>4, <1>5 DEF Kept

LEMMA KeptByStutter ==
    ASSUME Kept, UNCHANGED vars
    PROVE  Kept'
  <1>1. UNCHANGED <<corridor, opened, chain, gate, run, env, ledger>>
    BY DEF vars
  <1>2. Shape' /\ Unspent'
    BY <1>1 DEF Kept, Shape, Unspent, Ours
  <1>3. Booked'
    BY <1>1, BookedStays DEF Kept
  <1>4. Enveloped' /\ Referred'
    <2>1. Request' = Request /\ Claimant' = Claimant /\ Floored(env)' = Floored(env)
      BY <1>1 DEF Request, Claimant, Floored, MinDest
    <2> QED BY <1>1, <2>1 DEF Kept, Enveloped, Referred
  <1>5. Watched'
    <2>1. \A c \in Check : Holds(c)' = Holds(c)
      BY <1>1 DEF Holds
    <2> QED BY <1>1, <2>1 DEF Kept, Watched
  <1> QED BY <1>2, <1>3, <1>4, <1>5 DEF Kept

LEMMA KeptNext == Kept /\ [Next]_vars => Kept'
  <1> SUFFICES ASSUME Kept, [Next]_vars PROVE Kept'
    OBVIOUS
  <1>1. ASSUME NEW c \in Check, RunCheck(c) PROVE Kept'
    BY <1>1, KeptByCheck
  <1>2. CASE Judge BY <1>2, KeptByJudge
  <1>3. CASE Lookup BY <1>3, KeptByLookup
  <1>4. CASE Crash BY <1>4, KeptByCrash
  <1>5. CASE Resume BY <1>5, KeptByResume
  <1>6. CASE Settle BY <1>6, KeptBySettle
  <1>7. CASE Preflight BY <1>7, KeptByPreflight
  <1>8. CASE Route BY <1>8, KeptByRoute
  <1>9. CASE SendFails BY <1>9, KeptBySendFails
  <1>10. CASE Land BY <1>10, KeptByLand
  <1>11. CASE Reject BY <1>11, KeptByReject
  <1>12. CASE Vanish BY <1>12, KeptByVanish
  <1>13. CASE Verify BY <1>13, KeptByVerify
  <1>14. CASE Move BY <1>14, KeptByMove
  <1>15. CASE UNCHANGED vars BY <1>15, KeptByStutter
  <1> QED BY <1>1, <1>2, <1>3, <1>4, <1>5, <1>6, <1>7, <1>8, <1>9, <1>10, <1>11, <1>12,
             <1>13, <1>14, <1>15 DEF Next

(* Nothing but a payment of this run or a stranger's is on the ledger, and *)
(* the gate's verdicts, the envelope and the reference are what Kept says. *)
THEOREM SettlementKept == Spec => []Kept
  BY KeptFirst, KeptNext, PTL DEF Spec

-----------------------------------------------------------------------------
(* The gate foresees *)

LEMMA Foresight ==
    ASSUME Kept, run.pc = "send", env.kind = "payment",
           \A c \in {"balance", "destination"} :
               c \in corridor.checks /\ gate[c].at = chain.moves,
           Spelt
    PROVE  Obstacles \cap {"no_fee", "underfunded", "src_no_trust", "no_destination",
                           "no_trust", "not_authorized"} = {}
  <1>1. corridor \in Corridors /\ chain.us \in OurAccounts /\ run.pc \in Before
    BY DEF Kept, Shape, Unspent, Before
  <1>2. ~run.resumed
    <2>1. corridor.checks # {}
      OBVIOUS
    <2>2. ~corridor.gated => corridor.checks = {}
      BY <1>1, SettleAssumption DEF SettleAssumption
    <2> QED BY <1>1, <2>1, <2>2 DEF Kept, Watched
  <1>3. \A c \in {"balance", "destination"} : c \in Check /\ gate[c].verdict # None
                                              /\ gate[c].verdict.passed
    BY <1>1, <1>2 DEF Kept, Watched, Before, Check
  <1>4. Holds("balance") /\ Holds("destination")
    BY <1>1, <1>2, <1>3 DEF Kept, Watched
  <1>5. ~Stops("no_fee") /\ ~Stops("underfunded") /\ ~Stops("src_no_trust")
    BY <1>1, <1>4, FundsThere DEF Kept
  <1>6. ~Stops("no_destination") /\ ~Stops("no_trust") /\ ~Stops("not_authorized")
    BY <1>4, PayeeThere DEF Kept
  <1> QED BY <1>5, <1>6 DEF Obstacles

LEMMA ForeseesNext == Kept /\ GateForesees /\ [Next]_vars => GateForesees'
  <1> SUFFICES ASSUME Kept, GateForesees, [Next]_vars PROVE GateForesees'
    OBVIOUS
  <1>1. DOMAIN run = Fields /\ run.attempt \in Nat \ {0}
    BY DEF Kept, Shape, Fields
  <1>0. Spelt' = Spelt
    BY DEF Next, RunCheck, Judge, Lookup, Crash, Resume, Held, Settle, Preflight, Route, SendFails,
           Land, Reject, Vanish, Verify, Move, vars, Spelt
  <1>2. CASE run'.rejected = run.rejected
    BY <1>0, <1>2 DEF GateForesees
  <1>3. CASE Reject
    <2> DEFINE rejected ==
            [kind |-> env.kind, why |-> Obstacles,
             foreseen |-> \A c \in {"balance", "destination"} :
                             c \in corridor.checks /\ gate[c].at = chain.moves]
               r == [run EXCEPT !.rejected = rejected]
    <2>1. run.pc = "send" /\ RetryAs(r)
      BY <1>3 DEF Reject
    <2>2. /\ rejected.kind = env.kind /\ rejected.why = Obstacles
          /\ rejected.foreseen = (\A c \in {"balance", "destination"} :
                                     c \in corridor.checks /\ gate[c].at = chain.moves)
      OBVIOUS
    <2> HIDE DEF rejected
    <2>3. DOMAIN r = Fields /\ r.attempt = run.attempt /\ r.code = run.code
          /\ r.rejected = rejected
      BY <1>1 DEF Fields
    <2> HIDE DEF r
    <2>4. run'.rejected = rejected
      BY <1>1, <2>1, <2>3, RetryRun
    <2> QED BY <1>0, <2>1, <2>2, <2>4, Foresight DEF GateForesees
  <1>4. ASSUME \/ \E c \in Check : RunCheck(c)
               \/ Judge \/ Lookup \/ Crash \/ Resume \/ SendFails \/ Land \/ Vanish
               \/ Verify \/ Move \/ UNCHANGED vars
        PROVE  run'.rejected = run.rejected
    <2>1. CASE \E pc : Goto(pc)
      BY <1>1, <2>1, GotoRun
    <2>2. CASE \E code : Stop(code)
      BY <1>1, <2>2, StopRun
    <2>3. CASE \E ref : run' = [run EXCEPT !.pc = "verify", !.ref = ref]
      BY <1>1, <2>3 DEF Fields
    <2>4. CASE Retry
      BY <2>4, PlainRetry DEF Kept
    <2>5. CASE Crash
      BY <1>1, <2>5 DEF Crash, Fields
    <2>6. CASE UNCHANGED run
      BY <2>6
    <2>7. ASSUME NEW c \in Check, RunCheck(c) PROVE UNCHANGED run
      BY <2>7 DEF RunCheck
    <2>8. Move \/ UNCHANGED vars => UNCHANGED run
      BY DEF Move, vars
    <2>9. SendFails => Retry
      BY DEF SendFails
    <2>10. Judge \/ Vanish \/ Verify => (\E pc : Goto(pc)) \/ (\E code : Stop(code))
      BY DEF Judge, Vanish, Verify
    <2>11. Lookup \/ Resume \/ Land => \/ \E pc : Goto(pc)
                                       \/ \E code : Stop(code)
                                       \/ \E ref : run' = [run EXCEPT !.pc = "verify", !.ref = ref]
      BY DEF Lookup, Resume, Held, Land
    <2> QED BY <1>4, <2>1, <2>2, <2>3, <2>4, <2>5, <2>6, <2>7, <2>8, <2>9, <2>10, <2>11
  <1>5. ASSUME Settle \/ Preflight \/ Route
        PROVE  run'.rejected = run.rejected
    <2>1. CASE \E pc : Goto(pc)
      BY <1>1, <2>1, GotoRun
    <2>2. CASE \E code : Stop(code)
      BY <1>1, <2>2, StopRun
    <2>3. CASE \E ref : run' = [run EXCEPT !.pc = "verify", !.ref = ref]
      BY <1>1, <2>3 DEF Fields
    <2>4. CASE Retry
      BY <2>4, PlainRetry DEF Kept
    <2>5. Settle => \/ \E pc : Goto(pc)
                    \/ \E code : Stop(code)
                    \/ \E ref : run' = [run EXCEPT !.pc = "verify", !.ref = ref]
                    \/ Retry
      BY DEF Settle, SettleByAdapter, SettleByClaim
    <2>6. Preflight \/ Route => (\E pc : Goto(pc)) \/ (\E code : Stop(code)) \/ Retry
      BY DEF Preflight, Route
    <2> QED BY <1>5, <2>1, <2>2, <2>3, <2>4, <2>5, <2>6
  <1> QED BY <1>2, <1>3, <1>4, <1>5 DEF Next

(* In a corridor that spells its bridge asset as the chain does (Spelt), a *)
(* plain payment that passed the balance and the destination check is not  *)
(* rejected for the funds, the fee, the reserve, the account or its        *)
(* trustline while the chain is the one the checks saw, whatever the       *)
(* accounts hold (stellar/src/index.ts:1670-1688, 1923-1940).              *)
THEOREM GateHasForesight == Spec => []GateForesees
  <1>1. Init => GateForesees
    BY DEF Init, GateForesees
  <1> QED BY <1>1, ForeseesNext, SettlementKept, PTL DEF Spec

-----------------------------------------------------------------------------
(* A run finds what it sent *)

LEMMA OwnIsFound ==
    ASSUME Kept, Existing = {}, NEW t \in Ours
    PROVE  Unfindable(t)
  <1> SUFFICES ASSUME t.kind = "payment",
                      isNative(corridor.bridge) => isXlm(corridor.bridge)
               PROVE  opened.memo # None /\ TypeOf(Request) = "id"
                      /\ opened.memo.form # "canonical"
    BY DEF Unfindable
  <1>1. t \in ledger /\ t.id # Others
    BY DEF Ours
  <1>2. Sent(t)
    <2>1. Stranger.id = Others
      BY DEF Stranger
    <2> QED BY <1>1, <2>1 DEF Kept, Booked
  <1>3. /\ t.to = opened.to /\ opened.to # None /\ t.asset = SentAsset
        /\ t.amount = toScaled(Amount) /\ t.memo = buildMemo(Request)
        /\ buildMemo(Request) # None
    BY <1>2 DEF Sent
  <1>4. /\ Request.to = opened.to /\ Request.memo = opened.memo /\ Request.amount = Amount
        /\ TypeOf(Request) = TypeOf(opened)
    BY DEF Request, TypeOf
  <1>5. IF isNative(corridor.bridge) THEN isXlm(t.asset) ELSE Names(corridor.bridge, t.asset)
    BY <1>3, HorizonAssumption
       DEF HorizonAssumption, SentAsset, bridgeAsset, isXlm, isNative, Native, Names
  <1>6. compareAmounts(Written(t.amount), Request.amount) = 0
    <2>1. toScaled(Amount) \in Nat /\ toScaled(Written(toScaled(Amount))) = toScaled(Amount)
      BY AmountAssumption DEF AmountAssumption
    <2>2. None \notin Int
      BY MoneyAssumption DEF MoneyAssumption
    <2> QED BY <1>3, <1>4, <2>1, <2>2 DEF compareAmounts
  <1>7. ~SameMemo(Request, t.memo)
    BY <1>1, <1>3, <1>4, <1>5, <1>6 DEF Existing, IsExisting
  <1>8. opened.memo # None
    BY <1>3, <1>4, <1>7 DEF SameMemo, buildMemo
  <1>9. /\ opened.memo.form # "unfit"
        /\ t.memo = [type |-> TypeOf(Request), content |-> Request.memo.content]
    BY <1>3, <1>4, <1>8 DEF buildMemo
  <1>10. TypeOf(Request) # "hash" /\ opened.memo.form # "canonical"
    BY <1>4, <1>7, <1>8, <1>9 DEF SameMemo
  <1>11. TypeOf(opened) \in {"id", "hash"}
    BY <1>8, <1>9, <1>10, OpeningsAssumption DEF OpeningsAssumption, Kept, Shape
  <1> QED BY <1>3, <1>4, <1>8, <1>10, <1>11

LEMMA FindsNext == Kept /\ FindsWhatItSent /\ [Next]_vars => FindsWhatItSent'
  <1> SUFFICES ASSUME Kept, FindsWhatItSent, [Next]_vars PROVE FindsWhatItSent'
    OBVIOUS
  <1> DEFINE Left == \A t \in Ours : Unfindable(t)
  <1>1. DOMAIN run = Fields /\ run.attempt \in Nat \ {0}
    BY DEF Kept, Shape, Fields
  <1>2. Kept'
    BY KeptNext
  <1>3. run'.pc = "settled" /\ run'.ref = Others => opened'.memo = None
    BY <1>2 DEF Kept, Referred
  <1>4. corridor' = corridor /\ opened' = opened /\ Request' = Request
    BY DEF Next, RunCheck, Judge, Lookup, Crash, Resume, Held, Settle, Preflight, Route, SendFails,
           Land, Reject, Vanish, Verify, Move, vars, Request
  <1>5. SUFFICES ASSUME run'.code = "IDEMPOTENCY_CONFLICT" PROVE Left'
    BY <1>3 DEF FindsWhatItSent
  <1>6. CASE run.pc = "stopped"
    <2>1. run' = run /\ ledger' = ledger
      BY <1>6 DEF Next, RunCheck, Judge, Lookup, Crash, Resume, Held, Settle, Preflight, Route,
                  SendFails, Land, Reject, Vanish, Verify, Move, vars, Underway
    <2> QED BY <1>4, <1>5, <2>1 DEF FindsWhatItSent, Ours, Unfindable
  <1>7. CASE run.pc # "stopped"
    <2>1. run.code = "none"
      BY <1>7 DEF Kept, Shape
    <2>2. run'.code # run.code
      BY <1>5, <2>1
    <2>3. \A code : Stop(code) => run'.code = code
      BY <1>1, StopRun
    <2>4. ~\E pc : Goto(pc)
      BY <1>1, <2>2, GotoRun
    <2>5. ~\E ref : run' = [run EXCEPT !.pc = "verify", !.ref = ref]
      BY <1>1, <2>2 DEF Fields
    <2>6. ~Retry
      BY <1>5, <2>2, PlainRetry DEF Kept, Again, GivenUp
    <2>7. ~UNCHANGED run
      BY <2>2
    <2>8. ~\E code : code # "IDEMPOTENCY_CONFLICT" /\ Stop(code)
      BY <1>5, <2>3
    <2>9. ~(\E c \in Check : RunCheck(c)) /\ ~Move /\ ~UNCHANGED vars
      BY <2>7 DEF RunCheck, Move, vars
    <2>10. ~Judge
      <3>1. SUFFICES ASSUME Judge PROVE FALSE
        OBVIOUS
      <3>2. PICK c \in corridor.checks : Stop(gate[c].verdict.code)
        BY <2>4, <3>1 DEF Judge
      <3>3. c \in Check /\ gate[c].verdict # None
        BY <3>1, SettleAssumption DEF SettleAssumption, Judge, Kept, Shape
      <3> QED BY <2>8, <3>2, <3>3 DEF Kept, Watched
    <2>11. ~Lookup
      BY <2>4, <2>5, <2>8 DEF Lookup
    <2>12. ~Crash
      BY <1>1, <2>2 DEF Crash, Fields
    <2>13. ~Settle
      BY <2>4, <2>5, <2>6, <2>8 DEF Settle, SettleByAdapter, SettleByClaim
    <2>14. ~Preflight /\ ~Route
      BY <2>4, <2>6, <2>8 DEF Preflight, Route
    <2>15. ~SendFails /\ ~Vanish
      BY <2>6, <2>8 DEF SendFails, Vanish
    <2>16. ~Land
      BY <2>5, <2>8 DEF Land
    <2>17. ~Verify
      BY <2>4, <2>8 DEF Verify, createChainVerifier
    <2>18. ~Reject
      <3> DEFINE rejected ==
              [kind |-> env.kind, why |-> Obstacles,
               foreseen |-> \A c \in {"balance", "destination"} :
                               c \in corridor.checks /\ gate[c].at = chain.moves]
                 r == [run EXCEPT !.rejected = rejected]
      <3>1. SUFFICES ASSUME RetryAs(r) PROVE FALSE
        BY DEF Reject
      <3> HIDE DEF rejected
      <3>2. DOMAIN r = Fields /\ r.attempt = run.attempt /\ r.code = run.code
        BY <1>1 DEF Fields
      <3> HIDE DEF r
      <3>3. Again \/ GivenUp
        BY <1>1, <3>1, <3>2, RetryRun
      <3> QED BY <1>5, <2>2, <3>3 DEF Again, GivenUp
    <2>19. Resume
      BY <2>9, <2>10, <2>11, <2>12, <2>13, <2>14, <2>15, <2>16, <2>17, <2>18 DEF Next
    <2>20. ledger' = ledger /\ (opened.to = None \/ Existing = {})
      BY <2>5, <2>8, <2>19 DEF Resume, Held
    <2>21. opened.to = None => \A t \in Ours : t.kind # "payment"
      BY DEF Ours, Kept, Booked, Sent, Stranger
    <2>22. Left
      BY <2>20, <2>21, OwnIsFound DEF Unfindable
    <2> QED BY <1>4, <2>20, <2>22 DEF Ours, Unfindable
  <1> QED BY <1>6, <1>7

(* A run that crashed and is given up has no payment of its own on the     *)
(* ledger but one of those that no lookup finds: a claimable balance, a    *)
(* path payment, one of a bridge asset called "native", or one with an id  *)
(* whose leading zeros the chain does not write; and it goes on from       *)
(* another run's payment only where there is no memo (run.ts:1493-1524).   *)
THEOREM CrashFindsPayment == Spec => []FindsWhatItSent
  <1>1. Init => FindsWhatItSent
    BY DEF Init, FindsWhatItSent
  <1> QED BY <1>1, FindsNext, SettlementKept, PTL DEF Spec

(* Found or not, what a run sent is not sent again: over failed attempts,  *)
(* a crash at any step and the resumption, at most one payment of its own  *)
(* is on the ledger (run.ts:1519-1522).                                    *)
THEOREM SettlesOnce == Spec => []PaidOnce
  <1>1. Kept => PaidOnce
    BY DEF Kept, Booked
  <1> QED BY <1>1, SettlementKept, PTL

-----------------------------------------------------------------------------
(* What is settled was delivered *)

(* A corridor without a verifier pays directly, and the memo is one that   *)
(* the chain gives back as it was written: not an id with leading zeros.   *)
Accountable ==
    \A c \in Corridors :
        c.verify \/ /\ ~needsPathPayment(c)
                    /\ \A o \in Openings : o.memo # None =>
                          TypeOf(o) = "hash" \/ o.memo.form \in {"canonical", "unfit"}

(* A payment on the ledger that the run goes on from. *)
WasAsked(t) ==
    /\ t.id = run.ref
    /\ t.to \in {opened.to, Claimant} /\ SameMemo(Request, t.memo)
    /\ t.sent = toScaled(Amount)
    /\ t.asset = bridgeAsset(IF corridor.receive = None THEN corridor.bridge
                             ELSE corridor.receive)
    /\ t.kind = "path" =>
          /\ t.amount * BpsUnit >= t.quoted * (BpsUnit - corridor.bps)
          /\ Reaches(t.amount, MinDest(opened, corridor))

LEMMA DirectAsset ==
    ASSUME ~needsPathPayment(corridor)
    PROVE  SentAsset = bridgeAsset(IF corridor.receive = None THEN corridor.bridge
                                   ELSE corridor.receive)
  BY DEF SentAsset, bridgeAsset, needsPathPayment, isXlm

LEMMA OnLedger ==
    ASSUME Kept, NEW t \in ledger
    PROVE  /\ t.to \in {opened.to, Claimant} /\ t.sent = toScaled(Amount)
           /\ t.kind # "path" => t.asset = SentAsset
           /\ t.kind = "path" =>
                 /\ needsPathPayment(corridor) /\ t.asset = bridgeAsset(corridor.receive)
                 /\ t.amount * BpsUnit >= t.quoted * (BpsUnit - corridor.bps)
                 /\ Reaches(t.amount, MinDest(opened, corridor))
  <1>1. CASE t = Stranger
    BY <1>1 DEF Stranger
  <1>2. CASE Sent(t)
    BY <1>2 DEF Sent
  <1> QED BY <1>1, <1>2 DEF Kept, Booked

LEMMA VerifiedAnswers ==
    ASSUME Kept, NEW t \in ledger, t.id = run.ref,
           verifySettlementFacts(t, Request, corridor)
    PROVE  WasAsked(t)
  <1>1. /\ t.kind = (IF needsPathPayment(corridor) THEN "path" ELSE "payment")
        /\ SameMemo(Request, t.memo)
    BY DEF verifySettlementFacts
  <1>2. CASE needsPathPayment(corridor)
    <2>1. corridor.receive # None
      BY <1>2 DEF needsPathPayment
    <2> QED BY <1>1, <1>2, <2>1, OnLedger DEF WasAsked
  <1>3. CASE ~needsPathPayment(corridor)
    BY <1>1, <1>3, OnLedger, DirectAsset DEF WasAsked
  <1> QED BY <1>2, <1>3

LEMMA UnverifiedAnswers ==
    ASSUME Accountable, Kept, run.pc = "verify", ~corridor.verify, run.ref # Adapters
    PROVE  \E t \in ledger : WasAsked(t)
  <1>1. PICK t \in ledger :
            /\ t.id = run.ref
            /\ \/ t.memo = buildMemo(Request) /\ buildMemo(Request) # None
               \/ SameMemo(Request, t.memo)
    BY DEF Kept, Referred
  <1>2. /\ ~needsPathPayment(corridor)
        /\ opened.memo # None =>
              TypeOf(opened) = "hash" \/ opened.memo.form \in {"canonical", "unfit"}
    BY DEF Accountable, Kept, Shape
  <1>3. Request.memo = opened.memo /\ TypeOf(Request) = TypeOf(opened)
    BY DEF Request, TypeOf
  <1>4. SameMemo(Request, t.memo)
    BY <1>1, <1>2, <1>3 DEF SameMemo, buildMemo
  <1>5. WasAsked(t)
    BY <1>1, <1>2, <1>4, OnLedger, DirectAsset DEF WasAsked
  <1> QED BY <1>5

LEMMA DeliveredNext ==
    ASSUME Accountable
    PROVE  Kept /\ Delivered /\ [Next]_vars => Delivered'
  <1> SUFFICES ASSUME Kept, Delivered, [Next]_vars, run'.pc = "settled", run'.ref # Adapters
               PROVE  (\E t \in ledger : WasAsked(t))'
    BY DEF Delivered, WasAsked
  <1>1. DOMAIN run = Fields /\ run.attempt \in Nat \ {0}
    BY DEF Kept, Shape, Fields
  <1>2. corridor' = corridor /\ opened' = opened
    BY DEF Next, RunCheck, Judge, Lookup, Crash, Resume, Held, Settle, Preflight, Route, SendFails,
           Land, Reject, Vanish, Verify, Move, vars
  <1>3. CASE run.pc = "settled"
    <2>1. run' = run /\ ledger' = ledger
      BY <1>3 DEF Next, RunCheck, Judge, Lookup, Crash, Resume, Held, Settle, Preflight, Route,
                  SendFails, Land, Reject, Vanish, Verify, Move, vars, Underway
    <2>2. PICK t \in ledger : WasAsked(t)
      BY <1>3, <2>1 DEF Delivered, WasAsked
    <2>3. WasAsked(t)'
      BY <1>2, <2>1, <2>2 DEF WasAsked, Claimant, Request, MinDest
    <2> QED BY <2>1, <2>3
  <1>4. CASE run.pc # "settled"
    <2>1. \A pc : Goto(pc) => run'.pc = pc
      BY <1>1, GotoRun
    <2>2. \A code : Stop(code) => run'.pc = "stopped"
      BY <1>1, StopRun
    <2>3. ~\E code : Stop(code)
      BY <2>2
    <2>4. ~\E pc : pc # "settled" /\ Goto(pc)
      BY <2>1
    <2>5. ~\E ref : run' = [run EXCEPT !.pc = "verify", !.ref = ref]
      BY <1>1 DEF Fields
    <2>6. ~Retry
      BY PlainRetry DEF Kept, Again, GivenUp
    <2>7. ~UNCHANGED run
      BY <1>4
    <2>8. ~(\E c \in Check : RunCheck(c)) /\ ~Move /\ ~UNCHANGED vars
      BY <2>7 DEF RunCheck, Move, vars
    <2>9. ~Judge /\ ~Lookup /\ ~Resume /\ ~Land /\ ~SendFails /\ ~Vanish
      BY <2>3, <2>4, <2>5, <2>6 DEF Judge, Lookup, Resume, Held, Land, SendFails, Vanish
    <2>10. ~Crash
      BY <1>1 DEF Crash, Fields
    <2>11. ~Settle
      BY <2>3, <2>4, <2>5, <2>6 DEF Settle, SettleByAdapter, SettleByClaim
    <2>12. ~Preflight /\ ~Route
      BY <2>3, <2>4, <2>6 DEF Preflight, Route
    <2>13. ~Reject
      <3> DEFINE rejected ==
              [kind |-> env.kind, why |-> Obstacles,
               foreseen |-> \A c \in {"balance", "destination"} :
                               c \in corridor.checks /\ gate[c].at = chain.moves]
                 r == [run EXCEPT !.rejected = rejected]
      <3>1. SUFFICES ASSUME RetryAs(r) PROVE FALSE
        BY DEF Reject
      <3> HIDE DEF rejected
      <3>2. DOMAIN r = Fields /\ r.attempt = run.attempt /\ r.code = run.code
        BY <1>1 DEF Fields
      <3> HIDE DEF r
      <3>3. Again \/ GivenUp
        BY <1>1, <3>1, <3>2, RetryRun
      <3> QED BY <3>3 DEF Again, GivenUp
    <2>14. Verify
      BY <2>8, <2>9, <2>10, <2>11, <2>12, <2>13 DEF Next
    <2>15. run.pc = "verify" /\ Goto("settled") /\ ledger' = ledger
      BY <2>3, <2>14 DEF Verify
    <2>16. run'.ref = run.ref
      BY <1>1, <2>15, GotoRun
    <2>17. \E t \in ledger : WasAsked(t)
      <3>1. CASE ~corridor.verify
        BY <2>15, <2>16, <3>1, UnverifiedAnswers
      <3>2. CASE corridor.verify
        <4>1. PICK t \in ledger :
                  /\ t.id = run.ref
                  /\ \E facts \in settlementFacts(t) :
                        createChainVerifier(facts, Request, corridor) = "none"
          BY <2>3, <2>14, <2>16, <3>2 DEF Verify
        <4>2. verifySettlementFacts(t, Request, corridor)
          BY <4>1 DEF settlementFacts, createChainVerifier
        <4> QED BY <4>1, <4>2, VerifiedAnswers
      <3> QED BY <3>1, <3>2
    <2>18. PICK t \in ledger : WasAsked(t)
      BY <2>17
    <2>19. WasAsked(t)'
      BY <1>2, <2>16, <2>18 DEF WasAsked, Claimant, Request, MinDest
    <2> QED BY <2>15, <2>19
  <1> QED BY <1>3, <1>4

(* A settlement that a run goes on from is on the ledger: to the anchor's  *)
(* address, with its memo, of the quoted amount, in the asset it receives, *)
(* and above the floor that the quote and the anchor set.  Without a       *)
(* verifier only of a direct payment whose memo the chain gives back as it *)
(* was (ports.ts:165-181, stellar/src/index.ts:488-499, 1056-1061).        *)
THEOREM SettledIsDelivered ==
    ASSUME Accountable
    PROVE  Spec => []Delivered
  <1>1. Init => Delivered
    BY DEF Init, Delivered
  <1> QED BY <1>1, DeliveredNext, SettlementKept, PTL DEF Spec

=============================================================================
