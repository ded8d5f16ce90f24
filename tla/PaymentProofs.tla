----------------------------- MODULE PaymentProofs -----------------------------
(***************************************************************************)
(* What stands between a request and the chain: one payment's quote, its   *)
(* opening and its gate, for any bodies an anchor may answer, any amounts  *)
(* and bounds and any order of answers; and the breaker of its lane, for   *)
(* any runs, threshold and store.                                          *)
(*                                                                         *)
(*   QuotesAddUp      writing a number out and reading it back is the      *)
(*                    identity (RoundTrip), each of the check's two        *)
(*                    products is rounded by half a unit at most           *)
(*                    (RoundingError), and what passed the check is kept   *)
(*                    (Quoted)                                             *)
(*   OpenedSomewhere  an adapter that answers with an account read one     *)
(*   PaysOnEvidence   a check whose read is on its way has no verdict, so  *)
(*                    none that passed has a read that could still change  *)
(*                    (Judged); a token is there where one was needed      *)
(*                    (Tokened)                                            *)
(*   FailuresHalt,    the store's counter is the streak of failures since  *)
(*   HaltsAreSeen     the last success or reset, however many replicas     *)
(*                    write it, because a statement of either store reads  *)
(*                    and writes the row in one step; and a counter that   *)
(*                    reached the threshold has the lane open              *)
(***************************************************************************)
EXTENDS Payment, Lane, WellFoundedInduction, TLAPS

-----------------------------------------------------------------------------
(* Decimals *)

(* A multiple of n between 0 and n is 0. *)
LEMMA NoMultipleBelow ==
    ASSUME NEW n \in Nat \ {0}, NEW k \in Int, 0 <= n * k, n * k < n
    PROVE  k = 0
<1>1. CASE k >= 1
  <2>1. n * k = n + n * (k - 1) /\ n * (k - 1) >= 0
    BY <1>1
  <2>2. QED
    BY <2>1
<1>2. CASE k <= -1
  <2>1. n * k = -n + n * (k + 1) /\ n * (k + 1) <= 0
    BY <1>2
  <2>2. QED
    BY <2>1
<1>3. QED
  BY <1>1, <1>2

LEMMA Division ==
    ASSUME NEW v \in Int, NEW n \in Nat \ {0}
    PROVE  /\ v \div n \in Int /\ v % n \in 0 .. n - 1
           /\ v = n * (v \div n) + (v % n)
<1>1. v \div n \in Int
  OBVIOUS
<1>2. v % n \in 0 .. n - 1
  OBVIOUS
<1>3. v % n = v - n * (v \div n)
  BY SMTT(30)
<1> DEFINE w == n * (v \div n)
           r == v % n
<1>4. w \in Int /\ r \in Int /\ r = v - w
  BY <1>1, <1>2, <1>3
<1> HIDE DEF w, r
<1>5. v = w + r
  BY <1>4
<1>6. QED
  BY <1>1, <1>2, <1>5 DEF w, r

(* What n divides, it divides without its sign too. *)
LEMMA SignlessDivision ==
    ASSUME NEW v \in Int, NEW n \in Nat \ {0}, v % n = 0
    PROVE  /\ Abs(v) \in Nat /\ Abs(v) \div n \in Int
           /\ n * (Abs(v) \div n) = Abs(v)
<1>1. v \div n \in Int /\ v = n * (v \div n)
  BY Division
<1>2. CASE v >= 0
  BY <1>1, <1>2 DEF Abs
<1>3. CASE v < 0
  <2> DEFINE q == v \div n
             p == (-v) \div n
             r == (-v) % n
  <2>1. q \in Int /\ p \in Int /\ r \in 0 .. n - 1 /\ -v = n * p + r
    BY <1>1, Division
  <2>2. -v = n * (-q)
    BY <1>1, <2>1
  <2> HIDE DEF q, p, r
  <2>3. r = n * (-q - p)
    BY <2>1, <2>2
  <2>4. -q - p = 0
    BY <2>1, <2>3, NoMultipleBelow
  <2>5. n * p = -v
    BY <2>1, <2>2, <2>4
  <2>6. Abs(v) = -v
    BY <1>3 DEF Abs
  <2>7. QED
    BY <2>1, <2>5, <2>6, <1>3 DEF p
<1>4. QED
  BY <1>2, <1>3

(* The fewest decimals that an amount can be written with. *)
LEMMA FewestDecimals ==
    ASSUME NEW v \in Int
    PROVE  \E k \in 0 .. Scale :
              /\ v % 10 ^ (Scale - k) = 0
              /\ \A j \in 0 .. k - 1 : v % 10 ^ (Scale - j) # 0
<1> DEFINE T == {k \in 0 .. Scale : v % 10 ^ (Scale - k) = 0}
<1>1. Scale \in T
  <2>1. Scale \in Nat /\ Scale - Scale = 0 /\ 10 ^ 0 = 1
    BY MoneyAssumption, DecimalAssumption
  <2>2. 10 ^ (Scale - Scale) = 1
    BY <2>1
  <2>3. v % 1 = 0
    OBVIOUS
  <2>4. QED
    BY <2>1, <2>2, <2>3
<1>2. T \subseteq Nat /\ T # {}
  BY <1>1
<1> HIDE DEF T
<1> DEFINE Below == {ss \in Nat \X Nat : ss[1] < ss[2]}
<1>3. IsWellFoundedOn(Below, Nat)
  BY NatLessThanWellFounded, Zenon DEF OpToRel
<1>4. PICK k \in T : \A j \in T : ~(<<j, k>> \in Below)
  <2> HIDE DEF Below
  <2>1. QED
    BY <1>2, <1>3, WFMin, Zenon
<1>5. \A j \in T : ~(j < k)
  BY <1>2, <1>4
<1>6. QED
  <2>1. k \in 0 .. Scale /\ v % 10 ^ (Scale - k) = 0
    BY <1>4 DEF T
  <2>2. ASSUME NEW j \in 0 .. k - 1 PROVE v % 10 ^ (Scale - j) # 0
    <3>1. j \in 0 .. Scale /\ j < k
      BY <2>1, MoneyAssumption
    <3>2. QED
      BY <1>5, <3>1 DEF T
  <2>3. QED
    BY <2>1, <2>2

LEMMA FromScaled ==
    ASSUME NEW v \in Int
    PROVE  \E d \in 0 .. Scale :
              /\ fromScaled(v).d = d /\ fromScaled(v) \in [m : Int, d : Int]
              /\ fromScaled(v).m * 10 ^ (Scale - d) = v
              /\ 10 ^ (Scale - d) \in Nat \ {0}
<1> DEFINE Fits(k) == /\ v % 10 ^ (Scale - k) = 0
                      /\ \A j \in 0 .. k - 1 : v % 10 ^ (Scale - j) # 0
           d == CHOOSE k \in 0 .. Scale : Fits(k)
           n == 10 ^ (Scale - d)
           sign == IF v < 0 THEN -1 ELSE 1
           q == Abs(v) \div n
<1>1. d \in 0 .. Scale /\ Fits(d)
  BY FewestDecimals, Zenon
<1>2. n \in Nat \ {0} /\ v % n = 0
  <2>1. Scale - d \in 0 .. Scale
    <3> HIDE DEF d
    <3>1. QED
      BY <1>1, MoneyAssumption
  <2>2. n \in Nat \ {0}
    BY <2>1, DecimalAssumption
  <2>3. QED
    BY <1>1, <2>2
<1>3. fromScaled(v) = [m |-> sign * q, d |-> d]
  BY Zenon DEF fromScaled
<1> HIDE DEF d, n
<1>4. Abs(v) \in Nat /\ q \in Int /\ n * q = Abs(v)
  BY <1>2, SignlessDivision
<1> HIDE DEF q
<1>5. sign * q \in Int /\ sign * q * n = v
  <2>1. CASE v < 0
    <3>1. sign = -1 /\ n * q = -v
      BY <2>1, <1>4 DEF Abs
    <3>2. (-1 * q) * n = -(n * q)
      BY <1>2, <1>4
    <3>3. QED
      BY <1>4, <3>1, <3>2
  <2>2. CASE ~(v < 0)
    <3>1. sign = 1 /\ n * q = v
      BY <2>2, <1>4 DEF Abs
    <3>2. (1 * q) * n = n * q
      BY <1>2, <1>4
    <3>3. QED
      BY <1>4, <3>1, <3>2
  <2>3. QED
    BY <2>1, <2>2
<1>6. n = 10 ^ (Scale - d) /\ d \in Int
  BY <1>1, MoneyAssumption DEF n
<1>7. QED
  BY <1>1, <1>2, <1>3, <1>5, <1>6

(* Writing a number out and reading it loses nothing (money.ts).           *)
LEMMA RoundTrip ==
    ASSUME NEW v \in Int
    PROVE  toScaled(fromScaled(v)) = v
<1>1. PICK d \in 0 .. Scale :
          /\ fromScaled(v).d = d /\ fromScaled(v) \in [m : Int, d : Int]
          /\ fromScaled(v).m * 10 ^ (Scale - d) = v
          /\ 10 ^ (Scale - d) \in Nat \ {0}
  BY FromScaled
<1>2. isValidAmount(fromScaled(v))
  BY <1>1, DecimalAssumption DEF isValidAmount
<1>3. QED
  BY <1>1, <1>2, MoneyAssumption DEF toScaled

(* A decimal without its sign is the number without its sign. *)
LEMMA Magnitude ==
    ASSUME NEW v \in Int
    PROVE  toScaled([fromScaled(v) EXCEPT !.m = Abs(@)]) = Abs(v)
<1>1. PICK d \in 0 .. Scale :
          /\ fromScaled(v).d = d /\ fromScaled(v) \in [m : Int, d : Int]
          /\ fromScaled(v).m * 10 ^ (Scale - d) = v
          /\ 10 ^ (Scale - d) \in Nat \ {0}
  BY FromScaled
<1> DEFINE k == fromScaled(v).m
           n == 10 ^ (Scale - d)
           a == [fromScaled(v) EXCEPT !.m = Abs(@)]
<1>2. k \in Int /\ n \in Nat \ {0} /\ k * n = v
  BY <1>1
<1>3. a.m = Abs(k) /\ a.d = d /\ a \in [m : Int, d : Int]
  BY <1>1 DEF Abs
<1>4. Abs(k) * n = Abs(v)
  <2> HIDE DEF k, n
  <2>1. CASE k < 0
    <3>1. (-k) * n = -(k * n)
      BY <1>2
    <3>2. k * n < 0
      BY <1>2, <2>1
    <3>3. QED
      BY <1>2, <2>1, <3>1, <3>2 DEF Abs
  <2>2. CASE ~(k < 0)
    <3>1. ~(k * n < 0)
      BY <1>2, <2>2
    <3>2. QED
      BY <1>2, <2>2, <3>1 DEF Abs
  <2>3. QED
    BY <2>1, <2>2
<1>5. isValidAmount(a)
  BY <1>3, DecimalAssumption DEF isValidAmount
<1> HIDE DEF a
<1>6. toScaled(a) = Abs(v)
  BY <1>3, <1>4, <1>5, MoneyAssumption DEF toScaled
<1>7. QED
  BY <1>6 DEF a

(* A rounded quotient is off by half a unit at most. *)
LEMMA RoundingError ==
    ASSUME NEW p \in Int, NEW u \in Nat \ {0}
    PROVE  /\ Rounded(p, u) \in Int
           /\ 2 * (u * Rounded(p, u) - p) \in -u .. u
<1> DEFINE h == u \div 2
<1>1. h \in Nat /\ 2 * h <= u /\ u <= 2 * h + 1
  <2>1. h \in Int /\ u % 2 \in 0 .. 1 /\ u = 2 * h + (u % 2)
    BY Division
  <2> DEFINE r == u % 2
  <2> HIDE DEF h, r
  <2>2. r \in 0 .. 1 /\ u = 2 * h + r
    BY <2>1 DEF r
  <2>3. QED
    BY <2>1, <2>2
<1> HIDE DEF h
<1>2. ASSUME NEW x \in Nat
      PROVE  /\ (x + h) \div u \in Int
             /\ 2 * (u * ((x + h) \div u) - x) \in -u .. u
  <2> DEFINE q == (x + h) \div u
             r == (x + h) % u
  <2>1. q \in Int /\ r \in 0 .. u - 1 /\ x + h = u * q + r
    <3>1. x + h \in Int
      BY <1>1
    <3>2. QED
      BY <3>1, Division
  <2> HIDE DEF q, r
  <2> DEFINE w == u * q
  <2>2. w \in Int /\ w = x + h - r
    BY <1>1, <2>1
  <2> HIDE DEF w
  <2>3. 2 * (w - x) \in -u .. u
    BY <1>1, <2>1, <2>2
  <2>4. QED
    BY <2>1, <2>3 DEF w, q
<1>3. CASE p >= 0
  <2>1. Rounded(p, u) = (p + h) \div u
    BY <1>3 DEF Rounded, h
  <2>2. QED
    BY <1>2, <1>3, <2>1
<1>4. CASE p < 0
  <2> DEFINE q == (-p + h) \div u
  <2>1. Rounded(p, u) = -q
    BY <1>4 DEF Rounded, h
  <2>2. q \in Int /\ 2 * (u * q - (-p)) \in -u .. u
    BY <1>2, <1>4
  <2> HIDE DEF q
  <2> DEFINE w == u * q
  <2>3. w \in Int /\ u * (-q) = -w
    BY <2>2
  <2>4. 2 * (w + p) \in -u .. u
    BY <2>2
  <2> HIDE DEF w
  <2>5. 2 * (-w - p) \in -u .. u
    BY <2>3, <2>4
  <2>6. QED
    BY <2>1, <2>2, <2>3, <2>5
<1>5. QED
  BY <1>3, <1>4

(* The two roundings of the cross-check add up to one unit. *)
LEMMA RoundingsAddUp ==
    ASSUME NEW F \in Nat \ {0}, NEW BP \in Int, NEW S \in Int, NEW ST \in Int,
           Abs(Rounded(BP, F) - S) <= Rounded(ST, F)
    PROVE  Abs(BP - S * F) <= ST + F
<1> DEFINE i == Rounded(BP, F)
           t == Rounded(ST, F)
<1>1. /\ i \in Int /\ 2 * (F * i - BP) \in -F .. F
      /\ t \in Int /\ 2 * (F * t - ST) \in -F .. F
  BY RoundingError
<1>2. i - S <= t /\ S - i <= t
  <2> HIDE DEF i, t
  <2>1. Abs(i - S) <= t
    BY DEF i, t
  <2>2. QED
    BY <1>1, <2>1 DEF Abs
<1> HIDE DEF i, t
<1>3. F * i - S * F <= F * t /\ S * F - F * i <= F * t
  <2>1. F * (t - (i - S)) >= 0 /\ F * (t - (S - i)) >= 0
    BY <1>1, <1>2
  <2>2. QED
    BY <1>1, <2>1
<1> DEFINE x == F * i
           y == F * t
           z == S * F
<1>4. x \in Int /\ y \in Int /\ z \in Int
  BY <1>1
<1>5. x - z <= y /\ z - x <= y /\ 2 * (x - BP) \in -F .. F /\ 2 * (y - ST) \in -F .. F
  BY <1>1, <1>3
<1> HIDE DEF x, y, z
<1>6. Abs(BP - z) <= ST + F
  BY <1>4, <1>5 DEF Abs
<1>7. QED
  BY <1>6 DEF z

LEMMA FactorTyped == Factor \in Nat \ {0}
<1>1. Scale \in 0 .. Scale
  BY MoneyAssumption
<1>2. QED
  BY <1>1, DecimalAssumption DEF Factor

(* What toScaled makes a number of is an amount. *)
LEMMA ScaledIsValid ==
    ASSUME NEW a, toScaled(a) \in Int
    PROVE  isValidAmount(a) /\ a # None
<1>1. toScaled(a) # None
  BY MoneyAssumption
<1>2. QED
  BY <1>1 DEF toScaled, isValidAmount

LEMMA ToleranceTyped == toScaled(Tolerance) \in Int
<1>1. Tolerance \in [m : Int, d : Int] /\ Tolerance.d \in 0 .. Scale
  BY KitAssumption DEF KitAssumption
<1>2. isValidAmount(Tolerance)
  BY <1>1, DecimalAssumption DEF isValidAmount
<1>3. Scale - Tolerance.d \in 0 .. Scale /\ Tolerance.d <= Scale
  BY <1>1, MoneyAssumption
<1>4. 10 ^ (Scale - Tolerance.d) \in Nat
  BY <1>3, DecimalAssumption
<1>5. QED
  BY <1>1, <1>2, <1>3, <1>4 DEF toScaled

-----------------------------------------------------------------------------
(* Quotes *)

(* What applyPrice computes, where it computes anything. *)
LEMMA PriceApplied ==
    ASSUME NEW a, NEW b, toScaled(a) \in Int, toScaled(b) \in Int
    PROVE  /\ Rounded(toScaled(a) * toScaled(b), Factor) \in Int
           /\ applyPrice(a, b) = fromScaled(Rounded(toScaled(a) * toScaled(b), Factor))
           /\ toScaled(applyPrice(a, b)) = Rounded(toScaled(a) * toScaled(b), Factor)
<1>1. toScaled(a) * toScaled(b) \in Int
  OBVIOUS
<1>2. Rounded(toScaled(a) * toScaled(b), Factor) \in Int
  BY <1>1, FactorTyped, RoundingError
<1>3. applyPrice(a, b) = fromScaled(Rounded(toScaled(a) * toScaled(b), Factor))
  BY MoneyAssumption DEF applyPrice
<1>4. QED
  BY <1>2, <1>3, RoundTrip

(* A price that passes the cross-check agrees with the amounts, up to the  *)
(* tolerance and one unit.                                                 *)
LEMMA CrossCheck ==
    ASSUME NEW price, NEW buy, NEW sell,
           toScaled(price) \in Int, toScaled(buy) \in Int, toScaled(sell) \in Int,
           ~totalPriceProblem(price, buy, sell)
    PROVE  Abs(toScaled(buy) * toScaled(price) - toScaled(sell) * Factor)
              <= toScaled(sell) * toScaled(Tolerance) + Factor
<1> DEFINE BP == toScaled(buy) * toScaled(price)
           S == toScaled(sell)
           ST == toScaled(sell) * toScaled(Tolerance)
           implied == applyPrice(buy, price)
           drift == subAmounts(implied, sell)
           tolerance == applyPrice(sell, Tolerance)
           i == Rounded(BP, Factor)
           t == Rounded(ST, Factor)
<1>1. BP \in Int /\ S \in Int /\ ST \in Int
  BY ToleranceTyped
<1>2. i \in Int /\ toScaled(implied) = i /\ t \in Int /\ toScaled(tolerance) = t
  BY ToleranceTyped, PriceApplied
<1>3. implied # None /\ tolerance # None
  BY <1>2, ScaledIsValid
<1> HIDE DEF implied, tolerance, i, t
<1>4. i - S \in Int /\ drift = fromScaled(i - S)
  BY <1>1, <1>2, MoneyAssumption DEF subAmounts
<1>5. drift # None /\ toScaled([drift EXCEPT !.m = Abs(@)]) = Abs(i - S)
  <2>1. toScaled(fromScaled(i - S)) \in Int
    BY <1>4, RoundTrip
  <2>2. QED
    BY <1>4, <2>1, ScaledIsValid, Magnitude
<1>6. compareAmounts([drift EXCEPT !.m = Abs(@)], tolerance) # 1
  <2>1. isValidAmount(price) /\ isValidAmount(buy)
    BY ScaledIsValid
  <2> HIDE DEF drift
  <2>2. QED
    BY <1>3, <1>5, <2>1, Zenon DEF totalPriceProblem, implied, drift, tolerance
<1> HIDE DEF drift, S
<1>7. Abs(i - S) <= t
  <2>1. Abs(i - S) \in Int /\ i - S \in Int
    BY <1>1, <1>2 DEF Abs
  <2> DEFINE a == [drift EXCEPT !.m = Abs(@)]
  <2> HIDE DEF a
  <2>2. toScaled(a) = Abs(i - S) /\ compareAmounts(a, tolerance) # 1
    BY <1>5, <1>6 DEF a
  <2>3. QED
    BY <1>2, <2>1, <2>2, MoneyAssumption DEF compareAmounts
<1>8. Abs(BP - S * Factor) <= ST + Factor
  <2> HIDE DEF BP, ST
  <2>1. QED
    BY <1>1, <1>7, FactorTyped, RoundingsAddUp DEF i, t
<1>9. QED
  BY <1>8 DEF S

(* What a quote must be: readable, and in agreement with itself. *)
AddsUp(q) ==
    LET sell == toScaled(q.sell)
        buy == toScaled(q.buy)
        price == toScaled(q.totalPrice)
    IN  None \notin {sell, buy, price} =>
            Abs(buy * price - sell * Factor) <= sell * toScaled(Tolerance) + Factor

Fair(q) == Legible(q.sell) /\ AddsUp(q)

LEMMA CheckedIsFair ==
    ASSUME NEW q, Legible(q.sell), Legible(q.buy), Legible(q.totalPrice),
           ~totalPriceProblem(q.totalPrice, q.buy, q.sell)
    PROVE  Fair(q)
<1>1. ASSUME None \notin {toScaled(q.sell), toScaled(q.buy), toScaled(q.totalPrice)}
      PROVE  Abs(toScaled(q.buy) * toScaled(q.totalPrice) - toScaled(q.sell) * Factor)
                <= toScaled(q.sell) * toScaled(Tolerance) + Factor
  <2>1. toScaled(q.sell) \in Int /\ toScaled(q.buy) \in Int /\ toScaled(q.totalPrice) \in Int
    BY <1>1 DEF Legible
  <2>2. QED
    BY <2>1, CrossCheck
<1>2. QED
  BY <1>1 DEF Fair, AddsUp

LEMMA ReadableLegible ==
    ASSUME NEW a, Legible(a)
    PROVE  Legible(Readable(a))
<1>1. toScaled(None) = None
  BY DEF toScaled, isValidAmount
<1>2. QED
  BY <1>1 DEF Legible, Readable

LEMMA FirmQuoteFair ==
    ASSUME NEW body, DOMAIN body = QuoteFields, NEW asked, Legible(asked),
           Legible(body.sell), Legible(body.buy), Legible(body.totalPrice),
           Sep38Quote(asked, body).ok
    PROVE  Fair(Sep38Quote(asked, body).value)
<1> DEFINE sell == IF body.sell = None THEN asked ELSE body.sell
           q == FirmQuote([body EXCEPT !.expires = Readable(@)], sell)
<1>1. Legible(sell)
  OBVIOUS
<1>2. /\ ~totalPriceProblem(body.totalPrice, body.buy, sell)
      /\ Sep38Quote(asked, body) = Ok(q)
  BY DEF Sep38Quote, Ok, Fail
<1>3. q.sell = sell /\ q.buy = body.buy /\ q.totalPrice = body.totalPrice
  BY DEF FirmQuote, QuoteFields
<1> HIDE DEF q, sell
<1>4. Fair(q)
  BY <1>1, <1>2, <1>3, CheckedIsFair
<1>5. QED
  BY <1>2, <1>4 DEF Ok

LEMMA Sep6QuoteFair ==
    ASSUME NEW body, DOMAIN body = QuoteFields, NEW asked, Legible(asked),
           Legible(body.sell), Legible(body.buy), Legible(body.totalPrice),
           Sep6Quote(asked, body).ok
    PROVE  Fair(Sep6Quote(asked, body).value)
<1> DEFINE read == [body EXCEPT !.sell = Readable(@), !.totalPrice = Readable(@)]
<1>1. Sep6Quote(asked, body) = Sep38Quote(asked, read)
  BY DEF Sep6Quote, Fail
<1>2. /\ DOMAIN read = QuoteFields
      /\ read.sell = Readable(body.sell) /\ read.buy = body.buy
      /\ read.totalPrice = Readable(body.totalPrice)
  BY DEF QuoteFields
<1> HIDE DEF read
<1>3. Legible(read.sell) /\ Legible(read.totalPrice)
  BY <1>2, ReadableLegible
<1>4. QED
  BY <1>1, <1>2, <1>3, FirmQuoteFair

LEMMA ExternalQuoteFair ==
    ASSUME NEW asked, Legible(asked), NEW price, NEW t, ExternalQuote(asked, price, t).ok
    PROVE  Fair(ExternalQuote(asked, price, t).value)
<1>1. /\ ExternalQuote(asked, price, t).value.sell = asked
      /\ ExternalQuote(asked, price, t).value.totalPrice = None
  BY DEF ExternalQuote, Ok, Fail
<1>2. toScaled(None) = None
  BY DEF toScaled, isValidAmount
<1>3. QED
  BY <1>1, <1>2 DEF Fair, AddsUp

-----------------------------------------------------------------------------
(* Shapes *)

RunFields == {"pc", "customer", "quote", "opened", "attempt", "since", "sent", "code"}
CallFields == {"step", "tok", "since"}

Shaped ==
    /\ corridor \in Corridors /\ now \in Nat
    /\ DOMAIN anchor = {"record", "kyc", "entry", "key", "moves"}
    /\ anchor.entry \in Entries \cup {FirstEntry} /\ anchor.key \in Nat
    /\ DOMAIN run = RunFields
    /\ DOMAIN call = Thread
    /\ \A t \in Thread : DOMAIN call[t] = CallFields /\ call[t].since \in Nat
    /\ DOMAIN verdict = Check /\ DOMAIN seen = GateReads

LEMMA InitShaped == Init => Shaped
  BY DEF Init, Shaped, RunFields, CallFields, NoCall

(* A step of one call leaves calls. *)
LEMMA CallKept ==
    ASSUME Shaped, NEW t \in Thread, NEW c, DOMAIN c = CallFields, c.since \in Nat,
           call' = [call EXCEPT ![t] = c]
    PROVE  /\ DOMAIN call' = Thread
           /\ \A s \in Thread : DOMAIN call'[s] = CallFields /\ call'[s].since \in Nat
  BY DEF Shaped

LEMMA CallsKept ==
    ASSUME Shaped, NEW t \in Thread,
           \/ Start(t) \/ Finish(t) \/ UNCHANGED call \/ \E tok : Ready(t, tok)
    PROVE  /\ DOMAIN call' = Thread
           /\ \A s \in Thread : DOMAIN call'[s] = CallFields /\ call'[s].since \in Nat
<1>1. DOMAIN NoCall = CallFields /\ NoCall.since \in Nat
  BY DEF NoCall, CallFields
<1>2. CASE Start(t) \/ Finish(t) \/ \E tok : Ready(t, tok)
  BY <1>1, <1>2, CallKept DEF Start, Finish, Ready, NoCall, CallFields
<1>3. CASE UNCHANGED call
  BY <1>3 DEF Shaped
<1>4. QED
  BY <1>2, <1>3

(* What the engine does to a payment changes its fields' values only. *)
LEMMA RunKept ==
    ASSUME Shaped,
           \/ \E p : Goto(p)
           \/ \E code : Stop(code)
           \/ \E r : TakeQuote(r) \/ TakeCompliance(r) \/ TakeOpened(r)
           \/ UNCHANGED run
    PROVE  DOMAIN run' = RunFields
  BY DEF Shaped, RunFields, Goto, Stop, TakeQuote, TakeCompliance, TakeOpened

LEMMA NextShaped == Shaped /\ [Next]_vars => Shaped'
<1> SUFFICES ASSUME Shaped, [Next]_vars PROVE Shaped'
  OBVIOUS
<1>0. "run" \in Thread /\ GateReads \subseteq Thread
  BY DEF Thread, GateReads
<1>1. ASSUME UNCHANGED <<corridor, now, anchor, verdict, seen>>, DOMAIN run' = RunFields,
             DOMAIN call' = Thread,
             \A s \in Thread : DOMAIN call'[s] = CallFields /\ call'[s].since \in Nat
      PROVE  Shaped'
  BY <1>1 DEF Shaped
<1>2. CASE Engine
  <2>1. CASE Begin \/ Comply \/ Open
    BY <1>0, <1>1, <2>1, CallsKept, RunKept DEF Begin, Comply, Open
  <2>2. CASE Register
    BY <1>1, <2>2 DEF Register, Shaped, RunFields
  <2>3. CASE PriceExternally \/ Unsettleable
    BY <1>1, <2>3, RunKept DEF PriceExternally, Unsettleable, Shaped
  <2>4. CASE HandshakeFails
    BY <1>0, <1>1, <2>4, CallsKept, RunKept DEF HandshakeFails
  <2>5. CASE Evaluate
    BY <2>5 DEF Evaluate, Shaped, NoCall, RunFields, CallFields
  <2>6. CASE Judge \/ Settle
    BY <1>1, <2>6, RunKept DEF Judge, Settle, Shaped, RunFields, Goto, Stop
  <2>7. QED
    BY <1>2, <2>1, <2>2, <2>3, <2>4, <2>5, <2>6 DEF Engine
<1>3. CASE AnswerQuote \/ AnswerCompliance \/ AnswerRead
  BY <1>0, <1>1, <1>3, CallsKept, RunKept DEF AnswerQuote, AnswerCompliance, AnswerRead
<1>4. CASE AnswerOpen31
  <2>1. /\ DOMAIN run' = RunFields /\ DOMAIN call' = Thread
        /\ \A s \in Thread : DOMAIN call'[s] = CallFields /\ call'[s].since \in Nat
    BY <1>0, <1>4, CallsKept, RunKept DEF AnswerOpen31
  <2>2. QED
    BY <1>4, <2>1 DEF AnswerOpen31, Shaped
<1>5. CASE AnswerOpen6
  <2>1. DOMAIN run' = RunFields
    BY <1>5, RunKept DEF AnswerOpen6
  <2>2. /\ DOMAIN call' = Thread
        /\ \A s \in Thread : DOMAIN call'[s] = CallFields /\ call'[s].since \in Nat
    BY <1>0, <1>5, CallsKept DEF AnswerOpen6, Finish, Shaped
  <2>3. QED
    BY <1>5, <2>1, <2>2 DEF AnswerOpen6, Shaped
<1>6. ASSUME NEW t \in Thread, Authenticate(t) PROVE Shaped'
  <2>1. /\ DOMAIN call' = Thread
        /\ \A s \in Thread : DOMAIN call'[s] = CallFields /\ call'[s].since \in Nat
    <3>1. CASE \E tok : Ready(t, tok)
      BY <3>1, CallsKept
    <3>2. CASE call' = [call EXCEPT ![t].step = "handshake", ![t].since = now]
      BY <3>2 DEF Shaped, CallFields
    <3>3. QED
      BY <1>6, <3>1, <3>2 DEF Authenticate
  <2>2. QED
    BY <1>1, <1>6, <2>1 DEF Authenticate, Shaped
<1>7. ASSUME NEW t \in Thread, Handshake(t) PROVE Shaped'
  BY <1>1, <1>7, CallsKept DEF Handshake, Shaped
<1>8. ASSUME NEW t \in GateReads, AnswerCheck(t) \/ CheckUnauthenticated(t) PROVE Shaped'
  <2>1. Finish(t) /\ DOMAIN verdict' = Check /\ UNCHANGED <<corridor, now, anchor, run>>
    BY <1>8 DEF AnswerCheck, CheckUnauthenticated, Conclude
  <2>2. DOMAIN seen' = GateReads
    BY <1>8 DEF AnswerCheck, CheckUnauthenticated, Shaped
  <2>3. /\ DOMAIN call' = Thread
        /\ \A s \in Thread : DOMAIN call'[s] = CallFields /\ call'[s].since \in Nat
    BY <1>0, <2>1, CallsKept
  <2>4. QED
    BY <2>1, <2>2, <2>3 DEF Shaped
<1>9. CASE GateTimer
  BY <1>9 DEF GateTimer, Shaped, NoCall, CallFields
<1>10. CASE Tick \/ UNCHANGED vars
  BY <1>10 DEF Tick, vars, Shaped
<1>11. CASE Move
  <2>1. /\ DOMAIN anchor' = {"record", "kyc", "entry", "key", "moves"}
        /\ anchor'.entry \in Entries \cup {FirstEntry} /\ anchor'.key \in Nat
    <3>1. \/ \E f \in {"record", "kyc"} : \E x, n : anchor' = [anchor EXCEPT ![f] = x, !.moves = n]
          \/ \E e \in Entries : \E n : anchor' = [anchor EXCEPT !.entry = e, !.moves = n]
          \/ \E n : anchor' = [anchor EXCEPT !.key = @ + 1, !.moves = n]
      BY <1>11 DEF Move
    <3>2. CASE \E f \in {"record", "kyc"} : \E x, n :
                  anchor' = [anchor EXCEPT ![f] = x, !.moves = n]
      BY <3>2 DEF Shaped
    <3>3. CASE \E e \in Entries : \E n : anchor' = [anchor EXCEPT !.entry = e, !.moves = n]
      BY <3>3 DEF Shaped
    <3>4. CASE \E n : anchor' = [anchor EXCEPT !.key = @ + 1, !.moves = n]
      BY <3>4 DEF Shaped
    <3>5. QED
      BY <3>1, <3>2, <3>3, <3>4
  <2>2. UNCHANGED <<corridor, now, cached, run, call, verdict, seen>>
    BY <1>11 DEF Move
  <2>3. QED
    BY <2>1, <2>2 DEF Shaped
<1>12. QED
  BY <1>2, <1>3, <1>4, <1>5, <1>6, <1>7, <1>8, <1>9, <1>10, <1>11 DEF Next, Adapter

-----------------------------------------------------------------------------
(* The quote *)

Priced == {"comply", "open", "read", "gate", "checking", "settle", "sent"}

Quoted == run.quote # None \/ run.pc \in Priced => Fair(run.quote)

LEMMA QuoteTaken ==
    ASSUME Shaped, Quoted, NEW r, TakeQuote(r), r.ok => Fair(r.value)
    PROVE  Quoted'
<1>1. CASE r.ok /\ ~Expired(r.value)
  BY <1>1 DEF TakeQuote, Shaped, RunFields, Quoted, Fair, AddsUp, Legible
<1>2. CASE ~(r.ok /\ ~Expired(r.value))
  <2>1. \E code : Stop(code)
    BY <1>2 DEF TakeQuote
  <2>2. QED
    BY <2>1 DEF Stop, Shaped, RunFields, Quoted, Priced, Fair, AddsUp, Legible
<1>3. QED
  BY <1>1, <1>2

LEMMA NextQuoted == Shaped /\ Quoted /\ [Next]_vars => Quoted'
<1> SUFFICES ASSUME Shaped, Quoted, [Next]_vars PROVE Quoted'
  OBVIOUS
<1>1. ASSUME run'.quote = run.quote, run'.pc \in Priced => run.pc \in Priced
      PROVE  Quoted'
  BY <1>1 DEF Quoted, Fair, AddsUp, Legible
<1>2. CASE PriceExternally
  <2>1. CASE \E code : Stop(code)
    BY <1>1, <2>1 DEF Stop, Shaped, RunFields, Priced
  <2>2. CASE \E p \in Prices : TakeQuote(ExternalQuote(Asked, p, now))
    BY <2>2, QuoteTaken, ExternalQuoteFair, AmountsAssumption DEF AmountsAssumption
  <2>3. QED
    BY <1>2, <2>1, <2>2 DEF PriceExternally
<1>3. CASE AnswerQuote
  <2>1. PICK http \in Answers("run"), body \in QuoteBodies :
            TakeQuote(CASE http # "ok" -> HttpFail(http, "QUOTE_UNAVAILABLE")
                        [] http = "ok" /\ corridor.protocol = "sep31" -> Sep38Quote(Asked, body)
                        [] OTHER -> Sep6Quote(Asked, body))
    BY <1>3 DEF AnswerQuote
  <2> DEFINE r == CASE http # "ok" -> HttpFail(http, "QUOTE_UNAVAILABLE")
                    [] http = "ok" /\ corridor.protocol = "sep31" -> Sep38Quote(Asked, body)
                    [] OTHER -> Sep6Quote(Asked, body)
  <2>2. r.ok => Fair(r.value)
    <3>1. CASE http # "ok"
      BY <3>1 DEF HttpFail, Fail
    <3>2. CASE r = Sep38Quote(Asked, body)
      <4> HIDE DEF r
      <4>1. QED
        BY <3>2, FirmQuoteFair, AmountsAssumption DEF AmountsAssumption
    <3>3. CASE r = Sep6Quote(Asked, body)
      <4> HIDE DEF r
      <4>1. QED
        BY <3>3, Sep6QuoteFair, AmountsAssumption DEF AmountsAssumption
    <3>4. QED
      BY <3>1, <3>2, <3>3
  <2> HIDE DEF r
  <2>3. TakeQuote(r)
    BY <2>1 DEF r
  <2>4. QED
    BY <2>2, <2>3, QuoteTaken
<1>4. CASE Begin \/ Register
  BY <1>1, <1>4 DEF Begin, Register, Goto, Stop, Shaped, RunFields, Priced
<1>5. CASE Comply \/ AnswerCompliance
  <2>1. run.pc = "comply" /\ (UNCHANGED run \/ \E r : TakeCompliance(r))
    BY <1>5 DEF Comply, AnswerCompliance
  <2>2. QED
    BY <1>1, <2>1 DEF TakeCompliance, Goto, Stop, Shaped, RunFields, Priced
<1>6. CASE Open \/ HandshakeFails \/ Unsettleable \/ Evaluate \/ Judge \/ Settle
  BY <1>1, <1>6 DEF Open, HandshakeFails, Unsettleable, Evaluate, Judge, Settle, Goto, Stop,
     Shaped, RunFields, Priced
<1>7. CASE AnswerOpen31 \/ AnswerOpen6 \/ AnswerRead
  <2>1. run.pc \in Priced /\ \E r : TakeOpened(r)
    BY <1>7 DEF AnswerOpen31, AnswerOpen6, AnswerRead, Priced
  <2>2. QED
    BY <1>1, <2>1 DEF TakeOpened, Goto, Stop, Shaped, RunFields, Priced
<1>8. CASE UNCHANGED run
  BY <1>1, <1>8
<1>9. CASE \/ GateTimer \/ Tick \/ Move \/ UNCHANGED vars
           \/ \E t \in Thread : Authenticate(t) \/ Handshake(t)
           \/ \E t \in GateReads : AnswerCheck(t) \/ CheckUnauthenticated(t)
  BY <1>8, <1>9 DEF GateTimer, Tick, Move, vars, Authenticate, Handshake, AnswerCheck,
     CheckUnauthenticated
<1>10. QED
  BY <1>2, <1>3, <1>4, <1>5, <1>6, <1>7, <1>9 DEF Next, Engine, Adapter

-----------------------------------------------------------------------------
(* The opened transaction *)

(* What opening a SEP-6 transaction answers names an account. *)
LEMMA InitiatedPayable ==
    ASSUME NEW http, NEW body, Initiated(http, body).ok, Initiated(http, body).value # None
    PROVE  Initiated(http, body).value.flat.to \notin {None, Bad}
<1>1. Readable(body.account) # None
      /\ Initiated(http, body).value = Payable(body.account, Readable(body.memo),
                                               parseMemoType(body.memoType))
  BY DEF Initiated, Ok, Fail, HttpFail, kycRefusal
<1>2. QED
  BY <1>1 DEF Payable, Readable

LEMMA ReadPayable ==
    ASSUME NEW http, NEW record, instructionsFromRecord(http, record).ok
    PROVE  instructionsFromRecord(http, record).value.flat.to \notin {None, Bad}
<1>1. Readable(record.account) # None
      /\ instructionsFromRecord(http, record).value
            = Payable(record.account, Readable(record.memo), parseMemoType(record.memoType))
  BY DEF instructionsFromRecord, Ok, Fail, HttpFail
<1>2. QED
  BY <1>1 DEF Payable, Readable

LEMMA NextSomewhere == Shaped /\ SomewhereToPay /\ [Next]_vars => SomewhereToPay'
<1> SUFFICES ASSUME Shaped, SomewhereToPay, [Next]_vars PROVE SomewhereToPay'
  OBVIOUS
<1>1. ASSUME run'.opened = run.opened, corridor' = corridor PROVE SomewhereToPay'
  BY <1>1 DEF SomewhereToPay
<1>2. ASSUME NEW r, TakeOpened(r), corridor' = corridor,
             corridor.protocol = "sep6" /\ r.ok /\ r.value # None
                => r.value.flat.to \notin {None, Bad}
      PROVE  SomewhereToPay'
  <2>1. CASE r.ok /\ r.value # None
    BY <1>2, <2>1 DEF TakeOpened, SomewhereToPay, Shaped, RunFields
  <2>2. CASE ~(r.ok /\ r.value # None)
    BY <1>1, <1>2, <2>2 DEF TakeOpened, Goto, Stop, Shaped, RunFields
  <2>3. QED
    BY <2>1, <2>2
<1>3. CASE AnswerOpen31 \/ AnswerOpen6 \/ AnswerRead
  BY <1>2, <1>3, InitiatedPayable, ReadPayable DEF AnswerOpen31, AnswerOpen6, AnswerRead
<1>4. CASE \/ Engine \/ AnswerQuote \/ AnswerCompliance
  <2>1. CASE \/ Begin \/ Register \/ HandshakeFails \/ Unsettleable \/ Evaluate \/ Judge \/ Settle
             \/ Open
    BY <1>1, <2>1 DEF Begin, Register, Open, HandshakeFails, Unsettleable, Evaluate, Judge,
       Settle, Goto, Stop, Shaped, RunFields
  <2>2. CASE PriceExternally \/ AnswerQuote
    <3>1. corridor' = corridor /\ ((\E r : TakeQuote(r)) \/ \E code : Stop(code))
      BY <2>2 DEF PriceExternally, AnswerQuote
    <3>2. QED
      BY <1>1, <3>1 DEF TakeQuote, Stop, Shaped, RunFields
  <2>3. CASE Comply \/ AnswerCompliance
    <3>1. corridor' = corridor /\ (UNCHANGED run \/ \E r : TakeCompliance(r))
      BY <2>3 DEF Comply, AnswerCompliance
    <3>2. QED
      BY <1>1, <3>1 DEF TakeCompliance, Goto, Stop, Shaped, RunFields
  <2>4. QED
    BY <1>4, <2>1, <2>2, <2>3 DEF Engine
<1>5. CASE \/ GateTimer \/ Tick \/ Move \/ UNCHANGED vars
           \/ \E t \in Thread : Authenticate(t) \/ Handshake(t)
           \/ \E t \in GateReads : AnswerCheck(t) \/ CheckUnauthenticated(t)
  <2>1. UNCHANGED <<corridor, run>>
    BY <1>5 DEF GateTimer, Tick, Move, vars, Authenticate, Handshake, AnswerCheck,
       CheckUnauthenticated
  <2>2. QED
    BY <1>1, <2>1
<1>6. QED
  BY <1>3, <1>4, <1>5 DEF Next, Adapter

-----------------------------------------------------------------------------
(* The gate *)

LEMMA Comparison ==
    ASSUME NEW a, NEW b, Legible(a), Legible(b)
    PROVE  \/ compareAmounts(a, b) = None /\ None \in {toScaled(a), toScaled(b)}
           \/ /\ toScaled(a) \in Int /\ toScaled(b) \in Int
              /\ \/ compareAmounts(a, b) = -1 /\ toScaled(a) < toScaled(b)
                 \/ compareAmounts(a, b) = 0 /\ toScaled(a) = toScaled(b)
                 \/ compareAmounts(a, b) = 1 /\ toScaled(a) > toScaled(b)
  BY MoneyAssumption DEF compareAmounts, Legible

(* What is not beyond one bound holds there.  A bound that cannot be read  *)
(* holds nothing.                                                          *)
LEMMA NotBeyond ==
    ASSUME NEW a, toScaled(a) \in Int, NEW b, Legible(b), NEW s \in {-1, 1}, ~Beyond(a, b, s)
    PROVE  /\ Holds(b, a, s = -1)
           /\ b # None => toScaled(b) \in Int
<1>1. Legible(a)
  BY DEF Legible
<1>2. CASE b = None
  BY <1>2 DEF Holds, isValidAmount
<1>3. CASE b # None
  <2>1. compareAmounts(a, b) \notin {None, s}
    BY <1>3 DEF Beyond
  <2>2. /\ toScaled(b) \in Int
        /\ s = -1 => toScaled(a) >= toScaled(b)
        /\ s = 1 => toScaled(a) <= toScaled(b)
    BY <1>1, <2>1, Comparison
  <2>3. QED
    BY <2>2 DEF Holds
<1>4. QED
  BY <1>2, <1>3

(* The stricter of two bounds: what is not beyond it is beyond neither.    *)
LEMMA PickedHolds ==
    ASSUME NEW x, toScaled(x) \in Int, NEW a, NEW b, Legible(a), Legible(b),
           NEW s \in {-1, 1}, NEW w \in {-1, 1} \ {s}, ~Beyond(x, pick(a, b, w), s)
    PROVE  Holds(a, x, s = -1) /\ Holds(b, x, s = -1)
<1>1. CASE a = None \/ b = None
  <2>1. Holds(None, x, s = -1)
    BY DEF Holds, isValidAmount
  <2>2. ~Beyond(x, IF a = None THEN b ELSE a, s)
    BY <1>1 DEF pick
  <2>3. QED
    BY <1>1, <2>1, <2>2, NotBeyond
<1>2. CASE a # None /\ b # None
  <2> DEFINE cmp == compareAmounts(a, b)
  <2>1. pick(a, b, w) = IF cmp = None THEN Bad ELSE IF cmp = w THEN a ELSE b
    BY <1>2 DEF pick
  <2>2. Bad # None
    BY DecimalAssumption
  <2>3. cmp # None
    BY <2>1, <2>2 DEF Beyond
  <2>4. toScaled(a) \in Int /\ toScaled(b) \in Int
    BY <2>3, Comparison
  <2>5. CASE cmp = w
    <3>1. ~Beyond(x, a, s)
      BY <2>1, <2>3, <2>5
    <3>2. Holds(a, x, s = -1)
      BY <3>1, NotBeyond
    <3>3. IF s = -1 THEN toScaled(a) > toScaled(b) ELSE toScaled(a) < toScaled(b)
      BY <2>3, <2>5, Comparison
    <3>4. isValidAmount(a) /\ toScaled(a) # None
      BY <2>4, ScaledIsValid, MoneyAssumption
    <3>5. Holds(b, x, s = -1)
      BY <2>4, <3>2, <3>3, <3>4 DEF Holds
    <3>6. QED
      BY <3>2, <3>5
  <2>6. CASE cmp # w
    <3>1. ~Beyond(x, b, s)
      BY <2>1, <2>3, <2>6
    <3>2. Holds(b, x, s = -1)
      BY <3>1, NotBeyond
    <3>3. IF s = -1 THEN toScaled(a) <= toScaled(b) ELSE toScaled(a) >= toScaled(b)
      BY <2>3, <2>6, Comparison
    <3>4. isValidAmount(b) /\ toScaled(b) # None
      BY <2>4, ScaledIsValid, MoneyAssumption
    <3>5. Holds(a, x, s = -1)
      BY <2>4, <3>2, <3>3, <3>4 DEF Holds
    <3>6. QED
      BY <3>2, <3>5
  <2>7. QED
    BY <2>5, <2>6
<1>3. QED
  BY <1>1, <1>2

LEMMA LeastHolds ==
    ASSUME NEW x, toScaled(x) \in Int, NEW a, NEW b, Legible(a), Legible(b),
           ~Beyond(x, pick(a, b, 1), -1)
    PROVE  Holds(a, x, TRUE) /\ Holds(b, x, TRUE)
<1>1. Holds(a, x, -1 = -1) /\ Holds(b, x, -1 = -1)
  <2>1. 1 \in {-1, 1} \ {-1}
    OBVIOUS
  <2>2. QED
    BY <2>1, PickedHolds
<1>2. QED
  BY <1>1 DEF Holds

LEMMA MostHolds ==
    ASSUME NEW x, toScaled(x) \in Int, NEW a, NEW b, Legible(a), Legible(b),
           ~Beyond(x, pick(a, b, -1), 1)
    PROVE  Holds(a, x, FALSE) /\ Holds(b, x, FALSE)
<1>1. Holds(a, x, 1 = -1) /\ Holds(b, x, 1 = -1)
  <2>1. -1 \in {-1, 1} \ {1}
    OBVIOUS
  <2>2. QED
    BY <2>1, PickedHolds
<1>2. QED
  BY <1>1 DEF Holds

(* InRange and Expected, of a request before it is sent. *)
RangeHolds(e, amount) ==
    \A bounds \in {corridor.limits} \cup (IF e = None THEN {} ELSE {e}) :
        Holds(bounds.min, amount, TRUE) /\ Holds(bounds.max, amount, FALSE)

Awaited(r, request) ==
    /\ r.status = "pending_sender"
    /\ r.account \in {None, Bad, request.to}
    /\ r.memo \in {None, Bad, request.memo}

LEMMA AmountVouched ==
    ASSUME NEW http, NEW e \in Entries \cup {FirstEntry}, corridor \in Corridors,
           NEW amount, toScaled(amount) \in Int,
           AmountVerdict(Info(http, e), corridor.limits, amount).passed
    PROVE  RangeHolds(e, amount)
<1> DEFINE info == Info(http, e)
           of(field) == IF info.value = None THEN None ELSE info.value[field]
<1>1. /\ info.ok
      /\ ~Beyond(amount, pick(corridor.limits.min, of("min"), 1), -1)
      /\ ~Beyond(amount, pick(corridor.limits.max, of("max"), -1), 1)
  BY DEF AmountVerdict, Block
<1>2. http = "ok"
  BY <1>1 DEF Info, HttpFail, Fail
<1>3. Legible(corridor.limits.min) /\ Legible(corridor.limits.max)
  BY AmountsAssumption DEF AmountsAssumption
<1>4. toScaled(None) = None /\ Legible(None)
  BY DEF toScaled, isValidAmount, Legible
<1>5. CASE e = None
  <2>1. of("min") = None /\ of("max") = None
    BY <1>2, <1>5 DEF Info, Ok
  <2> HIDE DEF of, info
  <2>2. Holds(corridor.limits.min, amount, TRUE) /\ Holds(corridor.limits.max, amount, FALSE)
    BY <1>1, <1>3, <1>4, <2>1, LeastHolds, MostHolds
  <2>3. QED
    BY <1>5, <2>2 DEF RangeHolds
<1>6. CASE e # None
  <2>1. Legible(e.min) /\ Legible(e.max) /\ Info("ok", e) # Ok(None)
    BY <1>6, AmountsAssumption DEF AmountsAssumption
  <2>2. of("min") = Readable(e.min) /\ of("max") = Readable(e.max)
    BY <1>2, <1>6, <2>1 DEF Info, Ok
  <2>3. Legible(of("min")) /\ Legible(of("max"))
    BY <2>1, <2>2, ReadableLegible
  <2> HIDE DEF of, info
  <2>4. /\ Holds(corridor.limits.min, amount, TRUE) /\ Holds(of("min"), amount, TRUE)
        /\ Holds(corridor.limits.max, amount, FALSE) /\ Holds(of("max"), amount, FALSE)
    BY <1>1, <1>3, <2>3, LeastHolds, MostHolds
  <2>5. Holds(e.min, amount, TRUE) /\ Holds(e.max, amount, FALSE)
    BY <2>2, <2>4 DEF Holds, Readable, isValidAmount
  <2>6. QED
    BY <2>4, <2>5 DEF RangeHolds
<1>7. QED
  BY <1>5, <1>6

LEMMA TxVouched ==
    ASSUME NEW http, NEW r, NEW request, NEW strict,
           \/ OpenedTxVerdict(Status31(http, r), request, strict).passed
           \/ OpenedTxVerdict(Status6(http, r), request, strict).passed
    PROVE  Awaited(r, request)
<1> DEFINE s31 == StatusOf(mapSep31Status(r.status), r)
           s6 == StatusOf(mapSep6Status(r.status), r)
<1>1. \A s \in {s31, s6} :
          /\ s.class.status = r.status
          /\ s.depositAddress = Readable(r.account) /\ s.memo = Readable(r.memo)
  BY DEF StatusOf, mapSep31Status, mapSep6Status
<1>2. \A out : OpenedTxVerdict(out, request, strict).passed =>
          /\ out.ok /\ out.value.class.status = "pending_sender"
          /\ out.value.depositAddress \in {None, request.to}
          /\ out.value.memo \in {None, request.memo}
  BY DEF OpenedTxVerdict, Block
<1>3. /\ Status31(http, r).ok => Status31(http, r).value = s31
      /\ Status6(http, r).ok => Status6(http, r).value = s6
  BY DEF Status31, Status6, HttpFail, Fail, Ok
<1> HIDE DEF s31, s6
<1>4. PICK s \in {s31, s6} : /\ s.class.status = "pending_sender"
                             /\ s.depositAddress \in {None, request.to}
                             /\ s.memo \in {None, request.memo}
  BY <1>2, <1>3
<1>5. QED
  BY <1>1, <1>4 DEF Awaited, Readable

-----------------------------------------------------------------------------
(* What was paid on *)

ReadOf(c) == IF c = "range" THEN "info" ELSE c

(* What the reads of this evaluation have for a check of it. *)
Vouches(c) ==
    /\ \/ c = "window"
       \/ c = "kyc" /\ ~corridor.kycServer
       \/ seen[ReadOf(c)].attempt = run.attempt
    /\ c = "info" => seen["info"].what # None /\ seen["info"].what.enabled # FALSE
    /\ c = "range" => RangeHolds(seen["info"].what, Request.amount)
    /\ c = "kyc" /\ corridor.kycServer =>
          seen["kyc"].what = "ACCEPTED" /\ (corridor.signer => seen["kyc"].authenticated)
    /\ c = "tx" => Awaited(seen["tx"].what, Request)

(* A check whose read is on its way has no verdict, one that passed has    *)
(* its evidence, and what was judged or sent has that of every check.      *)
Judged ==
    /\ run.pc = "checking" =>
          /\ \A t \in GateReads : call[t].step # "idle" =>
                \A c \in Reads(t) \cap corridor.checks : verdict[c] = None
          /\ \A c \in corridor.checks : verdict[c] # None /\ verdict[c].passed => Vouches(c)
    /\ run.pc \in {"settle", "sent"} => \A c \in corridor.checks : Vouches(c)
    /\ run.pc \in {"checking", "settle", "sent"} => toScaled(Request.amount) \in Int
    /\ run.pc = "sent" => run.sent = Request

(* The customer's status is asked for with a token, where there are any.   *)
Tokened == corridor.signer /\ call["kyc"].step = "asking" => call["kyc"].tok # None

LEMMA NextTokened == Shaped /\ Tokened /\ [Next]_vars => Tokened'
<1> SUFFICES ASSUME Shaped, Tokened, [Next]_vars PROVE Tokened'
  OBVIOUS
<1>0. "kyc" \in Thread /\ "run" \in Thread /\ "kyc" # "run" /\ NoCall.step = "idle"
  BY DEF Thread, NoCall
<1>1. ASSUME UNCHANGED corridor, call'["kyc"].step # "asking" \/ call'["kyc"] = call["kyc"]
      PROVE  Tokened'
  BY <1>1 DEF Tokened
<1>2. ASSUME NEW t \in Thread, Authenticate(t) PROVE Tokened'
  <2>1. CASE corridor.signer /\ Fresh(cached, now) /\ Ready(t, cached)
    BY <1>0, <1>2, <2>1 DEF Authenticate, Ready, Fresh, NoCall, Tokened, Shaped
  <2>2. CASE ~corridor.signer
    BY <1>2, <2>2 DEF Authenticate, Tokened
  <2>3. CASE call' = [call EXCEPT ![t].step = "handshake", ![t].since = now]
    BY <1>0, <1>1, <1>2, <2>3 DEF Authenticate, Shaped, CallFields
  <2>4. QED
    BY <1>2, <2>1, <2>2, <2>3 DEF Authenticate
<1>3. ASSUME NEW t \in Thread, Handshake(t) PROVE Tokened'
  <2>1. PICK claim \in {None, now + ClaimedLife} :
            Ready(t, [exp |-> BelievedExpiry(claim, call[t].since), key |-> anchor.key])
    BY <1>3 DEF Handshake
  <2>2. BelievedExpiry(claim, call[t].since) \in Int /\ anchor.key \in Int
    BY PaymentAssumption, KitAssumption DEF PaymentAssumption, KitAssumption, BelievedExpiry,
       Shaped
  <2>3. [exp |-> BelievedExpiry(claim, call[t].since), key |-> anchor.key] # None
    BY <2>2, AmountsAssumption DEF AmountsAssumption
  <2>4. QED
    BY <1>0, <1>3, <2>1, <2>3 DEF Handshake, Ready, NoCall, Tokened, Shaped
<1>4. CASE \/ Begin \/ Register \/ PriceExternally \/ Comply \/ Open \/ HandshakeFails
           \/ Unsettleable \/ Judge \/ Settle
  <2>1. UNCHANGED corridor /\ (Start("run") \/ Finish("run") \/ UNCHANGED call)
    BY <1>4 DEF Begin, Register, PriceExternally, Comply, Open, HandshakeFails, Unsettleable,
       Judge, Settle
  <2>2. QED
    BY <1>0, <1>1, <2>1 DEF Start, Finish, Shaped
<1>5. CASE Evaluate \/ GateTimer
  BY <1>0, <1>1, <1>5 DEF Evaluate, GateTimer, NoCall
<1>6. CASE AnswerQuote \/ AnswerCompliance \/ AnswerOpen31 \/ AnswerOpen6 \/ AnswerRead
  <2>1. UNCHANGED corridor /\ (Finish("run") \/ call'["kyc"] = call["kyc"])
    BY <1>0, <1>6 DEF AnswerQuote, AnswerCompliance, AnswerOpen31, AnswerOpen6, AnswerRead, Shaped
  <2>2. QED
    BY <1>0, <1>1, <2>1 DEF Finish, Shaped
<1>7. ASSUME NEW t \in GateReads, AnswerCheck(t) \/ CheckUnauthenticated(t) PROVE Tokened'
  <2>1. UNCHANGED corridor /\ Finish(t)
    BY <1>7 DEF AnswerCheck, CheckUnauthenticated, Conclude
  <2>2. QED
    BY <1>0, <1>1, <2>1 DEF Finish, Shaped
<1>8. CASE Tick \/ Move \/ UNCHANGED vars
  BY <1>1, <1>8 DEF Tick, Move, vars
<1>9. QED
  BY <1>2, <1>3, <1>4, <1>5, <1>6, <1>7, <1>8 DEF Next, Engine, Adapter

(* Evidence stands while the reads, the attempt and the request do. *)
LEMMA VouchKept ==
    ASSUME UNCHANGED corridor, run'.attempt = run.attempt, run'.quote = run.quote,
           run'.opened = run.opened, NEW c, Vouches(c), seen'[ReadOf(c)] = seen[ReadOf(c)]
    PROVE  Vouches(c)' /\ Request' = Request
<1>1. Request' = Request
  BY DEF Request, toLegacy
<1>2. QED
  BY <1>1 DEF Vouches, ReadOf, RangeHolds, Holds, Awaited

LEMMA RequestKept ==
    ASSUME run'.quote = run.quote, run'.opened = run.opened
    PROVE  Request' = Request
  BY DEF Request, toLegacy

(* A read that lets a check pass is that check's evidence. *)
LEMMA CheckVouched ==
    ASSUME Shaped, Judged, Tokened, NEW t \in GateReads, AnswerCheck(t),
           NEW c \in Reads(t) \cap corridor.checks, verdict'[c].passed
    PROVE  Vouches(c)'
<1>1. PICK http \in Answers(t) :
          LET what == CASE t = "info" -> anchor.entry
                        [] t = "kyc" -> anchor.kyc
                        [] t = "tx" -> anchor.record
          IN  /\ Conclude(t, CASE t = "info" -> Info(http, what)
                               [] t = "kyc" -> Sep12Answer(http, what)
                               [] t = "tx" -> IF corridor.protocol = "sep31"
                                              THEN Status31(http, what)
                                              ELSE Status6(http, what))
              /\ seen' = [seen EXCEPT ![t] = [attempt |-> run.attempt,
                                              authenticated |-> call[t].tok # None,
                                              what |-> what]]
  BY DEF AnswerCheck
<1>2. /\ run.pc = "checking" /\ UNCHANGED <<corridor, anchor, run>>
      /\ c \in {"info", "range", "kyc", "tx"} /\ ReadOf(c) = t /\ c \in Check
  BY DEF AnswerCheck, Reads, ReadOf, GateReads, Check
<1>3. call[t].step = "asking"
  BY DEF AnswerCheck, Answers
<1>4. verdict[c] = None
  BY <1>2, <1>3 DEF Judged
<1>5. Request' = Request /\ toScaled(Request.amount) \in Int
  BY <1>2, RequestKept DEF Judged
<1>6. seen'[t].attempt = run'.attempt
  BY <1>1, <1>2 DEF Shaped
<1>7. CASE t = "info"
  <2> DEFINE e == anchor.entry
  <2>1. seen'["info"].what = e /\ e \in Entries \cup {FirstEntry} /\ corridor \in Corridors
    BY <1>1, <1>7 DEF Shaped
  <2>2. verdict'[c] = Verdicts("info", Info(http, e))[c]
    BY <1>1, <1>2, <1>4, <1>7 DEF Conclude
  <2>3. CASE c = "info"
    <3>1. InfoVerdict(Info(http, e)).passed
      BY <1>2, <1>7, <2>2, <2>3 DEF Verdicts
    <3>2. Info(http, e).ok /\ Info(http, e).value # None /\ Info(http, e).value.enabled # FALSE
      BY <3>1 DEF InfoVerdict, Block
    <3>3. e # None /\ e.enabled # FALSE
      BY <3>2 DEF Info, HttpFail, Fail, Ok
    <3>4. QED
      BY <1>2, <1>6, <1>7, <2>1, <2>3, <3>3 DEF Vouches
  <2>4. CASE c = "range"
    <3>1. AmountVerdict(Info(http, e), corridor.limits, Request.amount).passed
      BY <1>2, <1>7, <2>2, <2>4 DEF Verdicts
    <3>2. RangeHolds(e, Request.amount)
      BY <1>5, <2>1, <3>1, AmountVouched
    <3>3. RangeHolds(seen["info"].what, Request.amount)'
      BY <1>2, <1>5, <2>1, <3>2 DEF RangeHolds, Holds
    <3>4. QED
      BY <1>2, <1>6, <1>7, <2>4, <3>3 DEF Vouches
  <2>5. QED
    BY <1>2, <1>7, <2>3, <2>4 DEF ReadOf
<1>8. CASE t = "kyc"
  <2>1. c = "kyc"
    BY <1>2, <1>8 DEF ReadOf
  <2>2. KycGate(Sep12Answer(http, anchor.kyc)).passed
    BY <1>1, <1>2, <1>4, <1>8, <2>1 DEF Conclude, Verdicts
  <2>3. anchor.kyc = "ACCEPTED"
    BY <2>2 DEF KycGate, Sep12Answer, KycVerdict, HttpFail, Fail, Ok, Block
  <2>4. /\ seen'["kyc"].what = anchor.kyc
        /\ seen'["kyc"].authenticated = (call["kyc"].tok # None)
    BY <1>1, <1>8 DEF Shaped
  <2>5. corridor.signer => seen'["kyc"].authenticated
    BY <1>3, <1>8, <2>4 DEF Tokened
  <2>6. QED
    BY <1>2, <1>6, <1>8, <2>1, <2>3, <2>4, <2>5 DEF Vouches
<1>9. CASE t = "tx"
  <2>1. c = "tx"
    BY <1>2, <1>9 DEF ReadOf
  <2>2. \/ OpenedTxVerdict(Status31(http, anchor.record), Request, corridor.strict).passed
        \/ OpenedTxVerdict(Status6(http, anchor.record), Request, corridor.strict).passed
    BY <1>1, <1>2, <1>4, <1>9, <2>1 DEF Conclude, Verdicts
  <2>3. Awaited(anchor.record, Request)
    BY <2>2, TxVouched
  <2>4. seen'["tx"].what = anchor.record
    BY <1>1, <1>9 DEF Shaped
  <2>5. Awaited(seen["tx"].what, Request)'
    BY <1>5, <2>3, <2>4 DEF Awaited
  <2>6. QED
    BY <1>2, <1>6, <1>9, <2>1, <2>5 DEF Vouches
<1>10. QED
  BY <1>7, <1>8, <1>9 DEF GateReads

LEMMA EvaluateJudged ==
    ASSUME Shaped, Quoted, Evaluate
    PROVE  Judged'
<1>1. /\ run'.pc = "checking" /\ UNCHANGED corridor
      /\ run'.quote = run.quote /\ run'.opened = run.opened
  BY DEF Evaluate, Shaped, RunFields
<1>2. toScaled(Request.amount) \in Int /\ Request' = Request
  <2>1. Legible(run.quote.sell) /\ toScaled(run.quote.sell) # None
    BY DEF Evaluate, settleQuoteProblem, isSettleableAmount, Quoted, Priced, Fair
  <2>2. QED
    BY <1>1, <2>1, RequestKept DEF Legible, Request
<1>3. ASSUME NEW t \in GateReads, call'[t].step # "idle", NEW c \in Reads(t) \cap corridor.checks
      PROVE  verdict'[c] = None
  <2>1. t \in Thread /\ t # "run" /\ Asks(t)
    BY <1>3 DEF Evaluate, NoCall, GateReads, Thread
  <2>2. c \in Check /\ c # "window" /\ (c = "kyc" => NeedsKycCall)
    BY <1>3, <2>1 DEF Asks, Reads, GateReads, Check
  <2>3. QED
    BY <1>3, <2>2 DEF Evaluate
<1>4. ASSUME NEW c \in corridor.checks, verdict'[c] # None, verdict'[c].passed
      PROVE  Vouches(c)'
  <2>1. c \in Check
    BY PaymentAssumption DEF PaymentAssumption, Shaped
  <2>2. CASE c = "window"
    BY <2>2 DEF Vouches
  <2>3. CASE c = "kyc" /\ ~NeedsKycCall
    <3>1. KycGate(Unasked).passed
      BY <1>4, <2>1, <2>3 DEF Evaluate
    <3>2. ~corridor.kycServer
      BY <3>1 DEF KycGate, Unasked, Fail, Block
    <3>3. QED
      BY <1>1, <2>3, <3>2 DEF Vouches
  <2>4. CASE c # "window" /\ ~(c = "kyc" /\ ~NeedsKycCall)
    <3>1. verdict'[c] = None
      BY <2>1, <2>4 DEF Evaluate
    <3>2. QED
      BY <1>4, <3>1
  <2>5. QED
    BY <2>2, <2>3, <2>4
<1>5. QED
  BY <1>1, <1>2, <1>3, <1>4 DEF Judged

LEMMA CheckJudged ==
    ASSUME Shaped, Judged, Tokened, NEW t \in GateReads,
           AnswerCheck(t) \/ CheckUnauthenticated(t)
    PROVE  Judged'
<1>1. run.pc = "checking" /\ UNCHANGED <<corridor, run>> /\ call[t].step # "idle"
  BY DEF AnswerCheck, CheckUnauthenticated, Answers
<1>2. \A s \in GateReads : s # t => seen'[s] = seen[s] /\ call'[s] = call[s]
  BY DEF AnswerCheck, CheckUnauthenticated, Conclude, Finish, Shaped, GateReads, Thread
<1>3. call'[t].step = "idle"
  BY DEF AnswerCheck, CheckUnauthenticated, Conclude, Finish, Shaped, NoCall, GateReads, Thread
<1>4. \A c \in Check \ Reads(t) : verdict'[c] = verdict[c]
  BY DEF AnswerCheck, CheckUnauthenticated, Conclude
<1>5. corridor.checks \subseteq Check
  BY PaymentAssumption DEF PaymentAssumption, Shaped
<1>6. ASSUME NEW s \in GateReads, call'[s].step # "idle", NEW c \in Reads(s) \cap corridor.checks
      PROVE  verdict'[c] = None
  <2>1. s # t /\ c \notin Reads(t)
    BY <1>3, <1>6 DEF Reads, GateReads
  <2>2. QED
    BY <1>1, <1>2, <1>4, <1>5, <1>6, <2>1 DEF Judged
<1>7. ASSUME NEW c \in corridor.checks, verdict'[c] # None, verdict'[c].passed
      PROVE  Vouches(c)'
  <2>1. CASE c \in Reads(t) /\ AnswerCheck(t)
    BY <1>7, <2>1, CheckVouched
  <2>2. CASE c \in Reads(t) /\ CheckUnauthenticated(t)
    <3>1. verdict[c] = None
      BY <1>1, <2>2 DEF Judged
    <3>2. verdict'[c] = Verdicts(t, Unauthenticated)[c] /\ c \in Check
      BY <1>5, <2>2, <3>1 DEF CheckUnauthenticated, Conclude
    <3>3. ~verdict'[c].passed
      BY <2>2, <3>2 DEF Verdicts, Reads, GateReads, Unauthenticated, Fail, InfoVerdict,
         AmountVerdict, KycGate, OpenedTxVerdict, Block, Check
    <3>4. QED
      BY <1>7, <3>3
  <2>3. CASE c \notin Reads(t)
    <3>1. verdict[c] # None /\ verdict[c].passed /\ c \in Check
      BY <1>4, <1>5, <1>7, <2>3
    <3>2. Vouches(c)
      BY <1>1, <3>1 DEF Judged
    <3>3. CASE c = "window"
      BY <3>3 DEF Vouches
    <3>4. CASE c # "window"
      <4>1. ReadOf(c) \in GateReads /\ ReadOf(c) # t
        BY <2>3, <3>1, <3>4 DEF ReadOf, Reads, GateReads, Check
      <4>2. seen'[ReadOf(c)] = seen[ReadOf(c)]
        BY <1>2, <4>1
      <4>3. QED
        BY <1>1, <3>2, <4>2, VouchKept
    <3>5. QED
      BY <3>3, <3>4
  <2>4. QED
    BY <2>1, <2>2, <2>3
<1>8. toScaled(Request.amount)' \in Int
  BY <1>1, RequestKept DEF Judged
<1>9. QED
  BY <1>1, <1>6, <1>7, <1>8 DEF Judged

LEMMA NextJudged == Shaped /\ Quoted /\ Tokened /\ Judged /\ [Next]_vars => Judged'
<1> SUFFICES ASSUME Shaped, Quoted, Tokened, Judged, [Next]_vars PROVE Judged'
  OBVIOUS
<1>1. ASSUME run'.pc \notin {"checking", "settle", "sent"} PROVE Judged'
  BY <1>1 DEF Judged
<1>2. ASSUME NEW c, Vouches(c), UNCHANGED <<corridor, seen>>, run'.attempt = run.attempt,
             run'.quote = run.quote, run'.opened = run.opened
      PROVE  Vouches(c)'
  BY <1>2, VouchKept
<1>3. CASE Begin \/ Comply \/ Open \/ HandshakeFails \/ Unsettleable \/ AnswerCompliance
  <2>1. CASE Begin \/ Open \/ HandshakeFails \/ Unsettleable
    BY <1>1, <2>1 DEF Begin, Open, HandshakeFails, Unsettleable, Goto, Stop, Shaped, RunFields
  <2>2. CASE Comply \/ AnswerCompliance
    <3>1. run.pc = "comply" /\ (UNCHANGED run \/ \E r : TakeCompliance(r))
      BY <2>2 DEF Comply, AnswerCompliance
    <3>2. QED
      BY <1>1, <3>1 DEF TakeCompliance, Goto, Stop, Shaped, RunFields
  <2>3. QED
    BY <1>3, <2>1, <2>2
<1>4. CASE Register \/ PriceExternally \/ AnswerQuote
  <2>1. \/ run.pc = "new" /\ run'.pc = run.pc
        \/ \E r : TakeQuote(r)
        \/ \E code : Stop(code)
    BY <1>4 DEF Register, PriceExternally, AnswerQuote, Shaped, RunFields
  <2>2. run'.pc \in {"new", "failed", "comply"}
    <3>1. ASSUME NEW q, TakeQuote(q) PROVE run'.pc \in {"failed", "comply"}
      BY <3>1 DEF TakeQuote, Stop, Shaped, RunFields
    <3>2. QED
      BY <2>1, <3>1 DEF Stop, Shaped, RunFields
  <2>3. QED
    BY <1>1, <2>2
<1>5. CASE AnswerOpen31 \/ AnswerOpen6 \/ AnswerRead
  <2>1. \E r : TakeOpened(r)
    BY <1>5 DEF AnswerOpen31, AnswerOpen6, AnswerRead
  <2>2. run'.pc \in {"failed", "read", "gate"}
    <3>1. ASSUME NEW q, TakeOpened(q) PROVE run'.pc \in {"failed", "read", "gate"}
      BY <3>1 DEF TakeOpened, Goto, Stop, Shaped, RunFields
    <3>2. QED
      BY <2>1, <3>1
  <2>3. QED
    BY <1>1, <2>2
<1>6. CASE Judge
  <2>1. CASE \E code : Stop(code)
    BY <1>1, <2>1 DEF Stop, Shaped, RunFields
  <2>2. CASE Goto("settle") /\ \A c \in Check : verdict[c].passed
    <3>1. /\ run.pc = "checking" /\ UNCHANGED <<corridor, seen>> /\ run'.pc = "settle"
          /\ run'.attempt = run.attempt /\ run'.quote = run.quote /\ run'.opened = run.opened
      BY <1>6, <2>2 DEF Judge, Goto, Shaped, RunFields
    <3>2. \A c \in corridor.checks : Vouches(c)
      BY <1>6, <2>2, <3>1, PaymentAssumption DEF PaymentAssumption, Judge, Judged, Shaped
    <3>3. Request' = Request /\ toScaled(Request.amount) \in Int
      BY <3>1, RequestKept DEF Judged
    <3>4. QED
      BY <1>2, <3>1, <3>2, <3>3 DEF Judged
  <2>3. QED
    BY <1>6, <2>1, <2>2 DEF Judge
<1>7. CASE Settle
  <2>1. CASE run' = [run EXCEPT !.pc = "sent", !.sent = Request]
    <3>1. /\ run.pc = "settle" /\ UNCHANGED <<corridor, seen>> /\ run'.pc = "sent"
          /\ run'.attempt = run.attempt /\ run'.quote = run.quote /\ run'.opened = run.opened
          /\ run'.sent = Request
      BY <1>7, <2>1 DEF Settle, Shaped, RunFields
    <3>2. Request' = Request /\ toScaled(Request.amount) \in Int
      BY <3>1, RequestKept DEF Judged
    <3>3. QED
      BY <1>2, <3>1, <3>2 DEF Judged
  <2>2. CASE Goto("gate") \/ \E code : Stop(code)
    BY <1>1, <2>2 DEF Goto, Stop, Shaped, RunFields
  <2>3. QED
    BY <1>7, <2>1, <2>2 DEF Settle
<1>8. CASE GateTimer
  <2>1. /\ run.pc = "checking" /\ UNCHANGED <<corridor, run, seen>>
        /\ \A t \in GateReads : call'[t].step = "idle"
    BY <1>8 DEF GateTimer, TimerDue, NoCall, GateReads, Thread
  <2>2. ASSUME NEW c \in corridor.checks, verdict'[c].passed
        PROVE  Vouches(c)'
    <3>1. c \in Check
      BY PaymentAssumption DEF PaymentAssumption, Shaped
    <3>2. verdict[c] # None /\ verdict[c].passed
      BY <1>8, <2>2, <3>1 DEF GateTimer, Block
    <3>3. QED
      BY <1>2, <2>1, <3>2 DEF Judged
  <2>3. QED
    BY <2>1, <2>2, RequestKept DEF Judged
<1>9. CASE \/ Tick \/ Move \/ UNCHANGED vars
           \/ \E t \in Thread : Authenticate(t) \/ Handshake(t)
  <2>1. UNCHANGED <<corridor, run, verdict, seen>>
    BY <1>9 DEF Tick, Move, vars, Authenticate, Handshake
  <2>2. \A t \in GateReads : call'[t].step # "idle" => call[t].step # "idle"
    <3>1. CASE UNCHANGED call
      BY <3>1
    <3>2. ASSUME NEW t \in Thread, Authenticate(t) \/ Handshake(t),
                 NEW s \in GateReads, call'[s].step # "idle"
          PROVE  call[s].step # "idle"
      <4>1. call[t].step # "idle" /\ (s # t => call'[s] = call[s])
        BY <3>2 DEF Authenticate, Handshake, Ready, Shaped, GateReads, Thread
      <4>2. QED
        BY <3>2, <4>1
    <3>3. QED
      BY <1>9, <3>1, <3>2 DEF Tick, Move, vars
  <2>3. Request' = Request
    BY <2>1, RequestKept
  <2>4. QED
    BY <1>2, <2>1, <2>2, <2>3 DEF Judged
<1>10. QED
  BY <1>3, <1>4, <1>5, <1>6, <1>7, <1>8, <1>9, EvaluateJudged, CheckJudged
     DEF Next, Engine, Adapter

-----------------------------------------------------------------------------
(* The theorems *)

LEMMA InitPaid == Init => Quoted /\ Tokened /\ Judged /\ SomewhereToPay
  BY DEF Init, Quoted, Priced, Tokened, NoCall, Thread, Judged, SomewhereToPay

LEMMA AlwaysPaid == Spec => [](Shaped /\ Quoted /\ Tokened /\ Judged)
  BY InitShaped, InitPaid, NextShaped, NextQuoted, NextTokened, NextJudged, PTL DEF Spec

(* What is handed to the chain was vouched for in the very evaluation that *)
(* let it, by every check the corridor has, however the anchor changes its *)
(* mind, whatever it leaves unanswered, and however often the gate is      *)
(* evaluated again (packages/engine/src/gate.ts:41-102).                   *)
THEOREM PaysOnEvidence == Spec => []PaidOnEvidence
<1>1. Shaped /\ Judged => PaidOnEvidence
  <2> SUFFICES ASSUME Shaped, Judged, run.pc = "sent" PROVE PaidOnEvidence
    BY DEF PaidOnEvidence
  <2>1. run.sent = Request /\ \A c \in corridor.checks : Vouches(c)
    BY DEF Judged
  <2>2. ASSUME NEW c \in corridor.checks \ {"window"}
        PROVE  LET read == IF c = "range" THEN "info" ELSE c
               IN  (c = "kyc" /\ ~corridor.kycServer) \/ seen[read].attempt = run.attempt
    BY <2>1, <2>2 DEF Vouches, ReadOf
  <2>3. "info" \in corridor.checks =>
            seen["info"].what # None /\ seen["info"].what.enabled # FALSE
    BY <2>1 DEF Vouches
  <2>4. "range" \in corridor.checks => InRange
    <3>1. RangeHolds(seen["info"].what, run.sent.amount) => InRange
      BY DEF RangeHolds, InRange
    <3>2. QED
      BY <2>1, <3>1 DEF Vouches
  <2>5. "kyc" \in corridor.checks /\ corridor.kycServer =>
            seen["kyc"].what = "ACCEPTED" /\ (corridor.signer => seen["kyc"].authenticated)
    BY <2>1 DEF Vouches
  <2>6. "tx" \in corridor.checks => Expected
    BY <2>1 DEF Vouches, Awaited, Expected
  <2>7. QED
    BY <2>2, <2>3, <2>4, <2>5, <2>6 DEF PaidOnEvidence
<1>2. QED
  BY <1>1, AlwaysPaid, PTL

(* A firm quote that is used agrees with itself up to the tolerance and    *)
(* one unit of rounding, whatever the number of decimals: both products    *)
(* are rounded to the nearest, and reading back what was written loses     *)
(* nothing (packages/adapter-kit/src/index.ts:359-387, packages/types/src/ *)
(* money.ts).                                                              *)
THEOREM QuotesAddUp == Spec => []QuoteAddsUp
<1>1. Quoted => QuoteAddsUp
  BY DEF Quoted, Fair, AddsUp, QuoteAddsUp
<1>2. QED
  BY <1>1, AlwaysPaid, PTL

(* A SEP-6 transaction that was opened says where to pay, whether it was   *)
(* its opening that named the account or the one read of its record        *)
(* (packages/sep6/src/index.ts:697-710, 804-815).                          *)
THEOREM OpenedSomewhere == Spec => []SomewhereToPay
  BY InitShaped, InitPaid, NextShaped, NextSomewhere, PTL DEF Spec

-----------------------------------------------------------------------------
(* The lane *)

Counted ==
    /\ streak = lane.fails
    /\ lane.fails >= Threshold => lane.state = "open"

HaltRecord == [n : Nat, at : Nat, first : Nat, fresh : Nat, echoes : Nat]

(* With the Postgres store the time in an open row is the last halt's;     *)
(* with the memory store the time in a row, open or not, is that of the    *)
(* first halt since a reset.                                               *)
Dated ==
    IF store = "postgres"
    THEN lane.state = "open" => lane.trippedAt = halt.at
    ELSE lane.trippedAt = halt.first /\ (lane.state = "open" => halt.first # Never)

Known == Dated /\ HaltsAreMetered

LEMMA InitLane == LaneInit => TypeOK /\ Counted /\ Known /\ clock >= 1
  BY LaneAssumption
     DEF LaneInit, TypeOK, LaneRecord, Counted, Known, Dated, HaltsAreMetered, Closed, Never,
         NoReport, NoHalt, LaneAssumption

(* The parts of the row that a failure leaves. *)
LEMMA FailureParts ==
    ASSUME TypeOK, NEW at \in Nat
    PROVE  /\ Failure(lane, at) \in LaneRecord
           /\ Failure(lane, at).state = Opened(lane)
           /\ Failure(lane, at).fails = lane.fails + 1
           /\ Failure(lane, at).trippedAt =
                  IF store = "postgres" THEN PostgresTime(lane, at) ELSE MemoryTime(lane, at)
  BY DEF TypeOK, LaneRecord, Failure, Opened, PostgresTime, MemoryTime, Never

LEMMA SuccessParts ==
    ASSUME TypeOK
    PROVE  /\ Success(lane) \in LaneRecord
           /\ Success(lane).state = "closed" /\ Success(lane).fails = 0
  BY DEF TypeOK, LaneRecord, Success

LEMMA HaltedTyped ==
    ASSUME TypeOK, NEW next \in LaneRecord, NEW at \in Nat
    PROVE  Halted(next, at) \in HaltRecord
  <1> DEFINE first == [halt EXCEPT !.n = @ + 1, !.at = at,
                          !.first = IF @ = Never THEN at ELSE @,
                          !.fresh = IF halt.first = Never THEN @ + 1 ELSE @]
             echo == [halt EXCEPT !.echoes = @ + 1]
  <1>1. first \in HaltRecord
    <2> DEFINE f == IF halt.first = Never THEN at ELSE halt.first
               g == IF halt.first = Never THEN halt.fresh + 1 ELSE halt.fresh
    <2>1. /\ halt \in HaltRecord /\ halt.n + 1 \in Nat /\ halt.echoes \in Nat
          /\ f \in Nat /\ g \in Nat
      BY DEF TypeOK, HaltRecord
    <2>2. first = [halt EXCEPT !.n = halt.n + 1, !.at = at, !.first = f, !.fresh = g]
      BY <2>1 DEF HaltRecord
    <2> HIDE DEF first, f, g
    <2>3. first = [n |-> halt.n + 1, at |-> at, first |-> f, fresh |-> g, echoes |-> halt.echoes]
      BY <2>1, <2>2 DEF HaltRecord
    <2> QED BY <2>1, <2>3 DEF HaltRecord
  <1>2. echo \in HaltRecord
    BY DEF TypeOK, HaltRecord
  <1>3. halt \in HaltRecord
    BY DEF TypeOK, HaltRecord
  <1> QED BY <1>1, <1>2, <1>3 DEF Halted

LEMMA RecordTyped ==
    ASSUME TypeOK, NEW o, NEW at \in Nat, RecordOutcome(o, at)
    PROVE  lane' \in LaneRecord /\ tripped' \in Nat /\ halt' \in HaltRecord
           /\ streak' \in Nat
  <1>1. lane' \in LaneRecord
    BY FailureParts, SuccessParts DEF RecordOutcome
  <1>2. tripped' \in Nat /\ streak' \in Nat
    BY DEF RecordOutcome, TypeOK
  <1>3. halt' = Halted(lane', at)
    BY DEF RecordOutcome
  <1> QED BY <1>1, <1>2, <1>3, HaltedTyped

(* A failure that opens the lane is dated and counted in the same step.    *)
LEMMA HaltKnown ==
    ASSUME TypeOK, Known, NEW at \in Nat \ {0}, UNCHANGED store,
           lane' = Failure(lane, at), lane.state = "closed", lane'.state = "open",
           halt' = Halted(lane', at),
           tripped' = IF justTripped(lane', at) THEN tripped + 1 ELSE tripped
    PROVE  Known'
  <1>1. /\ halt'.n = halt.n + 1 /\ halt'.at = at /\ halt'.echoes = halt.echoes
        /\ halt'.first = (IF halt.first = Never THEN at ELSE halt.first)
        /\ halt'.fresh = (IF halt.first = Never THEN halt.fresh + 1 ELSE halt.fresh)
    BY DEF Halted, TypeOK
  <1>2. /\ tripped \in Nat /\ halt.n \in Nat /\ halt.fresh \in Nat /\ halt.echoes \in Nat
        /\ store' = store
    BY DEF TypeOK
  <1>3. Trips(lane)
    BY FailureParts DEF Opened
  <1>4. CASE store = "postgres"
    <2>1. lane'.trippedAt = at
      BY <1>3, <1>4, FailureParts DEF PostgresTime
    <2>2. tripped' = tripped + 1
      BY <2>1 DEF justTripped
    <2> QED BY <1>1, <1>2, <1>4, <2>1, <2>2 DEF Known, Dated, HaltsAreMetered
  <1>5. CASE store # "postgres"
    <2>1. lane'.trippedAt = halt'.first
      BY <1>1, <1>3, <1>5, FailureParts DEF MemoryTime, Known, Dated
    <2>2. halt.first = Never => tripped' = tripped + 1
      BY <1>1, <2>1 DEF justTripped
    <2>3. tripped' \in {tripped, tripped + 1}
      OBVIOUS
    <2>4. halt'.first # Never
      BY <1>1 DEF Never
    <2> QED BY <1>1, <1>2, <1>5, <2>1, <2>2, <2>3, <2>4 DEF Known, Dated, HaltsAreMetered
  <1> QED BY <1>4, <1>5

(* A failure on a lane that was open already, or that stays closed, moves  *)
(* no time; it is counted once more when it is of the marked halt's        *)
(* instant.                                                                *)
LEMMA EchoKnown ==
    ASSUME TypeOK, Known, NEW at \in Nat \ {0}, UNCHANGED store,
           lane' = Failure(lane, at), ~(lane.state = "closed" /\ lane'.state = "open"),
           halt' = Halted(lane', at),
           tripped' = IF justTripped(lane', at) THEN tripped + 1 ELSE tripped
    PROVE  Known'
  <1>1. /\ tripped \in Nat /\ halt.n \in Nat /\ halt.fresh \in Nat /\ halt.echoes \in Nat
        /\ store' = store
    BY DEF TypeOK
  <1>2. lane.state \in {"open", "closed"} /\ lane'.state = Opened(lane)
    BY FailureParts DEF TypeOK, LaneRecord
  <1>3. CASE lane.state = "open"
    <2>1. lane'.state = "open"
      BY <1>2, <1>3 DEF Opened
    <2>2. lane'.trippedAt = lane.trippedAt
      BY <1>3, FailureParts DEF PostgresTime, MemoryTime, Known, Dated
    <2>3. lane.trippedAt = Marked
      BY <1>3 DEF Known, Dated, Marked
    <2>4. halt' = (IF at = Marked THEN [halt EXCEPT !.echoes = @ + 1] ELSE halt)
      BY <1>3, <2>1 DEF Halted
    <2>5. tripped' = (IF at = Marked THEN tripped + 1 ELSE tripped)
      BY <2>1, <2>2, <2>3 DEF justTripped
    <2>6. /\ halt'.n = halt.n /\ halt'.at = halt.at /\ halt'.first = halt.first
          /\ halt'.fresh = halt.fresh
          /\ halt'.echoes = (IF at = Marked THEN halt.echoes + 1 ELSE halt.echoes)
      BY <2>4 DEF TypeOK
    <2> QED BY <1>1, <1>3, <2>1, <2>2, <2>5, <2>6 DEF Known, Dated, HaltsAreMetered
  <1>4. CASE lane.state # "open"
    <2>1. lane.state = "closed" /\ lane'.state = "closed"
      BY <1>2, <1>4 DEF Opened
    <2>2. halt' = halt /\ tripped' = tripped
      BY <2>1 DEF Halted, justTripped
    <2>3. ~Trips(lane)
      BY <1>2, <2>1 DEF Opened
    <2>4. store # "postgres" => lane'.trippedAt = lane.trippedAt
      BY <2>3, FailureParts DEF MemoryTime
    <2> QED BY <1>1, <2>1, <2>2, <2>4 DEF Known, Dated, HaltsAreMetered
  <1> QED BY <1>3, <1>4

(* One outcome recorded keeps the counter exact, and a halt is dated and   *)
(* counted in the step that opens the lane.                                *)
LEMMA RecordKeeps ==
    ASSUME TypeOK, Counted, Known, NEW o \in {"success", "failure"}, NEW at \in Nat \ {0},
           RecordOutcome(o, at), UNCHANGED store
    PROVE  Counted' /\ Known'
  <1>1. CASE o = "success"
    <2>1. lane' = Success(lane) /\ streak' = 0 /\ tripped' = tripped
      BY <1>1 DEF RecordOutcome
    <2>2. lane'.state = "closed" /\ lane'.fails = 0 /\ lane'.trippedAt = lane.trippedAt
      BY <2>1, SuccessParts DEF Success, TypeOK, LaneRecord
    <2>3. halt' = halt
      BY <2>1, <2>2 DEF RecordOutcome, Halted
    <2> QED BY <2>1, <2>2, <2>3, LaneAssumption
               DEF Counted, Known, Dated, HaltsAreMetered, LaneAssumption
  <1>2. CASE o # "success"
    <2>1. /\ lane' = Failure(lane, at) /\ streak' = streak + 1
          /\ tripped' = (IF justTripped(lane', at) THEN tripped + 1 ELSE tripped)
          /\ halt' = Halted(lane', at)
      BY <1>2 DEF RecordOutcome
    <2>2. Counted'
      BY <2>1, FailureParts, LaneAssumption
         DEF TypeOK, LaneRecord, Counted, Opened, Trips, LaneAssumption
    <2> QED BY <2>1, <2>2, HaltKnown, EchoKnown
  <1> QED BY <1>1, <1>2

(* Only a verdict of success or failure is recorded, at a time that was.   *)
Reportable ==
    /\ clock >= 1
    /\ \A r \in Run : pc[r] \in {"record", "sent"} =>
           report[r].outcome \in {"success", "failure"}
    /\ \A r \in Run : pc[r] = "sent" => report[r].at >= 1

LaneInv == TypeOK /\ Counted /\ Known /\ Reportable

(* A call that writes nothing of the breaker's. *)
LEMMA MoveKeeps ==
    ASSUME LaneInv, NEW r \in Run, Execute(r) \/ Gate(r) \/ Claim(r) \/ Resolve(r) \/ Crash(r)
    PROVE  LaneInv'
  <1>1. UNCHANGED <<breaker, store, clock>>
    BY DEF Execute, Gate, Claim, Resolve, Crash
  <1>2. pc' \in [Run -> {"idle", "gate", "halted", "claim", "running", "record", "sent"}]
    BY DEF LaneInv, TypeOK, Execute, Gate, Claim, Resolve, Crash, Reach
  <1>3. row' \in [Run -> {"none", "live", "resolved"}]
    BY DEF LaneInv, TypeOK, Execute, Gate, Claim, Resolve, Crash
  <1>4. report' \in [Run -> [outcome : {"none", "success", "failure", "neutral"}, at : Nat]]
    <2>1. CASE Resolve(r)
      <3>1. PICK o \in {"success", "failure", "neutral"} :
                report' = [report EXCEPT ![r].outcome = o]
        BY <2>1 DEF Resolve
      <3> QED BY <3>1 DEF LaneInv, TypeOK
    <2> QED BY <2>1 DEF LaneInv, TypeOK, Execute, Gate, Claim, Crash
  <1>5. Reportable'
    <2>1. CASE Resolve(r)
      <3>1. PICK o \in {"success", "failure", "neutral"} :
                /\ report' = [report EXCEPT ![r].outcome = o]
                /\ pc' = [pc EXCEPT ![r] = IF o = "neutral" THEN "idle" ELSE "record"]
        BY <2>1 DEF Resolve, Reach
      <3>2. report'[r].outcome = o /\ \A q \in Run : q # r => report'[q] = report[q]
        BY <3>1 DEF LaneInv, TypeOK
      <3>3. pc'[r] # "sent" /\ \A q \in Run : q # r => pc'[q] = pc[q]
        BY <3>1 DEF LaneInv, TypeOK
      <3>4. pc'[r] = "record" => o # "neutral"
        BY <3>1 DEF LaneInv, TypeOK
      <3> QED BY <1>1, <3>2, <3>3, <3>4 DEF LaneInv, Reportable
    <2>2. CASE Execute(r) \/ Gate(r) \/ Claim(r) \/ Crash(r)
      BY <2>2 DEF LaneInv, Reportable, TypeOK, Execute, Gate, Claim, Crash, Reach
    <2> QED BY <2>1, <2>2
  <1> QED BY <1>1, <1>2, <1>3, <1>4, <1>5
          DEF LaneInv, TypeOK, Counted, Known, Dated, HaltsAreMetered, breaker

LEMMA RecordsKeep ==
    ASSUME LaneInv, NEW r \in Run, Record(r) \/ Upsert(r)
    PROVE  LaneInv'
  <1>1. /\ UNCHANGED <<store, clock, row>>
        /\ pc' \in [Run -> {"idle", "gate", "halted", "claim", "running", "record", "sent"}]
    BY DEF LaneInv, TypeOK, Record, Upsert, Reach
  <1>2. report' \in [Run -> [outcome : {"none", "success", "failure", "neutral"}, at : Nat]]
    <2>1. CASE Record(r)
      <3>1. report' = [report EXCEPT ![r].at = clock]
        BY <2>1 DEF Record
      <3> QED BY <3>1 DEF LaneInv, TypeOK
    <2> QED BY <2>1 DEF LaneInv, TypeOK, Upsert
  <1>3. Reportable'
    <2>1. CASE Record(r)
      <3>1. /\ report'[r].outcome = report[r].outcome /\ report'[r].at = clock
            /\ \A q \in Run : q # r => report'[q] = report[q]
        BY <2>1 DEF Record, LaneInv, TypeOK
      <3> QED BY <2>1, <3>1 DEF Record, Reach, LaneInv, TypeOK, Reportable
    <2>2. CASE Upsert(r)
      BY <2>2 DEF Upsert, Reach, LaneInv, TypeOK, Reportable
    <2> QED BY <2>1, <2>2
  <1>4. CASE UNCHANGED breaker
    BY <1>1, <1>2, <1>3, <1>4
       DEF LaneInv, TypeOK, Counted, Known, Dated, HaltsAreMetered, breaker
  <1>5. CASE \E o \in {"success", "failure"}, at \in Nat \ {0} : RecordOutcome(o, at)
    BY <1>1, <1>2, <1>3, <1>5, RecordTyped, RecordKeeps DEF LaneInv, TypeOK, HaltRecord
  <1>6. /\ clock \in Nat \ {0} /\ report[r].outcome \in {"success", "failure"}
        /\ pc[r] = "sent" => report[r].at \in Nat \ {0}
    BY DEF LaneInv, TypeOK, Reportable, Record, Upsert
  <1> QED BY <1>4, <1>5, <1>6 DEF Record, Upsert

LEMMA NextLane == LaneInv /\ [LaneNext]_laneVars => LaneInv'
  <1> SUFFICES ASSUME LaneInv, [LaneNext]_laneVars PROVE LaneInv'
    OBVIOUS
  <1>1. CASE Reset
    <2>1. /\ lane' = Closed /\ streak' = 0 /\ halt' = [halt EXCEPT !.first = Never]
          /\ UNCHANGED <<store, clock, pc, row, report, tripped>>
      BY <1>1 DEF Reset
    <2>2. /\ Closed \in LaneRecord /\ Closed.fails = 0 /\ Closed.state = "closed"
          /\ Closed.trippedAt = Never
      BY DEF Closed, LaneRecord, Never
    <2>3. /\ halt' \in HaltRecord /\ halt'.first = Never /\ halt'.n = halt.n
          /\ halt'.fresh = halt.fresh /\ halt'.echoes = halt.echoes
      BY <2>1 DEF LaneInv, TypeOK, HaltRecord, Never
    <2>4. Known'
      BY <2>1, <2>2, <2>3 DEF LaneInv, Known, Dated, HaltsAreMetered
    <2> QED BY <2>1, <2>2, <2>3, <2>4, LaneAssumption
               DEF LaneInv, TypeOK, HaltRecord, Counted, Reportable, LaneAssumption
  <1>2. CASE LaneTick
    BY <1>2 DEF LaneTick, LaneInv, TypeOK, Counted, Known, Dated, HaltsAreMetered, Reportable,
                breaker
  <1>3. CASE UNCHANGED laneVars
    BY <1>3 DEF laneVars, LaneInv, TypeOK, Counted, Known, Dated, HaltsAreMetered, Reportable
  <1> QED BY <1>1, <1>2, <1>3, MoveKeeps, RecordsKeep DEF LaneNext, Step

(* Every state of the lane and the runs on it is typed. *)
THEOREM LaneTyped == LaneSpec => []TypeOK
  <1>1. LaneInit => LaneInv
    BY InitLane DEF LaneInit, LaneInv, Reportable
  <1>2. LaneInv => TypeOK
    BY DEF LaneInv
  <1> QED BY <1>1, <1>2, NextLane, PTL DEF LaneSpec

(* Threshold failures in a row halt the lane, whichever replicas recorded  *)
(* them and however late their statements were (breaker-pg.ts:121-130).    *)
THEOREM FailuresHalt == LaneSpec => []StreakHalts
  <1>1. LaneInit => LaneInv
    BY InitLane DEF LaneInit, LaneInv, Reportable
  <1>2. LaneInv => StreakHalts
    BY DEF LaneInv, Counted, StreakHalts
  <1> QED BY <1>1, <1>2, NextLane, PTL DEF LaneSpec

(* For any number of replicas and any order of their statements            *)
(* (breaker.ts:291-294): the counter is the number of halts and of echoes  *)
(* with the Postgres store, lies between the halts that follow a reset and *)
(* that number with the memory store, and an open lane is dated.           *)
THEOREM HaltsAreSeen == LaneSpec => []HaltsAreKnown
  <1>1. LaneInit => LaneInv
    BY InitLane DEF LaneInit, LaneInv, Reportable
  <1>2. LaneInv => HaltsAreKnown
    BY DEF LaneInv, Known, Dated, Marked, HaltsAreKnown, TrippedAtIsTheTrip
  <1> QED BY <1>1, <1>2, NextLane, PTL DEF LaneSpec

=============================================================================
