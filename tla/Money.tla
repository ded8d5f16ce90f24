--------------------------------- MODULE Money ---------------------------------
(***************************************************************************)
(* Decimal-safe money (packages/types/src/money.ts).  An amount on the     *)
(* wire is a decimal string: here its digits m and the number d of them    *)
(* behind the point, as "1.50" is [m |-> 150, d |-> 2], or Bad for what    *)
(* isValidAmount rejects.  Arithmetic is on integers, in units of the last *)
(* of Scale decimal places; None is the outcome AMOUNT_INVALID, as it is   *)
(* of whatever else is absent.                                             *)
(***************************************************************************)
EXTENDS Integers

CONSTANTS
    Scale,      \* STROOP_SCALE
    None, Bad   \* what is absent, what cannot be read

Factor == 10 ^ Scale

ASSUME MoneyAssumption ==
    /\ Scale \in Nat
    /\ None \notin Int /\ Bad \notin Int

(* What is absent or unreadable is no amount; powers of ten are positive.  *)
ASSUME DecimalAssumption ==
    /\ None # Bad
    /\ \A x \in {None, Bad} : x \notin [m : Int, d : Int]
    /\ 10 ^ 0 = 1 /\ \A k \in 0 .. Scale : 10 ^ k \in Nat \ {0}

Abs(v) == IF v < 0 THEN -v ELSE v

isValidAmount(s) == s \notin {None, Bad}

(* toScaled: exact, or refused when more decimals are written than kept.   *)
toScaled(s) ==
    IF isValidAmount(s) /\ s.d <= Scale THEN s.m * 10 ^ (Scale - s.d) ELSE None

(* fromScaled: the canonical string, without trailing zeros. *)
fromScaled(v) ==
    LET d == CHOOSE k \in 0 .. Scale :
                /\ v % 10 ^ (Scale - k) = 0
                /\ \A j \in 0 .. k - 1 : v % 10 ^ (Scale - j) # 0
        sign == IF v < 0 THEN -1 ELSE 1
    IN  [m |-> sign * (Abs(v) \div 10 ^ (Scale - d)), d |-> d]

isSettleableAmount(s) == toScaled(s) # None /\ toScaled(s) > 0

(* subAmounts: both operands must be representable. *)
subAmounts(a, b) ==
    IF None \in {toScaled(a), toScaled(b)} THEN None
    ELSE fromScaled(toScaled(a) - toScaled(b))

compareAmounts(a, b) ==
    LET x == toScaled(a)
        y == toScaled(b)
    IN  IF None \in {x, y} THEN None
        ELSE IF x < y THEN -1 ELSE IF x > y THEN 1 ELSE 0

(* The quotient rounded to the nearest integer, half away from zero: the   *)
(* division of BigInts truncates.                                          *)
Rounded(product, unit) ==
    LET half == unit \div 2
    IN  IF product >= 0 THEN (product + half) \div unit
        ELSE -((-product + half) \div unit)

(* applyPrice: an amount times a price, rounded to Scale decimals. *)
applyPrice(amount, price) ==
    IF None \in {toScaled(amount), toScaled(price)} THEN None
    ELSE fromScaled(Rounded(toScaled(amount) * toScaled(price), Factor))

=============================================================================
