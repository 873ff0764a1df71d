-------------------------------- MODULE Money --------------------------------
(***************************************************************************)
(* internal/domain/money.go: amounts in minor units of a currency, held in *)
(* an int64, and the float64 numbers they are converted from and to.       *)
(*                                                                         *)
(* The module has no state.  The widths of int64 and float64 are constants *)
(* that an instance makes small: an amount wraps around beyond MaxAmount,  *)
(* and a whole number is exact as a float64 up to Mantissa.                *)
(*                                                                         *)
(* A float64 with a fraction is counted in the smallest step there is,     *)
(* 1/Fraction: Doubles are all float64s counted that way, Floats the whole *)
(* numbers among them.  NaN and the infinities are left out.               *)
(***************************************************************************)
EXTENDS Integers, FiniteSetsExt

CONSTANTS
    MaxAmount,      \* the largest int64
    Mantissa,       \* 2^53: a float64 holds every whole number up to it
    Fraction,       \* 2^1074: the smallest float64 is 1/Fraction
    Powers,         \* the powers of two a float64 counts in, in 1/Fraction
    Supported,      \* the currency codes isValidCurrency knows
    Unsupported,    \* other strings a caller may pass for one
    Undivided,      \* the supported currency without minor units, JPY
    Cents           \* minor units of the others, 100

ASSUME MoneyAssumption ==
    /\ MaxAmount \in Nat /\ Mantissa \in 1 .. MaxAmount
    /\ Fraction \in Powers /\ 1 \in Powers /\ Powers \subseteq Nat \ {0}
    /\ Supported \cap Unsupported = {} /\ Undivided \in Supported
    /\ Cents \in Nat \ {0}

\* A significand has more than one bit, a minor unit is a number of full
\* precision, and the powers of two leave no gap: a number has a place between
\* half of what one of them can count to and all of it.
ASSUME PrecisionAssumption ==
    /\ Mantissa % 2 = 0 /\ 2 * Mantissa * Cents <= Fraction /\ Cents <= Mantissa
    /\ \A n \in Mantissa .. Mantissa * Fraction :
          \E p \in Powers : n <= Mantissa * p /\ Mantissa * p < 2 * n

MinAmount  == -MaxAmount - 1
Int64      == MinAmount .. MaxAmount
Currencies == Supported \cup Unsupported

\* The error every constructor and operation may return instead.
Refusal == [amount |-> 0, currency |-> "error"]

ASSUME RefusalAssumption == "error" \notin Currencies

\* int64 arithmetic keeps the low bits of the result.
Wrap(n) == ((n - MinAmount) % (2 * MaxAmount + 2)) + MinAmount

\* The float64s, counted in 1/Fraction, and the whole numbers among them.
Doubles == {m * p : m \in -Mantissa .. Mantissa, p \in Powers}

Units  == {p \div Fraction : p \in {q \in Powers : q % Fraction = 0}}
Floats == {m * u : m \in -Mantissa .. Mantissa, u \in Units}

\* Of two neighbours as near to a number, the one with an even significand,
\* which counts their distance, is taken for it.
Distance(x, y) == IF x < y THEN y - x ELSE x - y
Rounds(n, x, y) ==
    \/ x = y \/ Distance(n, x) < Distance(n, y)
    \/ Distance(n, x) = Distance(n, y) /\ (x \div Distance(x, y)) % 2 = 0

\* float64(n).  Beyond the largest float64 no number is meant.
Float(n) ==
    IF n \in Floats THEN n
    ELSE LET gap  == Min({Distance(n, x) : x \in Floats})
             near == {x \in Floats : Distance(n, x) = gap}
         IN  CHOOSE x \in near : \A y \in near : Rounds(n, x, y)

\* The float64 nearest to num/den, in 1/Fraction.
Nearest(num, den) ==
    {x \in Doubles : \A y \in Doubles : Rounds(num, x * den, y * den)}

-----------------------------------------------------------------------------

isValidCurrency(c) == c \in Supported

NewMoney(amount, currency) ==
    IF amount < 0 \/ ~isValidCurrency(currency) THEN Refusal
    ELSE [amount |-> amount, currency |-> currency]

Add(m, other) ==
    IF m.currency # other.currency THEN Refusal
    ELSE [amount |-> Wrap(m.amount + other.amount), currency |-> m.currency]

Multiply(m, multiplier) ==
    IF multiplier < 0 THEN Refusal
    ELSE [amount |-> Wrap(m.amount * multiplier), currency |-> m.currency]

MinorUnitsPerUnit(c) == IF c = Undivided THEN 1 ELSE Cents

\* int64(f) for a whole number f: what it gives beyond int64 depends on the
\* machine, the least int64 (amd64) or the nearest one (arm64).
ToInt64(f) == IF f \in Int64 THEN {f}
              ELSE {MinAmount, IF f < 0 THEN MinAmount ELSE MaxAmount}

\* A fault the properties must notice: the fraction is dropped, not rounded.
FromMajorTruncated(major, currency) ==
    IF major < 0 \/ ~isValidCurrency(currency) THEN {Refusal}
    ELSE UNION {{NewMoney(a, currency) : a \in ToInt64(amount \div Fraction)} :
                amount \in Nearest(major * MinorUnitsPerUnit(currency), 1)}

\* FromMajor, as the set of what it may return for a float64 in 1/Fraction: its
\* product is rounded to a float64, then math.Round takes halves up.
FromMajor(major, currency) ==
    IF major < 0 \/ ~isValidCurrency(currency) THEN {Refusal}
    ELSE UNION {{NewMoney(a, currency) :
                    a \in ToInt64((2 * product + Fraction) \div (2 * Fraction))} :
                product \in Nearest(major * MinorUnitsPerUnit(currency), 1)}

=============================================================================
