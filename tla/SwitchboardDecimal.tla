-------------------------- MODULE SwitchboardDecimal --------------------------
(***************************************************************************)
(* SwitchboardDecimal: a mantissa of 128 bits and a number of decimal      *)
(* places.  i128 reaches from -I128Max - 1 to I128Max; rust_decimal holds  *)
(* mantissas up to DecimalMax, with at most DecimalScale places.           *)
(***************************************************************************)
EXTENDS Integers

CONSTANTS I128Max, DecimalMax, DecimalScale

ASSUME DecimalAssumption ==
    /\ I128Max \in Nat /\ DecimalMax \in 0 .. I128Max
    /\ DecimalScale \in Nat

Panic == [error |-> "panic", value |-> 0]
Ok(x) == [error |-> "none", value |-> x]

Magnitude(x) == IF x < 0 THEN -x ELSE x
FitsI128(x) == -I128Max - 1 <= x /\ x <= I128Max
Wrapped(x) == ((x + I128Max + 1) % (2 * I128Max + 2)) - I128Max - 1

\* Powers of ten.
TenTo[n \in Nat] == IF n = 0 THEN 1 ELSE 10 * TenTo[n - 1]

\* 10_i128.pow(n): with overflow checks it panics, without them it wraps.
Power(n, checked) ==
    IF FitsI128(TenTo[n]) THEN Ok(TenTo[n]) ELSE IF checked THEN Panic ELSE Ok(Wrapped(TenTo[n]))

\* Mutant: the quotient is rounded down.
Quotient_Floor(a, b) == IF b > 0 THEN a \div b ELSE (-a) \div (-b)

\* i128 division: toward zero.
Quotient(a, b) ==
    LET q == Magnitude(a) \div Magnitude(b)
    IN  IF (a < 0) = (b < 0) THEN q ELSE -q

\* Mutant: the other way round.
scale_to_Swapped(d, new_scale, checked) ==
    LET power == Power(Magnitude(d.scale - new_scale), checked)
    IN  IF d.scale = new_scale THEN Ok(d.mantissa)
        ELSE IF power.error # "none" \/ power.value = 0 THEN Panic
        ELSE IF d.scale < new_scale THEN Ok(Quotient(d.mantissa, power.value))
        ELSE IF FitsI128(d.mantissa * power.value) THEN Ok(d.mantissa * power.value)
        ELSE Panic

\* scale_to: the mantissa at another scale; unwrap of a division by zero, or of
\* a product that does not fit, panics.
scale_to(d, new_scale, checked) ==
    LET power == Power(Magnitude(d.scale - new_scale), checked)
    IN  IF d.scale = new_scale THEN Ok(d.mantissa)
        ELSE IF power.error # "none" THEN Panic
        ELSE IF d.scale > new_scale
        THEN IF power.value = 0 THEN Panic ELSE Ok(Quotient(d.mantissa, power.value))
        ELSE IF FitsI128(d.mantissa * power.value) THEN Ok(d.mantissa * power.value)
        ELSE Panic

\* try_into: to a rust_decimal, if it holds the number.
IsDecimal(d) == Magnitude(d.mantissa) <= DecimalMax /\ d.scale <= DecimalScale

\* The order, which rust_decimal decides by the numbers the two stand for; two
\* numbers that differ only in trailing zeros are equal in it.
Cmp(a, b) ==
    LET x == a.mantissa * TenTo[b.scale]
        y == b.mantissa * TenTo[a.scale]
    IN  IF ~ IsDecimal(a) \/ ~ IsDecimal(b) THEN "panic"
        ELSE IF x < y THEN "less" ELSE IF x > y THEN "greater" ELSE "equal"

\* From<SwitchboardDecimal> for bool: round to the nearest integer, a half to the
\* even one, and compare with 0.
ToBool(d) == 2 * Magnitude(d.mantissa) > TenTo[d.scale]
===============================================================================
