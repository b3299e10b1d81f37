------------------------------ MODULE Decimal ------------------------------
(***************************************************************************)
(* Reading a price: fmma_parse_scaled of Software/src/fmma_fixed.c.  A text*)
(* is what the loops of the parser see of it: the sign, the digits before  *)
(* the point and the digits after it; whatever follows is never looked at. *)
(* The value is a 64-bit integer and would wrap.                           *)
(***************************************************************************)
EXTENDS FixedPoint, Sequences

\* Power(b)[n] is b^n, in a form the provers can unfold.
Power(b) == LET p[k \in Nat] == IF k = 0 THEN 1 ELSE b * p[k - 1] IN p

CONSTANTS
    Scale,           \* FMMA_PRICE_SCALE, units per whole (100)
    Places,          \* decimal places of the scale (2)
    WHOLE_SATURATE,  \* an integer part from here on takes no more digits (10^8)
    WideMod          \* 2^64

ASSUME DecimalAssumption ==
    /\ Places \in Nat /\ Scale = Power(10)[Places] /\ WHOLE_SATURATE \in Nat \ {0}
    /\ FMMA_PRICE_MAX < WHOLE_SATURATE * Scale
    /\ WideMod \in Nat /\ 2 * (10 * WHOLE_SATURATE * Scale) <= WideMod

\* What the parser sees.
Text == [neg : BOOLEAN, whole : Seq(0 .. 9), frac : Seq(0 .. 9)]

Wide(x) == ((x + WideMod \div 2) % WideMod) - WideMod \div 2

PARSE_ERROR == -(WideMod \div 2)

Shifted(n, d) == Wide(10 * n + d)

\* Mutant: every digit of the integer part is taken in.
WholeWrapping(digits) ==
    LET n[i \in 0 .. Len(digits)] == IF i = 0 THEN 0 ELSE Shifted(n[i - 1], digits[i])
    IN  n[Len(digits)]

\* n[i] is whole after i digits.
Whole(digits) ==
    LET n[i \in 0 .. Len(digits)] ==
          IF i = 0 THEN 0
          ELSE IF n[i - 1] < WHOLE_SATURATE THEN Shifted(n[i - 1], digits[i])
          ELSE n[i - 1]
    IN  n[Len(digits)]

\* As many digits as the scale has places: the rest is cut off, missing ones
\* are zero.
Fraction(digits) ==
    LET f[i \in 0 .. Places] ==
          IF i = 0 THEN 0
          ELSE Shifted(f[i - 1], IF i <= Len(digits) THEN digits[i] ELSE 0)
    IN  f[Places]

ParseScaled(text) ==
    IF text.whole = <<>> THEN PARSE_ERROR
    ELSE LET v == Wide(Whole(text.whole) * Scale + Fraction(text.frac))
         IN  IF text.neg THEN -v ELSE v

-----------------------------------------------------------------------------
\* The number a text names, without its point: every digit times its power of
\* ten, added up.
Digits(text)  == text.whole \o text.frac
Numeral(text) ==
    LET d == Digits(text)
        s[i \in 0 .. Len(d)] == IF i = 0 THEN 0 ELSE s[i - 1] + d[i] * Power(10)[Len(d) - i]
    IN  s[Len(d)]

\* p is the price of the text in units, cut off below a unit.
IsPriceOf(p, text) ==
    LET one == Power(10)[Len(text.frac)]
    IN  p * one <= Numeral(text) * Scale /\ Numeral(text) * Scale < (p + 1) * one
=============================================================================
