------------------------------- MODULE MCPath -------------------------------
(* An instance of QuotePath for TLC: six-bit registers, a largest price of  *)
(* 15 tenths, integers of 512 values and an integer part that takes no more *)
(* digits once it has reached 2.                                            *)
EXTENDS QuotePath

\* Power is exponentiation.
ASSUME PowerIsPower == \A b \in {2, 10}, n \in 0 .. 6 : Power(b)[n] = b^n

\* No number, zero, a price on either side of the largest, a digit too many
\* behind the point, enough digits to wrap the integers; a negative price.
EdgeTexts == [neg : {FALSE}, whole : {<<>>, <<0>>, <<1>>},
              frac : {<<>>, <<5>>, <<6>>, <<0, 5>>}]
             \union [neg : {FALSE}, whole : {<<1, 0>>, <<1, 0, 3>>}, frac : {<<>>, <<6>>}]
             \union [neg : {TRUE}, whole : {<<1>>}, frac : {<<>>}]

\* Two ordinary prices, and a malformed one far above the largest.
WithMalformedTexts ==
    [neg : {FALSE}, whole : {<<1>>}, frac : {<<>>, <<2>>}]
    \union [neg : {FALSE}, whole : {<<1, 0, 3>>}, frac : {<<>>}]

\* What the parser makes of either set.
ParsedPrices == {ParseScaled(t) : t \in EdgeTexts \union WithMalformedTexts}
=============================================================================
