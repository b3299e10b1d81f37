----------------------------- MODULE FixedPoint -----------------------------
(***************************************************************************)
(* The price arithmetic of both decision makers: the signed words of the   *)
(* fabric CPU (trading.asm), the 64-bit integers of fmma_strategy.c, which *)
(* do not overflow here, and the clamp that is to keep the two apart from  *)
(* their limits (fmma_fixed.c).  Prices are in price units; Decimal has    *)
(* the parser.                                                             *)
(***************************************************************************)
EXTENDS Integers

CONSTANT SignedMod   \* the CPU's registers hold this many values (2^32)

ASSUME SignedAssumption ==
    SignedMod \in Nat /\ SignedMod >= 16 /\ SignedMod % 4 = 0

SIGNAL_NONE == 0
SIGNAL_BUY  == 1
SIGNAL_SELL == 2
Sides == {SIGNAL_NONE, SIGNAL_BUY, SIGNAL_SELL}

\* What a register holds after an addition or a subtraction.
Wrap(x) == ((x + SignedMod \div 2) % SignedMod) - SignedMod \div 2

FMMA_PRICE_MAX == SignedMod \div 4 - 1

\* Mutant: only the lower edge is clamped.
ClampPriceBelowOnly(v) == IF v < 0 THEN 0 ELSE v

ClampPrice(v) == IF v < 0 THEN 0
                 ELSE IF v > FMMA_PRICE_MAX THEN FMMA_PRICE_MAX ELSE v

\* Mutant: the threshold is not doubled for a sum of two prices.
DecisionOnMid(anchor, sum, t) ==
    IF sum < Wrap(anchor - t) THEN SIGNAL_BUY
    ELSE IF Wrap(anchor + t) < sum THEN SIGNAL_SELL
    ELSE SIGNAL_NONE

\* Which side a move from the anchor calls for, in the fabric; twice the
\* threshold because the sum of bid and ask is twice the mid.
Decision(anchor, sum, t) ==
    IF sum < Wrap(anchor - Wrap(2 * t)) THEN SIGNAL_BUY
    ELSE IF Wrap(anchor + Wrap(2 * t)) < sum THEN SIGNAL_SELL
    ELSE SIGNAL_NONE

\* The same in software.
SoftDecision(anchor, sum, t) ==
    IF sum < anchor - 2 * t THEN SIGNAL_BUY
    ELSE IF sum > anchor + 2 * t THEN SIGNAL_SELL
    ELSE SIGNAL_NONE
=============================================================================
