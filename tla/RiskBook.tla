------------------------------- MODULE RiskBook -------------------------------
(***************************************************************************)
(* Host-side risk: Software/src/fmma_risk.c.  Average-cost accounting in   *)
(* whole price units, the loss limit and its sticky halt, the stale-feed   *)
(* verdict.  Prices are positive, so the truncating division of C is \div. *)
(***************************************************************************)
EXTENDS Integers

CONSTANTS
    MaxLoss,        \* --max-loss; 0 turns the limit off
    StartPositions  \* the values of --position

ASSUME RiskAssumption == MaxLoss \in Nat /\ StartPositions \subseteq Int

VARIABLE risk

\* Inventory that is brought in has no average: it is valued at nothing.
RiskInit == risk \in [position : StartPositions, avg : {0}, realised : {0},
                      unrealised : {0}, halted : {FALSE}]

Abs(n) == IF n < 0 THEN -n ELSE n
Lesser(a, b) == IF a < b THEN a ELSE b

\* Opening or adding: the same direction as the position there is.
Adds(old, signed) == old = 0 \/ (old > 0) = (signed > 0)

AveragedIn(old, avg, qty, price) ==
    (avg * Abs(old) + price * qty) \div (Abs(old) + qty)

\* Mutant: a short position is booked like a long one.
PerLotAsLong(old, avg, price) == price - avg

PerLot(old, avg, price) == IF old > 0 THEN price - avg ELSE avg - price

\* The average after a closing fill: unchanged, gone, or, through zero, the
\* price at which the remainder opens.
AverageAfterClose(old, new, avg, price) ==
    IF new = 0 THEN 0
    ELSE IF (old > 0) # (new > 0) THEN price ELSE avg

\* fmma_risk_on_fill; signed is the quantity bought, negative when sold.  The
\* unrealised part is left as the last quote marked it.
RiskOnFill(signed, price) ==
    LET old == risk.position
        new == old + signed
        qty == Abs(signed)
    IN  risk' = IF Adds(old, signed)
                THEN [risk EXCEPT !.position = new,
                         !.avg = AveragedIn(old, risk.avg, qty, price)]
                ELSE [risk EXCEPT !.position = new,
                         !.realised = @ + PerLot(old, risk.avg, price)
                                            * Lesser(qty, Abs(old)),
                         !.avg = AverageAfterClose(old, new, risk.avg, price)]

\* fmma_risk_mark on the book r.
Marked(r, mid) ==
    [r EXCEPT !.unrealised =
        IF r.position = 0 \/ r.avg = 0 THEN 0 ELSE (mid - r.avg) * r.position]

Pnl(r) == r.realised + r.unrealised

\* Mutant: either part of the loss is enough.
LossLimitReachedByPart(r) ==
    MaxLoss > 0 /\ (r.realised <= -MaxLoss \/ r.unrealised <= -MaxLoss)

LossLimitReached(r) == MaxLoss > 0 /\ Pnl(r) <= -MaxLoss

\* Mutant of Verdict: the sticky flag is not looked at.
VerdictForgetsHalt(r, feedStale) ==
    IF LossLimitReached(r) THEN "loss_limit"
    ELSE IF feedStale THEN "stale_feed"
    ELSE "ok"

\* The verdict of fmma_risk_check, in its order of precedence.
Verdict(r, feedStale) ==
    IF r.halted THEN "halted"
    ELSE IF LossLimitReached(r) THEN "loss_limit"
    ELSE IF feedStale THEN "stale_feed"
    ELSE "ok"

\* What fmma_risk_check leaves behind: fmma_risk_halt's sticky flag.
RiskChecked(r, feedStale) ==
    [r EXCEPT !.halted = @ \/ Verdict(r, feedStale) = "loss_limit"]
=============================================================================
