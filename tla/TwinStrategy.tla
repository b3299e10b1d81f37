---------------------------- MODULE TwinStrategy ----------------------------
(***************************************************************************)
(* The strategy exists twice: in the fabric (trading.asm) and in software  *)
(* (fmma_strategy.c), which trades when there is no fabric and times the   *)
(* other one when there is.  Both are fed the same clamped quotes here.    *)
(***************************************************************************)
EXTENDS FixedPoint

CONSTANTS
    RawPrices,      \* prices as the exchange may send them, in price units
    Threshold,      \* fmma_config threshold
    MaxPosition,    \* fmma_config max_position, CFG_MAX_POS
    MaxInventory    \* bound: the inventory the fills may build up

ASSUME TwinAssumption ==
    /\ RawPrices \subseteq Int /\ Threshold \in Nat
    /\ MaxPosition \in Nat /\ MaxPosition < SignedMod \div 2
    /\ MaxInventory \in Nat /\ MaxInventory < SignedMod \div 2

VARIABLES
    fab,    \* R9 and R13 of trading.asm, and what the last quote led to
    soft    \* struct fmma_strategy, and the same

twinVars == <<fab, soft>>

\* rejected: the last quote called for a side and was counted as a reject.
NewTwin == [anchor |-> 0, position |-> 0, says |-> SIGNAL_NONE, rejected |-> FALSE]

TwinInit == fab = NewTwin /\ soft = NewTwin

\* A twin after a quote with this sum that calls for the side `want`.
Ruled(twin, sum, want, allowed) ==
    [twin EXCEPT !.anchor = sum,
                 !.says = IF allowed THEN want ELSE SIGNAL_NONE,
                 !.rejected = want # SIGNAL_NONE /\ ~allowed]

\* trading.asm from the one-sided-book test to EMIT or COUNT_REJECT, with the
\* master switch on.
FabricOnQuote(bid, ask) ==
    LET sum  == Wrap(bid + ask)
        want == IF fab.anchor = 0 THEN SIGNAL_NONE
                ELSE Decision(fab.anchor, sum, Threshold)
        allowed == \/ want = SIGNAL_BUY  /\ fab.position < MaxPosition
                   \/ want = SIGNAL_SELL /\ Wrap(0 - MaxPosition) < fab.position
    IN  fab' = Ruled(fab, sum, want, allowed)

\* fmma_strategy_on_quote; enabled stays 1, as fmma_strategy_init sets it.
SoftOnQuote(bid, ask) ==
    LET sum  == bid + ask
        want == IF soft.anchor = 0 THEN SIGNAL_NONE
                ELSE SoftDecision(soft.anchor, sum, Threshold)
        allowed == \/ want = SIGNAL_BUY  /\ ~(soft.position >= MaxPosition)
                   \/ want = SIGNAL_SELL /\ ~(soft.position <= -MaxPosition)
    IN  soft' = Ruled(soft, sum, want, allowed)

\* on_fill: one lot bought (1) or sold (-1), told to both.
OnFill(signed) ==
    /\ soft.position + signed \in -MaxInventory .. MaxInventory
    /\ fab' = [fab EXCEPT !.position = Wrap(@ + signed)]
    /\ soft' = [soft EXCEPT !.position = @ + signed]

\* handle_ticker: clamp both sides, drop a one-sided book.
OnTicker(rawBid, rawAsk) ==
    LET bid == ClampPrice(rawBid)
        ask == ClampPrice(rawAsk)
    IN  /\ bid # 0 /\ ask # 0
        /\ FabricOnQuote(bid, ask)
        /\ SoftOnQuote(bid, ask)

TwinNext == \/ \E b, a \in RawPrices : OnTicker(b, a)
            \/ OnFill(1) \/ OnFill(-1)

TwinSpec == TwinInit /\ [][TwinNext]_twinVars

-----------------------------------------------------------------------------
\* The upper edge of the band around the anchor still is a register value.
\* With both prices clamped the anchor reaches 2 * FMMA_PRICE_MAX, and then it
\* is not.
BandFits == fab.anchor + 2 * Threshold < SignedMod \div 2

\* From such an anchor a quote, clamped or not, makes the register arithmetic
\* of the fabric decide exactly what the software decides and reject what it
\* rejects, whatever the inventory has become and whatever was decided before.
\* (A step that leaves the inventory alone is a quote.)
TwinsAgree ==
    [][BandFits /\ fab'.position = fab.position
         => fab'.says = soft'.says /\ fab'.rejected = soft'.rejected]_twinVars

\* docs/09 section 9.2 of the clamp: "a malformed quote cannot invert the
\* comparisons": the fabric sells only on a quote above the one before, and
\* buys only on one below.
NeverInverts ==
    [][fab'.position = fab.position
         => /\ fab'.says = SIGNAL_SELL => fab'.anchor > fab.anchor
            /\ fab'.says = SIGNAL_BUY => fab'.anchor < fab.anchor]_twinVars
=============================================================================
