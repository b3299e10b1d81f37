------------------------------- MODULE HostApp -------------------------------
(***************************************************************************)
(* The event loop of Software/src/fmma_app.c: quotes, decisions, orders    *)
(* and fills meet here.  Composes OrderExec and RiskBook.  With the fabric,*)
(* trading.asm is reduced to what reaches the host: a side, allowed by the *)
(* position limit and the master switch when it was decided, announced     *)
(* some time later.  Without it, fmma_strategy.c decides and the decision  *)
(* is acted on before the quote's callback returns.  Which side a move     *)
(* calls for is TwinStrategy's; here any side may be called for.  The      *)
(* inventory tested is the host's own: on_fill tells all three books       *)
(* together (for the fabric's, FillsConserved of Fabric).                  *)
(***************************************************************************)
EXTENDS OrderExec, RiskBook, SequencesExt

CONSTANTS
    Prices,   \* the mids and fill prices that occur
    Limit     \* CFG_MAX_POS

ASSUME AppAssumption == Prices \subseteq Nat \ {0} /\ Limit \in Nat

VARIABLES
    fabric,     \* fmma_fpga_present: --software was not given
    mid,        \* last_mid; 0 before the first quote
    feedStale,  \* the last quote is older than stale_feed_ms
    armed,      \* CFG_ENABLE
    making,     \* the side decided and not yet announced, or "none"
    decision,   \* the side announced and not yet read, or "none"
    cash,       \* observer: money received minus money paid
    drift,      \* observer: what the truncated averages can have lost
    marked      \* observer: a quote has been marked since the last fill

appVars == <<slots, conns, broker, stats, told, credentials, late, risk, fabric, mid,
             feedStale, armed, making, decision, cash, drift, marked>>

NONE == "none"

Init ==
    /\ ExecInit /\ RiskInit
    /\ fabric \in BOOLEAN
    /\ mid = 0 /\ feedStale = TRUE /\ armed = TRUE
    /\ making = NONE /\ decision = NONE
    /\ cash = 0 /\ drift = 0 /\ marked = TRUE

\* Mutant: one lot more than the limit.
WithinLimitOneMore(side) ==
    IF side = BUY THEN risk.position <= Limit ELSE -Limit <= risk.position

\* A buy while the position is below the limit, a sell while it is above the
\* negative limit.
WithinLimit(side) ==
    IF side = BUY THEN risk.position < Limit ELSE -Limit < risk.position

\* act_on, whoever decided, with the book r.  An approved order may still be
\* turned away by fmma_exec_send, or dropped: cooldown, dry run, no free slot.
ActOn(side, r, stale) ==
    LET v == Verdict(r, stale)
    IN  /\ risk' = RiskChecked(r, stale)
        /\ armed' = (armed /\ (fabric => v \notin {"halted", "loss_limit"}))
        /\ IF v = "ok" THEN Send(side) \/ TurnAway \/ UNCHANGED execVars
                       ELSE UNCHANGED execVars

-----------------------------------------------------------------------------
(* With the fabric *)

\* Nothing is decided while the master switch is off.
Decide(side) ==
    /\ fabric /\ mid # 0 /\ making = NONE /\ armed /\ WithinLimit(side)
    /\ making' = side
    /\ UNCHANGED <<execVars, risk, fabric, mid, feedStale, armed, decision, cash,
                   drift, marked>>

\* EMIT; a decision the host has not read yet is overwritten.
Announce ==
    /\ making # NONE
    /\ decision' = making
    /\ making' = NONE
    /\ UNCHANGED <<execVars, risk, fabric, mid, feedStale, armed, cash, drift, marked>>

DrainFpga ==
    /\ decision # NONE
    /\ ActOn(decision, risk, feedStale)
    /\ decision' = NONE
    /\ UNCHANGED <<fabric, mid, feedStale, making, cash, drift, marked>>

-----------------------------------------------------------------------------
(* The callbacks and timers of the event loop *)

\* on_quote.  With the fabric the quote is published and that is all; without
\* it the first quote anchors and any other may make the strategy decide.
OnQuote(m) ==
    /\ mid' = m
    /\ feedStale' = FALSE /\ marked' = TRUE
    /\ \/ risk' = Marked(risk, m) /\ UNCHANGED <<execVars, armed>>
       \/ /\ ~fabric /\ mid # 0
          /\ \E side \in {BUY, SELL} :
                WithinLimit(side) /\ ActOn(side, Marked(risk, m), FALSE)
    /\ UNCHANGED <<fabric, making, decision, cash, drift>>

\* stale_feed_ms pass without a quote.
FeedSilent ==
    /\ ~feedStale
    /\ feedStale' = TRUE
    /\ UNCHANGED <<execVars, risk, fabric, mid, armed, making, decision, cash, drift,
                   marked>>

\* on_fill: the P&L and the decision maker learn of the fill together.
FillReported == Len(told') > Len(told)

OnFill(price) ==
    LET signed == IF Last(told').side = BUY THEN 1 ELSE -1
    IN  /\ RiskOnFill(signed, price)
        /\ cash' = cash - signed * price
        /\ drift' = IF Adds(risk.position, signed)
                    THEN drift + Abs(risk.position) ELSE drift
        /\ marked' = FALSE

ExecStep ==
    /\ \/ \E n \in Conns : Callback(n)
       \/ \E i \in Slots : Poll(i)
       \/ Broker
    /\ IF FillReported THEN \E price \in Prices : OnFill(price)
                       ELSE UNCHANGED <<risk, cash, drift, marked>>
    /\ UNCHANGED <<fabric, mid, feedStale, armed, making, decision>>

Next ==
    \/ \E side \in {BUY, SELL} : Decide(side)
    \/ Announce
    \/ \E m \in Prices : OnQuote(m)
    \/ FeedSilent
    \/ DrainFpga
    \/ ExecStep

Spec == Init /\ [][Next]_appVars

-----------------------------------------------------------------------------
(* Properties *)

\* Cash plus the inventory at the mid, but for inventory that was brought in
\* and never added to: it has no average, and neither the mark nor the cash of
\* this run values it.
Equity == cash + IF risk.avg = 0 THEN 0 ELSE risk.position * mid

\* Once a quote has marked the book, realised plus unrealised profit is that
\* equity, up to what the truncated averages have dropped; through averaging
\* in, closing, reversing, and starting with an inventory.
PnlIsEquity ==
    marked /\ mid # 0 => Pnl(risk) - Equity <= drift /\ Equity - Pnl(risk) <= drift

WorkingSide(side) == Cardinality({i \in Active : slots[i].side = side})

\* The decisions the fabric can have under way when the limit is reached: one
\* tested and not announced, one announced and not read.
UnderWay == IF fabric THEN 2 ELSE 0

\* What the limit really bounds: the order that reaches it and those in flight
\* come on top of the inventory it was tested against, the table's size in all,
\* and in the fabric the decisions under way as well.
ExposureIsBounded ==
    /\ risk.position + WorkingSide(BUY) <= Limit - 1 + MaxPending + UnderWay
    /\ -risk.position + WorkingSide(SELL) <= Limit - 1 + MaxPending + UnderWay

\* After the loss limit has tripped only the orders already working can still
\* move the inventory: what is reported and what is working never grows.
HaltWindsDown ==
    [][risk.halted => Len(told') + Cardinality(Active')
                        <= Len(told) + Cardinality(Active)]_appVars

\* The loss limit halts for a loss that is there, when the book has been
\* marked since the last fill: always without the fabric, whose strategy only
\* decides on a quote.  docs/09 section 9.5a: "When realised plus unrealised
\* loss reaches the limit, the host halts".
HaltIsJustified ==
    [][~risk.halted /\ risk.halted' /\ (marked \/ ~fabric)
         => Equity' <= -MaxLoss + drift']_appVars
=============================================================================
