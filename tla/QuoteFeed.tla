------------------------------ MODULE QuoteFeed ------------------------------
(***************************************************************************)
(* Market data: Software/src/fmma_feed.c and the websocket under it.  The  *)
(* connection is lost and reopened with a doubling delay; tickers become   *)
(* quotes.  A time is not a number here: a reconnect that has been         *)
(* scheduled becomes due after a while.                                    *)
(***************************************************************************)
EXTENDS Decimal

CONSTANTS
    BackoffMin,   \* BACKOFF_MIN_MS (500)
    BackoffMax,   \* BACKOFF_MAX_MS (30000)
    Texts,        \* the prices a ticker may carry, as Decimal reads them
    MaxFails      \* attempts without a connection that are counted

ASSUME FeedAssumption ==
    /\ BackoffMin \in Nat \ {0} /\ BackoffMax \in Nat /\ BackoffMin <= BackoffMax
    /\ Texts \subseteq Text /\ MaxFails \in Nat

VARIABLES
    feed,    \* struct fmma_feed; timer stands for reconnect_at_us
    link,    \* the websocket: "none", "opening", "open" or "failed"
    quote,   \* the last quote handed to on_quote
    heard,   \* observer: the texts of its two prices
    fails    \* observer: closes since the last good connection

feedVars == <<feed, link, quote, heard, fails>>

FeedInit ==
    /\ feed = [conn |-> FALSE, timer |-> "off", backoff |-> BackoffMin,
               connected |-> FALSE, started |-> FALSE]
    /\ link = "none" /\ quote = <<0, 0>> /\ heard = <<>> /\ fails = 0

\* Mutant: the pointer to the closed connection is kept.
ScheduledKeepsConn(f) ==
    [f EXCEPT !.connected = FALSE, !.timer = "set",
              !.backoff = IF 2 * @ > BackoffMax THEN BackoffMax ELSE 2 * @]

\* schedule_reconnect: the delay is doubled for the next time, up to a limit.
Scheduled(f) ==
    [f EXCEPT !.conn = FALSE, !.connected = FALSE, !.timer = "set",
              !.backoff = IF 2 * @ > BackoffMax THEN BackoffMax ELSE 2 * @]

CountFail == fails' = IF fails < MaxFails THEN fails + 1 ELSE fails

\* fmma_feed_start: mg_ws_connect returns a connection or nothing.
Connect(f) ==
    \/ /\ feed' = [f EXCEPT !.conn = TRUE]
       /\ link' = "opening"
       /\ UNCHANGED fails
    \/ /\ feed' = Scheduled(f)
       /\ link' = "none"
       /\ CountFail

\* fmma_app_run starts the feed once.
Start ==
    /\ ~feed.started
    /\ Connect([feed EXCEPT !.started = TRUE])
    /\ UNCHANGED <<quote, heard>>

\* The time of the reconnect comes.
TimerDue ==
    /\ feed.timer = "set"
    /\ feed' = [feed EXCEPT !.timer = "due"]
    /\ UNCHANGED <<link, quote, heard, fails>>

\* Mutant: no attempt after a number of failures.
FeedPollGivesUp ==
    /\ ~feed.conn /\ feed.timer = "due"
    /\ IF fails < MaxFails THEN Connect([feed EXCEPT !.timer = "off"])
                           ELSE UNCHANGED <<feed, link, fails>>
    /\ UNCHANGED <<quote, heard>>

\* fmma_feed_poll.
FeedPoll ==
    /\ ~feed.conn /\ feed.timer = "due"
    /\ Connect([feed EXCEPT !.timer = "off"])
    /\ UNCHANGED <<quote, heard>>

\* Mutant: a good connection does not reset the delay.
WsOpenKeepsDelay ==
    /\ link = "opening"
    /\ link' = "open"
    /\ feed' = [feed EXCEPT !.connected = TRUE]
    /\ fails' = 0
    /\ UNCHANGED <<quote, heard>>

\* MG_EV_WS_OPEN: subscribed; a good connection resets the delay.
WsOpen ==
    /\ link = "opening"
    /\ link' = "open"
    /\ feed' = [feed EXCEPT !.connected = TRUE, !.backoff = BackoffMin]
    /\ fails' = 0
    /\ UNCHANGED <<quote, heard>>

\* MG_EV_WS_MSG with a ticker: both prices parsed and clamped; a text that is
\* not a number or a one-sided book is dropped.
WsTicker(bidText, askText) ==
    LET bid == ParseScaled(bidText)
        ask == ParseScaled(askText)
    IN  /\ link = "open"
        /\ bid # PARSE_ERROR /\ ask # PARSE_ERROR
        /\ ClampPrice(bid) # 0 /\ ClampPrice(ask) # 0
        /\ quote' = <<ClampPrice(bid), ClampPrice(ask)>>
        /\ heard' = <<bidText, askText>>
        /\ UNCHANGED <<feed, link, fails>>

\* MG_EV_ERROR is logged and counted; the close follows.
WsError ==
    /\ link \in {"opening", "open"}
    /\ link' = "failed"
    /\ UNCHANGED <<feed, quote, heard, fails>>

\* MG_EV_CLOSE, after an error or on its own.
WsClose ==
    /\ link # "none"
    /\ link' = "none"
    /\ feed' = Scheduled(feed)
    /\ CountFail
    /\ UNCHANGED <<quote, heard>>

FeedNext ==
    \/ Start \/ TimerDue \/ FeedPoll \/ WsOpen \/ WsError \/ WsClose
    \/ \E b, a \in Texts : WsTicker(b, a)

FeedSpec == FeedInit /\ [][FeedNext]_feedVars

\* The event loop polls for ever, time passes and a failed connection closes.
\* The network need not let a connection open or fail: no handshake, of TCP,
\* TLS or the upgrade, has a time-out, and nothing breaks one that is open.
FeedFairness == /\ WF_feedVars(Start) /\ WF_feedVars(TimerDue)
                /\ WF_feedVars(FeedPoll)
                /\ WF_feedVars(WsClose /\ link = "failed")

FeedFairSpec == FeedSpec /\ FeedFairness

-----------------------------------------------------------------------------
(* Properties *)

\* The feed is never stranded: once started it has a connection or a timer
\* that will bring one, never both and never neither, and it says it is
\* connected only when there is one.
NeverStranded ==
    feed.started => /\ feed.conn # (feed.timer # "off")
                    /\ feed.conn = (link # "none")
                    /\ feed.connected => feed.conn

\* The delay is the minimum doubled for every attempt that failed since the
\* last good connection, cut off at the maximum.
BackoffFollowsFailures ==
    fails < MaxFails =>
       feed.backoff = IF BackoffMin * Power(2)[fails] > BackoffMax
                      THEN BackoffMax ELSE BackoffMin * Power(2)[fails]

\* What reaches the strategies: two prices whose sum is a positive register
\* value, so that the comparison of sums cannot be inverted.
QuotesAreComparable ==
    quote # <<0, 0>> => /\ quote[1] > 0 /\ quote[2] > 0
                        /\ Wrap(quote[1] + quote[2]) = quote[1] + quote[2]

\* A quote is the price that was sent: cut off below a unit and nowhere else,
\* or the largest price there is when the text names a larger one, however many
\* digits it has.  fmma_fixed.c: "saturate instead of wrapping so a malformed
\* feed cannot produce a small number".  That the largest price is handed on at
\* all is what OutOfRangeIsDropped is about.
PricesAreExact ==
    \A side \in DOMAIN heard :
        /\ ~heard[side].neg
        /\ \/ IsPriceOf(quote[side], heard[side])
           \/ /\ quote[side] = FMMA_PRICE_MAX
              /\ Numeral(heard[side]) * Scale > FMMA_PRICE_MAX * Power(10)[Len(heard[side].frac)]

\* fmma_clamp_price (fmma_fixed.h) "Returns 0 and sets *clamped when the value
\* was out of range", and a price of 0 drops the ticker: no text that names more
\* than the largest price becomes a quote.
OutOfRangeIsDropped ==
    \A side \in DOMAIN heard :
        Numeral(heard[side]) * Scale < (FMMA_PRICE_MAX + 1) * Power(10)[Len(heard[side].frac)]

\* However often the connection breaks or an attempt fails, at once or later,
\* either the attempts go on for ever, or the feed is at last connected for
\* good, or an attempt neither opens nor fails: fmma_feed_poll does nothing
\* while there is a connection, and such an attempt is one.
KeepsTrying == \/ []<><<FeedPoll>>_feedVars
               \/ <>[]feed.connected
               \/ <>[](link = "opening")
=============================================================================
