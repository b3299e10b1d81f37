------------------------------ MODULE QuotePath ------------------------------
(***************************************************************************)
(* The path of a price: the text of a ticker is parsed and clamped by      *)
(* handle_ticker (QuoteFeed), and on_quote of Software/src/fmma_app.c      *)
(* hands the quote to the strategy that trades, the fabric or the          *)
(* software.  Both stand here, on the same quotes, to be compared          *)
(* (TwinStrategy); the fabric reads every quote, as it does unless a newer *)
(* one replaces it (QuoteIsRead of Fabric).  Fills come between any two    *)
(* quotes; what the feed does to its connection leaves the strategies      *)
(* alone.                                                                  *)
(***************************************************************************)
EXTENDS QuoteFeed, TwinStrategy

\* The strategies are fed what the parser makes of the tickers.
ASSUME PathAssumption == {ParseScaled(t) : t \in Texts} \subseteq RawPrices

pathVars == <<feed, link, quote, heard, fails, fab, soft>>

PathInit == FeedInit /\ TwinInit

\* The connection's own steps.
Connection == Start \/ TimerDue \/ FeedPoll \/ WsOpen \/ WsError \/ WsClose

\* on_quote, called by handle_ticker, with either strategy.
OnQuote(b, a) == WsTicker(b, a) /\ OnTicker(ParseScaled(b), ParseScaled(a))

PathNext ==
    \/ Connection /\ UNCHANGED twinVars
    \/ \E b, a \in Texts : OnQuote(b, a)
    \/ (OnFill(1) \/ OnFill(-1)) /\ UNCHANGED feedVars

PathSpec == PathInit /\ [][PathNext]_pathVars
PathFairSpec == PathSpec /\ FeedFairness
=============================================================================
