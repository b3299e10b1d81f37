----------------------------- MODULE TwinProofs -----------------------------
(***************************************************************************)
(* The two strategies decide alike for every register width, threshold and *)
(* price, clamped ones included, from every anchor whose band fits the     *)
(* registers; and the path of a price implements both of its components.   *)
(***************************************************************************)
EXTENDS QuotePath, TLAPS

\* A value that fits a register is not changed by it.
LEMMA WrapInRange ==
    ASSUME NEW x \in Int, -(SignedMod \div 2) <= x, x < SignedMod \div 2
    PROVE  Wrap(x) = x
<1> DEFINE h == SignedMod \div 2
<1>1. h \in Nat /\ SignedMod = 2 * h
  BY SignedAssumption
<1>2. x + h \in 0 .. SignedMod - 1
  BY <1>1
<1>3. (x + h) % SignedMod = x + h
  BY <1>1, <1>2, SignedAssumption
<1> QED
  BY <1>1, <1>3 DEF Wrap

\* The twins have the same anchor, a sum of two clamped prices, and the same
\* inventory, within what the fills allow.  What they said may differ.
TwinRec == [anchor : 0 .. 2 * FMMA_PRICE_MAX, position : -MaxInventory .. MaxInventory,
            says : Sides, rejected : BOOLEAN]
TwinInv == /\ fab \in TwinRec /\ soft \in TwinRec
           /\ fab.anchor = soft.anchor /\ fab.position = soft.position

\* Sums are compared alike when the band around the anchor fits.
LEMMA SameDecision ==
    ASSUME NEW a \in 0 .. 2 * FMMA_PRICE_MAX, NEW s \in 0 .. 2 * FMMA_PRICE_MAX,
           a + 2 * Threshold < SignedMod \div 2
    PROVE  Decision(a, s, Threshold) = SoftDecision(a, s, Threshold)
<1> DEFINE h == SignedMod \div 2
<1>1. h \in Nat /\ 2 * FMMA_PRICE_MAX < h /\ FMMA_PRICE_MAX \in Nat
  BY SignedAssumption DEF FMMA_PRICE_MAX
<1>2. Threshold \in Nat
  BY TwinAssumption
<1>3. Wrap(2 * Threshold) = 2 * Threshold
  BY <1>1, <1>2, WrapInRange
<1>4. Wrap(a - 2 * Threshold) = a - 2 * Threshold
  BY <1>1, <1>2, WrapInRange
<1>5. Wrap(a + 2 * Threshold) = a + 2 * Threshold
  BY <1>1, <1>2, WrapInRange
<1> QED
  BY <1>2, <1>3, <1>4, <1>5 DEF Decision, SoftDecision

\* A fill keeps the twins together, and is not a quote.
LEMMA FillStep ==
    ASSUME TwinInv, NEW n \in {1, -1}, OnFill(n)
    PROVE  TwinInv' /\ fab'.position # fab.position
<1> DEFINE h == SignedMod \div 2
<1>1. h \in Nat /\ MaxInventory \in Nat /\ MaxInventory < h
  BY SignedAssumption, TwinAssumption
<1>2. soft.position + n \in -MaxInventory .. MaxInventory
  BY DEF OnFill
<1>3. Wrap(soft.position + n) = soft.position + n
  <2>1. soft.position + n \in Int /\ -h <= soft.position + n /\ soft.position + n < h
    BY <1>1, <1>2
  <2> QED BY <2>1, WrapInRange
<1>4. /\ soft' = [soft EXCEPT !.position = soft.position + n]
      /\ fab' = [fab EXCEPT !.position = soft.position + n]
  BY <1>3 DEF OnFill, TwinInv
<1>5. fab.position \in Int
  BY <1>1 DEF TwinInv, TwinRec
<1> QED BY <1>2, <1>4, <1>5 DEF TwinInv, TwinRec

\* A twin after a quote.
LEMMA RuledTwin ==
    ASSUME NEW twin \in TwinRec, NEW sum \in 0 .. 2 * FMMA_PRICE_MAX,
           NEW want \in Sides, NEW may \in BOOLEAN
    PROVE  /\ Ruled(twin, sum, want, may) \in TwinRec
           /\ Ruled(twin, sum, want, may).anchor = sum
           /\ Ruled(twin, sum, want, may).position = twin.position
           /\ Ruled(twin, sum, want, may).says = (IF may THEN want ELSE SIGNAL_NONE)
           /\ Ruled(twin, sum, want, may).rejected = (want # SIGNAL_NONE /\ ~may)
<1>1. SIGNAL_NONE \in Sides
  BY DEF Sides
<1> QED BY <1>1 DEF TwinRec, Ruled

\* A quote keeps the anchors together, and from an anchor whose band fits both
\* twins say the same.
LEMMA TickerStep ==
    ASSUME TwinInv, NEW b \in RawPrices, NEW a \in RawPrices, OnTicker(b, a)
    PROVE  /\ TwinInv'
           /\ BandFits => fab'.says = soft'.says /\ fab'.rejected = soft'.rejected
<1> DEFINE h == SignedMod \div 2
           bid == ClampPrice(b)
           ask == ClampPrice(a)
           sum == bid + ask
           want == IF soft.anchor = 0 THEN SIGNAL_NONE
                   ELSE SoftDecision(soft.anchor, sum, Threshold)
           fwant == IF fab.anchor = 0 THEN SIGNAL_NONE
                    ELSE Decision(fab.anchor, sum, Threshold)
           May(w) == \/ w = SIGNAL_BUY  /\ soft.position < MaxPosition
                     \/ w = SIGNAL_SELL /\ -MaxPosition < soft.position
           may == May(want)
           fmay == May(fwant)
<1>2. /\ h \in Nat /\ 2 * FMMA_PRICE_MAX < h /\ FMMA_PRICE_MAX \in Nat
      /\ MaxPosition \in Nat /\ MaxPosition < h
  BY SignedAssumption, TwinAssumption DEF FMMA_PRICE_MAX
<1>3. bid \in 0 .. FMMA_PRICE_MAX /\ ask \in 0 .. FMMA_PRICE_MAX
  <2>1. b \in Int /\ a \in Int
    BY TwinAssumption
  <2> QED BY <1>2, <2>1 DEF ClampPrice
<1>4. sum \in 0 .. 2 * FMMA_PRICE_MAX /\ Wrap(sum) = sum
  <2>1. sum \in 0 .. 2 * FMMA_PRICE_MAX
    BY <1>2, <1>3
  <2>2. -h <= sum /\ sum < h
    BY <1>2, <1>3
  <2> QED BY <2>1, <2>2, WrapInRange
<1>5. /\ fab \in TwinRec /\ soft \in TwinRec /\ soft.position \in Int
      /\ fab.anchor = soft.anchor /\ fab.position = soft.position
      /\ soft.anchor \in 0 .. 2 * FMMA_PRICE_MAX
  BY TwinAssumption DEF TwinInv, TwinRec
<1>6. BandFits => fwant = want
  BY <1>4, <1>5, SameDecision DEF BandFits
<1>7. Wrap(0 - MaxPosition) = -MaxPosition
  BY <1>2, WrapInRange
<1> HIDE DEF sum
<1>8. soft' = Ruled(soft, sum, want, may)
  <2>1. ~(soft.position >= MaxPosition) <=> soft.position < MaxPosition
    BY <1>2, <1>5
  <2>2. ~(soft.position <= -MaxPosition) <=> -MaxPosition < soft.position
    BY <1>2, <1>5
  <2> QED BY <2>1, <2>2 DEF OnTicker, SoftOnQuote, Ruled, sum
<1>9. fab' = Ruled(fab, sum, fwant, fmay)
  BY <1>4, <1>5, <1>7 DEF OnTicker, FabricOnQuote, Ruled, sum
<1>10. want \in Sides /\ fwant \in Sides /\ may \in BOOLEAN /\ fmay \in BOOLEAN
  BY DEF SoftDecision, Decision, Sides
<1> HIDE DEF want, fwant, may, fmay
<1>11. /\ soft' \in TwinRec /\ soft'.anchor = sum /\ soft'.position = soft.position
       /\ soft'.says = (IF may THEN want ELSE SIGNAL_NONE)
       /\ soft'.rejected = (want # SIGNAL_NONE /\ ~may)
  <2>1. /\ Ruled(soft, sum, want, may) \in TwinRec
        /\ Ruled(soft, sum, want, may).anchor = sum
        /\ Ruled(soft, sum, want, may).position = soft.position
        /\ Ruled(soft, sum, want, may).says = (IF may THEN want ELSE SIGNAL_NONE)
        /\ Ruled(soft, sum, want, may).rejected = (want # SIGNAL_NONE /\ ~may)
    BY <1>4, <1>5, <1>10, RuledTwin
  <2> QED BY <1>8, <2>1
<1>12. /\ fab' \in TwinRec /\ fab'.anchor = sum /\ fab'.position = fab.position
       /\ fab'.says = (IF fmay THEN fwant ELSE SIGNAL_NONE)
       /\ fab'.rejected = (fwant # SIGNAL_NONE /\ ~fmay)
  <2>1. /\ Ruled(fab, sum, fwant, fmay) \in TwinRec
        /\ Ruled(fab, sum, fwant, fmay).anchor = sum
        /\ Ruled(fab, sum, fwant, fmay).position = fab.position
        /\ Ruled(fab, sum, fwant, fmay).says = (IF fmay THEN fwant ELSE SIGNAL_NONE)
        /\ Ruled(fab, sum, fwant, fmay).rejected = (fwant # SIGNAL_NONE /\ ~fmay)
    BY <1>4, <1>5, <1>10, RuledTwin
  <2> QED BY <1>9, <2>1
<1>13. TwinInv'
  BY <1>5, <1>11, <1>12 DEF TwinInv
<1>14. BandFits => fab'.says = soft'.says /\ fab'.rejected = soft'.rejected
  BY <1>6, <1>11, <1>12 DEF may, fmay
<1> QED BY <1>13, <1>14

\* The twins are together at the start.
LEMMA TwinsStart == TwinInit => TwinInv
<1> SUFFICES ASSUME TwinInit PROVE TwinInv
  OBVIOUS
<1>1. NewTwin \in TwinRec
  BY SignedAssumption, TwinAssumption DEF NewTwin, TwinRec, Sides, FMMA_PRICE_MAX
<1> QED BY <1>1 DEF TwinInit, TwinInv

\* The fabric's wrapping registers never make the two strategies part on a
\* quote from an anchor whose band fits, for every register width, threshold,
\* position limit and set of prices, those above the clamp included.
THEOREM TwinsDecideAlike == TwinSpec => TwinsAgree
<1> DEFINE Alike == BandFits /\ fab'.position = fab.position
                      => fab'.says = soft'.says /\ fab'.rejected = soft'.rejected
<1>1. TwinInv /\ [TwinNext]_twinVars => TwinInv' /\ [Alike]_twinVars
  <2>1. ASSUME TwinInv, UNCHANGED twinVars PROVE TwinInv'
    BY <2>1 DEF TwinInv, twinVars
  <2> QED BY <2>1, TickerStep, FillStep DEF TwinNext
<1>2. [][Alike]_twinVars => TwinsAgree
  BY PTL DEF TwinsAgree
<1> QED BY <1>1, <1>2, TwinsStart, PTL DEF TwinSpec

-----------------------------------------------------------------------------
(* The composition *)

\* What is proved of the feed alone holds on the path: the strategies do not
\* disturb it.
THEOREM PathImplementsFeed == PathSpec => FeedSpec
<1>1. PathInit => FeedInit
  BY DEF PathInit
<1>2. [PathNext]_pathVars => [FeedNext]_feedVars
  BY DEF PathNext, Connection, OnQuote, FeedNext, pathVars, feedVars
<1> QED BY <1>1, <1>2, PTL DEF PathSpec, FeedSpec

\* The strategies see quotes and fills as TwinStrategy has them, however often
\* the connection comes and goes.
THEOREM PathImplementsTwins == PathSpec => TwinSpec
<1>1. PathInit => TwinInit
  BY DEF PathInit
<1>2. [PathNext]_pathVars => [TwinNext]_twinVars
  <2>1. ASSUME NEW b \in Texts, NEW a \in Texts, OnQuote(b, a) PROVE TwinNext
    <3>1. ParseScaled(b) \in RawPrices /\ ParseScaled(a) \in RawPrices
      BY PathAssumption
    <3> QED BY <2>1, <3>1 DEF OnQuote, TwinNext
  <2> QED BY <2>1 DEF PathNext, TwinNext, pathVars, twinVars
<1> QED BY <1>1, <1>2, PTL DEF PathSpec, TwinSpec
=============================================================================
