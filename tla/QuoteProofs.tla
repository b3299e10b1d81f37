---------------------------- MODULE QuoteProofs ----------------------------
(***************************************************************************)
(* Proofs about QuoteEngine, for every number of levels, every table, half *)
(* spread and limit within EngineAssumption, and any sequence of writes,   *)
(* book and position pulses and resets.                                    *)
(***************************************************************************)
EXTENDS QuoteEngine, TLAPS

\* The remainder of a number that is in range already.
LEMMA ModSmall ==
  ASSUME NEW m \in Nat, NEW n \in Nat, n < m
  PROVE  n % m = n
BY Z3

\* No sum of Q1 leaves the working width, so its signed registers hold the
\* exact value.
LEMMA SignedExact ==
  ASSUME NEW x \in Int, -(4 * LEVELS) <= x, x < 4 * LEVELS
  PROVE  Signed(x) = x
<1>1. LEVELS \in Nat /\ LEVELS > 0
  BY EngineAssumption
<1>2. x + 4 * LEVELS \in Nat /\ 8 * LEVELS \in Nat /\ x + 4 * LEVELS < 8 * LEVELS
  BY <1>1
<1>3. (x + 4 * LEVELS) % (8 * LEVELS) = x + 4 * LEVELS
  BY <1>2, ModSmall
<1> QED BY <1>1, <1>3 DEF Signed

\* The saturating bucket is an index of the table.
LEMMA BucketInRange ==
  ASSUME NEW p \in Int
  PROVE  BucketOf(p) \in Bucket
<1>1. LUT_N \in Nat /\ LUT_N > 0 /\ BucketSize \in Nat /\ BucketSize > 0
  BY EngineAssumption
<1>2. p \div BucketSize \in Int /\ LUT_N \div 2 \in Int
  BY <1>1, Z3
<1> QED BY <1>1, <1>2 DEF BucketOf, Bucket

\* The two prices of Q1 for a sound stage: each on its own side of the top of
\* book, and the bid not above the ask.
LEMMA PricesApart ==
  ASSUME NEW q, NEW hs \in Spreads, q.tob \in Top, q.tob.bid < q.tob.ask,
         NEW l \in Loads, NEW b \in Bucket, q.skew = Skews[l][b]
  PROVE  LET p == Prices(q, hs)
         IN  /\ p.bid \in Int /\ p.ask \in Int
             /\ p.bid < q.tob.ask /\ p.ask > q.tob.bid /\ p.bid <= p.ask
<1> DEFINE B == q.tob.bid
           A == q.tob.ask
           k == q.skew
           fair == (B + A) \div 2
<1>1. /\ LEVELS \in Nat /\ LEVELS > 0 /\ hs \in Nat /\ k \in Int
      /\ hs + k <= 3 * LEVELS /\ hs - k <= 3 * LEVELS
  BY EngineAssumption
<1>2. B \in 0 .. LEVELS - 1 /\ A \in 0 .. LEVELS - 1 /\ B < A
  BY DEF Top, Idx
<1>3. fair \in Int /\ 0 <= fair /\ fair < LEVELS
  BY <1>1, <1>2
<1> HIDE DEF fair
<1>4. Signed(fair - hs - k) = fair - hs - k /\ Signed(fair + hs - k) = fair + hs - k
  <2>1. /\ fair - hs - k \in Int /\ fair + hs - k \in Int
        /\ -(4 * LEVELS) <= fair - hs - k /\ fair - hs - k < 4 * LEVELS
        /\ -(4 * LEVELS) <= fair + hs - k /\ fair + hs - k < 4 * LEVELS
    BY <1>1, <1>3
  <2> QED BY <2>1, SignedExact
<1>5. /\ Prices(q, hs).bid = IF fair - hs - k >= A THEN A - 1 ELSE fair - hs - k
      /\ Prices(q, hs).ask = IF fair + hs - k <= B THEN B + 1 ELSE fair + hs - k
  BY <1>4 DEF Prices, fair
<1> QED BY <1>1, <1>2, <1>3, <1>5

\* An enabled side of Q1 is the exact price: it fits the level index.
LEMMA StageSafe ==
  ASSUME EngineInv, q0.valid
  PROVE  /\ Q1.bidEn => Q1.bid < Q1.tob.ask
         /\ Q1.askEn => Q1.ask > Q1.tob.bid
         /\ Q1.bidEn /\ Q1.askEn => Q1.bid <= Q1.ask
<1> DEFINE p == Prices(q0, half_spread)
<1>1. /\ Q1.tob = q0.tob /\ Q1.bid = p.bid % LEVELS /\ Q1.ask = p.ask % LEVELS
      /\ Q1.bidEn => q0.bookOk /\ p.bid >= 0
      /\ Q1.askEn => q0.bookOk /\ p.ask <= LEVELS - 1
  BY DEF Q1
<1>2. LEVELS \in Nat /\ LEVELS > 0
  BY EngineAssumption
<1>3. ASSUME q0.bookOk
      PROVE  /\ p.bid \in Int /\ p.ask \in Int /\ p.bid <= p.ask
             /\ p.bid < q0.tob.ask /\ p.ask > q0.tob.bid
             /\ q0.tob.bid \in 0 .. LEVELS - 1 /\ q0.tob.ask \in 0 .. LEVELS - 1
  <2>1. q0.tob \in Top /\ q0.tob.bid < q0.tob.ask /\ half_spread \in Spreads
    BY <1>3 DEF EngineInv, StageIsSound, EngineTypeOK
  <2>2. PICK l \in Loads, b \in Bucket : q0.skew = Skews[l][b]
    BY DEF EngineInv, StageIsSound
  <2> HIDE DEF p
  <2>3. /\ p.bid \in Int /\ p.ask \in Int /\ p.bid < q0.tob.ask
        /\ p.ask > q0.tob.bid /\ p.bid <= p.ask
    BY <2>1, <2>2, PricesApart DEF p
  <2> QED BY <2>1, <2>3 DEF Top, Idx
<1> HIDE DEF p
<1>4. Q1.bidEn => Q1.bid = p.bid
  BY <1>1, <1>2, <1>3, ModSmall
<1>5. Q1.askEn => Q1.ask = p.ask
  BY <1>1, <1>2, <1>3, ModSmall
<1> QED BY <1>1, <1>2, <1>3, <1>4, <1>5

-----------------------------------------------------------------------------
\* Power-on, before the first write.
LEMMA EngineInitially == Init => EngineInv /\ QuotesNeverCross /\ KillSwitchHolds
<1> SUFFICES ASSUME Init PROVE EngineInv /\ QuotesNeverCross /\ KillSwitchHolds
  OBVIOUS
<1>1. LEVELS \in Nat /\ LEVELS > 0 /\ 0 \in Spreads /\ 0 \in Limits /\ 0 \in Loads
  BY EngineAssumption
<1>2. EngineTypeOK
  <2>1. tob \in Top
    BY <1>1 DEF Init, NoTop, Top, Idx
  <2>2. host \in [loading : SUBSET Bucket, load : Nat, swapped : BOOLEAN,
                  kill : {"no", "asked", "done"}]
    BY DEF Init, Fresh
  <2>3. skew_lut \in [0 .. 1 -> [Bucket -> Loads]]
    BY <1>1 DEF Init
  <2>4. q0.valid \in BOOLEAN /\ quote.valid \in BOOLEAN /\ strobe \in Strobe
    BY DEF Init, NoQuote, NoStrobe, Strobe
  <2>5. /\ quote_enable \in BOOLEAN /\ half_spread \in Spreads /\ pos_limit \in Limits
        /\ bvalid \in BOOLEAN /\ trigger \in BOOLEAN
    BY <1>1 DEF Init
  <2>6. live_buf \in 0 .. 1 /\ position \in Int
    BY DEF Init
  <2> QED BY <2>1, <2>2, <2>3, <2>4, <2>5, <2>6 DEF EngineTypeOK
<1>3. StageIsSound /\ KillTakesHold /\ QuotesNeverCross /\ KillSwitchHolds
  BY DEF Init, StageIsSound, KillTakesHold, QuotesNeverCross, KillSwitchHolds, NoQuote, Fresh
<1>4. TableIsReady
  BY DEF Init, TableIsReady, NoStrobe, Fresh
<1> QED BY <1>2, <1>3, <1>4 DEF EngineInv

-----------------------------------------------------------------------------
\* The record of the host, field by field.
HostType == [loading : SUBSET Bucket, load : Nat, swapped : BOOLEAN,
             kill : {"no", "asked", "done"}]

\* The pipeline and its inputs on an edge without reset.
LEMMA PipelineStep ==
  ASSUME EngineInv, Edge
  PROVE  /\ tob' \in Top /\ position' \in Int /\ trigger' \in BOOLEAN
         /\ q0'.valid \in BOOLEAN /\ quote'.valid \in BOOLEAN
         /\ StageIsSound' /\ QuotesNeverCross'
<1> USE DEF EngineInv
<1>1. tob' \in Top /\ position' \in Int /\ trigger' \in BOOLEAN
  <2>1. NoTop \in Top
    BY EngineAssumption DEF NoTop, Top, Idx
  <2> QED BY <2>1, EngineAssumption DEF Edge, Inputs, EngineTypeOK
<1>2. q0' = (IF trigger THEN Q0 ELSE NoQuote) /\ quote' = (IF q0.valid THEN Q1 ELSE NoQuote)
  BY DEF Edge, Pipeline
<1>3. q0'.valid \in BOOLEAN /\ quote'.valid \in BOOLEAN
  BY <1>2 DEF Q0, Q1, NoQuote
<1>4. StageIsSound'
  <2>1. CASE trigger
    <3>1. BucketOf(position) \in Bucket
      BY BucketInRange DEF EngineTypeOK
    <3>2. skew_lut[live_buf][BucketOf(position)] \in Loads
      BY <3>1 DEF EngineTypeOK
    <3>3. /\ Q0.tob = tob
          /\ Q0.skew = Skews[skew_lut[live_buf][BucketOf(position)]][BucketOf(position)]
          /\ Q0.bookOk = (tob.bidOn /\ tob.askOn /\ tob.bid < tob.ask)
      BY DEF Q0
    <3>4. tob \in Top
      BY DEF EngineTypeOK
    <3>5. q0' = Q0
      BY <1>2, <2>1
    <3>6. Q0.bookOk => tob.bid < tob.ask
      BY <3>3
    <3> QED BY <3>1, <3>2, <3>3, <3>4, <3>5, <3>6 DEF StageIsSound
  <2>2. CASE ~trigger
    BY <1>2, <2>2 DEF StageIsSound, NoQuote
  <2> QED BY <2>1, <2>2
<1>5. QuotesNeverCross'
  <2>1. CASE q0.valid
    <3>1. quote' = Q1
      BY <1>2, <2>1
    <3> QED BY <2>1, <3>1, StageSafe DEF QuotesNeverCross
  <2>2. CASE ~q0.valid
    BY <1>2, <2>2 DEF QuotesNeverCross, NoQuote
  <2> QED BY <2>1, <2>2
<1> QED BY <1>1, <1>3, <1>4, <1>5

\* A write finds no strobe up: the response to the one before is still out.
LEMMA WriteFindsQuiet ==
  ASSUME EngineInv, Fire
  PROVE  strobe = NoStrobe
<1>1. strobe.op = "none" /\ strobe \in Strobe
  BY DEF EngineInv, TableIsReady, EngineTypeOK, Fire, Strobe, NoStrobe
<1> QED BY <1>1 DEF Strobe, NoStrobe

\* Which table is live after the edge, and what the tables hold.
LEMMA StrobeMoves ==
  ASSUME EngineInv, StrobeEdge
  PROVE  /\ live_buf' \in 0 .. 1 /\ skew_lut' \in [0 .. 1 -> [Bucket -> Loads]]
         /\ strobe.op = "swap" => live_buf' = 1 - live_buf /\ skew_lut' = skew_lut
         /\ strobe.op # "swap" => live_buf' = live_buf
         /\ strobe.op = "none" => skew_lut' = skew_lut
         /\ strobe.op = "we" => /\ skew_lut'[live_buf] = skew_lut[live_buf]
                                /\ skew_lut'[1 - live_buf] =
                                     [skew_lut[1 - live_buf] EXCEPT ![strobe.addr] = strobe.load]
<1>1. live_buf \in 0 .. 1 /\ 1 - live_buf \in 0 .. 1 /\ 1 - live_buf # live_buf
  BY DEF EngineInv, EngineTypeOK
<1>2. strobe.op = "we" => strobe.addr \in Bucket /\ strobe.load \in Loads
  BY DEF EngineInv, EngineTypeOK, Strobe, NoStrobe
<1>3. skew_lut \in [0 .. 1 -> [Bucket -> Loads]]
  BY DEF EngineInv, EngineTypeOK
<1> QED BY <1>1, <1>2, <1>3 DEF StrobeEdge

\* The registers keep their types and a kill takes hold with its write.
LEMMA ControlStep ==
  ASSUME EngineInv, Control
  PROVE  /\ quote_enable' \in BOOLEAN /\ half_spread' \in Spreads /\ pos_limit' \in Limits
         /\ bvalid' \in BOOLEAN /\ strobe' \in Strobe /\ host' \in HostType
         /\ KillTakesHold'
         /\ host'.kill = "done" => ~quote_enable
<1> DEFINE G == /\ quote_enable' \in BOOLEAN /\ half_spread' \in Spreads
                /\ pos_limit' \in Limits
                /\ bvalid' \in BOOLEAN /\ strobe' \in Strobe /\ host' \in HostType
                /\ KillTakesHold'
                /\ (host'.kill = "done" => ~quote_enable)
<1>1. /\ quote_enable \in BOOLEAN /\ half_spread \in Spreads /\ pos_limit \in Limits
      /\ bvalid \in BOOLEAN /\ host \in HostType
      /\ host.kill # "no" => ~quote_enable
  BY DEF EngineInv, EngineTypeOK, HostType, KillTakesHold
<1>2. NoStrobe \in Strobe
  BY DEF Strobe
<1>3. CASE Respond
  BY <1>1, <1>2, <1>3 DEF Respond, HostType, KillTakesHold
<1>4. CASE WriteSwap
  <2>1. strobe' \in Strobe
    BY <1>4 DEF WriteSwap, Strobe
  <2>2. host' = [host EXCEPT !.loading = {}, !.load = host.load + 1, !.swapped = TRUE]
    BY <1>4 DEF WriteSwap
  <2>3. host' \in HostType /\ host'.kill = host.kill
    <3>1. host.load + 1 \in Nat
      BY <1>1 DEF HostType
    <3>2. {} \in SUBSET Bucket
      OBVIOUS
    <3> HIDE <1>4
    <3> QED BY <1>1, <2>2, <3>1, <3>2 DEF HostType
  <2> QED BY <1>1, <1>4, <2>1, <2>3 DEF WriteSwap, Fire, KillTakesHold
<1>5. CASE WriteNothing
  BY <1>1, <1>2, <1>5 DEF WriteNothing, Fire, HostType, KillTakesHold
<1>6. ASSUME NEW on \in BOOLEAN, WriteEnable(on) PROVE G
  <2>1. quote_enable' = on /\ half_spread' = half_spread /\ pos_limit' = pos_limit
        /\ bvalid' = TRUE /\ strobe' = NoStrobe
        /\ host' = [host EXCEPT !.kill = IF on THEN "no" ELSE "asked"]
    BY <1>6 DEF WriteEnable, Fire
  <2>2. host' \in HostType /\ host'.kill = (IF on THEN "no" ELSE "asked")
    BY <1>1, <2>1 DEF HostType
  <2> QED BY <1>1, <1>2, <2>1, <2>2 DEF KillTakesHold
<1>7. ASSUME NEW h \in Spreads, WriteSpread(h) PROVE G
  BY <1>1, <1>2, <1>7 DEF WriteSpread, Fire, KillTakesHold
<1>8. ASSUME NEW l \in Limits, WriteLimit(l) PROVE G
  BY <1>1, <1>2, <1>8 DEF WriteLimit, Fire, KillTakesHold
<1>9. ASSUME NEW i \in Bucket, WriteLut(i) PROVE G
  BY <1>1, <1>9 DEF WriteLut, Fire, HostType, Strobe, KillTakesHold
<1> QED BY <1>3, <1>4, <1>5, <1>6, <1>7, <1>8, <1>9 DEF Control

\* The tables: what is live stays one load.
LEMMA TableStep ==
  ASSUME EngineInv, StrobeEdge, Control, host' \in HostType
  PROVE  TableIsReady'
<1>1. /\ strobe.op # "none" => bvalid
      /\ strobe.op = "we" => strobe.load = host.load
      /\ strobe.op = "swap" => Whole(skew_lut[1 - live_buf]) /\ host.loading = {}
      /\ \A i \in host.loading : ~(strobe.op = "we" /\ strobe.addr = i)
                                 => skew_lut[1 - live_buf][i] = host.load
      /\ host.loading # {} => host.load \in Loads
      /\ host.swapped /\ strobe.op # "swap" => Whole(skew_lut[live_buf])
      /\ quote_enable => Whole(skew_lut[live_buf])
  BY DEF EngineInv, TableIsReady
<1>2. /\ host \in HostType /\ live_buf \in 0 .. 1
      /\ skew_lut \in [0 .. 1 -> [Bucket -> Loads]]
  BY DEF EngineInv, EngineTypeOK, HostType
<1>3. ASSUME Respond PROVE TableIsReady'
  <2>1. /\ strobe' = NoStrobe /\ strobe'.op = "none"
        /\ quote_enable' = quote_enable /\ host'.loading = host.loading
        /\ host'.load = host.load /\ host'.swapped = host.swapped
    BY <1>2, <1>3 DEF Respond, NoStrobe, HostType
  <2>2. CASE strobe.op = "swap"
    <3>1. live_buf' = 1 - live_buf /\ skew_lut' = skew_lut /\ host'.loading = {}
      BY <1>1, <2>1, <2>2, StrobeMoves
    <3>2. Whole(skew_lut'[live_buf'])
      BY <1>1, <2>2, <3>1
    <3> QED BY <2>1, <3>1, <3>2 DEF TableIsReady
  <2>3. CASE strobe.op = "we"
    <3>1. /\ live_buf' = live_buf /\ skew_lut'[live_buf] = skew_lut[live_buf]
          /\ skew_lut'[1 - live_buf] =
               [skew_lut[1 - live_buf] EXCEPT ![strobe.addr] = strobe.load]
      BY <2>3, StrobeMoves
    <3>2. \A i \in host.loading : skew_lut'[1 - live_buf][i] = host.load
      <4>1. skew_lut[1 - live_buf] \in [Bucket -> Loads] /\ host.loading \subseteq Bucket
        BY <1>2 DEF HostType
      <4> QED BY <1>1, <2>3, <3>1, <4>1
    <3> QED BY <1>1, <2>1, <2>3, <3>1, <3>2 DEF TableIsReady
  <2>4. CASE strobe.op = "none"
    <3>1. live_buf' = live_buf /\ skew_lut' = skew_lut
      BY <2>4, StrobeMoves
    <3> QED BY <1>1, <2>1, <2>4, <3>1 DEF TableIsReady
  <2>5. strobe.op \in {"none", "we", "swap"}
    BY DEF EngineInv, EngineTypeOK, Strobe, NoStrobe
  <2> QED BY <2>2, <2>3, <2>4, <2>5
<1>4. ASSUME Fire PROVE /\ strobe = NoStrobe /\ strobe.op = "none" /\ bvalid' = TRUE
                        /\ live_buf' = live_buf /\ skew_lut' = skew_lut
                        /\ host.swapped => Whole(skew_lut[live_buf])
                        /\ \A i \in host.loading : skew_lut[1 - live_buf][i] = host.load
  <2>1. strobe = NoStrobe /\ strobe.op = "none"
    BY <1>4, WriteFindsQuiet DEF NoStrobe
  <2> QED BY <1>1, <1>4, <2>1, StrobeMoves DEF Fire
<1>5. ASSUME WriteSwap PROVE TableIsReady'
  <2>1. /\ Fire /\ host.loading = Bucket /\ strobe'.op = "swap"
        /\ quote_enable' = quote_enable
        /\ host' = [host EXCEPT !.loading = {}, !.load = @ + 1, !.swapped = TRUE]
    BY <1>5 DEF WriteSwap
  <2>2. host'.loading = {}
    BY <1>2, <2>1 DEF HostType
  <2>3. Whole(skew_lut[1 - live_buf])
    <3>1. skew_lut[1 - live_buf] \in [Bucket -> Loads]
      BY <1>2
    <3>2. skew_lut[1 - live_buf] = [i \in Bucket |-> host.load]
      BY <1>4, <2>1, <3>1
    <3>3. host.load \in Loads
      BY <1>1, <2>1, EngineAssumption DEF Bucket
    <3> QED BY <3>2, <3>3 DEF Whole
  <2> QED BY <1>1, <1>4, <2>1, <2>2, <2>3 DEF TableIsReady
<1>6. ASSUME NEW i \in Bucket, WriteLut(i) PROVE TableIsReady'
  <2>1. /\ Fire /\ host.load \in Loads /\ quote_enable' = quote_enable
        /\ strobe' = [op |-> "we", addr |-> i, load |-> host.load]
        /\ host' = [host EXCEPT !.loading = @ \union {i}]
    BY <1>6 DEF WriteLut
  <2>2. /\ host'.loading = host.loading \union {i} /\ host'.load = host.load
        /\ host'.swapped = host.swapped
    BY <1>2, <2>1 DEF HostType
  <2>3. strobe'.op = "we" /\ strobe'.addr = i /\ strobe'.load = host.load
    BY <2>1
  <2> QED BY <1>1, <1>4, <2>1, <2>2, <2>3 DEF TableIsReady
<1>7. ASSUME NEW on \in BOOLEAN, WriteEnable(on) PROVE TableIsReady'
  <2>1. /\ Fire /\ (on => host.swapped) /\ quote_enable' = on /\ strobe' = NoStrobe
        /\ host' = [host EXCEPT !.kill = IF on THEN "no" ELSE "asked"]
    BY <1>7 DEF WriteEnable
  <2>2. /\ host'.loading = host.loading /\ host'.load = host.load
        /\ host'.swapped = host.swapped /\ strobe'.op = "none"
    BY <1>2, <2>1 DEF HostType, NoStrobe
  <2> QED BY <1>1, <1>4, <2>1, <2>2 DEF TableIsReady
<1>8. ASSUME Fire, strobe' = NoStrobe, quote_enable' = quote_enable, host' = host
      PROVE  TableIsReady'
  <2>1. strobe'.op = "none"
    BY <1>8 DEF NoStrobe
  <2> QED BY <1>1, <1>4, <1>8, <2>1 DEF TableIsReady
<1> QED BY <1>3, <1>5, <1>6, <1>7, <1>8 DEF Control, WriteNothing, WriteSpread, WriteLimit

-----------------------------------------------------------------------------
\* Every edge keeps the invariant and makes only quotes that do not cross and
\* obey a kill whose response has been taken.
LEMMA EngineStep ==
  ASSUME EngineInv, KillSwitchHolds, QuotesNeverCross, [Next]_vars
  PROVE  EngineInv' /\ KillSwitchHolds' /\ QuotesNeverCross'
<1>1. CASE Edge
  <2>1. StrobeEdge /\ Control /\ Pipeline
    BY <1>1 DEF Edge
  <2>2. EngineTypeOK' /\ KillTakesHold' /\ StageIsSound' /\ QuotesNeverCross'
    <3>1. host' \in HostType
      BY <2>1, ControlStep
    <3> QED BY <1>1, <2>1, <3>1, PipelineStep, ControlStep, StrobeMoves DEF EngineTypeOK, HostType
  <2>3. TableIsReady'
    BY <2>1, ControlStep, TableStep
  <2>4. KillSwitchHolds'
    <3>1. host'.kill = "done" => ~quote_enable
      BY <2>1, ControlStep
    <3>2. ~quote_enable => ~Q1.bidEn /\ ~Q1.askEn
      BY DEF Q1
    <3>3. quote' = IF q0.valid THEN Q1 ELSE NoQuote
      BY <2>1 DEF Pipeline
    <3> QED BY <3>1, <3>2, <3>3 DEF KillSwitchHolds, NoQuote
  <2> QED BY <2>2, <2>3, <2>4 DEF EngineInv
<1>2. CASE ResetEdge
  <2>1. /\ quote_enable' = FALSE /\ half_spread' = 0 /\ pos_limit' = 0 /\ bvalid' = FALSE
        /\ strobe' = NoStrobe /\ live_buf' = 0 /\ tob' = tob /\ position' = position
        /\ trigger' = FALSE /\ q0' = NoQuote /\ quote' = NoQuote
        /\ host' = Fresh(host.load + 1)
    BY <1>2 DEF ResetEdge
  <2>2. skew_lut' \in [0 .. 1 -> [Bucket -> Loads]]
    <3>1. strobe.op = "we" => strobe.addr \in Bucket /\ strobe.load \in Loads
      BY DEF EngineInv, EngineTypeOK, Strobe, NoStrobe
    <3>2. skew_lut \in [0 .. 1 -> [Bucket -> Loads]] /\ 1 - live_buf \in 0 .. 1
      BY DEF EngineInv, EngineTypeOK
    <3> QED BY <1>2, <3>1, <3>2 DEF ResetEdge
  <2>3. host.load \in Nat
    BY DEF EngineInv, EngineTypeOK
  <2>4. /\ host' \in HostType /\ host'.loading = {} /\ host'.swapped = FALSE
        /\ host'.kill = "no"
    BY <2>1, <2>3 DEF Fresh, HostType
  <2>5. 0 \in Spreads /\ 0 \in Limits
    BY EngineAssumption
  <2>6. EngineTypeOK'
    <3>1. tob' \in Top /\ position' \in Int
      BY <2>1 DEF EngineInv, EngineTypeOK
    <3>2. strobe' \in Strobe /\ q0'.valid \in BOOLEAN /\ quote'.valid \in BOOLEAN
      BY <2>1 DEF Strobe, NoQuote
    <3>3. /\ quote_enable' \in BOOLEAN /\ half_spread' \in Spreads /\ pos_limit' \in Limits
          /\ bvalid' \in BOOLEAN /\ trigger' \in BOOLEAN
      BY <2>1, <2>5
    <3>4. live_buf' \in 0 .. 1
      BY <2>1
    <3> QED BY <2>2, <2>4, <3>1, <3>2, <3>3, <3>4 DEF EngineTypeOK, HostType
  <2>7. TableIsReady'
    BY <2>1, <2>4 DEF TableIsReady, NoStrobe
  <2> QED BY <2>1, <2>4, <2>6, <2>7 DEF EngineInv, StageIsSound, KillTakesHold,
                                        KillSwitchHolds, QuotesNeverCross, NoQuote
<1>3. CASE UNCHANGED vars
  BY <1>3 DEF vars, regs, EngineInv, EngineTypeOK, StageIsSound, KillTakesHold,
     TableIsReady, KillSwitchHolds, QuotesNeverCross, Whole
<1> QED BY <1>1, <1>2, <1>3 DEF Next

\* No quote crosses the book it was made from or the other side of itself,
\* whatever table, half spread and inventory meet in the pipeline
\* (quote_engine.v, Q0 and Q1).
THEOREM NeverCross == Spec => []QuotesNeverCross
<1>1. Init => EngineInv /\ QuotesNeverCross /\ KillSwitchHolds
  BY EngineInitially
<1>2. EngineInv /\ KillSwitchHolds /\ QuotesNeverCross /\ [Next]_vars
        => EngineInv' /\ KillSwitchHolds' /\ QuotesNeverCross'
  BY EngineStep
<1> QED BY <1>1, <1>2, PTL DEF Spec

\* The response to the kill write is a promise: no quote leaves enabled after
\* it (axi_ctrl.v write channel, quote_engine.v Q1).
THEOREM KillSafe == Spec => []KillSwitchHolds
<1>1. Init => EngineInv /\ QuotesNeverCross /\ KillSwitchHolds
  BY EngineInitially
<1>2. EngineInv /\ KillSwitchHolds /\ QuotesNeverCross /\ [Next]_vars
        => EngineInv' /\ KillSwitchHolds' /\ QuotesNeverCross'
  BY EngineStep
<1> QED BY <1>1, <1>2, PTL DEF Spec

\* The pipeline reads one load's table as long as quoting is enabled
\* (quote_engine.v, double-buffered skew LUT).
THEOREM TableSafe == Spec => []LiveTableIsWhole
<1>1. Init => EngineInv /\ QuotesNeverCross /\ KillSwitchHolds
  BY EngineInitially
<1>2. EngineInv /\ KillSwitchHolds /\ QuotesNeverCross /\ [Next]_vars
        => EngineInv' /\ KillSwitchHolds' /\ QuotesNeverCross'
  BY EngineStep
<1>3. EngineInv => LiveTableIsWhole
  BY DEF EngineInv, TableIsReady, LiveTableIsWhole
<1> QED BY <1>1, <1>2, <1>3, PTL DEF Spec
=============================================================================
