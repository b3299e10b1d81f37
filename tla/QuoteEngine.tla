---------------------------- MODULE QuoteEngine ----------------------------
(***************************************************************************)
(* One symbol's quoting logic and the control plane in front of it:        *)
(* quote_engine.v and the write channel and registers of axi_ctrl.v.  One  *)
(* step is one clock edge.  The top of book comes from book_bank (module   *)
(* Book says what it is), the position from fill processing.  A skew-table *)
(* entry is the number of the load that wrote it; Skews says what that     *)
(* load put there.  The host is the one the headers describe: it fills the *)
(* whole inactive table before it swaps, and enables quoting after a swap. *)
(***************************************************************************)
EXTENDS Integers

CONSTANTS LEVELS,     \* price levels, a power of two: 1 << IDX_W
          LUT_N,      \* inventory buckets (64)
          BucketSize, \* position units per bucket: 1 << BUCKET_SH
          Loads,      \* numbers of the host's table loads
          Skews,      \* Skews[load][bucket]: the table of a load, in ticks
          Spreads,    \* half spreads the host writes
          Limits,     \* position limits the host writes
          Tops,       \* tops of book the bank shows
          Positions,  \* inventories fill processing reports
          MaxWrites,  \* bound: writes of one bring-up
          MaxTriggers,\* bound: pulses from the bank and fill processing
          MaxResets   \* bound: resets after the first

Bucket == 0 .. LUT_N - 1
Idx    == 0 .. LEVELS - 1
Top    == [bidOn : BOOLEAN, askOn : BOOLEAN, bid : Idx, ask : Idx]

\* The working width W = IDX_W + 3 holds every sum the engine forms.
ASSUME EngineAssumption ==
  /\ LEVELS \in Nat \ {0} /\ LUT_N \in Nat \ {0} /\ BucketSize \in Nat \ {0}
  /\ Tops \subseteq Top /\ Positions \subseteq Int
  /\ Spreads \subseteq Nat /\ 0 \in Spreads /\ Limits \subseteq Nat /\ 0 \in Limits
  /\ 0 \in Loads /\ Loads \subseteq Nat /\ Skews \in [Loads -> [Bucket -> Int]]
  /\ \A h \in Spreads, l \in Loads, b \in Bucket :
       h + Skews[l][b] <= 3 * LEVELS /\ h - Skews[l][b] <= 3 * LEVELS
  /\ MaxWrites \in Nat /\ MaxTriggers \in Nat /\ MaxResets \in Nat

VARIABLES quote_enable, half_spread, pos_limit,  \* axi_ctrl's registers
          bvalid,            \* the response to a write, until it is taken
          strobe,            \* cfg_lut_we / cfg_lut_swap, one clock later
          skew_lut, live_buf,\* the two tables and which one is read
          tob, position,     \* inputs from the bank and fill processing
          trigger,           \* tob_valid || pos_update
          q0, quote,         \* the two pipeline stages
          host,              \* what the host has done since the reset
          writes, triggers, resets

regs == <<quote_enable, half_spread, pos_limit, bvalid, strobe, skew_lut, live_buf>>
vars == <<regs, tob, position, trigger, q0, quote, host, writes, triggers, resets>>

NoStrobe == [op |-> "none"]
NoQuote  == [valid |-> FALSE]
NoTop    == [bidOn |-> FALSE, askOn |-> FALSE, bid |-> 0, ask |-> 0]
\* loading: entries written for the next swap; load: their number; swapped: a
\* swap has been written since the reset; kill: "asked" by a write that disables
\* quoting, "done" when the master has taken its response.
Fresh(n) == [loading |-> {}, load |-> n, swapped |-> FALSE, kill |-> "no"]

Init ==
  /\ quote_enable = FALSE /\ half_spread = 0 /\ pos_limit = 0 /\ bvalid = FALSE
  /\ strobe = NoStrobe /\ skew_lut = [b \in 0 .. 1 |-> [i \in Bucket |-> 0]] /\ live_buf = 0
  /\ tob = NoTop /\ position = 0 /\ trigger = FALSE
  /\ q0 = NoQuote /\ quote = NoQuote
  /\ host = Fresh(1)
  /\ writes = 0 /\ triggers = 0 /\ resets = 0

-----------------------------------------------------------------------------
(* The pipeline *)

\* Signed arithmetic in W bits.
Signed(x) == ((x + 4 * LEVELS) % (8 * LEVELS)) - 4 * LEVELS

\* The inventory bucket: offset binary, saturating.
BucketOf(p) == LET i == p \div BucketSize + LUT_N \div 2
               IN  IF i < 0 THEN 0 ELSE IF i >= LUT_N THEN LUT_N - 1 ELSE i

\* Stage Q0: table read and risk checks, from the inputs of this cycle.
Q0 == [valid   |-> TRUE, tob |-> tob,
       skew    |-> Skews[skew_lut[live_buf][BucketOf(position)]][BucketOf(position)],
       bookOk  |-> tob.bidOn /\ tob.askOn /\ tob.bid < tob.ask,
       longLim |-> position >= pos_limit, shortLim |-> position <= -pos_limit]

\* Stage Q1: prices, the crossing clamp and the enables.
\* Mutant of Prices: no crossing clamp.
PricesUnclamped(q, hs) ==
  LET fair == (q.tob.bid + q.tob.ask) \div 2
  IN  [bid |-> Signed(fair - hs - q.skew), ask |-> Signed(fair + hs - q.skew)]

Prices(q, hs) ==
  LET fair   == (q.tob.bid + q.tob.ask) \div 2
      rawBid == Signed(fair - hs - q.skew)
      rawAsk == Signed(fair + hs - q.skew)
  IN  [bid |-> IF rawBid >= q.tob.ask THEN q.tob.ask - 1 ELSE rawBid,
       ask |-> IF rawAsk <= q.tob.bid THEN q.tob.bid + 1 ELSE rawAsk]

\* Mutant: the kill switch gates one side only.
Q1AskAlways == LET p == Prices(q0, half_spread)
               IN  [valid |-> TRUE, tob |-> q0.tob,
                    bid |-> p.bid % LEVELS, ask |-> p.ask % LEVELS,
                    bidEn |-> quote_enable /\ q0.bookOk /\ ~q0.longLim /\ p.bid >= 0,
                    askEn |-> q0.bookOk /\ ~q0.shortLim /\ p.ask <= LEVELS - 1]

Q1 == LET p == Prices(q0, half_spread)
      IN  [valid |-> TRUE, tob |-> q0.tob,
           bid |-> p.bid % LEVELS, ask |-> p.ask % LEVELS,
           bidEn |-> quote_enable /\ q0.bookOk /\ ~q0.longLim /\ p.bid >= 0,
           askEn |-> quote_enable /\ q0.bookOk /\ ~q0.shortLim /\ p.ask <= LEVELS - 1]

Pipeline == /\ q0' = IF trigger THEN Q0 ELSE NoQuote
            /\ quote' = IF q0.valid THEN Q1 ELSE NoQuote

\* Inputs of the next cycle: a new top of book, a fill, both or neither.  With
\* no pulse the bank's outputs stay, but for a reset that empties them when it
\* has come through the search two clocks later.
Inputs ==
  \/ /\ tob' \in {tob, NoTop} /\ position' = position
     /\ trigger' = FALSE /\ triggers' = triggers
  \/ /\ triggers < MaxTriggers /\ triggers' = triggers + 1 /\ trigger' = TRUE
     /\ tob' \in Tops \union {tob} /\ position' \in Positions \union {position}

-----------------------------------------------------------------------------
(* The control plane *)

\* The table write or the swap of the strobe latched one clock before.
\* Mutant: the write goes to the half that is being read.
StrobeEdgeLive ==
  /\ live_buf' = IF strobe.op = "swap" THEN 1 - live_buf ELSE live_buf
  /\ skew_lut' = IF strobe.op = "we" THEN [skew_lut EXCEPT ![live_buf][strobe.addr] = strobe.load]
                 ELSE skew_lut

StrobeEdge ==
  /\ live_buf' = IF strobe.op = "swap" THEN 1 - live_buf ELSE live_buf
  /\ skew_lut' = IF strobe.op = "we" THEN [skew_lut EXCEPT ![1 - live_buf][strobe.addr] = strobe.load]
                 ELSE skew_lut

\* A cycle without a write: the master may take the response.
Respond == /\ bvalid' \in {bvalid, FALSE}
           /\ strobe' = NoStrobe
           /\ UNCHANGED <<quote_enable, half_spread, pos_limit, writes>>
           /\ host' = IF bvalid /\ ~bvalid' /\ host.kill = "asked" THEN [host EXCEPT !.kill = "done"]
                      ELSE host

\* wr_fire: one write per response; its registers change on this edge.
Fire == ~bvalid /\ bvalid' = TRUE /\ writes < MaxWrites /\ writes' = writes + 1

WriteEnable(on) ==
  /\ Fire /\ (on => host.swapped)
  /\ quote_enable' = on
  /\ host' = [host EXCEPT !.kill = IF on THEN "no" ELSE "asked"]
  /\ strobe' = NoStrobe /\ UNCHANGED <<half_spread, pos_limit>>
WriteSpread(h) == /\ Fire /\ half_spread' = h
                  /\ strobe' = NoStrobe /\ UNCHANGED <<quote_enable, pos_limit, host>>
WriteLimit(l)  == /\ Fire /\ pos_limit' = l
                  /\ strobe' = NoStrobe /\ UNCHANGED <<quote_enable, half_spread, host>>
WriteLut(i) ==
  /\ Fire /\ host.load \in Loads
  /\ strobe' = [op |-> "we", addr |-> i, load |-> host.load]
  /\ host' = [host EXCEPT !.loading = @ \union {i}]
  /\ UNCHANGED <<quote_enable, half_spread, pos_limit>>
WriteSwap ==
  /\ Fire /\ host.loading = Bucket
  /\ strobe' = [op |-> "swap"]
  /\ host' = [host EXCEPT !.loading = {}, !.load = @ + 1, !.swapped = TRUE]
  /\ UNCHANGED <<quote_enable, half_spread, pos_limit>>
\* A read-only, book or unmapped address changes nothing but the response.
WriteNothing == /\ Fire /\ strobe' = NoStrobe
                /\ UNCHANGED <<quote_enable, half_spread, pos_limit, host>>

Control == \/ Respond \/ WriteSwap \/ WriteNothing
           \/ \E on \in BOOLEAN : WriteEnable(on)
           \/ \E h \in Spreads : WriteSpread(h)
           \/ \E l \in Limits : WriteLimit(l)
           \/ \E i \in Bucket : WriteLut(i)

Edge == Pipeline /\ Inputs /\ StrobeEdge /\ Control /\ UNCHANGED resets

\* rst: registers and valid bits fall, the tables keep what they hold; a swap
\* latched in the cycle before is dropped, a table write still happens.  The
\* host starts over.
ResetEdge ==
  /\ resets < MaxResets /\ resets' = resets + 1
  /\ quote_enable' = FALSE /\ half_spread' = 0 /\ pos_limit' = 0 /\ bvalid' = FALSE
  /\ strobe' = NoStrobe /\ live_buf' = 0
  /\ skew_lut' = IF strobe.op = "we" THEN [skew_lut EXCEPT ![1 - live_buf][strobe.addr] = strobe.load]
                 ELSE skew_lut
  /\ trigger' = FALSE /\ q0' = NoQuote /\ quote' = NoQuote
  /\ host' = Fresh(host.load + 1) /\ writes' = 0
  /\ UNCHANGED <<tob, position, triggers>>

Next == Edge \/ ResetEdge
Spec == Init /\ [][Next]_vars

-----------------------------------------------------------------------------
(* What ties the registers together between two edges. *)

Strobe == {NoStrobe} \union [op : {"swap"}] \union [op : {"we"}, addr : Bucket, load : Loads]

EngineTypeOK ==
  /\ quote_enable \in BOOLEAN /\ half_spread \in Spreads /\ pos_limit \in Limits
  /\ bvalid \in BOOLEAN /\ strobe \in Strobe
  /\ skew_lut \in [0 .. 1 -> [Bucket -> Loads]] /\ live_buf \in 0 .. 1
  /\ tob \in Top /\ position \in Int /\ trigger \in BOOLEAN
  /\ q0.valid \in BOOLEAN /\ quote.valid \in BOOLEAN
  /\ host \in [loading : SUBSET Bucket, load : Nat, swapped : BOOLEAN,
               kill : {"no", "asked", "done"}]

\* What Q1 may rely on: an uncrossed pair of levels and an entry of a table.
StageIsSound ==
  q0.valid => /\ q0.tob \in Top
              /\ q0.bookOk => q0.tob.bid < q0.tob.ask
              /\ \E l \in Loads, b \in Bucket : q0.skew = Skews[l][b]

KillTakesHold == host.kill # "no" => ~quote_enable

\* One load fills a table.
Whole(table) == \E l \in Loads : table = [i \in Bucket |-> l]

\* A strobe is followed by the write's response, so no other write comes
\* between a write and its effect; the entries written since the last swap are
\* in the inactive table, but for the one whose strobe is up.
TableIsReady ==
  /\ strobe.op # "none" => bvalid
  /\ strobe.op = "we" => strobe.load = host.load
  /\ strobe.op = "swap" => Whole(skew_lut[1 - live_buf]) /\ host.loading = {}
  /\ \A i \in host.loading : ~(strobe.op = "we" /\ strobe.addr = i)
                              => skew_lut[1 - live_buf][i] = host.load
  /\ host.loading # {} => host.load \in Loads
  /\ host.swapped /\ strobe.op # "swap" => Whole(skew_lut[live_buf])
  /\ quote_enable => Whole(skew_lut[live_buf])

EngineInv == EngineTypeOK /\ StageIsSound /\ KillTakesHold /\ TableIsReady

\* An enabled quote is on the grid, rests on its own side of the top of book
\* it was made from, and our two sides never cross.
\* quote_engine.v, Q1: "Never cross".
QuotesNeverCross ==
  quote.valid => /\ quote.bidEn => quote.bid < quote.tob.ask
                 /\ quote.askEn => quote.ask > quote.tob.bid
                 /\ quote.bidEn /\ quote.askEn => quote.bid <= quote.ask

\* Once the host has the response to the write that disabled quoting, no quote
\* of the pipeline leaves enabled.
KillSwitchHolds ==
  host.kill = "done" /\ quote.valid => ~quote.bidEn /\ ~quote.askEn

\* While quoting is enabled the live table is one load and not a mixture,
\* whatever the host is writing and wherever a reset cut it off.
\* quote_engine.v header: "the pipeline never sees a half-written table".
LiveTableIsWhole ==
  quote_enable => Whole(skew_lut[live_buf])
=============================================================================
