# FMMA in TLA+

FMMA trades with two processors. A Linux program on the ARM core (the *host*,
`Software/src`) receives quotes over a websocket, sends orders over HTTP and
keeps the books. A small CPU in the FPGA fabric runs `Software/trading.asm`,
compares consecutive quotes and decides. The two share nothing but a 4 KB
dual-port RAM: no lock, no interrupt, no reset line from one to the other.
Beside it stands a second design, `NewArch/In-memory v1`, in which the order
book and the quoting logic are hardware next to the RAM that holds the book.

This directory holds a TLA+ model of that system, the TLC configurations that
check it on small instances, and TLAPS proofs of its most important parts for
all instances.

## 1. Inventory

| Component | State | Operations | Hard part | What makes it correct |
|---|---|---|---|---|
| Shared RAM (`fmma_protocol.h`) | 32-bit words, an input and an output block | single loads and stores | only one access is atomic | each word has a meaning that the order of stores protects |
| `trading.asm` | anchor, last tick, position, last fill number, heartbeat | init, heartbeat, restart, fill, seqlock read, decide, emit, reject | runs concurrently with the host, restarted at any time | decides on whole quotes, with the true inventory, only when enabled |
| `reset_ctrl.v`, `KEY[0]` | none | clears the CPU's registers | at any instruction, the RAM stays | a reset loses nothing that matters |
| `fmma_fpga.c` | three sequence numbers | load, publish, report fill, poll, enable, close | killed between any two stores, then reloaded over what the RAM holds | readers never see a half-done update; a load ends |
| `fmma_exec.c` | eight order slots, counters | send or refuse, answer to a POST, answer to a query, error, close, poll | answers, errors and closes in any order, or never; slots reused | a fill report is a fill, once; the counters add up; no slot is lost |
| `fmma_risk.c` | position, average, realised, unrealised, halted | fill, mark, check | fills and quotes alternate arbitrarily | P&L is equity; the halt is final |
| `fmma_app.c` | last mid, flags | event loop, callbacks | decisions, orders in flight and fills overlap | exposure is bounded |
| `fmma_feed.c` | connection, timer, delay | connect, open, ticker, error, close, poll | connections fail at any stage | always a connection or a timer; only usable quotes |
| `fmma_strategy.c` | anchor, position | the same strategy in 64 bits | register overflow | decides and rejects like the fabric |
| `fmma_fixed.c` | none | price parser, price clamp | any number of digits, 64-bit and 32-bit edges | a quote is the price that was sent; one out of range is not traded on |
| `book_bank.v` | level RAM, bitmaps, five pipeline stages | update, reset and clear, host read | an update a clock, read-first RAM, four books under way | each update counts once, each pulse shows its own update's top |
| `quote_engine.v` | skew tables, two pipeline stages | trigger, table write, swap, reset | table reloaded while it is used, kill switch beside the pipeline | quotes do not cross; the switch holds; one table at a time |
| `axi_ctrl.v` | registers, strobes, one read, one response | register write, book read | the effect of a write comes a clock after its acceptance | what is acknowledged is in force |

The host is single-threaded: within it only the network reorders things. The
real concurrency is between the host and the CPU, access by access, and, in the
in-memory design, between feed, host and pipeline, clock by clock.

Calls and data: `fmma_feed` → `on_quote` → (`fmma_risk_mark`,
`fmma_fpga_publish_tick`) → RAM → `trading.asm` → RAM → `drain_fpga` →
`act_on` → (`fmma_risk_check`, `fmma_exec_send`) → broker → `settle` →
`on_fill` → (`fmma_risk_on_fill`, `fmma_fpga_report_fill`) → RAM →
`trading.asm`.

## 2. Modules

| Module | Models | Notes |
|---|---|---|
| `FixedPoint` | register arithmetic, clamp, band test | width is the constant `SignedMod` |
| `SharedRam` | the protocol words | `mem`, one function; sequence words wrap at `WordMod` |
| `TradingCpu` | `trading.asm` | one action per RAM access, `cpu.pc` names the next one |
| `HostFpga` | `fmma_fpga.c` and the calls of `fmma_app.c` into it | one action per RAM access, plus `Crash` |
| `Fabric` | the two together, `KEY[0]`, timing facts, observers | the properties of the protocol |
| `QuoteBoard` | abstract specification of the market-data block | a board replaced and copied in one step |
| `MCFabric` | quote sets for TLC | |
| `OrderExec` | `fmma_exec.c`, the broker and the connections | one action per callback |
| `RiskBook` | `fmma_risk.c` | |
| `HostApp` | the event loop over `OrderExec` and `RiskBook`, with the fabric or in software | the CPU reduced to decide-then-announce |
| `Decimal` | `fmma_parse_scaled` | used by `QuoteFeed` |
| `QuoteFeed` | `fmma_feed.c` | |
| `TwinStrategy` | `fmma_strategy.c` beside `trading.asm`, with fills and limits | |
| `QuotePath`, `MCPath` | the two together: from the text of a ticker to both strategies' decisions | one step per ticker, as in the code |
| `Book` | abstract specification of one symbol's book | an update is one step; its top of book appears four clocks later |
| `BookBank`, `MCBook` | `book_bank.v` and the book reads of `axi_ctrl.v` | one action per clock edge; refines `Book` |
| `QuoteEngine`, `MCQuote` | `quote_engine.v` and the writes of `axi_ctrl.v` | one action per clock edge |
| `FabricProofs`, `SeqlockProofs`, `ProtocolProofs` | | proofs about `Fabric` |
| `HostProofs`, `FeedProofs` | | proofs about `OrderExec` and `HostApp`, about `QuoteFeed` |
| `TwinProofs`, `BookProofs`, `QuoteProofs` | | proofs about `TwinStrategy` and `QuotePath`, `BookBank`, `QuoteEngine` |

Operators marked *Mutant* in the modules are deliberate one-line bugs. No
specification uses them; replacing the definition that follows by the mutant
makes the property named in `PROJECT.json` fail, which shows that the property
depends on that piece of code.

### How state and actions correspond to the code

*RAM.* `mem[w]` is the word `FMMA_w`. Words nobody reads are left out, and the
program area is the single word `ENTRY`: the loader stores it last and a CPU
that finds it zero stays parked.

*CPU.* The fields of `cpu` are the registers named in the comment above
`CpuInit`. An action performs one access and all register instructions up to
the next; registers that are dead at `LOOP` are forgotten there. A load, add
and store of a word only the CPU writes (`SIGNAL_SEQ`, `REJECTS`) is one step.

*Host.* `host` is `struct fmma_fpga` plus the locals of the function being
executed. `Crash` forgets all of it and leaves the RAM. A new process gets, as
its configured position, the position at the broker: the operator's
`--position` is assumed right.

*Orders.* A slot has the order it was taken for as a ghost field, so that a
mix-up can be stated. A connection is drained and closed in the step of its
answer. After an error it is closed in the same pass of the event loop or,
when the error comes from the resolver (`"gap"` in `Mishaps`), in the next one;
the observer `late` remembers that this has happened. `fmma_exec_send` counts an
order it turns away: as rejected when the environment has no credentials
(`credentials`, fixed at `fmma_exec_create`), as an error when
`mg_http_connect` returns nothing (`TurnAway`). The cooldown, the dry run and a
full table count nothing that the model keeps, so an order they drop is a step
that changes nothing. `stats.turned` and `stats.unheard` count the orders
turned away and the queries that failed, which the code's counters mix with
others. The broker is external: it may receive, refuse, fill, cancel, or cancel
after a partial fill, an answer may show an older state, and it may never come.

*Event loop.* `making` is a decision that has passed the tests of `trading.asm`
and is not yet announced; the master switch may be cleared in between. Without
a fabric (`--software`, `fabric = FALSE`) the strategy decides inside
`on_quote`, on the book just marked, and acts before the callback returns.
`StartPositions` are the values of `--position`: such inventory has no average
cost, and `Equity` leaves it out as the code does.

*Feed.* A scheduled reconnect is a timer that becomes due. `mg_ws_connect` may
return nothing, a connection may fail while it opens, after it opened, with or
without an error event. A ticker carries two texts; `Decimal` reduces a text to
what the parser's loops see (sign, digits before and behind the point) and does
their arithmetic in wrapping 64-bit integers. In `QuotePath` the step of a
ticker goes on to the decision: the prices the strategies are compared on are
what parser and clamp make of the texts, the clamped ones included.

*Clock edges.* In `BookBank` and `QuoteEngine` a step is one clock: every
register gets the value computed from the registers before the edge and the
inputs of that cycle, which is what non-blocking assignment means. The inputs
(`rst`, the feed, the host, fills) are chosen freely in each step. A pipeline
register whose valid bit is low is kept as `None`, since nothing reads it.
A reset is one such step: the RAM and the search go on, so `tob` still drains
for two clocks and the skew tables keep their contents. An entry of a skew
table is the number of the load that wrote it; `Skews` says what that load put
there, so that a mixture of two loads can be told from either. The host of the
in-memory design is the one its headers describe: it fills the inactive table,
then swaps, and enables quoting after that.

Observers (`board`, `taken`, `obs` in `Fabric`; `told`, `late` and the two fields of
`stats` above in `OrderExec`; `cash`,
`drift`, `marked` in `HostApp`; `fails`, `heard` in `QuoteFeed`; `h1.ready` in
`BookBank`; `host` in `QuoteEngine`) record what happened
and are read by properties and bounds only.

## 3. Timing facts

Four guards in `Fabric` state facts about speed that the code relies on:

* `TickPaced`: 2^31 quotes are not published during one CPU pass (4 µs);
* `FillPaced`: two fills are further apart than a CPU pass. The code does not
  enforce this; it is listed as a hazard;
* `SignalPaced`: fewer than 2^32 decisions pile up between two polls;
* `SleptEnough`: a running CPU makes some passes during `usleep(100000)`.

The theorems use one each: `SeqlockInv` and its refinement `TickPaced`,
`FillsAddUp` `FillPaced`, `MissedExactly` `SignalPaced`, and `HandshakeHolds`
(with the two before it) `SleptEnough`. The bounds on late and orphan decisions
use none.

## 4. Runs

| Run | Shows | Bounds |
|---|---|---|
| `seqlock` | the seqlock implements `QuoteBoard`, through crashes and `KEY[0]`; a completed quote is read | 2 quotes, 2 processes, numbers modulo 6 |
| `reload` | a load ends, each of its steps taking it nearer, trades only after a real handshake, and no fill is lost or applied twice on the way | 4 kinds of board, 2 versions, 3 processes, 3 attempts, inventory ±2, numbers modulo 4 |
| `signals` | missed decisions counted exactly; one late decision after a halt, two after the host dies, at most | every quote triggers; numbers modulo 4 |
| `exec` | until the first late close fill reports are real, answers meet their order and the counters add up; with late closes too no order leaves the table uncounted, `query_in_flight` is honest, and an order with an id is released unless a query about it hangs | 2 orders, 1 more turned away, 2 slots, 2 connections, 2 polls, every mishap, with and without credentials |
| `app` | P&L is equity; the bound that does hold on the inventory; the halt is justified and winds down | 4 orders, 1 slot, 2 prices, limit 1, flat or long, fabric or software |
| `quotes` | reconnection and back-off; the quote is the price in the text; fabric and software decide and reject alike from every anchor whose band fits a register | delays 2, 4, 8, 10; 17 texts, largest price 15, 6-bit registers, 9-bit integers, threshold 2, limit 1, inventory ±2 |
| `book` | the pipelined book implements `Book`; host reads | 2 words of 2 levels a side, 3-bit quantities, 3 updates, 1 reset at any clock |
| `mm` | quotes do not cross, the kill switch holds, the live table is one load | 4 levels, 2 buckets, 7 writes, 2 triggers, 1 reset |

A modulus of 4 or 6 lets every counter wrap several times, and parity is all
that the seqlock makes of a number. Two quotes that differ in both words are
enough to show a mixture. In `exec` the second order either works beside the
first or takes its slot while a connection of the first is still open; the
invariants are proved for any number of either and for every outcome, so the run
can leave out the partial fill, which takes the path of a fill up to `settle`
and is counted there like a cancellation. In `app` the bound of
`ExposureIsBounded` is 3 with the fabric and four orders may be sent, so the
bound is reached and could be exceeded. In `book` three updates meet on one
level in S1, on the write and in the forwarding path, the deltas saturate
(3 + 3 + 3) and clamp (3 - 4), and two words a side make both search stages
choose. In `mm` seven writes load a table, swap, enable, and begin the next
load, and the tables push the prices past either side of the book; one of the
two tops of book is crossed. In `quotes` the texts lie on both sides of every
edge: no digits, zero, the largest price and one unit more, a decimal too many,
and enough digits to wrap the integers to an ordinary price; two clamped prices
put the anchor where twice the threshold does not fit, so both sides of
`BandFits` occur. Deadlock checking is off where a bound (processes, orders) or
a host that nobody restarts really ends the behaviour; it is on for `quotes`,
`book` and `mm`.

### Where code and documents disagree

These runs are expected to fail; `PROJECT.json` quotes the sentence each refutes.

| Run | What TLC finds |
|---|---|
| `torn_poll` | a decision is read under the number of the one before |
| `key0_position` | `KEY[0]` loses the fills since the load |
| `twins_clamp` | a malformed ticker is clamped to the largest price on both sides; `anchor + 2 * THRESH` overflows (`trading.asm:230`) and the fabric sells on a quote that did not rise, where `docs/09` says that such a quote "cannot invert the comparisons" |
| `clamp` | a price above the range becomes the largest price and is traded on, where `fmma_fixed.h:45` says that 0 is returned so that nobody trades "on a silently mangled number" |

These two say what the passing run leaves open: `TwinsAgree` has the hypothesis
`BandFits`, which an anchor within twice the threshold of the register's end
breaks, as a clamped one does, and `PricesAreExact` allows the largest price for
a text that names more.

Smaller disagreements that follow from the models and have no run:

* the close of a query that failed in the resolver comes a pass of the event loop
  after its error and clears the `query_in_flight` of a newer query
  (`fmma_exec.c:238`); a second query goes out, and a fill may be reported twice
  or for the order that has the slot by then. This is the `late` in
  `ReportsAreReal`, `AnswersMeetTheirOrder` and `OrdersAccountedFor`;
  `NoOrderVanishes` and `FlagIsHonest` hold after such a close too;
* a query has no time-out, and `fmma_exec_poll` skips a slot with
  `query_in_flight` (`fmma_exec.c:360`) before it tests the 60 seconds (`:365`),
  so a query that is never answered keeps its slot for ever, where `:364` says
  "Give up eventually rather than polling a lost order forever". This is the
  second half of `KnownOrdersAreReleased`;
* a feed connection whose handshake neither succeeds nor fails is kept for ever,
  since `fmma_feed_poll` does nothing while there is one (`fmma_feed.c:168`): the
  last disjunct of `KeepsTrying`;
* with the fabric, a loss that a closing fill realises stands in `unrealised` as
  well until the next quote, and the sticky halt may trip on the sum
  (`fmma_risk.c:93`; `docs/09` speaks of realised plus unrealised loss). This is
  why `HaltIsJustified` asks for a marked book or the software strategy;
* a position limit of 0 disables one side only when the position is not 0
  (`axi_ctrl.v:162` says "both sides disabled");
* `book_bank.v:15` allows 64 levels, for which the working width of
  `quote_engine.v:56` does not hold a half spread of 255 and a skew of 128;
  `EngineAssumption` asks for sizes that fit, as the 1024 levels in use do;
* a host read of the book while the bank clears its RAM returns the book before
  the reset (`book_bank.v:116` does not look at `ready`), which is why
  `HostReadsTheBook` speaks of reads issued afterwards;
* clearing `quote_enable` makes no `q_valid` pulse, so quotes already out stay
  until the next trigger (`quote_engine.v:120`);
* after a restart the CPU anchors on the quote the previous process left
  (`trading.asm:84` says "re-anchor on the next quote");
* the loader and the CPU both store `FW_VERSION`, the CPU also `CFG_RESTART`
  (`docs/07` says the write sets are disjoint);
* a POST closed without an answer or an error keeps its slot for ever, since
  `fmma_exec_poll` skips a slot without an id (`fmma_exec.c:360`); this is why
  `KnownOrdersAreReleased` speaks of known orders;
* a partly filled order that is canceled is counted as rejected and no fill is
  reported (`fmma_exec.c:113`; `docs/09` says it "is still reported as one lot");
* orders in flight take the inventory past the limit, up to the bound of
  `ExposureIsBounded` (`docs/09` says it "cannot exceed" it).

### Fairness

* `Fabric!FairSpec`: the CPU is clocked, so its next access happens; the host
  finishes a call it has begun, polls when there is a decision and closes after
  a failed load. Publishing, filling, starting and pressing are not fair.
* `OrderExec!ExecFairSpec`: the event loop polls every slot again and again, and
  nothing else. No connection has a time-out, so none need be answered, fail or
  close, and the broker need not receive or decide.
* `QuoteFeed!FeedFairness`, in `QuotePath!PathFairSpec` too: the loop polls, time
  passes, and a connection that has failed closes, which mongoose does in its
  next pass. An attempt need not end.

## 5. Proofs

All theorems hold for every value of the constants allowed by the named
assumptions: sequence numbers of any even modulus of at least 4 (the parity of
`TICK_SEQ` must survive the wrap), registers of any width divisible by 4, any
set of quotes, any number of processes, crashes and resets; books of any size,
any word size that divides it, any quantity width; any skew tables that fit the
engine's working width.

* `FabricProofs!TypeCorrect`: `Spec => []FabricTypeOK`. CPU registers, CPU
  stores, host structure and host stores are proved separately.
* `SeqlockProofs!SeqlockCorrect`: `Spec => []SeqlockInv`. That the CPU takes
  whole quotes is not inductive by itself. The invariant adds what a reader in
  mid-read may rely on: (1) while `TICK_SEQ` is even, `BID` and `ASK` are the
  quote last completed; (2) while the host writes them it is odd, and the number
  it will become is not the one the reader remembers; (3) a reader whose number
  still stands has copied the words as they are. A crash in the middle of a
  publication keeps (1) because the number stays odd, and the next process keeps
  it because it continues from the even number below.
* `SeqlockProofs!SeqlockImplementsBoard`: `Spec => SnapshotsAreWhole`, the
  refinement of `QuoteBoard`: completing a publication is `Post`, accepting a
  snapshot is `Take`, initialisation and reset are `Forget`, everything else
  stutters.
* `TwinProofs!TwinsDecideAlike`: `TwinSpec => TwinsAgree`, for every set of raw
  prices, below the clamp, at it or beyond. The invariant is that anchors and
  positions agree and that the anchor is a sum of two clamped prices; the lower
  edge of the band then never leaves the register, and the upper one is what
  `BandFits` is about.
* `TwinProofs!PathImplementsFeed`, `PathImplementsTwins`: `QuotePath` implements
  `QuoteFeed` and `TwinStrategy`, so the theorems about each hold on the path
  from ticker to decision.
* `BookProofs!BookImplemented`: `Spec => ImplementsBook`, the refinement of
  `Book`. The mapping counts an update from the clock that takes it, while it is
  still in S1, and treats a bank that clears its RAM as empty. The refinement
  needs three facts between clocks, proved first (`BankSafe`): while the clear
  runs nothing is in flight, the bitmaps are empty and the RAM is zero below the
  clear address; afterwards each bitmap marks exactly the occupied levels; and
  what the forwarding path gives S1 is the word in the RAM, which is what the
  read-first RAM alone would not give an update right behind another.
* `BookProofs!HostReadsSafe`: `Spec => []HostReadsTheBook`, from the same
  invariant.
* `QuoteProofs!NeverCross`, `KillSafe`, `TableSafe`: the three invariants of the
  quote engine, from `EngineInv`. It adds to the types that stage Q0 holds an
  uncrossed pair of levels and an entry of a table whenever Q1 may enable a
  quote, that a disabling write has cleared the register before its response,
  and, for the tables, that the entries written since the last swap are in the
  inactive half except the one whose strobe is up, and that a strobe is always
  covered by its response, so that no swap overtakes a table write. `NeverCross`
  also needs that the signed sums fit the width (`SignedExact`).

*The protocol on the RAM* (`ProtocolProofs`). `CpuFlow`, `CpuKeeps`, `CpuStores`
and `HostEffect` state once what a step of either side does to the words and
registers in question, action by action; each invariant is then preserved by
reasoning on the two program counters.

* `LateDecisions` and `OrphanDecisions` have no hypothesis: any constants,
  crashes, reloads and presses of `KEY[0]`. The first rests on `LateInv`: while
  trading is on, and while the CPU carries a decision whose `CFG_ENABLE` test is
  behind it, no late decision has been counted. The second is a potential
  argument: with the host gone the board is frozen, and the decisions counted
  plus `DecisionsLeft` (the one under way, and one on a quote not taken yet
  unless it will only be the first anchor) never exceed two.
* `HandshakeHolds` (`TradesOnlyAfterHandshake`) from `HandshakeInv`. The danger
  is a version declared by an initialisation that began before this load's
  request. The invariant follows the heartbeats of the loader's sleep: after the
  first, the CPU has the test of `CFG_RESTART` right before it or behind it;
  after the second, the restart is done. Hypotheses: `SleepLaps >= 2`
  (`usleep(100000)` against passes of a few microseconds), and no `KEY[0]`,
  which restarts the CPU behind the host's back and refutes the property.
* `FillsAddUp` (`FillsConserved`) and `MissedExactly` (`MissedIsExact`) under the
  same hypotheses, on top of the handshake: it rules out that the CPU clears
  `SIGNAL_SEQ` or re-reads its position while the host trades. `FillInv` says in
  addition that `CFG_POSITION` is the broker's position once the loader stored
  it, that a CPU that acknowledged the request holds it and has no fill to apply
  (`Synced`), and what the fill words hold while a report is written.
  `MissedInv` equates the decisions since the last read with the distance modulo
  the word between `SIGNAL_SEQ` and `sigSeq`, or `seq` in mid-poll.
* `PositionKeptWithoutKey0`: under the same hypotheses `PositionIsTruth` holds,
  so the press of `KEY[0]` in the run `key0_position` is what loses the position.
* `LoadBounded` (`LoadIsBounded`) has no hypothesis: `LoadStepsLeft`, a number
  read off the loader's program counter and its attempts, falls with every step
  the loader takes, whatever the CPU does. What fairness adds to make this
  `LoadTerminates` is only that the loader takes its next step.

*The host program* (`HostProofs`), for every number of slots, connections and
orders, every set of prices and limits.

* `ExecTyped`: with the types goes that every connection and every slot names an
  order that was sent (`ExecData`).
* `AnswersMeet`, `ReportsReal`, `OrdersAccounted`: under every set of mishaps,
  each with the disjunct `late`: they hold up to the first connection that stays
  open after its error, and such a one does break them (section 4), so that is
  the line between what the code guarantees and what it does not. `Meeting`: the
  slot of a live connection is that order's, has one question out at a time, and
  has no id while its POST is unanswered. `Truthful`: what was told is filled at
  the broker, told once, and an active slot's order has not been told.
* `NothingVanishes`, `FlagHonest`: what holds after a late close as well. An
  answer may then release a slot that is free or another order's, so `Meeting`
  is not available; the proofs use only what a callback does to a slot in any
  state (`CallbackEffect`): it never frees an active slot without raising a
  counter, and no query ends without clearing the flag of its slot.
* `ProfitShownIsEquity` and `HaltJustified` from `Books`: realised profit is the
  cash plus the position at its average, up to `drift`. Averaging in truncates
  and adds at most the size of the position to `drift`; closing and reversing
  add nothing.
* `ExposureBounded`: from `Exposed`, which counts the decisions the fabric has
  under way as well. Hypothesis: the configured position is inside the bound to
  begin with; the code does not test `--position`.
* `HaltWinds`: under every mishap. `LoopImplementsExec`: `HostApp!Spec` implements
  `OrderExec!ExecSpec`, so the theorems about execution hold in the whole host.

*The feed* (`FeedProofs`).

* `FeedNeverStranded` (error and close in any order), `QuotesComparable` (from
  the clamp alone, whatever 64-bit number the parser returns) and
  `BackoffFollows` (the delay is the minimum doubled per failure, capped).
* `PricesExact` (`PricesAreExact`), for texts of any length. The parser and the
  number it should return are recursive functions over the digits. That such a
  function exists and obeys its equation is proved first (`FollowsExists`,
  `FollowsForever`): partial solutions up to n exist by set induction, agree, and
  are put together. Then, against the sum of digits times powers of ten
  (`Numeral`): `WholeAgainstSum`, the integer part is that sum until it saturates
  and from then on both are at least `WHOLE_SATURATE`; `FractionIsExact`, the
  decimals are the first `Places` digits, filled up with zeros (`FractionFilledUp`)
  or cut off (`FractionCutOff`); `WideIsExact`, no intermediate value reaches the
  edge of the integers. A saturated integer part is beyond the largest price and
  is clamped, as the number in the text would be (`LargeText`, `ClampedText`).
  `DecimalAssumption` is what the code's constants satisfy: the scale is a power
  of ten, the largest price lies below `WHOLE_SATURATE` at the scale, and ten times
  that fits the signed integers.

Only model-checked: the four liveness properties (`LoadTerminates`,
`QuoteIsRead`, `KnownOrdersAreReleased`, `KeepsTrying`), since fairness and
`ENABLED` are beyond the prover; the first has its safety half in `LoadBounded`.
Every other property of a passing run is a theorem. The library's induction
theorems take an operator as a parameter, which the provers do not instantiate;
the inductions here are over a set of numbers (`Induction`, `InductionUpTo`).

## 6. Not modelled

* The CPU's gates, decoder and instruction encoding; the assembler, simulator
  and deployment tools: `TradingCpu` starts from what an instruction does.
* JSON scanning, number formatting, TLS, option parsing, logging, the fabric
  check: no state outlives a call. Latency statistics are reporting.
* The diagnostic programs (`fmma_bench.c`, `fmma_probe.c`, `fmma_selftest.c`):
  drivers run by hand over the protocol that is modelled. The benchmark has one
  weak point worth knowing: an answer that comes after its time-out is taken for
  the answer of the next tick (`fmma_bench.c:251`).
* `market_maker.asm`, which is not the program that is built.
* `NewArch/In-Memory v2`: `MarketStream.c` and `mm_feed_test.c` are wiring tests
  for feed registers whose hardware is present only as a bitstream, so what
  their writes do cannot be read from the source. Of v1, the register reads and
  the address decoder of `axi_ctrl.v` and the wiring of several symbols
  (`mm_core.v`, `mm_top.v`), which keep no state the properties speak of.
* Vendored and generated code. It is most of the C in the repository: two copies
  of the memory sequencer of the board support package (25,000 lines) and
  mongoose. The program's own C is under 5,000 lines, a third of it diagnostics,
  options and logging; the assembly and Verilog that carry the core logic come
  on top. The map therefore covers a small share of all C lines and most of the
  lines that decide.

Real time is left out everywhere: a time-out is something that may happen.

## 7. Plan

Done: everything above. Next, in this order:

1. Shutdown: `fmma_app_destroy` frees the structures that callbacks still use.
2. `market_maker.asm` as a second CPU module over `SharedRam`; the CPU's
   fetch/execute machine (`cpu_core.v`) as the implementation of one
   `TradingCpu` access; `reset_ctrl.v` clock by clock.
3. The benchmark over `TwinStrategy`, with the latency ring and its percentiles.
