----------------------------- MODULE BookBank -----------------------------
(***************************************************************************)
(* One symbol's order book in on-chip RAM: book_bank.v, with the book-read *)
(* half of axi_ctrl.v as the host on its read port.  One step is one clock *)
(* edge: every register takes the value computed from the registers before *)
(* the edge and from the inputs of that cycle (rst, the feed, the host).   *)
(* A pipeline register whose valid bit is low is never used; the model     *)
(* keeps None there instead of its contents.                               *)
(***************************************************************************)
EXTENDS Integers, FiniteSetsExt

CONSTANTS LEVELS,     \* price levels per side
          WordBits,   \* bits of a bitmap word (32)
          QtyMax,     \* 2^QTY_W - 1
          Deltas,     \* quantity changes the feed sends
          HostReads,  \* addresses the host reads
          PowerOn,    \* what a RAM word may hold when power comes up
          MaxUpdates, \* bound: updates taken from the feed
          MaxResets   \* bound: resets after the first

ASSUME BankAssumption == /\ LEVELS \in Nat /\ WordBits \in Nat
                         /\ LEVELS > 0 /\ WordBits > 0
                         /\ LEVELS % WordBits = 0
                         /\ QtyMax \in Nat
                         /\ Deltas \subseteq Int
                         /\ HostReads \subseteq 0 .. 2 * LEVELS - 1
                         /\ PowerOn \subseteq 0 .. QtyMax
                         /\ MaxUpdates \in Nat /\ MaxResets \in Nat

VARIABLES clr_busy, clr_addr,     \* the clear that follows a reset
          level_qty, rd_qty,      \* the RAM and its read register
          s1, wb, h1,             \* update read back, last write, host read
          bid_map, ask_map,       \* occupancy bitmaps
          b1,                     \* stage B1: per-word encoders
          tob,                    \* stage B2: the search's result
          v_map, v_b1, tob_valid, \* valid pulse travelling with an update
          host,                   \* axi_ctrl: the book read outstanding
          updates, resets         \* counted for the bounds

vars == <<clr_busy, clr_addr, level_qty, rd_qty, s1, wb, h1, bid_map, ask_map,
          b1, tob, v_map, v_b1, tob_valid, host, updates, resets>>

Idx    == 0 .. LEVELS - 1
Addr   == 0 .. 2 * LEVELS - 1
Words  == 0 .. (LEVELS \div WordBits) - 1
Bits   == 0 .. WordBits - 1
None   == [valid |-> FALSE]
NoAddr == -1
Blank  == [any |-> {}, loc |-> [w \in Words |-> 0]]
Unseen == [present |-> FALSE, best |-> 0]

Init ==
  /\ clr_busy = TRUE /\ clr_addr = 0
  /\ \E q \in PowerOn : level_qty = [a \in Addr |-> q]
  /\ rd_qty = 0 /\ s1 = None /\ wb = None /\ h1 = None
  /\ bid_map = {} /\ ask_map = {}
  /\ b1 = [bid |-> Blank, ask |-> Blank]
  /\ tob = [bid |-> Unseen, ask |-> Unseen]
  /\ v_map = FALSE /\ v_b1 = FALSE /\ tob_valid = FALSE
  /\ host = [st |-> "idle"]
  /\ updates = 0 /\ resets = 0

-----------------------------------------------------------------------------
\* The RAM is read-first: a read on the edge of a write to the same level
\* returns the old word, and the last write is used instead.
Forward(addr) == IF wb.valid /\ wb.addr = addr THEN wb.qty ELSE rd_qty

\* sum and new_qty: negative clamps to zero, overflow saturates.
NewQty(cur, delta) == LET sum == cur + delta
                      IN  IF sum < 0 THEN 0 ELSE IF sum > QtyMax THEN QtyMax ELSE sum

new_qtyUnforwarded == NewQty(rd_qty, s1.delta)
new_qty == NewQty(Forward(s1.addr), s1.delta)

HostDataUnforwarded == rd_qty
host_rd_data == Forward(h1.addr)

\* The RAM after this edge's write; the clear has the port to itself.
RamAfter == IF clr_busy THEN [level_qty EXCEPT ![clr_addr] = 0]
            ELSE IF s1.valid THEN [level_qty EXCEPT ![s1.addr] = new_qty]
            ELSE level_qty

\* A bitmap (of the bids at 0, of the asks at LEVELS) after this edge.
MapAfter(map, base) ==
  IF s1.valid /\ s1.addr - base \in Idx
  THEN IF new_qty # 0 THEN map \union {s1.addr - base} ELSE map \ {s1.addr - base}
  ELSE map

\* Stage B1: msb32 (Max) or lsb32 (Min) of every word, 0 for an empty word.
Word(map, w) == {b \in Bits : w * WordBits + b \in map}
Encode(map, Pick(_)) ==
  [any |-> {w \in Words : Word(map, w) # {}},
   loc |-> [w \in Words |-> IF Word(map, w) = {} THEN 0 ELSE Pick(Word(map, w))]]

\* Stage B2: msbW or lsbW picks the word, its local position is appended.
Search(e, Pick(_)) ==
  LET w == IF e.any = {} THEN 0 ELSE Pick(e.any)
  IN  [present |-> e.any # {}, best |-> w * WordBits + e.loc[w]]

\* The RAM and the search run on every edge, reset or not.  A read port with
\* no reader behind it returns a word nobody looks at.
Datapath(rd_addr) ==
  /\ level_qty' = RamAfter
  /\ rd_qty' = IF rd_addr \in Addr THEN level_qty[rd_addr] ELSE 0
  /\ b1' = [bid |-> Encode(bid_map, Max), ask |-> Encode(ask_map, Min)]
  /\ tob' = [bid |-> Search(b1.bid, Max), ask |-> Search(b1.ask, Min)]

-----------------------------------------------------------------------------
\* An edge with rst high, whatever the feed and the host present.
ResetEdge ==
  /\ resets < MaxResets
  /\ clr_busy' = TRUE /\ clr_addr' = 0
  /\ Datapath(NoAddr)
  /\ s1' = None /\ wb' = None /\ h1' = None
  /\ bid_map' = {} /\ ask_map' = {}
  /\ v_map' = FALSE /\ v_b1' = FALSE /\ tob_valid' = FALSE
  /\ host' = [st |-> "idle"]
  /\ resets' = resets + 1 /\ UNCHANGED updates

\* axi_ctrl's read channel on this edge: a book read is raised with ar_fire,
\* held until the bank acknowledges, and answered until the master takes it.
HostEdge ==
  \/ host.st = "idle" /\ host' = host
  \/ host.st = "idle" /\ \E a \in HostReads : host' = [st |-> "req", addr |-> a]
  \/ host.st = "req" /\ host' = IF h1.valid THEN [st |-> "reply"] ELSE host
  \/ host.st = "reply" /\ host' \in {host, [st |-> "idle"]}

\* An edge with rst low; upd is the feed's message or None.  h1.ready is a
\* history variable: the read went out after the clear had ended.
Edge(upd) ==
  LET upd_go  == upd.valid /\ ~clr_busy
      host_go == host.st = "req" /\ ~upd_go /\ ~h1.valid
  IN  /\ clr_busy' = (clr_busy /\ clr_addr # 2 * LEVELS - 1)
      /\ clr_addr' = IF clr_busy THEN (clr_addr + 1) % (2 * LEVELS) ELSE clr_addr
      /\ Datapath(IF upd_go THEN upd.addr ELSE IF host_go THEN host.addr ELSE NoAddr)
      /\ s1' = IF upd_go THEN upd ELSE None
      /\ wb' = IF s1.valid THEN [valid |-> TRUE, addr |-> s1.addr, qty |-> new_qty] ELSE None
      /\ h1' = IF host_go THEN [valid |-> TRUE, addr |-> host.addr, ready |-> ~clr_busy]
               ELSE None
      /\ bid_map' = MapAfter(bid_map, 0) /\ ask_map' = MapAfter(ask_map, LEVELS)
      /\ v_map' = s1.valid /\ v_b1' = v_map /\ tob_valid' = v_b1
      /\ HostEdge
      /\ UNCHANGED resets

Message  == [valid : {TRUE}, addr : Addr, delta : Deltas]
FeedEdge == /\ updates < MaxUpdates
            /\ \E upd \in Message : Edge(upd)
            /\ updates' = IF clr_busy THEN updates ELSE updates + 1
IdleEdge == Edge(None) /\ UNCHANGED updates

Next == ResetEdge \/ FeedEdge \/ IdleEdge
Spec == Init /\ [][Next]_vars

-----------------------------------------------------------------------------
(* The book these registers stand for.  An accepted update counts from the  *)
(* edge that takes it, while it is still in S1; a bank that is clearing its *)
(* RAM is an empty book.                                                    *)
Shown(bid, ask) == [bid |-> IF bid.present THEN bid.best ELSE -1,
                    ask |-> IF ask.present THEN ask.best ELSE -1]
WillShow(bids, asks) == Shown(Search(Encode(bids, Max), Max), Search(Encode(asks, Min), Min))

Nothing  == [shown |-> FALSE]
BookNow  == IF clr_busy THEN [a \in Addr |-> 0] ELSE RamAfter
UnderWay == [k \in 1 .. 3 |->
               CASE k = 1 /\ v_b1     -> Shown(Search(b1.bid, Max), Search(b1.ask, Min))
                 [] k = 2 /\ v_map    -> WillShow(bid_map, ask_map)
                 [] k = 3 /\ s1.valid -> WillShow(MapAfter(bid_map, 0), MapAfter(ask_map, LEVELS))
                 [] OTHER -> Nothing]
OnOutputs == IF tob_valid THEN Shown(tob.bid, tob.ask) ELSE Nothing

Ideal == INSTANCE Book WITH qty <- BookNow, due <- UnderWay, shown <- OnOutputs

\* What ties the registers together between two edges.  While the clear runs
\* nothing is in flight, the bitmaps are empty and the RAM is zero below
\* clr_addr; afterwards each bitmap marks exactly the occupied levels, and what
\* the forwarding path gives an update or a host read is the word in the RAM.
ClearIsQuiet == clr_busy => /\ ~s1.valid /\ ~wb.valid /\ ~v_map /\ ~v_b1 /\ ~tob_valid
                            /\ bid_map = {} /\ ask_map = {}
                            /\ \A a \in Addr : a < clr_addr => level_qty[a] = 0
MapsMatchRam == ~clr_busy => /\ bid_map = {i \in Idx : level_qty[i] # 0}
                             /\ ask_map = {i \in Idx : level_qty[LEVELS + i] # 0}
ForwardIsFresh == /\ s1.valid => Forward(s1.addr) = level_qty[s1.addr]
                  /\ h1.valid /\ h1.ready => /\ ~clr_busy /\ ~s1.valid
                                             /\ Forward(h1.addr) = level_qty[h1.addr]
BankInv == ClearIsQuiet /\ MapsMatchRam /\ ForwardIsFresh

BankTypeOK ==
  /\ clr_busy \in BOOLEAN /\ clr_addr \in Addr
  /\ level_qty \in [Addr -> 0 .. QtyMax] /\ rd_qty \in 0 .. QtyMax
  /\ s1 \in Message \union {None}
  /\ wb \in [valid : {TRUE}, addr : Addr, qty : 0 .. QtyMax] \union {None}
  /\ h1 \in [valid : {TRUE}, addr : Addr, ready : BOOLEAN] \union {None}
  /\ bid_map \subseteq Idx /\ ask_map \subseteq Idx
  /\ v_map \in BOOLEAN /\ v_b1 \in BOOLEAN /\ tob_valid \in BOOLEAN
  /\ host \in [st : {"idle", "reply"}] \union [st : {"req"}, addr : Addr]

\* The pipeline keeps the promise of Book: no update is lost to another one
\* on the same level right behind it, and each tob_valid pulse, four clocks
\* after its update, shows the book as that update left it and not a later
\* one.  Header of book_bank.v: "one pulse per update, fully applied".
ImplementsBook == Ideal!BookSpec

\* What the host reads once the clear has ended is the book at the moment of
\* the acknowledge, also when the read races the write of an update.
HostReadsTheBook == h1.valid /\ h1.ready => host_rd_data = BookNow[h1.addr]
=============================================================================
