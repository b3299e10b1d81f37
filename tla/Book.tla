------------------------------- MODULE Book -------------------------------
(***************************************************************************)
(* What one symbol's order book promises the trading path: every accepted  *)
(* update changes its level at once and on its own, and exactly Latency    *)
(* clocks later the top of the book as it stood right after THAT update is *)
(* shown, in order and without a gap.  BookBank shows how the RAM, its     *)
(* forwarding path, the bitmaps and the two-stage search keep the promise  *)
(* (src/NewArch/In-memory v1/rtl/book_bank.v, header).                     *)
(***************************************************************************)
EXTENDS Integers, FiniteSetsExt

CONSTANTS LEVELS,   \* price levels per side
          QtyMax,   \* largest quantity of a level: 2^QTY_W - 1
          Deltas    \* signed quantity changes the feed may send

VARIABLES qty,      \* quantity of every level, bids first, then asks
          due,      \* tops of book under way, due[1] is shown next
          shown     \* the top of book on the outputs, or Nothing

Idx      == 0 .. LEVELS - 1
Addr     == 0 .. 2 * LEVELS - 1
Qty      == 0 .. QtyMax
Latency  == 4
NoLevel  == -1
Nothing  == [shown |-> FALSE]

\* A level after a change: never negative, never past the RAM's width.
Clamp(n) == IF n < 0 THEN 0 ELSE IF n > QtyMax THEN QtyMax ELSE n

Bids(q)  == {i \in Idx : q[i] # 0}
Asks(q)  == {i \in Idx : q[LEVELS + i] # 0}

\* The highest occupied bid and the lowest occupied ask.
TopOf(bids, asks) == [bid |-> IF bids = {} THEN NoLevel ELSE Max(bids),
                      ask |-> IF asks = {} THEN NoLevel ELSE Min(asks)]

Empty == [a \in Addr |-> 0]
Idle  == [k \in 1 .. Latency - 1 |-> Nothing]

BookInit == qty = Empty /\ due = Idle /\ shown = Nothing

\* The clock moves every top of book one place on; `last` enters the line.
Advance(last) == /\ shown' = due[1]
                 /\ due' = [k \in 1 .. Latency - 1 |->
                              IF k = Latency - 1 THEN last ELSE due[k + 1]]

Update(a, d) == /\ qty' = [qty EXCEPT ![a] = Clamp(@ + d)]
                /\ Advance(TopOf(Bids(qty'), Asks(qty')))

Pass  == qty' = qty /\ Advance(Nothing)

Reset == qty' = Empty /\ due' = Idle /\ shown' = Nothing

BookNext == Reset \/ Pass \/ \E a \in Addr, d \in Deltas : Update(a, d)

BookSpec == BookInit /\ [][BookNext]_<<qty, due, shown>>
=============================================================================
